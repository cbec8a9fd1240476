# A verification project for niobium-client

TLA+ modules that model niobium-client, from the compiler of its language to the
server that executes a trace; TLC configurations that check them on small instances;
and proofs, checked by TLAPS, of what holds for every instance. Source paths are
relative to the root of the repository, whose sources are referred to as `src/...` in
`PROJECT.json` (so `src/src/fhetch_transport/server.cpp` is the file
`src/fhetch_transport/server.cpp` of the repository).

    tlc -workers 2 -config MCRunCapture.cfg RunCapture.tla # one run
    tlapm ServerProofs.tla                                 # the proofs of a module


## 1. The system

niobium-client lets a program written against OpenFHE, or in the language `nb`, run on
Niobium's FHE hardware or its simulator. The program is *recorded* once: its homomorphic
operations become a trace in a workload directory. It is *replayed* from then on: the
trace is compiled and executed elsewhere, and results come back as *probes*,
serialized ciphertexts under `serialized_probes/`.

| component | source | state it keeps | operations | here |
|---|---|---|---|---|
| archive format and packer | `src/fhetch_transport/archive.{h,cpp}` | none (files on disk) | `scan_directory`, `stream_archive`, `pack_directory`, name checks | modelled |
| streaming unpacker | `archive.cpp:210-326` | parser state, unfinished field, counters, open file | `feed`, `finish` | modelled, proved |
| buffered unpacker | `archive.cpp:328-380` | a cursor in a buffer | `unpack_into` | modelled, proved |
| forwarder | `src/fhetch_transport/client.cpp` | the project directory | one replay: scan, POST, extract | modelled, proved |
| replay server, requests | `src/fhetch_transport/server.cpp:342-537` | a temporary directory per request | the handler of a replay | modelled, proved |
| replay server, `run_capture` | `server.cpp:219-340` | pipes, children | spawn, read, wait | modelled, proved |
| replay server, shutdown | `server.cpp:539-613`, `vendor/cpp-httplib` | listener socket, mutex, pool | `main`, signal handler, `listen`, `stop` | modelled, proved |
| auto-facade hooks | `src/auto_facade/AutoFacade.cpp` | mode, maps by ciphertext address, counters | hooks on (de)serialize, decrypt, make plaintext; atexit | partly, proved |
| Python SDK | `python/niobium_sdk/` | endpoint and token | `provision`, `run`, `submit` | partly, proved |
| `nbcc.py` driver | `tools/nbcc.py` | configuration files, a trace on disk | options to a run | modelled, proved |
| replay integrity check | `dsl_fhe/tools/verify_replay_integrity.py` | a manifest | snapshot, verify | modelled, proved |
| `nb` lexer and parser | `dsl_fhe/xcomp/{lexer,parser,ast_nodes}.py` | a position in the tokens | every token and production | modelled |
| `nb` module loader and name resolver | `dsl_fhe/xcomp/modules.py` | modules loading and loaded, the merged program, scopes | load, find files, parse, resolve, merge | modelled, proved |
| `nb` parameter overrides | `dsl_fhe/xcomp/params.py` | the program's constants | `--set`, `--scheme` | modelled, proved |
| `nb` semantic analyzer | `dsl_fhe/xcomp/{semantic,nb_types}.py` | scopes, depths, errors | five passes | modelled |
| Chebyshev fit | `dsl_fhe/xcomp/chebfit.py` | none | evaluate a closure, choose a degree | partly |
| `nb` schedule builder | `dsl_fhe/xcomp/schedule.py` | none | read the steps off an entry point | modelled |
| `nb` code generator | `dsl_fhe/xcomp/codegen.py` | beliefs about each variable; the generated program's files | C++ of functions, of stages, of wires | partly |
| `nbc` command line | `dsl_fhe/xcomp/nbc.py` | an output directory | compile | partly, proved |
| fog command line, archive binding, `ScopedPause`, examples | `scripts/fog`, `python/archive_binding.cpp`, ... | | | not modelled |

How they interact. A program in `nb` goes through lexer, parser, loader, resolver,
overrides, analysis, generation and schedule, one after the other, and comes out as C++
files and a schedule. What is generated, like any OpenFHE program, calls the `Compiler` of
a submodule, whose replay runs the forwarder as a program; the hooks do so for programs
that were not written for it. The forwarder packs the project directory, POSTs it to the
server and unpacks the archive it gets back over the project; the SDK does the same for a
worker it has provisioned. The server's request threads unpack the body as it arrives, run
the compiler through `run_capture` and pack the probes it wrote. `nbcc.py`, the SDK and
the integrity check meet in one workload directory and know of each other only by its files.

What is hard about it, and what must hold nevertheless:

- *Any cut of a stream.* The body of a request arrives in spans cut anywhere, with
  lengths the sender chose. No byte may be lost, and `finish()` must tell an archive
  from a prefix of one. The other reader of the format does `size_t` arithmetic on lengths.
- *Two machines and a directory.* The forwarder may time out while the server goes
  on; either may be killed; the project holds the probes of an earlier replay. The
  probes on disk must never be a mixture, and success must mean fresh ones.
- *Shared descriptors.* Pipes are made without `O_CLOEXEC`, so children inherit each
  other's pipes: end of file is delayed by strangers.
- *Signals.* The handler takes a mutex and stops the listener from whichever thread
  it interrupts.
- *Two processes that agree by names.* A recording and a replay of one program share
  only names that both derive from counters, file stems and addresses. A generated
  stage finds its own results again by names and by counting until one is missing.
- *Beliefs.* The compiler decides from what it believes of each variable whether an
  operator is an FHE call, how deep a circuit is, which side may run it, which file a step
  reads. A belief that outlives its block yields another program.
- *Tools that share a directory.* Configurations truncated before they are written, runs that
  overlap, a process that is killed between two files.

`PROJECT.json` lists 40 such hazards at the lines where they bite, and the properties
that watch them.


## 2. The modules

*Transport* and *facade*, one state machine each:

| module | models | an action is |
|---|---|---|
| `ArchiveFormat` | the wire format, `append_le`/`read_le`, the name checks, packing, extraction | (operators only) |
| `EntryStream` | *abstract*: what a receiver of archives promises, with no wire format | announce, open, extend, deliver, reject, accept |
| `ArchiveUnpacker` | `class ArchiveUnpacker` | a call of `feed()`, one turn of its loop, `finish()` |
| `BufferedUnpack` | `unpack_into()` | the header, or one entry of the loop |
| `ReplayTransport` | `main()` of the forwarder and the server's request handler | a step of either between two effects another process can see |
| `RunCapture` | `run_capture()` in concurrent threads, and the child | one system call |
| `ServerShutdown` | `main()` and `shutdown_handler()` of the server over `listen()`/`stop()` of cpp-httplib | a step between two instants at which a signal may arrive |
| `AutoFacade` | the hooks under a program of arbitrary operations, in process after process | one operation of the program with the hook it calls |

*One workload directory*, three modules and their composition:

| module | models | an action is |
|---|---|---|
| `WorkloadDir` | the files, their times and inodes, who wrote what, which the others share; the check before and after a replay | snapshot, verify |
| `NbccDriver` | `nbcc.py`, and from outside the program and the driver it turns into | options, open, write, exec, record, replay, kill |
| `FogClient` | `provision()`, `run()`, `submit()` of the SDK | one request, one poll, pack, reply, clean, one entry, return, kill |
| `Workload` | all of them on one directory | one of theirs, or a disturbance of the files |

*The compiler*, in the order of its passes:

| module | models | form |
|---|---|---|
| `Lexer` | `lexer.py` | recursive functions over a text |
| `Parser`, `Ast`, `NbTypes` | `parser.py`, `ast_nodes.py`, the types of `nb_types.py` | every production as an operator on a parser record |
| `ModuleLoader` | `modules.py`: `ModuleLoader` | a state machine: the stack of modules being parsed, search, parse, resolve, merge |
| `NameResolver` | `modules.py`: `NameResolver` | operators on trees and scopes |
| `Params` | `params.py` | operators on the items of a program |
| `Semantic` | `semantic.py`, `nb_types.py`, `chebfit.py` | operators on an analyzer record, on closures and on degrees |
| `StageSchedule` | `schedule.py` | operators: a program to its steps |
| `StageCode` | `codegen.py`: expressions, statements, functions, and the cleartext twin of each | operators: a tree of `nb` to a tree of C++ |
| `Nbc` | `nbc.py compile` | a state machine: load, override, analyse, generate, schedule, one file at a time; then a second compilation into the same directory. The analyzer and the schedule builder are constants (`Analyzed`, `Scheduled`), to which `MCNbc` gives the operators of `Semantic` and `StageSchedule` |
| `StageProgram` | `codegen.py`: the program around a `@hardware` stage, the files of its wires | a state machine: one probe, one call of the compiler, one file; processes one after the other |

Two modules are references that model no code: `Meaning` (circuits with calls inlined, closures by
substitution, an entry point run step by step) and `CodeMeaning` (what an `nb` function returns, and what the
generated C++ returns, if a C++ compiler takes it). The references of the front end, longest matches and trees printed by the
precedences of the grammar, are in `Lexer` and `MCFrontEnd`.

The `.cfg` files give the constants small values, some of them by definitions of the `MC*` module beside
them; `MCRunCapture.cfg`, `MCReplayTransport.cfg`, `MCServerShutdown.cfg` and `MCAutoFacade.cfg` need none and are run on
`RunCapture`, `ReplayTransport`, `ServerShutdown` and `AutoFacade` themselves. `MCNbcDepths.cfg`, `MCAutoFacadeInputs.cfg`, `MCAutoFacadeAddresses.cfg`, `MCStageProgramIndexed.cfg` and
`MCWorkloadConfig.cfg` belong to no run: each shows one of the divergences of section 5.
`*Proofs` modules hold theorems (section 4). Operators named `Bug...` stand before the
definitions they are a plausible mistake of. They are in no specification: each documents an
error of the code that the property named in `PROJECT.json` under `mutants` does detect.

### Correspondence with the code

**ArchiveUnpacker.** The variables are the members of the class (`state_`, `pending_`,
`need_`, `count_`, `done_count_`, `cur_name_`, `data_remaining_`), the rest of the span
in `chunk`, and the directory in `disk`, a function from names to contents. `fed`,
`entries`, `accepted` and `ioError` are history. Each of the seven states has its
action; a file system that refuses is `OpenFails` and `WriteFails`. Bytes are digits in
base `Base` and fields have two of them rather than four or eight; the two name
validators are two sets of names.

**BufferedUnpack.** Positions are numbers modulo `Word`, as `size_t` is modulo 2^64, so
the check `pos + data_len > size` wraps in the model where it wraps in the code. The
flush a destructor does without telling anybody is `FlushFails`.

**ReplayTransport.** An attempt is one run of the forwarder; its request has the same
index. A project file is a name and the attempt that wrote it (0 for the trace). An
archive is the set of its entries: the unpacker modules justify this. `code` is the exit
status of `main()` (0 to 6, or 137 when it is killed). `Killed` and `Crash` may come
between any two steps; a part of the old probes may be removed, or one file be short,
when the forwarder dies. Each return of the handler is an action of its own: no directory, a body cut off or refused, no
compiler, a compiler that could not be spawned or failed, no probes, an exception. Each but the exception removes the
temporary directory and does not look whether that worked (`fs::remove_all(tempdir, ec)`); `kept` are the requests whose directory
stayed. `ExistsThrows` is the call of `exists()` without an error code, which takes the handler past all of it.

**RunCapture.** `open` is the part of the server's descriptor table that holds pipe ends;
`held[t]` is what the child of `t` inherited. A unit of output is a number in `pipe`, `log`
and `printed`; since a pipe is a queue, completeness is equality of lengths.

**ServerShutdown.** `frames[t]` is the stack of signal handlers thread `t` is in. The model
of `std::signal` is glibc's: the handled signal is blocked while its handler runs, the
other one is not. `Asserts` is the build without `NDEBUG`. A client is a connection: `queued` in the kernel, accepted, and then
silent or not (`Speak`), for a worker hangs up on one from which nothing can be read once the server stops (`keep_alive`). `AcceptFails` ends the
loop of `listen_internal()` and makes `listen()` return false; the retries for `EMFILE` and `EINTR` change nothing. The later
requests of a connection that is kept alive are not modelled.

**AutoFacade.** A ciphertext is known by the position of the operation that made it, and its
correct value is that position; what `decrypt` or `serialize` hands out is compared with it. Two allocators are part of the
model. One is the program's: the hooks use addresses for identity, and a freed address may be given out again, to any ciphertext
the program or `result()` makes. The other is the accelerator's, by whose slots the trace finds its inputs: keys, loads, recorded plaintexts and
recorded operations take a slot each, replayed operations and rehydrated plaintexts none (`AutoFacade.cpp:521-525`). `replay()`
computes a probe rightly if each input it depends on is in the slot the recording gave it, and nothing else is (`Backed`). So what
`nbcc.py:108-110` reports, inputs at other addresses than the trace expects, happens here: it is a load behind anything that took
slots in the recording only. Paths are distinct after the hooks have escaped them.

**Workload.** A file is `[data, mtime, inode]`, so that the check sees of it what `stat()` and a
hash show; `touched` is history. A name is its directories, its suffix and the substrings the
tools look for. A configuration is its own digest. Runs of `nbcc.py` overlap in every order, also runs with the same options, which share
a file: `robbed` are the runs whose configuration another one truncated before they read it. A submission or a check goes on only while
no run of `nbcc.py` does, as in the Makefiles, and no two programs record into the directory at a time.

**Front end.** A token is its text, a node a tuple with its tag first, a name the sequence of its
components. A parse error is position 0, which every method hands on. Lines and columns are left
out. The loader works on *worlds*: files, what they declare, use and refer to, and the search path.

**Semantic, Params, StageSchedule.** Trees are those of the parser with literals by kind. A type
keeps its kind, its depth and whether it is encrypted: nothing else about it decides anything. The
table of builtins is a constant. A text behind `--set` is the function from the kinds it can be
read as to its values. Floating point is replaced by whole numbers, and how well a degree approximates a function
is the constant `FitError`.

**StageCode.** The generator's state, handed from statement to statement: which variables are
believed encrypted, plain, loaded as a wire, of which C++ type, already declared. Its output is
a tree: FHE calls, calls of the cleartext runtime, C++ operators. Text, formatting and headers are
left out. The twin is generated by the same operators with `twin` set, as the code does.

**StageProgram.** A process has its arguments, a set of parameters and the `--hollow` flag;
`todo` is what the generated `main()` has yet to do. The compiler's `probe`, `stop`, `is_cache_valid`,
`replay` and `result` are external and known from how they are called. How long the sequences of a result are, `shape`,
may differ from batch to batch. Names are sequences of words because C++ joins them with `_`, which forgets where one
ended; that is how two names become one.
What a stage `writes` is a wire, an indexed wire with its `index`, or nothing; a simple type is a wire of one ciphertext, for it is
written and loaded as one. `writes_plaintext` of ciphertexts, and two wires or two indexed wires in one clause, yield no program that
compiles. The cache key takes the argument behind its position in the list, as the generated code does. Left out: a clause of one wire *and* one
indexed wire, the directory `intermediate` of a wire of that name, and a `SerializeToFile` that fails, which throws and ends
the process like a kill.


## 3. The runs

| run | question | bounds | states | result |
|---|---|---|---|---|
| `archive_unpacker` | is the streaming unpacker exact, however the body is cut? | bodies of ≤ 16 bits, spans of 1-3, fields of 2, names of 1-2 | 20,591 | holds |
| `buffered_unpack` | is the other reader, when lengths lie and sums wrap? | 64-value words, 0-2 entries, every truncation, one byte too many | 19,277 | holds |
| `transport` | what is on disk after replays that may fail, time out, be killed? | 2 attempts, 1 server crash, 2 trace files, 3 probe names, one of them refused, any removal failing | 457,947 | holds |
| `run_capture` | complete logs, no leaks, everyone returns? | 2 threads, pipe of 2, output ≤ 3 | 25,264 | holds |
| `shutdown` | drained exits, handlers that return, an end? | 2 workers, 2 connections, silent or not, 3 signals, an `accept()` that fails | 237,142 | holds |
| `auto_facade` | do outputs of a replay equal those of the program? | 6 operations, 3 processes, 2 stems, 1 file, addresses reused in every way | 4,253,223 | holds |
| `module_loader` | which programs load, in which order, and does loading end? | every import graph of 3 modules and the root; 3 files over 2 directories, one that does not lex and one that does not parse; schemes, capabilities, names | 51,046 | holds |
| `front_end` | are texts split, trees read and names resolved as they should? | texts ≤ 4 over 15 characters, comments ≤ 7; trees of two levels, types of four, pairs of declarations; functions of nested bindings | 278,086 | holds |
| `compile` | is each analysis right about the program, and the C++ the program? | six families of programs (circuits, fits, options, sides, schedules, code), and a second compilation into the directory | 75,294 | holds |
| `maps` | "map applies its function to each element" (`NB_LANGUAGE.md:760`) | one closure of one operator | | **violated** |
| `stage_program` | does a replay write what a recording would, and load back? | 26 stages, 3 processes, 2 batches, 2 parameter sets, 2 encryptions, kills | 2,659,206 | holds |
| `workload` | do the tools of one directory keep their promises? | 2 runs of `nbcc.py` with 7 command lines, 1 submission by job or endpoint, 1 snapshot, 3 changes, kills | 890,615 | holds |

### What the properties say

*Unpackers.* `NothingLost`: the bytes fed are always the decoded part, the unfinished
field and the rest of the span. `UnpackExact`: a normal `finish()` means the body was, to
the byte, the archive of the extracted entries, which are on disk (`UnpackSound`); unless the disk fails, `feed()` throws at
no prefix of an archive and `finish()` not behind a whole one (`UnpackComplete`). `ReadsInBounds`: the buffered reader stays
in its buffer. `PackedExactly`: it inverts the packer up to a lost flush (`ReverseOfPack`), and of a packed archive it
refuses neither the header nor an entry (`AcceptsPacked`). `Promise`: both implement `EntryStream` (the buffered one up to the
first lost flush).

*Transport.* `Fresh`: after a successful replay the project holds exactly the probes of that
replay. `OldOrNew`: the probes on disk, in whatever state, come from one replay, and old ones are
touched only once the server has answered with an archive. `DirectoriesRight`: the compiler runs
on all the forwarder scanned, or not at all; a directory outlives its request only if the server was killed, if its removal failed or if
an exception took the handler past it, whichever of its returns was taken; and none is removed under a request that uses it.
`ExchangeEnds`: neither side waits for ever.

*run_capture.* `ReturnsRight`: all of the output, and the status of one's own child.
`PipesRight`: nothing leaks, and a thread that waits for the end of a pipe whose child is gone
waits for another thread's child that is running, so that no cycle of waits arises. `Returns`.

*Shutdown.* `Drains`: a server that leaves `listen()`, for a signal or because `accept()` failed, has answered every connection
it had accepted whose request was there when a worker looked; it hung up on silent ones only, and what the kernel alone
had queued is reset. One signal never ends it in the middle of a request. `StopEnds`, `HandlerReturns`:
the process ends, an interrupted thread goes on; both carry the exception that one handler
interrupts another, because the second waits for a mutex its own thread owns.

*Facade.* `OutputsCorrect`: what leaves the program is what the program computes, in every
mode and order of outputs, however often each ciphertext is put out. A replay may go wrong for three reasons that the formula names, and
no other: the program loads a ciphertext behind an operation, a plaintext or an output, or makes a plaintext behind an output; it
serializes two ciphertexts under one stem; or a `Decrypt` took a new ciphertext for one that had been at its address
(`mistaken`, in the recording or in the replay). `SameTags`: a replay tags its inputs and keys under the names
of the recording; at the same slots a plaintext always, the keys and a ciphertext if nothing before them took slots in the recording only.

*Loader.* `LoadsWellFormed`: a program loads exactly when the graph of its imports, the files
and the names in them are well formed. `DependenciesFirst`: each module is merged once, behind what it imports.
`MergedWhole`: everything needed and nothing else, one scheme, all capabilities. `Ends`.

*Front end.* `LongestMatch`: the tokens are the longest ones, with nested comments between
them. `ReadBack`: every tree is read back from its tokens, parenthesised no more than the
precedences ask for. `SameMeaning`: resolving a name keeps what it is bound to.

*Compilation.* `DepthsRight`: the depth observed is one that inlining every call reaches, and all of it in a circuit made of products,
signs, lets, branches and `chebyshev()`, with the levels of OpenFHE's table.
`DomainsKept`: no accepted `@server` function calls for a key, and none is refused for a call it does
not make. `FitsTheFunction`: a closure is evaluated to what its body means, with `--set`
constants. `OverridesMeant`: which declarations change depends on the set of options alone.
`OutputsWhole`: all files or none, and a schedule exactly if there is one. `ScheduleRuns`: the
steps are what the entry point runs, for all arguments tried. `CodeMeansSource`: the C++ and its twin
return what the function returns, or a C++ compiler refuses them; on the *tame* programs they compile.

*Generated programs.* `SavesRight`: a process that ends well has left in every file what the
stage computes of its own arguments and inputs, recorded or replayed. `LoadsBack`: the next stage loads
what this one returned, a wire from its directory, an indexed wire of one ciphertext from the file whose name it puts together. `RecordingEnough`: a replay never lacks a result. Their preconditions
(names apart, a whole cache key, saves on every path, no empty row, matrices of as many rows) are divergences of section 5.

*Workload.* `ReadsOwnConfig`: a run reads the options of its own command line; or nothing, and that only when a run with the same options
has truncated the file in between. `VerdictRight`:
PASS and FAIL of the integrity check mean what the tool says. `SubmitDelivers`: when `submit()` returns it has
posted the recording on disk to the right worker, and the probes are those of the reply.
`ProvisionEnds`.

### Why the bounds are enough

In the unpacker every field can be cut and every state entered twice, with two entries and a third
byte behind the last; a 2-digit field has a first, a middle cut and a last. `Lists` are the lists of entries whose
archives must be accepted: here all that fit the bounds (`MCLists`), in the proofs any set of them. In the transport the
abandoned request of attempt 1 runs beside attempt 2, and one crash hits either; `ReplayTransportProofs` covers
any number of attempts. In `run_capture` two children can inherit from each other in both orders, and the output
exceeds the pipe; the proofs cover any set of threads. In the shutdown three signals suffice for a
handler that interrupts a handler beside a third in another thread. In the facade six operations
allow load, eval, release, another ciphertext at the same address and two outputs, or load, eval and four outputs, in any order; two processes
record and replay, a third allows a recording that was killed first. Four modules close a cycle anywhere, and share a module on it. Two levels
of expressions put every operator under and beside every other. Families of programs cross two expressions
with every kind of place a belief can come from or go to (let, loop, branch, match arm, tuple, comprehension,
map, call). Three processes record, are killed, and replay with other arguments. Two runs of `nbcc.py` overlap in
every way two can, with the same options or others, but for two recordings at a time. The names of bounds are `MaxBytes`, `MaxAttempts`, `MaxCrashes`, `MaxOutput`, `MaxSignals`, `MaxSteps`,
`MaxRuns`, `MaxJobs`, `MaxChanges`, `MaxInputs`, `TextLength`, `CommentLength`; `MaxCallDepth` is 16 in the code (`chebfit.py:59`) and 4 here.

Deadlock is not checked in any run: each system comes to an end (a finished unpack, all
replays done, the process gone). That nothing stops *too early* is what the liveness
properties are for. Type invariants are stated in each module; the runs check that of the streaming unpacker, whose
conjuncts about lengths and counters a mistake of the code does break.

### Fairness

- `ReplayTransport`: weak fairness of the forwarder once started, because its waits end by
  the read and write timeouts set in `client.cpp:210-218` (the step `PostFails`), and of each
  request thread, assuming the compiler it waits for ends. The code sets no limit on the
  compiler (`server.cpp:484`). A request that waits for its body is not made to fail: it ends because the forwarder does. No fairness
  is assumed of crashes, kills or the restart.
- `RunCapture`: weak fairness of each thread and of its child, who prints and exits. Without it
  a compiler that hangs keeps its thread: the assumption is the code's own.
- `ServerShutdown`: weak fairness of main, workers, handlers and of delivery of a pending
  signal. Workers answer what they serve: that is `Returns` and `ExchangeEnds`. That `accept()` fails or a client speaks is not
  counted on.
- `ModuleLoader`: weak fairness of its one thread.
- `Workload`: weak fairness of the next request of `run()` while it is provisioning: every request has
  a timeout of 60 s (`scripts/fog:175`, which `fog.py` uses). Nothing is assumed of the worker.

No liveness is claimed for the unpackers, the facade and the compilation, which are sequential.


## 4. What is proved

Eight modules hold proofs; each theorem below is for every value of the constants that satisfies
the assumptions, where the run of the same property is one instance.

| module | theorem | states |
|---|---|---|
| `ArchiveUnpackerProofs` | `Invariance` | `Spec => []IInv` |
| | `TypeCorrect` | `Spec => []TypeOK` |
| | `NoByteLost` | `Spec => []NothingLost` |
| | `FinishExact` | after a normal `finish()` the bytes fed are magic, count and the frames of the entries extracted, as many as announced, all of acceptable names |
| | `UnpacksSoundly` | `Spec => []UnpackSound` |
| | `UnpacksExactly` | `Spec => []UnpackExact`: what is accepted are the archives and nothing else |
| | `KeepsPromise` | `Spec => Promise`: the unpacker implements `EntryStream` |
| `BufferedUnpackProofs` | `BufferedTyped` | `Spec => []TypeOK` |
| | `NeverReadsOutside` | `Spec => []ReadsInBounds` |
| | `InvertsPack` | `Spec => []ReverseOfPack` |
| | `UnpacksWhatWasPacked` | `Spec => []PackedExactly` |
| | `KeepsPromise` | `Spec => Promise`: the loop implements `EntryStream` until a flush is lost |
| `ServerProofs` | `CaptureTyped` | `CaptureSpec => []CaptureTypeOK` |
| | `ReturnsWhatWasPrinted` | `~AutoReap` implies `CaptureSpec => []ReturnsRight` |
| | `PipesGivenBack` | `CaptureSpec => []PipesRight` |
| | `ShutdownDrains` | `Spec => []Drains` of `ServerShutdown` |
| `ReplayTransportProofs` | `SuccessIsFresh` | `Spec => []Fresh` |
| | `ProbesAreOldOrNew` | `Spec => []OldOrNew` |
| | `CompilesWholeProjects` | `Spec => []DirectoriesRight` |
| `AutoFacadeProofs` | `TagsAgree` | `Spec => []SameTags`, whatever the two allocators do |
| | `OutputsRight` | `Spec => []OutputsCorrect`, if no stem is an `OutputName` |
| `WorkloadProofs` | `RunsReadTheirOwn` | `Spec => []ReadsOwnConfig` |
| | `VerdictIsRight` | `Spec => VerdictRight` |
| | `SubmitDeliversReply` | `Spec => SubmitDelivers` |
| | `WorkloadTypes` | `Spec => []TypeOK` |
| `CompilerProofs` | `LoaderTyped` | the stack, the modules loaded and what is merged keep their types |
| | `LoadsDependenciesFirst` | `Spec => []DependenciesFirst` |
| | `LoadsTheWellFormed` | `Spec => []LoadsWellFormed`: loaded only if well formed, refused only if not |
| | `MergesTheWhole` | `Spec => []MergedWhole` |
| | `OverridesMeantAlways` | `NbcSpec => []OverridesMeant` |
| | `OutputsWholeAlways` | `NbcSpec => []OutputsWhole`, whatever the analyzer and the schedule builder return |
| `StageProgramProofs` | `RightlySaved` | `Spec => []SavesRight` |
| | `RecordsEnough` | `Spec => []RecordingEnough` |
| | `LoadedBack` | `Spec => []LoadsBack` |

*Assumptions* are named in the modules that declare the constants and evaluated by TLC in the runs:
`BaseAssumption`, `MagicAssumption`, `NameAssumption` (`ArchiveFormat`), `SpanAssumption`
(`ArchiveUnpacker`): a byte has at least two values, the magic is not empty, `kMaxNameLen` fits the field of a
length, names passed by `validate_relative_path` are not empty, spans are not empty. `ListsAssumption` (`ArchiveFormat`):
the lists whose archives must be accepted have names that both validators pass, and counts and lengths that fit their
fields. `WorldsAssumption` (`ModuleLoader`): the files on disk are a list, and a program has one at least. `JobsAssumption` (`Nbc`): a program and its options are
sequences, a constant has a name of one component or two (its module and its own), a scheme block has its fields, and a text that
reads as a whole number reads as a number. `CaptureAssumption`: statuses fit a
byte. `TransportAssumption`: the bounds are numbers. `ShutdownAssumption`: `None` and `Main` are nobody
else. `ResponsesAssumption` (`BufferedUnpack`): a buffer is shorter than half of the address space, as every object
is. `FacadeAssumption`: the bounds are numbers. `FogAssumption`: a caller has something
to look an endpoint and a token up in, `fog-api` answers with a worker and a ticket (`fog.py` refuses an answer without),
and what a worker sends is unpacked under `serialized_probes/`. `WorkloadAssumption`: the files a directory holds to
begin with, and those the tools write, have names the model knows. `WordsAssumption` (`StageProgram`): numbers that differ
are written differently, and none as `.bin`. `StagesAssumption` (`StageProgram`): the fields of a wire have names of their own, and a result has a length for each of
its sequences. `OutputsRight` has one hypothesis of its own, without
which a file serialized under `output_0` takes the probe of the first decrypt (`AutoFacade.cpp:664`). That `SIGCHLD` is not ignored is an assumption of one theorem, where the code goes wrong without it (section 5).

**The unpacker.** `NothingLost` is not inductive: whether a turn may subtract from `need` and
`remaining`, and what it adds to the decoded part, depends on how the parser's state, its
wanted length and its counters go together. `Shape` says how (in `Data` nothing is pending, something
remains and the current file exists; in a field state less is pending than needed; entries done are
below the count exactly while more are expected). The inductive invariant is

    IInv = TypeOK /\ (running => Shape /\ fed = Decoded \o pending \o chunk)
                  /\ (ok => Done, chunk empty, Shape, fed = Decoded)

Completeness compares what was fed with the archive of a list `l` that continues it. As long as there is one, the entries
are the first of `l`, nothing was refused, and the field that is awaited is the field of `l` that comes next (`CInv`). What arrives is that
field (`AwaitedComes`, `FieldAwaited`), since a frame determines its entry (`FrameIsOne`: lengths stand before what they measure, and
two numbers with the same digits are equal). A body that ends early is shorter than the archive (`TooShort`).

`FieldMoves` shows once that a completed field passes from `pending` and `chunk` to the
decoded part; one lemma per action builds on it. The refinement maps `announced` to the
count once read, `received` to `entries`, `current` to the open file; `Announce`, `Open`,
`Extend`, `Deliver` are matched by the turns of the loop and everything else is a
rejection, an acceptance or a stutter.

**run_capture.** `Stage(t)` ties where a thread is to what its pipe and its child are (both ends
open until the spawn, the write end in its own running child, log and pipe together what was
printed). A step of another thread touches none of it (`Untouched`) except by inheriting ends; that end
of file proves the child dead is `EndOfFileKeeps`, for a running child holds its own write end.

**The transport.** An attempt uploads no probe (`Uploading`); what its request has unpacked is what was sent, and
all of it once the compiler runs, so that the probes found behind the compiler are its own
(`Handling`); the forwarder touches the project only with these in its hands (`Extracting`); and at most one
forwarder is at work (`Sequential`). `HandlerStep` and `ForwarderStep` show once what a step of one attempt leaves of the
others; every action then needs only its own attempt.

**Shutdown.** The listener is gone, or its socket stale, before the pool is joined, so nothing is queued behind the last
answer (`Ordered`); a worker looks for a request before it hangs up, so only the silent lose their connection (`Silent`). While one signal was sent there is one handler at most, and it finds the socket as `main()` left
it: `stop()`'s assertion cannot fail (`Alone`).

**The loader.** `DependenciesFirst` needs that the stack of modules being parsed is a path of imports
without repetition, that a module that has been merged has all its imports before it, and that what
a frame has still to load is the rest of its own list. `LoadsWellFormed` speaks of closures: what a module reaches is the least set
that holds its imports and theirs. A module on the stack is reached from every one below it (`Path`), so an import found on the stack is one that reaches
itself, and every error is one of the program; behind the last import what is loaded is a closed set, and so is every
beginning of the order, so that nothing outside it is reached and nothing reaches itself (`RootFinds`). `MergedWhole` needs besides
that `_merge()` keeps the scheme it has found (`MergedSchemes`) and that a flattened sequence holds what its parts hold (`FlattenRange`).

**The driver.** Applying the options is a loop that stops at the first one refused. What the first `n` of them have made of the program is said
without the loop (`SetUpTo`, `SchemeUpTo`): they are accepted as long as each names one declaration, reads as its type, and no two name
the same, and then a declaration has the value its own option gives it, or the one it had. That the loop does this is proved by induction over the
set of numbers for which it fails, as below; `SetOneMore` and `SchemeOneMore` are the steps, `MatchesTarget` and `LiteralIs` what one option
does. Since `SetUpTo` does not speak of the order of the options, neither does what `OptionsMean` concludes. The files are simpler:
`NbcInv = JobInv /\ FileInv` says that nothing of a job is on disk before it writes, and that while it writes, the files
pending and those written are all of its `Outputs`; none of it looks into an analysis.

**The buffered unpacker.** `BInv = TypeOK /\ Size < Word \div 2 /\ Consumed /\ Unlost`. Since the buffer is shorter than half
of `Word`, a sum of a position and a length either is what it should be or has wrapped to less than the position; in the
second case the length is negative as a `streamsize`, and the write fails. So the cursor moves only when nothing wrapped,
and `Consumed` says that what it has moved over is the header and the frames of the entries. `Unlost` ties the disk to the
entries while no flush was lost. That a packed archive is accepted needs that the cursor stands where the next entry of the list
begins (`InStep`, `Located`): there the lengths are those of the entry (`EntryFound`), nothing wraps, and no check fails.

**Recursive functions.** `Pack` and `Extract` fold over the list of entries. That a fold over a list with one more
entry is the fold of the list followed by that entry is proved by induction over the set of the lengths for which it
fails: that set has no least member (`SetInduction` of the library is stated for a set, and so needs no operator).

**The facade.** Everything follows from one fact: what a process has done so far is a prefix of the recording, as
long as it replays. `TInv` says what a script determines, the names of its inputs (`Named`) and the slots of those in front (`InPlace`): the counters of the hooks are the number of loads of
the same path, or of plaintexts, before a position, and the number of elements of a set of positions is what a prefix and the recording
have in common, and so is the number of slots taken, as long as nothing before took one in the recording alone. `OInv` adds what a
recording leaves in its probes (`Recorded`), what the maps by address know (`Knows`), and that these agree with what replay has
computed (`Replaying`). All of it is `Core`, and it is invariant only as long as nothing has happened that `OutputsCorrect` leaves out, so what
is inductive is `Good => Core`: a reused address is `mistaken` at the very step at which the maps first mislead a `Decrypt`, so that
everything before is still `Core`. `Plain` is what is true even then: before it has results a replay, like a recording, hands out
the program's own values.

**The workload directory.** One invariant for each tool. For a run of `nbcc.py`: a file holds the configuration it is named for, or nothing
(`FilesWhole`), and nothing, once a run has written it, only if the run is `robbed` (`Knows`); all who share a file write the same into it. For the check: a file of the snapshot that was not
touched is still the same, one that was touched is younger or has another inode (`Remembers`); that no file is younger than the clock makes
the time stamps mean something. For the client: where it is in `submit()` says what it has posted and which probes are on disk. `FirstIsTaken`
is why a ticket wins over the environment.

**A generated stage.** What is left of `main()` (`todo`) says what has been done. A recording has its saves first, then the
probes of the result, then `stop()`; a replay has `replay()` first, and its saves are restored behind the fields (`Ordered`,
`RecordingIs`, `ReplayIs`). So once a save, or what restores it, is not left any more, its files and the probes under its stems are what the stage computes
of this process's arguments, and so is what any recording in the cache holds under them, but for the inputs, which `replay()` replaces
(`SInv`). It stays so because no later step writes there: stems are not shared (`SavesApart`), nor are files, also not with a save of
plain values (`FilesApart`), what the result probes begins with `result` (`ProbedNames`), and the files of the wire are all under the directory of outputs
(`WireUnder`), by what a flattened sequence of sequences holds (`FlattenRange`). For the last, the result must have the shape of
the wire whoever made it (`RInv`). `EInv` is the weaker fact that a probe is there, whatever its value; it needs neither
names apart nor a whole cache key, only that the saves are unconditional, and it leaves `replay()` as the only step that can fail.

`LoadsBack` asks for more than right values: a loop that loads stops at the first file that is not there, so *no* file may be there beyond
the last element. `LInv` says so in four parts. A recording, and the probes of a process that is past its own, `Matches` each field: under its base name
there is an element exactly where the result has one (`PInv`). So the loops of rehydration end where they should, and the result's fields are
what the stage returned (`CInv`). Every file of the result is left to be written or is there with its value (`WInv`), for no two writes of a wire have a path in common
but with the same value: the directories that matrices share (`WrittenOnce`). And every file in a directory of outputs is one of some field of some batch (`FInv`); with
`Steady` it is one of this batch, with names apart one of the field that asks for it (`SameFile`, `SameRowFile`), or of a matrix with as many rows (`SameDir`).
That is for wires; an indexed wire has one file for each of its fields and each index (`IndexedIs`, `WrittenUnder`), and if it is of one ciphertext
that file is all there is to find (`IndexedLoads`).
All of it rests on names: an element's name begins with the name of its field, and two that begin one name are equal (`OneField`, `OneBase`).

*Only model-checked*: of the compiler, the lexer, the parser and the resolver (`MCFrontEnd`: `LongestMatch`, `ReadBack`, `SameMeaning`), the
analyzer, the fit, the schedule and the generated code (`MCNbc`: `DepthsRight`, `DomainsKept`, `FitsTheFunction`, `ScheduleRuns`,
`CodeMeansSource`). Each says what a recursion over a text or a tree computes for every input, which is induction over data, and most of their modules
declare `RECURSIVE` operators, for which the prover has no backend. And liveness everywhere, which needs fairness and `ENABLED`.


## 5. Where the code and its words differ

Shown by a run (see `findings` in `PROJECT.json`):

- `maps`: a closure of one operator over a collection of ciphertexts is turned into that operation
  without looking at its left operand (`codegen.py:4315`): `map(xs, |w| k - w)` is not what
  `NB_LANGUAGE.md:760` says.

Stated by a definition of the modules, and shown by a configuration that belongs to no run (`tlc -config MCNbcDepths.cfg MCNbc`, and so on):

| definition | configuration | what happens |
|---|---|---|
| `DepthAsDocumented` | `MCNbcDepths` on `MCNbc` | `chebyshev()` of degree d is charged ceil(log2(d + 1)) + 1 levels (`semantic.py:620`), as in OpenFHE's table: 4 for degree 5, 5 for 13. `GRAMMAR.md:445` says it "increments depth by ceil(log2(degree))". |
| `LiveInsBacked` | `MCAutoFacadeInputs` on `AutoFacade` | `replay()` runs at the first output, on the inputs tagged by then, at the slots they have got. A ciphertext loaded behind that output is missing; one loaded behind an operation or a plaintext is at another slot than the trace reads, for those take slots in a recording and none in a replay (`AutoFacade.cpp:521-525`, `:586`). `AutoFacade.cpp:577-580` says every live-in address is backed by real values; `nbcc.py:108-110` knows of the other addresses and offers `fhetch_driver`. |
| `SubstitutedWerePut` | `MCAutoFacadeAddresses` on `AutoFacade` | the maps by address are never cleaned. The result a `Decrypt` has loaded stays among the substituted when it is gone, and the next dummy at its address is taken for a result: nothing is fetched, and the dummy is what the program sees (`AutoFacade.cpp:701`; the comment at `:121-123` says the set holds what is the result already). |
| `IndexedLoadsBack` | `MCStageProgramIndexed` on `MCStageProgram` | `load(Wire[index])` drops the index (`codegen.py:4799-4803`) and reads the files of the wire, which `writes(Wire[index])` has not written (`codegen.py:2870-2884`); `dsl_fhe/README.md:471` describes a third layout. An indexed wire of several fields is loaded back by nothing. |
| `FindsItsCache` | `MCWorkloadConfig` on `MCWorkload` | a run truncates the configuration that another with the same options is about to read (`nbcc.py:200`). That one takes the defaults and works in the directory `auto_facade`, where `AUTO_FACADE.md:131` says that the same flags always find the same cache. |

Stated by a definition that no configuration names, because it does not hold. To see the
counterexample, put the definition into the configuration named:

| definition | configuration | what happens |
|---|---|---|
| `WritesEachEntry` | `MCBufferedUnpack` | `unpack_into()` does not look at the stream after closing it (`archive.cpp:368`, `archive.h:43`): a file that could not be flushed is short and the call returns. The streaming unpacker does look (`archive.cpp:231-235`). |
| `StatusReturned` | `MCRunCapture` on `RunCapture`, `AutoReap = TRUE` | if the server inherits SIGCHLD ignored, `waitpid` fails with ECHILD and a failed compiler counts as a successful one (`server.cpp:330`, `server.cpp:219`). |
| `TermIsHeeded` | `MCServerShutdown` on `ServerShutdown`, `MaxSignals = 1` | a SIGTERM between `std::signal` and the start of the listener is handled by a `stop()` that does nothing; the server then listens on (`server.cpp:570`, `server.cpp:541`). |
| `ReplaysCurrent` | `MCWorkload`, `CommandLines <- RecordAndDrive` | a killed or differently parameterised recording leaves a trace that the driver then replays; a stale `.fhex` goes before a newer `.fhetch` (`nbcc.py:103-104`). |
| `DepthEnforced` | `MCNbc`, `Jobs <- Circuits` | chains of `let z = x + y * y` are accepted beyond the scheme's depth (`GRAMMAR.md:447`); sums, calls of functions and rotations lose the levels of their operands. |
| `NeverCrashes` | `Lexer` | a text that ends in a backslash within a string raises an `IndexError`, not the `LexError` that `modules.py:239-244` expects. |
| `NothingOfTheRoot` | `MCModuleLoader` | a bare name of an imported module is captured by a declaration of a root that has no name. |

Met while modelling:

- *Transport.* `unpack_into` accepts bytes behind the last entry; `archive.h:45` says "Throws on
  malformed archives". The packer does not check names (`archive.cpp:78-81`), the forwarder's `unpack_into`
  does: a probe with an odd name ends an otherwise successful replay with status 6. A second signal fails
  `stop()`'s assertion, or waits for a mutex its own thread owns. Nobody looks whether the removal of a temporary directory
  worked (`server.cpp:456`, `493`, `509`, `521`, `535`), and a throwing `exists()` goes past it. Behind a failed `accept()` the listener's socket is closed but
  not forgotten: a signal that arrives then closes that descriptor number again, whatever it is by then (`httplib.h:11590-11597`).
- *Facade.* `find_config` reads `NIOBIUM_CONFIG` only; `AutoFacade.cpp:9-12` and `AUTO_FACADE.md:75-83`
  describe a search order. `AUTO_FACADE.md:214` says a ciphertext is probed only once; one
  serialized under two stems is probed under both (`AutoFacade.cpp:642-645`). Two ciphertexts serialized under one stem share a probe, the
  last one's (`:625`), and both get its result on replay (`:644`).
- *SDK and tools.* `rmtree` ignores errors, so old probes may stay beside new ones, and they are removed before the
  reply is found empty. `provision(wait=0)` never adds up to `maxwait`. What `verify_replay_integrity.py:29-30` calls
  always a failure is none for a file that was in the snapshot. A `cp -p` over a file of the same size that keeps its inode and its
  time shows in nothing that `stat()` says; `CopyOver` is the copy that replaces the file.
- *Front end.* `vec<f64, 4>` of `GRAMMAR.md:233` does not parse. `if a == N { x }` is read as a struct literal.
  `|| x` lexes as an operator. Fields in shorthand of a struct literal are not resolved.
- *Analyzer.* An if-block has no scope of its own. `*_norelin` adds no level. `x |> decrypt` and a match arm that
  returns `decrypt(..)` pass in `@server`, and calls through helpers are not looked at (`GRAMMAR.md` 4.1). A local that
  hides a constant is ignored in `degree:` and in closures; `exp(v, v)` in a closure ends the compiler with a `TypeError`.
- *Parameters.* `const LO: f64 = -8.0` is not a known constant although `--set LO=-8` is one; a root constant
  cannot be set by its name when an imported module declares the same.
- *Schedule.* A let of a stage that is not symbolic falls back to the global constant of its name; the io clauses
  are read with the bindings behind the body; a stage called from a helper is not seen. Files of
  earlier compilations stay in the output directory.
- *Generated code.* Names of the generator (`x`, `r`, `i`) capture the program's. An if-expression drops the
  statements of its blocks. Sibling arms that bind one name (`codegen.py:3208-3210`), and a rebinding behind an annotated
  `zero()`, declare it twice (`NB_LANGUAGE.md:532`). `(0..=n).rev()` drops the last element. Negation is an operator. A pipe into a
  user's function lacks the context. Statement arms always return. Null is caught on the left of an addition only.
- *Generated stages.* Probe names are not unique (a save stem `result_0`, a field `f_0` beside an element of `f`;
  `codegen.py:3023-3024`). An empty row hides the rows behind it on replay. A conditional `save()` makes every replay
  fail, a plain one is not written on replay. A vector that shrinks leaves old elements behind, and two
  matrices of a wire share the directories of their rows, so that the one with fewer rows is loaded with empty ones. A cache key without an argument
  replays the recording of another one.


## 6. What is not modelled

- The wording of messages, logs, HTTP headers and URLs; the assembly of `argv` and `envp`; lines and columns.
- The fog command line: `submit` goes the way of the SDK's `run()`, which is modelled; the other commands are
  single requests and a file of settings.
- Of the code generator: headers and CMake files, key generation, encryption, bootstrapping, `chebyshev` and linear
  transforms, each a single call of OpenFHE with its parameters, and the fideslib backend.
- The error of a Chebyshev fit (floating point): a constant function.
- Of the facade: its configuration, the scheme proxy, threads, and ciphertexts replaced inside OpenFHE.
- `check` and `list` of `nbc`, which print; `session.py` of the SDK, which loads libraries; `ScopedPause` and the
  Python archive binding, a few lines around what is modelled; the examples.
- `niobium-fhetch` and OpenFHE: submodules whose source is not in the repository, known here from how they are called.

Everything left out is listed with its reason in `PROJECT.json`, `components`.


## 7. What could come next

1. `FacadeReplay`: `AutoFacade` with a `replay()` that fails, over what `ReplayTransport` then leaves in
   `serialized_probes/`.
2. A replay as one atomic exchange of the probe set, as an abstract specification that
   `ReplayTransport` implements up to failures; a generated stage as one that computes and saves in
   one step, implemented by `StageProgram` under the preconditions of `SavesRight`.
3. Theorems about the front end: `Lexer` with recursive functions only, and of `Semantic` what does not need induction over trees.
