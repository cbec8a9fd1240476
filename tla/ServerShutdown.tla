--------------------------- MODULE ServerShutdown ---------------------------
(***************************************************************************)
(* How the replay server stops: main() and shutdown_handler() of           *)
(* src/fhetch_transport/server.cpp on top of listen() and stop() of the    *)
(* vendored cpp-httplib.                                                   *)
(*                                                                         *)
(* A signal interrupts whichever thread it is delivered to, between any    *)
(* two of its steps.  std::signal() blocks in that thread the signal being *)
(* handled and no other one, so the handler of the other signal may        *)
(* interrupt it in turn.                                                   *)
(***************************************************************************)
EXTENDS Naturals, Sequences, SequencesExt

CONSTANTS
    Workers,    \* the threads of the pool
    Clients,    \* connections
    MaxSignals, \* bound on the number of signals sent
    Asserts,    \* built without NDEBUG, as a Debug build is
    Main, None

ASSUME ShutdownAssumption ==
    /\ Main \notin Workers /\ None \notin Workers \cup Clients \cup {Main}
    /\ MaxSignals \in Nat /\ Asserts \in BOOLEAN

(* In the order they are registered.                                       *)
Signals == <<"SIGINT", "SIGTERM">>

Threads == Workers \cup {Main}

VARIABLES
    proc,       \* "running", or how the process ended
    pc,         \* where main() is
    registered, \* how many of Signals have the handler
    running,    \* is_running_
    sock,       \* svr_sock_: "none", "open", "stale" when its socket was closed
                \* behind its back, or "invalid" again
    ret,        \* what listen_internal() will return
    conn,       \* what became of each connection
    spoke,      \* the clients whose request can be read
    job,        \* the connection a worker is processing
    mutex,      \* the owner of g_server_mu
    frames,     \* the handlers each thread is in, the innermost last
    pending,    \* signals sent and not delivered
    sent        \* how many were sent

vars == <<proc, pc, registered, running, sock, ret, conn, spoke, job, mutex,
          frames, pending, sent>>

Init ==
    /\ proc = "running"
    /\ pc = "register"
    /\ registered = 0
    /\ running = FALSE
    /\ sock = "none"
    /\ ret = TRUE
    /\ spoke = {}
    /\ conn = [c \in Clients |-> "none"]
    /\ job = [w \in Workers |-> None]
    /\ mutex = None
    /\ frames = [t \in Threads |-> <<>>]
    /\ pending = {}
    /\ sent = 0

\* t runs its own code.
Runs(t) == proc = "running" /\ frames[t] = <<>>

-----------------------------------------------------------------------------
(* main() and listen().                                                    *)

Register ==
    /\ Runs(Main) /\ pc = "register"
    /\ registered' = registered + 1
    /\ pc' = IF registered' = Len(Signals) THEN "preflight" ELSE "register"
    /\ UNCHANGED <<proc, running, sock, conn, job, mutex, frames, pending,
                   sent, spoke, ret>>

\* The compiler is run with --help; if it cannot be, main() returns 1.
Preflight ==
    /\ Runs(Main) /\ pc = "preflight"
    /\ \/ pc' = "bind" /\ UNCHANGED proc
       \/ proc' = "failed" /\ UNCHANGED pc
    /\ UNCHANGED <<registered, running, sock, conn, job, mutex, frames,
                   pending, sent, spoke, ret>>

Bind ==
    /\ Runs(Main) /\ pc = "bind"
    /\ \/ pc' = "listen" /\ sock' = "open" /\ UNCHANGED proc
       \/ proc' = "failed" /\ UNCHANGED <<pc, sock>>
    /\ UNCHANGED <<registered, running, conn, job, mutex, frames, pending,
                   sent, spoke, ret>>

\* listen_internal() up to its loop; the pool starts.
Listen ==
    /\ Runs(Main) /\ pc = "listen"
    /\ running' = TRUE
    /\ pc' = "accept"
    /\ UNCHANGED <<proc, registered, sock, conn, job, mutex, frames, pending,
                   sent, spoke, ret>>

Accept(c) ==
    /\ Runs(Main) /\ pc = "accept" /\ sock = "open"
    /\ conn[c] = "backlog"
    /\ conn' = [conn EXCEPT ![c] = "queued"]
    /\ UNCHANGED <<proc, pc, registered, running, sock, job, mutex, frames,
                   pending, sent, spoke, ret>>

\* accept() fails with another error than EMFILE, EINTR and EAGAIN, which are
\* tried again.  svr_sock_ is tested, and a handler in another thread may take
\* the socket behind the test; what is closed here is not taken out of it.
AcceptFails ==
    /\ Runs(Main) /\ pc = "accept"
    /\ sock' = IF sock = "open" THEN "stale" ELSE sock
    /\ ret' = FALSE
    /\ conn' = [c \in Clients |-> IF conn[c] = "backlog" THEN "reset" ELSE conn[c]]
    /\ pc' = "drain"
    /\ UNCHANGED <<proc, registered, running, spoke, job, mutex, frames, pending,
                   sent>>

\* accept() fails, or the loop's test does, for the handler has the socket.
StopAccepting ==
    /\ Runs(Main) /\ pc = "accept" /\ sock = "invalid"
    /\ pc' = "drain"
    /\ UNCHANGED <<proc, registered, running, sock, conn, job, mutex, frames,
                   pending, sent, spoke, ret>>

\* The bug of a pool that is not joined.
BugJoinWorkers ==
    /\ Runs(Main) /\ pc = "drain"
    /\ running' = FALSE
    /\ pc' = "return"
    /\ UNCHANGED <<proc, registered, sock, conn, job, mutex, frames, pending,
                   sent, spoke, ret>>

\* task_queue->shutdown(): the workers finish what is queued and are joined.
JoinWorkers ==
    /\ Runs(Main) /\ pc = "drain"
    /\ \A c \in Clients : conn[c] # "queued"
    /\ \A w \in Workers : Runs(w) /\ job[w] = None
    /\ running' = FALSE
    /\ pc' = "return"
    /\ UNCHANGED <<proc, registered, sock, conn, job, mutex, frames, pending,
                   sent, spoke, ret>>

Return ==
    /\ Runs(Main) /\ pc = "return"
    /\ proc' = IF ret THEN "exited" ELSE "failed"
    /\ UNCHANGED <<pc, registered, running, sock, conn, job, mutex, frames,
                   pending, sent, spoke, ret>>

-----------------------------------------------------------------------------
(* The pool, and the clients.                                              *)

Connect(c) ==
    /\ proc = "running" /\ sock = "open" /\ conn[c] = "none"
    /\ conn' = [conn EXCEPT ![c] = "backlog"]
    /\ UNCHANGED <<proc, pc, registered, running, sock, job, mutex, frames,
                   pending, sent, spoke, ret>>

\* The client's request arrives, or the first bytes of it.
Speak(c) ==
    /\ proc = "running" /\ conn[c] \in {"backlog", "queued"} /\ c \notin spoke
    /\ spoke' = spoke \cup {c}
    /\ UNCHANGED <<proc, pc, registered, running, sock, ret, conn, job, mutex,
                   frames, pending, sent>>

Serve(w, c) ==
    /\ Runs(w) /\ running /\ job[w] = None /\ conn[c] = "queued"
    /\ c \in spoke
    /\ job' = [job EXCEPT ![w] = c]
    /\ conn' = [conn EXCEPT ![c] = "serving"]
    /\ UNCHANGED <<proc, pc, registered, running, sock, mutex, frames, pending,
                   sent, spoke, ret>>

\* The bug of looking at svr_sock_ before the connection.
BugHangUp(w, c) ==
    /\ Runs(w) /\ running /\ job[w] = None /\ conn[c] = "queued"
    /\ sock = "invalid"
    /\ conn' = [conn EXCEPT ![c] = "hungup"]
    /\ UNCHANGED <<proc, pc, registered, running, sock, job, mutex, frames,
                   pending, sent, spoke, ret>>

\* keep_alive(): nothing can be read from the client when the worker looks, and
\* the time to send a request is over or svr_sock_ invalid.
HangUp(w, c) ==
    /\ Runs(w) /\ running /\ job[w] = None /\ conn[c] = "queued"
    /\ c \notin spoke
    /\ conn' = [conn EXCEPT ![c] = "hungup"]
    /\ UNCHANGED <<proc, pc, registered, running, sock, job, mutex, frames,
                   pending, sent, spoke, ret>>

\* The bug of waiting on a connection for the next request for ever.
BugAnswer(w) ==
    /\ Runs(w) /\ job[w] # None
    /\ conn' = [conn EXCEPT ![job[w]] = "answered"]
    /\ UNCHANGED <<proc, pc, registered, running, sock, job, mutex, frames,
                   pending, sent, spoke, ret>>

\* The request is answered.  More requests on a connection that is kept alive
\* are left out: at most keep_alive_max_count_ follow.
Answer(w) ==
    /\ Runs(w) /\ job[w] # None
    /\ job' = [job EXCEPT ![w] = None]
    /\ conn' = [conn EXCEPT ![job[w]] = "answered"]
    /\ UNCHANGED <<proc, pc, registered, running, sock, mutex, frames, pending,
                   sent, spoke, ret>>

-----------------------------------------------------------------------------
(* Signals and their handler.                                              *)

HasHandler(s) == \E k \in 1 .. registered : Signals[k] = s

\* Without a handler a signal ends the process; one that is pending already
\* is not sent twice.
Send(s) ==
    /\ proc = "running" /\ sent < MaxSignals
    /\ sent' = sent + 1
    /\ IF HasHandler(s)
       THEN pending' = pending \cup {s} /\ UNCHANGED proc
       ELSE proc' = "killed" /\ UNCHANGED pending
    /\ UNCHANGED <<pc, registered, running, sock, conn, job, mutex, frames,
                   spoke, ret>>

Deliver(s, t) ==
    /\ proc = "running" /\ s \in pending
    /\ t = Main \/ running
    /\ \A k \in DOMAIN frames[t] : frames[t][k].signal # s
    /\ pending' = pending \ {s}
    /\ frames' = [frames EXCEPT ![t] = Append(@, [signal |-> s, at |-> "lock"])]
    /\ UNCHANGED <<proc, pc, registered, running, sock, conn, job, mutex, sent,
                   spoke, ret>>

\* The innermost handler of t is at a certain place.
InHandler(t, at) ==
    /\ proc = "running"
    /\ frames[t] # <<>> /\ Last(frames[t]).at = at

MoveTo(t, at) ==
    frames' = [frames EXCEPT ![t][Len(frames[t])].at = at]

\* lock_guard: a thread that owns the mutex waits for itself.
Lock(t) ==
    /\ InHandler(t, "lock") /\ mutex = None
    /\ mutex' = t
    /\ MoveTo(t, "test")
    /\ UNCHANGED <<proc, pc, registered, running, sock, conn, job, pending,
                   sent, spoke, ret>>

\* The bug of waiting, in the handler, for the server to be ready.
BugTestRunning(t) ==
    /\ InHandler(t, "test") /\ running
    /\ MoveTo(t, "close")
    /\ UNCHANGED <<proc, pc, registered, running, sock, conn, job, mutex,
                   pending, sent, spoke, ret>>

\* stop(): nothing is done before listen_internal() has set is_running_.
TestRunning(t) ==
    /\ InHandler(t, "test")
    /\ MoveTo(t, IF running THEN "close" ELSE "unlock")
    /\ UNCHANGED <<proc, pc, registered, running, sock, conn, job, mutex,
                   pending, sent, spoke, ret>>

\* assert(svr_sock_ != INVALID_SOCKET), then the socket is taken and closed,
\* and what the kernel had queued on it is reset.  A stale number is closed too:
\* by now it may be that of a file or a pipe of a request, which then fails.
CloseSocket(t) ==
    /\ InHandler(t, "close")
    /\ IF Asserts /\ sock \notin {"open", "stale"}
       THEN proc' = "aborted" /\ UNCHANGED <<sock, conn, frames>>
       ELSE /\ sock' = "invalid"
            /\ conn' = [c \in Clients |-> IF conn[c] = "backlog" THEN "reset"
                                                                 ELSE conn[c]]
            /\ MoveTo(t, "unlock")
            /\ UNCHANGED proc
    /\ UNCHANGED <<pc, registered, running, job, mutex, pending, sent, spoke,
                   ret>>

Unlock(t) ==
    /\ InHandler(t, "unlock")
    /\ mutex' = None
    /\ frames' = [frames EXCEPT ![t] = Front(@)]
    /\ UNCHANGED <<proc, pc, registered, running, sock, conn, job, pending,
                   sent, spoke, ret>>

-----------------------------------------------------------------------------

MainStep ==
    \/ Register \/ Preflight \/ Bind \/ Listen
    \/ \E c \in Clients : Accept(c)
    \/ StopAccepting \/ JoinWorkers \/ Return

Worker(w) == (\E c \in Clients : Serve(w, c) \/ HangUp(w, c)) \/ Answer(w)

Handler(t) == Lock(t) \/ TestRunning(t) \/ CloseSocket(t) \/ Unlock(t)

Delivery(s) == \E t \in Threads : Deliver(s, t)

Next ==
    \/ MainStep \/ AcceptFails
    \/ \E w \in Workers : Worker(w)
    \/ \E t \in Threads : Handler(t)
    \/ \E c \in Clients : Connect(c) \/ Speak(c)
    \/ \E s \in ToSet(Signals) : Send(s) \/ Delivery(s)

Spec == Init /\ [][Next]_vars

(* Threads are scheduled, requests are answered, a signal is delivered;    *)
(* that accept() fails is not to be counted on.                            *)
FairSpec ==
    /\ Spec
    /\ WF_vars(MainStep)
    /\ \A w \in Workers : WF_vars(Worker(w))
    /\ \A t \in Threads : WF_vars(Handler(t))
    /\ \A s \in ToSet(Signals) : WF_vars(Delivery(s))

-----------------------------------------------------------------------------

TypeOK ==
    /\ proc \in {"running", "failed", "exited", "killed", "aborted"}
    /\ pc \in {"register", "preflight", "bind", "listen", "accept", "drain",
               "return"}
    /\ registered \in 0 .. Len(Signals)
    /\ running \in BOOLEAN
    /\ sock \in {"none", "open", "stale", "invalid"}
    /\ ret \in BOOLEAN /\ spoke \subseteq Clients
    /\ conn \in [Clients -> {"none", "backlog", "queued", "serving", "answered",
                             "hungup", "reset"}]
    /\ job \in [Workers -> Clients \cup {None}]
    /\ mutex \in Threads \cup {None}
    /\ \A t \in Threads : \A k \in DOMAIN frames[t] :
          /\ frames[t][k].signal \in ToSet(Signals)
          /\ frames[t][k].at \in {"lock", "test", "close", "unlock"}
    /\ pending \subseteq ToSet(Signals)
    /\ sent \in 0 .. MaxSignals

(* ExitsDrained: whatever signals were sent, whichever threads handled     *)
(* them and whether accept() failed, a main() that returns has left no     *)
(* connection in its queue and no request in progress, and answered every  *)
(* connection it had accepted whose client had sent a request by the time  *)
(* a worker looked: only silent ones were hung up on.  What the kernel had *)
(* queued and the server not accepted is reset with the socket.            *)
ExitsDrained ==
    proc \in {"exited", "failed"} =>
        \A c \in Clients :
            /\ conn[c] \in {"none", "reset", "answered", "hungup"}
            /\ c \in spoke => conn[c] \in {"reset", "answered"}

(* NeverCutOff: "the minimum machinery needed to let `kill -TERM` drain    *)
(* the listener cleanly" (server.cpp:541-542): the signals the handler is  *)
(* there for never end the process with a request in progress.  A second  *)
(* signal may: stop() asserts that it is the first to be called.           *)
NeverCutOff ==
    sent <= 1 /\ proc \in {"exited", "failed", "aborted"} =>
        \A c \in Clients : conn[c] # "serving"

(* Drains: when main() returns from listen(), every request it had begun   *)
(* or could have begun is answered; and the assertion in stop() ends no    *)
(* request as long as one signal is sent.                                  *)
Drains == ExitsDrained /\ NeverCutOff

\* A handler has interrupted a handler, perhaps one that owns the mutex.
Nested == \E t \in Threads : Len(frames[t]) > 1

(* StopEnds: once the socket of the listener is closed, by the handler or  *)
(* behind a failed accept(), the process ends, whichever thread a handler  *)
(* interrupted and whatever was queued, unless one handler interrupts      *)
(* another.                                                                *)
StopEnds == sock \in {"stale", "invalid"} ~> proc # "running" \/ Nested

(* HandlerReturns: a thread that is interrupted gets on with its work, also *)
(* when handlers in two threads compete for the mutex; only a handler that *)
(* interrupts the owner of the mutex waits for itself.                     *)
HandlerReturns ==
    \A t \in Threads : frames[t] # <<>> ~> Runs(t) \/ proc # "running" \/ Nested

(* TermIsHeeded: "let `kill -TERM` drain the listener" (server.cpp:542): a *)
(* server that was sent a signal it has a handler for ends.                *)
TermIsHeeded == sent > 0 ~> proc # "running"
=============================================================================
