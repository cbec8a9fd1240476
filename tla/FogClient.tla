----------------------------- MODULE FogClient ------------------------------
(***************************************************************************)
(* niobium_sdk.fog and niobium_sdk.client: run() provisions a job, waiting *)
(* for a worker in long polls, and submit() packs the workload, posts it   *)
(* to that worker, and puts the probes of the reply in place of those it   *)
(* finds.  fog-api, the worker and the binding of the C++ archive are      *)
(* external: of an archive only its entries matter, and whether it is      *)
(* whole.  Any step may fail, and the process may be killed.               *)
(*                                                                         *)
(* A URL is [origin, path].  A setting is what the argument, configure()   *)
(* and the environment say, in the order in which they are asked.          *)
(***************************************************************************)
EXTENDS WorkloadDir, SequencesExt

CONSTANTS Wait,         \* the seconds a poll may take
          MaxWait,      \* the seconds after which run() gives up
          Callers,      \* [job, endpoint, token]: run() or submit(), and what is set around it
          Nothing,      \* a setting nobody has made
          Default,      \* the server of the sources
          Worker,       \* the origin of the worker fog-api assigns
          Ticket,       \* and the ticket for it
          Replies,      \* the sets of probes a worker may send
          Stuck         \* the probes rmtree() cannot remove

(* What somebody may have set.                                             *)
Endpoints == UNION {ToSet(c.endpoint) : c \in Callers}
Tokens == UNION {ToSet(c.token) : c \in Callers}

(* An answer of fog-api that lacks the server or the ticket is refused, and *)
(* what a worker sends is unpacked under serialized_probes/.               *)
ASSUME FogAssumption ==
    /\ Wait \in Nat /\ MaxWait \in Nat /\ Stuck \subseteq Names
    /\ Callers \subseteq [job : BOOLEAN, endpoint : Seq(Endpoints), token : Seq(Tokens)]
    /\ \A c \in Callers : c.endpoint # <<>> /\ c.token # <<>>
    /\ [origin |-> Worker, path |-> "run"] # Nothing /\ Ticket # Nothing
    /\ \A probes \in Replies : \A n \in probes : IsProbeOutput(n)

VARIABLES
    stage,      \* where run() or submit() is
    caller,     \* who has called it
    waited,     \* the seconds it has polled
    odd,        \* history: whether the number of polls is odd, so that each is a step
    posted,     \* {} or {what was posted: to where, with which token, which files}
    left,       \* the probes of the reply that are not unpacked yet
    answer      \* all of them
fog == <<stage, caller, waited, odd, posted, left, answer>>

Stages == {"idle", "start", "queued", "assigned", "packed", "replied", "cleaned",
           "returned", "failed"}
Ended == {"returned", "failed"}
Provisioning == {"start", "queued"}

Enter(s) == stage' = s
Finish(how) ==
    /\ Enter(how)
    /\ caller' = <<>> /\ waited' = 0 /\ odd' = FALSE /\ posted' = {} /\ left' = {} /\ answer' = {}

FogInit ==
    /\ stage = "idle" /\ caller = <<>> /\ waited = 0 /\ odd = FALSE /\ posted = {}
    /\ left = {} /\ answer = {}

-----------------------------------------------------------------------------
(* The control plane: provision().                                         *)

Call(c) ==
    /\ stage = "idle"
    /\ caller' = c
    /\ Enter(IF c.job THEN "start" ELSE "assigned")
    /\ waited' = 0 /\ odd' = FALSE /\ posted' = {} /\ left' = {} /\ answer' = {}
    /\ UNCHANGED dir

(* The worker's /jobs/<id>/run and the ticket are passed as arguments.     *)
Assigned == caller' = [caller EXCEPT !.endpoint[1] = [origin |-> Worker, path |-> "run"],
                                     !.token[1] = Ticket]

(* POST /jobs/: a worker at once, a place in the queue, or die(): no token, *)
(* an error status, an answer that lacks what it must hold.                *)
Provision ==
    /\ stage = "start"
    /\ \/ Enter("assigned") /\ Assigned /\ UNCHANGED <<waited, odd, posted, left, answer>>
       \/ Enter("queued") /\ UNCHANGED <<caller, waited, odd, posted, left, answer>>
       \/ Finish("failed")
    /\ UNCHANGED dir

\* The bug of not counting the polls.
BugCounted(seconds) == seconds

(* What the polls add up to.                                               *)
Counted(seconds) == seconds + Wait

(* GET /jobs/<id>?wait=, again and again.                                  *)
Poll ==
    /\ stage = "queued" /\ waited < MaxWait
    /\ \/ /\ Enter("assigned") /\ Assigned /\ waited' = Counted(waited) /\ odd' = ~odd
          /\ UNCHANGED <<posted, left, answer>>
       \/ /\ Enter("queued") /\ waited' = Counted(waited) /\ odd' = ~odd
          /\ UNCHANGED <<caller, posted, left, answer>>
       \/ Finish("failed")
    /\ UNCHANGED dir

GiveUp ==
    /\ stage = "queued" /\ waited >= MaxWait
    /\ Finish("failed")
    /\ UNCHANGED dir

-----------------------------------------------------------------------------
(* The data plane: submit().                                               *)

FirstSet(said) == SelectInSeq(said, LAMBDA v : v # Nothing)

ResolveEndpoint(said) == IF FirstSet(said) = 0 THEN Default ELSE said[FirstSet(said)]
ResolveToken(said) == IF FirstSet(said) = 0 THEN Nothing ELSE said[FirstSet(said)]

(* A bare origin gets the path of the replay server.                       *)
TargetUrl(url) == IF url.path = "" THEN [url EXCEPT !.path = "/replay"] ELSE url

(* pack_directory(): everything but the probes.                            *)
Pack ==
    /\ stage = "assigned"
    /\ posted' = {[url |-> TargetUrl(ResolveEndpoint(caller.endpoint)),
                   token |-> ResolveToken(caller.token),
                   files |-> {<<n, files[n].data>> : n \in DOMAIN files \ Probes}]}
    /\ Enter("packed")
    /\ UNCHANGED <<dir, caller, waited, odd, left, answer>>

(* urlopen() and read(): a whole reply, or an exception.                   *)
Reply ==
    /\ stage = "packed"
    /\ \/ /\ \E probes \in Replies : left' = probes /\ answer' = probes
          /\ Enter("replied")
          /\ UNCHANGED <<caller, waited, odd, posted>>
       \/ Finish("failed")
    /\ UNCHANGED dir

\* The bug of unpacking over what is there.
BugClean ==
    /\ stage = "replied"
    /\ Enter("cleaned")
    /\ UNCHANGED <<dir, caller, waited, odd, posted, left, answer>>

(* rmtree(ignore_errors=True).                                             *)
Clean ==
    /\ stage = "replied"
    /\ Erase(Probes \ Stuck)
    /\ Enter("cleaned")
    /\ UNCHANGED <<caller, waited, odd, posted, left, answer>>

(* unpack_into(), entry by entry; an archive that is not well formed or a  *)
(* file that cannot be written raises.                                     *)
Unpack ==
    /\ stage = "cleaned"
    /\ \E n \in left : Write(Only(n, <<"answered", posted>>)) /\ left' = left \ {n}
    /\ UNCHANGED <<stage, caller, waited, odd, posted, answer>>

UnpackRaises ==
    /\ stage = "cleaned"
    /\ Finish("failed")
    /\ UNCHANGED dir

(* An archive without entries is no answer.                                *)
Return ==
    /\ stage = "cleaned" /\ left = {}
    /\ Finish(IF answer = {} THEN "failed" ELSE "returned")
    /\ UNCHANGED dir

KillClient ==
    /\ stage \notin {"idle"} \cup Ended
    /\ Finish("failed")
    /\ UNCHANGED dir
=============================================================================
