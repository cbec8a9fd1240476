---------------------------- MODULE EntryStream ----------------------------
(***************************************************************************)
(* What a receiver of an archive promises, whatever the archive looks like *)
(* on the wire and however it arrives: the announced number of entries is  *)
(* extracted one after the other, at most one file is unfinished at any    *)
(* time, and the receiver reports success only when every announced entry  *)
(* is on disk in full.                                                     *)
(***************************************************************************)
EXTENDS Naturals, Sequences, SequencesExt

VARIABLES
    announced,  \* {n} once n entries are announced, {} before
    received,   \* the entries extracted in full
    current,    \* {name} while the file of that name is unfinished, or {}
    disk,       \* the directory extracted into
    outcome     \* "running", "threw" or "ok"

vars == <<announced, received, current, disk, outcome>>

OnDisk(dir, name, data) ==
    [n \in DOMAIN dir \cup {name} |-> IF n = name THEN data ELSE dir[n]]

Init ==
    /\ announced = {}
    /\ received = <<>>
    /\ current = {}
    /\ disk = [n \in {} |-> <<>>]
    /\ outcome = "running"

Announce ==
    /\ outcome = "running" /\ announced = {}
    /\ \E n \in announced' : n \in Nat /\ announced' = {n}
    /\ UNCHANGED <<received, current, disk, outcome>>

Expecting ==
    /\ outcome = "running"
    /\ \E n \in announced : Len(received) < n

Open ==
    /\ Expecting /\ current = {}
    /\ \E name \in current' :
          /\ current' = {name}
          /\ disk' = OnDisk(disk, name, <<>>)
    /\ UNCHANGED <<announced, received, outcome>>

Extend ==
    /\ Expecting
    /\ \E name \in current :
          /\ disk' = OnDisk(disk, name, disk'[name])
          /\ IsPrefix(disk[name], disk'[name])
    /\ UNCHANGED <<announced, received, current, outcome>>

\* An entry becomes complete: the unfinished one, or one written at once.
Deliver ==
    /\ Expecting
    /\ Len(received') = Len(received) + 1
    /\ LET e == received'[Len(received) + 1] IN
          /\ received' = Append(received, e)
          /\ disk' = OnDisk(disk, e.name, e.data)
          /\ \A name \in current :
                e.name = name /\ IsPrefix(disk[name], e.data)
    /\ current' = {}
    /\ UNCHANGED <<announced, outcome>>

\* The receiver gives up.  One file may be left in any state.
Reject ==
    /\ outcome = "running" /\ outcome' = "threw"
    /\ \/ disk' = disk
       \/ \E n \in DOMAIN disk' : disk' = OnDisk(disk, n, disk'[n])
    /\ UNCHANGED <<announced, received>>

Accept ==
    /\ outcome = "running" /\ outcome' = "ok"
    /\ announced = {Len(received)} /\ current = {}
    /\ UNCHANGED <<announced, received, current, disk>>

Next == Announce \/ Open \/ Extend \/ Deliver \/ Reject \/ Accept

Spec == Init /\ [][Next]_vars
=============================================================================
