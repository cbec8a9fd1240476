----------------------------- MODULE MCWorkload -----------------------------
(***************************************************************************)
(* Two runs of nbcc.py with options that differ in what is hashed, what is *)
(* recorded and what is run; one submission with or without a job; one     *)
(* snapshot, and whatever may follow it.                                   *)
(***************************************************************************)
EXTENDS Workload

Fhex == TraceFile(".fhex")
Fhetch == TraceFile(".fhetch")
Junk == [dirs |-> {}, stem |-> "junk", marks |-> {".input_", PROBE_DIR}, ext |-> ".bin"]
Meta == [dirs |-> {}, stem |-> "meta", marks |-> {}, ext |-> ".json"]

MCNames == {Fhex, Fhetch, Capture, Junk, Meta, Answer("ra"), Answer("rb")}

OldRecording ==
    (Fhex :> [data |-> <<"trace", <<>>, TRUE>>, mtime |-> 0, inode |-> 0])
    @@ (Capture :> [data |-> <<"input", 0>>, mtime |-> 0, inode |-> 1])
    @@ (Meta :> [data |-> <<"meta">>, mtime |-> 0, inode |-> 0])
OldProbes ==
    (Answer("ra") :> [data |-> <<"replayed", 0>>, mtime |-> 1, inode |-> 1])
    @@ (Answer("rb") :> [data |-> <<"replayed", 0>>, mtime |-> 1, inode |-> 1])
MCInitial == {<<>>, OldRecording @@ OldProbes}

Named == <<"name", Stem>>
N(k, v) == <<"cache", [key |-> k, value |-> v]>>
Driver == <<<<"fhetch_driver", "d">>, <<"driver_cc", "cc.bin">>, <<"driver_ring_dim", "2048">>>>
Run(opts) == [given |-> <<Named>> \o opts, command |-> <<"--", "app">>]
MCCommandLines ==
    {Run(<<>>), Run(<<N("n", 1)>>), Run(<<<<"trace_format", "text">>, <<"fence", FALSE>>>>),
     Run(<<N("n", 1)>> \o Driver), Run(SubSeq(Driver, 1, 1)),
     Run(<<<<"fence", TRUE>>, <<"fence", FALSE>>>>),
     Run(<<<<"cache", [key |-> "n"]>>>>)}
RecordAndDrive == {Run(<<>>), Run(<<N("n", 1)>>), Run(Driver), Run(<<N("n", 1)>> \o Driver)}

Local == [origin |-> "local", path |-> ""]
Other == [origin |-> "other", path |-> ""]
MCCallers ==
    {[job |-> TRUE, endpoint |-> <<Nothing, Nothing, Other>>, token |-> <<Nothing, Nothing, "old">>],
     [job |-> FALSE, endpoint |-> <<Nothing, Other, Nothing>>, token |-> <<Nothing, Nothing, Nothing>>]}
MCReplies == {{}, {Answer("rb")}, {Answer("ra"), Answer("rb")}}
MCSuspects == {Fhex, Capture, Junk, Answer("rb")}
MCStuck == {Answer("rb")}
=============================================================================
