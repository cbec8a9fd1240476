---------------------------- MODULE MCStageProgram ----------------------------
(***************************************************************************)
(* Stages of few outputs, sound and not so sound, run a few times.         *)
(***************************************************************************)
EXTENDS StageProgram, TLC

Field(n, kind) == [name |-> n, kind |-> kind]
Always(n) == [b \in Batches |-> n]
Out(stem) == [stem |-> stem, fields |-> <<>>, local |-> FALSE, batches |-> Batches, dir |-> "inst", plain |-> FALSE]
Outs(fs) == [Out(<<"d">>) EXCEPT !.fields = fs]
Plan(wire, n, saves) ==
    [wire |-> wire, writes |-> "wire", index |-> [b \in Batches |-> b], shape |-> Always(n), saves |-> saves, key |-> 2]

C == Field(<<"c">>, "enc")
Vector == Field(<<"v">>, "vec")
Matrix == Field(<<"m">>, "mat")
A == Out(<<"a">>)
Second == Field(<<"k">>, "mat")
None == <<>>
Sound == {
    Plan(<<C>>, <<None>>, <<A>>), Plan(<<C, Vector>>, <<None, <<2>> >>, <<[A EXCEPT !.dir = "batch"]>>),
    Plan(<<Matrix, C>>, << <<1, 2>>, None>>, <<>>), Plan(<<>>, <<>>, <<A, Outs(<< <<"x">>, <<"y">> >>)>>),
    Plan(<<Vector>>, << <<0>> >>, <<>>), Plan(<<C, Field(<<"n">>, "plain")>>, <<None, None>>, <<A>>),
    Plan(<<Matrix, Second>>, << <<1>>, <<2>> >>, <<>>) }
Indexed == {[st EXCEPT !.writes = "indexed"] : st \in {
    Plan(<<C>>, <<None>>, <<>>), Plan(<<C>>, <<None>>, <<A>>), Plan(<<Vector>>, << <<2>> >>, <<>>),
    Plan(<<C, Vector>>, <<None, <<1>> >>, <<>>) }}
Doubtful == {
    Plan(<<C>>, <<None>>, <<Out(ResultStem)>>), Plan(<<C>>, <<None>>, <<A, [A EXCEPT !.dir = "batch"]>>),
    Plan(<<>>, <<>>, <<Out(<<"x">>), Outs(<< <<"x">>, <<"y">> >>)>>), Plan(<<>>, <<>>, <<[A EXCEPT !.local = TRUE]>>),
    Plan(<<Vector>>, << <<2>> >>, <<Out(<<"result", "0">>)>>),
    Plan(<<Vector, Field(<<"v", "0">>, "enc")>>, << <<2>>, None>>, <<>>),
    Plan(<<Matrix>>, << <<1, 0, 1>> >>, <<>>), Plan(<<C>>, <<None>>, <<[A EXCEPT !.batches = {1}]>>),
    Plan(<<Matrix, Second>>, << <<1>>, <<1, 1>> >>, <<>>),
    Plan(<<C>>, <<None>>, <<A, [Out(<<"b">>) EXCEPT !.plain = TRUE]>>),
    Plan(<<>>, <<>>, <<A, [A EXCEPT !.plain = TRUE]>>),
    [Plan(<<Vector>>, << <<2>> >>, <<>>) EXCEPT !.shape = [b \in Batches |-> IF b = 1 THEN << <<2>> >> ELSE << <<1>> >>]],
    [Plan(<<C>>, <<None>>, <<A>>) EXCEPT !.key = 1],
    [Plan(<<C>>, <<None>>, <<A>>) EXCEPT !.writes = "nothing"],
    [Plan(<<C>>, <<None>>, <<>>) EXCEPT !.writes = "indexed", !.index = Always(0)] }
MCStages == Sound \cup Indexed \cup Doubtful
MCWords ==
    {"a", "b", "c", "d", "k", "m", "n", "v", "x", "y", "out", "dir", "batch", "result", ".bin"}
        \cup {ToString(i) : i \in 0 .. MaxNumber}
MCNumeral(i) == ToString(i)
=============================================================================
