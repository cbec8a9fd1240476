-------------------------- MODULE MCBufferedUnpack --------------------------
(***************************************************************************)
(* Buffers built field by field: a magic that may be wrong, a count of 0   *)
(* to 2, up to two frames whose lengths may lie (too long, or so long that *)
(* the end of the data wraps around), cut anywhere or followed by a byte.  *)
(***************************************************************************)
EXTENDS BufferedUnpack

MCMagic == <<1, 0>>
MCRelativeNames == {<<0>>, <<1>>}
MCPlainNames == {<<0>>, <<>>}

Lengths == {0, 1, 2} \cup (Word - 14) .. (Word - 7)
Frames ==
    {AppendLE(n) \o name \o AppendLE(d) \o data :
        n \in 0 .. 2, name \in {<<>>, <<0>>, <<1>>},
        d \in Lengths, data \in {<<>>, <<3>>}}
ShortFrames == {f \in Frames : f[1] = 1 /\ Len(f) < 7 /\ f[4] < 3}

Whole ==
    {m \o AppendLE(c) \o f : m \in {MCMagic, <<0, 1>>}, c \in 0 .. 2, f \in Frames}
    \cup {MCMagic \o AppendLE(2) \o f \o g : f, g \in ShortFrames}

MCResponses ==
    UNION {{SubSeq(w, 1, n) : n \in 0 .. Len(w)} \cup {w \o <<5>>} : w \in Whole}

GoodEntries == [name : {<<0>>}, data : {<<>>, <<3>>}]
MCLists == {<<>>} \cup {<<e>> : e \in GoodEntries} \cup {<<e, f>> : e, f \in GoodEntries}
=============================================================================
