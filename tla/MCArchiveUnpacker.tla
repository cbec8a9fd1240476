------------------------- MODULE MCArchiveUnpacker -------------------------
(***************************************************************************)
(* Every body of at most MaxBytes bits, cut in every way into spans of one *)
(* to three bytes.  Two bytes of magic, two for every length; names of one *)
(* or two bytes, of which one is refused by each of the two validators.    *)
(***************************************************************************)
EXTENDS ArchiveUnpacker

MCMagic == <<1, 0>>
MCRelativeNames == {<<0>>, <<1>>, <<0, 1>>, <<1, 1>>}
MCPlainNames == {<<0>>, <<0, 1>>, <<1, 1>>, <<1, 0>>}
MCSpans == UNION {[1 .. n -> Byte] : n \in 1 .. 3}

GoodNames == {n \in MCRelativeNames \cap MCPlainNames : Len(n) <= MaxNameLen}
Contents == UNION {[1 .. n -> Byte] : n \in 0 .. 3}
GoodEntries == [name : GoodNames, data : Contents]
MCLists == {<<>>} \cup {<<e>> : e \in GoodEntries} \cup {<<e, f>> : e, f \in GoodEntries}
=============================================================================
