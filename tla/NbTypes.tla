------------------------------- MODULE NbTypes -------------------------------
(***************************************************************************)
(* Primitive types of nb, as nb_types.py names them, and what stands for a *)
(* node or a name that is not there.                                       *)
(***************************************************************************)
EXTENDS Integers, SequencesExt

None == <<>>
NoName == ""

(* What a primitive type holds.                                            *)
Unsigned == {"u8", "u16", "u32", "u64", "usize"}
Signed == {"i8", "i16", "i32", "i64", "isize"}
Kind(prim) ==
    CASE prim \in Unsigned \cup Signed -> "int"
      [] prim \in {"f32", "f64"} -> "float"
      [] OTHER -> prim
=============================================================================
