-------------------------- MODULE AutoFacadeProofs --------------------------
(***************************************************************************)
(* What the hooks of AutoFacade get right for every program, whatever the  *)
(* allocators do, any number of processes and any bound.  A replay tags    *)
(* its inputs under the names of the recording, and at its slots but for   *)
(* what SameTags leaves out; and what leaves the program is right but for  *)
(* what OutputsCorrect leaves out.                                         *)
(*                                                                         *)
(* Both rest on the same fact: what a process did so far is a prefix of    *)
(* the recording, and a name the hooks make up, or the slot of an input    *)
(* before anything that shifts it, depends on that prefix only.  The       *)
(* definitions below say which name and which slot that is.                *)
(***************************************************************************)
EXTENDS AutoFacade, SequenceTheorems, FiniteSetTheorems, WellFoundedInduction, TLAPS

Ops == [op : {"load", "plaintext", "eval", "release", "serialize", "decrypt"},
        of : Nat, file : Paths \cup Stems \cup {""}]

Prefix(s, t) == Len(s) <= Len(t) /\ \A k \in 1 .. Len(s) : s[k] = t[k]

Inputs(s) == {k \in 1 .. Len(s) : s[k].op \in {"load", "plaintext"}}

\* The loads of a path, and the plaintexts, before position k.
LoadsBefore(s, k, path) == {j \in 1 .. k - 1 : s[j].op = "load" /\ s[j].file = path}
PlaintextsBefore(s, k) == {j \in 1 .. k - 1 : s[j].op = "plaintext"}

\* The name under which the input of position k is tagged.
TagOf(s, k) ==
    IF s[k].op = "load" THEN InputName(s[k].file, Cardinality(LoadsBefore(s, k, s[k].file)))
                        ELSE PlaintextName(Cardinality(PlaintextsBefore(s, k)))

\* The loads before position k, whatever the path.
AllLoads(s, k) == {j \in 1 .. k - 1 : s[j].op = "load"}

\* Nothing before position k takes a slot in a recording only.
Unshifted(s, k) == \A j \in 1 .. k - 1 : s[j].op \notin {"plaintext", "eval"}

\* k is the first load, at which the keys are tagged.
FirstLoad(s, k) ==
    k \in 1 .. Len(s) /\ s[k].op = "load" /\ \A j \in 1 .. k - 1 : s[j].op # "load"
NoLoad(s) == \A k \in 1 .. Len(s) : s[k].op # "load"

\* Everything that is tagged.
Tagset(s) == Inputs(s) \cup {k \in {Keys} : ~NoLoad(s)}

-----------------------------------------------------------------------------
(* Names and prefixes.                                                     *)

LEMMA AppendFacts ==
  ASSUME NEW s \in Seq(Ops), NEW op \in Ops
  PROVE  /\ Append(s, op) \in Seq(Ops) /\ Len(s) \in Nat
         /\ Len(Append(s, op)) = Len(s) + 1 /\ Append(s, op)[Len(s) + 1] = op
         /\ \A k \in 1 .. Len(s) : Append(s, op)[k] = s[k]
         /\ Prefix(s, Append(s, op))
<1>1. /\ Append(s, op) \in Seq(Ops) /\ Len(s) \in Nat
      /\ Len(Append(s, op)) = Len(s) + 1 /\ Append(s, op)[Len(s) + 1] = op
      /\ \A k \in 1 .. Len(s) : Append(s, op)[k] = s[k]
  BY AppendProperties, LenProperties
<1> QED BY <1>1 DEF Prefix

LEMMA PrefixTags ==
  ASSUME NEW s, NEW t, Len(s) \in Nat, Len(t) \in Nat, Prefix(s, t)
  PROVE  /\ Inputs(s) \subseteq Inputs(t) /\ Tagset(s) \subseteq Tagset(t)
         /\ \A k \in 1 .. Len(s) : /\ TagOf(s, k) = TagOf(t, k)
                                   /\ AllLoads(s, k) = AllLoads(t, k)
                                   /\ Unshifted(s, k) <=> Unshifted(t, k)
<1>1. \A k \in 1 .. Len(s) : s[k] = t[k] /\ k \in 1 .. Len(t)
  BY DEF Prefix
<1>2. ASSUME NEW k \in 1 .. Len(s)
      PROVE  /\ \A p : LoadsBefore(s, k, p) = LoadsBefore(t, k, p)
             /\ PlaintextsBefore(s, k) = PlaintextsBefore(t, k)
             /\ AllLoads(s, k) = AllLoads(t, k) /\ (Unshifted(s, k) <=> Unshifted(t, k))
  <2>1. \A j \in 1 .. k - 1 : j \in 1 .. Len(s)
    OBVIOUS
  <2>2. \A j \in 1 .. k - 1 : s[j] = t[j]
    BY <1>1, <2>1
  <2> QED BY <2>2 DEF LoadsBefore, PlaintextsBefore, AllLoads, Unshifted
<1>3. Inputs(s) \subseteq Inputs(t)
  BY <1>1 DEF Inputs
<1>4. NoLoad(t) => NoLoad(s)
  BY <1>1 DEF NoLoad
<1> QED BY <1>1, <1>2, <1>3, <1>4 DEF TagOf, Tagset

LEMMA LeastMember ==
  ASSUME NEW T, T \subseteq Nat, T # {}
  PROVE  \E x \in T : \A y \in T : x <= y
<1> DEFINE R == OpToRel(<, Nat)
<1>1. IsWellFoundedOn(R, Nat)
  BY NatLessThanWellFounded
<1>2. \A x, y \in Nat : x < y => <<x, y>> \in R
  BY DEF OpToRel
<1> HIDE DEF R
<1>3. PICK x \in T : \A y \in T : ~(<<y, x>> \in R)
  BY <1>1, WFMin
<1>4. ASSUME NEW y \in T PROVE x <= y
  <2>1. x \in Nat /\ y \in Nat
    OBVIOUS
  <2>2. ~(y < x)
    BY <2>1, <1>2, <1>3
  <2> QED BY <2>1, <2>2
<1> QED BY <1>4

LEMMA SomeFirstLoad ==
  ASSUME NEW s, Len(s) \in Nat, ~NoLoad(s)
  PROVE  \E m : FirstLoad(s, m)
<1> DEFINE L == {i \in 1 .. Len(s) : s[i].op = "load"}
<1>1. L # {} /\ L \subseteq Nat
  BY DEF NoLoad
<1>2. PICK m \in L : \A i \in L : m <= i
  BY <1>1, LeastMember
<1>3. \A j \in 1 .. m - 1 : j \in 1 .. Len(s) /\ ~(m <= j)
  OBVIOUS
<1>4. \A j \in 1 .. m - 1 : s[j].op # "load"
  BY <1>2, <1>3
<1> QED BY <1>4 DEF FirstLoad

LEMMA PrefixFirstLoad ==
  ASSUME NEW s, NEW t, Len(s) \in Nat, Len(t) \in Nat, Prefix(s, t),
         NEW k, FirstLoad(s, k), NEW m, FirstLoad(t, m)
  PROVE  k = m
<1>1. k \in 1 .. Len(s) /\ m \in 1 .. Len(t) /\ k \in 1 .. Len(t)
  BY DEF FirstLoad, Prefix
<1>2. t[k].op = "load"
  BY <1>1 DEF Prefix, FirstLoad
<1>3. ~(k < m)
  BY <1>1, <1>2 DEF FirstLoad
<1>4. ~(m < k)
  <2> SUFFICES ASSUME m < k PROVE FALSE
    OBVIOUS
  <2>1. m \in 1 .. k - 1 /\ m \in 1 .. Len(s)
    BY <1>1
  <2>2. s[m] = t[m]
    BY <2>1 DEF Prefix
  <2> QED BY <2>1, <2>2 DEF FirstLoad
<1> QED BY <1>1, <1>3, <1>4

LEMMA FiniteBefore ==
  ASSUME NEW s, NEW k \in Nat, NEW p
  PROVE  /\ IsFiniteSet(LoadsBefore(s, k, p)) /\ IsFiniteSet(PlaintextsBefore(s, k))
         /\ IsFiniteSet(AllLoads(s, k)) /\ Cardinality(AllLoads(s, k)) \in Nat
         /\ Cardinality(PlaintextsBefore(s, k)) \in Nat
<1>1. IsFiniteSet(1 .. k - 1)
  BY FS_Interval
<1>2. /\ LoadsBefore(s, k, p) \in SUBSET (1 .. k - 1) /\ PlaintextsBefore(s, k) \in SUBSET (1 .. k - 1)
      /\ AllLoads(s, k) \in SUBSET (1 .. k - 1)
  BY DEF LoadsBefore, PlaintextsBefore, AllLoads
<1>3. /\ IsFiniteSet(LoadsBefore(s, k, p)) /\ IsFiniteSet(PlaintextsBefore(s, k))
      /\ IsFiniteSet(AllLoads(s, k))
  BY <1>1, <1>2, FS_Subset
<1> QED BY <1>3, FS_CardinalityType

\* The names of two plaintexts differ.
LEMMA PlaintextsDiffer ==
  ASSUME NEW s, NEW k \in Nat, NEW j \in Nat, NEW m \in Nat, k \in 1 .. m, j \in 1 .. m,
         s[j].op = "plaintext", s[k].op = "plaintext",
         Cardinality(PlaintextsBefore(s, j)) = Cardinality(PlaintextsBefore(s, k))
  PROVE  j = k
<1>1. ASSUME NEW a \in 1 .. m, NEW b \in 1 .. m, a < b, s[a].op = "plaintext"
      PROVE  Cardinality(PlaintextsBefore(s, a)) # Cardinality(PlaintextsBefore(s, b))
  <2>1. a \in Nat /\ b \in Nat
    OBVIOUS
  <2>2. PlaintextsBefore(s, a) \in SUBSET PlaintextsBefore(s, b)
    BY <1>1, <2>1 DEF PlaintextsBefore
  <2>3. a \in PlaintextsBefore(s, b) /\ a \notin PlaintextsBefore(s, a)
    BY <1>1, <2>1 DEF PlaintextsBefore
  <2>4. IsFiniteSet(PlaintextsBefore(s, b))
    BY <2>1, FiniteBefore
  <2> QED BY <2>2, <2>3, <2>4, FS_Subset
<1>2. j < k \/ k < j \/ j = k
  OBVIOUS
<1> QED BY <1>1, <1>2

\* What one more operation, op at position h, adds to the counts.
Counts(s, op, t, h) ==
    /\ \A p : /\ LoadsBefore(t, h, p) = LoadsBefore(s, h, p)
              /\ Cardinality(LoadsBefore(t, h + 1, p)) =
                    IF op.op = "load" /\ op.file = p
                    THEN Cardinality(LoadsBefore(s, h, p)) + 1
                    ELSE Cardinality(LoadsBefore(s, h, p))
    /\ PlaintextsBefore(t, h) = PlaintextsBefore(s, h)
    /\ Cardinality(PlaintextsBefore(t, h + 1)) =
          IF op.op = "plaintext" THEN Cardinality(PlaintextsBefore(s, h)) + 1
                                 ELSE Cardinality(PlaintextsBefore(s, h))
    /\ AllLoads(t, h) = AllLoads(s, h)
    /\ Cardinality(AllLoads(t, h + 1)) =
          IF op.op = "load" THEN Cardinality(AllLoads(s, h)) + 1
                            ELSE Cardinality(AllLoads(s, h))

LEMMA AppendBefore ==
  ASSUME NEW s \in Seq(Ops), NEW op \in Ops, NEW t, t = Append(s, op),
         NEW h, h = Len(s) + 1
  PROVE  Counts(s, op, t, h)
<1>1. /\ Len(s) \in Nat /\ t[h] = op /\ \A k \in 1 .. Len(s) : t[k] = s[k]
  BY AppendFacts
<1>2. /\ h \in Nat /\ h - 1 = Len(s) /\ h + 1 - 1 = h /\ 1 .. h = 1 .. Len(s) \cup {h}
      /\ h \notin 1 .. Len(s)
  BY <1>1
<1>3. \A j \in 1 .. h : j \in 1 .. Len(s) \/ j = h
  BY <1>2
<1>4. PlaintextsBefore(t, h) = PlaintextsBefore(s, h)
  BY <1>1, <1>2 DEF PlaintextsBefore
<1>5. /\ h \notin PlaintextsBefore(s, h) /\ h \notin AllLoads(s, h)
      /\ \A p : h \notin LoadsBefore(s, h, p)
  BY <1>2 DEF PlaintextsBefore, LoadsBefore, AllLoads
<1>6. Cardinality(PlaintextsBefore(t, h + 1)) =
               IF op.op = "plaintext" THEN Cardinality(PlaintextsBefore(s, h)) + 1
                                      ELSE Cardinality(PlaintextsBefore(s, h))
  <2>1. PlaintextsBefore(t, h + 1) = IF op.op = "plaintext" THEN PlaintextsBefore(s, h) \cup {h}
                                                            ELSE PlaintextsBefore(s, h)
    BY <1>1, <1>2, <1>3 DEF PlaintextsBefore
  <2>2. IsFiniteSet(PlaintextsBefore(s, h))
    BY <1>2, FiniteBefore
  <2>3. Cardinality(PlaintextsBefore(s, h) \cup {h}) = Cardinality(PlaintextsBefore(s, h)) + 1
    BY <1>5, <2>2, FS_AddElement
  <2> QED BY <2>1, <2>3
<1>7. ASSUME NEW p
      PROVE  /\ LoadsBefore(t, h, p) = LoadsBefore(s, h, p)
             /\ Cardinality(LoadsBefore(t, h + 1, p)) =
                         IF op.op = "load" /\ op.file = p
                         THEN Cardinality(LoadsBefore(s, h, p)) + 1
                         ELSE Cardinality(LoadsBefore(s, h, p))
  <2>1. LoadsBefore(t, h, p) = LoadsBefore(s, h, p)
    BY <1>1, <1>2 DEF LoadsBefore
  <2>2. LoadsBefore(t, h + 1, p) =
           IF op.op = "load" /\ op.file = p THEN LoadsBefore(s, h, p) \cup {h}
                                            ELSE LoadsBefore(s, h, p)
    BY <1>1, <1>2, <1>3 DEF LoadsBefore
  <2>3. IsFiniteSet(LoadsBefore(s, h, p))
    BY <1>2, FiniteBefore
  <2>4. Cardinality(LoadsBefore(s, h, p) \cup {h}) = Cardinality(LoadsBefore(s, h, p)) + 1
    BY <1>5, <2>3, FS_AddElement
  <2> QED BY <2>1, <2>2, <2>4
<1>8. AllLoads(t, h) = AllLoads(s, h)
  BY <1>1, <1>2 DEF AllLoads
<1>9. Cardinality(AllLoads(t, h + 1)) =
         IF op.op = "load" THEN Cardinality(AllLoads(s, h)) + 1 ELSE Cardinality(AllLoads(s, h))
  <2>1. AllLoads(t, h + 1) = IF op.op = "load" THEN AllLoads(s, h) \cup {h} ELSE AllLoads(s, h)
    BY <1>1, <1>2, <1>3 DEF AllLoads
  <2>2. IsFiniteSet(AllLoads(s, h))
    BY <1>2, FiniteBefore
  <2>3. Cardinality(AllLoads(s, h) \cup {h}) = Cardinality(AllLoads(s, h)) + 1
    BY <1>5, <2>2, FS_AddElement
  <2> QED BY <2>1, <2>3
<1> QED BY <1>4, <1>6, <1>7, <1>8, <1>9 DEF Counts

\* What one more operation, op at position h, adds to the inputs and where they
\* are put.
Grows(s, op, t, h) ==
    /\ \A k \in 1 .. Len(s) : /\ TagOf(t, k) = TagOf(s, k) /\ AllLoads(t, k) = AllLoads(s, k)
                              /\ Unshifted(t, k) <=> Unshifted(s, k)
    /\ Unshifted(t, h) <=> Unshifted(s, h)
    /\ Unshifted(t, h + 1) <=> (Unshifted(s, h) /\ op.op \notin {"plaintext", "eval"})
    /\ Inputs(t) = IF op.op \in {"load", "plaintext"} THEN Inputs(s) \cup {h} ELSE Inputs(s)
    /\ NoLoad(t) <=> (NoLoad(s) /\ op.op # "load")
    /\ NoLoad(s) => Cardinality(AllLoads(s, h)) = 0
    /\ \A k : FirstLoad(t, k) => FirstLoad(s, k) \/ (k = h /\ NoLoad(s))

LEMMA AppendTags ==
  ASSUME NEW s \in Seq(Ops), NEW op \in Ops, NEW t, t = Append(s, op),
         NEW h, h = Len(s) + 1
  PROVE  Grows(s, op, t, h)
<1>1. /\ Len(s) \in Nat /\ Len(t) = h /\ t[h] = op /\ \A k \in 1 .. Len(s) : t[k] = s[k]
      /\ Prefix(s, t)
  BY AppendFacts
<1>2. /\ h \in Nat /\ h - 1 = Len(s) /\ h + 1 - 1 = h
      /\ \A j \in 1 .. h : j \in 1 .. Len(s) \/ j = h
      /\ 1 .. Len(s) \subseteq 1 .. h /\ h \in 1 .. h /\ h \notin 1 .. Len(s)
  BY <1>1
<1>3. \A k \in 1 .. Len(s) : /\ TagOf(t, k) = TagOf(s, k) /\ AllLoads(t, k) = AllLoads(s, k)
                             /\ Unshifted(t, k) <=> Unshifted(s, k)
  BY <1>1, <1>2, PrefixTags
<1>4. Unshifted(t, h) <=> Unshifted(s, h)
  BY <1>1, <1>2 DEF Unshifted
<1>5. Unshifted(t, h + 1) <=> (Unshifted(s, h) /\ op.op \notin {"plaintext", "eval"})
  <2>1. Unshifted(t, h + 1) <=> \A j \in 1 .. h : t[j].op \notin {"plaintext", "eval"}
    BY <1>2 DEF Unshifted
  <2>2. Unshifted(s, h) <=> \A j \in 1 .. Len(s) : s[j].op \notin {"plaintext", "eval"}
    BY <1>2 DEF Unshifted
  <2> QED BY <1>1, <1>2, <2>1, <2>2
<1>6. Inputs(t) = IF op.op \in {"load", "plaintext"} THEN Inputs(s) \cup {h} ELSE Inputs(s)
  BY <1>1, <1>2 DEF Inputs
<1>7. NoLoad(t) <=> (NoLoad(s) /\ op.op # "load")
  BY <1>1, <1>2 DEF NoLoad
<1>8. NoLoad(s) => Cardinality(AllLoads(s, h)) = 0
  <2>1. NoLoad(s) => AllLoads(s, h) = {}
    BY <1>2 DEF NoLoad, AllLoads
  <2> QED BY <2>1, FS_EmptySet
<1>9. ASSUME NEW k, FirstLoad(t, k)
      PROVE  FirstLoad(s, k) \/ (k = h /\ NoLoad(s))
  <2>1. k \in 1 .. h /\ t[k].op = "load" /\ \A j \in 1 .. k - 1 : t[j].op # "load"
    BY <1>1, <1>9 DEF FirstLoad
  <2>2. CASE k = h
    <3>1. \A j \in 1 .. Len(s) : s[j].op # "load"
      BY <1>1, <1>2, <2>1, <2>2
    <3> QED BY <2>2, <3>1 DEF NoLoad
  <2>3. CASE k \in 1 .. Len(s)
    <3>1. \A j \in 1 .. k - 1 : j \in 1 .. Len(s)
      BY <1>1, <2>3
    <3>2. s[k].op = "load" /\ \A j \in 1 .. k - 1 : s[j].op # "load"
      BY <1>1, <2>1, <2>3, <3>1
    <3> QED BY <2>3, <3>2 DEF FirstLoad
  <2> QED BY <1>2, <2>1, <2>2, <2>3
<1> QED BY <1>3, <1>4, <1>5, <1>6, <1>7, <1>8, <1>9 DEF Grows

-----------------------------------------------------------------------------
(* The tags of a process, and of the recordings.                           *)

Tagging == {"UNINITIALIZED", "RECORD", "REPLAY", "COOPERATIVE"}

\* The tags t of the script s have the names that s gives them.
Named(s, t) ==
    /\ DOMAIN t = Tagset(s)
    /\ \A k \in Inputs(s) : t[k].name = TagOf(s, k)
    /\ ~NoLoad(s) => t[Keys].name = KeysName

\* The inputs before anything that shifts them are where s puts them.
InPlace(s, t) ==
    /\ \A k \in 1 .. Len(s) : s[k].op = "load" /\ Unshifted(s, k) =>
                                 t[k].slot = Cardinality(AllLoads(s, k)) + 2
    /\ \A k : FirstLoad(s, k) /\ Unshifted(s, k) => t[Keys].slot = 1

\* No two are at one slot.
Apart(s, t) == \A j, k \in Tagset(s) : t[j].slot = t[k].slot => j = k

\* The next slot if nothing shifts it.
NextSlot(s, h) == Cardinality(AllLoads(s, h)) + (IF NoLoad(s) THEN 1 ELSE 2)

Counted ==
    /\ load_counter = [p \in Paths |-> Cardinality(LoadsBefore(script, Here, p))]
    /\ plaintext_counter = Cardinality(PlaintextsBefore(script, Here))

Tagged == Named(script, tagged) /\ InPlace(script, tagged) /\ Counted

RecordSlots ==
    /\ slot \in Nat \ {0} /\ Apart(script, tagged)
    /\ \A k \in Tagset(script) : tagged[k].slot \in Nat /\ tagged[k].slot < slot
    /\ Unshifted(script, Here) => slot = NextSlot(script, Here)

ReplaySlots ==
    /\ slot = NextSlot(script, Here)
    /\ \A c \in cached : \A k \in Inputs(script) :
          script[k].op = "plaintext" => tagged[k].slot = c.tagged[k].slot

TInv ==
    /\ script \in Seq(Ops) /\ DOMAIN objs \subseteq 1 .. Len(script)
    /\ mode \in Modes
    /\ mode = "UNINITIALIZED" => script = <<>>
    /\ \A c, d \in cached : c = d
    /\ \A c \in cached : /\ c.script \in Seq(Ops) /\ Named(c.script, c.tagged)
                         /\ InPlace(c.script, c.tagged) /\ Apart(c.script, c.tagged)
    /\ mode \in Tagging => Tagged
    /\ mode \in Tagging \ {"REPLAY"} => RecordSlots
    /\ mode \in {"UNINITIALIZED", "REPLAY"} => ReplaySlots
    /\ mode = "REPLAY" => \A c \in cached : Prefix(script, c.script)

LEMMA EmptyScript ==
  ASSUME NEW s, s = <<>>, NEW t, t = Empty
  PROVE  /\ s \in Seq(Ops) /\ Len(s) = 0 /\ Inputs(s) = {} /\ Tagset(s) = {}
         /\ Named(s, t) /\ InPlace(s, t) /\ Apart(s, t) /\ NextSlot(s, 1) = 1
         /\ \A p : Cardinality(LoadsBefore(s, 1, p)) = 0
         /\ Cardinality(PlaintextsBefore(s, 1)) = 0
<1>1. s \in Seq(Ops) /\ Len(s) = 0 /\ 1 .. 0 = {} /\ 1 .. 1 - 1 = {}
  OBVIOUS
<1>2. /\ Inputs(s) = {} /\ AllLoads(s, 1) = {} /\ PlaintextsBefore(s, 1) = {} /\ NoLoad(s)
      /\ \A p : LoadsBefore(s, 1, p) = {}
  BY <1>1 DEF Inputs, LoadsBefore, PlaintextsBefore, AllLoads, NoLoad
<1>3. Tagset(s) = {}
  BY <1>2 DEF Tagset
<1>4. Named(s, t) /\ InPlace(s, t) /\ Apart(s, t)
  BY <1>1, <1>2, <1>3 DEF Named, InPlace, Apart, Empty, FirstLoad
<1>5. NextSlot(s, 1) = 1
  BY <1>2, FS_EmptySet DEF NextSlot
<1> QED BY <1>1, <1>2, <1>3, <1>4, <1>5, FS_EmptySet

LEMMA TInit == Init => TInv
<1> SUFFICES ASSUME Init PROVE TInv
  OBVIOUS
<1>1. /\ script = <<>> /\ tagged = Empty /\ load_counter = [p \in Paths |-> 0]
      /\ plaintext_counter = 0 /\ slot = 1 /\ objs = Empty /\ cached = {}
      /\ mode = "UNINITIALIZED"
  BY DEF Init
<1>2. Here = 1
  BY <1>1, EmptyScript DEF Here
<1>3. Tagged
  BY <1>1, <1>2, EmptyScript DEF Tagged, Counted
<1>4. RecordSlots /\ ReplaySlots
  <2>1. Tagset(script) = {} /\ Apart(script, tagged) /\ NextSlot(script, 1) = 1
    BY <1>1, EmptyScript
  <2> QED BY <1>1, <1>2, <2>1 DEF RecordSlots, ReplaySlots
<1>5. script \in Seq(Ops) /\ DOMAIN objs \subseteq 1 .. Len(script)
  BY <1>1, EmptyScript DEF Empty
<1> QED BY <1>1, <1>3, <1>4, <1>5 DEF TInv, Modes

\* An operation of the program: what it did stays a prefix of the recording.
LEMMA DoesOp ==
  ASSUME TInv, NEW op \in Ops, Does(op)
  PROVE  /\ script' = Append(script, op) /\ script' \in Seq(Ops)
         /\ Len(script) \in Nat /\ Len(script') = Here /\ script'[Here] = op
         /\ \A k \in 1 .. Len(script) : script'[k] = script[k]
         /\ mode \notin {"UNINITIALIZED", "EXITED"}
         /\ mode = "REPLAY" =>
               \A c \in cached : /\ Prefix(script, c.script) /\ Prefix(script', c.script)
                                 /\ Here \in 1 .. Len(c.script) /\ c.script[Here] = op
<1>1. script \in Seq(Ops) /\ script' = Append(script, op) /\ mode \notin {"UNINITIALIZED", "EXITED"}
  BY DEF TInv, Does
<1>2. /\ script' \in Seq(Ops)
      /\ Len(script) \in Nat /\ Len(script') = Here /\ script'[Here] = op
      /\ \A k \in 1 .. Len(script) : script'[k] = script[k]
  BY <1>1, AppendFacts DEF Here
<1>3. ASSUME mode = "REPLAY", NEW c \in cached
      PROVE  /\ Prefix(script, c.script) /\ Prefix(script', c.script)
             /\ Here \in 1 .. Len(c.script) /\ c.script[Here] = op
  <2>1. Here <= Len(c.script) /\ c.script[Here] = op
    BY <1>3 DEF Does, TInv
  <2>2. Prefix(script, c.script) /\ Len(c.script) \in Nat
    BY <1>3, LenProperties DEF TInv
  <2>3. \A k \in 1 .. Here : k \in 1 .. Len(script) \/ k = Here
    BY <1>2 DEF Here
  <2>4. Prefix(script', c.script)
    BY <1>2, <2>1, <2>2, <2>3 DEF Prefix
  <2>5. Here \in 1 .. Len(c.script)
    BY <1>2, <2>1, <2>2 DEF Here
  <2> QED BY <2>1, <2>2, <2>4, <2>5
<1> QED BY <1>1, <1>2, <1>3

LEMMA StepBefore ==
  ASSUME script \in Seq(Ops), NEW op \in Ops, script' = Append(script, op)
  PROVE  /\ Here = Len(script) + 1 /\ Here' = Here + 1 /\ Here \in Nat /\ Len(script') = Here
         /\ Counts(script, op, script', Here) /\ Grows(script, op, script', Here)
         /\ \A k \in 1 .. Len(script) : script'[k] = script[k]
         /\ \A k \in 1 .. Here : k \in 1 .. Len(script) \/ k = Here
         /\ script'[Here] = op
<1>1. Here = Len(script) + 1
  BY DEF Here
<1>2. /\ Len(script') = Len(script) + 1 /\ Len(script) \in Nat
      /\ \A k \in 1 .. Len(script) : script'[k] = script[k] /\ script'[Len(script) + 1] = op
      /\ script'[Len(script) + 1] = op
  BY AppendFacts
<1>3. Here' = Here + 1 /\ Here \in Nat
  BY <1>2 DEF Here
<1>4. Counts(script, op, script', Here) /\ Grows(script, op, script', Here)
  BY <1>1, AppendBefore, AppendTags, Zenon
<1>5. \A k \in 1 .. Here : k \in 1 .. Len(script) \/ k = Here
  BY <1>1, <1>2
<1> QED BY <1>1, <1>2, <1>3, <1>4, <1>5

\* What was tagged stays as it is, if the tags of the process only grow.
LEMMA StillTagged ==
  ASSUME script \in Seq(Ops), NEW op \in Ops, script' = Append(script, op), Tagged,
         NEW t, \A k \in Tagset(script) : t[k] = tagged[k]
  PROVE  /\ \A k \in Inputs(script) : t[k].name = TagOf(script', k)
         /\ ~NoLoad(script) => t[Keys].name = KeysName
         /\ \A k \in 1 .. Len(script) : script'[k].op = "load" /\ Unshifted(script', k) =>
                t[k].slot = Cardinality(AllLoads(script', k)) + 2
         /\ \A k : FirstLoad(script, k) /\ Unshifted(script', k) => t[Keys].slot = 1
<1>1. /\ Grows(script, op, script', Here)
      /\ \A k \in 1 .. Len(script) : script'[k] = script[k]
  BY StepBefore
<1>2. /\ \A k \in Inputs(script) : k \in Tagset(script) /\ k \in 1 .. Len(script)
      /\ ~NoLoad(script) => Keys \in Tagset(script)
      /\ \A k : FirstLoad(script, k) => ~NoLoad(script) /\ k \in 1 .. Len(script)
      /\ \A k \in 1 .. Len(script) : script[k].op = "load" => k \in Inputs(script)
  BY DEF Tagset, Inputs, FirstLoad, NoLoad
<1>3. /\ \A k \in Inputs(script) : tagged[k].name = TagOf(script, k)
      /\ ~NoLoad(script) => tagged[Keys].name = KeysName
      /\ \A k \in 1 .. Len(script) : script[k].op = "load" /\ Unshifted(script, k) =>
                tagged[k].slot = Cardinality(AllLoads(script, k)) + 2
      /\ \A k : FirstLoad(script, k) /\ Unshifted(script, k) => tagged[Keys].slot = 1
  BY DEF Tagged, Named, InPlace
<1>4. \A k \in Inputs(script) : t[k].name = TagOf(script', k)
  BY <1>1, <1>2, <1>3 DEF Grows
<1>5. ASSUME NEW k \in 1 .. Len(script), script'[k].op = "load", Unshifted(script', k)
      PROVE  t[k].slot = Cardinality(AllLoads(script', k)) + 2
  BY <1>1, <1>2, <1>3, <1>5 DEF Grows
<1>6. ASSUME NEW k, FirstLoad(script, k), Unshifted(script', k)
      PROVE  t[Keys].slot = 1
  <2>1. Unshifted(script, k)
    BY <1>1, <1>2, <1>6 DEF Grows
  <2> QED BY <1>2, <1>3, <1>6, <2>1
<1> QED BY <1>2, <1>3, <1>4, <1>5, <1>6

\* One that makes no input.
LEMMA OtherOp ==
  ASSUME TInv, NEW op \in Ops, Does(op), op.op \notin {"load", "plaintext"},
         UNCHANGED <<mode, tagged, load_counter, plaintext_counter, cached>>,
         slot' = slot \/ (slot' = slot + 1 /\ op.op = "eval" /\ mode # "REPLAY"),
         op.op = "eval" /\ mode # "REPLAY" => slot' = slot + 1,
         DOMAIN objs' \subseteq 1 .. Here
  PROVE  TInv'
<1>1. /\ script' = Append(script, op) /\ script' \in Seq(Ops)
      /\ Len(script) \in Nat /\ Len(script') = Here
      /\ mode \notin {"UNINITIALIZED", "EXITED"}
      /\ mode = "REPLAY" => \A c \in cached : Prefix(script', c.script)
      /\ script \in Seq(Ops)
  BY DoesOp DEF TInv
<1>2. /\ Counts(script, op, script', Here) /\ Grows(script, op, script', Here)
      /\ Here' = Here + 1 /\ Len(script') = Here
      /\ \A k \in 1 .. Len(script) : script'[k] = script[k]
      /\ \A k \in 1 .. Here : k \in 1 .. Len(script) \/ k = Here
      /\ script'[Here] = op
  BY <1>1, StepBefore
<1>3. /\ Inputs(script') = Inputs(script) /\ (NoLoad(script') <=> NoLoad(script))
      /\ Tagset(script') = Tagset(script)
      /\ NextSlot(script', Here') = NextSlot(script, Here)
  <2>1. Inputs(script') = Inputs(script) /\ (NoLoad(script') <=> NoLoad(script))
    BY <1>2 DEF Grows
  <2>2. Cardinality(AllLoads(script', Here')) = Cardinality(AllLoads(script, Here))
    BY <1>2 DEF Counts
  <2> QED BY <2>1, <2>2 DEF Tagset, NextSlot
<1>4. ASSUME mode \in Tagging PROVE Tagged'
  <2>1. Tagged
    BY <1>4 DEF TInv
  <2>2. Named(script', tagged')
    BY <1>1, <1>3, <2>1, StillTagged DEF Named, Tagged
  <2>3. InPlace(script', tagged')
    <3>1. \A k : FirstLoad(script', k) => FirstLoad(script, k)
      <4> SUFFICES ASSUME NEW k, FirstLoad(script', k) PROVE FirstLoad(script, k)
        OBVIOUS
      <4>1. FirstLoad(script, k) \/ (k = Here /\ NoLoad(script))
        BY <1>2 DEF Grows
      <4>2. k # Here
        BY <1>2 DEF FirstLoad
      <4> QED BY <4>1, <4>2
    <3>2. \A k \in 1 .. Len(script') : script'[k].op = "load" => k \in 1 .. Len(script)
      BY <1>2
    <3> QED BY <1>1, <2>1, <3>1, <3>2, StillTagged DEF InPlace
  <2>4. Counted'
    BY <1>2, <2>1 DEF Tagged, Counted, Counts
  <2> QED BY <2>2, <2>3, <2>4 DEF Tagged
<1>5. ASSUME mode \in Tagging \ {"REPLAY"} PROVE RecordSlots'
  <2>1. RecordSlots
    BY <1>5 DEF TInv
  <2>2. slot' \in Nat \ {0} /\ slot <= slot'
    BY <2>1 DEF RecordSlots
  <2>3. Apart(script', tagged')
    BY <1>3, <2>1 DEF RecordSlots, Apart
  <2>4. \A k \in Tagset(script') : tagged'[k].slot \in Nat /\ tagged'[k].slot < slot'
    BY <1>3, <2>1, <2>2 DEF RecordSlots
  <2>5. Unshifted(script', Here') => slot' = NextSlot(script', Here')
    <3> SUFFICES ASSUME Unshifted(script', Here') PROVE slot' = NextSlot(script', Here')
      OBVIOUS
    <3>1. Unshifted(script, Here) /\ op.op # "eval"
      BY <1>2 DEF Grows
    <3> QED BY <1>3, <2>1, <3>1 DEF RecordSlots
  <2> QED BY <2>2, <2>3, <2>4, <2>5 DEF RecordSlots
<1>6. ASSUME mode = "REPLAY" PROVE ReplaySlots'
  <2>1. ReplaySlots /\ slot' = slot
    BY <1>6 DEF TInv
  <2>2. \A k \in Inputs(script) : script'[k] = script[k]
    BY <1>2 DEF Inputs
  <2> QED BY <1>3, <2>1, <2>2 DEF ReplaySlots
<1>7. DOMAIN objs' \subseteq 1 .. Len(script')
  BY <1>1
<1>8. \A c \in cached' : /\ c.script \in Seq(Ops) /\ Named(c.script, c.tagged)
                         /\ InPlace(c.script, c.tagged) /\ Apart(c.script, c.tagged)
  BY DEF TInv
<1> QED BY <1>1, <1>4, <1>5, <1>6, <1>7, <1>8 DEF TInv

LEMMA LoadKeeps ==
  ASSUME TInv, NEW path \in Paths, NEW a, Load(path, a)
  PROVE  TInv'
<1> DEFINE op == Op("load", 0, path)
           first == Keys \notin DOMAIN tagged
           keyed == IF first THEN With(tagged, Keys, Tag(KeysName, slot)) ELSE tagged
           at == IF first THEN slot + 1 ELSE slot
<1>1. op \in Ops /\ op.op = "load" /\ op.file = path
  BY DEF Op, Ops
<1>2. /\ Does(op) /\ UNCHANGED <<mode, plaintext_counter, cached>>
      /\ mode # "DORMANT" =>
            /\ load_counter' = [load_counter EXCEPT ![path] = @ + 1]
            /\ tagged' = With(keyed, Here, Tag(InputName(path, load_counter[path]), at))
            /\ slot' = at + 1
  BY DEF Load
<1> HIDE DEF op
<1>3. /\ script' = Append(script, op) /\ script' \in Seq(Ops)
      /\ Len(script) \in Nat /\ Len(script') = Here
      /\ mode \notin {"UNINITIALIZED", "EXITED"}
      /\ mode = "REPLAY" => \A c \in cached : Prefix(script', c.script)
      /\ script \in Seq(Ops)
  BY <1>1, <1>2, DoesOp DEF TInv
<1>4. /\ Counts(script, op, script', Here) /\ Grows(script, op, script', Here)
      /\ Here' = Here + 1 /\ Here \in Nat /\ Here = Len(script) + 1
      /\ \A k \in 1 .. Len(script) : script'[k] = script[k]
      /\ \A k \in 1 .. Here : k \in 1 .. Len(script) \/ k = Here
      /\ script'[Here] = op
  BY <1>1, <1>3, StepBefore
<1>5. /\ Inputs(script') = Inputs(script) \cup {Here} /\ ~NoLoad(script')
      /\ Tagset(script') = Inputs(script) \cup {Here, Keys}
      /\ Here \notin Tagset(script) /\ Here # Keys
      /\ \A k \in Inputs(script) : k # Keys /\ k # Here
  <2>1. Inputs(script') = Inputs(script) \cup {Here} /\ ~NoLoad(script')
    BY <1>1, <1>4 DEF Grows
  <2>2. Here # Keys /\ \A k \in Inputs(script) : k # Keys /\ k # Here
    BY <1>3, <1>4 DEF Inputs, Keys
  <2> QED BY <2>1, <2>2 DEF Tagset
<1>6. ASSUME mode \in Tagging
      PROVE  /\ Tagged' /\ (mode # "REPLAY" => RecordSlots')
             /\ (mode = "REPLAY" => ReplaySlots')
  <2>1. Tagged /\ mode # "DORMANT"
    BY <1>6 DEF TInv, Tagging
  <2>2. DOMAIN tagged = Tagset(script) /\ (first <=> NoLoad(script))
    <3>1. DOMAIN tagged = Tagset(script)
      BY <2>1 DEF Tagged, Named
    <3> QED BY <1>5, <3>1 DEF Tagset
  <2>3. /\ DOMAIN tagged' = Tagset(script')
        /\ \A k \in Tagset(script) : tagged'[k] = tagged[k]
        /\ tagged'[Here] = Tag(InputName(path, load_counter[path]), at)
        /\ first => tagged'[Keys] = Tag(KeysName, slot)
    <3>1. tagged' = With(keyed, Here, Tag(InputName(path, load_counter[path]), at))
      BY <1>2, <2>1
    <3>2. /\ DOMAIN keyed = Tagset(script) \cup {Keys}
          /\ \A k \in Tagset(script) : keyed[k] = tagged[k]
          /\ first => keyed[Keys] = Tag(KeysName, slot)
      BY <2>2 DEF With
    <3> HIDE DEF keyed, first, at
    <3>3. DOMAIN tagged' = Tagset(script) \cup {Keys, Here}
      BY <3>1, <3>2 DEF With
    <3>4. Tagset(script') = Tagset(script) \cup {Keys, Here}
      BY <1>5 DEF Tagset
    <3>5. /\ \A k \in DOMAIN keyed : k # Here => tagged'[k] = keyed[k]
          /\ tagged'[Here] = Tag(InputName(path, load_counter[path]), at)
      BY <3>1 DEF With
    <3> QED BY <1>5, <3>2, <3>3, <3>4, <3>5
  <2> HIDE DEF keyed
  <2>4. TagOf(script', Here) = InputName(path, load_counter[path])
    BY <1>1, <1>4, <2>1 DEF TagOf, Tagged, Counted, Counts
  <2>5. Named(script', tagged')
    <3>1. \A k \in Inputs(script) : tagged'[k].name = TagOf(script', k)
      BY <1>3, <2>1, <2>3, StillTagged
    <3>2. tagged'[Here].name = TagOf(script', Here)
      BY <2>3, <2>4 DEF Tag
    <3>3. tagged'[Keys].name = KeysName
      <4>1. CASE first
        BY <2>3, <4>1 DEF Tag
      <4>2. CASE ~first
        BY <1>3, <2>1, <2>2, <2>3, <4>2, StillTagged
      <4> QED BY <4>1, <4>2
    <3> QED BY <1>5, <2>3, <3>1, <3>2, <3>3 DEF Named
  <2>6. Unshifted(script', Here) => slot = NextSlot(script, Here)
    BY <1>4, <1>6 DEF TInv, RecordSlots, ReplaySlots, Grows, Tagging
  <2>7. Cardinality(AllLoads(script, Here)) \in Nat
    BY <1>4, FiniteBefore
  <2>8. /\ AllLoads(script', Here) = AllLoads(script, Here)
        /\ Cardinality(AllLoads(script', Here')) = Cardinality(AllLoads(script, Here)) + 1
        /\ NextSlot(script', Here') = Cardinality(AllLoads(script, Here)) + 3
        /\ NextSlot(script, Here) = IF first THEN 1 ELSE Cardinality(AllLoads(script, Here)) + 2
        /\ first => Cardinality(AllLoads(script, Here)) = 0
    <3>1. /\ AllLoads(script', Here) = AllLoads(script, Here)
          /\ Cardinality(AllLoads(script', Here')) = Cardinality(AllLoads(script, Here)) + 1
      BY <1>1, <1>4 DEF Counts
    <3>2. first => Cardinality(AllLoads(script, Here)) = 0
      BY <1>4, <2>2 DEF Grows
    <3>3. NextSlot(script', Here') = Cardinality(AllLoads(script, Here)) + 3
      BY <1>5, <2>7, <3>1 DEF NextSlot
    <3>4. NextSlot(script, Here) = IF first THEN 1 ELSE Cardinality(AllLoads(script, Here)) + 2
      BY <2>2, <2>7, <3>2 DEF NextSlot
    <3> QED BY <3>1, <3>2, <3>3, <3>4
  <2>9. slot = NextSlot(script, Here) =>
           /\ at = Cardinality(AllLoads(script, Here)) + 2
           /\ slot' = NextSlot(script', Here')
           /\ first => slot = 1
    <3>1. slot' = at + 1
      BY <1>2, <2>1
    <3> QED BY <2>7, <2>8, <3>1
  <2>10. InPlace(script', tagged')
    <3>1. ASSUME NEW k \in 1 .. Len(script'), script'[k].op = "load", Unshifted(script', k)
          PROVE  tagged'[k].slot = Cardinality(AllLoads(script', k)) + 2
      <4>1. CASE k \in 1 .. Len(script)
        BY <1>3, <2>1, <2>3, <3>1, <4>1, StillTagged
      <4>2. CASE k = Here
        BY <2>3, <2>6, <2>8, <2>9, <3>1, <4>2 DEF Tag
      <4> QED BY <1>3, <1>4, <4>1, <4>2
    <3>2. ASSUME NEW k, FirstLoad(script', k), Unshifted(script', k)
          PROVE  tagged'[Keys].slot = 1
      <4>1. FirstLoad(script, k) \/ (k = Here /\ NoLoad(script))
        BY <1>4, <3>2 DEF Grows
      <4>2. CASE FirstLoad(script, k)
        BY <1>3, <2>1, <2>3, <3>2, <4>2, StillTagged
      <4>3. CASE k = Here /\ NoLoad(script)
        BY <2>2, <2>3, <2>6, <2>9, <3>2, <4>3 DEF Tag
      <4> QED BY <4>1, <4>2, <4>3
    <3> QED BY <3>1, <3>2 DEF InPlace
  <2>11. Counted'
    <3>1. \A p : Cardinality(LoadsBefore(script', Here', p)) =
                    IF path = p THEN Cardinality(LoadsBefore(script, Here, p)) + 1
                                ELSE Cardinality(LoadsBefore(script, Here, p))
      BY <1>1, <1>4 DEF Counts
    <3>2. Cardinality(PlaintextsBefore(script', Here')) = Cardinality(PlaintextsBefore(script, Here))
      BY <1>1, <1>4 DEF Counts
    <3>3. load_counter' = [load_counter EXCEPT ![path] = @ + 1] /\ plaintext_counter' = plaintext_counter
      BY <1>2, <2>1
    <3> QED BY <2>1, <3>1, <3>2, <3>3 DEF Tagged, Counted
  <2>12. ASSUME mode # "REPLAY" PROVE RecordSlots'
    <3>1. RecordSlots
      BY <1>6, <2>12 DEF TInv
    <3>2. slot \in Nat \ {0} /\ at \in Nat /\ slot <= at /\ slot' = at + 1 /\ (first => slot < at)
      BY <1>2, <2>1, <3>1 DEF RecordSlots
    <3>3. /\ \A k \in Tagset(script) : tagged[k].slot \in Nat /\ tagged[k].slot < slot
          /\ \A j, k \in Tagset(script) : tagged[j].slot = tagged[k].slot => j = k
      BY <3>1 DEF RecordSlots, Apart
    <3>4. tagged'[Here].slot = at /\ (first => tagged'[Keys].slot = slot)
      BY <2>3 DEF Tag
    <3>5. Tagset(script') = Tagset(script) \cup {Keys, Here} /\ (~first => Keys \in Tagset(script))
      BY <1>5, <2>2 DEF Tagset
    <3> HIDE DEF first, at
    <3>6. \A k \in Tagset(script') : tagged'[k].slot \in Nat /\ tagged'[k].slot < slot'
      BY <2>3, <3>2, <3>3, <3>4, <3>5
    <3>7. Apart(script', tagged')
      <4> SUFFICES ASSUME NEW j \in Tagset(script'), NEW k \in Tagset(script'),
                          tagged'[j].slot = tagged'[k].slot
                   PROVE  j = k
        BY DEF Apart
      <4>1. CASE first
        BY <2>3, <3>2, <3>3, <3>4, <3>5, <4>1
      <4>2. CASE ~first
        BY <2>3, <3>2, <3>3, <3>4, <3>5, <4>2
      <4> QED BY <4>1, <4>2
    <3>8. Unshifted(script', Here') => slot' = NextSlot(script', Here')
      <4>1. Unshifted(script', Here') => Unshifted(script', Here)
        BY <1>4 DEF Grows
      <4> QED BY <2>6, <2>9, <4>1
    <3> QED BY <3>2, <3>6, <3>7, <3>8 DEF RecordSlots
  <2>13. ASSUME mode = "REPLAY" PROVE ReplaySlots'
    <3>1. ReplaySlots
      BY <2>13 DEF TInv
    <3>2. slot' = NextSlot(script', Here')
      BY <2>9, <3>1 DEF ReplaySlots
    <3>3. ASSUME NEW c \in cached', NEW k \in Inputs(script'), script'[k].op = "plaintext"
          PROVE  tagged'[k].slot = c.tagged[k].slot
      <4>1. c \in cached /\ k \in Inputs(script)
        BY <1>1, <1>2, <1>4, <1>5, <3>3
      <4>2. script[k].op = "plaintext" /\ k \in Tagset(script)
        BY <1>4, <3>3, <4>1 DEF Inputs, Tagset
      <4> QED BY <2>3, <3>1, <4>1, <4>2 DEF ReplaySlots
    <3> QED BY <3>2, <3>3 DEF ReplaySlots
  <2> QED BY <2>1, <2>5, <2>10, <2>11, <2>12, <2>13 DEF Tagged
<1>7. DOMAIN objs' \subseteq 1 .. Len(script')
  <2>1. DOMAIN objs' = DOMAIN objs \cup {Here}
    BY DEF Load, Make, With
  <2>2. DOMAIN objs \subseteq 1 .. Len(script)
    BY DEF TInv
  <2> QED BY <1>3, <1>4, <2>1, <2>2
<1>8. \A c \in cached' : /\ c.script \in Seq(Ops) /\ Named(c.script, c.tagged)
                         /\ InPlace(c.script, c.tagged) /\ Apart(c.script, c.tagged)
  BY <1>2 DEF TInv
<1>9. mode' \in Tagging => Tagged'
  BY <1>2, <1>6
<1>10. /\ mode' \in Tagging \ {"REPLAY"} => RecordSlots'
       /\ mode' \in {"UNINITIALIZED", "REPLAY"} => ReplaySlots'
  BY <1>2, <1>3, <1>6 DEF Tagging
<1> QED BY <1>2, <1>3, <1>7, <1>8, <1>9, <1>10 DEF TInv

\* The file a replay finds under the name of a plaintext is that plaintext's.
LEMMA FiledOne ==
  ASSUME TInv, NEW op \in Ops, Does(op), op.op = "plaintext", mode = "REPLAY",
         NEW c \in cached
  PROVE  Filed(PlaintextName(plaintext_counter)) = {c.tagged[Here]}
<1> DEFINE n == plaintext_counter
<1>1. /\ script' = Append(script, op) /\ Len(script) \in Nat /\ script \in Seq(Ops)
      /\ Prefix(script', c.script) /\ Here \in 1 .. Len(c.script) /\ c.script[Here] = op
      /\ Len(c.script) \in Nat /\ Len(script') = Here /\ script'[Here] = op
  BY DoesOp, LenProperties DEF TInv
<1>2. Here \in Nat /\ Counts(script, op, script', Here)
  BY <1>1, StepBefore
<1>3. TagOf(c.script, Here) = PlaintextName(n)
  <2>1. TagOf(script', Here) = TagOf(c.script, Here)
    <3>1. Here \in 1 .. Len(script') /\ Len(script') \in Nat
      BY <1>1, <1>2
    <3> QED BY <1>1, <3>1, PrefixTags
  <2>2. Cardinality(PlaintextsBefore(script', Here)) = n
    BY <1>2 DEF Counts, TInv, Tagging, Tagged, Counted
  <2> QED BY <1>1, <2>1, <2>2 DEF TagOf
<1>4. Here \in Inputs(c.script) /\ Cardinality(PlaintextsBefore(c.script, Here)) = n
  <2>1. Here \in Inputs(c.script)
    BY <1>1 DEF Inputs
  <2> QED BY <1>1, <1>3, <2>1 DEF TagOf, PlaintextName
<1>5. Named(c.script, c.tagged) /\ \A d \in cached : d = c
  BY DEF TInv
<1>6. Here \in DOMAIN c.tagged /\ c.tagged[Here].name = PlaintextName(n)
  BY <1>3, <1>4, <1>5 DEF Named, Tagset
<1>7. ASSUME NEW k \in DOMAIN c.tagged, c.tagged[k].name = PlaintextName(n)
      PROVE  k = Here
  <2>1. k \in Tagset(c.script)
    BY <1>5, <1>7 DEF Named
  <2>2. CASE k \in Inputs(c.script)
    <3>1. k \in 1 .. Len(c.script) /\ TagOf(c.script, k) = PlaintextName(n)
      BY <1>5, <1>7, <2>2 DEF Named, Inputs
    <3>2. c.script[k].op # "load"
      BY <3>1 DEF TagOf, InputName, PlaintextName
    <3>3. Cardinality(PlaintextsBefore(c.script, k)) = n /\ c.script[k].op = "plaintext"
      BY <2>2, <3>1, <3>2 DEF TagOf, PlaintextName, Inputs
    <3>4. k \in Nat /\ Len(c.script) \in Nat
      BY <1>1, <3>1
    <3> QED BY <1>1, <1>2, <1>4, <3>1, <3>3, <3>4, PlaintextsDiffer
  <2>3. CASE k = Keys /\ ~NoLoad(c.script)
    BY <1>5, <1>7, <2>3 DEF Named, KeysName, PlaintextName
  <2> QED BY <2>1, <2>2, <2>3 DEF Tagset
<1> HIDE DEF n
<1>8. {i \in DOMAIN c.tagged : c.tagged[i].name = PlaintextName(n)} = {Here}
  BY <1>6, <1>7
<1>9. cached = {c}
  BY <1>5
<1>10. Filed(PlaintextName(n)) = {c.tagged[k] : k \in {Here}}
  BY <1>8, <1>9 DEF Filed
<1>11. Filed(PlaintextName(n)) = {c.tagged[Here]}
  BY <1>10
<1> QED BY <1>11 DEF n

LEMMA PlaintextKeeps == ASSUME TInv, MakePlaintext PROVE TInv'
<1> DEFINE op == Op("plaintext", 0, "")
<1>1. op \in Ops /\ op.op = "plaintext"
  BY DEF Op, Ops
<1>2. /\ Does(op) /\ UNCHANGED <<mode, load_counter, objs, cached>>
      /\ mode # "DORMANT" => /\ plaintext_counter' = plaintext_counter + 1
                             /\ Interned(PlaintextName(plaintext_counter))
  BY DEF MakePlaintext
<1> HIDE DEF op
<1>3. /\ script' = Append(script, op) /\ script' \in Seq(Ops)
      /\ Len(script) \in Nat /\ Len(script') = Here
      /\ mode \notin {"UNINITIALIZED", "EXITED"}
      /\ mode = "REPLAY" => \A c \in cached : Prefix(script', c.script)
      /\ script \in Seq(Ops)
  BY <1>1, <1>2, DoesOp DEF TInv
<1>4. /\ Counts(script, op, script', Here) /\ Grows(script, op, script', Here)
      /\ Here' = Here + 1 /\ Here \in Nat /\ Here = Len(script) + 1
      /\ \A k \in 1 .. Len(script) : script'[k] = script[k]
      /\ \A k \in 1 .. Here : k \in 1 .. Len(script) \/ k = Here
      /\ script'[Here] = op
  BY <1>1, <1>3, StepBefore
<1>5. /\ Inputs(script') = Inputs(script) \cup {Here} /\ (NoLoad(script') <=> NoLoad(script))
      /\ Tagset(script') = Tagset(script) \cup {Here}
      /\ Here \notin Tagset(script)
      /\ NextSlot(script', Here') = NextSlot(script, Here)
  <2>1. Inputs(script') = Inputs(script) \cup {Here} /\ (NoLoad(script') <=> NoLoad(script))
    BY <1>1, <1>4 DEF Grows
  <2>2. Here # Keys /\ \A k \in Inputs(script) : k # Here
    BY <1>3, <1>4 DEF Inputs, Keys
  <2>3. Cardinality(AllLoads(script', Here')) = Cardinality(AllLoads(script, Here))
    BY <1>1, <1>4 DEF Counts
  <2> QED BY <2>1, <2>2, <2>3 DEF Tagset, NextSlot
<1>6. ASSUME mode \in Tagging
      PROVE  /\ Tagged' /\ (mode # "REPLAY" => RecordSlots')
             /\ (mode = "REPLAY" => ReplaySlots')
  <2>1. /\ Tagged /\ mode # "DORMANT" /\ DOMAIN tagged = Tagset(script)
        /\ TagOf(script', Here) = PlaintextName(plaintext_counter)
    <3>1. Tagged /\ mode # "DORMANT"
      BY <1>6 DEF TInv, Tagging
    <3>2. DOMAIN tagged = Tagset(script)
      BY <3>1 DEF Tagged, Named
    <3>3. TagOf(script', Here) = PlaintextName(plaintext_counter)
      BY <1>1, <1>4, <3>1 DEF TagOf, Tagged, Counted, Counts
    <3> QED BY <3>1, <3>2, <3>3
  <2>2. PICK t : /\ tagged' = With(tagged, Here, t) /\ t.name = PlaintextName(plaintext_counter)
                 /\ mode # "REPLAY" => t.slot = slot /\ slot' = slot + 1
                 /\ mode = "REPLAY" => slot' = slot /\ \A c \in cached : t.slot = c.tagged[Here].slot
    <3>1. CASE mode # "REPLAY"
      BY <1>2, <2>1, <3>1 DEF Interned, Tag
    <3>2. CASE mode = "REPLAY"
      <4>1. PICK c \in cached : TRUE
        BY <1>2, <3>2 DEF Does
      <4>2. Filed(PlaintextName(plaintext_counter)) = {c.tagged[Here]}
        BY <1>1, <1>2, <3>2, FiledOne
      <4>3. tagged' = With(tagged, Here, c.tagged[Here]) /\ slot' = slot
        BY <1>2, <2>1, <3>2, <4>2 DEF Interned
      <4>4. \A d \in cached : d = c
        BY DEF TInv
      <4>5. c.tagged[Here].name = PlaintextName(plaintext_counter)
        <5>1. c.tagged[Here] \in Filed(PlaintextName(plaintext_counter))
          BY <4>2
        <5> QED BY <5>1 DEF Filed
      <4> QED BY <3>2, <4>3, <4>4, <4>5
    <3> QED BY <3>1, <3>2
  <2>3. /\ DOMAIN tagged' = Tagset(script') /\ tagged'[Here] = t
        /\ \A k \in Tagset(script) : tagged'[k] = tagged[k]
    BY <1>5, <2>1, <2>2 DEF With
  <2>4. Named(script', tagged')
    <3>1. \A k \in Inputs(script) : tagged'[k].name = TagOf(script', k)
      BY <1>3, <1>1, <2>1, <2>3, StillTagged
    <3>2. ~NoLoad(script') => tagged'[Keys].name = KeysName
      BY <1>3, <1>1, <1>5, <2>1, <2>3, StillTagged
    <3> QED BY <1>5, <2>1, <2>2, <2>3, <3>1, <3>2 DEF Named
  <2>5. InPlace(script', tagged')
    <3>1. \A k : FirstLoad(script', k) => FirstLoad(script, k)
      <4> SUFFICES ASSUME NEW k, FirstLoad(script', k) PROVE FirstLoad(script, k)
        OBVIOUS
      <4>1. FirstLoad(script, k) \/ (k = Here /\ NoLoad(script))
        BY <1>4 DEF Grows
      <4>2. k # Here
        BY <1>1, <1>4 DEF FirstLoad
      <4> QED BY <4>1, <4>2
    <3>2. \A k \in 1 .. Len(script') : script'[k].op = "load" => k \in 1 .. Len(script)
      BY <1>1, <1>3, <1>4
    <3> QED BY <1>1, <1>3, <2>1, <2>3, <3>1, <3>2, StillTagged DEF InPlace
  <2>6. Counted'
    <3>1. \A p : Cardinality(LoadsBefore(script', Here', p)) = Cardinality(LoadsBefore(script, Here, p))
      BY <1>1, <1>4 DEF Counts
    <3>2. Cardinality(PlaintextsBefore(script', Here')) = Cardinality(PlaintextsBefore(script, Here)) + 1
      BY <1>1, <1>4 DEF Counts
    <3> QED BY <1>2, <2>1, <3>1, <3>2 DEF Tagged, Counted
  <2>7. ASSUME mode # "REPLAY" PROVE RecordSlots'
    <3>1. RecordSlots
      BY <1>6, <2>7 DEF TInv
    <3>2. slot \in Nat \ {0} /\ slot' = slot + 1 /\ tagged'[Here].slot = slot
      BY <2>2, <2>3, <2>7, <3>1 DEF RecordSlots
    <3>3. /\ \A k \in Tagset(script) : tagged[k].slot \in Nat /\ tagged[k].slot < slot
          /\ \A j, k \in Tagset(script) : tagged[j].slot = tagged[k].slot => j = k
      BY <3>1 DEF RecordSlots, Apart
    <3>4. \A k \in Tagset(script') : tagged'[k].slot \in Nat /\ tagged'[k].slot < slot'
      BY <1>5, <2>3, <3>2, <3>3
    <3>5. Apart(script', tagged')
      <4> SUFFICES ASSUME NEW j \in Tagset(script'), NEW k \in Tagset(script'),
                          tagged'[j].slot = tagged'[k].slot
                   PROVE  j = k
        BY DEF Apart
      <4> QED BY <1>5, <2>3, <3>2, <3>3
    <3>6. ~Unshifted(script', Here')
      BY <1>1, <1>4 DEF Grows
    <3> QED BY <3>2, <3>4, <3>5, <3>6 DEF RecordSlots
  <2>8. ASSUME mode = "REPLAY" PROVE ReplaySlots'
    <3>1. ReplaySlots /\ slot' = slot
      BY <2>2, <2>8 DEF TInv
    <3>2. ASSUME NEW c \in cached', NEW k \in Inputs(script'), script'[k].op = "plaintext"
          PROVE  tagged'[k].slot = c.tagged[k].slot
      <4>1. CASE k \in Inputs(script)
        <5>1. script[k].op = "plaintext" /\ k \in Tagset(script)
          BY <1>4, <3>2, <4>1 DEF Inputs, Tagset
        <5> QED BY <1>2, <2>3, <3>1, <3>2, <4>1, <5>1 DEF ReplaySlots
      <4>2. CASE k = Here
        BY <1>2, <2>2, <2>3, <2>8, <3>2, <4>2
      <4> QED BY <1>5, <3>2, <4>1, <4>2
    <3> QED BY <1>5, <3>1, <3>2 DEF ReplaySlots
  <2> QED BY <2>4, <2>5, <2>6, <2>7, <2>8 DEF Tagged
<1>7. DOMAIN objs' \subseteq 1 .. Len(script')
  BY <1>2, <1>3, <1>4 DEF TInv
<1>8. \A c \in cached' : /\ c.script \in Seq(Ops) /\ Named(c.script, c.tagged)
                         /\ InPlace(c.script, c.tagged) /\ Apart(c.script, c.tagged)
  BY <1>2 DEF TInv
<1>9. mode' \in Tagging => Tagged'
  BY <1>2, <1>6
<1>10. /\ mode' \in Tagging \ {"REPLAY"} => RecordSlots'
       /\ mode' \in {"UNINITIALIZED", "REPLAY"} => ReplaySlots'
  BY <1>2, <1>3, <1>6 DEF Tagging
<1> QED BY <1>2, <1>3, <1>7, <1>8, <1>9, <1>10 DEF TInv

\* The operation v is applied to is a position of the program.
LEMMA OfType == ASSUME TInv, NEW v \in DOMAIN objs PROVE v \in Nat /\ v \in 1 .. Len(script)
BY LenProperties DEF TInv

LEMMA TNext == TInv /\ [Next]_vars => TInv'
<1> SUFFICES ASSUME TInv, [Next]_vars PROVE TInv'
  OBVIOUS
<1>0. Len(script) \in Nat /\ DOMAIN objs \subseteq 1 .. Here /\ Here \in 1 .. Here
  <2>1. Len(script) \in Nat /\ DOMAIN objs \subseteq 1 .. Len(script)
    BY LenProperties DEF TInv
  <2> QED BY <2>1 DEF Here
<1>1. CASE Begin
  <2>1. /\ script' = <<>> /\ tagged' = Empty /\ load_counter' = [p \in Paths |-> 0]
        /\ plaintext_counter' = 0 /\ slot' = 1 /\ objs' = Empty /\ cached' = cached
        /\ mode' = "UNINITIALIZED"
    BY <1>1 DEF Begin
  <2>2. Here' = 1
    BY <2>1, EmptyScript DEF Here
  <2>3. Tagged'
    BY <2>1, <2>2, EmptyScript DEF Tagged, Counted
  <2>4. RecordSlots' /\ ReplaySlots'
    <3>1. /\ Tagset(script') = {} /\ Apart(script', tagged') /\ NextSlot(script', 1) = 1
          /\ Inputs(script') = {}
      BY <2>1, EmptyScript
    <3> QED BY <2>1, <2>2, <3>1 DEF RecordSlots, ReplaySlots
  <2>5. script' \in Seq(Ops) /\ DOMAIN objs' \subseteq 1 .. Len(script')
    BY <2>1, EmptyScript DEF Empty
  <2> QED BY <2>1, <2>3, <2>4, <2>5 DEF TInv, Modes
<1>2. CASE OnDeserializeCryptoContext
  <2>1. /\ mode = "UNINITIALIZED" /\ mode' \in {"REPLAY", "RECORD", "COOPERATIVE", "DORMANT"}
        /\ UNCHANGED <<script, objs, slot, tagged, load_counter, plaintext_counter, cached>>
    BY <1>2 DEF OnDeserializeCryptoContext, program
  <2>2. Tagged /\ RecordSlots /\ ReplaySlots /\ script = <<>>
    BY <2>1 DEF TInv, Tagging
  <2>3. Tagged' /\ RecordSlots' /\ ReplaySlots'
    BY <2>1, <2>2 DEF Tagged, RecordSlots, ReplaySlots, Counted, Here
  <2>4. \A c \in cached : Prefix(script', c.script)
    <3>1. \A c \in cached : Len(c.script) \in Nat
      BY LenProperties DEF TInv
    <3> QED BY <2>1, <2>2, <3>1 DEF Prefix
  <2> QED BY <2>1, <2>3, <2>4 DEF TInv, Modes
<1>3. CASE Exit
  <2>1. /\ mode' = "EXITED" /\ UNCHANGED <<script, objs>>
        /\ cached' = IF mode = "RECORD"
                     THEN {[script |-> script, probes |-> probes, tagged |-> tagged,
                            mistaken |-> mistaken]}
                     ELSE cached
    BY <1>3 DEF Exit, program
  <2>2. CASE mode = "RECORD"
    <3>1. script \in Seq(Ops) /\ Tagged /\ RecordSlots
      BY <2>2 DEF TInv, Tagging
    <3>2. \A c \in cached' : c.script = script /\ c.tagged = tagged
      BY <2>1, <2>2
    <3>3. \A c, d \in cached' : c = d
      BY <2>1, <2>2
    <3> QED BY <2>1, <3>1, <3>2, <3>3 DEF TInv, Modes, Tagging, Tagged, RecordSlots
  <2>3. CASE mode # "RECORD"
    BY <2>1, <2>3 DEF TInv, Modes, Tagging
  <2> QED BY <2>2, <2>3
<1>4. CASE MakePlaintext
  BY <1>4, PlaintextKeeps
<1>5. ASSUME NEW a, NEW path \in Paths, Load(path, a) PROVE TInv'
  BY <1>5, LoadKeeps
<1>6. ASSUME NEW a, NEW v \in DOMAIN objs, Eval(v, a) PROVE TInv'
  <2> DEFINE op == Op("eval", v, "")
  <2>1. op \in Ops /\ op.op = "eval"
    BY OfType DEF Op, Ops
  <2>2. /\ Does(op) /\ UNCHANGED <<mode, tagged, load_counter, plaintext_counter, cached>>
        /\ slot' = IF mode = "REPLAY" THEN slot ELSE slot + 1
    BY <1>6 DEF Eval
  <2> HIDE DEF op
  <2>3. DOMAIN objs' \subseteq 1 .. Here
    BY <1>0, <1>6 DEF Eval, Make, With
  <2> QED BY <2>1, <2>2, <2>3, OtherOp
<1>7. ASSUME NEW a, NEW v \in DOMAIN objs, Decrypt(v, a) PROVE TInv'
  <2> DEFINE op == Op("decrypt", v, "")
  <2>1. op \in Ops /\ op.op = "decrypt"
    BY OfType DEF Op, Ops
  <2>2. Does(op) /\ UNCHANGED <<mode, tagged, slot, load_counter, plaintext_counter, cached, objs>>
    BY <1>7 DEF Decrypt
  <2> HIDE DEF op
  <2> QED BY <1>0, <2>1, <2>2, OtherOp
<1>8. ASSUME NEW v \in DOMAIN objs, Release(v) PROVE TInv'
  <2> DEFINE op == Op("release", v, "")
  <2>1. op \in Ops /\ op.op = "release"
    BY OfType DEF Op, Ops
  <2>2. Does(op) /\ UNCHANGED <<mode, tagged, slot, load_counter, plaintext_counter, cached>>
    BY <1>8 DEF Release, facade
  <2> HIDE DEF op
  <2>3. DOMAIN objs' \subseteq 1 .. Here
    BY <1>0, <1>8 DEF Release, Restrict
  <2> QED BY <2>1, <2>2, <2>3, OtherOp
<1>9. ASSUME NEW v \in DOMAIN objs, NEW stem \in Stems, Serialize(v, stem) PROVE TInv'
  <2> DEFINE op == Op("serialize", v, stem)
  <2>1. op \in Ops /\ op.op = "serialize"
    BY OfType DEF Op, Ops
  <2>2. Does(op) /\ UNCHANGED <<mode, tagged, slot, load_counter, plaintext_counter, cached>>
    BY <1>9 DEF Serialize
  <2> HIDE DEF op
  <2>3. DOMAIN objs' = DOMAIN objs
    BY <1>9 DEF Serialize
  <2> QED BY <1>0, <2>1, <2>2, <2>3, OtherOp
<1>10. CASE UNCHANGED vars
  BY <1>10 DEF vars, facade, program, process, TInv, Tagged, Counted, RecordSlots,
               ReplaySlots, Here
<1> QED BY <1>1, <1>2, <1>3, <1>4, <1>5, <1>6, <1>7, <1>8, <1>9, <1>10 DEF Next

LEMMA TagInvariance == Spec => []TInv
BY TInit, TNext, PTL DEF Spec

(* A replay tags its inputs under the names of the recording, at the slots *)
(* of the recording if nothing came before that takes a slot there only.   *)
THEOREM TagsAgree == Spec => []SameTags
<1> DEFINE Shifts == Done({"plaintext", "eval"})
           By(k) == IF k = Keys THEN Done({"load"}) ELSE {k}
<1>1. ASSUME TInv, mode = "REPLAY", NEW c \in cached, NEW k \in DOMAIN tagged
      PROVE  /\ k \in DOMAIN c.tagged /\ tagged[k].name = c.tagged[k].name
             /\ k \in Shifts \/ (\A j \in Shifts : \E i \in By(k) : i < j)
                => tagged[k].slot = c.tagged[k].slot
  <2>1. /\ Named(script, tagged) /\ InPlace(script, tagged) /\ ReplaySlots
        /\ Named(c.script, c.tagged) /\ InPlace(c.script, c.tagged)
        /\ Prefix(script, c.script) /\ Len(script) \in Nat /\ Len(c.script) \in Nat
        /\ DOMAIN script = 1 .. Len(script)
    BY <1>1, LenProperties DEF TInv, Tagged, Tagging
  <2>2. /\ Inputs(script) \subseteq Inputs(c.script) /\ Tagset(script) \subseteq Tagset(c.script)
        /\ \A i \in 1 .. Len(script) :
               /\ TagOf(script, i) = TagOf(c.script, i) /\ AllLoads(script, i) = AllLoads(c.script, i)
               /\ Unshifted(script, i) <=> Unshifted(c.script, i)
               /\ script[i] = c.script[i] /\ i \in 1 .. Len(c.script)
    <3>1. \A i \in 1 .. Len(script) : script[i] = c.script[i] /\ i \in 1 .. Len(c.script)
      BY <2>1 DEF Prefix
    <3>2. /\ Inputs(script) \subseteq Inputs(c.script) /\ Tagset(script) \subseteq Tagset(c.script)
          /\ \A i \in 1 .. Len(script) :
               /\ TagOf(script, i) = TagOf(c.script, i) /\ AllLoads(script, i) = AllLoads(c.script, i)
               /\ Unshifted(script, i) <=> Unshifted(c.script, i)
      BY <2>1, PrefixTags
    <3> QED BY <3>1, <3>2
  <2>3. k \in Tagset(script) /\ DOMAIN c.tagged = Tagset(c.script)
    BY <1>1, <2>1 DEF Named
  <2>4. CASE k \in Inputs(script)
    <3>1. k \in 1 .. Len(script) /\ script[k].op \in {"load", "plaintext"} /\ k # Keys
      BY <2>1, <2>4 DEF Inputs, Keys
    <3>2. tagged[k].name = c.tagged[k].name
      BY <2>1, <2>2, <2>4, <3>1 DEF Named
    <3>3. CASE script[k].op = "plaintext"
      BY <1>1, <2>1, <2>2, <2>3, <2>4, <3>2, <3>3 DEF ReplaySlots
    <3>4. CASE script[k].op = "load"
      <4>1. k \notin Shifts
        BY <3>4 DEF Done
      <4>2. ASSUME \A j \in Shifts : \E i \in By(k) : i < j
            PROVE  Unshifted(script, k)
        <5> SUFFICES ASSUME NEW j \in 1 .. k - 1, script[j].op \in {"plaintext", "eval"}
                     PROVE  FALSE
          BY DEF Unshifted
        <5>1. j \in Shifts
          BY <2>1, <3>1 DEF Done
        <5>2. k < j
          BY <3>1, <4>2, <5>1
        <5> QED BY <3>1, <5>2
      <4>3. Unshifted(script, k) => tagged[k].slot = c.tagged[k].slot
        BY <2>1, <2>2, <3>1, <3>4 DEF InPlace
      <4> QED BY <2>2, <2>3, <3>2, <4>1, <4>2, <4>3
    <3> QED BY <3>1, <3>3, <3>4
  <2>5. CASE k = Keys /\ ~NoLoad(script)
    <3>1. tagged[k].name = c.tagged[k].name
      BY <2>1, <2>2, <2>3, <2>5 DEF Named, Tagset, Inputs, Keys
    <3>2. k \notin Shifts
      BY <2>1, <2>5 DEF Done, Keys
    <3>3. ASSUME \A j \in Shifts : \E i \in By(k) : i < j
          PROVE  tagged[k].slot = c.tagged[k].slot
      <4>1. PICK m : FirstLoad(script, m)
        BY <2>1, <2>5, SomeFirstLoad
      <4>2. m \in 1 .. Len(script) /\ \A i \in Done({"load"}) : m <= i
        <5>1. m \in 1 .. Len(script) /\ \A i \in 1 .. m - 1 : script[i].op # "load"
          BY <4>1 DEF FirstLoad
        <5>2. \A i \in Done({"load"}) : i \in 1 .. Len(script) /\ script[i].op = "load"
          BY <2>1 DEF Done
        <5> QED BY <5>1, <5>2
      <4>3. Unshifted(script, m)
        <5> SUFFICES ASSUME NEW j \in 1 .. m - 1, script[j].op \in {"plaintext", "eval"}
                     PROVE  FALSE
          BY DEF Unshifted
        <5>1. j \in Shifts
          BY <2>1, <4>2 DEF Done
        <5>2. PICK i \in Done({"load"}) : i < j
          BY <2>5, <3>3, <5>1
        <5>3. i \in 1 .. Len(script)
          BY <2>1 DEF Done
        <5> QED BY <4>2, <5>2, <5>3
      <4>4. FirstLoad(c.script, m)
        <5>1. \A i \in 1 .. m - 1 : i \in 1 .. Len(script)
          BY <4>2
        <5> QED BY <2>2, <4>1, <4>2, <5>1 DEF FirstLoad
      <4> QED BY <2>1, <2>2, <2>5, <4>1, <4>2, <4>3, <4>4 DEF InPlace
    <3> QED BY <2>2, <2>3, <3>1, <3>2, <3>3
  <2> QED BY <2>3, <2>4, <2>5 DEF Tagset
<1>2. TInv => SameTags
  BY <1>1 DEF SameTags
<1> QED BY <1>2, TagInvariance, PTL

-----------------------------------------------------------------------------
(* What is put out, and under which name.                                  *)

Puts == {"serialize", "decrypt"}

\* Was v put out before position k?
PutBefore(s, k, v) == \E j \in 1 .. k - 1 : s[j].op \in Puts /\ s[j].of = v

\* The decrypts before position k that were the first output of their
\* ciphertext: those make a name up, the number of which is how many there were.
Firsts(s, k) ==
    {j \in 1 .. k - 1 : s[j].op = "decrypt" /\ ~PutBefore(s, j, s[j].of)}
FirstName(s, j) == OutputName(Cardinality(Firsts(s, j)))

\* The value v under the name n, computed from inputs of the script s.
Holds(ps, n, v, s) ==
    n \in DOMAIN ps /\ ps[n].value = v /\ ps[n].inputs \subseteq Tagset(s)

\* ps has the outputs of the script s.
Recorded(s, ps) ==
    /\ \A k \in 1 .. Len(s) : s[k].op = "serialize" => Holds(ps, s[k].file, s[k].of, s)
    /\ \A k \in Firsts(s, Len(s) + 1) : Holds(ps, FirstName(s, k), s[k].of, s)

\* r has the results of the script s.
Results(s, r) ==
    /\ \A k \in 1 .. Len(s) : s[k].op = "serialize" =>
          s[k].file \in DOMAIN r /\ r[s[k].file] = s[k].of
    /\ \A k \in Firsts(s, Len(s) + 1) :
          FirstName(s, k) \in DOMAIN r /\ r[FirstName(s, k)] = s[k].of

\* What an operation is applied to came before it; a stem is a stem.
Typed(s) ==
    \A k \in 1 .. Len(s) : s[k].of \in 0 .. Len(s)
                          /\ (s[k].op = "serialize" => s[k].file \in Stems)

LEMMA PrefixFirsts ==
  ASSUME NEW s, NEW t, Len(s) \in Nat, Len(t) \in Nat, Prefix(s, t),
         NEW k \in 1 .. Len(s) + 1
  PROVE  Firsts(s, k) = Firsts(t, k) /\ \A v : PutBefore(s, k, v) = PutBefore(t, k, v)
<1>1. \A j \in 1 .. k - 1 : s[j] = t[j]
  BY DEF Prefix
<1>2. \A v : PutBefore(s, k, v) = PutBefore(t, k, v)
  BY <1>1 DEF PutBefore
<1>3. \A j \in 1 .. k - 1 : \A i \in 1 .. j - 1 : i \in 1 .. k - 1
  OBVIOUS
<1>4. \A j \in 1 .. k - 1 : \A v : PutBefore(s, j, v) = PutBefore(t, j, v)
  BY <1>1, <1>3 DEF PutBefore
<1>5. Firsts(s, k) = Firsts(t, k)
  BY <1>1, <1>4 DEF Firsts
<1> QED BY <1>2, <1>5

LEMMA FiniteFirsts ==
  ASSUME NEW s, NEW k \in Nat
  PROVE  IsFiniteSet(Firsts(s, k)) /\ Cardinality(Firsts(s, k)) \in Nat
<1>1. IsFiniteSet(1 .. k - 1)
  BY FS_Interval
<1>2. Firsts(s, k) \in SUBSET (1 .. k - 1)
  BY DEF Firsts
<1>3. IsFiniteSet(Firsts(s, k))
  BY <1>1, <1>2, FS_Subset
<1> QED BY <1>3, FS_CardinalityType

\* Two decrypts that make names up make up different ones.
LEMMA FirstNamesDiffer ==
  ASSUME NEW s, NEW k \in Nat, NEW j \in Firsts(s, k)
  PROVE  Cardinality(Firsts(s, j)) < Cardinality(Firsts(s, k))
<1>1. j \in 1 .. k - 1 /\ j \in Nat
  BY DEF Firsts
<1>2. Firsts(s, j) \in SUBSET Firsts(s, k)
  BY <1>1 DEF Firsts
<1>3. j \notin Firsts(s, j)
  BY <1>1 DEF Firsts
<1>4. IsFiniteSet(Firsts(s, k)) /\ Cardinality(Firsts(s, k)) \in Nat /\ Cardinality(Firsts(s, j)) \in Nat
  BY <1>1, FiniteFirsts
<1>5. Cardinality(Firsts(s, j)) <= Cardinality(Firsts(s, k))
      /\ Cardinality(Firsts(s, j)) # Cardinality(Firsts(s, k))
  BY <1>2, <1>3, <1>4, FS_Subset
<1> QED BY <1>4, <1>5

\* What one more operation, op at position h, adds to the outputs.
Adds(s, op, t, h) ==
    /\ \A k \in 1 .. h : Firsts(t, k) = Firsts(s, k)
    /\ \A v : PutBefore(t, h, v) = PutBefore(s, h, v)
    /\ \A v : PutBefore(t, h + 1, v) = (PutBefore(s, h, v) \/ (op.op \in Puts /\ op.of = v))
    /\ Firsts(t, h + 1) = IF op.op = "decrypt" /\ ~PutBefore(s, h, op.of)
                          THEN Firsts(s, h) \cup {h} ELSE Firsts(s, h)
    /\ Cardinality(Firsts(t, h + 1)) =
          IF op.op = "decrypt" /\ ~PutBefore(s, h, op.of)
          THEN Cardinality(Firsts(s, h)) + 1 ELSE Cardinality(Firsts(s, h))
    /\ Inputs(t) = IF op.op \in {"load", "plaintext"} THEN Inputs(s) \cup {h} ELSE Inputs(s)
    /\ Tagset(s) \subseteq Tagset(t)

LEMMA AppendPuts ==
  ASSUME NEW s \in Seq(Ops), NEW op \in Ops, NEW t, t = Append(s, op),
         NEW h, h = Len(s) + 1
  PROVE  Adds(s, op, t, h)
<1>1. /\ Len(s) \in Nat /\ Len(t) = h /\ t[h] = op /\ \A k \in 1 .. Len(s) : t[k] = s[k]
      /\ Prefix(s, t)
  BY AppendFacts
<1>2. /\ h \in Nat /\ h - 1 = Len(s) /\ h + 1 - 1 = h /\ h \in 1 .. h
      /\ h \notin 1 .. Len(s) /\ \A j \in 1 .. Len(s) : j \in 1 .. h
      /\ \A j \in 1 .. h : j \in 1 .. Len(s) \/ j = h
  BY <1>1
<1>3. /\ \A k \in 1 .. h : Firsts(t, k) = Firsts(s, k)
      /\ \A k \in 1 .. h : \A v : PutBefore(t, k, v) = PutBefore(s, k, v)
  BY <1>1, <1>2, PrefixFirsts
<1>4. \A v : PutBefore(t, h + 1, v) = (PutBefore(s, h, v) \/ (op.op \in Puts /\ op.of = v))
  <2> TAKE v
  <2>1. PutBefore(t, h + 1, v) <=> \E j \in 1 .. h : t[j].op \in Puts /\ t[j].of = v
    BY <1>2 DEF PutBefore
  <2>2. PutBefore(s, h, v) <=> \E j \in 1 .. Len(s) : s[j].op \in Puts /\ s[j].of = v
    BY <1>2 DEF PutBefore
  <2>3. PutBefore(t, h + 1, v) <=> (PutBefore(s, h, v) \/ (op.op \in Puts /\ op.of = v))
    BY <1>1, <1>2, <2>1, <2>2
  <2> QED BY <2>3 DEF PutBefore
<1>5. Firsts(t, h + 1) = IF op.op = "decrypt" /\ ~PutBefore(s, h, op.of)
                         THEN Firsts(s, h) \cup {h} ELSE Firsts(s, h)
  <2>1. Firsts(t, h + 1) = {j \in 1 .. h : t[j].op = "decrypt" /\ ~PutBefore(t, j, t[j].of)}
    BY <1>2 DEF Firsts
  <2>2. Firsts(t, h) = {j \in 1 .. Len(s) : t[j].op = "decrypt" /\ ~PutBefore(t, j, t[j].of)}
    BY <1>2 DEF Firsts
  <2>3. PutBefore(t, h, op.of) = PutBefore(s, h, op.of) /\ Firsts(t, h) = Firsts(s, h)
    BY <1>2, <1>3
  <2> DEFINE First(j) == t[j].op = "decrypt" /\ ~PutBefore(t, j, t[j].of)
  <2>4. First(h) <=> op.op = "decrypt" /\ ~PutBefore(s, h, op.of)
    BY <1>1, <2>3
  <2>5. Firsts(t, h + 1) = {j \in 1 .. h : First(j)} /\ Firsts(s, h) = {j \in 1 .. Len(s) : First(j)}
    BY <2>1, <2>2, <2>3
  <2> HIDE DEF First
  <2>6. {j \in 1 .. h : First(j)} = {j \in 1 .. Len(s) : First(j)} \cup {j \in {h} : First(j)}
    BY <1>2
  <2>7. {j \in {h} : First(j)} = IF First(h) THEN {h} ELSE {}
    OBVIOUS
  <2>8. Firsts(t, h + 1) = Firsts(s, h) \cup (IF First(h) THEN {h} ELSE {})
    BY <2>5, <2>6, <2>7
  <2>9. CASE First(h)
    BY <2>4, <2>8, <2>9
  <2>10. CASE ~First(h)
    BY <2>4, <2>8, <2>10
  <2> QED BY <2>9, <2>10
<1>6. Cardinality(Firsts(t, h + 1)) =
          IF op.op = "decrypt" /\ ~PutBefore(s, h, op.of)
          THEN Cardinality(Firsts(s, h)) + 1 ELSE Cardinality(Firsts(s, h))
  <2>1. h \notin Firsts(s, h)
    BY <1>2 DEF Firsts
  <2>2. IsFiniteSet(Firsts(s, h))
    BY <1>2, FiniteFirsts
  <2>3. Cardinality(Firsts(s, h) \cup {h}) = Cardinality(Firsts(s, h)) + 1
    BY <2>1, <2>2, FS_AddElement
  <2> QED BY <1>5, <2>3
<1>7. Inputs(t) = IF op.op \in {"load", "plaintext"} THEN Inputs(s) \cup {h} ELSE Inputs(s)
  BY <1>1, <1>2 DEF Inputs
<1>8. h \in 1 .. h
  BY <1>2
<1>9. Tagset(s) \subseteq Tagset(t)
  <2>1. Len(s) \in Nat /\ Len(t) \in Nat /\ Prefix(s, t)
    BY <1>1, <1>2
  <2> QED BY <2>1, PrefixTags
<1> QED BY <1>3, <1>4, <1>5, <1>6, <1>7, <1>8, <1>9 DEF Adds

LEMMA StepPuts ==
  ASSUME script \in Seq(Ops), NEW op \in Ops, script' = Append(script, op)
  PROVE  /\ Here = Len(script) + 1 /\ Here' = Here + 1 /\ Here \in Nat
         /\ Adds(script, op, script', Here)
<1>1. Here = Len(script) + 1
  BY DEF Here
<1>2. Len(script') = Len(script) + 1 /\ Len(script) \in Nat
  BY AppendFacts
<1>3. Here' = Here + 1 /\ Here \in Nat
  BY <1>2 DEF Here
<1>4. Adds(script, op, script', Here)
  BY <1>1, AppendPuts, Zenon
<1> QED BY <1>1, <1>3, <1>4

-----------------------------------------------------------------------------
(* The ciphertexts of a process and what the hooks know of them.           *)

Known(v) == objs[v].at \in DOMAIN probed
WasPut(v) == PutBefore(script, Here, v)

(* Every ciphertext of the program's has an address of its own, which is   *)
(* not free.                                                               *)
Addresses ==
    /\ next \in Nat \ {0} /\ freed \subseteq 1 .. next - 1
    /\ \A v \in DOMAIN objs : objs[v].at \in 1 .. next - 1 /\ objs[v].at \notin freed
    /\ \A v, w \in DOMAIN objs : objs[v].at = objs[w].at => v = w
    /\ substituted \subseteq DOMAIN probed

(* What a recording or a replay knows of the outputs so far: of each of    *)
(* them, and maybe of a ciphertext that is none, at a remembered address.  *)
Knows ==
    /\ \A v \in DOMAIN objs : WasPut(v) => Known(v)
    /\ probe_counter = Cardinality(Firsts(script, Here))

Recording ==
    /\ \A v \in DOMAIN objs : objs[v].inputs \subseteq Tagset(script)
    /\ Recorded(script, probes)

Replaying ==
    /\ results = {} => DOMAIN probed = {}
    /\ \A r \in results, c \in cached : Results(c.script, r)
    /\ \A v \in DOMAIN objs : WasPut(v) =>
          /\ \A r \in results : /\ probed[objs[v].at] \in DOMAIN r
                                /\ r[probed[objs[v].at]] = v
          /\ objs[v].at \in substituted => objs[v].holds = v

Shaped ==
    objs = [v \in DOMAIN objs |->
               [at |-> objs[v].at, holds |-> objs[v].holds, inputs |-> objs[v].inputs]]

Core ==
    /\ Shaped /\ Addresses
    /\ \A s \in seen : s.got = s.want
    /\ mode \notin {"REPLAY", "EXITED"} => \A v \in DOMAIN objs : objs[v].holds = v
    /\ mode = "UNINITIALIZED" => objs = Empty /\ probed = Empty /\ probe_counter = 0
                                 /\ results = {}
    /\ mode \in {"RECORD", "REPLAY"} => Knows
    /\ mode = "RECORD" => Recording
    /\ mode = "REPLAY" => Replaying

\* Nothing has happened that OutputsCorrect leaves out.
Good ==
    /\ ~mistaken /\ StemsApart(script)
    /\ results # {} => \A c \in cached : Faithful(c)

OInv ==
    /\ Typed(script) /\ (Good => Core)
    /\ \A c \in cached : /\ Typed(c.script)
                         /\ StemsApart(c.script) /\ ~c.mistaken => Recorded(c.script, c.probes)

\* No stem is a name the hooks make up.
NoClash == \A n \in Nat : OutputName(n) \notin Stems

\* At the start of a process.
Fresh ==
    /\ script = <<>> /\ objs = Empty /\ next = 1 /\ freed = {} /\ seen = {}
    /\ probed = Empty /\ substituted = {} /\ probe_counter = 0 /\ results = {}
    /\ mode = "UNINITIALIZED"

LEMMA FreshCore == Fresh => Core /\ Typed(script)
<1> SUFFICES ASSUME Fresh PROVE Core /\ Typed(script)
  OBVIOUS
<1>1. DOMAIN Empty = {} /\ Len(<<>>) = 0 /\ 1 .. 0 = {}
  BY DEF Empty
<1>2. Shaped
  BY DEF Shaped, Empty, Fresh
<1>3. Addresses
  BY <1>1 DEF Addresses, Fresh
<1>4. Typed(script)
  BY <1>1 DEF Typed, Fresh
<1> QED BY <1>1, <1>2, <1>3, <1>4 DEF Core, Fresh

LEMMA OInit == Init => OInv
<1> SUFFICES ASSUME Init PROVE OInv
  OBVIOUS
<1>1. Fresh /\ cached = {}
  BY DEF Init, Fresh
<1> QED BY <1>1, FreshCore DEF OInv

\* What an operation does to the program and the recording it repeats.
LEMMA StepFacts ==
  ASSUME TInv, NEW op \in Ops, Does(op)
  PROVE  /\ script \in Seq(Ops) /\ script' = Append(script, op) /\ Len(script) \in Nat
         /\ Len(script') = Here /\ script'[Here] = op
         /\ \A k \in 1 .. Len(script) : script'[k] = script[k]
         /\ \A k \in 1 .. Len(script') : k \in 1 .. Len(script) \/ k = Here
         /\ \A k \in 1 .. Len(script) : k \in 1 .. Len(script')
         /\ Here \in 1 .. Len(script')
         /\ Here = Len(script) + 1 /\ Here' = Here + 1 /\ Here \in Nat
         /\ mode \notin {"UNINITIALIZED", "EXITED"}
         /\ Adds(script, op, script', Here)
         /\ DOMAIN script = 1 .. Len(script) /\ DOMAIN script' = 1 .. Len(script')
<1>1. /\ script \in Seq(Ops) /\ script' = Append(script, op) /\ Len(script) \in Nat
      /\ script' \in Seq(Ops)
      /\ Len(script') = Here /\ script'[Here] = op
      /\ \A k \in 1 .. Len(script) : script'[k] = script[k]
      /\ mode \notin {"UNINITIALIZED", "EXITED"}
  BY DoesOp DEF TInv
<1>2. /\ Here = Len(script) + 1 /\ Here' = Here + 1 /\ Here \in Nat
      /\ Adds(script, op, script', Here)
  BY <1>1, StepPuts
<1>3. /\ \A k \in 1 .. Len(script') : k \in 1 .. Len(script) \/ k = Here
      /\ \A k \in 1 .. Len(script) : k \in 1 .. Len(script')
      /\ Here \in 1 .. Len(script')
  BY <1>1, <1>2
<1>4. DOMAIN script = 1 .. Len(script) /\ DOMAIN script' = 1 .. Len(script')
  BY <1>1, LenProperties
<1> QED BY <1>1, <1>2, <1>3, <1>4

LEMMA TypedOp ==
  ASSUME TInv, NEW op \in Ops, Does(op), Typed(script), op.of \in 0 .. Len(script),
         op.op = "serialize" => op.file \in Stems
  PROVE  Typed(script')
<1>1. /\ Len(script) \in Nat /\ Len(script') = Here /\ script'[Here] = op
      /\ \A k \in 1 .. Len(script) : script'[k] = script[k]
      /\ \A k \in 1 .. Len(script') : k \in 1 .. Len(script) \/ k = Here
      /\ Here = Len(script) + 1
  BY StepFacts
<1>2. \A k \in 0 .. Len(script) : k \in 0 .. Len(script')
  BY <1>1
<1> QED BY <1>1, <1>2 DEF Typed

\* What an operation leaves good was good before.
LEMMA GoodBefore ==
  ASSUME TInv, NEW op \in Ops, Does(op), Good', mistaken => mistaken', cached' = cached,
         results # {} => results' # {}
  PROVE  Good
<1>1. /\ \A k \in 1 .. Len(script) : script'[k] = script[k] /\ k \in 1 .. Len(script')
      /\ DOMAIN script = 1 .. Len(script) /\ DOMAIN script' = 1 .. Len(script')
  BY StepFacts
<1>2. StemsApart(script)
  BY <1>1 DEF Good, StemsApart
<1> QED BY <1>2 DEF Good

LEMMA OutputWasPut ==
  ASSUME TInv, NEW v
  PROVE  WasOutput(v) <=> WasPut(v)
<1>1. script \in Seq(Ops)
  BY DEF TInv
<1>2. DOMAIN script = 1 .. Len(script) /\ Len(script) \in Nat
  BY <1>1, LenProperties
<1>3. 1 .. Here - 1 = DOMAIN script
  BY <1>2 DEF Here
<1> QED BY <1>2, <1>3 DEF WasOutput, WasPut, PutBefore, Done, Puts

\* What was recorded stays recorded.
LEMMA StillRecorded ==
  ASSUME TInv, NEW op \in Ops, Does(op), NEW ps, Recorded(script, ps)
  PROVE  /\ \A k \in 1 .. Len(script) :
               script'[k].op = "serialize" => Holds(ps, script'[k].file, script'[k].of, script')
         /\ \A k \in Firsts(script, Here) :
               Holds(ps, FirstName(script', k), script'[k].of, script')
<1>1. /\ Len(script) \in Nat
      /\ \A k \in 1 .. Len(script) : script'[k] = script[k]
      /\ Here = Len(script) + 1
      /\ Adds(script, op, script', Here)
  BY StepFacts
<1>2. Tagset(script) \subseteq Tagset(script') /\ \A k \in 1 .. Here : Firsts(script', k) = Firsts(script, k)
  BY <1>1 DEF Adds
<1>3. \A n, v : Holds(ps, n, v, script) => Holds(ps, n, v, script')
  BY <1>2 DEF Holds
<1>4. ASSUME NEW k \in Firsts(script, Here)
      PROVE  Holds(ps, FirstName(script', k), script'[k].of, script')
  <2>1. k \in 1 .. Len(script) /\ k \in 1 .. Here
    BY <1>1 DEF Firsts
  <2>2. FirstName(script', k) = FirstName(script, k) /\ script'[k] = script[k]
    BY <1>1, <1>2, <2>1 DEF FirstName
  <2>3. Holds(ps, FirstName(script, k), script[k].of, script)
    BY <1>1 DEF Recorded
  <2> QED BY <1>3, <2>2, <2>3
<1>5. ASSUME NEW k \in 1 .. Len(script), script'[k].op = "serialize"
      PROVE  Holds(ps, script'[k].file, script'[k].of, script')
  BY <1>1, <1>3, <1>5 DEF Recorded
<1> QED BY <1>4, <1>5

\* An operation that puts nothing out.  It makes at most one ciphertext, Here.
LEMMA QuietOp ==
  ASSUME TInv, Core, Typed(script), NEW op \in Ops, Does(op), op.op \notin Puts,
         UNCHANGED <<mode, probed, probes, results, substituted, probe_counter, seen, cached>>,
         Shaped', Addresses',
         \A v \in DOMAIN objs' :
            \/ v \in DOMAIN objs /\ objs'[v] = objs[v]
            \/ /\ v = Here
               /\ mode # "REPLAY" => objs'[v].holds = Here
               /\ mode = "RECORD" => objs'[v].inputs \subseteq Tagset(script')
  PROVE  Core'
<1>1. /\ script \in Seq(Ops) /\ Len(script) \in Nat
      /\ Len(script') = Here /\ script'[Here] = op
      /\ \A k \in 1 .. Len(script') : k \in 1 .. Len(script) \/ k = Here
      /\ Here = Len(script) + 1 /\ Here' = Here + 1 /\ Here \in Nat
      /\ mode \notin {"UNINITIALIZED", "EXITED"} /\ mode' = mode
      /\ Adds(script, op, script', Here)
  BY StepFacts
<1>2. /\ \A v : PutBefore(script', Here', v) = PutBefore(script, Here, v)
      /\ Firsts(script', Here') = Firsts(script, Here)
      /\ Cardinality(Firsts(script', Here')) = Cardinality(Firsts(script, Here))
      /\ Tagset(script) \subseteq Tagset(script')
  <2>1. op.op # "decrypt"
    BY DEF Puts
  <2> QED BY <1>1, <2>1 DEF Adds, PutBefore
<1>3. ~PutBefore(script, Here, Here)
  <2>1. \A k \in 1 .. Here - 1 : script[k].of # Here
    BY <1>1 DEF Typed
  <2> QED BY <2>1 DEF PutBefore
<1>4. \A v \in DOMAIN objs' : WasPut(v)' => v \in DOMAIN objs /\ objs'[v] = objs[v] /\ WasPut(v)
  BY <1>2, <1>3 DEF WasPut
<1>5. mode \in {"RECORD", "REPLAY"} => Knows'
  <2> SUFFICES ASSUME mode \in {"RECORD", "REPLAY"} PROVE Knows'
    OBVIOUS
  <2>1. Knows
    BY DEF Core
  <2>2. probe_counter' = Cardinality(Firsts(script', Here'))
    BY <1>2, <2>1 DEF Knows
  <2>3. ASSUME NEW v \in DOMAIN objs', WasPut(v)' PROVE Known(v)'
    BY <1>4, <2>1, <2>3 DEF Knows, Known
  <2> QED BY <2>2, <2>3 DEF Knows
<1>6. mode = "RECORD" => Recording'
  <2> SUFFICES ASSUME mode = "RECORD" PROVE Recording'
    OBVIOUS
  <2>1. Recording
    BY DEF Core
  <2>2. Recorded(script', probes')
    <3>1. /\ \A k \in 1 .. Len(script) : script'[k].op = "serialize" =>
                Holds(probes, script'[k].file, script'[k].of, script')
          /\ \A k \in Firsts(script, Here) :
                Holds(probes, FirstName(script', k), script'[k].of, script')
      BY <2>1, StillRecorded DEF Recording
    <3>2. script'[Here].op # "serialize"
      BY <1>1 DEF Puts
    <3>3. Firsts(script', Len(script') + 1) = Firsts(script, Here)
      BY <1>1, <1>2
    <3> QED BY <1>1, <3>1, <3>2, <3>3 DEF Recorded
  <2>3. \A v \in DOMAIN objs' : objs'[v].inputs \subseteq Tagset(script')
    BY <1>2, <2>1 DEF Recording
  <2> QED BY <2>2, <2>3 DEF Recording
<1>7. mode = "REPLAY" => Replaying'
  <2> SUFFICES ASSUME mode = "REPLAY" PROVE Replaying'
    OBVIOUS
  <2>1. Replaying
    BY DEF Core
  <2>2. ASSUME NEW v \in DOMAIN objs', WasPut(v)'
        PROVE  /\ \A r \in results' : /\ probed'[objs'[v].at] \in DOMAIN r
                                      /\ r[probed'[objs'[v].at]] = v
               /\ objs'[v].at \in substituted' => objs'[v].holds = v
    BY <1>4, <2>1, <2>2 DEF Replaying
  <2>3. /\ results' = {} => DOMAIN probed' = {}
        /\ \A r \in results', c \in cached' : Results(c.script, r)
    BY <2>1 DEF Replaying
  <2> QED BY <2>2, <2>3 DEF Replaying
<1>8. mode # "REPLAY" => \A v \in DOMAIN objs' : objs'[v].holds = v
  BY <1>1 DEF Core
<1> QED BY <1>1, <1>5, <1>6, <1>7, <1>8 DEF Core

\* A ciphertext that is made gets an address no other has.
LEMMA MakeAddresses ==
  ASSUME TInv, Core, NEW a \in freed \cup {next}, NEW x, NEW y, Make(a, x, y),
         UNCHANGED <<probed, substituted>>
  PROVE  Shaped' /\ Addresses' /\ DOMAIN objs' = DOMAIN objs \cup {Here}
         /\ objs'[Here].holds = x /\ objs'[Here].inputs = y
         /\ \A v \in DOMAIN objs : v # Here => objs'[v] = objs[v]
<1>1. /\ Shaped /\ Addresses
  BY DEF Core
<1>2. /\ DOMAIN objs' = DOMAIN objs \cup {Here}
      /\ objs'[Here] = [at |-> a, holds |-> x, inputs |-> y]
      /\ \A v \in DOMAIN objs : v # Here => objs'[v] = objs[v]
      /\ objs' = [v \in DOMAIN objs' |-> objs'[v]]
  BY DEF Make, With
<1>3. Shaped'
  <2>1. \A v \in DOMAIN objs :
           objs[v] = [at |-> objs[v].at, holds |-> objs[v].holds, inputs |-> objs[v].inputs]
    BY <1>1 DEF Shaped
  <2>2. \A v \in DOMAIN objs' :
           objs'[v] = [at |-> objs'[v].at, holds |-> objs'[v].holds, inputs |-> objs'[v].inputs]
    BY <1>2, <2>1
  <2> QED BY <1>2, <2>2 DEF Shaped
<1>4. Addresses'
  <2>1. /\ next' = (IF a = next THEN next + 1 ELSE next) /\ freed' = freed \ {a}
        /\ next \in Nat \ {0} /\ freed \subseteq 1 .. next - 1
    BY <1>1 DEF Make, Addresses
  <2>2. /\ next' \in Nat \ {0} /\ a \in 1 .. next' - 1
        /\ \A b \in 1 .. next - 1 : b \in 1 .. next' - 1
    <3>1. CASE a = next
      BY <2>1, <3>1
    <3>2. CASE a # next
      BY <2>1, <3>2
    <3> QED BY <3>1, <3>2
  <2>3. freed' \subseteq 1 .. next' - 1
    BY <2>1, <2>2
  <2>4. \A v \in DOMAIN objs : objs[v].at # a
    BY <1>1, <2>1 DEF Addresses
  <2>5. \A v \in DOMAIN objs' : objs'[v].at \in 1 .. next' - 1 /\ objs'[v].at \notin freed'
    BY <1>1, <1>2, <2>1, <2>2 DEF Addresses
  <2>6. \A v, w \in DOMAIN objs' : objs'[v].at = objs'[w].at => v = w
    BY <1>1, <1>2, <2>4 DEF Addresses
  <2> QED BY <1>1, <2>2, <2>3, <2>5, <2>6 DEF Addresses
<1> QED BY <1>2, <1>3, <1>4

-----------------------------------------------------------------------------
(* Outputs.                                                                *)

\* The hooks learn of the address of v.
LEMMA PutKnows ==
  ASSUME TInv, Core, NEW op \in Ops, Does(op), mode \in {"RECORD", "REPLAY"},
         NEW v \in DOMAIN objs, op.op \in Puts, op.of = v,
         DOMAIN probed \cup {objs[v].at} \subseteq DOMAIN probed',
         DOMAIN objs' = DOMAIN objs, \A w \in DOMAIN objs : objs'[w].at = objs[w].at,
         op.op = "decrypt" => (Known(v) <=> WasPut(v)),
         probe_counter' = IF op.op = "decrypt" /\ ~Known(v) THEN probe_counter + 1
                                                            ELSE probe_counter
  PROVE  Knows'
<1>1. /\ Here' = Here + 1 /\ Adds(script, op, script', Here)
  BY StepFacts
<1>2. Knows
  BY DEF Core
<1>3. probe_counter' = Cardinality(Firsts(script', Here'))
  <2>1. probe_counter = Cardinality(Firsts(script, Here))
    BY <1>2 DEF Knows
  <2>2. Cardinality(Firsts(script', Here + 1)) =
          IF op.op = "decrypt" /\ ~PutBefore(script, Here, op.of)
          THEN Cardinality(Firsts(script, Here)) + 1 ELSE Cardinality(Firsts(script, Here))
    BY <1>1 DEF Adds
  <2>3. op.op = "decrypt" => (PutBefore(script, Here, op.of) <=> Known(v))
    BY DEF WasPut
  <2> QED BY <1>1, <2>1, <2>2, <2>3
<1>4. ASSUME NEW w \in DOMAIN objs, WasPut(w)'
      PROVE  Known(w)'
  <2>1. PutBefore(script', Here + 1, w) = (PutBefore(script, Here, w) \/ (op.op \in Puts /\ op.of = w))
    BY <1>1 DEF Adds
  <2>2. PutBefore(script, Here, w) \/ w = v
    BY <1>1, <1>4, <2>1 DEF WasPut
  <2>3. PutBefore(script, Here, w) => objs[w].at \in DOMAIN probed
    BY <1>2 DEF Knows, Known, WasPut
  <2> QED BY <2>2, <2>3 DEF Known
<1> QED BY <1>3, <1>4 DEF Knows

(* The first output of a replay computes all of them, for every input the  *)
(* recording used is there, at its slot and alone.                         *)
LEMMA ReplayedRight ==
  ASSUME TInv, OInv, Core, NEW op \in Ops, Does(op), op.op \in Puts, mode = "REPLAY",
         \A c \in cached : Faithful(c), NEW c \in cached, NEW r \in Replayed
  PROVE  Results(c.script, r)
<1>1. CASE results # {}
  BY <1>1 DEF Replayed, Core, Replaying
<1>2. CASE results = {}
  <2>1. r = Computed(c)
    BY <1>2 DEF Replayed, TInv
  <2>2. /\ Prefix(script, c.script) /\ Here \in 1 .. Len(c.script) /\ c.script[Here] = op
        /\ Len(script) \in Nat /\ Here = Len(script) + 1
    BY DoesOp DEF Here
  <2>3. /\ c.script \in Seq(Ops) /\ Named(c.script, c.tagged) /\ InPlace(c.script, c.tagged)
        /\ Apart(c.script, c.tagged) /\ Named(script, tagged) /\ InPlace(script, tagged)
        /\ ReplaySlots
    BY DEF TInv, Tagging, Tagged
  <2>4. /\ Len(c.script) \in Nat /\ DOMAIN c.script = 1 .. Len(c.script)
        /\ Recorded(c.script, c.probes) /\ InputsFirst(c.script)
    BY <2>3, LenProperties DEF OInv, Faithful
  <2>5. /\ \A k \in 1 .. Len(script) : script[k] = c.script[k] /\ k \in 1 .. Len(c.script)
        /\ \A k \in 1 .. Len(c.script) : k \in 1 .. Len(script) \/ k = Here \/ Here < k
    BY <2>2, <2>4 DEF Prefix
  <2>6. Inputs(c.script) \subseteq Inputs(script)
    <3> SUFFICES ASSUME NEW k \in Inputs(c.script) PROVE k \in Inputs(script)
      OBVIOUS
    <3>1. k \in 1 .. Len(c.script) /\ c.script[k].op \in {"load", "plaintext"}
      BY DEF Inputs
    <3>2. ~(Here < k)
      BY <2>2, <2>4, <3>1 DEF InputsFirst, Puts
    <3>3. k # Here
      BY <2>2, <3>1 DEF Puts
    <3> QED BY <2>5, <3>1, <3>2, <3>3 DEF Inputs
  <2>7. ~NoLoad(c.script) => ~NoLoad(script)
    <3> SUFFICES ASSUME NEW k \in 1 .. Len(c.script), c.script[k].op = "load" PROVE ~NoLoad(script)
      BY DEF NoLoad
    <3>1. k \in Inputs(script)
      BY <2>6 DEF Inputs
    <3>2. k \in 1 .. Len(script) /\ script[k].op = "load"
      BY <2>5, <3>1 DEF Inputs
    <3> QED BY <3>2 DEF NoLoad
  <2>8. Tagset(script) = Tagset(c.script)
    <3>1. Inputs(script) \subseteq Inputs(c.script) /\ Tagset(script) \subseteq Tagset(c.script)
      BY <2>2, <2>4, PrefixTags
    <3>2. Tagset(c.script) \subseteq Tagset(script)
      BY <2>6, <2>7 DEF Tagset
    <3> QED BY <3>1, <3>2
  <2>9. \A k \in 1 .. Len(c.script) : c.script[k].op = "load" => Unshifted(c.script, k)
    <3> SUFFICES ASSUME NEW k \in 1 .. Len(c.script), c.script[k].op = "load",
                        NEW j \in 1 .. k - 1
                 PROVE  c.script[j].op \notin {"plaintext", "eval"}
      BY DEF Unshifted
    <3>1. j \in 1 .. Len(c.script) /\ j < k
      BY <2>4
    <3> QED BY <2>4, <3>1 DEF InputsFirst
  <2>10. \A k \in 1 .. Len(script) : /\ AllLoads(script, k) = AllLoads(c.script, k)
                                    /\ Unshifted(script, k) <=> Unshifted(c.script, k)
    BY <2>2, <2>4, PrefixTags
  <2>11. ASSUME NEW k \in Tagset(script) PROVE tagged[k].slot = c.tagged[k].slot
    <3>1. CASE k \in Inputs(script)
      <4>1. k \in 1 .. Len(script) /\ script[k].op \in {"load", "plaintext"}
        BY <3>1 DEF Inputs
      <4>2. CASE script[k].op = "plaintext"
        BY <2>3, <3>1, <4>2 DEF ReplaySlots
      <4>3. CASE script[k].op = "load"
        BY <2>3, <2>5, <2>9, <2>10, <4>1, <4>3 DEF InPlace
      <4> QED BY <4>1, <4>2, <4>3
    <3>2. CASE k = Keys /\ ~NoLoad(script)
      <4>1. PICK m : FirstLoad(script, m)
        BY <2>2, <3>2, SomeFirstLoad
      <4>2. m \in 1 .. Len(script) /\ script[m].op = "load"
        BY <4>1 DEF FirstLoad
      <4>3. FirstLoad(c.script, m)
        <5>1. \A i \in 1 .. m - 1 : i \in 1 .. Len(script)
          BY <2>2, <4>2
        <5> QED BY <2>5, <4>1, <4>2, <5>1 DEF FirstLoad
      <4>4. Unshifted(script, m) /\ Unshifted(c.script, m)
        BY <2>5, <2>9, <2>10, <4>2
      <4> QED BY <2>3, <3>2, <4>1, <4>3, <4>4 DEF InPlace
    <3> QED BY <3>1, <3>2 DEF Tagset
  <2>12. ASSUME NEW k \in Tagset(c.script) PROVE Backed(c, k)
    <3>1. DOMAIN tagged = Tagset(c.script)
      BY <2>3, <2>8 DEF Named
    <3>2. \A j \in Tagset(c.script) : tagged[j].slot = c.tagged[k].slot <=> j = k
      BY <2>3, <2>8, <2>11 DEF Apart
    <3> QED BY <3>1, <3>2 DEF Backed
  <2>13. \A n, v : Holds(c.probes, n, v, c.script) => n \in DOMAIN r /\ r[n] = v
    BY <2>1, <2>12 DEF Holds, Computed
  <2> QED BY <2>4, <2>13 DEF Recorded, Results
<1> QED BY <1>1, <1>2

\* What the hooks knew before the first output of a replay is nothing.
LEMMA StillRight ==
  ASSUME Core, mode = "REPLAY", NEW w \in DOMAIN objs, WasPut(w), NEW r \in Replayed
  PROVE  probed[objs[w].at] \in DOMAIN r /\ r[probed[objs[w].at]] = w
<1>1. Replaying /\ Knows
  BY DEF Core
<1>2. results # {}
  BY <1>1 DEF Replaying, Knows, Known
<1>3. r \in results
  BY <1>2 DEF Replayed
<1> QED BY <1>1, <1>3 DEF Replaying

\* What every output leaves as it is.
Kept ==
    /\ UNCHANGED <<mode, cached>>
    /\ Shaped' /\ Addresses'
    /\ \A s \in seen' : s.got = s.want

LEMMA PutOp ==
  ASSUME TInv, Core, NEW op \in Ops, Does(op), Kept,
         mode \notin {"REPLAY", "EXITED"} => \A v \in DOMAIN objs' : objs'[v].holds = v,
         mode \in {"RECORD", "REPLAY"} => Knows',
         mode = "RECORD" => Recording', mode = "REPLAY" => Replaying'
  PROVE  Core'
<1>1. mode \notin {"UNINITIALIZED", "EXITED"}
  BY StepFacts
<1> QED BY <1>1 DEF Kept, Core

\* A recording gets one more name, or the value of v under it once more.
LEMMA MoreRecorded ==
  ASSUME TInv, Core, mode = "RECORD", NEW op \in Ops, Does(op), NEW name, NEW v \in DOMAIN objs,
         probes' = Probe(name, v),
         \A k \in 1 .. Len(script) :
            script[k].op = "serialize" /\ script[k].file = name => script[k].of = v,
         \A k \in Firsts(script, Here) : FirstName(script, k) # name
  PROVE  /\ \A k \in 1 .. Len(script) : script'[k].op = "serialize" =>
               Holds(probes', script'[k].file, script'[k].of, script')
         /\ \A k \in Firsts(script, Here) :
               Holds(probes', FirstName(script', k), script'[k].of, script')
         /\ Holds(probes', name, v, script')
<1>1. /\ Len(script) \in Nat /\ Here = Len(script) + 1
      /\ \A k \in 1 .. Len(script) : script'[k] = script[k]
      /\ Adds(script, op, script', Here)
  BY StepFacts
<1>2. Recorded(script, probes) /\ objs[v].holds = v /\ objs[v].inputs \subseteq Tagset(script)
  BY DEF Core, Recording
<1>3. /\ \A k \in 1 .. Len(script) : script'[k].op = "serialize" =>
               Holds(probes, script'[k].file, script'[k].of, script')
      /\ \A k \in Firsts(script, Here) :
               Holds(probes, FirstName(script', k), script'[k].of, script')
  BY <1>2, StillRecorded
<1>4. probes' = With(probes, name, [value |-> v, inputs |-> objs[v].inputs])
  BY <1>2 DEF Probe
<1>5. \A n, x : n # name /\ Holds(probes, n, x, script') => Holds(probes', n, x, script')
  BY <1>4 DEF Holds, With
<1>6. \A k \in Firsts(script, Here) : FirstName(script', k) = FirstName(script, k)
  <2> TAKE k \in Firsts(script, Here)
  <2>1. k \in 1 .. Here
    BY <1>1 DEF Firsts
  <2>2. Firsts(script', k) = Firsts(script, k)
    BY <1>1, <2>1 DEF Adds
  <2> QED BY <2>2 DEF FirstName
<1>7. Holds(probes', name, v, script')
  <2>1. Tagset(script) \subseteq Tagset(script')
    BY <1>1 DEF Adds
  <2> QED BY <1>2, <1>4, <2>1 DEF Holds, With
<1>8. ASSUME NEW k \in 1 .. Len(script), script'[k].op = "serialize"
      PROVE  Holds(probes', script'[k].file, script'[k].of, script')
  <2>1. CASE script'[k].file = name
    <3>1. script'[k].of = v
      BY <1>1, <1>8, <2>1
    <3> QED BY <1>7, <2>1, <3>1
  <2>2. CASE script'[k].file # name
    BY <1>3, <1>5, <1>8, <2>2
  <2> QED BY <2>1, <2>2
<1> QED BY <1>3, <1>5, <1>6, <1>7, <1>8

\* The names of a recording are not each other's.
LEMMA NamesApart ==
  ASSUME TInv, Core, Typed(script), NoClash, mode = "RECORD"
  PROVE  /\ \A k \in Firsts(script, Here) : FirstName(script, k) \notin Stems
         /\ \A k \in 1 .. Len(script) :
               script[k].op = "serialize" => script[k].file # OutputName(probe_counter)
         /\ \A k \in Firsts(script, Here) : FirstName(script, k) # OutputName(probe_counter)
<1>1. Len(script) \in Nat /\ Here \in Nat
  <2>1. Len(script) \in Nat
    BY LenProperties DEF TInv
  <2> QED BY <2>1 DEF Here
<1>2. probe_counter = Cardinality(Firsts(script, Here)) /\ probe_counter \in Nat
  BY <1>1, FiniteFirsts DEF Core, Knows
<1>3. ASSUME NEW k \in Firsts(script, Here)
      PROVE  FirstName(script, k) \notin Stems /\ FirstName(script, k) # OutputName(probe_counter)
  <2>1. k \in Nat
    BY DEF Firsts
  <2>2. Cardinality(Firsts(script, k)) \in Nat
    BY <2>1, FiniteFirsts
  <2>3. Cardinality(Firsts(script, k)) < probe_counter
    BY <1>1, <1>2, FirstNamesDiffer
  <2>4. Cardinality(Firsts(script, k)) # probe_counter
    BY <1>2, <2>2, <2>3
  <2> QED BY <2>2, <2>4 DEF FirstName, NoClash, OutputName
<1>4. \A k \in 1 .. Len(script) :
         script[k].op = "serialize" => script[k].file # OutputName(probe_counter)
  BY <1>2 DEF Typed, NoClash
<1> QED BY <1>3, <1>4

\* What an output adds to what was put out.
LEMMA PutNow ==
  ASSUME TInv, NEW op \in Ops, Does(op), NEW w
  PROVE  WasPut(w)' <=> WasPut(w) \/ (op.op \in Puts /\ op.of = w)
<1>1. Here' = Here + 1 /\ Adds(script, op, script', Here)
  BY StepFacts
<1>2. PutBefore(script', Here + 1, w) = (PutBefore(script, Here, w) \/ (op.op \in Puts /\ op.of = w))
  BY <1>1 DEF Adds
<1> QED BY <1>1, <1>2 DEF WasPut

LEMMA SerializeKeeps ==
  ASSUME TInv, OInv, NoClash, NEW v \in DOMAIN objs, NEW stem \in Stems, Serialize(v, stem),
         Good'
  PROVE  Core'
<1> DEFINE op == Op("serialize", v, stem)
           at == objs[v].at
<1>1. op \in Ops /\ op.op = "serialize" /\ op.of = v /\ op.file = stem
  BY OfType DEF Op, Ops
<1>2. Does(op) /\ UNCHANGED <<mode, cached, freed, next, probe_counter, mistaken>>
  BY DEF Serialize
<1>3. results # {} => results' # {}
  BY DEF Serialize, Replayed
<1> HIDE DEF op
<1>4. Core /\ Typed(script)
  <2>1. Good
    BY <1>1, <1>2, <1>3, GoodBefore
  <2> QED BY <2>1 DEF OInv
<1>5. /\ script \in Seq(Ops) /\ Len(script) \in Nat
      /\ Len(script') = Here /\ script'[Here] = op
      /\ \A k \in 1 .. Len(script) : script'[k] = script[k]
      /\ \A k \in 1 .. Len(script') : k \in 1 .. Len(script) \/ k = Here
      /\ \A k \in 1 .. Len(script) : k \in 1 .. Len(script')
      /\ Here \in 1 .. Len(script') /\ DOMAIN script' = 1 .. Len(script')
      /\ Here = Len(script) + 1 /\ Here' = Here + 1 /\ Here \in Nat
      /\ mode \notin {"UNINITIALIZED", "EXITED"}
      /\ Adds(script, op, script', Here)
  BY <1>1, <1>2, StepFacts
<1>6. Shaped /\ Addresses /\ \A s \in seen : s.got = s.want
  BY <1>4 DEF Core
<1>7. op.op \in Puts /\ op.op # "decrypt"
  BY <1>1 DEF Puts
<1>8. CASE mode = "RECORD"
  <2>1. /\ probes' = Probe(stem, v) /\ probed' = Bind({at}, stem)
        /\ See(v, objs[v].holds) /\ UNCHANGED <<results, substituted, objs>>
    BY <1>8 DEF Serialize
  <2>2. DOMAIN probed' = DOMAIN probed \cup {at}
    BY <2>1 DEF Bind
  <2>3. Kept
    <3>1. objs[v].holds = v
      BY <1>4, <1>8 DEF Core
    <3>2. \A s \in seen' : s.got = s.want
      BY <1>6, <2>1, <3>1 DEF See
    <3>3. Addresses'
      BY <1>2, <1>6, <2>1, <2>2 DEF Addresses
    <3>4. Shaped'
      BY <1>6, <2>1 DEF Shaped
    <3> QED BY <1>2, <3>2, <3>3, <3>4 DEF Kept
  <2>4. Knows'
    <3>1. probe_counter' = IF op.op = "decrypt" /\ ~Known(v) THEN probe_counter + 1 ELSE probe_counter
      BY <1>2, <1>7
    <3> QED BY <1>1, <1>2, <1>4, <1>7, <1>8, <2>1, <2>2, <3>1, PutKnows
  <2>5. Recorded(script', probes')
    <3>1. \A k \in 1 .. Len(script) :
             script[k].op = "serialize" /\ script[k].file = stem => script[k].of = v
      BY <1>1, <1>5 DEF Good, StemsApart
    <3>2. \A k \in Firsts(script, Here) : FirstName(script, k) # stem
      BY <1>4, <1>8, NamesApart
    <3>3. /\ \A k \in 1 .. Len(script) : script'[k].op = "serialize" =>
               Holds(probes', script'[k].file, script'[k].of, script')
          /\ \A k \in Firsts(script, Here) :
               Holds(probes', FirstName(script', k), script'[k].of, script')
          /\ Holds(probes', stem, v, script')
      BY <1>1, <1>2, <1>4, <1>8, <2>1, <3>1, <3>2, MoreRecorded
    <3>4. Firsts(script', Len(script') + 1) = Firsts(script, Here)
      BY <1>5, <1>7 DEF Adds
    <3> QED BY <1>1, <1>5, <3>3, <3>4 DEF Recorded
  <2>6. Recording'
    <3>1. Recording /\ Tagset(script) \subseteq Tagset(script')
      BY <1>4, <1>5, <1>8 DEF Core, Adds
    <3> QED BY <2>1, <2>5, <3>1 DEF Recording
  <2>7. \A w \in DOMAIN objs' : objs'[w].holds = w
    BY <1>4, <1>8, <2>1 DEF Core
  <2> QED BY <1>1, <1>2, <1>4, <1>8, <2>3, <2>4, <2>6, <2>7, PutOp
<1>9. CASE mode = "REPLAY"
  <2>1. PICK c \in cached : TRUE
    BY <1>2, <1>9 DEF Does
  <2>2. /\ results' = Replayed /\ UNCHANGED probes
        /\ \E r \in Replayed :
              IF stem \in DOMAIN r
              THEN /\ probed' = Bind({at}, stem) /\ substituted' = substituted \cup {at}
                   /\ objs' = [objs EXCEPT ![v].holds = r[stem]] /\ See(v, r[stem])
              ELSE See(v, objs[v].holds) /\ UNCHANGED <<probed, substituted, objs>>
    BY <1>9 DEF Serialize
  <2>3. /\ Here \in 1 .. Len(c.script) /\ c.script[Here] = op
    BY <1>1, <1>2, <1>9, DoesOp
  <2>4. \A d \in cached : Faithful(d)
    BY <1>2, <2>2 DEF Good, Faithful
  <2>5. \A r \in Replayed, d \in cached : Results(d.script, r)
    BY <1>1, <1>2, <1>4, <1>7, <1>9, <2>4, ReplayedRight
  <2>6. \A r \in Replayed : stem \in DOMAIN r /\ r[stem] = v
    BY <1>1, <2>3, <2>5 DEF Results
  <2>7. /\ probed' = Bind({at}, stem) /\ substituted' = substituted \cup {at}
        /\ objs' = [objs EXCEPT ![v].holds = v] /\ See(v, v)
    BY <2>2, <2>6
  <2>8. /\ DOMAIN objs' = DOMAIN objs /\ Shaped'
        /\ \A w \in DOMAIN objs : objs'[w].at = objs[w].at
        /\ \A w \in DOMAIN objs : w # v => objs'[w].holds = objs[w].holds
        /\ objs'[v].holds = v
    <3>1. objs' = [w \in DOMAIN objs |-> IF w = v THEN [objs[v] EXCEPT !.holds = v] ELSE objs[w]]
      BY <2>7
    <3>2. \A w \in DOMAIN objs :
             objs[w] = [at |-> objs[w].at, holds |-> objs[w].holds, inputs |-> objs[w].inputs]
      BY <1>6 DEF Shaped
    <3>3. objs' = [w \in DOMAIN objs |->
             [at |-> objs[w].at, holds |-> IF w = v THEN v ELSE objs[w].holds, inputs |-> objs[w].inputs]]
      BY <3>1, <3>2
    <3> QED BY <3>3 DEF Shaped
  <2>9. DOMAIN probed' = DOMAIN probed \cup {at}
    BY <2>7 DEF Bind
  <2>10. Kept
    <3>1. \A s \in seen' : s.got = s.want
      BY <1>6, <2>7 DEF See
    <3>2. substituted' \subseteq DOMAIN probed'
      BY <1>6, <2>7, <2>9 DEF Addresses
    <3>3. Addresses'
      BY <1>2, <1>6, <2>8, <3>2 DEF Addresses
    <3> QED BY <1>2, <2>8, <3>1, <3>3 DEF Kept
  <2>11. Knows'
    <3>1. probe_counter' = IF op.op = "decrypt" /\ ~Known(v) THEN probe_counter + 1 ELSE probe_counter
      BY <1>2, <1>7
    <3> QED BY <1>1, <1>2, <1>4, <1>7, <1>9, <2>8, <2>9, <3>1, PutKnows
  <2>12. Replaying'
    <3>1. results' # {}
      BY <2>2
    <3>2. ASSUME NEW w \in DOMAIN objs', WasPut(w)'
          PROVE  /\ \A r \in results' : /\ probed'[objs'[w].at] \in DOMAIN r
                                        /\ r[probed'[objs'[w].at]] = w
                 /\ objs'[w].at \in substituted' => objs'[w].holds = w
      <4>1. objs'[w].at = objs[w].at /\ w \in DOMAIN objs
        BY <2>8, <3>2
      <4>2. CASE w = v
        BY <2>2, <2>6, <2>7, <2>8, <4>1, <4>2 DEF Bind
      <4>3. CASE w # v
        <5>1. objs[w].at # at
          BY <1>6, <4>1, <4>3 DEF Addresses
        <5>2. WasPut(w)
          BY <1>1, <1>2, <3>2, <4>3, PutNow
        <5>3. Known(w) /\ (objs[w].at \in substituted => objs[w].holds = w)
          BY <1>4, <1>9, <4>1, <5>2 DEF Core, Knows, Replaying
        <5>4. probed'[objs[w].at] = probed[objs[w].at]
          BY <2>7, <5>1, <5>3 DEF Bind, Known
        <5>5. \A r \in Replayed : probed[objs[w].at] \in DOMAIN r /\ r[probed[objs[w].at]] = w
          BY <1>4, <1>9, <4>1, <5>2, StillRight
        <5> QED BY <2>2, <2>7, <2>8, <4>1, <4>3, <5>1, <5>3, <5>4, <5>5
      <4> QED BY <4>2, <4>3
    <3> QED BY <1>2, <2>2, <2>5, <3>1, <3>2 DEF Replaying
  <2> QED BY <1>1, <1>2, <1>4, <1>9, <2>10, <2>11, <2>12, PutOp
<1>10. CASE mode \notin {"RECORD", "REPLAY"}
  <2>1. See(v, objs[v].holds) /\ UNCHANGED <<probed, results, substituted, objs>>
    BY <1>10 DEF Serialize
  <2>2. \A w \in DOMAIN objs : objs[w].holds = w
    BY <1>4, <1>5, <1>10 DEF Core
  <2>3. Kept
    <3>1. \A s \in seen' : s.got = s.want
      BY <1>6, <2>1, <2>2 DEF See
    <3> QED BY <1>2, <1>6, <2>1, <3>1 DEF Kept, Addresses, Shaped
  <2> QED BY <1>1, <1>2, <1>4, <1>10, <2>1, <2>2, <2>3, PutOp
<1> QED BY <1>8, <1>9, <1>10

\* The name under which a decrypt asks for the result is the one it has.
LEMMA DecryptName ==
  ASSUME TInv, Core, mode = "REPLAY", NEW v \in DOMAIN objs, NEW op \in Ops, Does(op),
         op.op = "decrypt", op.of = v, ~WasPut(v), NEW c \in cached, NEW r, Results(c.script, r)
  PROVE  OutputName(probe_counter) \in DOMAIN r /\ r[OutputName(probe_counter)] = v
<1>2. /\ Prefix(script, c.script) /\ Here \in 1 .. Len(c.script) /\ c.script[Here] = op
      /\ Len(script) \in Nat /\ Len(c.script) \in Nat
  BY DoesOp, LenProperties DEF TInv
<1>3. Here \in 1 .. Len(script) + 1
  BY <1>2 DEF Here
<1>4. Firsts(script, Here) = Firsts(c.script, Here) /\ PutBefore(script, Here, v) = PutBefore(c.script, Here, v)
  BY <1>2, <1>3, PrefixFirsts
<1>5. ~PutBefore(script, Here, v) /\ probe_counter = Cardinality(Firsts(script, Here))
  BY DEF Core, Knows, WasPut
<1>6. Here \in Firsts(c.script, Len(c.script) + 1)
  <2>1. Here \in 1 .. Len(c.script) + 1 - 1
    BY <1>2
  <2>2. ~PutBefore(c.script, Here, c.script[Here].of)
    BY <1>2, <1>4, <1>5
  <2> QED BY <1>2, <2>1, <2>2 DEF Firsts
<1>7. FirstName(c.script, Here) = OutputName(probe_counter)
  BY <1>4, <1>5 DEF FirstName
<1> QED BY <1>2, <1>6, <1>7 DEF Results

LEMMA DecryptKeeps ==
  ASSUME TInv, OInv, NoClash, NEW v \in DOMAIN objs, NEW hw \in freed \cup {next},
         Decrypt(v, hw), Good'
  PROVE  Core'
<1> DEFINE op == Op("decrypt", v, "")
           at == objs[v].at
           name == IF Known(v) THEN probed[at] ELSE OutputName(probe_counter)
<1>1. op \in Ops /\ op.op = "decrypt" /\ op.of = v
  BY OfType DEF Op, Ops
<1>2. /\ Does(op) /\ UNCHANGED <<mode, cached, objs>>
      /\ probe_counter' = IF Known(v) THEN probe_counter ELSE probe_counter + 1
      /\ mistaken' = (mistaken \/ (Known(v) /\ ~WasOutput(v)))
  BY DEF Decrypt, Known
<1>3. results # {} => results' # {}
  BY DEF Decrypt, Replayed
<1> HIDE DEF op
<1>4. Core /\ Typed(script)
  <2>1. Good
    BY <1>1, <1>2, <1>3, GoodBefore
  <2> QED BY <2>1 DEF OInv
<1>5. /\ script \in Seq(Ops) /\ Len(script) \in Nat
      /\ Len(script') = Here /\ script'[Here] = op
      /\ \A k \in 1 .. Len(script) : script'[k] = script[k]
      /\ \A k \in 1 .. Len(script') : k \in 1 .. Len(script) \/ k = Here
      /\ Here = Len(script) + 1 /\ Here' = Here + 1 /\ Here \in Nat
      /\ mode \notin {"UNINITIALIZED", "EXITED"}
      /\ Adds(script, op, script', Here)
  BY <1>1, <1>2, StepFacts
<1>6. Shaped /\ Addresses /\ Shaped' /\ \A s \in seen : s.got = s.want
  BY <1>2, <1>4 DEF Core, Shaped
<1>7. op.op \in Puts /\ op.op # "serialize"
  BY <1>1 DEF Puts
<1>11. mode \in {"RECORD", "REPLAY"} => (Known(v) <=> WasPut(v))
  <2>1. Known(v) => WasPut(v)
    BY <1>2, OutputWasPut DEF Good
  <2> QED BY <1>4, <2>1 DEF Core, Knows
<1>8. CASE mode = "RECORD"
  <2>1. /\ See(v, objs[v].holds) /\ UNCHANGED <<results, substituted, freed, next>>
        /\ IF Known(v) THEN UNCHANGED <<probes, probed>>
           ELSE probes' = Probe(OutputName(probe_counter), v)
                /\ probed' = Bind({at}, OutputName(probe_counter))
    BY <1>8 DEF Decrypt, Known
  <2>2. DOMAIN probed' = DOMAIN probed \cup {at}
    BY <2>1 DEF Bind, Known
  <2>3. Kept
    <3>1. objs[v].holds = v
      BY <1>4, <1>8 DEF Core
    <3>2. \A s \in seen' : s.got = s.want
      BY <1>6, <2>1, <3>1 DEF See
    <3>3. Addresses'
      BY <1>2, <1>6, <2>1, <2>2 DEF Addresses
    <3> QED BY <1>2, <1>6, <3>2, <3>3 DEF Kept
  <2>4. Knows'
    <3>1. probe_counter' = IF op.op = "decrypt" /\ ~Known(v) THEN probe_counter + 1 ELSE probe_counter
      BY <1>1, <1>2
    <3>2. DOMAIN objs' = DOMAIN objs /\ \A w \in DOMAIN objs : objs'[w].at = objs[w].at
      BY <1>2
    <3> QED BY <1>1, <1>2, <1>4, <1>7, <1>8, <1>11, <2>2, <3>1, <3>2, PutKnows
  <2>5. Recorded(script', probes')
    <3>1. Known(v) <=> PutBefore(script, Here, v)
      BY <1>8, <1>11 DEF WasPut
    <3>2. Recorded(script, probes)
      BY <1>4, <1>8 DEF Core, Recording
    <3>3. CASE Known(v)
      <4>1. Firsts(script', Len(script') + 1) = Firsts(script, Here)
        BY <1>1, <1>5, <3>1, <3>3 DEF Adds
      <4>2. probes' = probes
        BY <2>1, <3>3
      <4>3. /\ \A k \in 1 .. Len(script) : script'[k].op = "serialize" =>
                  Holds(probes, script'[k].file, script'[k].of, script')
            /\ \A k \in Firsts(script, Here) :
                  Holds(probes, FirstName(script', k), script'[k].of, script')
        BY <1>1, <1>2, <3>2, StillRecorded
      <4> QED BY <1>5, <1>7, <4>1, <4>2, <4>3 DEF Recorded
    <3>4. CASE ~Known(v)
      <4>1. Firsts(script', Len(script') + 1) = Firsts(script, Here) \cup {Here}
        BY <1>1, <1>5, <3>1, <3>4 DEF Adds
      <4>2. FirstName(script', Here) = OutputName(probe_counter)
        <5>1. Firsts(script', Here) = Firsts(script, Here)
          <6>1. Here \in 1 .. Here
            BY <1>5
          <6> QED BY <1>5, <6>1 DEF Adds
        <5>2. probe_counter = Cardinality(Firsts(script, Here))
          BY <1>4, <1>8 DEF Core, Knows
        <5> QED BY <5>1, <5>2 DEF FirstName
      <4>3. probes' = Probe(OutputName(probe_counter), v)
        BY <2>1, <3>4
      <4>4. /\ \A k \in 1 .. Len(script) :
                  script[k].op = "serialize" => script[k].file # OutputName(probe_counter)
            /\ \A k \in Firsts(script, Here) : FirstName(script, k) # OutputName(probe_counter)
        BY <1>4, <1>8, NamesApart
      <4>5. /\ \A k \in 1 .. Len(script) : script'[k].op = "serialize" =>
                  Holds(probes', script'[k].file, script'[k].of, script')
            /\ \A k \in Firsts(script, Here) :
                  Holds(probes', FirstName(script', k), script'[k].of, script')
            /\ Holds(probes', OutputName(probe_counter), v, script')
        BY <1>1, <1>2, <1>4, <1>8, <4>3, <4>4, MoreRecorded
      <4> QED BY <1>1, <1>5, <1>7, <4>1, <4>2, <4>5 DEF Recorded
    <3> QED BY <3>3, <3>4
  <2>6. Recording'
    <3>1. Recording /\ Tagset(script) \subseteq Tagset(script')
      BY <1>4, <1>5, <1>8 DEF Core, Adds
    <3> QED BY <1>2, <2>5, <3>1 DEF Recording
  <2>7. \A w \in DOMAIN objs' : objs'[w].holds = w
    BY <1>2, <1>4, <1>8 DEF Core
  <2> QED BY <1>1, <1>2, <1>4, <1>8, <2>3, <2>4, <2>6, <2>7, PutOp
<1>9. CASE mode = "REPLAY"
  <2>1. PICK c \in cached : TRUE
    BY <1>2, <1>9 DEF Does
  <2>2. /\ results' = Replayed /\ UNCHANGED probes
        /\ \E r \in Replayed :
              IF at \notin substituted /\ name \in DOMAIN r
              THEN /\ See(v, r[name]) /\ probed' = Bind({at, hw}, name)
                   /\ substituted' = substituted \cup {hw} /\ freed' = freed \cup {hw}
                   /\ next' = IF hw = next THEN next + 1 ELSE next
              ELSE See(v, objs[v].holds) /\ UNCHANGED <<probed, substituted, freed, next>>
    BY <1>9 DEF Decrypt, Known
  <2>3. \A d \in cached : Faithful(d)
    BY <1>2, <2>2 DEF Good, Faithful
  <2>4. \A r \in Replayed, d \in cached : Results(d.script, r)
    BY <1>1, <1>2, <1>4, <1>7, <1>9, <2>3, ReplayedRight
  <2>5. ASSUME NEW r \in Replayed PROVE name \in DOMAIN r /\ r[name] = v
    <3>1. CASE Known(v)
      BY <1>4, <1>9, <1>11, <3>1, StillRight
    <3>2. CASE ~Known(v)
      BY <1>1, <1>2, <1>4, <1>9, <1>11, <2>1, <2>4, <3>2, DecryptName
    <3> QED BY <3>1, <3>2
  <2>6. \A w \in DOMAIN objs : WasPut(w) =>
           /\ \A r \in results' : /\ probed[objs[w].at] \in DOMAIN r
                                  /\ r[probed[objs[w].at]] = w
           /\ Known(w) /\ (objs[w].at \in substituted => objs[w].holds = w)
    BY <1>4, <1>9, <2>2, StillRight DEF Core, Knows, Replaying
  <2>7. DOMAIN objs' = DOMAIN objs /\ \A w \in DOMAIN objs : objs'[w].at = objs[w].at
    BY <1>2
  <2>8. probe_counter' = IF op.op = "decrypt" /\ ~Known(v) THEN probe_counter + 1 ELSE probe_counter
    BY <1>1, <1>2
  <2>9. CASE at \in substituted
    <3>1. See(v, objs[v].holds) /\ UNCHANGED <<probed, substituted, freed, next>>
      BY <2>2, <2>9
    <3>2. Known(v) /\ WasPut(v) /\ objs[v].holds = v
      BY <1>6, <1>9, <1>11, <2>6, <2>9 DEF Addresses, Known
    <3>3. Kept
      <4>1. \A s \in seen' : s.got = s.want
        BY <1>6, <3>1, <3>2 DEF See
      <4>2. Addresses'
        BY <1>2, <1>6, <3>1 DEF Addresses
      <4> QED BY <1>2, <1>6, <4>1, <4>2 DEF Kept
    <3>4. Knows'
      <4>1. DOMAIN probed \cup {at} \subseteq DOMAIN probed'
        BY <3>1, <3>2 DEF Known
      <4> QED BY <1>1, <1>2, <1>4, <1>7, <1>9, <1>11, <2>7, <2>8, <4>1, PutKnows
    <3>5. \A w \in DOMAIN objs : WasPut(w)' => WasPut(w)
      BY <1>1, <1>2, <3>2, PutNow
    <3>6. Replaying'
      BY <1>2, <2>2, <2>4, <2>6, <3>1, <3>5 DEF Replaying
    <3> QED BY <1>1, <1>2, <1>4, <1>9, <3>3, <3>4, <3>6, PutOp
  <2>10. CASE at \notin substituted
    <3>1. /\ See(v, v) /\ probed' = Bind({at, hw}, name)
          /\ substituted' = substituted \cup {hw} /\ freed' = freed \cup {hw}
          /\ next' = IF hw = next THEN next + 1 ELSE next
      <4> HIDE DEF name
      <4> QED BY <2>2, <2>5, <2>10
    <3>2. \A r \in results' : name \in DOMAIN r /\ r[name] = v
      BY <2>2, <2>5
    <3> HIDE DEF name
    <3>3. DOMAIN probed' = DOMAIN probed \cup {at, hw}
      BY <3>1 DEF Bind
    <3>4. \A w \in DOMAIN objs : objs[w].at # hw
      BY <1>6 DEF Addresses
    <3>5. Addresses'
      <4>1. /\ next' \in Nat \ {0} /\ hw \in 1 .. next' - 1
            /\ \A b \in 1 .. next - 1 : b \in 1 .. next' - 1
        <5>1. next \in Nat \ {0} /\ freed \subseteq 1 .. next - 1
          BY <1>6 DEF Addresses
        <5>2. CASE hw = next
          BY <3>1, <5>1, <5>2
        <5>3. CASE hw # next
          BY <3>1, <5>1, <5>3
        <5> QED BY <5>2, <5>3
      <4>2. freed' \subseteq 1 .. next' - 1 /\ substituted' \subseteq DOMAIN probed'
        BY <1>6, <3>1, <3>3, <4>1 DEF Addresses
      <4>3. \A w \in DOMAIN objs' : objs'[w].at \in 1 .. next' - 1 /\ objs'[w].at \notin freed'
        BY <1>2, <1>6, <3>1, <3>4, <4>1 DEF Addresses
      <4>4. \A u, w \in DOMAIN objs' : objs'[u].at = objs'[w].at => u = w
        BY <1>2, <1>6 DEF Addresses
      <4> QED BY <4>1, <4>2, <4>3, <4>4 DEF Addresses
    <3>6. Kept
      <4>1. \A s \in seen' : s.got = s.want
        BY <1>6, <3>1 DEF See
      <4> QED BY <1>2, <1>6, <3>5, <4>1 DEF Kept
    <3>7. Knows'
      BY <1>1, <1>2, <1>4, <1>7, <1>9, <1>11, <2>7, <2>8, <3>3, PutKnows
    <3>8. Replaying'
      <4>1. ASSUME NEW w \in DOMAIN objs', WasPut(w)'
            PROVE  /\ \A r \in results' : /\ probed'[objs'[w].at] \in DOMAIN r
                                          /\ r[probed'[objs'[w].at]] = w
                   /\ objs'[w].at \in substituted' => objs'[w].holds = w
        <5>1. w \in DOMAIN objs /\ objs'[w] = objs[w]
          BY <1>2, <4>1
        <5>2. objs[w].at \in substituted' => objs[w].at \in substituted
          BY <3>1, <3>4, <5>1
        <5>3. CASE w = v
          <6>1. probed'[at] = name
            BY <3>1 DEF Bind
          <6> QED BY <2>10, <3>2, <5>1, <5>2, <5>3, <6>1
        <5>4. CASE w # v
          <6>1. WasPut(w)
            BY <1>1, <1>2, <4>1, <5>4, PutNow
          <6>2. objs[w].at \notin {at, hw}
            BY <1>6, <3>4, <5>1, <5>4 DEF Addresses
          <6>3. objs[w].at \in DOMAIN probed
            BY <2>6, <5>1, <6>1 DEF Known
          <6>4. probed'[objs[w].at] = probed[objs[w].at]
            BY <3>1, <6>2, <6>3 DEF Bind
          <6> QED BY <2>6, <5>1, <5>2, <6>1, <6>4
        <5> QED BY <5>3, <5>4
      <4> QED BY <1>2, <2>2, <2>4, <4>1 DEF Replaying
    <3> QED BY <1>1, <1>2, <1>4, <1>9, <3>6, <3>7, <3>8, PutOp
  <2> QED BY <2>9, <2>10
<1>10. CASE mode \notin {"RECORD", "REPLAY"}
  <2>1. See(v, objs[v].holds) /\ UNCHANGED <<probed, results, substituted, freed, next>>
    BY <1>10 DEF Decrypt
  <2>2. \A w \in DOMAIN objs : objs[w].holds = w
    BY <1>4, <1>5, <1>10 DEF Core
  <2>3. Kept
    <3>1. \A s \in seen' : s.got = s.want
      BY <1>6, <2>1, <2>2 DEF See
    <3> QED BY <1>2, <1>6, <2>1, <3>1 DEF Kept, Addresses
  <2> QED BY <1>1, <1>2, <1>4, <1>10, <2>1, <2>2, <2>3, PutOp
<1> QED BY <1>8, <1>9, <1>10

-----------------------------------------------------------------------------

(* What holds in every process, good or not: what went out is right until  *)
(* a replay has computed its results, and what has results is a replay.    *)
Plain ==
    /\ mode \notin {"REPLAY", "EXITED"} => results = {} /\ \A v \in DOMAIN objs : objs[v].holds = v
    /\ mode = "REPLAY" => cached # {}
    /\ results = {} => \A s \in seen : s.got = s.want
    /\ results # {} => cached # {} /\ \A c \in cached : Prefix(script, c.script)

LEMMA PInit == Init => Plain
BY DEF Init, Plain, Empty

\* An output leaves the results, or brings them about in a replay.
LEMMA PutPlain ==
  ASSUME TInv, TInv', Plain, NEW op \in Ops, Does(op), UNCHANGED <<mode, cached>>,
         NEW v \in DOMAIN objs,
         mode = "REPLAY" => results' = Replayed,
         mode # "REPLAY" => See(v, objs[v].holds) /\ UNCHANGED <<results, objs>>
  PROVE  Plain'
<1>1. mode \notin {"UNINITIALIZED", "EXITED"}
  BY StepFacts
<1>2. CASE mode = "REPLAY"
  <2>1. cached # {} /\ \A c \in cached : Prefix(script', c.script)
    BY <1>2 DEF Plain, TInv
  <2>2. results' # {}
    BY <1>2, <2>1 DEF Replayed
  <2> QED BY <1>2, <2>1, <2>2 DEF Plain
<1>3. CASE mode # "REPLAY"
  BY <1>1, <1>3 DEF Plain, See
<1> QED BY <1>2, <1>3

LEMMA QuietPlain ==
  ASSUME TInv, TInv', Plain, NEW op \in Ops, Does(op), UNCHANGED <<mode, cached, results, seen>>,
         mode # "REPLAY" => \A v \in DOMAIN objs' : objs'[v].holds = v
  PROVE  Plain'
<1>1. mode \notin {"UNINITIALIZED", "EXITED"}
  BY StepFacts
<1>2. mode = "REPLAY" => \A c \in cached : Prefix(script', c.script)
  BY DEF TInv
<1> QED BY <1>1, <1>2 DEF Plain

\* What an operation on the script does to the types of the two of them.
LEMMA OpTyped ==
  ASSUME TInv, OInv, NEW op \in Ops, Does(op), op.of \in 0 .. Len(script),
         op.op = "serialize" => op.file \in Stems, cached' = cached, Good' => Core'
  PROVE  OInv'
<1>1. Typed(script')
  BY TypedOp DEF OInv
<1> QED BY <1>1 DEF OInv

Both == OInv /\ Plain

LEMMA FreshNext == Fresh' => Core' /\ Typed(script)'
BY FreshCore, PTL

LEMMA ONext == TInv /\ TInv' /\ NoClash /\ Both /\ [Next]_vars => Both'
<1> SUFFICES ASSUME TInv, TInv', NoClash, Both, [Next]_vars PROVE Both'
  OBVIOUS
<1>0. /\ OInv /\ Plain /\ Len(script) \in Nat /\ DOMAIN objs \subseteq 1 .. Len(script)
      /\ 0 \in 0 .. Len(script) /\ \A v \in DOMAIN objs : v \in 0 .. Len(script)
      /\ Here \notin DOMAIN objs
  <2>1. Len(script) \in Nat /\ DOMAIN objs \subseteq 1 .. Len(script)
    BY LenProperties DEF TInv
  <2> QED BY <2>1 DEF Both, Here
<1>1. CASE Begin
  <2>1. Fresh' /\ cached' = cached
    BY <1>1 DEF Begin, Fresh
  <2>3. Core' /\ Typed(script)'
    BY <2>1, FreshNext
  <2>4. OInv'
    BY <1>0, <2>1, <2>3 DEF OInv
  <2>5. Plain'
    BY <2>1 DEF Plain, Fresh, Empty
  <2> QED BY <2>4, <2>5 DEF Both
<1>2. CASE OnDeserializeCryptoContext
  <2>1. /\ mode = "UNINITIALIZED" /\ mode' \in {"REPLAY", "RECORD", "COOPERATIVE", "DORMANT"}
        /\ mode' = "REPLAY" => cached # {}
        /\ UNCHANGED <<script, objs, freed, next, seen, mistaken, probed, substituted,
                       probe_counter, probes, results, cached>>
    BY <1>2 DEF OnDeserializeCryptoContext, program
  <2>2. script = <<>>
    BY <2>1 DEF TInv
  <2>3. DOMAIN Empty = {} /\ Len(<<>>) = 0 /\ 1 .. 0 = {} /\ 1 .. 1 - 1 = {} /\ Here = 1
    BY <2>2 DEF Empty, Here
  <2>4. Firsts(<<>>, 1) = {} /\ Len(<<>>) + 1 = 1
    BY <2>3 DEF Firsts
  <2>5. Good' => Core'
    <3> SUFFICES ASSUME Good' PROVE Core'
      OBVIOUS
    <3>1. Core
      BY <1>0, <2>1 DEF OInv, Good, Faithful
    <3>2. objs = Empty /\ probed = Empty /\ probe_counter = 0 /\ results = {}
      BY <2>1, <3>1 DEF Core
    <3>3. Knows'
      <4>1. probe_counter' = Cardinality(Firsts(script', Here')) /\ DOMAIN objs' = {}
        BY <2>1, <2>2, <2>3, <2>4, <3>2, FS_EmptySet DEF Here
      <4> QED BY <4>1 DEF Knows
    <3>4. Recording'
      BY <2>1, <2>2, <2>3, <2>4, <3>2 DEF Recording, Recorded
    <3>5. Replaying'
      BY <2>1, <2>2, <2>3, <3>2 DEF Replaying
    <3>6. Shaped' /\ Addresses' /\ \A s \in seen' : s.got = s.want
      BY <2>1, <3>1 DEF Shaped, Addresses, Core
    <3>7. \A w \in DOMAIN objs' : objs'[w].holds = w
      BY <2>1, <2>3, <3>2
    <3> QED BY <2>1, <3>3, <3>4, <3>5, <3>6, <3>7 DEF Core
  <2>6. OInv'
    BY <1>0, <2>1, <2>5 DEF OInv
  <2>7. Plain'
    BY <1>0, <2>1 DEF Plain
  <2> QED BY <2>6, <2>7 DEF Both
<1>3. CASE Exit
  <2>1. /\ mode' = "EXITED"
        /\ UNCHANGED <<script, objs, freed, next, seen, mistaken, probed, substituted, results>>
        /\ mode \notin {"UNINITIALIZED", "EXITED"}
        /\ cached' = IF mode = "RECORD"
                     THEN {[script |-> script, probes |-> probes, tagged |-> tagged,
                            mistaken |-> mistaken]}
                     ELSE cached
    BY <1>3 DEF Exit, program
  <2>2. ASSUME NEW c \in cached'
        PROVE  Typed(c.script) /\ (StemsApart(c.script) /\ ~c.mistaken => Recorded(c.script, c.probes))
    <3>1. CASE mode = "RECORD"
      <4>1. c.script = script /\ c.probes = probes /\ c.mistaken = mistaken
        BY <2>1, <2>2, <3>1
      <4>2. StemsApart(script) /\ ~mistaken => Core
        BY <1>0, <3>1 DEF OInv, Good, Plain
      <4> QED BY <1>0, <3>1, <4>1, <4>2 DEF OInv, Core, Recording
    <3>2. CASE mode # "RECORD"
      BY <1>0, <2>1, <2>2, <3>2 DEF OInv
    <3> QED BY <3>1, <3>2
  <2>3. mode = "RECORD" => results = {}
    BY <1>0 DEF Plain
  <2>4. Good' => Core'
    <3> SUFFICES ASSUME Good' PROVE Core'
      OBVIOUS
    <3>1. Good
      BY <2>1, <2>3 DEF Good, Faithful
    <3>2. Core
      BY <1>0, <3>1 DEF OInv
    <3> QED BY <2>1, <3>2 DEF Core, Shaped, Addresses
  <2>5. OInv'
    BY <1>0, <2>1, <2>2, <2>4 DEF OInv
  <2>6. Plain'
    BY <1>0, <2>1, <2>3 DEF Plain
  <2> QED BY <2>5, <2>6 DEF Both
<1>4. CASE MakePlaintext
  <2> DEFINE op == Op("plaintext", 0, "")
  <2>1. op \in Ops /\ op.op = "plaintext" /\ op.of = 0
    BY DEF Op, Ops
  <2>2. /\ Does(op) /\ UNCHANGED <<mode, probed, probes, results, substituted, probe_counter,
                                   seen, cached, objs, next, freed, mistaken>>
    BY <1>4 DEF MakePlaintext
  <2> HIDE DEF op
  <2>3. op.op \notin Puts /\ op.op # "serialize" /\ op.of \in 0 .. Len(script)
    BY <1>0, <2>1 DEF Puts
  <2>4. Good' => Core'
    <3> SUFFICES ASSUME Good' PROVE Core'
      OBVIOUS
    <3>1. Core /\ Typed(script)
      BY <1>0, <2>1, <2>2, GoodBefore DEF OInv
    <3>2. Shaped' /\ Addresses'
      BY <2>2, <3>1 DEF Shaped, Addresses, Core
    <3>3. \A v \in DOMAIN objs' : v \in DOMAIN objs /\ objs'[v] = objs[v]
      BY <2>2
    <3> QED BY <2>1, <2>2, <2>3, <3>1, <3>2, <3>3, QuietOp
  <2>5. Plain'
    <3>1. mode # "REPLAY" => \A v \in DOMAIN objs' : objs'[v].holds = v
      BY <1>0, <2>1, <2>2, StepFacts DEF Plain
    <3> QED BY <1>0, <2>1, <2>2, <3>1, QuietPlain
  <2>6. OInv'
    BY <1>0, <2>1, <2>2, <2>3, <2>4, OpTyped
  <2> QED BY <2>5, <2>6 DEF Both
<1>5. ASSUME NEW a \in freed \cup {next}, NEW path \in Paths, Load(path, a) PROVE Both'
  <2> DEFINE op == Op("load", 0, path)
  <2>1. op \in Ops /\ op.op = "load" /\ op.of = 0
    BY DEF Op, Ops
  <2>2. /\ Does(op) /\ UNCHANGED <<mode, probed, probes, results, substituted, probe_counter,
                                   seen, cached, mistaken>>
        /\ Make(a, Here, {Here})
    BY <1>5 DEF Load
  <2> HIDE DEF op
  <2>3. op.op \notin Puts /\ op.op # "serialize" /\ op.of \in 0 .. Len(script)
    BY <1>0, <2>1 DEF Puts
  <2>4. {Here} \subseteq Tagset(script')
    <3>1. Adds(script, op, script', Here)
      BY <2>1, <2>2, StepFacts
    <3> QED BY <2>1, <3>1 DEF Adds, Tagset
  <2>5. /\ DOMAIN objs' = DOMAIN objs \cup {Here}
        /\ objs'[Here].holds = Here /\ objs'[Here].inputs = {Here}
        /\ \A v \in DOMAIN objs : v # Here => objs'[v] = objs[v]
    BY <2>2 DEF Make, With
  <2>6. Good' => Core'
    <3> SUFFICES ASSUME Good' PROVE Core'
      OBVIOUS
    <3>1. Core /\ Typed(script)
      BY <1>0, <2>1, <2>2, GoodBefore DEF OInv
    <3>2. Shaped' /\ Addresses'
      BY <1>5, <2>2, <3>1, MakeAddresses
    <3>3. \A v \in DOMAIN objs' :
            \/ v \in DOMAIN objs /\ objs'[v] = objs[v]
            \/ /\ v = Here /\ (mode # "REPLAY" => objs'[v].holds = Here)
               /\ mode = "RECORD" => objs'[v].inputs \subseteq Tagset(script')
      BY <1>0, <2>4, <2>5
    <3> QED BY <2>1, <2>2, <2>3, <3>1, <3>2, <3>3, QuietOp
  <2>7. Plain'
    <3>1. mode # "REPLAY" => \A v \in DOMAIN objs' : objs'[v].holds = v
      BY <1>0, <2>1, <2>2, <2>5, StepFacts DEF Plain
    <3> QED BY <1>0, <2>1, <2>2, <3>1, QuietPlain
  <2>8. OInv'
    BY <1>0, <2>1, <2>2, <2>3, <2>6, OpTyped
  <2> QED BY <2>7, <2>8 DEF Both
<1>6. ASSUME NEW a \in freed \cup {next}, NEW u \in DOMAIN objs, Eval(u, a) PROVE Both'
  <2> DEFINE op == Op("eval", u, "")
             ins == objs[u].inputs \cup (({Keys} \cup Done({"plaintext"})) \cap DOMAIN tagged)
             val == IF mode = "REPLAY" THEN Dummy ELSE Here
  <2>1. op \in Ops /\ op.op = "eval" /\ op.of = u
    BY OfType DEF Op, Ops
  <2>2. /\ Does(op) /\ UNCHANGED <<mode, probed, probes, results, substituted, probe_counter,
                                   seen, cached, mistaken>>
        /\ Make(a, val, ins)
    BY <1>6 DEF Eval
  <2> HIDE DEF op
  <2>3. op.op \notin Puts /\ op.op # "serialize" /\ op.of \in 0 .. Len(script)
    BY <1>0, <2>1 DEF Puts
  <2>4. mode = "RECORD" /\ Core => ins \subseteq Tagset(script')
    <3> SUFFICES ASSUME mode = "RECORD", Core PROVE ins \subseteq Tagset(script')
      OBVIOUS
    <3>1. Recording /\ DOMAIN tagged = Tagset(script)
      BY DEF Core, TInv, Tagged, Tagging, Named
    <3>2. Adds(script, op, script', Here)
      BY <2>1, <2>2, StepFacts
    <3> QED BY <3>1, <3>2 DEF Adds, Recording
  <2> HIDE DEF ins
  <2>5. /\ DOMAIN objs' = DOMAIN objs \cup {Here}
        /\ objs'[Here].holds = val /\ objs'[Here].inputs = ins
        /\ \A v \in DOMAIN objs : v # Here => objs'[v] = objs[v]
    BY <2>2 DEF Make, With
  <2>6. Good' => Core'
    <3> SUFFICES ASSUME Good' PROVE Core'
      OBVIOUS
    <3>1. Core /\ Typed(script)
      BY <1>0, <2>1, <2>2, GoodBefore DEF OInv
    <3>2. Shaped' /\ Addresses'
      BY <1>6, <2>2, <3>1, MakeAddresses
    <3>3. \A v \in DOMAIN objs' :
            \/ v \in DOMAIN objs /\ objs'[v] = objs[v]
            \/ /\ v = Here /\ (mode # "REPLAY" => objs'[v].holds = Here)
               /\ mode = "RECORD" => objs'[v].inputs \subseteq Tagset(script')
      BY <1>0, <2>4, <2>5, <3>1
    <3> QED BY <2>1, <2>2, <2>3, <3>1, <3>2, <3>3, QuietOp
  <2>7. Plain'
    <3>1. mode # "REPLAY" => \A v \in DOMAIN objs' : objs'[v].holds = v
      BY <1>0, <2>1, <2>2, <2>5, StepFacts DEF Plain
    <3> QED BY <1>0, <2>1, <2>2, <3>1, QuietPlain
  <2>8. OInv'
    BY <1>0, <2>1, <2>2, <2>3, <2>6, OpTyped
  <2> QED BY <2>7, <2>8 DEF Both
<1>7. ASSUME NEW a \in freed \cup {next}, NEW u \in DOMAIN objs, Decrypt(u, a) PROVE Both'
  <2> DEFINE op == Op("decrypt", u, "")
  <2>1. op \in Ops /\ op.op = "decrypt" /\ op.of = u
    BY OfType DEF Op, Ops
  <2>2. Does(op) /\ UNCHANGED <<mode, cached, objs>>
    BY <1>7 DEF Decrypt
  <2>3. /\ mode = "REPLAY" => results' = Replayed
        /\ mode # "REPLAY" => See(u, objs[u].holds) /\ results' = results
    BY <1>7 DEF Decrypt
  <2> HIDE DEF op
  <2>4. Good' => Core'
    BY <1>0, <1>7, DecryptKeeps
  <2>5. OInv'
    BY <1>0, <2>1, <2>2, <2>4, OpTyped
  <2>6. Plain'
    BY <1>0, <2>1, <2>2, <2>3, PutPlain
  <2> QED BY <2>5, <2>6 DEF Both
<1>8. ASSUME NEW u \in DOMAIN objs, Release(u) PROVE Both'
  <2> DEFINE op == Op("release", u, "")
  <2>1. op \in Ops /\ op.op = "release" /\ op.of = u
    BY OfType DEF Op, Ops
  <2>2. /\ Does(op) /\ UNCHANGED <<mode, probed, probes, results, substituted, probe_counter,
                                   seen, cached, next, mistaken>>
        /\ freed' = freed \cup {objs[u].at}
    BY <1>8 DEF Release, facade
  <2>3. objs' = [w \in DOMAIN objs \ {u} |-> objs[w]]
    BY <1>8 DEF Release, Restrict
  <2> HIDE DEF op
  <2>4. op.op \notin Puts /\ op.op # "serialize" /\ op.of \in 0 .. Len(script)
    BY <1>0, <2>1 DEF Puts
  <2>5. DOMAIN objs' = DOMAIN objs \ {u} /\ \A v \in DOMAIN objs' : v \in DOMAIN objs /\ objs'[v] = objs[v]
    BY <2>3
  <2>6. Good' => Core'
    <3> SUFFICES ASSUME Good' PROVE Core'
      OBVIOUS
    <3>1. Core /\ Typed(script)
      BY <1>0, <2>1, <2>2, GoodBefore DEF OInv
    <3>2. Shaped'
      BY <2>3, <3>1 DEF Shaped, Core
    <3>3. Addresses'
      <4>1. Addresses /\ \A v \in DOMAIN objs' : objs'[v].at # objs[u].at
        BY <2>5, <3>1 DEF Addresses, Core
      <4>2. UNCHANGED <<next, substituted, probed>> /\ freed' \subseteq 1 .. next - 1
        BY <1>8, <2>2, <4>1 DEF Addresses
      <4> QED BY <2>2, <2>5, <4>1, <4>2 DEF Addresses
    <3> QED BY <2>1, <2>2, <2>4, <2>5, <3>1, <3>2, <3>3, QuietOp
  <2>7. Plain'
    <3>1. mode # "REPLAY" => \A v \in DOMAIN objs' : objs'[v].holds = v
      BY <1>0, <2>1, <2>2, <2>5, StepFacts DEF Plain
    <3> QED BY <1>0, <2>1, <2>2, <3>1, QuietPlain
  <2>8. OInv'
    BY <1>0, <2>1, <2>2, <2>4, <2>6, OpTyped
  <2> QED BY <2>7, <2>8 DEF Both
<1>9. ASSUME NEW u \in DOMAIN objs, NEW stem \in Stems, Serialize(u, stem) PROVE Both'
  <2> DEFINE op == Op("serialize", u, stem)
  <2>1. op \in Ops /\ op.op = "serialize" /\ op.of = u /\ op.file = stem
    BY OfType DEF Op, Ops
  <2>2. Does(op) /\ UNCHANGED <<mode, cached>>
    BY <1>9 DEF Serialize
  <2>3. /\ mode = "REPLAY" => results' = Replayed
        /\ mode # "REPLAY" => See(u, objs[u].holds) /\ UNCHANGED <<results, objs>>
    BY <1>9 DEF Serialize
  <2> HIDE DEF op
  <2>4. Good' => Core'
    BY <1>0, <1>9, SerializeKeeps
  <2>5. OInv'
    BY <1>0, <2>1, <2>2, <2>4, OpTyped
  <2>6. Plain'
    BY <1>0, <2>1, <2>2, <2>3, PutPlain
  <2> QED BY <2>5, <2>6 DEF Both
<1>10. CASE UNCHANGED vars
  <2>1. UNCHANGED <<mode, script, objs, freed, next, seen, mistaken, probed, substituted,
                    probe_counter, probes, results, cached>>
    BY <1>10 DEF vars, facade, program, process
  <2>2. Core' = Core /\ Good' = Good
    BY <2>1 DEF Core, Good, Shaped, Addresses, Knows, Known, WasPut, Here, Recording, Replaying
  <2>3. OInv' /\ Plain'
    BY <1>0, <2>1, <2>2 DEF OInv, Plain
  <2> QED BY <2>3 DEF Both
<1> QED BY <1>1, <1>2, <1>3, <1>4, <1>5, <1>6, <1>7, <1>8, <1>9, <1>10 DEF Next

(* What leaves the program is what it computes, in every process, whatever *)
(* addresses and slots the allocators give, but for what OutputsCorrect    *)
(* leaves out, if no stem is a name the hooks make up for what is          *)
(* decrypted.                                                              *)
THEOREM OutputsRight ==
  ASSUME \A n \in Nat : OutputName(n) \notin Stems
  PROVE  Spec => []OutputsCorrect
<1>1. NoClash
  BY DEF NoClash
<1>2. Init => TInv /\ Both
  BY TInit, OInit, PInit DEF Both
<1>3. TInv /\ Both /\ [Next]_vars => (TInv /\ Both)'
  BY <1>1, TNext, ONext
<1>4. TInv /\ Both => OutputsCorrect
  <2> SUFFICES ASSUME TInv, OInv, Plain PROVE OutputsCorrect
    BY DEF Both
  <2>1. CASE results = {} \/ mistaken \/ \E c \in cached : ~Faithful(c)
    BY <2>1 DEF OutputsCorrect, Plain
  <2>2. CASE results # {} /\ ~mistaken /\ \A c \in cached : Faithful(c)
    <3>1. PICK c \in cached : Prefix(script, c.script) /\ StemsApart(c.script)
      BY <2>2 DEF Plain, Faithful
    <3>2. /\ DOMAIN script = 1 .. Len(script) /\ Len(script) \in Nat
          /\ DOMAIN c.script = 1 .. Len(c.script) /\ Len(c.script) \in Nat
      BY LenProperties DEF TInv
    <3>3. \A k \in DOMAIN script : k \in DOMAIN c.script /\ script[k] = c.script[k]
      BY <3>1, <3>2 DEF Prefix
    <3>4. StemsApart(script)
      BY <3>1, <3>3 DEF StemsApart
    <3>5. Core
      BY <2>2, <3>4 DEF OInv, Good
    <3> QED BY <3>5 DEF Core, OutputsCorrect
  <2> QED BY <2>1, <2>2
<1> QED BY <1>2, <1>3, <1>4, PTL DEF Spec
=============================================================================
