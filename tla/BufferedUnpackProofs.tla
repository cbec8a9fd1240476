------------------------ MODULE BufferedUnpackProofs ------------------------
(***************************************************************************)
(* Proofs about the buffered unpacker, for every base, magic, set of names *)
(* and response.  The lemmas about the format up to FramesAppend are those *)
(* of ArchiveUnpackerProofs, which cannot be extended beside this module's *)
(* specification.                                                          *)
(***************************************************************************)
EXTENDS BufferedUnpack, SequenceTheorems, WellFoundedInduction, TLAPS

-----------------------------------------------------------------------------
(* The algebra of byte strings.                                            *)

LEMMA Concat ==
  \A a, b \in Seq(Byte) :
     /\ a \o b \in Seq(Byte)
     /\ Len(a \o b) = Len(a) + Len(b)
     /\ a \o <<>> = a /\ <<>> \o a = a
  BY ConcatProperties, ConcatEmptySeq

LEMMA Assoc ==
  \A a, b, c \in Seq(Byte) : (a \o b) \o c = a \o (b \o c)
  BY ConcatAssociative

(* The two groupings of three strings, as one formula: a step that cites the  *)
(* lemma sees no concatenation, and the next one no quantifier.             *)
SameJoin(a, b, c) == (a \o b) \o c = a \o (b \o c)

LEMMA Regroup == \A a, b, c \in Seq(Byte) : SameJoin(a, b, c)
  BY Assoc DEF SameJoin

LEMMA Lengths ==
  /\ \A a \in Seq(Byte) : Len(a) \in Nat
  /\ <<>> \in Seq(Byte) /\ Len(<<>>) = 0
  /\ \A a \in Seq(Byte) : Len(a) = 0 => a = <<>>
  BY LenProperties, EmptySeq

-----------------------------------------------------------------------------
(* Fixed-width fields.                                                     *)

LEMMA WordNat == Word \in Nat /\ Word > 0 /\ Width \in Nat
  BY BaseAssumption DEF Word, Width

LEMMA FieldDigits ==
  ASSUME NEW f \in Seq(Byte), Len(f) = Width
  PROVE  f[1] \in 0 .. Base - 1 /\ f[2] \in 0 .. Base - 1
<1>1. 1 \in 1 .. Len(f) /\ 2 \in 1 .. Len(f)
  BY DEF Width
<1>2. f[1] \in Byte /\ f[2] \in Byte
  BY <1>1, ElementOfSeq
<1> QED BY <1>2 DEF Byte

(* A field that is read is a word.                                         *)
LEMMA ReadLEWord ==
  ASSUME NEW f \in Seq(Byte), Len(f) = Width
  PROVE  ReadLE(f) \in 0 .. Word - 1
<1>1. f[1] \in 0 .. Base - 1 /\ f[2] \in 0 .. Base - 1
  BY FieldDigits
<1> DEFINE a == f[1]  b == f[2]
<1>2. Base * b <= Base * (Base - 1)
  BY <1>1, BaseAssumption
<1>3. a + Base * b <= (Base - 1) + Base * (Base - 1)
  BY <1>1, <1>2, BaseAssumption
<1>4. (Base - 1) + Base * (Base - 1) = Base * Base - 1
  BY BaseAssumption
<1>5. a + Base * b \in Nat
  BY <1>1, BaseAssumption
<1> QED BY <1>3, <1>4, <1>5, BaseAssumption DEF ReadLE, Word

(* Writing a field that was read gives the same bytes back.                *)
LEMMA AppendReadLE ==
  ASSUME NEW f \in Seq(Byte), Len(f) = Width
  PROVE  AppendLE(ReadLE(f)) = f
<1>1. f[1] \in 0 .. Base - 1 /\ f[2] \in 0 .. Base - 1
  BY FieldDigits
<1> DEFINE a == f[1]  b == f[2]
<1>2. ASSUME NEW x \in 0 .. Base - 1, NEW y \in 0 .. Base - 1
      PROVE  (x + Base * y) % Base = x /\ (x + Base * y) \div Base = y
  BY BaseAssumption, Z3
<1>3. b % Base = b
  BY <1>1, BaseAssumption
<1>4. ReadLE(f) % Base = a /\ (ReadLE(f) \div Base) % Base = b
  BY <1>1, <1>2, <1>3 DEF ReadLE
<1>5. f = <<a, b>>
  BY LenProperties DEF Width
<1> QED BY <1>4, <1>5 DEF AppendLE

LEMMA AppendLEType ==
  ASSUME NEW v \in Nat
  PROVE  AppendLE(v) \in Seq(Byte) /\ Len(AppendLE(v)) = Width
<1>1. v % Base \in Byte /\ v \div Base \in Nat
  BY BaseAssumption DEF Byte
<1>2. (v \div Base) % Base \in Byte
  BY <1>1, BaseAssumption DEF Byte
<1> QED BY <1>1, <1>2 DEF AppendLE, Width

(* Putting a file in a directory gives a directory.                        *)
LEMMA WriteType ==
  ASSUME NEW dir, DOMAIN dir \subseteq Seq(Byte),
         dir \in [DOMAIN dir -> Seq(Byte)],
         NEW name \in Seq(Byte), NEW data \in Seq(Byte)
  PROVE  /\ DOMAIN Write(dir, name, data) = DOMAIN dir \cup {name}
         /\ DOMAIN Write(dir, name, data) \subseteq Seq(Byte)
         /\ Write(dir, name, data)
               \in [DOMAIN Write(dir, name, data) -> Seq(Byte)]
         /\ Write(dir, name, data)[name] = data
  BY DEF Write

LEMMA FrameType ==
  ASSUME NEW e \in Entry
  PROVE  Frame(e) \in Seq(Byte)
<1>1. e.name \in Seq(Byte) /\ e.data \in Seq(Byte)
  BY DEF Entry
<1>2. AppendLE(Len(e.name)) \in Seq(Byte) /\ AppendLE(Len(e.data)) \in Seq(Byte)
  BY <1>1, LenProperties, AppendLEType
<1> QED BY <1>1, <1>2, ConcatProperties DEF Frame

-----------------------------------------------------------------------------
(* Induction over the numbers, for a set in the place of a predicate: the  *)
(* order of the numbers is well-founded, so a set that is not empty has a  *)
(* least member.                                                           *)

LEMMA LeastMember ==
  ASSUME NEW T, T \subseteq Nat, T # {}
  PROVE  \E x \in T : \A y \in T : x <= y
<1> DEFINE R == OpToRel(<, Nat)
<1>1. IsWellFoundedOn(R, Nat)
  BY NatLessThanWellFounded
<1>2. \A x, y \in Nat : x < y => <<x, y>> \in R
  BY DEF OpToRel
<1> HIDE DEF R
<1>3. PICK x \in T : \A y \in T : ~(<<y, x>> \in R)
  BY <1>1, WFMin
<1>4. ASSUME NEW y \in T PROVE x <= y
  <2>1. x \in Nat /\ y \in Nat
    OBVIOUS
  <2>2. ~(y < x)
    BY <2>1, <1>2, <1>3
  <2> QED BY <2>1, <2>2
<1> QED BY <1>4

LEMMA SetInduction ==
  ASSUME NEW S, 0 \in S, \A n \in Nat : n \in S => n + 1 \in S
  PROVE  Nat \subseteq S
<1> SUFFICES ASSUME Nat \ S # {} PROVE FALSE
  OBVIOUS
<1>1. PICK x \in Nat \ S : \A y \in Nat \ S : x <= y
  <2> DEFINE T == Nat \ S
  <2>1. T \subseteq Nat /\ T # {}
    OBVIOUS
  <2> HIDE DEF T
  <2>2. \E x \in T : \A y \in T : x <= y
    BY <2>1, LeastMember
  <2> QED BY <2>2 DEF T
<1>2. x # 0 /\ x - 1 \in Nat
  BY <1>1
<1>3. x - 1 \in S
  BY <1>1, <1>2
<1> QED BY <1>1, <1>2, <1>3

-----------------------------------------------------------------------------
(* What is on the wire behind the header, one frame after the other.       *)

FlatStep(s, g, k) == IF k = 1 THEN s[k] ELSE g[k - 1] \o s[k]
Flattens(g, s, n) == g = [k \in 1 .. n |-> FlatStep(s, g, k)]

LEMMA FlattenExists == ASSUME NEW s PROVE \A n \in Nat : \E g : Flattens(g, s, n)
<1> DEFINE S == {n \in Nat : \E g : Flattens(g, s, n)}
<1>1. 0 \in S
  <2>1. Flattens([k \in 1 .. 0 |-> <<>>], s, 0)
    BY DEF Flattens
  <2> QED BY <2>1
<1>2. ASSUME NEW n \in Nat, n \in S PROVE n + 1 \in S
  <2>1. PICK g : Flattens(g, s, n)
    BY <1>2
  <2> DEFINE h == [k \in 1 .. n + 1 |-> IF k = n + 1 THEN FlatStep(s, g, k) ELSE g[k]]
  <2>2. ASSUME NEW k \in 1 .. n + 1 PROVE h[k] = FlatStep(s, h, k)
    <3>1. k # 1 => k - 1 \in 1 .. n /\ h[k - 1] = g[k - 1]
      OBVIOUS
    <3>2. FlatStep(s, g, k) = FlatStep(s, h, k)
      BY <3>1 DEF FlatStep
    <3>3. k # n + 1 => g[k] = FlatStep(s, g, k)
      BY <2>1 DEF Flattens
    <3> QED BY <3>2, <3>3
  <2>3. h = [k \in 1 .. n + 1 |-> h[k]]
    OBVIOUS
  <2> HIDE DEF h
  <2>4. Flattens(h, s, n + 1)
    BY <2>2, <2>3 DEF Flattens
  <2> QED BY <2>4
<1> HIDE DEF S
<1>3. Nat \subseteq S
  BY <1>1, <1>2, SetInduction
<1> QED BY <1>3 DEF S

(* The flattening of a sequence is determined by its elements.             *)
\* Two sequences that agree on their first n elements.
AgreeUpTo(s, t, n) == \A k \in 1 .. n : s[k] = t[k]

LEMMA FlattenAgrees ==
  ASSUME NEW s, NEW t, NEW m \in Nat, NEW n \in Nat, n <= m, AgreeUpTo(s, t, n),
         NEW g, Flattens(g, s, n), NEW h, Flattens(h, t, m)
  PROVE  AgreeUpTo(g, h, n)
<1> USE DEF AgreeUpTo
<1> DEFINE S == {k \in Nat : k \in 1 .. n => g[k] = h[k]}
<1>1. 0 \in S
  OBVIOUS
<1>2. ASSUME NEW k \in Nat, k \in S PROVE k + 1 \in S
  <2> SUFFICES ASSUME k + 1 \in 1 .. n PROVE g[k + 1] = h[k + 1]
    OBVIOUS
  <2>1. g[k + 1] = FlatStep(s, g, k + 1)
    BY DEF Flattens
  <2>2. k + 1 \in 1 .. m
    OBVIOUS
  <2>3. h[k + 1] = FlatStep(t, h, k + 1)
    BY <2>2 DEF Flattens
  <2>4. k + 1 # 1 => g[k] = h[k]
    BY <1>2
  <2> QED BY <2>1, <2>3, <2>4 DEF FlatStep
<1> HIDE DEF S
<1>3. Nat \subseteq S
  BY <1>1, <1>2, SetInduction
<1> QED BY <1>3 DEF S

LEMMA FlattenIs ==
  ASSUME NEW s, Len(s) \in Nat
  PROVE  /\ Len(s) = 0 => FlattenSeq(s) = s
         /\ Len(s) # 0 => \E g : Flattens(g, s, Len(s)) /\ FlattenSeq(s) = g[Len(s)]
<1> DEFINE f == CHOOSE g : Flattens(g, s, Len(s))
<1>1. Len(s) # 0 => FlattenSeq(s) = f[Len(s)]
  BY DEF FlattenSeq, Flattens, FlatStep
<1>2. \E g : Flattens(g, s, Len(s))
  BY FlattenExists
<1>3. Flattens(f, s, Len(s))
  BY <1>2
<1>4. Len(s) = 0 => FlattenSeq(s) = s
  BY DEF FlattenSeq
<1> HIDE DEF f
<1> QED BY <1>1, <1>3, <1>4, Zenon

LEMMA FlattenLonger ==
  ASSUME NEW s, NEW t, NEW n \in Nat, n # 0, Len(s) = n, Len(t) = n + 1,
         \A k \in 1 .. n : s[k] = t[k]
  PROVE  FlattenSeq(t) = FlattenSeq(s) \o t[n + 1]
<1>1. PICK g : Flattens(g, s, n) /\ FlattenSeq(s) = g[n]
  BY FlattenIs
<1>2. PICK h : Flattens(h, t, n + 1) /\ FlattenSeq(t) = h[n + 1]
  BY FlattenIs
<1>3. \A k \in 1 .. n : g[k] = h[k]
  <2>1. n + 1 \in Nat /\ n <= n + 1
    OBVIOUS
  <2>2. Flattens(g, s, n) /\ Flattens(h, t, n + 1)
    BY <1>1, <1>2
  <2>3. AgreeUpTo(s, t, n)
    BY DEF AgreeUpTo
  <2>4. AgreeUpTo(g, h, n)
    BY <2>1, <2>2, <2>3, FlattenAgrees
  <2> QED BY <2>4 DEF AgreeUpTo
<1>4. h[n + 1] = FlatStep(t, h, n + 1)
  <2>1. n + 1 \in 1 .. n + 1
    OBVIOUS
  <2> QED BY <1>2, <2>1 DEF Flattens
<1>5. h[n + 1] = h[n] \o t[n + 1]
  <2>1. n + 1 # 1 /\ (n + 1) - 1 = n
    OBVIOUS
  <2> QED BY <1>4, <2>1 DEF FlatStep
<1>6. g[n] = h[n]
  BY <1>3
<1> QED BY <1>1, <1>2, <1>5, <1>6

LEMMA FlattenAppend ==
  ASSUME NEW s \in Seq(Seq(Byte)), NEW x \in Seq(Byte)
  PROVE  FlattenSeq(Append(s, x)) = FlattenSeq(s) \o x
<1> DEFINE t == Append(s, x)
<1>1. /\ Len(s) \in Nat /\ Len(t) = Len(s) + 1 /\ t[Len(s) + 1] = x
      /\ \A k \in 1 .. Len(s) : s[k] = t[k]
  OBVIOUS
<1>2. CASE Len(s) # 0
  <2> HIDE DEF t
  <2>1. FlattenSeq(t) = FlattenSeq(s) \o t[Len(s) + 1]
    BY <1>1, <1>2, FlattenLonger
  <2> QED BY <1>1, <2>1 DEF t
<1>3. CASE Len(s) = 0
  <2>1. FlattenSeq(s) = <<>>
    BY <1>3, FlattenIs
  <2> HIDE DEF t
  <2>2. PICK h : Flattens(h, t, 1) /\ FlattenSeq(t) = h[1]
    <3>1. Len(t) = 1 /\ Len(t) \in Nat /\ Len(t) # 0
      BY <1>1, <1>3
    <3>2. \E h : Flattens(h, t, Len(t)) /\ FlattenSeq(t) = h[Len(t)]
      BY <3>1, FlattenIs
    <3> QED BY <3>1, <3>2
  <2>3. h[1] = x
    BY <1>1, <1>3, <2>2 DEF Flattens, FlatStep
  <2> QED BY <2>1, <2>2, <2>3, Concat DEF t
<1> QED BY <1>2, <1>3

-----------------------------------------------------------------------------
(* What is on disk: the directory left by the entries, in order.           *)

DirStep(es, d, k) ==
    IF k = 0 THEN EmptyDir ELSE Write(d[k - 1], es[k].name, es[k].data)
Extracts(d, es, n) == d = [k \in 0 .. n |-> DirStep(es, d, k)]

LEMMA ExtractExists == ASSUME NEW es PROVE \A n \in Nat : \E d : Extracts(d, es, n)
<1> DEFINE S == {n \in Nat : \E d : Extracts(d, es, n)}
<1>1. 0 \in S
  <2> DEFINE d == [k \in 0 .. 0 |-> EmptyDir]
  <2>1. \A k \in 0 .. 0 : DirStep(es, d, k) = EmptyDir
    BY DEF DirStep
  <2>2. d = [k \in 0 .. 0 |-> DirStep(es, d, k)]
    BY <2>1
  <2>3. Extracts(d, es, 0)
    BY <2>2 DEF Extracts
  <2> QED BY <2>3
<1>2. ASSUME NEW n \in Nat, n \in S PROVE n + 1 \in S
  <2>1. PICK d : Extracts(d, es, n)
    BY <1>2
  <2> DEFINE h == [k \in 0 .. n + 1 |-> IF k = n + 1 THEN DirStep(es, d, k) ELSE d[k]]
  <2>2. ASSUME NEW k \in 0 .. n + 1 PROVE h[k] = DirStep(es, h, k)
    <3>1. k # 0 => k - 1 \in 0 .. n /\ h[k - 1] = d[k - 1]
      OBVIOUS
    <3>2. DirStep(es, d, k) = DirStep(es, h, k)
      BY <3>1 DEF DirStep
    <3>3. k # n + 1 => d[k] = DirStep(es, d, k)
      BY <2>1 DEF Extracts
    <3> QED BY <3>2, <3>3
  <2>3. h = [k \in 0 .. n + 1 |-> h[k]]
    OBVIOUS
  <2> HIDE DEF h
  <2>4. Extracts(h, es, n + 1)
    BY <2>2, <2>3 DEF Extracts
  <2> QED BY <2>4
<1> HIDE DEF S
<1>3. Nat \subseteq S
  BY <1>1, <1>2, SetInduction
<1> QED BY <1>3 DEF S

LEMMA ExtractAgrees ==
  ASSUME NEW es, NEW fs, NEW m \in Nat, NEW n \in Nat, n <= m,
         \A k \in 1 .. n : es[k] = fs[k],
         NEW d, Extracts(d, es, n), NEW h, Extracts(h, fs, m)
  PROVE  \A k \in 0 .. n : d[k] = h[k]
<1> DEFINE S == {k \in Nat : k \in 0 .. n => d[k] = h[k]}
<1>1. 0 \in S
  BY DEF Extracts, DirStep
<1>2. ASSUME NEW k \in Nat, k \in S PROVE k + 1 \in S
  <2> SUFFICES ASSUME k + 1 \in 0 .. n PROVE d[k + 1] = h[k + 1]
    OBVIOUS
  <2>1. d[k + 1] = DirStep(es, d, k + 1)
    BY DEF Extracts
  <2>2. k + 1 \in 0 .. m /\ k + 1 \in 1 .. n
    OBVIOUS
  <2>3. h[k + 1] = DirStep(fs, h, k + 1)
    BY <2>2 DEF Extracts
  <2>4. d[k] = h[k] /\ es[k + 1] = fs[k + 1]
    BY <1>2, <2>2
  <2> QED BY <2>1, <2>3, <2>4 DEF DirStep
<1> HIDE DEF S
<1>3. Nat \subseteq S
  BY <1>1, <1>2, SetInduction
<1> QED BY <1>3 DEF S

LEMMA ExtractIs ==
  ASSUME NEW es, Len(es) \in Nat
  PROVE  \E d : Extracts(d, es, Len(es)) /\ Extract(es) = d[Len(es)]
<1>1. Extract(es) = (CHOOSE d : Extracts(d, es, Len(es)))[Len(es)]
  BY DEF Extract, Extracts, DirStep
<1>2. \E d : Extracts(d, es, Len(es))
  BY ExtractExists
<1>3. Extracts(CHOOSE d : Extracts(d, es, Len(es)), es, Len(es))
  BY <1>2
<1> QED BY <1>1, <1>3

LEMMA ExtractNothing == Extract(<<>>) = EmptyDir
<1>1. Len(<<>>) = 0
  OBVIOUS
<1>2. PICK d : Extracts(d, <<>>, 0) /\ Extract(<<>>) = d[0]
  BY <1>1, ExtractIs
<1> QED BY <1>2 DEF Extracts, DirStep

LEMMA ExtractAppend ==
  ASSUME NEW es \in Seq(Entry), NEW e \in Entry
  PROVE  Extract(Append(es, e)) = Write(Extract(es), e.name, e.data)
<1> DEFINE fs == Append(es, e)
           n == Len(es)
<1>1. /\ n \in Nat /\ Len(fs) = n + 1 /\ fs[n + 1] = e
      /\ \A k \in 1 .. n : es[k] = fs[k]
  OBVIOUS
<1>2. PICK d : Extracts(d, es, n) /\ Extract(es) = d[n]
  BY <1>1, ExtractIs
<1> HIDE DEF fs, n
<1>3. PICK h : Extracts(h, fs, n + 1) /\ Extract(fs) = h[n + 1]
  BY <1>1, ExtractIs
<1>4. \A k \in 0 .. n : d[k] = h[k]
  BY <1>1, <1>2, <1>3, ExtractAgrees
<1>5. h[n + 1] = Write(h[n], e.name, e.data)
  BY <1>1, <1>3 DEF Extracts, DirStep
<1> QED BY <1>1, <1>2, <1>3, <1>4, <1>5 DEF fs

FramesOf(es) == [k \in DOMAIN es |-> Frame(es[k])]

LEMMA FramesAppend ==
  ASSUME NEW es \in Seq(Entry), NEW e \in Entry
  PROVE  FlattenSeq(FramesOf(Append(es, e))) = FlattenSeq(FramesOf(es)) \o Frame(e)
<1>1. Len(es) \in Nat /\ DOMAIN es = 1 .. Len(es) /\ \A k \in 1 .. Len(es) : es[k] \in Entry
  OBVIOUS
<1>2. FramesOf(es) \in Seq(Seq(Byte)) /\ Len(FramesOf(es)) = Len(es)
  <2>1. FramesOf(es) \in [1 .. Len(es) -> Seq(Byte)]
    BY <1>1, FrameType DEF FramesOf
  <2> QED BY <1>1, <2>1
<1>3. FramesOf(Append(es, e)) = Append(FramesOf(es), Frame(e))
  <2>1. /\ DOMAIN Append(es, e) = 1 .. Len(es) + 1
        /\ \A k \in 1 .. Len(es) + 1 :
              Append(es, e)[k] = IF k = Len(es) + 1 THEN e ELSE es[k]
    BY <1>1
  <2>2. FramesOf(Append(es, e)) =
           [k \in 1 .. Len(es) + 1 |-> IF k = Len(es) + 1 THEN Frame(e) ELSE Frame(es[k])]
    BY <2>1 DEF FramesOf
  <2>3. \A k \in 1 .. Len(es) : FramesOf(es)[k] = Frame(es[k])
    BY <1>1 DEF FramesOf
  <2>4. ASSUME NEW s \in Seq(Seq(Byte)), NEW x \in Seq(Byte)
        PROVE  Append(s, x) = [k \in 1 .. Len(s) + 1 |-> IF k = Len(s) + 1 THEN x ELSE s[k]]
    <3>1. Len(s) \in Nat /\ Append(s, x) = [k \in 1 .. Len(s) + 1 |-> Append(s, x)[k]]
      <4> DEFINE t == Append(s, x)
      <4>1. t \in Seq(Seq(Byte)) /\ Len(t) = Len(s) + 1 /\ Len(s) \in Nat
        BY AppendProperties
      <4> HIDE DEF t
      <4>2. t = [k \in 1 .. Len(t) |-> t[k]]
        BY <4>1
      <4> QED BY <4>1, <4>2 DEF t
    <3>2. \A k \in 1 .. Len(s) + 1 : Append(s, x)[k] = IF k = Len(s) + 1 THEN x ELSE s[k]
      BY <3>1, AppendProperties
    <3> QED BY <3>1, <3>2
  <2>5. Append(FramesOf(es), Frame(e)) =
           [k \in 1 .. Len(es) + 1 |-> IF k = Len(es) + 1 THEN Frame(e) ELSE FramesOf(es)[k]]
    BY <1>2, <2>4, FrameType
  <2> QED BY <2>2, <2>3, <2>5
<1> QED BY <1>2, <1>3, FrameType, FlattenAppend

LEMMA PrefixOfConcat ==
  ASSUME NEW s \in Seq(Byte), NEW t \in Seq(Byte)
  PROVE  IsPrefix(s, s \o t)
<1>1. Len(s) \in Nat /\ Len(t) \in Nat /\ Len(s \o t) = Len(s) + Len(t)
      /\ s \o t \in Seq(Byte)
  BY Concat, Lengths
<1>2. SubSeq(s, 1, Len(s)) = s
  BY SubSeqFull
<1>3. SubSeq(s \o t, 1, Len(s)) = s
  <2>1. CASE Len(s) = 0
    BY <1>1, <2>1, Lengths, SubSeqEmpty
  <2>2. CASE Len(s) > 0
    <3>1. 1 \in 1 .. Len(s) /\ Len(s) \in 1 .. Len(s)
      BY <1>1, <2>2
    <3>2. SubSeq(s \o t, 1, Len(s)) = SubSeq(s, 1, Len(s))
      BY <3>1, SubSeqOfConcat1
    <3> QED BY <1>2, <3>2
  <2> QED BY <1>1, <2>1, <2>2
<1> QED BY <1>1, <1>2, <1>3 DEF IsPrefix

-----------------------------------------------------------------------------
(* Reading the buffer.                                                     *)

LEMMA ReadType ==
  ASSUME archive \in Seq(Byte), NEW p \in Nat, NEW n \in Nat, p + n <= Size
  PROVE  Bytes(p, n) \in Seq(Byte) /\ Len(Bytes(p, n)) = n
<1>1. Len(archive) \in Nat
  BY LenProperties
<1>2. \A k \in p + 1 .. p + n : archive[k] \in Byte
  BY <1>1, ElementOfSeq DEF Size
<1>3. p + n - (p + 1) + 1 = n
  OBVIOUS
<1> QED BY <1>1, <1>2, <1>3, SubSeqProperties DEF Bytes, Size

LEMMA ReadOn ==
  ASSUME archive \in Seq(Byte), NEW p \in Nat, NEW n \in Nat, p + n <= Size
  PROVE  Bytes(0, p + n) = Bytes(0, p) \o Bytes(p, n)
<1>1. Len(archive) \in Nat
  BY LenProperties
<1>2. 1 \in 1 .. Len(archive) + 1 /\ p \in 1 - 1 .. Len(archive)
      /\ p + n \in p .. Len(archive)
  BY <1>1 DEF Size
<1>3. SubSeq(archive, 1, p) \o SubSeq(archive, p + 1, p + n) = SubSeq(archive, 1, p + n)
  BY <1>2, ConcatAdjacentSubSeq
<1> QED BY <1>3 DEF Bytes

LEMMA Small == ASSUME NEW x \in Nat, NEW w \in Nat, x < w PROVE x % w = x
OBVIOUS

(* The lengths of an entry that passes the checks: nothing has wrapped     *)
(* around, for the buffer is shorter than half of what a size_t can count. *)
LEMMA FrameInside ==
  ASSUME TypeOK, Size < Word \div 2, FrameFits, DataLen < Word \div 2
  PROVE  /\ pos \in Nat /\ NameAt \in Nat /\ NameLen \in Nat /\ LenAt \in Nat
         /\ DataAt \in Nat /\ DataLen \in Nat
         /\ NameAt = pos + Width /\ LenAt = NameAt + NameLen /\ DataAt = LenAt + Width
         /\ DataAt + DataLen <= Size /\ (DataAt + DataLen) % Word = DataAt + DataLen
<1>1. /\ Word \in Nat /\ Size \in Nat /\ Width \in Nat /\ Width = 2
      /\ pos \in Nat /\ pos <= Size /\ archive \in Seq(Byte)
      /\ Size + Size < Word /\ Word > 0
  <2>1. Size \in Nat /\ pos \in 0 .. Size /\ archive \in Seq(Byte)
    BY LenProperties DEF TypeOK, Size
  <2>2. Size + Size < Word
    BY <2>1, WordNat
  <2> QED BY <2>1, <2>2, WordNat DEF Width
<1>2. Word >= 4
  <2>1. Base \in Nat /\ Base >= 2
    BY BaseAssumption
  <2>2. Base * Base >= 2 * Base
    BY <2>1
  <2> QED BY <2>1, <2>2 DEF Word
<1>3. \A p \in Nat : p <= Size => p + Width < Word
  BY <1>1, <1>2
<1>4. pos + Width <= Size
  <2>1. (pos + Width) % Word <= Size
    BY DEF FrameFits, Fits
  <2>2. pos + Width \in Nat /\ pos + Width < Word
    BY <1>1, <1>3
  <2>3. (pos + Width) % Word = pos + Width
    BY <1>1, <2>2, Small
  <2> QED BY <2>1, <2>3
<1>5. NameAt = pos + Width /\ NameAt \in Nat /\ NameLen \in Nat
  <2>1. Bytes(pos, Width) \in Seq(Byte) /\ Len(Bytes(pos, Width)) = Width
    BY <1>1, <1>4, ReadType
  <2> QED BY <1>1, <2>1, ReadLEWord DEF NameAt, NameLen
<1>6. LenAt = NameAt + NameLen /\ LenAt \in Nat /\ LenAt <= Size
  BY <1>5 DEF LenAt, FrameFits
<1>7. LenAt + Width <= Size
  <2>1. (LenAt + Width) % Word <= Size
    BY DEF FrameFits, Fits
  <2>3. LenAt + Width \in Nat /\ LenAt + Width < Word /\ Word \in Nat
    BY <1>1, <1>3, <1>6
  <2>2. (LenAt + Width) % Word = LenAt + Width
    BY <2>3, Small
  <2> QED BY <2>1, <2>2
<1>8. DataAt = LenAt + Width /\ DataAt \in Nat /\ DataAt <= Size /\ DataLen \in Nat
  <2>1. Bytes(LenAt, Width) \in Seq(Byte) /\ Len(Bytes(LenAt, Width)) = Width
    BY <1>1, <1>6, <1>7, ReadType
  <2> QED BY <1>1, <1>6, <1>7, <2>1, ReadLEWord DEF DataAt, DataLen
<1>9. DataAt + DataLen < Word
  BY <1>1, <1>8
<1>10. (DataAt + DataLen) % Word = DataAt + DataLen
  BY <1>1, <1>8, <1>9, Small
<1>11. DataAt + DataLen <= Size
  BY <1>10 DEF FrameFits, Fits
<1> QED BY <1>1, <1>5, <1>6, <1>8, <1>10, <1>11

(* The bytes from the cursor to the end of the data are the frame of the   *)
(* entry that is extracted.                                                *)
LEMMA FrameRead ==
  ASSUME TypeOK, Size < Word \div 2, FrameFits, DataLen < Word \div 2,
         NEW e, e = [name |-> Name, data |-> Data]
  PROVE  /\ e \in Entry /\ e.name = Name /\ e.data = Data
         /\ Name \in Seq(Byte) /\ Data \in Seq(Byte) /\ Len(Data) = DataLen
         /\ Bytes(0, DataAt + DataLen) = Bytes(0, pos) \o Frame(e)
<1> DEFINE f == Bytes(pos, Width)
           g == Bytes(LenAt, Width)
           h == Bytes(0, pos)
<1>1. /\ pos \in Nat /\ NameAt \in Nat /\ NameLen \in Nat /\ LenAt \in Nat
      /\ DataAt \in Nat /\ DataLen \in Nat /\ Width \in Nat
      /\ NameAt = pos + Width /\ LenAt = NameAt + NameLen /\ DataAt = LenAt + Width
      /\ DataAt + DataLen <= Size /\ Size \in Nat /\ archive \in Seq(Byte)
  BY FrameInside, WordNat, LenProperties DEF TypeOK, Size
<1>2. f \in Seq(Byte) /\ Len(f) = Width /\ g \in Seq(Byte) /\ Len(g) = Width /\ h \in Seq(Byte)
  <2>1. pos + Width <= Size /\ LenAt + Width <= Size /\ 0 + pos <= Size /\ 0 \in Nat
    BY <1>1
  <2> QED BY <1>1, <2>1, ReadType
<1>3. Name \in Seq(Byte) /\ Len(Name) = NameLen
  <2>1. NameAt + NameLen <= Size
    BY <1>1
  <2> QED BY <1>1, <2>1, ReadType DEF Name
<1>4. Data \in Seq(Byte) /\ Len(Data) = DataLen
  BY <1>1, ReadType DEF Data
<1>5. AppendLE(Len(Name)) = f /\ AppendLE(Len(Data)) = g
  BY <1>2, <1>3, <1>4, AppendReadLE DEF NameLen, DataLen
<1>6. e \in Entry /\ e.name = Name /\ e.data = Data
  BY <1>3, <1>4 DEF Entry
<1>7. Bytes(0, DataAt + DataLen) = (((h \o f) \o Name) \o g) \o Data
  <2>1. Bytes(0, pos + Width) = h \o f
    <3>1. pos + Width <= Size
      BY <1>1
    <3> QED BY <1>1, <3>1, ReadOn
  <2>2. Bytes(0, NameAt + NameLen) = Bytes(0, NameAt) \o Name
    <3>1. NameAt + NameLen <= Size
      BY <1>1
    <3> QED BY <1>1, <3>1, ReadOn DEF Name
  <2>3. Bytes(0, LenAt + Width) = Bytes(0, LenAt) \o g
    <3>1. LenAt + Width <= Size
      BY <1>1
    <3> QED BY <1>1, <3>1, ReadOn
  <2>4. Bytes(0, DataAt + DataLen) = Bytes(0, DataAt) \o Data
    BY <1>1, ReadOn DEF Data
  <2> HIDE DEF f, g, h
  <2>5. Bytes(0, NameAt) = h \o f /\ Bytes(0, LenAt) = Bytes(0, NameAt) \o Name
        /\ Bytes(0, DataAt) = Bytes(0, LenAt) \o g
    <3>1. NameAt = pos + Width /\ LenAt = NameAt + NameLen /\ DataAt = LenAt + Width
      BY <1>1
    <3> QED BY <2>1, <2>2, <2>3, <3>1, Zenon
  <2> QED BY <2>4, <2>5, Zenon
<1> HIDE DEF f, g, h
<1>8. Frame(e) = ((f \o Name) \o g) \o Data
  BY <1>5, <1>6 DEF Frame
<1>9. (((h \o f) \o Name) \o g) \o Data = h \o (((f \o Name) \o g) \o Data)
  <2>6. h \in Seq(Byte) /\ f \in Seq(Byte) /\ Name \in Seq(Byte)
    BY <1>2, <1>3
  <2>7. (h \o f) \o Name = h \o (f \o Name)
    <3>1. SameJoin(h, f, Name)
      BY <2>6, Regroup
    <3> QED BY <3>1 DEF SameJoin
  <2>1. (h \o f) \o Name = h \o (f \o Name) /\ f \o Name \in Seq(Byte)
    BY <2>6, <2>7, Concat
  <2> DEFINE fn == f \o Name
  <2> HIDE DEF fn
  <2>4. fn \in Seq(Byte)
    BY <2>1 DEF fn
  <2>8. h \in Seq(Byte) /\ fn \in Seq(Byte) /\ g \in Seq(Byte)
    BY <1>2, <2>4
  <2>9. (h \o fn) \o g = h \o (fn \o g)
    <3>1. SameJoin(h, fn, g)
      BY <2>8, Regroup
    <3> QED BY <3>1 DEF SameJoin
  <2>5. (h \o fn) \o g = h \o (fn \o g) /\ fn \o g \in Seq(Byte)
    BY <2>8, <2>9, Concat
  <2>2. (h \o (f \o Name)) \o g = h \o ((f \o Name) \o g) /\ (f \o Name) \o g \in Seq(Byte)
    BY <2>5 DEF fn
  <2>3. (h \o ((f \o Name) \o g)) \o Data = h \o (((f \o Name) \o g) \o Data)
    <3>1. SameJoin(h, (f \o Name) \o g, Data)
      BY <1>2, <1>4, <2>2, Regroup
    <3> QED BY <3>1 DEF SameJoin
  <2> QED BY <2>1, <2>2, <2>3
<1>10. Bytes(0, DataAt + DataLen) = h \o Frame(e)
  BY <1>7, <1>8, <1>9
<1> QED BY <1>3, <1>4, <1>6, <1>10 DEF h

-----------------------------------------------------------------------------
(* The inductive invariant: what is behind the cursor is the header and    *)
(* the frames of the entries, and what they leave is on disk.              *)

Consumed ==
    /\ \A m, n \in count : m = n
    /\ count = {} => /\ pos = 0 /\ i = 0 /\ entries = <<>> /\ accepted = <<>>
                     /\ disk = EmptyDir /\ outcome # "ok"
    /\ ReadsInBounds
    /\ accepted \in Seq(Byte) /\ accepted = FlattenSeq(FramesOf(entries))
    /\ Len(entries) = i /\ \A k \in 1 .. Len(entries) : ValidName(entries[k].name)
    /\ outcome = "ok" => count = {i}

Unlost == outcome # "threw" /\ ~lost => disk = Extract(entries)

BInv == TypeOK /\ Size < Word \div 2 /\ Consumed /\ Unlost

LEMMA BInit == Init => BInv
<1> SUFFICES ASSUME Init PROVE BInv
  OBVIOUS
<1>1. /\ archive \in Seq(Byte) /\ Size < Word \div 2 /\ pos = 0 /\ count = {} /\ i = 0
      /\ disk = EmptyDir /\ outcome = "running" /\ entries = <<>> /\ accepted = <<>>
      /\ lost = FALSE
  BY ResponsesAssumption DEF Init, Size
<1>2. Size \in Nat
  BY <1>1, LenProperties DEF Size
<1>3. TypeOK
  <2>1. EmptyDir \in [DOMAIN EmptyDir -> Seq(Byte)] /\ <<>> \in Seq(Entry)
    BY DEF EmptyDir
  <2>2. pos \in 0 .. Size /\ count \in SUBSET (0 .. Word - 1)
    BY <1>1, <1>2
  <2> QED BY <1>1, <2>1, <2>2 DEF TypeOK
<1>4. FramesOf(entries) = <<>> /\ FlattenSeq(<<>>) = <<>>
  <2>1. FramesOf(entries) = <<>> /\ Len(<<>>) = 0
    BY <1>1 DEF FramesOf
  <2> QED BY <2>1, FlattenIs
<1>5. Consumed
  BY <1>1, <1>4 DEF Consumed, ReadsInBounds
<1>6. Unlost
  BY <1>1, ExtractNothing DEF Unlost
<1> QED BY <1>1, <1>3, <1>5, <1>6 DEF BInv

LEMMA HeaderKeeps == ASSUME BInv, ReadHeader PROVE BInv'
<1>1. /\ TypeOK /\ Consumed /\ Unlost /\ count = {} /\ outcome = "running"
      /\ UNCHANGED <<archive, i, disk, entries, accepted, lost>>
  BY DEF BInv, ReadHeader
<1>2. Size' = Size /\ Size \in Nat /\ archive \in Seq(Byte)
  BY <1>1, LenProperties DEF Size, TypeOK
<1>3. CASE outcome' = "threw" /\ UNCHANGED <<count, pos>>
  BY <1>1, <1>2, <1>3 DEF BInv, TypeOK, Consumed, Unlost, ReadsInBounds, Bytes
<1>4. CASE /\ Size >= Len(Magic) + Width /\ Bytes(0, Len(Magic)) = Magic
           /\ count' = {ReadLE(Bytes(Len(Magic), Width))}
           /\ pos' = Len(Magic) + Width /\ UNCHANGED outcome
  <2> DEFINE f == Bytes(Len(Magic), Width)
  <2>1. Len(Magic) \in Nat /\ Width \in Nat
    BY MagicAssumption, LenProperties, WordNat
  <2>2. f \in Seq(Byte) /\ Len(f) = Width /\ Bytes(0, Len(Magic) + Width) = Magic \o f
    BY <1>2, <1>4, <2>1, ReadType, ReadOn
  <2> HIDE DEF f
  <2>3. ReadLE(f) \in 0 .. Word - 1 /\ AppendLE(ReadLE(f)) = f
    BY <2>2, ReadLEWord, AppendReadLE
  <2>4. count' = {ReadLE(f)}
    BY <1>4 DEF f
  <2>5. TypeOK'
    <3>1. pos' \in 0 .. Size'
      BY <1>2, <1>4, <2>1
    <3>2. count' \in SUBSET (0 .. Word - 1)
      BY <2>3, <2>4
    <3>3. i' = 0 /\ \A n \in count' : i' <= n
      BY <1>1, <2>3, <2>4, WordNat DEF Consumed
    <3> QED BY <1>1, <1>4, <3>1, <3>2, <3>3 DEF TypeOK
  <2>6. ReadsInBounds'
    <3>1. Bytes(0, pos)' = Magic \o f
      <4>1. Bytes(0, pos)' = Bytes(0, Len(Magic) + Width)
        BY <1>1, <1>4 DEF Bytes
      <4> QED BY <2>2, <4>1
    <3>2. accepted' = <<>> /\ (Magic \o f) \o <<>> = Magic \o f
      BY <1>1, <2>2, MagicAssumption, Concat DEF Consumed
    <3>3. \A n \in count' : n = ReadLE(f)
      BY <2>4
    <3> QED BY <2>3, <3>1, <3>2, <3>3 DEF ReadsInBounds
  <2>7. Consumed'
    <3>1. \A m, n \in count' : m = n
      BY <2>4
    <3>2. count' # {} /\ outcome' # "ok"
      BY <1>1, <1>4, <2>4
    <3>3. FramesOf(entries)' = FramesOf(entries)
      BY <1>1 DEF FramesOf
    <3> QED BY <1>1, <2>6, <3>1, <3>2, <3>3 DEF Consumed
  <2>8. Unlost'
    BY <1>1, <1>4 DEF Unlost
  <2> QED BY <1>2, <2>5, <2>7, <2>8 DEF BInv
<1>5. Size < Len(Magic) + Width \/ Size >= Len(Magic) + Width
  <2>1. Len(Magic) + Width \in Nat
    BY MagicAssumption, LenProperties, WordNat
  <2> QED BY <1>2, <2>1
<1> QED BY <1>3, <1>4, <1>5 DEF ReadHeader, HeaderFits

\* The unpacker gives up; what is on disk then is not looked at again.
LEMMA ThrowKeeps ==
  ASSUME BInv, outcome' = "threw", UNCHANGED <<archive, pos, count, i, entries, accepted, lost>>,
         disk' \in [DOMAIN disk' -> Seq(Byte)], count # {} \/ disk' = disk
  PROVE  BInv'
<1>1. Size' = Size /\ \A p, n : Bytes(p, n)' = Bytes(p, n)
  BY DEF Size, Bytes
<1>2. TypeOK'
  BY <1>1 DEF BInv, TypeOK
<1>3. Consumed' /\ Unlost'
  BY <1>1 DEF BInv, Consumed, Unlost, ReadsInBounds, FramesOf
<1> QED BY <1>1, <1>2, <1>3 DEF BInv

LEMMA DiskType ==
  ASSUME NEW dir, dir \in [DOMAIN dir -> Seq(Byte)], NEW name, NEW data \in Seq(Byte)
  PROVE  Write(dir, name, data) \in [DOMAIN Write(dir, name, data) -> Seq(Byte)]
BY DEF Write

(* The loop has taken one entry off the buffer.                            *)
LEMMA EntryKeeps ==
  ASSUME BInv, MoreEntries, FrameFits, ValidName(Name), DataLen < Word \div 2,
         NextEntry, UNCHANGED <<archive, count, outcome>>, lost' \in BOOLEAN,
         NEW data \in Seq(Byte), disk' = Write(disk, Name, data),
         lost' \/ (data = Data /\ lost' = lost)
  PROVE  BInv'
<1> DEFINE e == [name |-> Name, data |-> Data]
<1>1. TypeOK /\ Size < Word \div 2 /\ Consumed /\ Unlost
  BY DEF BInv
<1>2. /\ entries' = Append(entries, e) /\ accepted' = accepted \o Frame(e)
      /\ pos' = DataAt + DataLen /\ i' = i + 1
      /\ pos' \in Nat /\ pos' <= Size /\ Size' = Size /\ Size \in Nat
  BY <1>1, FrameInside, LenProperties DEF NextEntry, Size, TypeOK
<1>3. /\ e \in Entry /\ e.name = Name /\ e.data = Data /\ Data \in Seq(Byte)
      /\ Bytes(0, DataAt + DataLen) = Bytes(0, pos) \o Frame(e)
  BY <1>1, FrameRead
<1> HIDE DEF e
<1>4. Frame(e) \in Seq(Byte)
  BY <1>3, FrameType
<1>5. /\ entries \in Seq(Entry) /\ i \in Nat /\ Len(entries) = i
      /\ entries' \in Seq(Entry) /\ Len(entries') = i + 1 /\ entries'[i + 1] = e
      /\ \A k \in 1 .. i : entries'[k] = entries[k]
  BY <1>1, <1>2, <1>3, AppendProperties DEF TypeOK, Consumed
<1>6. PICK n : count = {n} /\ n \in 0 .. Word - 1 /\ i < n
  BY <1>1 DEF MoreEntries, Consumed, TypeOK
<1>7. TypeOK'
  <2>1. disk' \in [DOMAIN disk' -> Seq(Byte)]
    BY <1>1, DiskType DEF TypeOK
  <2>2. \A m \in count' : i' <= m
    BY <1>2, <1>5, <1>6, WordNat
  <2>3. pos' \in 0 .. Size' /\ i' \in Nat
    BY <1>2, <1>5
  <2> QED BY <1>1, <1>5, <2>1, <2>2, <2>3 DEF TypeOK
<1>8. ReadsInBounds'
  <2>1. Bytes(0, pos)' = Bytes(0, pos) \o Frame(e)
    <3>1. Bytes(0, pos)' = Bytes(0, DataAt + DataLen)
      <4> DEFINE q == DataAt + DataLen
      <4>1. pos' = q /\ archive' = archive
        BY <1>2
      <4> HIDE DEF q
      <4>2. Bytes(0, pos)' = Bytes(0, q)
        BY <4>1 DEF Bytes
      <4> QED BY <4>2 DEF q
    <3> QED BY <1>3, <3>1
  <2>2. Bytes(0, pos) = Magic \o AppendLE(n) \o accepted
    BY <1>1, <1>6 DEF Consumed, ReadsInBounds
  <2>3. Magic \o AppendLE(n) \in Seq(Byte) /\ accepted \in Seq(Byte)
    BY <1>1, <1>6, MagicAssumption, AppendLEType, Concat, WordNat DEF Consumed
  <2>4. ((Magic \o AppendLE(n)) \o accepted) \o Frame(e) = (Magic \o AppendLE(n)) \o accepted'
    <3>1. SameJoin(Magic \o AppendLE(n), accepted, Frame(e))
      BY <1>2, <1>4, <2>3, Regroup
    <3>2. ((Magic \o AppendLE(n)) \o accepted) \o Frame(e)
             = (Magic \o AppendLE(n)) \o (accepted \o Frame(e))
      BY <3>1 DEF SameJoin
    <3> QED BY <1>2, <3>2
  <2>5. count' = {n}
    BY <1>6
  <2>6. \A m \in count' : m = n
    BY <2>5
  <2>7. Bytes(0, pos)' = (Magic \o AppendLE(n)) \o accepted'
    BY <2>1, <2>2, <2>4
  <2> QED BY <2>6, <2>7 DEF ReadsInBounds
<1>9. accepted' \in Seq(Byte) /\ accepted' = FlattenSeq(FramesOf(entries'))
  BY <1>1, <1>2, <1>3, <1>4, <1>5, FramesAppend, Concat DEF Consumed
<1>10. \A k \in 1 .. Len(entries') : ValidName(entries'[k].name)
  <2>1. \A k \in 1 .. i + 1 : k \in 1 .. i \/ k = i + 1
    BY <1>5
  <2>2. \A k \in 1 .. i : ValidName(entries[k].name)
    BY <1>1, <1>5 DEF Consumed
  <2> QED BY <1>3, <1>5, <2>1, <2>2 DEF ValidName
<1>11. Consumed'
  <2>1. outcome' = "running" /\ count' = count /\ Len(entries') = i'
    BY <1>2, <1>5 DEF MoreEntries
  <2>2. FramesOf(entries)' = FramesOf(entries')
    BY DEF FramesOf
  <2> QED BY <1>6, <1>8, <1>9, <1>10, <2>1, <2>2 DEF Consumed
<1>12. Unlost'
  <2> SUFFICES ASSUME ~lost' PROVE disk' = Extract(entries')
    BY DEF Unlost
  <2>1. data = Data /\ ~lost /\ outcome = "running"
    BY DEF MoreEntries
  <2>2. disk = Extract(entries)
    BY <1>1, <2>1 DEF Unlost
  <2> QED BY <1>2, <1>3, <1>5, <2>1, <2>2, ExtractAppend
<1> QED BY <1>1, <1>2, <1>7, <1>11, <1>12 DEF BInv

LEMMA BNext == BInv /\ [Next]_vars => BInv'
<1> SUFFICES ASSUME BInv, [Next]_vars PROVE BInv'
  OBVIOUS
<1>1. TypeOK /\ Size < Word \div 2
  BY DEF BInv
<1>2. ASSUME FrameFits, DataLen < Word \div 2, NEW n \in 0 .. DataLen
      PROVE  Bytes(DataAt, n) \in Seq(Byte)
  <2>1. DataAt \in Nat /\ DataLen \in Nat /\ DataAt + DataLen <= Size /\ Size \in Nat
    BY <1>1, <1>2, FrameInside, LenProperties DEF TypeOK, Size
  <2>2. n \in Nat /\ DataAt + n <= Size /\ archive \in Seq(Byte)
    BY <1>1, <2>1 DEF TypeOK
  <2> QED BY <2>1, <2>2, ReadType
<1>3. CASE DirFails \/ RefuseEntry
  BY <1>1, <1>3, ThrowKeeps DEF DirFails, RefuseEntry, TypeOK
<1>4. CASE ExtractEntry
  <2>1. Data \in Seq(Byte)
    BY <1>1, <1>4, FrameRead DEF ExtractEntry, EntryFits
  <2>2. lost' = lost /\ lost \in BOOLEAN
    BY <1>1, <1>4 DEF ExtractEntry, TypeOK
  <2> QED BY <1>4, <2>1, <2>2, EntryKeeps DEF ExtractEntry, EntryFits
<1>5. CASE FlushFails
  <2>1. FrameFits /\ DataLen < Word \div 2 /\ DataLen \in Nat
    BY <1>1, <1>5, FrameInside DEF FlushFails, EntryFits
  <2>2. PICK n \in 0 .. DataLen - 1 : disk' = Write(disk, Name, Bytes(DataAt, n))
    BY <1>5 DEF FlushFails
  <2>3. Bytes(DataAt, n) \in Seq(Byte)
    BY <1>2, <2>1
  <2> QED BY <1>5, <2>2, <2>3, EntryKeeps DEF FlushFails, EntryFits
<1>6. CASE WriteWrapped
  <2>1. disk' \in [DOMAIN disk' -> Seq(Byte)]
    BY <1>1, <1>6, DiskType, Lengths DEF WriteWrapped, TypeOK
  <2> QED BY <1>6, <2>1, ThrowKeeps DEF WriteWrapped, MoreEntries
<1>7. CASE DiskFails
  <2>1. FrameFits /\ DataLen < Word \div 2 /\ count # {}
    BY <1>7 DEF DiskFails, EntryFits, MoreEntries
  <2>2. CASE disk' = disk
    BY <1>1, <1>7, <2>2, ThrowKeeps DEF DiskFails, TypeOK
  <2>3. ASSUME NEW n \in 0 .. DataLen, disk' = Write(disk, Name, Bytes(DataAt, n)) PROVE BInv'
    <3>1. disk' \in [DOMAIN disk' -> Seq(Byte)]
      BY <1>1, <1>2, <2>1, <2>3, DiskType DEF TypeOK
    <3> QED BY <1>7, <2>1, <3>1, ThrowKeeps DEF DiskFails
  <2> QED BY <1>7, <2>2, <2>3 DEF DiskFails
<1>8. CASE Return
  <2>1. Size' = Size /\ \A p, n : Bytes(p, n)' = Bytes(p, n)
    BY <1>8 DEF Return, Size, Bytes
  <2>2. TypeOK'
    BY <1>1, <1>8, <2>1 DEF Return, TypeOK
  <2>3. Consumed' /\ Unlost'
    BY <1>8, <2>1 DEF Return, BInv, Consumed, Unlost, ReadsInBounds, FramesOf
  <2> QED BY <1>1, <2>1, <2>2, <2>3 DEF BInv
<1>9. CASE UNCHANGED vars
  <2>1. Size' = Size /\ \A p, n : Bytes(p, n)' = Bytes(p, n)
    BY <1>9 DEF vars, Size, Bytes
  <2>2. TypeOK'
    BY <1>1, <1>9, <2>1 DEF vars, TypeOK
  <2>3. Consumed' /\ Unlost'
    BY <1>9, <2>1 DEF vars, BInv, Consumed, Unlost, ReadsInBounds, FramesOf
  <2> QED BY <1>1, <2>1, <2>2, <2>3 DEF BInv
<1> QED BY <1>3, <1>4, <1>5, <1>6, <1>7, <1>8, <1>9, HeaderKeeps DEF Next

LEMMA BufferedInvariance == Spec => []BInv
BY BInit, BNext, PTL DEF Spec

(* The cursor stays in the buffer although its arithmetic wraps around,    *)
(* and the loop never counts past the header's count.                      *)
THEOREM BufferedTyped == Spec => []TypeOK
<1>1. BInv => TypeOK
  BY DEF BInv
<1> QED BY <1>1, BufferedInvariance, PTL

(* What is consumed of the buffer is the header and the frames of the      *)
(* entries extracted: a sum that wrapped around never gets that far.       *)
THEOREM NeverReadsOutside == Spec => []ReadsInBounds
<1>1. BInv => ReadsInBounds
  BY DEF BInv, Consumed
<1> QED BY <1>1, BufferedInvariance, PTL

(* Success means that the response began with the archive of acceptable    *)
(* entries and that these are on disk, unless a flush was lost.            *)
THEOREM InvertsPack == Spec => []ReverseOfPack
<1>1. BInv => ReverseOfPack
  <2> SUFFICES ASSUME BInv, outcome = "ok" PROVE ReverseOfPack
    BY DEF ReverseOfPack
  <2>1. count = {i} /\ Len(entries) = i /\ count = {Len(entries)}
    BY DEF BInv, Consumed
  <2>2. Bytes(0, pos) = Pack(entries)
    BY <2>1 DEF BInv, Consumed, ReadsInBounds, FramesOf, Pack
  <2>3. IsPrefix(Pack(entries), archive)
    <3>1. archive \in Seq(Byte) /\ pos \in 0 .. Len(archive) /\ Len(archive) \in Nat
      BY LenProperties DEF BInv, TypeOK, Size
    <3>2. Bytes(0, pos) \in Seq(Byte) /\ Len(Bytes(0, pos)) = pos
      BY <3>1, ReadType DEF Size
    <3>3. SubSeq(archive, 1, pos) = Bytes(0, pos)
      BY <3>1 DEF Bytes
    <3> QED BY <2>2, <3>1, <3>2, <3>3 DEF IsPrefix
  <2>4. \A k \in DOMAIN entries : ValidName(entries[k].name)
    <3>1. DOMAIN entries = 1 .. Len(entries)
      BY DEF BInv, TypeOK
    <3> QED BY <3>1 DEF BInv, Consumed
  <2>5. ~lost => disk = Extract(entries)
    BY DEF BInv, Unlost
  <2> QED BY <2>1, <2>3, <2>4, <2>5 DEF ReverseOfPack
<1> QED BY <1>1, BufferedInvariance, PTL

-----------------------------------------------------------------------------
(* Where the archive of a list of entries has what.                        *)

(* A field that is written is read back.                                   *)
LEMMA ReadAppendLE ==
  ASSUME NEW v \in 0 .. Word - 1
  PROVE  ReadLE(AppendLE(v)) = v
<1> DEFINE q == v \div Base
<1>1. q \in Nat /\ v % Base \in 0 .. Base - 1 /\ v = Base * q + (v % Base)
  BY BaseAssumption, WordNat
<1>2. q < Base
  <2> SUFFICES ASSUME q >= Base PROVE FALSE
    BY <1>1, BaseAssumption
  <2>1. Base * q >= Base * Base
    BY <1>1, BaseAssumption
  <2> QED BY <1>1, <2>1, BaseAssumption DEF Word
<1>3. q % Base = q
  BY <1>1, <1>2, BaseAssumption
<1>4. AppendLE(v) = <<v % Base, q>>
  BY <1>3 DEF AppendLE
<1> HIDE DEF q
<1> QED BY <1>1, <1>4, BaseAssumption DEF ReadLE

First(l, n) == SubSeq(l, 1, n)
Wire(l) == FlattenSeq(FramesOf(l))

LEMMA FirstOf ==
  ASSUME NEW l \in Seq(Entry), NEW n \in 0 .. Len(l)
  PROVE  /\ First(l, n) \in Seq(Entry) /\ Len(First(l, n)) = n
         /\ \A k \in 1 .. n : First(l, n)[k] = l[k]
         /\ First(l, 0) = <<>> /\ First(l, Len(l)) = l
         /\ n < Len(l) => First(l, n + 1) = Append(First(l, n), l[n + 1])
<1>1. Len(l) \in Nat /\ l = [k \in 1 .. Len(l) |-> l[k]] /\ \A k \in 1 .. Len(l) : l[k] \in Entry
  OBVIOUS
<1>2. \A m \in 0 .. Len(l) : First(l, m) = [k \in 1 .. m |-> l[k]]
  BY <1>1 DEF First
<1>3. First(l, n) \in Seq(Entry) /\ Len(First(l, n)) = n /\ \A k \in 1 .. n : First(l, n)[k] = l[k]
  <2>1. First(l, n) = [k \in 1 .. n |-> l[k]] /\ n \in Nat /\ \A k \in 1 .. n : l[k] \in Entry
    BY <1>1, <1>2
  <2> QED BY <2>1
<1>4. First(l, 0) = <<>> /\ First(l, Len(l)) = l
  <2>1. First(l, 0) = [k \in 1 .. 0 |-> l[k]] /\ First(l, Len(l)) = [k \in 1 .. Len(l) |-> l[k]]
    BY <1>1, <1>2
  <2> QED BY <1>1, <2>1
<1>5. ASSUME n < Len(l) PROVE First(l, n + 1) = Append(First(l, n), l[n + 1])
  <2>1. n + 1 \in 0 .. Len(l) /\ l[n + 1] \in Entry
    BY <1>1, <1>5
  <2>2. First(l, n + 1) = [k \in 1 .. n + 1 |-> l[k]]
    BY <1>2, <2>1
  <2>3. First(l, n + 1) \in Seq(Entry) /\ Append(First(l, n), l[n + 1]) \in Seq(Entry)
    BY <1>1, <1>3, <2>1, <2>2
  <2>4. Len(First(l, n + 1)) = n + 1 /\ Len(Append(First(l, n), l[n + 1])) = n + 1
    BY <1>3, <2>1, <2>2
  <2>5. \A k \in 1 .. n + 1 : First(l, n + 1)[k] = Append(First(l, n), l[n + 1])[k]
    BY <1>3, <2>1, <2>2
  <2> QED BY <2>3, <2>4, <2>5, SeqEqual
<1> QED BY <1>3, <1>4, <1>5

LEMMA WireAppend ==
  ASSUME NEW l \in Seq(Entry), NEW n \in Nat, n < Len(l)
  PROVE  l[n + 1] \in Entry /\ Wire(First(l, n + 1)) = Wire(First(l, n)) \o Frame(l[n + 1])
<1>1. n \in 0 .. Len(l) /\ n + 1 \in 1 .. Len(l) /\ l[n + 1] \in Entry
  OBVIOUS
<1>2. First(l, n) \in Seq(Entry) /\ First(l, n + 1) = Append(First(l, n), l[n + 1])
  BY <1>1, FirstOf
<1> QED BY <1>1, <1>2, FramesAppend DEF Wire

LEMMA WireType ==
  ASSUME NEW l \in Seq(Entry)
  PROVE  \A n \in 0 .. Len(l) : Wire(First(l, n)) \in Seq(Byte)
<1> DEFINE S == {n \in Nat : n <= Len(l) => Wire(First(l, n)) \in Seq(Byte)}
<1>1. 0 \in S
  <2>1. First(l, 0) = <<>>
    BY FirstOf
  <2>2. FramesOf(<<>>) = <<>> /\ Len(<<>>) = 0
    BY DEF FramesOf
  <2>3. FlattenSeq(<<>>) = <<>>
    BY <2>2, FlattenIs
  <2> QED BY <2>1, <2>2, <2>3, Lengths DEF Wire
<1>2. ASSUME NEW n \in Nat, n \in S PROVE n + 1 \in S
  <2> SUFFICES ASSUME n + 1 <= Len(l) PROVE Wire(First(l, n + 1)) \in Seq(Byte)
    OBVIOUS
  <2>1. n < Len(l) /\ Wire(First(l, n)) \in Seq(Byte)
    BY <1>2
  <2>2. /\ l[n + 1] \in Entry
        /\ Wire(First(l, n + 1)) = Wire(First(l, n)) \o Frame(l[n + 1])
    BY <2>1, WireAppend
  <2>3. Frame(l[n + 1]) \in Seq(Byte)
    BY <2>2, FrameType
  <2>4. Wire(First(l, n)) \o Frame(l[n + 1]) \in Seq(Byte)
    BY <2>1, <2>3, Concat
  <2> QED BY <2>2, <2>4
<1> HIDE DEF S
<1>3. Nat \subseteq S
  BY <1>1, <1>2, SetInduction
<1> QED BY <1>3 DEF S

LEMMA WireSplits ==
  ASSUME NEW l \in Seq(Entry), NEW n \in 0 .. Len(l)
  PROVE  \E r \in Seq(Byte) : Wire(l) = Wire(First(l, n)) \o r
<1> DEFINE Splits(m) == \E r \in Seq(Byte) : Wire(First(l, n + m)) = Wire(First(l, n)) \o r
           S == {m \in Nat : n + m <= Len(l) => Splits(m)}
<1>1. 0 \in S
  <2>1. Wire(First(l, n)) = Wire(First(l, n)) \o <<>> /\ n + 0 = n
    BY WireType, Concat
  <2>2. Splits(0)
    BY <2>1, Lengths
  <2> QED BY <2>2
<1>2. ASSUME NEW m \in Nat, m \in S PROVE m + 1 \in S
  <2> SUFFICES ASSUME n + m + 1 <= Len(l) PROVE Splits(m + 1)
    OBVIOUS
  <2>1. PICK r \in Seq(Byte) : Wire(First(l, n + m)) = Wire(First(l, n)) \o r
    BY <1>2
  <2>2. /\ l[n + m + 1] \in Entry
        /\ Wire(First(l, n + m + 1)) = Wire(First(l, n + m)) \o Frame(l[n + m + 1])
    BY WireAppend
  <2>3. Frame(l[n + m + 1]) \in Seq(Byte) /\ Wire(First(l, n)) \in Seq(Byte)
    BY <2>2, FrameType, WireType
  <2>4. Wire(First(l, n + m + 1)) = Wire(First(l, n)) \o (r \o Frame(l[n + m + 1]))
    <3>1. (Wire(First(l, n)) \o r) \o Frame(l[n + m + 1])
             = Wire(First(l, n)) \o (r \o Frame(l[n + m + 1]))
      <4>1. SameJoin(Wire(First(l, n)), r, Frame(l[n + m + 1]))
        BY <2>3, Regroup
      <4> QED BY <4>1 DEF SameJoin
    <3> QED BY <2>1, <2>2, <3>1
  <2>5. n + (m + 1) = n + m + 1 /\ r \o Frame(l[n + m + 1]) \in Seq(Byte)
    BY <2>3, Concat
  <2> QED BY <2>4, <2>5
<1> HIDE DEF S
<1>3. Nat \subseteq S
  BY <1>1, <1>2, SetInduction
<1>4. Len(l) - n \in S /\ n + (Len(l) - n) = Len(l)
  <2>1. Len(l) - n \in Nat
    OBVIOUS
  <2> QED BY <1>3, <2>1
<1>5. Splits(Len(l) - n)
  <2>1. ASSUME NEW m \in S, n + m <= Len(l) PROVE Splits(m)
    BY <2>1 DEF S
  <2> HIDE DEF Splits
  <2> QED BY <1>4, <2>1
<1>6. First(l, Len(l)) = l
  BY FirstOf
<1> QED BY <1>4, <1>5, <1>6

Header(n) == Magic \o AppendLE(n)

(* The archive of l, seen from behind its first n entries.                 *)
LEMMA PackNext ==
  ASSUME NEW l \in Seq(Entry), NEW n \in 0 .. Len(l)
  PROVE  /\ Header(Len(l)) \in Seq(Byte) /\ Wire(First(l, n)) \in Seq(Byte)
         /\ n = Len(l) => Pack(l) = Header(n) \o Wire(First(l, n))
         /\ n < Len(l) =>
               /\ l[n + 1] \in Entry
               /\ \E r \in Seq(Byte) :
                     Pack(l) = (Header(Len(l)) \o Wire(First(l, n))) \o (Frame(l[n + 1]) \o r)
<1>1. Len(l) \in Nat /\ Magic \in Seq(Byte) /\ AppendLE(Len(l)) \in Seq(Byte)
  BY MagicAssumption, AppendLEType
<1>2. Header(Len(l)) \in Seq(Byte) /\ Wire(First(l, n)) \in Seq(Byte)
  BY <1>1, Concat, WireType DEF Header
<1>3. Pack(l) = Header(Len(l)) \o Wire(l)
  BY DEF Pack, Header, Wire, FramesOf
<1>4. ASSUME n = Len(l) PROVE Pack(l) = Header(n) \o Wire(First(l, n))
  BY <1>3, <1>4, FirstOf
<1>5. ASSUME n < Len(l)
      PROVE  /\ l[n + 1] \in Entry
             /\ \E r \in Seq(Byte) :
                   Pack(l) = (Header(Len(l)) \o Wire(First(l, n))) \o (Frame(l[n + 1]) \o r)
  <2>1. n + 1 \in 0 .. Len(l)
    BY <1>5
  <2>2. PICK r \in Seq(Byte) : Wire(l) = Wire(First(l, n + 1)) \o r
    BY <2>1, WireSplits
  <2>3. l[n + 1] \in Entry /\ Wire(First(l, n + 1)) = Wire(First(l, n)) \o Frame(l[n + 1])
    BY <1>5, WireAppend
  <2>4. Frame(l[n + 1]) \in Seq(Byte)
    BY <2>3, FrameType
  <2>5. Wire(l) = Wire(First(l, n)) \o (Frame(l[n + 1]) \o r)
    <3>1. (Wire(First(l, n)) \o Frame(l[n + 1])) \o r = Wire(First(l, n)) \o (Frame(l[n + 1]) \o r)
      <4>1. SameJoin(Wire(First(l, n)), Frame(l[n + 1]), r)
        BY <1>2, <2>4, Regroup
      <4> QED BY <4>1 DEF SameJoin
    <3> QED BY <2>2, <2>3, <3>1
  <2>6. Frame(l[n + 1]) \o r \in Seq(Byte)
    BY <2>4, Concat
  <2>7. Pack(l) = (Header(Len(l)) \o Wire(First(l, n))) \o (Frame(l[n + 1]) \o r)
    <3>1. (Header(Len(l)) \o Wire(First(l, n))) \o (Frame(l[n + 1]) \o r)
             = Header(Len(l)) \o (Wire(First(l, n)) \o (Frame(l[n + 1]) \o r))
      <4>1. SameJoin(Header(Len(l)), Wire(First(l, n)), Frame(l[n + 1]) \o r)
        BY <1>2, <2>6, Regroup
      <4> QED BY <4>1 DEF SameJoin
    <3> QED BY <1>3, <2>5, <3>1
  <2> QED BY <2>3, <2>7
<1> QED BY <1>2, <1>4, <1>5

LEMMA Listed ==
  ASSUME NEW l \in Lists
  PROVE  /\ l \in Seq(Entry) /\ Len(l) \in 0 .. Word - 1
         /\ \A k \in 1 .. Len(l) :
               /\ l[k] \in Entry /\ ValidName(l[k].name)
               /\ l[k].name \in Seq(Byte) /\ l[k].data \in Seq(Byte)
               /\ Len(l[k].name) \in 1 .. MaxNameLen /\ Len(l[k].name) \in 0 .. Word - 1
               /\ Len(l[k].data) \in 0 .. Word - 1
<1>1. /\ l \in Seq(Entry) /\ Len(l) < Word
      /\ \A k \in DOMAIN l : /\ ValidName(l[k].name) /\ Len(l[k].name) \in 1 .. MaxNameLen
                             /\ Len(l[k].data) < Word
  BY ListsAssumption
<1>2. Len(l) \in Nat /\ DOMAIN l = 1 .. Len(l) /\ \A k \in 1 .. Len(l) : l[k] \in Entry
  BY <1>1
<1>3. ASSUME NEW k \in 1 .. Len(l)
      PROVE  l[k].name \in Seq(Byte) /\ l[k].data \in Seq(Byte)
  BY <1>2 DEF Entry
<1> QED BY <1>1, <1>2, <1>3, Lengths, WordNat, NameAssumption

(* A frame is four fields.                                                 *)
LEMMA FrameFields ==
  ASSUME NEW e \in Entry, NEW r \in Seq(Byte)
  PROVE  LET N == AppendLE(Len(e.name))
             D == AppendLE(Len(e.data))
         IN  /\ N \in Seq(Byte) /\ Len(N) = Width /\ D \in Seq(Byte) /\ Len(D) = Width
             /\ e.name \in Seq(Byte) /\ e.data \in Seq(Byte)
             /\ e.data \o r \in Seq(Byte) /\ D \o (e.data \o r) \in Seq(Byte)
             /\ e.name \o (D \o (e.data \o r)) \in Seq(Byte)
             /\ Frame(e) \o r = N \o (e.name \o (D \o (e.data \o r)))
<1> DEFINE N == AppendLE(Len(e.name))
           D == AppendLE(Len(e.data))
           name == e.name
           data == e.data
           P == (N \o name) \o D
           dr == data \o r
<1>1. name \in Seq(Byte) /\ data \in Seq(Byte)
  BY DEF Entry
<1>2. N \in Seq(Byte) /\ Len(N) = Width /\ D \in Seq(Byte) /\ Len(D) = Width
  BY <1>1, Lengths, AppendLEType
<1>3. Frame(e) = P \o data
  BY DEF Frame
<1> HIDE DEF N, D, name, data
<1>4. /\ dr \in Seq(Byte) /\ D \o dr \in Seq(Byte)
      /\ name \o (D \o dr) \in Seq(Byte)
      /\ P \in Seq(Byte)
  BY <1>1, <1>2, Concat
<1>5. (P \o data) \o r = P \o dr
  <2>1. P \in Seq(Byte) /\ data \in Seq(Byte) /\ r \in Seq(Byte)
    BY <1>1, <1>4
  <2> HIDE DEF P
  <2>2. (P \o data) \o r = P \o (data \o r)
    <3>1. SameJoin(P, data, r)
      BY <2>1, Regroup
    <3> QED BY <3>1 DEF SameJoin
  <2> QED BY <2>2
<1>6. P \o dr = N \o (name \o (D \o dr))
  <2> HIDE DEF dr
  <2> DEFINE xy == N \o name
             zw == D \o dr
  <2>1. xy \in Seq(Byte) /\ zw \in Seq(Byte) /\ N \in Seq(Byte) /\ name \in Seq(Byte)
        /\ D \in Seq(Byte) /\ dr \in Seq(Byte)
    BY <1>1, <1>2, <1>4, Concat
  <2>2. xy \o zw = N \o (name \o zw)
    <3> HIDE DEF zw
    <3>1. N \in Seq(Byte) /\ name \in Seq(Byte) /\ zw \in Seq(Byte)
      BY <2>1
    <3>9. SameJoin(N, name, zw)
      BY <3>1, Regroup
    <3> QED BY <3>9 DEF SameJoin
  <2>3. (xy \o D) \o dr = xy \o zw
    <3> HIDE DEF xy
    <3>1. xy \in Seq(Byte) /\ D \in Seq(Byte) /\ dr \in Seq(Byte)
      BY <2>1
    <3>9. SameJoin(xy, D, dr)
      BY <3>1, Regroup
    <3> QED BY <3>9 DEF SameJoin
  <2> QED BY <2>2, <2>3
<1> QED BY <1>1, <1>2, <1>3, <1>4, <1>5, <1>6 DEF N, D, name, data

\* The bytes of a buffer behind a known beginning.
LEMMA Located ==
  ASSUME NEW a \in Seq(Byte), NEW x \in Seq(Byte), NEW y \in Seq(Byte),
         archive = a \o (x \o y)
  PROVE  Len(a) + Len(x) <= Size /\ Bytes(Len(a), Len(x)) = x
<1> DEFINE xy == x \o y
<1>1. Len(a) \in Nat /\ Len(x) \in Nat /\ Len(y) \in Nat /\ xy \in Seq(Byte)
      /\ Len(xy) = Len(x) + Len(y)
  BY Lengths, Concat
<1>2. archive = a \o xy /\ archive \in Seq(Byte) /\ Len(archive) = Len(a) + (Len(x) + Len(y))
  <2> HIDE DEF xy
  <2> QED BY <1>1, Concat DEF xy
<1>3. Len(a) + Len(x) <= Size
  BY <1>1, <1>2 DEF Size
<1>4. Bytes(Len(a), Len(x)) \in Seq(Byte) /\ Len(Bytes(Len(a), Len(x))) = Len(x)
  BY <1>1, <1>2, <1>3, ReadType
<1>5. ASSUME NEW k \in 1 .. Len(x) PROVE Bytes(Len(a), Len(x))[k] = x[k]
  <2> DEFINE p == Len(a) + k
  <2>1. p \in 1 .. Len(archive) /\ p > Len(a) /\ p - Len(a) = k /\ p \in 1 .. Len(a) + Len(xy)
    BY <1>1, <1>2
  <2>2. archive[p] = xy[k]
    <3> HIDE DEF xy, p
    <3> QED BY <1>1, <1>2, <2>1, ConcatProperties
  <2>3. xy[k] = x[k]
    BY <1>1, ConcatProperties
  <2>4. Bytes(Len(a), Len(x))[k] = archive[p]
    <3>1. k \in 1 .. ((Len(a) + Len(x)) - (Len(a) + 1)) + 1 /\ (Len(a) + 1) + k - 1 = p
      BY <1>1
    <3>2. \A j \in Len(a) + 1 .. Len(a) + Len(x) : archive[j] \in Byte
      BY <1>1, <1>2, ElementOfSeq
    <3> QED BY <1>1, <3>1, <3>2, SubSeqProperties DEF Bytes
  <2> QED BY <2>2, <2>3, <2>4
<1> QED BY <1>1, <1>3, <1>4, <1>5, SeqEqual

(* A field of n bytes inside the buffer passes the check: its end is not   *)
(* near the point where the sum wraps around.                              *)
LEMMA InsideFits ==
  ASSUME Size \in Nat, Size < Word \div 2, NEW p \in Nat, NEW n \in Nat, p + n <= Size
  PROVE  Fits(p, n) /\ (p + n) % Word = p + n /\ n < Word \div 2
<1>1. p + n < Word /\ n < Word \div 2
  BY WordNat
<1>2. (p + n) % Word = p + n
  BY <1>1, WordNat, Small
<1> QED BY <1>1, <1>2 DEF Fits

\* What unpack_into() is to find at its cursor.
Archived(l) ==
    archive = Pack(l) /\ (count # {} => count = {Len(l)} /\ entries = First(l, Len(entries)))

LEMMA HeaderFound ==
  ASSUME TypeOK, NEW l \in Lists, archive = Pack(l)
  PROVE  HeaderFits /\ ReadLE(Bytes(Len(Magic), Width)) = Len(l)
<1> DEFINE c == AppendLE(Len(l))
           w == Wire(First(l, Len(l)))
<1>1. l \in Seq(Entry) /\ Len(l) \in 0 .. Word - 1 /\ Len(l) \in Nat /\ Len(l) \in 0 .. Len(l)
  BY Listed
<1>2. /\ Magic \in Seq(Byte) /\ <<>> \in Seq(Byte) /\ Len(<<>>) = 0 /\ c \in Seq(Byte)
      /\ Len(c) = Width /\ w \in Seq(Byte) /\ Pack(l) = (Magic \o c) \o w
  <2>1. Wire(First(l, Len(l))) \in Seq(Byte) /\ Pack(l) = Header(Len(l)) \o Wire(First(l, Len(l)))
    BY <1>1, PackNext
  <2> QED BY <1>1, <2>1, MagicAssumption, Lengths, AppendLEType DEF Header
<1> HIDE DEF c, w
<1>3. archive = Magic \o (c \o w) /\ c \o w \in Seq(Byte)
  <2>1. SameJoin(Magic, c, w)
    BY <1>2, Regroup
  <2>2. Pack(l) = Magic \o (c \o w)
    BY <1>2, <2>1 DEF SameJoin
  <2>3. c \o w \in Seq(Byte)
    BY <1>2, Concat
  <2> QED BY <2>2, <2>3 DEF Archived
<1>4. Len(Magic) + Len(c) <= Size /\ Bytes(Len(Magic), Len(c)) = c
  BY <1>2, <1>3, Located
<1>5. Bytes(0, Len(Magic)) = Magic
  <2> DEFINE v == c \o w
  <2> HIDE DEF v
  <2>1. v \in Seq(Byte) /\ archive = Magic \o v
    BY <1>3 DEF v
  <2>2. Magic \o v \in Seq(Byte)
    BY <1>2, <2>1, Concat
  <2>3. archive = <<>> \o (Magic \o v)
    BY <2>1, <2>2, Concat
  <2> QED BY <1>2, <2>1, <2>3, Located
<1>6. ReadLE(c) = Len(l)
  BY <1>1, ReadAppendLE DEF c
<1> QED BY <1>2, <1>4, <1>5, <1>6 DEF HeaderFits

LEMMA EntryFound ==
  ASSUME BInv, MoreEntries, NEW l \in Lists, Archived(l)
  PROVE  /\ EntryFits
         /\ Len(entries) < Len(l)
         /\ l[Len(entries) + 1] = [name |-> Name, data |-> Data]
<1> DEFINE n == Len(entries)
           f == l[n + 1]
           A == Header(Len(l)) \o Wire(First(l, n))
           N == AppendLE(Len(f.name))
           D == AppendLE(Len(f.data))
           name == f.name
           data == f.data
<1>1. /\ TypeOK /\ Consumed /\ Size < Word \div 2 /\ archive \in Seq(Byte) /\ pos \in 0 .. Size
      /\ Size \in Nat /\ Width \in Nat
  BY LenProperties, WordNat DEF BInv, TypeOK, Size
<1>2. /\ l \in Seq(Entry) /\ Len(l) \in Nat /\ n \in Nat /\ n < Len(l) /\ entries = First(l, n)
      /\ count = {Len(l)}
  BY <1>1, Listed DEF Archived, MoreEntries, TypeOK, Consumed
<1>3. n \in 0 .. Len(l) /\ n + 1 \in 1 .. Len(l)
  BY <1>2
<1>4. /\ ValidName(name) /\ Len(name) \in Nat /\ Len(name) \in 0 .. Word - 1
      /\ Len(data) \in Nat /\ Len(data) \in 0 .. Word - 1 /\ f \in Entry
  BY <1>3, Listed
<1>5. Bytes(0, pos) = A
  <2>1. Bytes(0, pos) = Magic \o AppendLE(Len(l)) \o accepted
    BY <1>1, <1>2 DEF Consumed, ReadsInBounds
  <2>2. accepted = Wire(First(l, n))
    BY <1>1, <1>2 DEF Consumed, Wire
  <2> QED BY <2>1, <2>2 DEF Header
<1>6. /\ Header(Len(l)) \in Seq(Byte) /\ Wire(First(l, n)) \in Seq(Byte)
      /\ \E r \in Seq(Byte) : Pack(l) = A \o (Frame(f) \o r)
  BY <1>2, <1>3, PackNext
<1>7. A \in Seq(Byte) /\ Len(A) = pos /\ pos \in Nat
  <2>1. pos \in Nat /\ 0 \in Nat /\ 0 + pos <= Size
    BY <1>1
  <2>2. Bytes(0, pos) \in Seq(Byte) /\ Len(Bytes(0, pos)) = pos
    BY <1>1, <2>1, ReadType
  <2> HIDE DEF A
  <2> QED BY <1>5, <2>1, <2>2
<1>8. PICK r \in Seq(Byte) : archive = A \o (Frame(f) \o r)
  BY <1>6 DEF Archived
<1> DEFINE u == data \o r
           v == D \o u
           w == name \o v
<1>9. /\ N \in Seq(Byte) /\ Len(N) = Width /\ D \in Seq(Byte) /\ Len(D) = Width
      /\ name \in Seq(Byte) /\ data \in Seq(Byte) /\ u \in Seq(Byte) /\ v \in Seq(Byte)
      /\ w \in Seq(Byte) /\ Frame(f) \o r = N \o w
  <2> HIDE DEF f
  <2> QED BY <1>4, FrameFields
<1>10. ReadLE(N) = Len(name) /\ ReadLE(D) = Len(data)
  BY <1>4, ReadAppendLE
<1> DEFINE AN == A \o N
           ANn == AN \o name
           ANnD == ANn \o D
<1> HIDE DEF n, f, A, N, D, name, data
<1>11. /\ AN \in Seq(Byte) /\ Len(AN) = pos + Width
       /\ ANn \in Seq(Byte) /\ Len(ANn) = pos + Width + Len(name)
       /\ ANnD \in Seq(Byte) /\ Len(ANnD) = pos + Width + Len(name) + Width
  <2>1. AN \in Seq(Byte) /\ Len(AN) = pos + Width
    <3>1. A \in Seq(Byte) /\ N \in Seq(Byte) /\ Len(A) = pos /\ Len(N) = Width
      BY <1>7, <1>9
    <3> QED BY <3>1, Concat
  <2> HIDE DEF AN
  <2>2. ANn \in Seq(Byte) /\ Len(ANn) = pos + Width + Len(name)
    <3>1. name \in Seq(Byte)
      BY <1>9
    <3> QED BY <2>1, <3>1, Concat
  <2> HIDE DEF ANn
  <2>3. ANnD \in Seq(Byte) /\ Len(ANnD) = pos + Width + Len(name) + Width
    <3>1. D \in Seq(Byte) /\ Len(D) = Width
      BY <1>9
    <3> QED BY <2>2, <3>1, Concat
  <2> QED BY <2>1, <2>2, <2>3
<1>12. archive = A \o (N \o w)
  BY <1>8, <1>9
<1>13. archive = AN \o (name \o v)
  <2>1. A \in Seq(Byte) /\ N \in Seq(Byte) /\ w \in Seq(Byte)
    BY <1>7, <1>9
  <2> HIDE DEF w
  <2>2. (A \o N) \o w = A \o (N \o w)
    <3>1. SameJoin(A, N, w)
      BY <2>1, Regroup
    <3> QED BY <3>1 DEF SameJoin
  <2> QED BY <1>12, <2>2 DEF w
<1>14. archive = ANn \o (D \o u)
  <2>1. AN \in Seq(Byte) /\ name \in Seq(Byte) /\ v \in Seq(Byte)
    BY <1>9, <1>11
  <2> HIDE DEF v, AN
  <2>2. (AN \o name) \o v = AN \o (name \o v)
    <3>1. SameJoin(AN, name, v)
      BY <2>1, Regroup
    <3> QED BY <3>1 DEF SameJoin
  <2> QED BY <1>13, <2>2 DEF v
<1>15. archive = ANnD \o (data \o r)
  <2>1. ANn \in Seq(Byte) /\ D \in Seq(Byte) /\ u \in Seq(Byte)
    BY <1>9, <1>11
  <2> HIDE DEF u, ANn
  <2>2. (ANn \o D) \o u = ANn \o (D \o u)
    <3>1. SameJoin(ANn, D, u)
      BY <2>1, Regroup
    <3> QED BY <3>1 DEF SameJoin
  <2> QED BY <1>14, <2>2 DEF u
<1>16. pos + Width <= Size /\ Bytes(pos, Width) = N
  <2>1. Len(A) + Len(N) <= Size /\ Bytes(Len(A), Len(N)) = N
    BY <1>7, <1>9, <1>12, Located
  <2> QED BY <1>7, <1>9, <2>1
<1> HIDE DEF w
<1>17. /\ pos + Width + Len(name) <= Size
       /\ Bytes(pos + Width, Len(name)) = name
  <2> HIDE DEF AN, v
  <2>1. Len(AN) + Len(name) <= Size /\ Bytes(Len(AN), Len(name)) = name
    BY <1>9, <1>11, <1>13, Located
  <2> QED BY <1>11, <2>1
<1>18. /\ pos + Width + Len(name) + Width <= Size
       /\ Bytes(pos + Width + Len(name), Width) = D
  <2> HIDE DEF ANn, u
  <2>1. Len(ANn) + Len(D) <= Size /\ Bytes(Len(ANn), Len(D)) = D
    BY <1>9, <1>11, <1>14, Located
  <2> QED BY <1>9, <1>11, <2>1
<1>19. /\ pos + Width + Len(name) + Width + Len(data) <= Size
       /\ Bytes(pos + Width + Len(name) + Width, Len(data)) = data
  <2> HIDE DEF ANnD
  <2>1. Len(ANnD) + Len(data) <= Size /\ Bytes(Len(ANnD), Len(data)) = data
    BY <1>9, <1>11, <1>15, Located
  <2> QED BY <1>11, <2>1
<1>20. NameLen = Len(name) /\ NameAt = pos + Width /\ Name = name /\ LenAt = pos + Width + Len(name)
  <2>1. NameLen = Len(name) /\ NameAt = pos + Width
    BY <1>10, <1>16 DEF NameLen, NameAt
  <2> QED BY <1>17, <2>1 DEF Name, LenAt
<1>21. DataLen = Len(data) /\ DataAt = pos + Width + Len(name) + Width /\ Data = data
  <2>1. DataLen = Len(data) /\ DataAt = pos + Width + Len(name) + Width
    BY <1>10, <1>18, <1>20 DEF DataLen, DataAt
  <2> QED BY <1>19, <2>1 DEF Data
<1>22. EntryFits
  <2>1. Fits(pos, Width)
    BY <1>1, <1>7, <1>16, InsideFits
  <2>2. NameAt + NameLen <= Size
    BY <1>17, <1>20
  <2>3. Fits(LenAt, Width)
    <3>1. LenAt \in Nat /\ LenAt + Width <= Size
      BY <1>1, <1>4, <1>7, <1>18, <1>20
    <3> QED BY <1>1, <3>1, InsideFits
  <2>4. Fits(DataAt, DataLen) /\ DataLen < Word \div 2
    <3>1. DataAt \in Nat /\ DataLen \in Nat /\ DataAt + DataLen <= Size
      BY <1>1, <1>4, <1>7, <1>19, <1>21
    <3> QED BY <1>1, <3>1, InsideFits
  <2>5. ValidName(Name)
    BY <1>4, <1>20
  <2> QED BY <2>1, <2>2, <2>3, <2>4, <2>5 DEF EntryFits, FrameFits
<1>23. f = [name |-> Name, data |-> Data]
  BY <1>4, <1>20, <1>21 DEF Entry, name, data
<1> QED BY <1>2, <1>22, <1>23 DEF n, f

\* A packed archive is read in step with the list it is of.
InStep == \A l \in Lists : archive = Pack(l) => Archived(l)

LEMMA InStepInit == Init => InStep
  BY DEF Init, InStep, Archived

LEMMA InStepNext == BInv /\ InStep /\ [Next]_vars => InStep'
<1> SUFFICES ASSUME BInv, InStep, [Next]_vars, NEW l \in Lists, archive' = Pack(l)
             PROVE  Archived(l)'
  BY DEF InStep, Pack
<1>1. archive' = archive /\ Archived(l)
  BY DEF Next, vars, ReadHeader, DirFails, ExtractEntry, FlushFails, RefuseEntry, WriteWrapped,
         DiskFails, Return, InStep
<1>2. TypeOK
  BY DEF BInv
<1>3. CASE UNCHANGED <<count, entries>>
  BY <1>1, <1>3 DEF Archived, First, Pack
<1>4. CASE ReadHeader
  <2>1. count = {} /\ entries' = entries /\ entries = <<>> /\ Len(entries) = 0
    BY <1>4 DEF ReadHeader, BInv, Consumed
  <2>2. HeaderFits /\ ReadLE(Bytes(Len(Magic), Width)) = Len(l)
    BY <1>1, <1>2, HeaderFound DEF Archived
  <2>3. count' = {Len(l)}
    BY <1>4, <2>2 DEF ReadHeader
  <2>4. l \in Seq(Entry) /\ Len(l) \in Nat /\ 0 \in 0 .. Len(l)
    BY Listed
  <2>5. First(l, 0) = <<>>
    BY <2>4, FirstOf
  <2> QED BY <1>1, <2>1, <2>3, <2>5 DEF Archived, First, Pack
<1>5. CASE ExtractEntry \/ FlushFails
  <2> DEFINE n == Len(entries)
             e == [name |-> Name, data |-> Data]
  <2>1. MoreEntries /\ entries' = Append(entries, e) /\ count' = count
    BY <1>5 DEF ExtractEntry, FlushFails, NextEntry
  <2>2. n < Len(l) /\ l[n + 1] = e
    BY <1>1, <2>1, EntryFound
  <2>3. count = {Len(l)} /\ entries = First(l, n)
    BY <1>1, <2>1 DEF Archived, MoreEntries
  <2>4. /\ l \in Seq(Entry) /\ n \in Nat /\ Len(l) \in Nat /\ entries \in Seq(Entry)
    BY <1>2, Listed DEF TypeOK
  <2>5. n \in 0 .. Len(l) /\ n + 1 \in 1 .. Len(l)
    BY <2>2, <2>4
  <2>6. First(l, n + 1) = Append(First(l, n), l[n + 1])
    BY <2>2, <2>4, <2>5, FirstOf
  <2>7. Len(entries') = n + 1
    <3>1. e \in Entry
      BY <2>2, <2>4, <2>5, ElementOfSeq
    <3> HIDE DEF e
    <3> QED BY <2>1, <2>4, <3>1, AppendProperties
  <2>8. entries' = First(l, n + 1)
    BY <2>1, <2>2, <2>3, <2>6
  <2> HIDE DEF n, e
  <2> QED BY <1>1, <2>1, <2>3, <2>7, <2>8 DEF Archived, First, Pack
<1> QED BY <1>3, <1>4, <1>5 DEF Next, vars, DirFails, RefuseEntry, WriteWrapped, DiskFails, Return

(* What was packed is unpacked, to what it was: success means that the     *)
(* response began with the archive of the entries on disk, and of an       *)
(* archive of acceptable entries neither the header nor an entry is        *)
(* refused.                                                                *)
THEOREM UnpacksWhatWasPacked == Spec => []PackedExactly
<1>1. BInv /\ InStep => AcceptsPacked
  <2> SUFFICES ASSUME BInv, InStep, archive \in Archives
               PROVE  /\ outcome = "running" /\ count = {} => HeaderFits
                      /\ MoreEntries => EntryFits
    BY DEF AcceptsPacked
  <2>1. PICK l \in Lists : archive = Pack(l)
    BY DEF Archives
  <2>2. TypeOK /\ Archived(l)
    BY <2>1 DEF BInv, InStep
  <2> QED BY <2>1, <2>2, HeaderFound, EntryFound
<1> QED BY <1>1, BufferedInvariance, InvertsPack, InStepInit, InStepNext, PTL DEF Spec, PackedExactly

-----------------------------------------------------------------------------
(* The refinement.  A step of the unpacker announces the entries, delivers *)
(* one, or ends the run.                                                   *)

\* The receiver gives up.
LEMMA GivingUp ==
  ASSUME outcome = "running", outcome' = "threw", UNCHANGED <<count, entries>>,
         disk' = disk \/ \E name, data : disk' = Write(disk, name, data)
  PROVE  Stream!Next
<1>1. CASE disk' = disk
  BY <1>1 DEF Stream!Next, Stream!Reject
<1>2. ASSUME NEW name, NEW data, disk' = Write(disk, name, data) PROVE Stream!Next
  <2>1. name \in DOMAIN disk' /\ disk' = Write(disk, name, disk'[name])
    BY <1>2 DEF Write
  <2>2. disk' = Stream!OnDisk(disk, name, disk'[name])
    BY <2>1 DEF Write, Stream!OnDisk
  <2>3. Stream!Reject
    BY <2>1, <2>2 DEF Stream!Reject
  <2> QED BY <2>3 DEF Stream!Next
<1> QED BY <1>1, <1>2

LEMMA Delivering == BInv /\ ExtractEntry => Stream!Deliver
<1> SUFFICES ASSUME BInv, ExtractEntry PROVE Stream!Deliver
  OBVIOUS
<1> DEFINE e == [name |-> Name, data |-> Data]
<1>1. /\ entries \in Seq(Entry) /\ e \in Entry /\ e.name = Name /\ e.data = Data
      /\ Len(entries) = i
  BY FrameRead DEF BInv, TypeOK, Consumed, ExtractEntry, EntryFits
<1>2. /\ entries' = Append(entries, e) /\ disk' = Write(disk, Name, Data)
      /\ UNCHANGED <<count, outcome>>
      /\ outcome = "running" /\ \E n \in count : i < n
  BY DEF ExtractEntry, NextEntry, MoreEntries
<1> HIDE DEF e
<1>3. Len(entries') = Len(entries) + 1 /\ entries'[Len(entries) + 1] = e
  BY <1>1, <1>2, AppendProperties
<1>4. disk' = Stream!OnDisk(disk, e.name, e.data)
  BY <1>1, <1>2 DEF Write, Stream!OnDisk
<1>5. Stream!Expecting
  BY <1>1, <1>2 DEF Stream!Expecting
<1> QED BY <1>2, <1>3, <1>4, <1>5 DEF Stream!Deliver

LEMMA StepMaps ==
  BInv /\ BInv' /\ [Next]_vars => [Stream!Next \/ lost']_(Stream!vars)
<1> SUFFICES ASSUME BInv, BInv', [Next]_vars
             PROVE  Stream!Next \/ lost' \/ UNCHANGED Stream!vars
  OBVIOUS
<1>1. CASE ReadHeader
  <2>1. outcome = "running" /\ count = {} /\ UNCHANGED <<entries, disk>>
    BY <1>1 DEF ReadHeader
  <2>2. CASE outcome' = "threw" /\ count' = count
    BY <2>1, <2>2, GivingUp
  <2>3. CASE count' = {ReadLE(Bytes(Len(Magic), Width))} /\ outcome' = outcome
    <3> DEFINE n == ReadLE(Bytes(Len(Magic), Width))
    <3>1. count' \in SUBSET (0 .. Word - 1)
      BY DEF BInv, TypeOK
    <3>2. count' = {n}
      BY <2>3
    <3> HIDE DEF n
    <3>3. n \in Nat /\ n \in count'
      BY <3>1, <3>2, WordNat
    <3>4. Stream!Announce
      BY <2>1, <2>3, <3>2, <3>3 DEF Stream!Announce
    <3> QED BY <3>4 DEF Stream!Next
  <2> QED BY <1>1, <2>2, <2>3 DEF ReadHeader
<1>2. CASE DirFails \/ RefuseEntry
  BY <1>2, GivingUp DEF DirFails, RefuseEntry, MoreEntries
<1>3. CASE ExtractEntry
  BY <1>3, Delivering DEF Stream!Next
<1>4. CASE FlushFails
  BY <1>4 DEF FlushFails
<1>5. CASE WriteWrapped \/ DiskFails
  BY <1>5, GivingUp DEF WriteWrapped, DiskFails, MoreEntries
<1>6. CASE Return
  <2>1. count = {Len(entries)}
    BY <1>6 DEF Return, BInv, Consumed
  <2>2. Stream!Accept
    BY <1>6, <2>1 DEF Return, Stream!Accept
  <2> QED BY <2>2 DEF Stream!Next
<1>7. CASE UNCHANGED vars
  BY <1>7 DEF vars, Stream!vars
<1> QED BY <1>1, <1>2, <1>3, <1>4, <1>5, <1>6, <1>7 DEF Next

(* Up to the first flush that is lost, the buffered unpacker keeps the     *)
(* promise of any receiver: entries are extracted one at a time, and       *)
(* success is reported only when all of those announced are on disk.       *)
THEOREM KeepsPromise == Spec => Promise
<1>1. Init => Stream!Init
  BY DEF Init, Stream!Init, EmptyDir
<1> QED BY <1>1, StepMaps, BufferedInvariance, PTL DEF Spec, Promise
=============================================================================
