----------------------- MODULE ArchiveUnpackerProofs -----------------------
(***************************************************************************)
(* Proofs about the streaming unpacker, for every base, magic, set of      *)
(* names, way of cutting the body and length of it.                        *)
(***************************************************************************)
EXTENDS ArchiveUnpacker, SequenceTheorems, WellFoundedInduction, TLAPS

-----------------------------------------------------------------------------
(* The algebra of byte strings.                                            *)

LEMMA Concat ==
  \A a, b \in Seq(Byte) :
     /\ a \o b \in Seq(Byte)
     /\ Len(a \o b) = Len(a) + Len(b)
     /\ a \o <<>> = a /\ <<>> \o a = a
  BY ConcatProperties, ConcatEmptySeq

LEMMA Assoc ==
  \A a, b, c \in Seq(Byte) : (a \o b) \o c = a \o (b \o c)
  BY ConcatAssociative

(* The two groupings of three strings, as one formula: a step that cites the  *)
(* lemma sees no concatenation, and the next one no quantifier.             *)
SameJoin(a, b, c) == (a \o b) \o c = a \o (b \o c)

LEMMA Regroup == \A a, b, c \in Seq(Byte) : SameJoin(a, b, c)
  BY Assoc DEF SameJoin

\* The same for two strings and the length of the whole.
JoinGrows(a, b) == a \o b \in Seq(Byte) /\ Len(a \o b) = Len(a) + Len(b)

LEMMA Joining == \A a, b \in Seq(Byte) : JoinGrows(a, b)
  BY Concat DEF JoinGrows

LEMMA Lengths ==
  /\ \A a \in Seq(Byte) : Len(a) \in Nat
  /\ <<>> \in Seq(Byte) /\ Len(<<>>) = 0
  /\ \A a \in Seq(Byte) : Len(a) = 0 => a = <<>>
  BY LenProperties, EmptySeq

-----------------------------------------------------------------------------
(* Fixed-width fields.                                                     *)

LEMMA WordNat == Word \in Nat /\ Word > 0 /\ Width \in Nat
  BY BaseAssumption DEF Word, Width

LEMMA FieldDigits ==
  ASSUME NEW f \in Seq(Byte), Len(f) = Width
  PROVE  f[1] \in 0 .. Base - 1 /\ f[2] \in 0 .. Base - 1
<1>1. 1 \in 1 .. Len(f) /\ 2 \in 1 .. Len(f)
  BY DEF Width
<1>2. f[1] \in Byte /\ f[2] \in Byte
  BY <1>1, ElementOfSeq
<1> QED BY <1>2 DEF Byte

(* A field that is read is a word.                                         *)
LEMMA ReadLEWord ==
  ASSUME NEW f \in Seq(Byte), Len(f) = Width
  PROVE  ReadLE(f) \in 0 .. Word - 1
<1>1. f[1] \in 0 .. Base - 1 /\ f[2] \in 0 .. Base - 1
  BY FieldDigits
<1> DEFINE a == f[1]  b == f[2]
<1>2. Base * b <= Base * (Base - 1)
  BY <1>1, BaseAssumption
<1>3. a + Base * b <= (Base - 1) + Base * (Base - 1)
  BY <1>1, <1>2, BaseAssumption
<1>4. (Base - 1) + Base * (Base - 1) = Base * Base - 1
  BY BaseAssumption
<1>5. a + Base * b \in Nat
  BY <1>1, BaseAssumption
<1> QED BY <1>3, <1>4, <1>5, BaseAssumption DEF ReadLE, Word

(* Writing a field that was read gives the same bytes back.                *)
LEMMA AppendReadLE ==
  ASSUME NEW f \in Seq(Byte), Len(f) = Width
  PROVE  AppendLE(ReadLE(f)) = f
<1>1. f[1] \in 0 .. Base - 1 /\ f[2] \in 0 .. Base - 1
  BY FieldDigits
<1> DEFINE a == f[1]  b == f[2]
<1>2. ASSUME NEW x \in 0 .. Base - 1, NEW y \in 0 .. Base - 1
      PROVE  (x + Base * y) % Base = x /\ (x + Base * y) \div Base = y
  BY BaseAssumption, Z3
<1>3. b % Base = b
  BY <1>1, BaseAssumption
<1>4. ReadLE(f) % Base = a /\ (ReadLE(f) \div Base) % Base = b
  BY <1>1, <1>2, <1>3 DEF ReadLE
<1>5. f = <<a, b>>
  BY LenProperties DEF Width
<1> QED BY <1>4, <1>5 DEF AppendLE

LEMMA AppendLEType ==
  ASSUME NEW v \in Nat
  PROVE  AppendLE(v) \in Seq(Byte) /\ Len(AppendLE(v)) = Width
<1>1. v % Base \in Byte /\ v \div Base \in Nat
  BY BaseAssumption DEF Byte
<1>2. (v \div Base) % Base \in Byte
  BY <1>1, BaseAssumption DEF Byte
<1> QED BY <1>1, <1>2 DEF AppendLE, Width

-----------------------------------------------------------------------------
(* Cutting the span feed() is working on.                                  *)

LEMMA CutChunk ==
  ASSUME chunk \in Seq(Byte), NEW n \in 0 .. Len(chunk)
  PROVE  /\ Head_(n) \in Seq(Byte) /\ Len(Head_(n)) = n
         /\ Rest(n) \in Seq(Byte)
         /\ Head_(n) \o Rest(n) = chunk
<1>1. Len(chunk) \in Nat
  BY LenProperties
<1>2. \A i \in 1 .. Len(chunk) : chunk[i] \in Byte
  BY ElementOfSeq
<1>3. Head_(n) \in Seq(Byte) /\ Len(Head_(n)) = n
  BY <1>1, <1>2, SubSeqProperties DEF Head_
<1>4. Rest(n) \in Seq(Byte)
  BY <1>1, <1>2, SubSeqProperties DEF Rest
<1>5. 1 \in 1 .. Len(chunk) + 1 /\ n \in 1 - 1 .. Len(chunk)
      /\ Len(chunk) \in n .. Len(chunk)
  BY <1>1
<1>6. SubSeq(chunk, 1, n) \o SubSeq(chunk, n + 1, Len(chunk))
        = SubSeq(chunk, 1, Len(chunk))
  BY <1>5, ConcatAdjacentSubSeq
<1> QED BY <1>3, <1>4, <1>6, SubSeqFull DEF Head_, Rest

(* The field that chunk completes has the wanted length.                   *)
LEMMA FieldType ==
  ASSUME TypeOK, NEW s, Complete(s), Len(pending) < need
  PROVE  /\ Field \in Seq(Byte) /\ Len(Field) = need
         /\ Rest(Want) \in Seq(Byte)
         /\ Field \o Rest(Want) = pending \o chunk
<1>0. /\ pending \in Seq(Byte) /\ chunk \in Seq(Byte) /\ need \in Nat
      /\ Len(pending) \in Nat /\ Len(chunk) \in Nat
  <2>1. pending \in Seq(Byte) /\ chunk \in Seq(Byte) /\ need \in Nat
    BY DEF TypeOK
  <2> QED BY <2>1, LenProperties
<1>a. Len(chunk) >= Want
  BY DEF Complete
<1>1. Want \in 0 .. Len(chunk) /\ Want + Len(pending) = need
  BY <1>0, <1>a DEF Want
<1>2. /\ Head_(Want) \in Seq(Byte) /\ Len(Head_(Want)) = Want
      /\ Rest(Want) \in Seq(Byte) /\ Head_(Want) \o Rest(Want) = chunk
  BY <1>0, <1>1, CutChunk
<1>3. /\ pending \o Head_(Want) \in Seq(Byte)
      /\ Len(pending \o Head_(Want)) = Len(pending) + Want
  BY <1>0, <1>2, ConcatProperties
<1>4. (pending \o Head_(Want)) \o Rest(Want) = pending \o chunk
  <2>1. SameJoin(pending, Head_(Want), Rest(Want))
    BY <1>0, <1>2, Regroup
  <2>2. (pending \o Head_(Want)) \o Rest(Want) = pending \o (Head_(Want) \o Rest(Want))
    BY <2>1 DEF SameJoin
  <2> QED BY <1>2, <2>2
<1>5. Len(pending) + Want = need
  BY <1>0, <1>1 DEF Want
<1> QED BY <1>2, <1>3, <1>4, <1>5 DEF Field

(* Putting a file in a directory gives a directory.                        *)
LEMMA WriteType ==
  ASSUME NEW dir, DOMAIN dir \subseteq Seq(Byte),
         dir \in [DOMAIN dir -> Seq(Byte)],
         NEW name \in Seq(Byte), NEW data \in Seq(Byte)
  PROVE  /\ DOMAIN Write(dir, name, data) = DOMAIN dir \cup {name}
         /\ DOMAIN Write(dir, name, data) \subseteq Seq(Byte)
         /\ Write(dir, name, data)
               \in [DOMAIN Write(dir, name, data) -> Seq(Byte)]
         /\ Write(dir, name, data)[name] = data
  BY DEF Write

LEMMA FrameType ==
  ASSUME NEW e \in Entry
  PROVE  Frame(e) \in Seq(Byte)
<1>1. e.name \in Seq(Byte) /\ e.data \in Seq(Byte)
  BY DEF Entry
<1>2. AppendLE(Len(e.name)) \in Seq(Byte) /\ AppendLE(Len(e.data)) \in Seq(Byte)
  BY <1>1, LenProperties, AppendLEType
<1> QED BY <1>1, <1>2, ConcatProperties DEF Frame

-----------------------------------------------------------------------------
(* The inductive invariant.  TypeOK and NothingLost do not carry           *)
(* themselves: whether a turn of the loop may subtract from need and       *)
(* remaining, and what it adds to the decoded part, depends on how state,  *)
(* need, pending and the two counters go together.                         *)

Shape ==
    /\ done_count = Len(entries)
    /\ state \in {"Magic", "Count"} => done_count = 0 /\ accepted = <<>>
    /\ state \in {"NameLen", "Name", "DataLen", "Data"} => done_count < count
    /\ state = "Done" => done_count = count /\ pending = <<>>
    /\ state \in FieldStates => Len(pending) < need
    /\ state = "Magic" => need = Len(Magic)
    /\ state \in {"Count", "NameLen", "DataLen"} => need = Width
    /\ state = "Data" => /\ pending = <<>> /\ remaining > 0
                         /\ cur_name \in DOMAIN disk
    /\ state = "Data" => ValidName(cur_name)
    /\ \A i \in 1 .. Len(entries) : ValidName(entries[i].name)

IInv ==
    /\ TypeOK
    /\ outcome = "running" => Shape /\ fed = Decoded \o pending \o chunk
    /\ outcome = "ok" => /\ state = "Done" /\ chunk = <<>>
                         /\ Shape /\ fed = Decoded

LEMMA DecodedType ==
  ASSUME TypeOK, Shape
  PROVE  Decoded \in Seq(Byte)
<1>1. /\ Magic \in Seq(Byte) /\ accepted \in Seq(Byte) /\ cur_name \in Seq(Byte)
      /\ count \in Nat /\ need \in Nat /\ remaining \in Nat
      /\ state \in FieldStates \cup {"Data", "Done"}
  BY MagicAssumption, WordNat DEF TypeOK
<1>2. AppendLE(count) \in Seq(Byte) /\ AppendLE(need) \in Seq(Byte)
      /\ AppendLE(Len(cur_name)) \in Seq(Byte)
  BY <1>1, Lengths, AppendLEType
<1>3. /\ Magic \o AppendLE(count) \in Seq(Byte)
      /\ Magic \o AppendLE(count) \o accepted \in Seq(Byte)
      /\ AppendLE(Len(cur_name)) \o cur_name \in Seq(Byte)
  BY <1>1, <1>2, Concat
<1>4. CASE state # "Data"
  BY <1>1, <1>2, <1>3, <1>4, Concat, Lengths DEF Decoded, FieldStates
<1>5. CASE state = "Data"
  <2>1. disk[cur_name] \in Seq(Byte)
    BY <1>5 DEF TypeOK, Shape
  <2>2. AppendLE(Len(disk[cur_name]) + remaining) \in Seq(Byte)
    BY <1>1, <2>1, Lengths, AppendLEType
  <2> QED BY <1>2, <1>3, <1>5, <2>1, <2>2, Concat DEF Decoded
<1> QED BY <1>4, <1>5

(* A completed field moves from pending and chunk to the decoded part.     *)
LEMMA FieldMoves ==
  ASSUME IInv, NEW s \in FieldStates, Complete(s)
  PROVE  /\ TypeOK /\ Shape /\ state = s /\ outcome = "running"
         /\ Field \in Seq(Byte) /\ Len(Field) = need
         /\ chunk' \in Seq(Byte) /\ fed' \in Seq(Byte)
         /\ Decoded \in Seq(Byte)
         /\ fed' = Decoded \o Field \o <<>> \o chunk'
<1>1. TypeOK /\ Shape /\ state = s /\ outcome = "running"
      /\ fed = Decoded \o pending \o chunk
  BY DEF IInv, Complete
<1>2. Len(pending) < need
  BY <1>1 DEF Shape
<1>3. /\ Field \in Seq(Byte) /\ Len(Field) = need /\ Rest(Want) \in Seq(Byte)
      /\ Field \o Rest(Want) = pending \o chunk
  BY <1>1, <1>2, FieldType
<1>4. Decoded \in Seq(Byte)
  BY <1>1, DecodedType
<1>5. pending \in Seq(Byte) /\ chunk \in Seq(Byte) /\ fed \in Seq(Byte)
  BY <1>1 DEF TypeOK
<1>6. chunk' = Rest(Want) /\ fed' = fed
  BY DEF Complete
<1>7. Decoded \o pending \o chunk = Decoded \o Field \o Rest(Want)
  <2>1. Decoded \o pending \o chunk = Decoded \o (pending \o chunk)
    <3>1. SameJoin(Decoded, pending, chunk)
      BY <1>4, <1>5, Regroup
    <3> QED BY <3>1 DEF SameJoin
  <2>2. Decoded \o Field \o Rest(Want) = Decoded \o (Field \o Rest(Want))
    <3>1. SameJoin(Decoded, Field, Rest(Want))
      BY <1>3, <1>4, Regroup
    <3> QED BY <3>1 DEF SameJoin
  <2> QED BY <1>3, <2>1, <2>2
<1>8. Decoded \o Field \o <<>> = Decoded \o Field
  BY <1>3, <1>4, Concat
<1> QED BY <1>1, <1>3, <1>4, <1>5, <1>6, <1>7, <1>8

-----------------------------------------------------------------------------
(* One lemma per action.                                                   *)

LEMMA InitInv == Init => IInv
<1> SUFFICES ASSUME Init PROVE IInv
  OBVIOUS
<1>1. TypeOK
  <2>1. Len(Magic) \in Nat
    BY MagicAssumption, LenProperties
  <2>2. <<>> \in Seq(Byte) /\ <<>> \in Seq(Entry)
    BY EmptySeq
  <2>3. DOMAIN EmptyDir = {} /\ EmptyDir \in [{} -> Seq(Byte)]
    BY DEF EmptyDir
  <2>4. DOMAIN disk \subseteq Seq(Byte) /\ disk \in [DOMAIN disk -> Seq(Byte)]
    BY <2>3 DEF Init
  <2>5. 0 \in 0 .. Word - 1
    BY WordNat
  <2> QED BY <2>1, <2>2, <2>4, <2>5 DEF Init, TypeOK, FieldStates
<1>2. Shape
  BY MagicAssumption DEF Init, Shape, FieldStates
<1>3. Decoded = <<>>
  BY DEF Init, Decoded
<1>4. fed = Decoded \o pending \o chunk
  BY <1>3, Lengths, Concat DEF Init
<1> QED BY <1>1, <1>2, <1>4 DEF IInv, Init

LEMMA FeedInv ==
  ASSUME IInv, NEW span \in Spans, Feed(span)
  PROVE  IInv'
<1>1. TypeOK /\ Shape /\ fed = Decoded \o pending \o <<>> /\ outcome = "running"
  BY DEF IInv, Feed
<1>2. span \in Seq(Byte) /\ fed \in Seq(Byte) /\ pending \in Seq(Byte)
      /\ Decoded \in Seq(Byte)
  BY <1>1, SpanAssumption, DecodedType DEF TypeOK
<1>3. fed' \in Seq(Byte) /\ chunk' \in Seq(Byte)
  BY <1>2, Concat DEF Feed
<1>4. TypeOK'
  BY <1>1, <1>3 DEF TypeOK, Feed
<1>5. Shape'
  BY <1>1 DEF Shape, Feed
<1>6. Decoded' = Decoded
  BY DEF Decoded, Feed
<1>7. fed' = Decoded' \o pending' \o chunk'
  BY <1>1, <1>2, <1>6, Concat DEF Feed
<1> QED BY <1>1, <1>4, <1>5, <1>7 DEF IInv, Feed

LEMMA TrailingBytesInv ==
  ASSUME IInv, TrailingBytes PROVE IInv'
<1>1. TypeOK'
  BY DEF IInv, TypeOK, TrailingBytes, Throw
<1> QED BY <1>1 DEF IInv, TrailingBytes, Throw

LEMMA GatherInv ==
  ASSUME IInv, Gather PROVE IInv'
<1>1. TypeOK /\ Shape /\ fed = Decoded \o pending \o chunk
      /\ outcome' = "running" /\ Decoded \in Seq(Byte)
  BY DecodedType DEF IInv, Gather
<1>2. /\ chunk \in Seq(Byte) /\ pending \in Seq(Byte) /\ need \in Nat
      /\ pending' = pending \o chunk /\ chunk' = <<>>
      /\ Len(chunk) < need - Len(pending)
  BY <1>1 DEF TypeOK, Gather, Want
<1>3. pending' \in Seq(Byte) /\ Len(pending') < need /\ chunk' \in Seq(Byte)
  BY <1>2, Concat, Lengths
<1>4. TypeOK'
  BY <1>1, <1>3 DEF TypeOK, Gather
<1>5. Shape'
  BY <1>1, <1>3 DEF Shape, Gather, FieldStates
<1>6. Decoded' = Decoded
  BY DEF Decoded, Gather
<1>7. Decoded \o pending \o chunk = Decoded \o (pending \o chunk) \o <<>>
  <2> DEFINE d == Decoded
             p == pending
             c == chunk
             pc == p \o c
             dpc == d \o pc
  <2>1. d \in Seq(Byte) /\ p \in Seq(Byte) /\ c \in Seq(Byte) /\ pc \in Seq(Byte)
    BY <1>1, <1>2, <1>3 DEF TypeOK
  <2> HIDE DEF d, p, c, pc
  <2>2. SameJoin(d, p, c)
    BY <2>1, Regroup
  <2>3. dpc \in Seq(Byte)
    BY <2>1, Concat
  <2>4. dpc \o <<>> = dpc
    <3> HIDE DEF dpc
    <3> QED BY <2>3, Concat
  <2>5. (d \o p) \o c = dpc
    BY <2>2 DEF SameJoin, pc
  <2> QED BY <2>4, <2>5 DEF d, p, c, pc
<1> QED BY <1>1, <1>2, <1>4, <1>5, <1>6, <1>7 DEF IInv, Gather

LEMMA FinishInv ==
  ASSUME IInv, Finish PROVE IInv'
<1>1. TypeOK /\ Shape /\ fed = Decoded \o pending \o <<>> /\ chunk = <<>>
      /\ Decoded \in Seq(Byte)
  BY DecodedType DEF IInv, Finish
<1>2. TypeOK'
  BY <1>1 DEF TypeOK, Finish
<1>3. Shape' /\ Decoded' = Decoded
  BY <1>1 DEF Shape, Decoded, Finish
<1>4. outcome' = "ok" => state = "Done" /\ pending = <<>>
  BY <1>1 DEF Finish, Shape
<1>5. outcome' = "ok" => fed' = Decoded'
  BY <1>1, <1>3, <1>4, Concat, Lengths DEF Finish
<1>6. outcome' \in {"ok", "threw"} /\ chunk' = <<>> /\ state' = state
  BY <1>1 DEF Finish
<1> QED BY <1>2, <1>3, <1>4, <1>5, <1>6 DEF IInv

(* A refused field only changes pending, and ends the run.                 *)
LEMMA RefuseInv ==
  ASSUME IInv, NEW s \in FieldStates, Complete(s), Refuse, ioError' \in BOOLEAN
  PROVE  IInv'
<1>1. TypeOK /\ Field \in Seq(Byte) /\ chunk' \in Seq(Byte) /\ fed' \in Seq(Byte)
  BY FieldMoves
<1>2. TypeOK'
  BY <1>1 DEF TypeOK, Refuse, Throw
<1> QED BY <1>2 DEF IInv, Refuse, Throw

LEMMA ReadMagicInv ==
  ASSUME IInv, ReadMagic PROVE IInv'
<1>1. Complete("Magic") /\ "Magic" \in FieldStates /\ ioError' = ioError
  BY DEF ReadMagic, FieldStates
<1>2. /\ TypeOK /\ Shape /\ state = "Magic" /\ outcome = "running"
      /\ chunk' \in Seq(Byte) /\ fed' \in Seq(Byte)
      /\ fed' = Decoded \o Field \o <<>> \o chunk'
  BY <1>1, FieldMoves
<1>3. CASE Field # Magic
  BY <1>1, <1>2, <1>3, RefuseInv DEF ReadMagic, TypeOK
<1>4. CASE Field = Magic
  <2>1. /\ state' = "Count" /\ need' = Width /\ pending' = <<>>
        /\ UNCHANGED <<count, done_count, cur_name, remaining, disk, outcome,
                       entries, accepted, ioError>>
    BY <1>1, <1>4 DEF ReadMagic
  <2>2. TypeOK'
    BY <1>2, <2>1, WordNat, Lengths DEF TypeOK, FieldStates
  <2>3. Shape'
    BY <1>2, <2>1, Lengths DEF Shape, FieldStates, Width
  <2>4. Decoded = <<>> /\ Decoded' = Magic
    BY <1>2, <2>1 DEF Decoded
  <2>5. <<>> \o Magic = Magic
    BY MagicAssumption, Concat
  <2>6. fed' = Decoded' \o pending' \o chunk'
    BY <1>2, <1>4, <2>1, <2>4, <2>5
  <2> QED BY <1>2, <2>1, <2>2, <2>3, <2>6 DEF IInv
<1> QED BY <1>3, <1>4

LEMMA ReadCountInv ==
  ASSUME IInv, ReadCount PROVE IInv'
<1>1. Complete("Count") /\ "Count" \in FieldStates
  BY DEF ReadCount, FieldStates
<1>2. /\ TypeOK /\ Shape /\ state = "Count" /\ outcome = "running"
      /\ chunk' \in Seq(Byte) /\ fed' \in Seq(Byte)
      /\ fed' = Decoded \o Field \o <<>> \o chunk'
      /\ Field \in Seq(Byte) /\ Len(Field) = need
  BY <1>1, FieldMoves
<1>3. need = Width /\ accepted = <<>> /\ done_count = 0
  BY <1>2 DEF Shape
<1>4. count' \in 0 .. Word - 1 /\ AppendLE(count') = Field
  BY <1>2, <1>3, ReadLEWord, AppendReadLE DEF ReadCount
<1>5. /\ state' = IF count' = 0 THEN "Done" ELSE "NameLen"
      /\ need' = Width /\ pending' = <<>>
      /\ UNCHANGED <<done_count, cur_name, remaining, disk, outcome, entries,
                     accepted, ioError>>
  BY DEF ReadCount
<1>6. TypeOK'
  BY <1>2, <1>4, <1>5, WordNat, Lengths DEF TypeOK, FieldStates
<1>7. Shape'
  <2>1. Len(pending') = 0 /\ Width = 2 /\ count' >= 0 /\ Word \in Nat
    BY <1>4, <1>5, WordNat, Lengths DEF Width
  <2>2. CASE count' = 0
    BY <1>2, <1>3, <1>5, <2>1, <2>2 DEF Shape, FieldStates
  <2>3. CASE count' # 0
    <3>1. 0 < count' /\ state' = "NameLen"
      BY <1>4, <1>5, <2>1, <2>3
    <3>2. done_count' < count' /\ Len(pending') < need' /\ need' = Width
      BY <1>3, <1>5, <2>1, <3>1
    <3>3. UNCHANGED <<done_count, entries>>
      BY <1>5
    <3> QED BY <1>2, <3>1, <3>2, <3>3 DEF Shape, FieldStates
  <2> QED BY <2>2, <2>3
<1>8. Decoded = Magic
  BY <1>2 DEF Decoded
<1>9. Decoded' = Magic \o AppendLE(count') \o <<>>
  BY <1>3, <1>5 DEF Decoded
<1>10. fed' = Decoded' \o pending' \o chunk'
  BY <1>2, <1>4, <1>5, <1>8, <1>9, MagicAssumption, Concat
<1> QED BY <1>2, <1>5, <1>6, <1>7, <1>10 DEF IInv

LEMMA ReadNameLenInv ==
  ASSUME IInv, ReadNameLen PROVE IInv'
<1>1. Complete("NameLen") /\ "NameLen" \in FieldStates /\ ioError' = ioError
  BY DEF ReadNameLen, FieldStates
<1>2. /\ TypeOK /\ Shape /\ state = "NameLen" /\ outcome = "running"
      /\ chunk' \in Seq(Byte) /\ fed' \in Seq(Byte)
      /\ fed' = Decoded \o Field \o <<>> \o chunk'
      /\ Field \in Seq(Byte) /\ Len(Field) = need
  BY <1>1, FieldMoves
<1>3. CASE ReadLE(Field) = 0 \/ ReadLE(Field) > MaxNameLen
  BY <1>1, <1>2, <1>3, RefuseInv DEF ReadNameLen, TypeOK
<1>4. CASE ~(ReadLE(Field) = 0 \/ ReadLE(Field) > MaxNameLen)
  <2>1. /\ state' = "Name" /\ need' = ReadLE(Field) /\ pending' = <<>>
        /\ UNCHANGED <<count, done_count, cur_name, remaining, disk, outcome,
                       entries, accepted, ioError>>
    BY <1>1, <1>4 DEF ReadNameLen
  <2>2. need' \in Nat /\ need' > 0 /\ AppendLE(need') = Field
    <3>1. need = Width
      BY <1>2 DEF Shape
    <3> QED BY <1>2, <1>4, <2>1, <3>1, ReadLEWord, AppendReadLE, WordNat
  <2>3. TypeOK'
    BY <1>2, <2>1, <2>2, Lengths DEF TypeOK, FieldStates
  <2>4. Shape'
    BY <1>2, <2>1, <2>2, Lengths DEF Shape, FieldStates
  <2>5. Decoded' = Decoded \o Field
    BY <1>2, <2>1, <2>2 DEF Decoded
  <2>6. Decoded \o Field \o <<>> = Decoded' \o pending'
    BY <2>1, <2>5
  <2> QED BY <1>2, <2>1, <2>3, <2>4, <2>6 DEF IInv
<1> QED BY <1>3, <1>4

LEMMA ReadNameInv ==
  ASSUME IInv, ReadName PROVE IInv'
<1>1. Complete("Name") /\ "Name" \in FieldStates
  BY DEF ReadName, FieldStates
<1>2. /\ TypeOK /\ Shape /\ state = "Name" /\ outcome = "running"
      /\ chunk' \in Seq(Byte) /\ fed' \in Seq(Byte)
      /\ fed' = Decoded \o Field \o <<>> \o chunk'
      /\ Field \in Seq(Byte) /\ Len(Field) = need
  BY <1>1, FieldMoves
<1>3. /\ cur_name' = Field /\ state' = "DataLen" /\ need' = Width
      /\ pending' = <<>>
      /\ UNCHANGED <<count, done_count, remaining, disk, outcome, entries,
                     accepted, ioError>>
  BY DEF ReadName
<1>4. TypeOK'
  BY <1>2, <1>3, WordNat, Lengths DEF TypeOK, FieldStates
<1>5. Shape'
  BY <1>2, <1>3, Lengths DEF Shape, FieldStates, Width
<1>6. Decoded' = Decoded \o Field
  <2> DEFINE prefix == Magic \o AppendLE(count) \o accepted
  <2>1. prefix \in Seq(Byte) /\ AppendLE(need) \in Seq(Byte)
    <3>1. count \in Nat /\ need \in Nat /\ accepted \in Seq(Byte)
      BY <1>2, WordNat DEF TypeOK
    <3> QED BY <3>1, MagicAssumption, AppendLEType, Concat
  <2>2. Decoded = prefix \o AppendLE(need)
    BY <1>2 DEF Decoded
  <2>3. Decoded' = prefix \o (AppendLE(need) \o Field)
    BY <1>2, <1>3 DEF Decoded
  <2> HIDE DEF prefix
  <2>5. prefix \in Seq(Byte) /\ AppendLE(need) \in Seq(Byte) /\ Field \in Seq(Byte)
    BY <1>2, <2>1
  <2>4. (prefix \o AppendLE(need)) \o Field = prefix \o (AppendLE(need) \o Field)
    <3>1. SameJoin(prefix, AppendLE(need), Field)
      BY <2>5, Regroup
    <3> QED BY <3>1 DEF SameJoin
  <2> QED BY <2>2, <2>3, <2>4
<1> QED BY <1>2, <1>3, <1>4, <1>5, <1>6 DEF IInv

-----------------------------------------------------------------------------
(* Opening, filling and closing the file of an entry.                      *)

(* The wire image of the entries, extended by that of one more.            *)
LEMMA FrameOnWire ==
  ASSUME NEW e \in Entry, NEW h \in Seq(Byte), NEW w \in Seq(Byte)
  PROVE  h \o w \o (AppendLE(Len(e.name)) \o e.name) \o AppendLE(Len(e.data))
             \o e.data = h \o (w \o Frame(e))
<1> DEFINE a == AppendLE(Len(e.name)) \o e.name
           b == AppendLE(Len(e.data))
           d == e.data
           hw == h \o w
           ab == a \o b
<1>1. AppendLE(Len(e.name)) \in Seq(Byte) /\ b \in Seq(Byte)
      /\ e.name \in Seq(Byte) /\ d \in Seq(Byte)
  BY Lengths, AppendLEType DEF Entry
<1>2. a \in Seq(Byte) /\ b \in Seq(Byte) /\ d \in Seq(Byte)
  BY <1>1, Concat
<1>3. Frame(e) = ab \o d /\ Frame(e) \in Seq(Byte)
  BY FrameType DEF Frame
<1> HIDE DEF a, b, d
<1>4. hw \in Seq(Byte) /\ ab \in Seq(Byte)
  BY <1>2, Concat
<1>5. hw \o Frame(e) = h \o (w \o Frame(e))
  <2> DEFINE g == Frame(e)
  <2>1. h \in Seq(Byte) /\ w \in Seq(Byte) /\ g \in Seq(Byte)
    BY <1>3
  <2> HIDE DEF g
  <2>2. (h \o w) \o g = h \o (w \o g)
    <3>1. SameJoin(h, w, g)
      BY <2>1, Regroup
    <3> QED BY <3>1 DEF SameJoin
  <2> QED BY <2>2 DEF g
<1> HIDE DEF hw
<1>6. hw \o a \o b = hw \o ab
  <2>1. hw \in Seq(Byte) /\ a \in Seq(Byte) /\ b \in Seq(Byte)
    BY <1>2, <1>4
  <2>2. (hw \o a) \o b = hw \o (a \o b)
    <3>1. SameJoin(hw, a, b)
      BY <2>1, Regroup
    <3> QED BY <3>1 DEF SameJoin
  <2> QED BY <2>2
<1> HIDE DEF ab
<1>7. hw \o ab \o d = hw \o (ab \o d)
  <2>1. hw \in Seq(Byte) /\ ab \in Seq(Byte) /\ d \in Seq(Byte)
    BY <1>2, <1>4
  <2>2. (hw \o ab) \o d = hw \o (ab \o d)
    <3>1. SameJoin(hw, ab, d)
      BY <2>1, Regroup
    <3> QED BY <3>1 DEF SameJoin
  <2> QED BY <2>2
<1>8. hw \o a \o b \o d = h \o (w \o Frame(e))
  BY <1>3, <1>5, <1>6, <1>7
<1> QED BY <1>8 DEF hw, a, b, d

(* What is decoded when data are the bytes of the current entry.           *)
EntryWire(data) ==
    Magic \o AppendLE(count) \o accepted \o (AppendLE(Len(cur_name)) \o cur_name)
          \o AppendLE(Len(data)) \o data

(* Completing the entry whose bytes are data: what is decoded ends with    *)
(* the entry's frame, and the next state expects another or none.          *)
LEMMA EntryDoneInv ==
  ASSUME TypeOK, Shape, outcome = "running",
         done_count < count, ValidName(cur_name),
         NEW data \in Seq(Byte), EntryDone(data),
         UNCHANGED <<count, cur_name, outcome, ioError>>,
         chunk' \in Seq(Byte), fed' \in Seq(Byte), remaining' \in 0 .. Word - 1,
         DOMAIN disk' \subseteq Seq(Byte), disk' \in [DOMAIN disk' -> Seq(Byte)],
         fed' = EntryWire(data) \o chunk'
  PROVE  IInv'
<1> DEFINE e == [name |-> cur_name, data |-> data]
           header == Magic \o AppendLE(count)
<1>1. /\ cur_name \in Seq(Byte) /\ accepted \in Seq(Byte) /\ count \in Nat
      /\ done_count \in Nat /\ entries \in Seq(Entry)
  BY WordNat DEF TypeOK
<1>2. header \in Seq(Byte) /\ header \o accepted \in Seq(Byte)
  BY <1>1, MagicAssumption, AppendLEType, Concat
<1>3. /\ e \in Entry /\ Frame(e) \in Seq(Byte)
      /\ EntryWire(data) = header \o (accepted \o Frame(e))
  <2>1. e \in Entry /\ e.name = cur_name /\ e.data = data
    BY <1>1 DEF Entry
  <2>2. accepted \in Seq(Byte) /\ header \in Seq(Byte)
    BY <1>1, <1>2
  <2> HIDE DEF header, e
  <2>3. header \o accepted \o (AppendLE(Len(e.name)) \o e.name)
            \o AppendLE(Len(e.data)) \o e.data = header \o (accepted \o Frame(e))
    BY <2>1, <2>2, FrameOnWire, Zenon
  <2> QED BY <2>1, <2>3, FrameType DEF EntryWire, header
<1>4. /\ done_count' = done_count + 1 /\ need' = Width /\ pending' = <<>>
      /\ state' = IF done_count + 1 = count THEN "Done" ELSE "NameLen"
      /\ entries' = Append(entries, e) /\ accepted' = accepted \o Frame(e)
  BY DEF EntryDone
<1>5. /\ entries' \in Seq(Entry) /\ Len(entries') = Len(entries) + 1
      /\ entries'[Len(entries) + 1] = e
      /\ \A i \in 1 .. Len(entries) : entries'[i] = entries[i]
  BY <1>1, <1>3, <1>4, AppendProperties
<1>6. accepted' \in Seq(Byte)
  BY <1>1, <1>3, <1>4, Concat
<1>7. TypeOK'
  <2>1. /\ state' \in FieldStates \cup {"Data", "Done"}
        /\ need' \in Nat /\ done_count' \in Nat /\ pending' \in Seq(Byte)
    <3> HIDE DEF e
    <3> QED BY <1>1, <1>4, WordNat, Lengths DEF FieldStates
  <2>2. UNCHANGED <<count, cur_name, outcome, ioError>>
    OBVIOUS
  <2> QED BY <1>5, <1>6, <2>1, <2>2 DEF TypeOK
<1>8. Shape'
  <2>1. done_count' = Len(entries')
    BY <1>4, <1>5 DEF Shape
  <2>2. \A i \in 1 .. Len(entries') : ValidName(entries'[i].name)
    <3>1. e.name = cur_name /\ Len(entries) \in Nat
      BY <1>1, LenProperties
    <3>2. \A i \in 1 .. Len(entries) : ValidName(entries[i].name)
      BY DEF Shape
    <3>3. \A i \in 1 .. Len(entries') : i \in 1 .. Len(entries) \/ i = Len(entries) + 1
      BY <1>5, <3>1
    <3> HIDE DEF e
    <3> QED BY <1>5, <3>1, <3>2, <3>3 DEF ValidName
  <2>3. Len(pending') < need' /\ need' = Width /\ pending' = <<>>
    BY <1>4, Lengths DEF Width
  <2>4. CASE done_count + 1 = count
    BY <1>4, <2>1, <2>2, <2>3, <2>4 DEF Shape, FieldStates
  <2>5. CASE done_count + 1 # count
    <3>1. state' = "NameLen" /\ done_count' < count'
      BY <1>1, <1>4, <2>5
    <3> QED BY <2>1, <2>2, <2>3, <3>1 DEF Shape, FieldStates
  <2> QED BY <2>4, <2>5
<1>9. fed' = Decoded' \o pending' \o chunk'
  <2>1. Decoded' = header \o (accepted \o Frame(e))
    BY <1>4 DEF Decoded
  <2>2. EntryWire(data) \o <<>> = EntryWire(data)
    <3>1. EntryWire(data) \in Seq(Byte)
      BY <1>1, <1>2, <1>3, <1>6, <1>4, Concat, MagicAssumption
    <3> QED BY <3>1, Concat
  <2> QED BY <1>3, <1>4, <2>1, <2>2
<1> QED BY <1>7, <1>8, <1>9 DEF IInv

LEMMA ReadDataLenInv ==
  ASSUME IInv, ReadDataLen PROVE IInv'
<1>1. Complete("DataLen") /\ "DataLen" \in FieldStates /\ ioError' = ioError
  BY DEF ReadDataLen, FieldStates
<1>2. /\ TypeOK /\ Shape /\ state = "DataLen" /\ outcome = "running"
      /\ chunk' \in Seq(Byte) /\ fed' \in Seq(Byte)
      /\ fed' = Decoded \o Field \o <<>> \o chunk'
      /\ Field \in Seq(Byte) /\ Len(Field) = need /\ Decoded \in Seq(Byte)
  BY <1>1, FieldMoves
<1>3. CASE ~ValidName(cur_name)
  BY <1>1, <1>2, <1>3, RefuseInv DEF ReadDataLen, TypeOK
<1>4. CASE ValidName(cur_name)
  <2>1. /\ remaining' = ReadLE(Field) /\ disk' = Write(disk, cur_name, <<>>)
        /\ UNCHANGED <<count, cur_name, outcome, ioError>>
    BY <1>1, <1>4 DEF ReadDataLen
  <2>2. remaining' \in 0 .. Word - 1 /\ AppendLE(remaining') = Field
    <3>1. need = Width
      BY <1>2 DEF Shape
    <3> QED BY <1>2, <2>1, <3>1, ReadLEWord, AppendReadLE
  <2>3. /\ DOMAIN disk' \subseteq Seq(Byte) /\ disk' \in [DOMAIN disk' -> Seq(Byte)]
        /\ disk'[cur_name] = <<>> /\ cur_name \in DOMAIN disk'
    <3>1. /\ cur_name \in Seq(Byte) /\ <<>> \in Seq(Byte)
          /\ DOMAIN disk \subseteq Seq(Byte) /\ disk \in [DOMAIN disk -> Seq(Byte)]
      BY <1>2, Lengths DEF TypeOK
    <3>2. /\ DOMAIN Write(disk, cur_name, <<>>) = DOMAIN disk \cup {cur_name}
          /\ DOMAIN Write(disk, cur_name, <<>>) \subseteq Seq(Byte)
          /\ Write(disk, cur_name, <<>>)
               \in [DOMAIN Write(disk, cur_name, <<>>) -> Seq(Byte)]
          /\ Write(disk, cur_name, <<>>)[cur_name] = <<>>
      BY <3>1, WriteType
    <3> QED BY <2>1, <3>2
  <2>4. Decoded = Magic \o AppendLE(count) \o accepted
                    \o (AppendLE(Len(cur_name)) \o cur_name)
    BY <1>2 DEF Decoded
  <2>5. Decoded \o Field \o <<>> = Decoded \o Field
    BY <1>2, Concat
  <2>6. CASE ReadLE(Field) = 0
    <3>1. EntryDone(<<>>)
      BY <1>4, <2>6 DEF ReadDataLen
    <3>2. AppendLE(Len(<<>>)) = Field
      BY <2>1, <2>2, <2>6, Lengths
    <3>3. EntryWire(<<>>) = Decoded \o Field \o <<>>
      BY <2>4, <3>2 DEF EntryWire
    <3>4. done_count < count
      BY <1>2 DEF Shape
    <3> QED BY <1>2, <1>4, <2>1, <2>2, <2>3, <3>1, <3>3, <3>4, EntryDoneInv, Lengths
  <2>7. CASE ReadLE(Field) # 0
    <3>1. state' = "Data" /\ pending' = <<>>
          /\ UNCHANGED <<done_count, need, entries, accepted>>
      BY <1>4, <2>7 DEF ReadDataLen
    <3>2. TypeOK'
      <4>1. state' \in FieldStates \cup {"Data", "Done"} /\ pending' \in Seq(Byte)
        BY <3>1, Lengths
      <4> QED BY <1>2, <2>1, <2>2, <2>3, <3>1, <4>1 DEF TypeOK
    <3>3. Shape'
      <4>1. remaining' > 0
        BY <2>1, <2>2, <2>7
      <4> QED BY <1>2, <1>4, <2>1, <2>3, <3>1, <4>1 DEF Shape, FieldStates, ValidName
    <3>4. Len(disk'[cur_name']) + remaining' = remaining' /\ disk'[cur_name'] = <<>>
      BY <2>1, <2>2, <2>3, WordNat, Lengths
    <3>5. Decoded' = Decoded \o Field \o <<>>
      BY <2>1, <2>2, <2>4, <3>1, <3>4 DEF Decoded
    <3>6. Decoded \o Field \o <<>> \o <<>> = Decoded \o Field \o <<>>
      BY <1>2, <2>5, Concat
    <3> QED BY <1>2, <2>1, <3>1, <3>2, <3>3, <3>5, <3>6 DEF IInv
  <2> QED BY <2>6, <2>7
<1> QED BY <1>3, <1>4

LEMMA OpenFailsInv ==
  ASSUME IInv, OpenFails PROVE IInv'
  BY RefuseInv DEF OpenFails, FieldStates

(* The next n bytes of chunk go to the open file.                          *)
LEMMA SpanMoves ==
  ASSUME IInv, outcome = "running", state = "Data", NEW n \in 0 .. Span
  PROVE  LET data == disk[cur_name] \o Head_(n) IN
         /\ TypeOK /\ Shape /\ pending = <<>> /\ cur_name \in Seq(Byte)
         /\ remaining - n \in 0 .. Word - 1
         /\ data \in Seq(Byte) /\ Len(data) = Len(disk[cur_name]) + n
         /\ Len(disk[cur_name]) \in Nat
         /\ DOMAIN Write(disk, cur_name, data) \subseteq Seq(Byte)
         /\ Write(disk, cur_name, data)
              \in [DOMAIN Write(disk, cur_name, data) -> Seq(Byte)]
         /\ Write(disk, cur_name, data)[cur_name] = data
         /\ cur_name \in DOMAIN Write(disk, cur_name, data)
         /\ Rest(n) \in Seq(Byte)
<1>1. TypeOK /\ Shape
  BY DEF IInv
<1>2. /\ pending = <<>> /\ cur_name \in DOMAIN disk /\ cur_name \in Seq(Byte)
      /\ chunk \in Seq(Byte) /\ remaining \in 0 .. Word - 1
      /\ DOMAIN disk \subseteq Seq(Byte) /\ disk \in [DOMAIN disk -> Seq(Byte)]
  BY <1>1 DEF TypeOK, Shape
<1>3. Len(chunk) \in Nat /\ remaining \in Nat
  BY <1>2, Lengths, WordNat
<1>4. n \in 0 .. Len(chunk) /\ remaining - n \in 0 .. Word - 1
  BY <1>2, <1>3, WordNat DEF Span
<1>5. Head_(n) \in Seq(Byte) /\ Len(Head_(n)) = n /\ Rest(n) \in Seq(Byte)
  BY <1>2, <1>4, CutChunk
<1>6. disk[cur_name] \in Seq(Byte) /\ Len(disk[cur_name]) \in Nat
  BY <1>2, Lengths
<1> DEFINE data == disk[cur_name] \o Head_(n)
<1>7. data \in Seq(Byte) /\ Len(data) = Len(disk[cur_name]) + n
  BY <1>5, <1>6, Concat
<1> HIDE DEF data
<1>8. /\ DOMAIN Write(disk, cur_name, data) = DOMAIN disk \cup {cur_name}
      /\ DOMAIN Write(disk, cur_name, data) \subseteq Seq(Byte)
      /\ Write(disk, cur_name, data)
           \in [DOMAIN Write(disk, cur_name, data) -> Seq(Byte)]
      /\ Write(disk, cur_name, data)[cur_name] = data
  BY <1>2, <1>7, WriteType
<1> QED BY <1>1, <1>2, <1>4, <1>5, <1>6, <1>7, <1>8 DEF data

LEMMA WriteFailsInv ==
  ASSUME IInv, WriteFails PROVE IInv'
<1>1. outcome = "running" /\ state = "Data" /\ outcome' = "threw"
      /\ ioError' = TRUE
      /\ UNCHANGED <<chunk, state, pending, need, count, done_count, cur_name,
                     remaining, fed, entries, accepted>>
  BY DEF WriteFails, Throw
<1>2. PICK n \in 0 .. Span :
        disk' = Write(disk, cur_name, disk[cur_name] \o Head_(n))
  BY DEF WriteFails
<1>3. TypeOK /\ DOMAIN disk' \subseteq Seq(Byte) /\ disk' \in [DOMAIN disk' -> Seq(Byte)]
  BY <1>1, <1>2, SpanMoves
<1>4. TypeOK'
  BY <1>1, <1>3 DEF TypeOK
<1> QED BY <1>1, <1>4 DEF IInv

LEMMA WriteDataInv ==
  ASSUME IInv, WriteData PROVE IInv'
<1> DEFINE old == disk[cur_name]
           new == old \o Head_(Span)
           name == AppendLE(Len(cur_name)) \o cur_name
<1>1. /\ outcome = "running" /\ state = "Data" /\ chunk' = Rest(Span)
      /\ remaining' = remaining - Span /\ disk' = Write(disk, cur_name, new)
      /\ UNCHANGED <<count, cur_name, outcome, fed, ioError>>
  BY DEF WriteData
<1>2. /\ TypeOK /\ Shape /\ fed = Decoded \o pending \o chunk
      /\ chunk \in Seq(Byte) /\ fed \in Seq(Byte) /\ Decoded \in Seq(Byte)
      /\ remaining \in Nat /\ Len(chunk) \in Nat
  <2>1. TypeOK /\ Shape /\ fed = Decoded \o pending \o chunk
    BY <1>1 DEF IInv
  <2> QED BY <2>1, DecodedType, Lengths, WordNat DEF TypeOK
<1>3. Span \in 0 .. Span /\ Span \in 0 .. Len(chunk) /\ Span \in 0 .. remaining
  BY <1>2 DEF Span
<1>4. /\ pending = <<>> /\ cur_name \in Seq(Byte)
      /\ remaining' \in 0 .. Word - 1
      /\ new \in Seq(Byte) /\ Len(new) = Len(old) + Span /\ Len(old) \in Nat
      /\ DOMAIN disk' \subseteq Seq(Byte) /\ disk' \in [DOMAIN disk' -> Seq(Byte)]
      /\ disk'[cur_name] = new /\ cur_name \in DOMAIN disk'
      /\ chunk' \in Seq(Byte)
  BY <1>1, <1>3, SpanMoves
<1>5. Head_(Span) \in Seq(Byte) /\ Head_(Span) \o Rest(Span) = chunk
  BY <1>2, <1>3, CutChunk
<1>6. old \in Seq(Byte)
  BY <1>1, <1>2 DEF TypeOK, Shape
\* The bytes written move from the head of chunk to the end of the data.
<1>7. LET front == Magic \o AppendLE(count) \o accepted \o name
                     \o AppendLE(Len(old) + remaining) IN
      fed = front \o new \o chunk' /\ front \o new \in Seq(Byte)
  <2> DEFINE front == Magic \o AppendLE(count) \o accepted \o name
                        \o AppendLE(Len(old) + remaining)
  <2>1. Decoded = front \o old
    BY <1>1 DEF Decoded
  <2>2. front \in Seq(Byte)
    <3>1. /\ accepted \in Seq(Byte) /\ AppendLE(count) \in Seq(Byte)
          /\ AppendLE(Len(cur_name)) \in Seq(Byte)
          /\ AppendLE(Len(old) + remaining) \in Seq(Byte)
      <4>1. accepted \in Seq(Byte) /\ cur_name \in Seq(Byte) /\ count \in 0 .. Word - 1
        BY <1>2 DEF TypeOK
      <4>2. count \in Nat /\ Len(cur_name) \in Nat
        BY <4>1, WordNat, Lengths
      <4> HIDE DEF old, new
      <4>3. Len(old) + remaining \in Nat
        BY <1>2, <1>4
      <4> QED BY <4>1, <4>2, <4>3, AppendLEType
    <3> QED BY <1>4, <3>1, MagicAssumption, Concat
  <2> HIDE DEF front, old
  <2>3. fed = front \o old \o chunk
    <3>1. front \o old \o <<>> = front \o old
      BY <1>2, <2>1, Concat
    <3> QED BY <1>2, <1>4, <2>1, <3>1
  <2> DEFINE head == Head_(Span)  rest == Rest(Span)
  <2>4. head \in Seq(Byte) /\ rest \in Seq(Byte) /\ head \o rest = chunk
    BY <1>1, <1>4, <1>5
  <2> HIDE DEF head, rest
  <2>5. front \o old \o (head \o rest) = front \o old \o head \o rest
    <3> DEFINE fo == front \o old
    <3>1. fo \in Seq(Byte)
      BY <1>6, <2>2, Concat
    <3> HIDE DEF fo
    <3>2. fo \o (head \o rest) = fo \o head \o rest
      <4>1. SameJoin(fo, head, rest)
        BY <2>4, <3>1, Regroup
      <4> QED BY <4>1 DEF SameJoin
    <3> QED BY <3>2 DEF fo
  <2>6. front \o old \o head = front \o (old \o head)
    <3>1. SameJoin(front, old, head)
      BY <1>6, <2>2, <2>4, Regroup
    <3> QED BY <3>1 DEF SameJoin
  <2>7. front \o (old \o head) \in Seq(Byte)
    BY <1>6, <2>2, <2>4, Concat
  <2>8. fed = front \o (old \o head) \o rest
    BY <2>3, <2>4, <2>5, <2>6
  <2> QED BY <1>1, <2>7, <2>8 DEF front, old, head, rest
<1>8. CASE Span = remaining
  <2>1. EntryDone(new)
    BY <1>8 DEF WriteData
  <2>2. AppendLE(Len(old) + remaining) = AppendLE(Len(new))
    BY <1>4, <1>8
  <2>3. fed' = EntryWire(new) \o chunk'
    BY <1>1, <1>7, <2>2 DEF EntryWire
  <2>4. done_count < count /\ ValidName(cur_name)
    BY <1>1, <1>2 DEF Shape
  <2>5. fed' \in Seq(Byte)
    BY <1>1, <1>2
  <2> HIDE DEF new
  <2> QED BY <1>1, <1>2, <1>4, <2>1, <2>3, <2>4, <2>5, EntryDoneInv
<1>9. CASE Span # remaining
  <2>1. UNCHANGED <<done_count, state, need, pending, entries, accepted>>
    BY <1>9 DEF WriteData
  <2>2. TypeOK'
    BY <1>1, <1>2, <1>4, <2>1 DEF TypeOK
  <2>3. Shape'
    <3>1. remaining' > 0
      BY <1>1, <1>2, <1>3, <1>9
    <3> QED BY <1>1, <1>2, <1>4, <2>1, <3>1 DEF Shape, ValidName, FieldStates
  <2>4. Len(new) + remaining' = Len(old) + remaining
    BY <1>1, <1>2, <1>3, <1>4
  <2>5. Decoded' = Magic \o AppendLE(count) \o accepted \o name
                     \o AppendLE(Len(old) + remaining) \o new
    <3> HIDE DEF new, old
    <3> QED BY <1>1, <1>4, <2>1, <2>4 DEF Decoded
  <2>6. Decoded' \o <<>> = Decoded' /\ fed' = Decoded' \o chunk'
    <3>1. Decoded' \in Seq(Byte)
      BY <1>7, <2>5
    <3> QED BY <1>1, <1>7, <2>5, <3>1, Concat
  <2>7. fed' = Decoded' \o pending' \o chunk'
    BY <1>4, <2>1, <2>6
  <2> QED BY <1>1, <2>2, <2>3, <2>7 DEF IInv
<1> QED BY <1>8, <1>9

-----------------------------------------------------------------------------
(* The invariant and what follows from it.                                 *)

LEMMA NextInv == IInv /\ [Next]_vars => IInv'
<1> SUFFICES ASSUME IInv, [Next]_vars PROVE IInv'
  OBVIOUS
<1>1. CASE \E span \in Spans : Feed(span)
  BY <1>1, FeedInv
<1>2. CASE WriteData
  BY <1>2, WriteDataInv
<1>3. CASE WriteFails
  BY <1>3, WriteFailsInv
<1>4. CASE TrailingBytes
  BY <1>4, TrailingBytesInv
<1>5. CASE Gather
  BY <1>5, GatherInv
<1>6. CASE ReadMagic
  BY <1>6, ReadMagicInv
<1>7. CASE ReadCount
  BY <1>7, ReadCountInv
<1>8. CASE ReadNameLen
  BY <1>8, ReadNameLenInv
<1>9. CASE ReadName
  BY <1>9, ReadNameInv
<1>10. CASE ReadDataLen
  BY <1>10, ReadDataLenInv
<1>11. CASE OpenFails
  BY <1>11, OpenFailsInv
<1>12. CASE Finish
  BY <1>12, FinishInv
<1>13. CASE UNCHANGED vars
  <2>1. /\ TypeOK' = TypeOK /\ Shape' = Shape /\ Decoded' = Decoded
    BY <1>13 DEF vars, TypeOK, Shape, Decoded
  <2> QED BY <1>13, <2>1 DEF vars, IInv
<1> QED BY <1>1, <1>2, <1>3, <1>4, <1>5, <1>6, <1>7, <1>8, <1>9, <1>10, <1>11,
           <1>12, <1>13 DEF Next

(* The inductive invariant holds in every state of every behaviour.        *)
THEOREM Invariance == Spec => []IInv
  BY InitInv, NextInv, PTL DEF Spec

(* The unpacker never leaves its types: positions and lengths stay in      *)
(* range, whatever bytes arrive.                                           *)
THEOREM TypeCorrect == Spec => []TypeOK
<1>1. IInv => TypeOK
  BY DEF IInv
<1> QED BY <1>1, Invariance, PTL

(* However the body is cut, none of its bytes is lost, repeated or moved.  *)
THEOREM NoByteLost == Spec => []NothingLost
<1>1. IInv => NothingLost
  BY DEF IInv, NothingLost
<1> QED BY <1>1, Invariance, PTL

(* When finish() returns, the body was exactly the header announcing the   *)
(* entries written and their wire image, and every name was acceptable.    *)
THEOREM FinishExact ==
  Spec => [](outcome = "ok" =>
               /\ fed = Magic \o AppendLE(Len(entries)) \o accepted
               /\ done_count = count
               /\ \A i \in 1 .. Len(entries) : ValidName(entries[i].name))
<1>1. ASSUME IInv, outcome = "ok"
      PROVE  /\ fed = Magic \o AppendLE(Len(entries)) \o accepted
             /\ done_count = count
             /\ \A i \in 1 .. Len(entries) : ValidName(entries[i].name)
  <2>1. state = "Done" /\ Shape /\ fed = Decoded
    BY <1>1 DEF IInv
  <2>2. done_count = count /\ Len(entries) = count
    BY <2>1 DEF Shape
  <2>3. Decoded = Magic \o AppendLE(count) \o accepted
    BY <2>1 DEF Decoded
  <2> QED BY <2>1, <2>2, <2>3 DEF Shape
<1>2. IInv => (outcome = "ok" =>
               /\ fed = Magic \o AppendLE(Len(entries)) \o accepted
               /\ done_count = count
               /\ \A i \in 1 .. Len(entries) : ValidName(entries[i].name))
  BY <1>1
<1> QED BY <1>2, Invariance, PTL

-----------------------------------------------------------------------------
(* Induction over the numbers, for a set in the place of a predicate: the  *)
(* order of the numbers is well-founded, so a set that is not empty has a  *)
(* least member.                                                           *)

LEMMA LeastMember ==
  ASSUME NEW T, T \subseteq Nat, T # {}
  PROVE  \E x \in T : \A y \in T : x <= y
<1> DEFINE R == OpToRel(<, Nat)
<1>1. IsWellFoundedOn(R, Nat)
  BY NatLessThanWellFounded
<1>2. \A x, y \in Nat : x < y => <<x, y>> \in R
  BY DEF OpToRel
<1> HIDE DEF R
<1>3. PICK x \in T : \A y \in T : ~(<<y, x>> \in R)
  BY <1>1, WFMin
<1>4. ASSUME NEW y \in T PROVE x <= y
  <2>1. x \in Nat /\ y \in Nat
    OBVIOUS
  <2>2. ~(y < x)
    BY <2>1, <1>2, <1>3
  <2> QED BY <2>1, <2>2
<1> QED BY <1>4

LEMMA SetInduction ==
  ASSUME NEW S, 0 \in S, \A n \in Nat : n \in S => n + 1 \in S
  PROVE  Nat \subseteq S
<1> SUFFICES ASSUME Nat \ S # {} PROVE FALSE
  OBVIOUS
<1>1. PICK x \in Nat \ S : \A y \in Nat \ S : x <= y
  <2> DEFINE T == Nat \ S
  <2>1. T \subseteq Nat /\ T # {}
    OBVIOUS
  <2> HIDE DEF T
  <2>2. \E x \in T : \A y \in T : x <= y
    BY <2>1, LeastMember
  <2> QED BY <2>2 DEF T
<1>2. x # 0 /\ x - 1 \in Nat
  BY <1>1
<1>3. x - 1 \in S
  BY <1>1, <1>2
<1> QED BY <1>1, <1>2, <1>3

-----------------------------------------------------------------------------
(* What is on the wire behind the header, one frame after the other.       *)

FlatStep(s, g, k) == IF k = 1 THEN s[k] ELSE g[k - 1] \o s[k]
Flattens(g, s, n) == g = [k \in 1 .. n |-> FlatStep(s, g, k)]

LEMMA FlattenExists == ASSUME NEW s PROVE \A n \in Nat : \E g : Flattens(g, s, n)
<1> DEFINE S == {n \in Nat : \E g : Flattens(g, s, n)}
<1>1. 0 \in S
  <2>1. Flattens([k \in 1 .. 0 |-> <<>>], s, 0)
    BY DEF Flattens
  <2> QED BY <2>1
<1>2. ASSUME NEW n \in Nat, n \in S PROVE n + 1 \in S
  <2>1. PICK g : Flattens(g, s, n)
    BY <1>2
  <2> DEFINE h == [k \in 1 .. n + 1 |-> IF k = n + 1 THEN FlatStep(s, g, k) ELSE g[k]]
  <2>2. ASSUME NEW k \in 1 .. n + 1 PROVE h[k] = FlatStep(s, h, k)
    <3>1. k # 1 => k - 1 \in 1 .. n /\ h[k - 1] = g[k - 1]
      OBVIOUS
    <3>2. FlatStep(s, g, k) = FlatStep(s, h, k)
      BY <3>1 DEF FlatStep
    <3>3. k # n + 1 => g[k] = FlatStep(s, g, k)
      BY <2>1 DEF Flattens
    <3> QED BY <3>2, <3>3
  <2>3. h = [k \in 1 .. n + 1 |-> h[k]]
    OBVIOUS
  <2> HIDE DEF h
  <2>4. Flattens(h, s, n + 1)
    BY <2>2, <2>3 DEF Flattens
  <2> QED BY <2>4
<1> HIDE DEF S
<1>3. Nat \subseteq S
  BY <1>1, <1>2, SetInduction
<1> QED BY <1>3 DEF S

(* The flattening of a sequence is determined by its elements.             *)
\* Two sequences that agree on their first n elements.
AgreeUpTo(s, t, n) == \A k \in 1 .. n : s[k] = t[k]

LEMMA FlattenAgrees ==
  ASSUME NEW s, NEW t, NEW m \in Nat, NEW n \in Nat, n <= m, AgreeUpTo(s, t, n),
         NEW g, Flattens(g, s, n), NEW h, Flattens(h, t, m)
  PROVE  AgreeUpTo(g, h, n)
<1> USE DEF AgreeUpTo
<1> DEFINE S == {k \in Nat : k \in 1 .. n => g[k] = h[k]}
<1>1. 0 \in S
  OBVIOUS
<1>2. ASSUME NEW k \in Nat, k \in S PROVE k + 1 \in S
  <2> SUFFICES ASSUME k + 1 \in 1 .. n PROVE g[k + 1] = h[k + 1]
    OBVIOUS
  <2>1. g[k + 1] = FlatStep(s, g, k + 1)
    BY DEF Flattens
  <2>2. k + 1 \in 1 .. m
    OBVIOUS
  <2>3. h[k + 1] = FlatStep(t, h, k + 1)
    BY <2>2 DEF Flattens
  <2>4. k + 1 # 1 => g[k] = h[k]
    BY <1>2
  <2> QED BY <2>1, <2>3, <2>4 DEF FlatStep
<1> HIDE DEF S
<1>3. Nat \subseteq S
  BY <1>1, <1>2, SetInduction
<1> QED BY <1>3 DEF S

LEMMA FlattenIs ==
  ASSUME NEW s, Len(s) \in Nat
  PROVE  /\ Len(s) = 0 => FlattenSeq(s) = s
         /\ Len(s) # 0 => \E g : Flattens(g, s, Len(s)) /\ FlattenSeq(s) = g[Len(s)]
<1> DEFINE f == CHOOSE g : Flattens(g, s, Len(s))
<1>1. Len(s) # 0 => FlattenSeq(s) = f[Len(s)]
  BY DEF FlattenSeq, Flattens, FlatStep
<1>2. \E g : Flattens(g, s, Len(s))
  BY FlattenExists
<1>3. Flattens(f, s, Len(s))
  BY <1>2
<1>4. Len(s) = 0 => FlattenSeq(s) = s
  BY DEF FlattenSeq
<1> HIDE DEF f
<1> QED BY <1>1, <1>3, <1>4, Zenon

LEMMA FlattenLonger ==
  ASSUME NEW s, NEW t, NEW n \in Nat, n # 0, Len(s) = n, Len(t) = n + 1,
         \A k \in 1 .. n : s[k] = t[k]
  PROVE  FlattenSeq(t) = FlattenSeq(s) \o t[n + 1]
<1>1. PICK g : Flattens(g, s, n) /\ FlattenSeq(s) = g[n]
  BY FlattenIs
<1>2. PICK h : Flattens(h, t, n + 1) /\ FlattenSeq(t) = h[n + 1]
  BY FlattenIs
<1>3. \A k \in 1 .. n : g[k] = h[k]
  <2>1. n + 1 \in Nat /\ n <= n + 1
    OBVIOUS
  <2>2. Flattens(g, s, n) /\ Flattens(h, t, n + 1)
    BY <1>1, <1>2
  <2>3. AgreeUpTo(s, t, n)
    BY DEF AgreeUpTo
  <2>4. AgreeUpTo(g, h, n)
    BY <2>1, <2>2, <2>3, FlattenAgrees
  <2> QED BY <2>4 DEF AgreeUpTo
<1>4. h[n + 1] = FlatStep(t, h, n + 1)
  <2>1. n + 1 \in 1 .. n + 1
    OBVIOUS
  <2> QED BY <1>2, <2>1 DEF Flattens
<1>5. h[n + 1] = h[n] \o t[n + 1]
  <2>1. n + 1 # 1 /\ (n + 1) - 1 = n
    OBVIOUS
  <2> QED BY <1>4, <2>1 DEF FlatStep
<1>6. g[n] = h[n]
  BY <1>3
<1> QED BY <1>1, <1>2, <1>5, <1>6

LEMMA FlattenAppend ==
  ASSUME NEW s \in Seq(Seq(Byte)), NEW x \in Seq(Byte)
  PROVE  FlattenSeq(Append(s, x)) = FlattenSeq(s) \o x
<1> DEFINE t == Append(s, x)
<1>1. /\ Len(s) \in Nat /\ Len(t) = Len(s) + 1 /\ t[Len(s) + 1] = x
      /\ \A k \in 1 .. Len(s) : s[k] = t[k]
  OBVIOUS
<1>2. CASE Len(s) # 0
  <2> HIDE DEF t
  <2>1. FlattenSeq(t) = FlattenSeq(s) \o t[Len(s) + 1]
    BY <1>1, <1>2, FlattenLonger
  <2> QED BY <1>1, <2>1 DEF t
<1>3. CASE Len(s) = 0
  <2>1. FlattenSeq(s) = <<>>
    BY <1>3, FlattenIs
  <2> HIDE DEF t
  <2>2. PICK h : Flattens(h, t, 1) /\ FlattenSeq(t) = h[1]
    <3>1. Len(t) = 1 /\ Len(t) \in Nat /\ Len(t) # 0
      BY <1>1, <1>3
    <3>2. \E h : Flattens(h, t, Len(t)) /\ FlattenSeq(t) = h[Len(t)]
      BY <3>1, FlattenIs
    <3> QED BY <3>1, <3>2
  <2>3. h[1] = x
    BY <1>1, <1>3, <2>2 DEF Flattens, FlatStep
  <2> QED BY <2>1, <2>2, <2>3, Concat DEF t
<1> QED BY <1>2, <1>3

-----------------------------------------------------------------------------
(* What is on disk: the directory left by the entries, in order.           *)

DirStep(es, d, k) ==
    IF k = 0 THEN EmptyDir ELSE Write(d[k - 1], es[k].name, es[k].data)
Extracts(d, es, n) == d = [k \in 0 .. n |-> DirStep(es, d, k)]

LEMMA ExtractExists == ASSUME NEW es PROVE \A n \in Nat : \E d : Extracts(d, es, n)
<1> DEFINE S == {n \in Nat : \E d : Extracts(d, es, n)}
<1>1. 0 \in S
  <2> DEFINE d == [k \in 0 .. 0 |-> EmptyDir]
  <2>1. \A k \in 0 .. 0 : DirStep(es, d, k) = EmptyDir
    BY DEF DirStep
  <2>2. d = [k \in 0 .. 0 |-> DirStep(es, d, k)]
    BY <2>1
  <2>3. Extracts(d, es, 0)
    BY <2>2 DEF Extracts
  <2> QED BY <2>3
<1>2. ASSUME NEW n \in Nat, n \in S PROVE n + 1 \in S
  <2>1. PICK d : Extracts(d, es, n)
    BY <1>2
  <2> DEFINE h == [k \in 0 .. n + 1 |-> IF k = n + 1 THEN DirStep(es, d, k) ELSE d[k]]
  <2>2. ASSUME NEW k \in 0 .. n + 1 PROVE h[k] = DirStep(es, h, k)
    <3>1. k # 0 => k - 1 \in 0 .. n /\ h[k - 1] = d[k - 1]
      OBVIOUS
    <3>2. DirStep(es, d, k) = DirStep(es, h, k)
      BY <3>1 DEF DirStep
    <3>3. k # n + 1 => d[k] = DirStep(es, d, k)
      BY <2>1 DEF Extracts
    <3> QED BY <3>2, <3>3
  <2>3. h = [k \in 0 .. n + 1 |-> h[k]]
    OBVIOUS
  <2> HIDE DEF h
  <2>4. Extracts(h, es, n + 1)
    BY <2>2, <2>3 DEF Extracts
  <2> QED BY <2>4
<1> HIDE DEF S
<1>3. Nat \subseteq S
  BY <1>1, <1>2, SetInduction
<1> QED BY <1>3 DEF S

LEMMA ExtractAgrees ==
  ASSUME NEW es, NEW fs, NEW m \in Nat, NEW n \in Nat, n <= m,
         \A k \in 1 .. n : es[k] = fs[k],
         NEW d, Extracts(d, es, n), NEW h, Extracts(h, fs, m)
  PROVE  \A k \in 0 .. n : d[k] = h[k]
<1> DEFINE S == {k \in Nat : k \in 0 .. n => d[k] = h[k]}
<1>1. 0 \in S
  BY DEF Extracts, DirStep
<1>2. ASSUME NEW k \in Nat, k \in S PROVE k + 1 \in S
  <2> SUFFICES ASSUME k + 1 \in 0 .. n PROVE d[k + 1] = h[k + 1]
    OBVIOUS
  <2>1. d[k + 1] = DirStep(es, d, k + 1)
    BY DEF Extracts
  <2>2. k + 1 \in 0 .. m /\ k + 1 \in 1 .. n
    OBVIOUS
  <2>3. h[k + 1] = DirStep(fs, h, k + 1)
    BY <2>2 DEF Extracts
  <2>4. d[k] = h[k] /\ es[k + 1] = fs[k + 1]
    BY <1>2, <2>2
  <2> QED BY <2>1, <2>3, <2>4 DEF DirStep
<1> HIDE DEF S
<1>3. Nat \subseteq S
  BY <1>1, <1>2, SetInduction
<1> QED BY <1>3 DEF S

LEMMA ExtractIs ==
  ASSUME NEW es, Len(es) \in Nat
  PROVE  \E d : Extracts(d, es, Len(es)) /\ Extract(es) = d[Len(es)]
<1>1. Extract(es) = (CHOOSE d : Extracts(d, es, Len(es)))[Len(es)]
  BY DEF Extract, Extracts, DirStep
<1>2. \E d : Extracts(d, es, Len(es))
  BY ExtractExists
<1>3. Extracts(CHOOSE d : Extracts(d, es, Len(es)), es, Len(es))
  BY <1>2
<1> QED BY <1>1, <1>3

LEMMA ExtractNothing == Extract(<<>>) = EmptyDir
<1>1. Len(<<>>) = 0
  OBVIOUS
<1>2. PICK d : Extracts(d, <<>>, 0) /\ Extract(<<>>) = d[0]
  BY <1>1, ExtractIs
<1> QED BY <1>2 DEF Extracts, DirStep

LEMMA ExtractAppend ==
  ASSUME NEW es \in Seq(Entry), NEW e \in Entry
  PROVE  Extract(Append(es, e)) = Write(Extract(es), e.name, e.data)
<1> DEFINE fs == Append(es, e)
           n == Len(es)
<1>1. /\ n \in Nat /\ Len(fs) = n + 1 /\ fs[n + 1] = e
      /\ \A k \in 1 .. n : es[k] = fs[k]
  OBVIOUS
<1>2. PICK d : Extracts(d, es, n) /\ Extract(es) = d[n]
  BY <1>1, ExtractIs
<1> HIDE DEF fs, n
<1>3. PICK h : Extracts(h, fs, n + 1) /\ Extract(fs) = h[n + 1]
  BY <1>1, ExtractIs
<1>4. \A k \in 0 .. n : d[k] = h[k]
  BY <1>1, <1>2, <1>3, ExtractAgrees
<1>5. h[n + 1] = Write(h[n], e.name, e.data)
  BY <1>1, <1>3 DEF Extracts, DirStep
<1> QED BY <1>1, <1>2, <1>3, <1>4, <1>5 DEF fs

(* What is written is what was on the wire: an unfinished file is written  *)
(* over what the entries before it have left.                              *)
FramesOf(es) == [k \in DOMAIN es |-> Frame(es[k])]

Written ==
    /\ accepted = FlattenSeq(FramesOf(entries))
    /\ outcome # "threw" =>
          disk = IF state = "Data" THEN Write(Extract(entries), cur_name, disk[cur_name])
                                   ELSE Extract(entries)

LEMMA FramesAppend ==
  ASSUME NEW es \in Seq(Entry), NEW e \in Entry
  PROVE  FlattenSeq(FramesOf(Append(es, e))) = FlattenSeq(FramesOf(es)) \o Frame(e)
<1>1. Len(es) \in Nat /\ DOMAIN es = 1 .. Len(es) /\ \A k \in 1 .. Len(es) : es[k] \in Entry
  OBVIOUS
<1>2. FramesOf(es) \in Seq(Seq(Byte)) /\ Len(FramesOf(es)) = Len(es)
  <2>1. FramesOf(es) \in [1 .. Len(es) -> Seq(Byte)]
    BY <1>1, FrameType DEF FramesOf
  <2> QED BY <1>1, <2>1
<1>3. FramesOf(Append(es, e)) = Append(FramesOf(es), Frame(e))
  <2>1. /\ DOMAIN Append(es, e) = 1 .. Len(es) + 1
        /\ \A k \in 1 .. Len(es) + 1 :
              Append(es, e)[k] = IF k = Len(es) + 1 THEN e ELSE es[k]
    BY <1>1
  <2>2. FramesOf(Append(es, e)) =
           [k \in 1 .. Len(es) + 1 |-> IF k = Len(es) + 1 THEN Frame(e) ELSE Frame(es[k])]
    BY <2>1 DEF FramesOf
  <2>3. \A k \in 1 .. Len(es) : FramesOf(es)[k] = Frame(es[k])
    BY <1>1 DEF FramesOf
  <2>4. ASSUME NEW s \in Seq(Seq(Byte)), NEW x \in Seq(Byte)
        PROVE  Append(s, x) = [k \in 1 .. Len(s) + 1 |-> IF k = Len(s) + 1 THEN x ELSE s[k]]
    <3>1. Len(s) \in Nat /\ Append(s, x) = [k \in 1 .. Len(s) + 1 |-> Append(s, x)[k]]
      <4> DEFINE t == Append(s, x)
      <4>1. t \in Seq(Seq(Byte)) /\ Len(t) = Len(s) + 1 /\ Len(s) \in Nat
        BY AppendProperties
      <4> HIDE DEF t
      <4>2. t = [k \in 1 .. Len(t) |-> t[k]]
        BY <4>1
      <4> QED BY <4>1, <4>2 DEF t
    <3>2. \A k \in 1 .. Len(s) + 1 : Append(s, x)[k] = IF k = Len(s) + 1 THEN x ELSE s[k]
      BY <3>1, AppendProperties
    <3> QED BY <3>1, <3>2
  <2>5. Append(FramesOf(es), Frame(e)) =
           [k \in 1 .. Len(es) + 1 |-> IF k = Len(es) + 1 THEN Frame(e) ELSE FramesOf(es)[k]]
    BY <1>2, <2>4, FrameType
  <2> QED BY <2>2, <2>3, <2>5
<1> QED BY <1>2, <1>3, FrameType, FlattenAppend

LEMMA WriteTwice ==
  ASSUME NEW dir, NEW name, NEW x, NEW y
  PROVE  /\ Write(Write(dir, name, x), name, y) = Write(dir, name, y)
         /\ Write(dir, name, x)[name] = x
BY DEF Write

\* An entry is complete when its file has the data of the entry.
LEMMA EntryIsWritten ==
  ASSUME TypeOK, Written, outcome = "running", NEW data \in Seq(Byte), EntryDone(data),
         disk' = Write(Extract(entries), cur_name, data)
  PROVE  Written'
<1> DEFINE e == [name |-> cur_name, data |-> data]
<1>1. e \in Entry /\ entries \in Seq(Entry) /\ e.name = cur_name /\ e.data = data
  BY DEF TypeOK, Entry
<1>2. entries' = Append(entries, e) /\ accepted' = accepted \o Frame(e) /\ state' # "Data"
  BY DEF EntryDone
<1> HIDE DEF e
<1>3. accepted' = FlattenSeq(FramesOf(entries'))
  BY <1>1, <1>2, FramesAppend DEF Written
<1>4. Extract(entries') = Write(Extract(entries), cur_name, data)
  BY <1>1, <1>2, ExtractAppend
<1>5. (disk = IF state = "Data" THEN Write(Extract(entries), cur_name, disk[cur_name])
                                ELSE Extract(entries))'
  BY <1>2, <1>4
<1> QED BY <1>3, <1>5 DEF Written, FramesOf

LEMMA WrittenInit == Init => Written
<1> SUFFICES ASSUME Init PROVE Written
  OBVIOUS
<1>1. entries = <<>> /\ accepted = <<>> /\ state = "Magic" /\ disk = EmptyDir
  BY DEF Init
<1>2. FramesOf(entries) = <<>> /\ Len(<<>>) = 0
  BY <1>1 DEF FramesOf
<1>3. FlattenSeq(<<>>) = <<>>
  BY <1>2, FlattenIs
<1> QED BY <1>1, <1>2, <1>3, ExtractNothing DEF Written

LEMMA WrittenNext == IInv /\ Written /\ [Next]_vars => Written'
<1> SUFFICES ASSUME IInv, Written, [Next]_vars PROVE Written'
  OBVIOUS
<1>1. TypeOK
  BY DEF IInv
<1>2. ASSUME UNCHANGED <<entries, accepted>>, outcome' = "threw" PROVE Written'
  BY <1>2 DEF Written
<1>3. ASSUME UNCHANGED <<entries, accepted, disk>>, outcome' = outcome,
             (state # "Data" /\ state' # "Data") \/ UNCHANGED <<state, cur_name>>
      PROVE  Written'
  BY <1>3 DEF Written
<1>4. CASE Gather \/ ReadMagic \/ ReadCount \/ ReadNameLen \/ ReadName
  BY <1>4, <1>2, <1>3 DEF Gather, ReadMagic, ReadCount, ReadNameLen, ReadName, Complete, Refuse,
     Throw, FieldStates
<1>5. CASE OpenFails \/ TrailingBytes \/ WriteFails
  BY <1>5, <1>2 DEF OpenFails, TrailingBytes, WriteFails, Refuse, Throw
<1>6. CASE (\E span \in Spans : Feed(span)) \/ UNCHANGED vars
  BY <1>6, <1>3 DEF Feed, vars
<1>7. CASE Finish
  BY <1>7 DEF Finish, Written
<1>8. CASE ReadDataLen
  <2> USE <1>8
  <2>0. /\ state = "DataLen" /\ outcome = "running"
        /\ Refuse => outcome' = "threw" /\ UNCHANGED <<entries, accepted>>
        /\ ~Refuse => outcome' = outcome
    BY DEF ReadDataLen, Refuse, Throw, Complete
  <2>1. CASE outcome' = "threw"
    BY <2>0, <2>1, <1>2
  <2>2. CASE outcome' # "threw"
    <3>1. /\ state = "DataLen" /\ outcome = "running" /\ outcome' = outcome
          /\ cur_name' = cur_name /\ disk' = Write(disk, cur_name, <<>>)
          /\ EntryDone(<<>>) \/ (state' = "Data" /\ UNCHANGED <<entries, accepted>>)
      BY <2>0, <2>2 DEF ReadDataLen
    <3>2. disk' = Write(Extract(entries), cur_name, <<>>)
      BY <3>1 DEF Written
    <3>3. CASE EntryDone(<<>>)
      BY <1>1, <3>1, <3>2, <3>3, EntryIsWritten, Lengths
    <3>4. CASE state' = "Data" /\ UNCHANGED <<entries, accepted>>
      BY <3>1, <3>2, <3>4, WriteTwice DEF Written
    <3> QED BY <3>1, <3>3, <3>4
  <2> QED BY <2>1, <2>2
<1>9. CASE WriteData
  <2> DEFINE data == disk[cur_name] \o Head_(Span)
  <2>1. /\ state = "Data" /\ outcome = "running" /\ outcome' = outcome
        /\ cur_name' = cur_name /\ disk' = Write(disk, cur_name, data)
        /\ EntryDone(data) \/ UNCHANGED <<state, entries, accepted>>
    BY <1>9 DEF WriteData
  <2>2. disk = Write(Extract(entries), cur_name, disk[cur_name])
    BY <2>1 DEF Written
  <2>3. data \in Seq(Byte)
    <3>1. remaining >= Span /\ Span \in 0 .. Span
      BY <1>1, <2>1, Lengths DEF Span, TypeOK
    <3> QED BY <2>1, <3>1, SpanMoves
  <2> HIDE DEF data
  <2>4. disk' = Write(Extract(entries), cur_name, data)
    BY <2>1, <2>2, WriteTwice
  <2>5. CASE EntryDone(data)
    BY <1>1, <2>1, <2>3, <2>4, <2>5, EntryIsWritten
  <2>6. CASE UNCHANGED <<state, entries, accepted>>
    <3>1. disk'[cur_name'] = data
      BY <2>1, <2>4, WriteTwice
    <3> QED BY <2>1, <2>4, <2>6, <3>1 DEF Written
  <2> QED BY <2>1, <2>5, <2>6
<1> QED BY <1>4, <1>5, <1>6, <1>7, <1>8, <1>9 DEF Next

(* When finish() returns, the body was, to the byte, the archive of the    *)
(* entries extracted, as many as it announced, all with acceptable names,  *)
(* and the directory holds those entries and no torn file.                 *)
THEOREM UnpacksSoundly == Spec => []UnpackSound
<1>1. IInv /\ Written => UnpackSound
  <2> SUFFICES ASSUME IInv, Written, outcome = "ok" PROVE UnpackSound
    BY DEF UnpackSound
  <2>1. state = "Done" /\ Shape /\ fed = Decoded
    BY DEF IInv
  <2>2. done_count = count /\ Len(entries) = count
    BY <2>1 DEF Shape
  <2>3. fed = Magic \o AppendLE(Len(entries)) \o accepted
    BY <2>1, <2>2 DEF Decoded
  <2>4. fed = Pack(entries) /\ disk = Extract(entries)
    BY <2>1, <2>3 DEF Written, FramesOf, Pack
  <2>5. \A i \in DOMAIN entries : ValidName(entries[i].name)
    <3>1. DOMAIN entries = 1 .. Len(entries)
      BY DEF IInv, TypeOK
    <3> QED BY <2>1, <3>1 DEF Shape
  <2> QED BY <2>2, <2>4, <2>5 DEF UnpackSound
<1> QED BY <1>1, Invariance, WrittenInit, WrittenNext, PTL DEF Spec

-----------------------------------------------------------------------------
(* An archive is read in one way only: behind a list of entries comes the  *)
(* frame of the next one, and a frame determines its entry.                *)

LEMMA SameLength ==
  ASSUME NEW a \in Seq(Byte), NEW b \in Seq(Byte), NEW c \in Seq(Byte), NEW d \in Seq(Byte),
         a \o b = c \o d, Len(a) = Len(c)
  PROVE  a = c /\ b = d
<1>1. Len(a) \in Nat /\ Len(b) \in Nat /\ Len(d) \in Nat
  BY Lengths
<1>2. ASSUME NEW k \in 1 .. Len(a) PROVE a[k] = c[k]
  <2>1. k \in 1 .. Len(a) + Len(b) /\ k \in 1 .. Len(c) + Len(d) /\ k <= Len(a) /\ k <= Len(c)
    BY <1>1
  <2>2. (a \o b)[k] = a[k] /\ (c \o d)[k] = c[k]
    BY <2>1, ConcatProperties
  <2> QED BY <2>2
<1>3. a = c
  BY <1>1, <1>2, SeqEqual
<1> QED BY <1>3, ConcatSimplifications

LEMMA Cancel ==
  \A a, b, d \in Seq(Byte) : a \o b = a \o d => b = d
  BY SameLength

(* A field that is written is read back.                                   *)
LEMMA ReadAppendLE ==
  ASSUME NEW v \in 0 .. Word - 1
  PROVE  ReadLE(AppendLE(v)) = v
<1> DEFINE q == v \div Base
<1>1. q \in Nat /\ v % Base \in 0 .. Base - 1 /\ v = Base * q + (v % Base)
  BY BaseAssumption, WordNat
<1>2. q < Base
  <2> SUFFICES ASSUME q >= Base PROVE FALSE
    BY <1>1, BaseAssumption
  <2>1. Base * q >= Base * Base
    BY <1>1, BaseAssumption
  <2> QED BY <1>1, <2>1, BaseAssumption DEF Word
<1>3. q % Base = q
  BY <1>1, <1>2, BaseAssumption
<1>4. AppendLE(v) = <<v % Base, q>>
  BY <1>3 DEF AppendLE
<1> HIDE DEF q
<1> QED BY <1>1, <1>4, BaseAssumption DEF ReadLE

First(l, n) == SubSeq(l, 1, n)
Wire(l) == FlattenSeq(FramesOf(l))

LEMMA FirstOf ==
  ASSUME NEW l \in Seq(Entry), NEW n \in 0 .. Len(l)
  PROVE  /\ First(l, n) \in Seq(Entry) /\ Len(First(l, n)) = n
         /\ \A k \in 1 .. n : First(l, n)[k] = l[k]
         /\ First(l, 0) = <<>> /\ First(l, Len(l)) = l
         /\ n < Len(l) => First(l, n + 1) = Append(First(l, n), l[n + 1])
<1>1. Len(l) \in Nat /\ l = [k \in 1 .. Len(l) |-> l[k]] /\ \A k \in 1 .. Len(l) : l[k] \in Entry
  OBVIOUS
<1>2. \A m \in 0 .. Len(l) : First(l, m) = [k \in 1 .. m |-> l[k]]
  BY <1>1 DEF First
<1>3. First(l, n) \in Seq(Entry) /\ Len(First(l, n)) = n /\ \A k \in 1 .. n : First(l, n)[k] = l[k]
  <2>1. First(l, n) = [k \in 1 .. n |-> l[k]] /\ n \in Nat /\ \A k \in 1 .. n : l[k] \in Entry
    BY <1>1, <1>2
  <2> QED BY <2>1
<1>4. First(l, 0) = <<>> /\ First(l, Len(l)) = l
  <2>1. First(l, 0) = [k \in 1 .. 0 |-> l[k]] /\ First(l, Len(l)) = [k \in 1 .. Len(l) |-> l[k]]
    BY <1>1, <1>2
  <2> QED BY <1>1, <2>1
<1>5. ASSUME n < Len(l) PROVE First(l, n + 1) = Append(First(l, n), l[n + 1])
  <2>1. n + 1 \in 0 .. Len(l) /\ l[n + 1] \in Entry
    BY <1>1, <1>5
  <2>2. First(l, n + 1) = [k \in 1 .. n + 1 |-> l[k]]
    BY <1>2, <2>1
  <2>3. First(l, n + 1) \in Seq(Entry) /\ Append(First(l, n), l[n + 1]) \in Seq(Entry)
    BY <1>1, <1>3, <2>1, <2>2
  <2>4. Len(First(l, n + 1)) = n + 1 /\ Len(Append(First(l, n), l[n + 1])) = n + 1
    BY <1>3, <2>1, <2>2
  <2>5. \A k \in 1 .. n + 1 : First(l, n + 1)[k] = Append(First(l, n), l[n + 1])[k]
    BY <1>3, <2>1, <2>2
  <2> QED BY <2>3, <2>4, <2>5, SeqEqual
<1> QED BY <1>3, <1>4, <1>5

LEMMA WireAppend ==
  ASSUME NEW l \in Seq(Entry), NEW n \in Nat, n < Len(l)
  PROVE  l[n + 1] \in Entry /\ Wire(First(l, n + 1)) = Wire(First(l, n)) \o Frame(l[n + 1])
<1>1. n \in 0 .. Len(l) /\ n + 1 \in 1 .. Len(l) /\ l[n + 1] \in Entry
  OBVIOUS
<1>2. First(l, n) \in Seq(Entry) /\ First(l, n + 1) = Append(First(l, n), l[n + 1])
  BY <1>1, FirstOf
<1> QED BY <1>1, <1>2, FramesAppend DEF Wire

LEMMA WireType ==
  ASSUME NEW l \in Seq(Entry)
  PROVE  \A n \in 0 .. Len(l) : Wire(First(l, n)) \in Seq(Byte)
<1> DEFINE S == {n \in Nat : n <= Len(l) => Wire(First(l, n)) \in Seq(Byte)}
<1>1. 0 \in S
  <2>1. First(l, 0) = <<>>
    BY FirstOf
  <2>2. FramesOf(<<>>) = <<>> /\ Len(<<>>) = 0
    BY DEF FramesOf
  <2>3. FlattenSeq(<<>>) = <<>>
    BY <2>2, FlattenIs
  <2> QED BY <2>1, <2>2, <2>3, Lengths DEF Wire
<1>2. ASSUME NEW n \in Nat, n \in S PROVE n + 1 \in S
  <2> SUFFICES ASSUME n + 1 <= Len(l) PROVE Wire(First(l, n + 1)) \in Seq(Byte)
    OBVIOUS
  <2>1. n < Len(l) /\ Wire(First(l, n)) \in Seq(Byte)
    BY <1>2
  <2>2. /\ l[n + 1] \in Entry
        /\ Wire(First(l, n + 1)) = Wire(First(l, n)) \o Frame(l[n + 1])
    BY <2>1, WireAppend
  <2>3. Frame(l[n + 1]) \in Seq(Byte)
    BY <2>2, FrameType
  <2>4. Wire(First(l, n)) \o Frame(l[n + 1]) \in Seq(Byte)
    BY <2>1, <2>3, Concat
  <2> QED BY <2>2, <2>4
<1> HIDE DEF S
<1>3. Nat \subseteq S
  BY <1>1, <1>2, SetInduction
<1> QED BY <1>3 DEF S

LEMMA WireSplits ==
  ASSUME NEW l \in Seq(Entry), NEW n \in 0 .. Len(l)
  PROVE  \E r \in Seq(Byte) : Wire(l) = Wire(First(l, n)) \o r
<1> DEFINE Splits(m) == \E r \in Seq(Byte) : Wire(First(l, n + m)) = Wire(First(l, n)) \o r
           S == {m \in Nat : n + m <= Len(l) => Splits(m)}
<1>1. 0 \in S
  <2>1. Wire(First(l, n)) = Wire(First(l, n)) \o <<>> /\ n + 0 = n
    BY WireType, Concat
  <2>2. Splits(0)
    BY <2>1, Lengths
  <2> QED BY <2>2
<1>2. ASSUME NEW m \in Nat, m \in S PROVE m + 1 \in S
  <2> SUFFICES ASSUME n + m + 1 <= Len(l) PROVE Splits(m + 1)
    OBVIOUS
  <2>1. PICK r \in Seq(Byte) : Wire(First(l, n + m)) = Wire(First(l, n)) \o r
    BY <1>2
  <2>2. /\ l[n + m + 1] \in Entry
        /\ Wire(First(l, n + m + 1)) = Wire(First(l, n + m)) \o Frame(l[n + m + 1])
    BY WireAppend
  <2>3. Frame(l[n + m + 1]) \in Seq(Byte) /\ Wire(First(l, n)) \in Seq(Byte)
    BY <2>2, FrameType, WireType
  <2>4. Wire(First(l, n + m + 1)) = Wire(First(l, n)) \o (r \o Frame(l[n + m + 1]))
    <3>1. (Wire(First(l, n)) \o r) \o Frame(l[n + m + 1])
             = Wire(First(l, n)) \o (r \o Frame(l[n + m + 1]))
      <4>1. SameJoin(Wire(First(l, n)), r, Frame(l[n + m + 1]))
        BY <2>3, Regroup
      <4> QED BY <4>1 DEF SameJoin
    <3> QED BY <2>1, <2>2, <3>1
  <2>5. n + (m + 1) = n + m + 1 /\ r \o Frame(l[n + m + 1]) \in Seq(Byte)
    BY <2>3, Concat
  <2> QED BY <2>4, <2>5
<1> HIDE DEF S
<1>3. Nat \subseteq S
  BY <1>1, <1>2, SetInduction
<1>4. Len(l) - n \in S /\ n + (Len(l) - n) = Len(l)
  <2>1. Len(l) - n \in Nat
    OBVIOUS
  <2> QED BY <1>3, <2>1
<1>5. Splits(Len(l) - n)
  <2>1. ASSUME NEW m \in S, n + m <= Len(l) PROVE Splits(m)
    BY <2>1 DEF S
  <2> HIDE DEF Splits
  <2> QED BY <1>4, <2>1
<1>6. First(l, Len(l)) = l
  BY FirstOf
<1> QED BY <1>4, <1>5, <1>6

Header(n) == Magic \o AppendLE(n)

(* The archive of l, seen from behind its first n entries.                 *)
LEMMA PackNext ==
  ASSUME NEW l \in Seq(Entry), NEW n \in 0 .. Len(l)
  PROVE  /\ Header(Len(l)) \in Seq(Byte) /\ Wire(First(l, n)) \in Seq(Byte)
         /\ n = Len(l) => Pack(l) = Header(n) \o Wire(First(l, n))
         /\ n < Len(l) =>
               /\ l[n + 1] \in Entry
               /\ \E r \in Seq(Byte) :
                     Pack(l) = (Header(Len(l)) \o Wire(First(l, n))) \o (Frame(l[n + 1]) \o r)
<1>1. Len(l) \in Nat /\ Magic \in Seq(Byte) /\ AppendLE(Len(l)) \in Seq(Byte)
  BY MagicAssumption, AppendLEType
<1>2. Header(Len(l)) \in Seq(Byte) /\ Wire(First(l, n)) \in Seq(Byte)
  BY <1>1, Concat, WireType DEF Header
<1>3. Pack(l) = Header(Len(l)) \o Wire(l)
  BY DEF Pack, Header, Wire, FramesOf
<1>4. ASSUME n = Len(l) PROVE Pack(l) = Header(n) \o Wire(First(l, n))
  BY <1>3, <1>4, FirstOf
<1>5. ASSUME n < Len(l)
      PROVE  /\ l[n + 1] \in Entry
             /\ \E r \in Seq(Byte) :
                   Pack(l) = (Header(Len(l)) \o Wire(First(l, n))) \o (Frame(l[n + 1]) \o r)
  <2>1. n + 1 \in 0 .. Len(l)
    BY <1>5
  <2>2. PICK r \in Seq(Byte) : Wire(l) = Wire(First(l, n + 1)) \o r
    BY <2>1, WireSplits
  <2>3. l[n + 1] \in Entry /\ Wire(First(l, n + 1)) = Wire(First(l, n)) \o Frame(l[n + 1])
    BY <1>5, WireAppend
  <2>4. Frame(l[n + 1]) \in Seq(Byte)
    BY <2>3, FrameType
  <2>5. Wire(l) = Wire(First(l, n)) \o (Frame(l[n + 1]) \o r)
    <3>1. (Wire(First(l, n)) \o Frame(l[n + 1])) \o r = Wire(First(l, n)) \o (Frame(l[n + 1]) \o r)
      <4>1. SameJoin(Wire(First(l, n)), Frame(l[n + 1]), r)
        BY <1>2, <2>4, Regroup
      <4> QED BY <4>1 DEF SameJoin
    <3> QED BY <2>2, <2>3, <3>1
  <2>6. Frame(l[n + 1]) \o r \in Seq(Byte)
    BY <2>4, Concat
  <2>7. Pack(l) = (Header(Len(l)) \o Wire(First(l, n))) \o (Frame(l[n + 1]) \o r)
    <3>1. (Header(Len(l)) \o Wire(First(l, n))) \o (Frame(l[n + 1]) \o r)
             = Header(Len(l)) \o (Wire(First(l, n)) \o (Frame(l[n + 1]) \o r))
      <4>1. SameJoin(Header(Len(l)), Wire(First(l, n)), Frame(l[n + 1]) \o r)
        BY <1>2, <2>6, Regroup
      <4> QED BY <4>1 DEF SameJoin
    <3> QED BY <1>3, <2>5, <3>1
  <2> QED BY <2>3, <2>7
<1> QED BY <1>2, <1>4, <1>5

LEMMA Listed ==
  ASSUME NEW l \in Lists
  PROVE  /\ l \in Seq(Entry) /\ Len(l) \in 0 .. Word - 1
         /\ \A k \in 1 .. Len(l) :
               /\ l[k] \in Entry /\ ValidName(l[k].name)
               /\ l[k].name \in Seq(Byte) /\ l[k].data \in Seq(Byte)
               /\ Len(l[k].name) \in 1 .. MaxNameLen /\ Len(l[k].name) \in 0 .. Word - 1
               /\ Len(l[k].data) \in 0 .. Word - 1
<1>1. /\ l \in Seq(Entry) /\ Len(l) < Word
      /\ \A k \in DOMAIN l : /\ ValidName(l[k].name) /\ Len(l[k].name) \in 1 .. MaxNameLen
                             /\ Len(l[k].data) < Word
  BY ListsAssumption
<1>2. Len(l) \in Nat /\ DOMAIN l = 1 .. Len(l) /\ \A k \in 1 .. Len(l) : l[k] \in Entry
  BY <1>1
<1>3. ASSUME NEW k \in 1 .. Len(l)
      PROVE  l[k].name \in Seq(Byte) /\ l[k].data \in Seq(Byte)
  BY <1>2 DEF Entry
<1> QED BY <1>1, <1>2, <1>3, Lengths, WordNat, NameAssumption

(* A frame is four fields.                                                 *)
LEMMA FrameFields ==
  ASSUME NEW e \in Entry, NEW r \in Seq(Byte)
  PROVE  LET N == AppendLE(Len(e.name))
             D == AppendLE(Len(e.data))
         IN  /\ N \in Seq(Byte) /\ Len(N) = Width /\ D \in Seq(Byte) /\ Len(D) = Width
             /\ e.name \in Seq(Byte) /\ e.data \in Seq(Byte)
             /\ e.data \o r \in Seq(Byte) /\ D \o (e.data \o r) \in Seq(Byte)
             /\ e.name \o (D \o (e.data \o r)) \in Seq(Byte)
             /\ Frame(e) \o r = N \o (e.name \o (D \o (e.data \o r)))
<1> DEFINE N == AppendLE(Len(e.name))
           D == AppendLE(Len(e.data))
           name == e.name
           data == e.data
           P == (N \o name) \o D
           dr == data \o r
<1>1. name \in Seq(Byte) /\ data \in Seq(Byte)
  BY DEF Entry
<1>2. N \in Seq(Byte) /\ Len(N) = Width /\ D \in Seq(Byte) /\ Len(D) = Width
  BY <1>1, Lengths, AppendLEType
<1>3. Frame(e) = P \o data
  BY DEF Frame
<1> HIDE DEF N, D, name, data
<1>4. /\ dr \in Seq(Byte) /\ D \o dr \in Seq(Byte)
      /\ name \o (D \o dr) \in Seq(Byte)
      /\ P \in Seq(Byte)
  BY <1>1, <1>2, Concat
<1>5. (P \o data) \o r = P \o dr
  <2>1. P \in Seq(Byte) /\ data \in Seq(Byte) /\ r \in Seq(Byte)
    BY <1>1, <1>4
  <2> HIDE DEF P
  <2>2. (P \o data) \o r = P \o (data \o r)
    <3>1. SameJoin(P, data, r)
      BY <2>1, Regroup
    <3> QED BY <3>1 DEF SameJoin
  <2> QED BY <2>2
<1>6. P \o dr = N \o (name \o (D \o dr))
  <2> HIDE DEF dr
  <2> DEFINE xy == N \o name
             zw == D \o dr
  <2>1. xy \in Seq(Byte) /\ zw \in Seq(Byte) /\ N \in Seq(Byte) /\ name \in Seq(Byte)
        /\ D \in Seq(Byte) /\ dr \in Seq(Byte)
    BY <1>1, <1>2, <1>4, Concat
  <2>2. xy \o zw = N \o (name \o zw)
    <3> HIDE DEF zw
    <3>1. N \in Seq(Byte) /\ name \in Seq(Byte) /\ zw \in Seq(Byte)
      BY <2>1
    <3>9. SameJoin(N, name, zw)
      BY <3>1, Regroup
    <3> QED BY <3>9 DEF SameJoin
  <2>3. (xy \o D) \o dr = xy \o zw
    <3> HIDE DEF xy
    <3>1. xy \in Seq(Byte) /\ D \in Seq(Byte) /\ dr \in Seq(Byte)
      BY <2>1
    <3>9. SameJoin(xy, D, dr)
      BY <3>1, Regroup
    <3> QED BY <3>9 DEF SameJoin
  <2> QED BY <2>2, <2>3
<1> QED BY <1>1, <1>2, <1>3, <1>4, <1>5, <1>6 DEF N, D, name, data

(* Two frames of the same name and length at one place are the same.       *)
LEMMA FrameIsOne ==
  ASSUME NEW e \in Entry, NEW f \in Entry, NEW r \in Seq(Byte), NEW t \in Seq(Byte),
         e.name = f.name, Len(e.data) = Len(f.data), Frame(e) \o r = Frame(f) \o t
  PROVE  e.data = f.data
<1> DEFINE N == AppendLE(Len(e.name))
           D == AppendLE(Len(e.data))
<1>1. /\ N \in Seq(Byte) /\ D \in Seq(Byte)
      /\ e.name \in Seq(Byte) /\ e.data \in Seq(Byte) /\ f.data \in Seq(Byte)
      /\ e.data \o r \in Seq(Byte) /\ D \o (e.data \o r) \in Seq(Byte)
      /\ f.data \o t \in Seq(Byte) /\ D \o (f.data \o t) \in Seq(Byte)
      /\ e.name \o (D \o (e.data \o r)) \in Seq(Byte)
      /\ e.name \o (D \o (f.data \o t)) \in Seq(Byte)
      /\ Frame(e) \o r = N \o (e.name \o (D \o (e.data \o r)))
      /\ Frame(f) \o t = N \o (e.name \o (D \o (f.data \o t)))
  <2> DEFINE M == AppendLE(Len(f.name))
             E == AppendLE(Len(f.data))
  <2>1. /\ N \in Seq(Byte) /\ D \in Seq(Byte) /\ e.name \in Seq(Byte) /\ e.data \in Seq(Byte)
        /\ e.data \o r \in Seq(Byte) /\ D \o (e.data \o r) \in Seq(Byte)
        /\ e.name \o (D \o (e.data \o r)) \in Seq(Byte)
        /\ Frame(e) \o r = N \o (e.name \o (D \o (e.data \o r)))
    BY FrameFields
  <2>2. /\ f.data \in Seq(Byte) /\ f.data \o t \in Seq(Byte) /\ E \o (f.data \o t) \in Seq(Byte)
        /\ f.name \o (E \o (f.data \o t)) \in Seq(Byte)
        /\ Frame(f) \o t = M \o (f.name \o (E \o (f.data \o t)))
    BY FrameFields
  <2>3. M = N /\ E = D /\ f.name = e.name
    OBVIOUS
  <2> HIDE DEF N, D, M, E
  <2> QED BY <2>1, <2>2, <2>3, Zenon
<1> DEFINE x == D \o (e.data \o r)
           y == D \o (f.data \o t)
<1>2. N \o (e.name \o x) = N \o (e.name \o y)
  BY <1>1
<1>3. x \in Seq(Byte) /\ y \in Seq(Byte) /\ e.name \o x \in Seq(Byte) /\ e.name \o y \in Seq(Byte)
  BY <1>1
<1>4. x = y
  <2> HIDE DEF N, x, y
  <2>1. e.name \o x = e.name \o y
    <3> DEFINE ex == e.name \o x
               ey == e.name \o y
    <3> HIDE DEF ex, ey
    <3>2. N \in Seq(Byte) /\ ex \in Seq(Byte) /\ ey \in Seq(Byte) /\ N \o ex = N \o ey
      BY <1>1, <1>2, <1>3 DEF ex, ey
    <3>1. ex = ey
      BY <3>2, Cancel
    <3> QED BY <3>1 DEF ex, ey
  <2>2. e.name \in Seq(Byte) /\ x \in Seq(Byte) /\ y \in Seq(Byte)
    BY <1>1, <1>3
  <2> QED BY <2>1, <2>2, Cancel
<1>5. e.data \o r = f.data \o t
  <2> HIDE DEF N, D
  <2> DEFINE er == e.data \o r
             ft == f.data \o t
  <2>1. er \in Seq(Byte) /\ ft \in Seq(Byte) /\ D \o er = D \o ft
    BY <1>1, <1>4
  <2> HIDE DEF er, ft
  <2>3. D \in Seq(Byte)
    BY <1>1
  <2>2. er = ft
    BY <2>1, <2>3, Cancel
  <2> QED BY <2>2 DEF er, ft
<1> QED BY <1>1, <1>5, SameLength

(* Every byte string that another one begins with can be continued to it.  *)
LEMMA PrefixContinues ==
  ASSUME NEW s \in Seq(Byte), NEW t \in Seq(Byte), IsPrefix(s, t)
  PROVE  \E more \in Seq(Byte) : s \o more = t
<1>1. Len(s) \in Nat /\ Len(t) \in Nat /\ Len(s) <= Len(t)
  BY Lengths DEF IsPrefix
<1>2. SubSeq(t, 1, Len(s)) = s
  BY <1>1, SubSeqFull DEF IsPrefix
<1>3. SubSeq(t, Len(s) + 1, Len(t)) \in Seq(Byte)
  <2>1. \A k \in 1 .. Len(t) : t[k] \in Byte
    BY ElementOfSeq
  <2> QED BY <1>1, <2>1, SubSeqProperties
<1>4. SubSeq(t, 1, Len(s)) \o SubSeq(t, Len(s) + 1, Len(t)) = SubSeq(t, 1, Len(t))
  <2>1. 1 \in 1 .. Len(t) + 1 /\ Len(s) \in 1 - 1 .. Len(t) /\ Len(t) \in Len(s) .. Len(t)
    BY <1>1
  <2> QED BY <2>1, ConcatAdjacentSubSeq
<1> QED BY <1>2, <1>3, <1>4, SubSeqFull

-----------------------------------------------------------------------------
(* As long as the bytes fed may become the archive of l, what is decoded   *)
(* agrees with l, and so does the field that is read next.                 *)

Continues(l) == \E more \in Seq(Byte) : fed \o more = Pack(l)

Follows(l) ==
    LET n == Len(entries) IN
    /\ n <= Len(l) /\ entries = First(l, n)
    /\ state \notin {"Magic", "Count"} => count = Len(l)
    /\ state = "Name" => need = Len(l[n + 1].name)
    /\ state \in {"DataLen", "Data"} => cur_name = l[n + 1].name
    /\ state = "Data" => Len(disk[cur_name]) + remaining = Len(l[n + 1].data)

Missed(l) == fed # Pack(l) /\ (FeedThrew => ~Continues(l))

CInv ==
    /\ state = "Data" => need = Width
    /\ outcome = "running" => \A l \in Lists : Continues(l) => Follows(l)
    /\ outcome = "threw" /\ ~ioError => \A l \in Lists : Missed(l)

\* The field l would have next.
Awaited(l) ==
    LET f == l[Len(entries) + 1] IN
    CASE state = "Magic" -> Magic
      [] state = "Count" -> AppendLE(Len(l))
      [] state = "NameLen" -> AppendLE(Len(f.name))
      [] state = "Name" -> f.name
      [] state = "DataLen" -> AppendLE(Len(f.data))

(* The archive of l behind what is decoded, while an entry is to come.     *)
LEMMA Ahead ==
  ASSUME TypeOK, Shape, Written, NEW l \in Lists, Follows(l),
         state \in {"NameLen", "Name", "DataLen", "Data"}
  PROVE  LET A == Magic \o AppendLE(count) \o accepted
             f == l[Len(entries) + 1]
         IN  /\ A \in Seq(Byte) /\ f \in Entry /\ Len(entries) + 1 \in 1 .. Len(l)
             /\ \E r \in Seq(Byte) : Pack(l) = A \o (Frame(f) \o r)
<1> DEFINE n == Len(entries)
<1>1. l \in Seq(Entry) /\ Len(l) \in Nat /\ n \in Nat
  BY Listed, WordNat DEF TypeOK
<1>2. n < Len(l) /\ count = Len(l) /\ entries = First(l, n)
  BY DEF Shape, Follows
<1>3. n \in 0 .. Len(l) /\ n + 1 \in 1 .. Len(l)
  BY <1>1, <1>2
<1>4. accepted = Wire(First(l, n)) /\ Magic \o AppendLE(count) = Header(Len(l))
  BY <1>2 DEF Written, Wire, Header
<1> HIDE DEF n
<1>5. /\ Header(Len(l)) \in Seq(Byte) /\ Wire(First(l, n)) \in Seq(Byte) /\ l[n + 1] \in Entry
      /\ \E r \in Seq(Byte) :
            Pack(l) = (Header(Len(l)) \o Wire(First(l, n))) \o (Frame(l[n + 1]) \o r)
  BY <1>1, <1>2, <1>3, PackNext
<1>6. Header(Len(l)) \o Wire(First(l, n)) \in Seq(Byte)
  BY <1>5, Concat
<1> QED BY <1>3, <1>4, <1>5, <1>6 DEF n

LEMMA AwaitedComes ==
  ASSUME TypeOK, Shape, Written, NEW l \in Lists, Follows(l), state \in FieldStates
  PROVE  /\ Decoded \in Seq(Byte) /\ Awaited(l) \in Seq(Byte) /\ Len(Awaited(l)) = need
         /\ \E y \in Seq(Byte) : Pack(l) = Decoded \o (Awaited(l) \o y)
<1> DEFINE A == Magic \o AppendLE(count) \o accepted
           f == l[Len(entries) + 1]
           N == AppendLE(Len(f.name))
           D == AppendLE(Len(f.data))
<1>0. Decoded \in Seq(Byte)
  BY DecodedType
<1>1. CASE state \in {"Magic", "Count"}
  <2>1. l \in Seq(Entry) /\ Len(l) \in Nat /\ 0 \in 0 .. Len(l) /\ Len(entries) = 0
    BY <1>1, Listed DEF Shape
  <2>2. Magic \in Seq(Byte) /\ AppendLE(Len(l)) \in Seq(Byte) /\ Len(AppendLE(Len(l))) = Width
    BY <2>1, MagicAssumption, AppendLEType
  <2>3. PICK w \in Seq(Byte) : Pack(l) = (Magic \o AppendLE(Len(l))) \o w
    <3>1. First(l, Len(l)) = l /\ Len(l) \in 0 .. Len(l)
      BY <2>1, FirstOf
    <3>2. Wire(l) \in Seq(Byte)
      BY <2>1, <3>1, WireType
    <3>3. Pack(l) = (Magic \o AppendLE(Len(l))) \o Wire(l)
      BY DEF Pack, Wire, FramesOf
    <3> QED BY <3>2, <3>3
  <2>4. (Magic \o AppendLE(Len(l))) \o w = Magic \o (AppendLE(Len(l)) \o w)
    <3>1. SameJoin(Magic, AppendLE(Len(l)), w)
      BY <2>2, Regroup
    <3> QED BY <3>1 DEF SameJoin
  <2>5. AppendLE(Len(l)) \o w \in Seq(Byte)
    BY <2>2, Concat
  <2>6. CASE state = "Magic"
    <3>1. Awaited(l) = Magic /\ Decoded = <<>> /\ need = Len(Magic)
      BY <2>6 DEF Awaited, Decoded, Shape
    <3>2. Magic \o (AppendLE(Len(l)) \o w) \in Seq(Byte)
      BY <2>2, <2>5, Concat
    <3>3. <<>> \o (Magic \o (AppendLE(Len(l)) \o w)) = Magic \o (AppendLE(Len(l)) \o w)
      BY <3>2, Concat
    <3> QED BY <1>0, <2>2, <2>3, <2>4, <2>5, <3>1, <3>3
  <2>7. CASE state = "Count"
    <3>1. Awaited(l) = AppendLE(Len(l)) /\ Decoded = Magic /\ need = Width
      BY <2>7 DEF Awaited, Decoded, Shape
    <3> QED BY <1>0, <2>2, <2>3, <2>4, <3>1
  <2> QED BY <1>1, <2>6, <2>7
<1>2. CASE state \in {"NameLen", "Name", "DataLen"}
  <2>1. A \in Seq(Byte) /\ f \in Entry /\ \E r \in Seq(Byte) : Pack(l) = A \o (Frame(f) \o r)
    BY <1>2, Ahead
  <2>2. PICK r \in Seq(Byte) : Pack(l) = A \o (Frame(f) \o r)
    BY <2>1
  <2> DEFINE d == f.data \o r
             y == D \o d
             x == f.name \o y
  <2>3. /\ N \in Seq(Byte) /\ Len(N) = Width /\ D \in Seq(Byte) /\ Len(D) = Width
        /\ f.name \in Seq(Byte) /\ d \in Seq(Byte) /\ y \in Seq(Byte) /\ x \in Seq(Byte)
        /\ Frame(f) \o r = N \o x
    <3> HIDE DEF A, f
    <3> QED BY <2>1, FrameFields
  <2>4. CASE state = "NameLen"
    <3>1. Awaited(l) = N /\ Decoded = A /\ need = Width
      BY <2>4 DEF Awaited, Decoded, Shape
    <3> HIDE DEF A, N, D, f, x
    <3> QED BY <1>0, <2>2, <2>3, <3>1
  <2>5. CASE state = "Name"
    <3>1. Awaited(l) = f.name /\ Decoded = A \o N /\ need = Len(f.name)
      BY <2>5 DEF Awaited, Decoded, Follows
    <3> HIDE DEF A, N, D, f, y
    <3> HIDE DEF x
    <3>3. A \in Seq(Byte) /\ N \in Seq(Byte) /\ x \in Seq(Byte)
      BY <2>1, <2>3
    <3>2. A \o (N \o x) = (A \o N) \o x
      <4>1. SameJoin(A, N, x)
        BY <3>3, Regroup
      <4> QED BY <4>1 DEF SameJoin
    <3>4. Pack(l) = Decoded \o x
      BY <2>2, <2>3, <3>1, <3>2
    <3>5. Pack(l) = Decoded \o (Awaited(l) \o y)
      BY <3>1, <3>4 DEF x
    <3> QED BY <1>0, <2>3, <3>1, <3>5
  <2>6. CASE state = "DataLen"
    <3>1. Awaited(l) = D /\ Decoded = A \o (N \o f.name) /\ need = Width
      BY <2>6 DEF Awaited, Decoded, Follows, Shape
    <3> HIDE DEF A, N, D, f, d
    <3>2. A \o (N \o x) = A \o ((N \o f.name) \o y) /\ N \o f.name \in Seq(Byte)
      <4>1. N \o (f.name \o y) = (N \o f.name) \o y
        <5> DEFINE fn == f.name
        <5>1. N \in Seq(Byte) /\ fn \in Seq(Byte) /\ y \in Seq(Byte)
          BY <2>3
        <5> HIDE DEF fn, y
        <5>2. (N \o fn) \o y = N \o (fn \o y)
          <6>1. SameJoin(N, fn, y)
            BY <5>1, Regroup
          <6> QED BY <6>1 DEF SameJoin
        <5> QED BY <5>2 DEF fn
      <4>2. N \o f.name \in Seq(Byte)
        BY <2>3, Concat
      <4> QED BY <4>1, <4>2
    <3>3. A \o ((N \o f.name) \o y) = (A \o (N \o f.name)) \o y
      <4> DEFINE nf == N \o f.name
      <4> HIDE DEF y, nf
      <4>1. A \in Seq(Byte) /\ nf \in Seq(Byte) /\ y \in Seq(Byte)
        BY <2>1, <2>3, <3>2 DEF nf
      <4>2. (A \o nf) \o y = A \o (nf \o y)
        <5>1. SameJoin(A, nf, y)
          BY <4>1, Regroup
        <5> QED BY <5>1 DEF SameJoin
      <4> QED BY <4>2 DEF nf
    <3> QED BY <1>0, <2>2, <2>3, <3>1, <3>2, <3>3
  <2> QED BY <1>2, <2>4, <2>5, <2>6
<1> QED BY <1>1, <1>2 DEF FieldStates

(* The field that is completed is the awaited one.                         *)
LEMMA FieldAwaited ==
  ASSUME IInv, Written, CInv, NEW l \in Lists, NEW s \in FieldStates, Complete(s), Continues(l)'
  PROVE  Follows(l) /\ Field = Awaited(l) /\ state = s
<1>1. /\ TypeOK /\ Shape /\ state = s /\ outcome = "running"
      /\ Field \in Seq(Byte) /\ Len(Field) = need /\ chunk' \in Seq(Byte)
      /\ fed' = Decoded \o Field \o <<>> \o chunk' /\ fed' = fed
  BY FieldMoves DEF Complete
<1>2. PICK more \in Seq(Byte) : fed' \o more = Pack(l)
  BY DEF Continues, Pack
<1>3. Follows(l)
  BY <1>1, <1>2 DEF CInv, Continues
<1>4. /\ Decoded \in Seq(Byte) /\ Awaited(l) \in Seq(Byte) /\ Len(Awaited(l)) = need
      /\ \E y \in Seq(Byte) : Pack(l) = Decoded \o (Awaited(l) \o y)
  BY <1>1, <1>3, AwaitedComes
<1>5. PICK y \in Seq(Byte) : Pack(l) = Decoded \o (Awaited(l) \o y)
  BY <1>4
<1>6. Decoded \o Field \o <<>> = Decoded \o Field /\ Decoded \o Field \in Seq(Byte)
  BY <1>1, <1>4, Concat
<1>7. /\ chunk' \o more \in Seq(Byte) /\ Field \o (chunk' \o more) \in Seq(Byte)
      /\ Awaited(l) \o y \in Seq(Byte)
  BY <1>1, <1>4, Concat
<1>8. fed' \o more = Decoded \o (Field \o (chunk' \o more))
  <2> DEFINE d == Decoded
             g == Field
             c == chunk'
  <2>1. d \in Seq(Byte) /\ g \in Seq(Byte) /\ c \in Seq(Byte) /\ fed' = (d \o g) \o c
    BY <1>1, <1>4, <1>6
  <2> HIDE DEF d, g, c
  <2>2. d \in Seq(Byte) /\ g \in Seq(Byte) /\ c \in Seq(Byte)
    BY <2>1
  <2>3. ((d \o g) \o c) \o more = d \o (g \o (c \o more))
    <3> DEFINE xy == d \o g
               zw == c \o more
    <3>1. xy \in Seq(Byte) /\ zw \in Seq(Byte) /\ d \in Seq(Byte) /\ g \in Seq(Byte)
          /\ c \in Seq(Byte) /\ more \in Seq(Byte)
      BY <2>2, Concat
    <3>2. xy \o zw = d \o (g \o zw)
      <4> HIDE DEF zw
      <4>1. d \in Seq(Byte) /\ g \in Seq(Byte) /\ zw \in Seq(Byte)
        BY <3>1
      <4>9. SameJoin(d, g, zw)
        BY <4>1, Regroup
      <4> QED BY <4>9 DEF SameJoin
    <3>3. (xy \o c) \o more = xy \o zw
      <4> HIDE DEF xy
      <4>1. xy \in Seq(Byte) /\ c \in Seq(Byte) /\ more \in Seq(Byte)
        BY <3>1
      <4>9. SameJoin(xy, c, more)
        BY <4>1, Regroup
      <4> QED BY <4>9 DEF SameJoin
    <3> QED BY <3>2, <3>3
  <2> QED BY <2>1, <2>3 DEF d, g, c
<1>9. Field \o (chunk' \o more) = Awaited(l) \o y
  BY <1>2, <1>4, <1>5, <1>7, <1>8, SameLength
<1> QED BY <1>1, <1>3, <1>4, <1>7, <1>9, SameLength

(* An entry that is completed is the next one of l.                        *)
LEMMA EntryAgrees ==
  ASSUME TypeOK, Shape, Written, NEW l \in Lists, Follows(l), state \in {"DataLen", "Data"},
         NEW data \in Seq(Byte), EntryDone(data), IInv', outcome' = "running",
         count' = count, Len(data) = Len(l[Len(entries) + 1].data), Continues(l)'
  PROVE  Follows(l)'
<1> DEFINE n == Len(entries)
           A == Magic \o AppendLE(count) \o accepted
           f == l[n + 1]
           e == [name |-> cur_name, data |-> data]
<1>1. /\ A \in Seq(Byte) /\ f \in Entry /\ n + 1 \in 1 .. Len(l)
      /\ \E r \in Seq(Byte) : Pack(l) = A \o (Frame(f) \o r)
  BY Ahead
<1>2. PICK r \in Seq(Byte) : Pack(l) = A \o (Frame(f) \o r)
  BY <1>1
<1>3. PICK more \in Seq(Byte) : fed' \o more = Pack(l)
  BY DEF Continues, Pack
<1>4. /\ state' \in {"NameLen", "Done"} /\ pending' = <<>>
      /\ entries' = Append(entries, e) /\ accepted' = accepted \o Frame(e)
  BY DEF EntryDone
<1>5. e \in Entry /\ e.name = f.name /\ e.data = data /\ cur_name = f.name
  BY DEF TypeOK, Entry, Follows
<1>6. /\ accepted \in Seq(Byte) /\ Frame(e) \in Seq(Byte) /\ Frame(f) \in Seq(Byte)
      /\ Magic \o AppendLE(count) \in Seq(Byte) /\ chunk' \in Seq(Byte)
  <2>1. accepted \in Seq(Byte) /\ count \in Nat /\ Magic \in Seq(Byte) /\ chunk' \in Seq(Byte)
    BY MagicAssumption, WordNat DEF TypeOK, IInv
  <2>2. AppendLE(count) \in Seq(Byte)
    BY <2>1, AppendLEType
  <2>3. Magic \o AppendLE(count) \in Seq(Byte)
    BY <2>1, <2>2, Concat
  <2> QED BY <1>1, <1>5, <2>1, <2>3, FrameType
<1>7. fed' = (A \o Frame(e)) \o chunk'
  <2>1. fed' = Decoded' \o <<>> \o chunk'
    BY <1>4 DEF IInv
  <2>2. Decoded' = Magic \o AppendLE(count) \o (accepted \o Frame(e))
    BY <1>4 DEF Decoded
  <2> HIDE DEF e
  <2>3. Magic \o AppendLE(count) \o (accepted \o Frame(e)) = A \o Frame(e)
    <3> DEFINE h == Magic \o AppendLE(count)
               g == Frame(e)
    <3>1. h \in Seq(Byte) /\ g \in Seq(Byte) /\ accepted \in Seq(Byte)
      BY <1>6
    <3> HIDE DEF h, g
    <3>2. (h \o accepted) \o g = h \o (accepted \o g)
      <4>1. SameJoin(h, accepted, g)
        BY <3>1, Regroup
      <4> QED BY <4>1 DEF SameJoin
    <3> QED BY <3>2 DEF h, g
  <2>4. A \o Frame(e) \in Seq(Byte)
    BY <1>1, <1>6, Concat
  <2> HIDE DEF A
  <2>5. A \o Frame(e) \o <<>> = A \o Frame(e)
    BY <2>4, Concat
  <2> QED BY <2>1, <2>2, <2>3, <2>5
<1> HIDE DEF A, e, f
<1>8. chunk' \o more \in Seq(Byte) /\ Frame(e) \o (chunk' \o more) \in Seq(Byte)
      /\ Frame(f) \o r \in Seq(Byte) /\ A \o Frame(e) \in Seq(Byte)
  BY <1>1, <1>6, Concat
<1> DEFINE g == Frame(e)
           c == chunk'
           w == Frame(f) \o r
<1>9. fed' \o more = A \o (g \o (c \o more))
  <2>1. g \in Seq(Byte) /\ c \in Seq(Byte) /\ fed' = (A \o g) \o c
    BY <1>6, <1>7
  <2> HIDE DEF g, c
  <2>2. A \in Seq(Byte) /\ g \in Seq(Byte) /\ c \in Seq(Byte)
    BY <1>1, <2>1
  <2>3. ((A \o g) \o c) \o more = A \o (g \o (c \o more))
    <3> DEFINE xy == A \o g
               zw == c \o more
    <3>1. xy \in Seq(Byte) /\ zw \in Seq(Byte) /\ A \in Seq(Byte) /\ g \in Seq(Byte)
          /\ c \in Seq(Byte) /\ more \in Seq(Byte)
      BY <2>2, Concat
    <3>2. xy \o zw = A \o (g \o zw)
      <4> HIDE DEF zw
      <4>1. A \in Seq(Byte) /\ g \in Seq(Byte) /\ zw \in Seq(Byte)
        BY <3>1
      <4>9. SameJoin(A, g, zw)
        BY <4>1, Regroup
      <4> QED BY <4>9 DEF SameJoin
    <3>3. (xy \o c) \o more = xy \o zw
      <4> HIDE DEF xy
      <4>1. xy \in Seq(Byte) /\ c \in Seq(Byte) /\ more \in Seq(Byte)
        BY <3>1
      <4>9. SameJoin(xy, c, more)
        BY <4>1, Regroup
      <4> QED BY <4>9 DEF SameJoin
    <3> QED BY <3>2, <3>3
  <2> QED BY <2>1, <2>3
<1>10. Frame(e) \o (chunk' \o more) = Frame(f) \o r
  <2> DEFINE v == g \o (c \o more)
  <2>1. v \in Seq(Byte) /\ w \in Seq(Byte)
    BY <1>8
  <2>2. A \o v = A \o w
    BY <1>2, <1>3, <1>9
  <2> HIDE DEF v, w
  <2>3. v = w
    BY <1>1, <2>1, <2>2, Cancel
  <2> QED BY <2>3 DEF v, w
<1>11. e.data = f.data
  <2>1. Len(e.data) = Len(f.data)
    BY <1>5 DEF f
  <2> QED BY <1>1, <1>5, <1>8, <1>10, <2>1, FrameIsOne
<1>12. e = f
  <2>1. e = [name |-> e.name, data |-> e.data] /\ f = [name |-> f.name, data |-> f.data]
    BY <1>1, <1>5 DEF Entry
  <2> QED BY <1>5, <1>11, <2>1
<1>13. /\ l \in Seq(Entry) /\ n \in 0 .. Len(l) /\ n < Len(l) /\ entries = First(l, n)
       /\ entries \in Seq(Entry) /\ n \in Nat /\ Len(l) \in Nat
  <2>1. l \in Seq(Entry) /\ Len(l) \in Nat /\ entries \in Seq(Entry) /\ n \in Nat
    BY Listed DEF TypeOK
  <2> QED BY <1>1, <2>1 DEF Follows
<1>14. entries' = First(l, n + 1)
  <2>1. First(l, n + 1) = Append(First(l, n), l[n + 1])
    BY <1>13, FirstOf
  <2> QED BY <1>4, <1>12, <1>13, <2>1 DEF f
<1>15. Len(entries') = n + 1 /\ n + 1 <= Len(l)
  <2>1. Len(Append(entries, e)) = Len(entries) + 1
    BY <1>5, <1>13, AppendProperties
  <2> QED BY <1>4, <1>13, <2>1
<1>16. count = Len(l)
  BY DEF Follows
<1> HIDE DEF n
<1> QED BY <1>4, <1>14, <1>15, <1>16 DEF Follows, First

-----------------------------------------------------------------------------
(* What every action does to CInv.                                         *)

LEMMA FollowsInit == Init => CInv
<1> SUFFICES ASSUME Init, NEW l \in Lists PROVE Follows(l)
  BY DEF CInv, Init
<1>1. state = "Magic" /\ entries = <<>> /\ Len(entries) = 0
  BY DEF Init
<1>2. l \in Seq(Entry) /\ Len(l) \in Nat /\ 0 \in 0 .. Len(l)
  BY Listed
<1>3. First(l, 0) = <<>>
  BY <1>2, FirstOf
<1> QED BY <1>1, <1>2, <1>3 DEF Follows

LEMMA RunsOn ==
  ASSUME CInv, state' = "Data" => need' = Width, outcome' = "running",
         \A l \in Lists : Continues(l)' => Follows(l)'
  PROVE  CInv'
  BY DEF CInv

LEMMA GivesUp ==
  ASSUME IInv', state' = "Data" => need' = Width, outcome' = "threw",
         ioError' \/ \A l \in Lists : ~Continues(l)'
  PROVE  CInv'
<1> SUFFICES ASSUME NEW l \in Lists, ~Continues(l)' PROVE Missed(l)'
  BY DEF CInv
<1>1. fed' \in Seq(Byte) /\ <<>> \in Seq(Byte) /\ fed' \o <<>> = fed'
  BY Concat, Lengths DEF IInv, TypeOK
<1>2. fed' # Pack(l)
  BY <1>1 DEF Continues, Pack
<1>3. Missed(l)' <=> fed' # Pack(l) /\ (FeedThrew' => ~Continues(l)')
  BY DEF Missed, Pack
<1> QED BY <1>2, <1>3

LEMMA FeedFollows ==
  ASSUME IInv, CInv, NEW span \in Spans, Feed(span) PROVE CInv'
<1>1. /\ outcome = "running" /\ outcome' = outcome /\ fed' = fed \o span
      /\ UNCHANGED <<state, need, count, cur_name, remaining, disk, entries>>
  BY DEF Feed
<1>2. span \in Seq(Byte) /\ fed \in Seq(Byte)
  BY SpanAssumption DEF IInv, TypeOK
<1>3. ASSUME NEW l \in Lists, Continues(l)' PROVE Follows(l)'
  <2>1. PICK more \in Seq(Byte) : fed' \o more = Pack(l)
    BY <1>3 DEF Continues, Pack
  <2>2. fed \o (span \o more) = Pack(l) /\ span \o more \in Seq(Byte)
    <3>1. span \in Seq(Byte) /\ fed \in Seq(Byte) /\ more \in Seq(Byte)
      BY <1>2
    <3>2. SameJoin(fed, span, more)
      BY <3>1, Regroup
    <3>3. (fed \o span) \o more = fed \o (span \o more)
      BY <3>2 DEF SameJoin
    <3>4. span \o more \in Seq(Byte)
      BY <3>1, Concat
    <3> QED BY <1>1, <2>1, <3>3, <3>4
  <2>3. Follows(l)
    BY <1>1, <2>2 DEF CInv, Continues
  <2> QED BY <1>1, <2>3 DEF Follows, First
<1>4. state' = "Data" => need' = Width
  BY <1>1 DEF CInv
<1> QED BY <1>1, <1>3, <1>4, RunsOn

LEMMA GatherFollows ==
  ASSUME CInv, Gather PROVE CInv'
<1>1. /\ outcome = "running" /\ outcome' = outcome
      /\ UNCHANGED <<fed, state, need, count, cur_name, remaining, disk, entries>>
  BY DEF Gather
<1>2. ASSUME NEW l \in Lists, Continues(l)' PROVE Follows(l)'
  <2>1. Follows(l)
    BY <1>1, <1>2 DEF CInv, Continues, Pack
  <2> QED BY <1>1, <2>1 DEF Follows, First
<1>3. state' = "Data" => need' = Width
  BY <1>1 DEF CInv
<1> QED BY <1>1, <1>2, <1>3, RunsOn

\* Behind the last entry of l, all of its archive is decoded.
LEMMA WholeDecoded ==
  ASSUME TypeOK, Shape, Written, NEW l \in Lists, Follows(l), state = "Done"
  PROVE  Decoded = Pack(l)
<1> DEFINE n == Len(entries)
<1>1. l \in Seq(Entry) /\ n = Len(l) /\ n \in 0 .. Len(l) /\ count = Len(l) /\ entries = First(l, n)
  <2>1. l \in Seq(Entry) /\ Len(l) \in Nat /\ n \in Nat
    BY Listed DEF TypeOK
  <2> QED BY <2>1 DEF Shape, Follows
<1>2. Decoded = Magic \o AppendLE(count) \o accepted
  BY DEF Decoded
<1>3. accepted = Wire(First(l, n))
  BY <1>1 DEF Written, Wire
<1> HIDE DEF n
<1>4. Pack(l) = Header(n) \o Wire(First(l, n))
  BY <1>1, PackNext
<1> QED BY <1>1, <1>2, <1>3, <1>4 DEF Header

LEMMA TrailingBytesFollows ==
  ASSUME IInv, IInv', Written, CInv, TrailingBytes PROVE CInv'
<1>1. /\ outcome = "running" /\ chunk # <<>> /\ state = "Done" /\ outcome' = "threw"
      /\ state' = state /\ fed' = fed
  BY DEF TrailingBytes, Throw
<1>2. /\ TypeOK /\ Shape /\ pending = <<>> /\ fed = Decoded \o pending \o chunk
      /\ Decoded \in Seq(Byte) /\ chunk \in Seq(Byte)
  <2>1. TypeOK /\ Shape /\ fed = Decoded \o pending \o chunk
    BY <1>1 DEF IInv
  <2> QED BY <1>1, <2>1, DecodedType DEF Shape, TypeOK
<1>3. fed = Decoded \o chunk /\ fed \in Seq(Byte)
  BY <1>2, Concat
<1>4. ASSUME NEW l \in Lists, Continues(l)' PROVE FALSE
  <2>1. PICK more \in Seq(Byte) : fed \o more = Pack(l)
    BY <1>1, <1>4 DEF Continues, Pack
  <2>2. Follows(l)
    BY <1>1, <2>1 DEF CInv, Continues
  <2>3. Decoded = Pack(l)
    BY <1>1, <1>2, <2>2, WholeDecoded
  <2>4. Len(fed \o more) = Len(Decoded) + Len(chunk) + Len(more)
    BY <1>2, <1>3, Concat
  <2>5. Len(chunk) \in Nat /\ Len(more) \in Nat /\ Len(Decoded) \in Nat
    BY <1>2, Lengths
  <2>6. Len(chunk) = 0
    BY <2>1, <2>3, <2>4, <2>5
  <2> QED BY <1>1, <1>2, <2>6, Lengths
<1> QED BY <1>1, <1>4, GivesUp

\* A body that ends early is shorter than any archive it agrees with.
LEMMA TooShort ==
  ASSUME IInv, Written, CInv, outcome = "running", chunk = <<>>, state # "Done",
         NEW l \in Lists, Follows(l)
  PROVE  fed # Pack(l)
<1>1. /\ TypeOK /\ Shape /\ Decoded \in Seq(Byte) /\ pending \in Seq(Byte)
      /\ fed = Decoded \o pending
  <2>1. TypeOK /\ Shape /\ fed = Decoded \o pending \o <<>>
    BY DEF IInv
  <2>2. Decoded \in Seq(Byte) /\ pending \in Seq(Byte)
    BY <2>1, DecodedType DEF TypeOK
  <2>3. Decoded \o pending \in Seq(Byte)
    BY <2>2, Concat
  <2> QED BY <2>1, <2>2, <2>3, Concat
<1>2. Len(fed) = Len(Decoded) + Len(pending) /\ Len(Decoded) \in Nat /\ Len(pending) \in Nat
  BY <1>1, Concat, Lengths
<1>3. CASE state \in FieldStates
  <2>1. /\ Awaited(l) \in Seq(Byte) /\ Len(Awaited(l)) = need
        /\ \E y \in Seq(Byte) : Pack(l) = Decoded \o (Awaited(l) \o y)
    BY <1>1, <1>3, AwaitedComes
  <2>2. PICK y \in Seq(Byte) : Pack(l) = Decoded \o (Awaited(l) \o y)
    BY <2>1
  <2>3. Len(Pack(l)) = Len(Decoded) + need + Len(y) /\ Len(y) \in Nat /\ need \in Nat
    <3>1. Awaited(l) \o y \in Seq(Byte) /\ Len(Awaited(l) \o y) = need + Len(y)
      BY <2>1, Concat
    <3>2. Len(Pack(l)) = Len(Decoded) + Len(Awaited(l) \o y)
      BY <1>1, <2>2, <3>1, Concat
    <3>3. Len(y) \in Nat /\ need \in Nat
      BY <1>1, Lengths DEF TypeOK
    <3> QED BY <1>2, <3>1, <3>2, <3>3
  <2>4. Len(pending) < need
    BY <1>1, <1>3 DEF Shape
  <2> QED BY <1>2, <2>3, <2>4
<1>4. CASE state = "Data"
  <2> DEFINE A == Magic \o AppendLE(count) \o accepted
             f == l[Len(entries) + 1]
             data == disk[cur_name]
             N == AppendLE(Len(cur_name))
             D == AppendLE(Len(data) + remaining)
  <2>1. A \in Seq(Byte) /\ f \in Entry /\ \E r \in Seq(Byte) : Pack(l) = A \o (Frame(f) \o r)
    BY <1>1, <1>4, Ahead
  <2>2. PICK r \in Seq(Byte) : Pack(l) = A \o (Frame(f) \o r)
    BY <2>1
  <2>3. cur_name = f.name /\ Len(data) + remaining = Len(f.data)
    BY <1>4 DEF Follows
  <2>4. /\ cur_name \in Seq(Byte) /\ data \in Seq(Byte) /\ pending = <<>> /\ remaining > 0
        /\ remaining \in Nat
    BY <1>1, <1>4, WordNat DEF TypeOK, Shape
  <2>5. Len(data) \in Nat /\ Len(cur_name) \in Nat
    BY <2>4, Lengths
  <2>6. N \in Seq(Byte) /\ Len(N) = Width /\ D \in Seq(Byte) /\ Len(D) = Width
    BY <2>4, <2>5, AppendLEType
  <2>7. Decoded = A \o (N \o cur_name) \o D \o data
    BY <1>4 DEF Decoded
  <2>8. Frame(f) \o r = N \o (cur_name \o (D \o (f.data \o r))) /\ f.data \in Seq(Byte)
    <3>1. /\ Frame(f) \o r = AppendLE(Len(f.name)) \o (f.name \o (AppendLE(Len(f.data)) \o (f.data \o r)))
          /\ f.data \in Seq(Byte)
      <4> HIDE DEF f
      <4> QED BY <2>1, FrameFields
    <3>2. N = AppendLE(Len(f.name)) /\ D = AppendLE(Len(f.data))
      BY <2>3
    <3> HIDE DEF N, D, f
    <3> QED BY <2>3, <3>1, <3>2
  <2> HIDE DEF A, f, N, D, data
  <2>9. Len(Decoded) = Len(A) + Width + Len(cur_name) + Width + Len(data) /\ Len(A) \in Nat
    <3>1. N \o cur_name \in Seq(Byte) /\ Len(N \o cur_name) = Width + Len(cur_name)
      BY <2>4, <2>6, Concat
    <3>2. A \o (N \o cur_name) \in Seq(Byte)
          /\ Len(A \o (N \o cur_name)) = Len(A) + (Width + Len(cur_name))
      <4>1. JoinGrows(A, N \o cur_name)
        BY <2>1, <3>1, Joining
      <4> QED BY <3>1, <4>1 DEF JoinGrows
    <3>3. A \o (N \o cur_name) \o D \in Seq(Byte)
          /\ Len(A \o (N \o cur_name) \o D) = Len(A) + (Width + Len(cur_name)) + Width
      <4>1. JoinGrows(A \o (N \o cur_name), D)
        BY <2>6, <3>2, Joining
      <4> QED BY <2>6, <3>2, <4>1 DEF JoinGrows
    <3>4. Len(Decoded) = Len(A) + (Width + Len(cur_name)) + Width + Len(data)
      <4>1. JoinGrows(A \o (N \o cur_name) \o D, data)
        BY <2>4, <3>3, Joining
      <4> DEFINE most == A \o (N \o cur_name) \o D
      <4>2. Len(Decoded) = Len(most) + Len(data)
        BY <2>7, <4>1, Zenon DEF JoinGrows
      <4>3. Len(most) = Len(A) + (Width + Len(cur_name)) + Width
        BY <3>3
      <4> HIDE DEF most
      <4> QED BY <4>2, <4>3
    <3> QED BY <2>1, <2>5, <3>4, Lengths, WordNat
  <2>10. /\ Len(Pack(l)) = Len(A) + (Width + (Len(cur_name) + (Width + (Len(f.data) + Len(r)))))
         /\ Len(r) \in Nat /\ Len(f.data) \in Nat
    <3>1. f.data \o r \in Seq(Byte) /\ Len(f.data \o r) = Len(f.data) + Len(r)
      <4>1. JoinGrows(f.data, r)
        BY <2>8, Joining
      <4> QED BY <4>1, Zenon DEF JoinGrows
    <3>2. D \o (f.data \o r) \in Seq(Byte)
          /\ Len(D \o (f.data \o r)) = Width + (Len(f.data) + Len(r))
      <4> DEFINE v == f.data \o r
      <4>1. v \in Seq(Byte) /\ Len(v) = Len(f.data) + Len(r)
        BY <3>1
      <4> HIDE DEF v
      <4>2. JoinGrows(D, v)
        BY <2>6, <4>1, Joining
      <4>3. D \o v \in Seq(Byte) /\ Len(D \o v) = Width + (Len(f.data) + Len(r))
        BY <2>6, <4>1, <4>2 DEF JoinGrows
      <4> QED BY <4>3 DEF v
    <3>3. cur_name \o (D \o (f.data \o r)) \in Seq(Byte)
          /\ Len(cur_name \o (D \o (f.data \o r)))
               = Len(cur_name) + (Width + (Len(f.data) + Len(r)))
      <4> DEFINE v == D \o (f.data \o r)
      <4>1. v \in Seq(Byte) /\ Len(v) = Width + (Len(f.data) + Len(r))
        BY <3>2
      <4> HIDE DEF v
      <4>2. JoinGrows(cur_name, v)
        BY <2>4, <4>1, Joining
      <4>3. /\ cur_name \o v \in Seq(Byte)
            /\ Len(cur_name \o v) = Len(cur_name) + (Width + (Len(f.data) + Len(r)))
        BY <4>1, <4>2 DEF JoinGrows
      <4> QED BY <4>3 DEF v
    <3> DEFINE w == cur_name \o (D \o (f.data \o r))
               z == Frame(f) \o r
    <3>4. z \in Seq(Byte)
          /\ Len(z) = Width + (Len(cur_name) + (Width + (Len(f.data) + Len(r))))
      <4>1. w \in Seq(Byte) /\ N \in Seq(Byte) /\ Len(N) = Width /\ z = N \o w
            /\ Len(w) = Len(cur_name) + (Width + (Len(f.data) + Len(r)))
        <5>1. z = N \o w
          BY <2>8
        <5> HIDE DEF z
        <5> QED BY <2>6, <3>3, <5>1
      <4>2. JoinGrows(N, w)
        <5> HIDE DEF w
        <5> QED BY <4>1, Joining
      <4> HIDE DEF w, z
      <4> QED BY <4>1, <4>2 DEF JoinGrows
    <3>5. Pack(l) = A \o z /\ A \in Seq(Byte) /\ f.data \in Seq(Byte)
      BY <2>1, <2>2, <2>8
    <3> HIDE DEF w, z
    <3>6. Len(Pack(l)) = Len(A) + Len(z)
      <4>1. JoinGrows(A, z)
        BY <3>4, <3>5, Joining
      <4> QED BY <3>5, <4>1 DEF JoinGrows
    <3> QED BY <3>4, <3>5, <3>6, Lengths
  <2>11. Len(pending) = 0
    BY <2>4, Lengths
  <2>12. Len(fed) # Len(Pack(l))
    <3> HIDE DEF A, f, N, D, data
    <3>1. Len(data) < Len(f.data) + Len(r)
      BY <2>3, <2>4, <2>5, <2>10
    <3> QED BY <1>2, <2>5, <2>9, <2>10, <2>11, <3>1, WordNat
  <2> QED BY <2>12
<1> QED BY <1>1, <1>3, <1>4 DEF TypeOK

LEMMA FinishFollows ==
  ASSUME IInv, Written, CInv, Finish PROVE CInv'
<1>1. /\ outcome = "running" /\ chunk = <<>> /\ outcome' = (IF state = "Done" THEN "ok" ELSE "threw")
      /\ UNCHANGED <<chunk, state, pending, need, fed>>
  BY DEF Finish
<1>2. state' = "Data" => need' = Width
  BY <1>1 DEF CInv
<1>3. CASE state = "Done"
  BY <1>1, <1>2, <1>3 DEF CInv
<1>4. CASE state # "Done"
  <2>1. ~FeedThrew'
    <3>1. TypeOK /\ Shape
      BY <1>1 DEF IInv
    <3>2. CASE state \in FieldStates
      BY <1>1, <3>1, <3>2 DEF FeedThrew, Shape, TypeOK
    <3>3. CASE state = "Data"
      BY <1>1, <3>1, <3>3, Lengths DEF FeedThrew, Shape, CInv, Width
    <3> QED BY <1>4, <3>1, <3>2, <3>3 DEF TypeOK
  <2>2. ASSUME NEW l \in Lists, fed = Pack(l) PROVE FALSE
    <3>1. fed \o <<>> = Pack(l) /\ <<>> \in Seq(Byte)
      BY <2>2, Concat, Lengths DEF IInv, TypeOK
    <3>2. Follows(l)
      BY <1>1, <3>1 DEF CInv, Continues
    <3> QED BY <1>1, <1>4, <2>2, <3>2, TooShort
  <2>3. \A l \in Lists : Missed(l)'
    BY <1>1, <2>1, <2>2 DEF Missed, Pack
  <2> QED BY <1>1, <1>2, <1>4, <2>3 DEF CInv
<1> QED BY <1>3, <1>4

LEMMA ReadMagicFollows ==
  ASSUME IInv, IInv', Written, CInv, ReadMagic PROVE CInv'
<1>1. Complete("Magic") /\ "Magic" \in FieldStates
  BY DEF ReadMagic, FieldStates
<1>2. ASSUME NEW l \in Lists, Continues(l)'
      PROVE  Follows(l) /\ Field = Magic
  <2>1. Follows(l) /\ Field = Awaited(l) /\ state = "Magic"
    BY <1>1, <1>2, FieldAwaited
  <2> QED BY <2>1 DEF Awaited
<1>3. CASE Field # Magic
  <2>1. outcome' = "threw" /\ state' = "Magic"
    BY <1>1, <1>3 DEF ReadMagic, Refuse, Throw, Complete
  <2> QED BY <1>2, <1>3, <2>1, GivesUp
<1>4. CASE Field = Magic
  <2>1. /\ state' = "Count" /\ outcome' = "running"
        /\ UNCHANGED <<count, cur_name, remaining, disk, entries>>
    BY <1>1, <1>4 DEF ReadMagic, Complete
  <2>2. \A l \in Lists : Continues(l)' => Follows(l)'
    BY <1>2, <2>1 DEF Follows, First
  <2> QED BY <2>1, <2>2, RunsOn
<1> QED BY <1>3, <1>4

LEMMA ReadCountFollows ==
  ASSUME IInv, IInv', Written, CInv, ReadCount PROVE CInv'
<1>1. Complete("Count") /\ "Count" \in FieldStates
  BY DEF ReadCount, FieldStates
<1>2. /\ state' \in {"Done", "NameLen"} /\ outcome' = "running" /\ count' = ReadLE(Field)
      /\ UNCHANGED <<cur_name, remaining, disk, entries>>
  BY <1>1 DEF ReadCount, Complete
<1>3. ASSUME NEW l \in Lists, Continues(l)'
      PROVE  Follows(l) /\ count' = Len(l)
  <2>1. Follows(l) /\ Field = Awaited(l) /\ state = "Count"
    BY <1>1, <1>3, FieldAwaited
  <2>2. Field = AppendLE(Len(l)) /\ Len(l) \in 0 .. Word - 1
    BY <2>1, Listed DEF Awaited
  <2> QED BY <1>2, <2>1, <2>2, ReadAppendLE
<1>4. \A l \in Lists : Continues(l)' => Follows(l)'
  BY <1>2, <1>3 DEF Follows, First
<1> QED BY <1>2, <1>4, RunsOn

LEMMA ReadNameLenFollows ==
  ASSUME IInv, IInv', Written, CInv, ReadNameLen PROVE CInv'
<1>1. Complete("NameLen") /\ "NameLen" \in FieldStates
  BY DEF ReadNameLen, FieldStates
<1>2. ASSUME NEW l \in Lists, Continues(l)'
      PROVE  /\ Follows(l) /\ state = "NameLen"
             /\ ReadLE(Field) = Len(l[Len(entries) + 1].name) /\ ReadLE(Field) \in 1 .. MaxNameLen
  <2>1. Follows(l) /\ Field = Awaited(l) /\ state = "NameLen" /\ TypeOK /\ Shape
    BY <1>1, <1>2, FieldAwaited, FieldMoves
  <2>2. Len(entries) + 1 \in 1 .. Len(l)
    BY <2>1, Ahead
  <2>3. /\ Len(l[Len(entries) + 1].name) \in 1 .. MaxNameLen
        /\ Len(l[Len(entries) + 1].name) \in 0 .. Word - 1
    BY <2>2, Listed
  <2>4. Field = AppendLE(Len(l[Len(entries) + 1].name))
    BY <2>1 DEF Awaited
  <2> QED BY <2>1, <2>3, <2>4, ReadAppendLE
<1>3. CASE ReadLE(Field) = 0 \/ ReadLE(Field) > MaxNameLen
  <2>1. outcome' = "threw" /\ state' = "NameLen"
    BY <1>1, <1>3 DEF ReadNameLen, Refuse, Throw, Complete
  <2>2. \A l \in Lists : ~Continues(l)'
    BY <1>2, <1>3, NameAssumption, WordNat
  <2> QED BY <2>1, <2>2, GivesUp
<1>4. CASE ~(ReadLE(Field) = 0 \/ ReadLE(Field) > MaxNameLen)
  <2>1. /\ state' = "Name" /\ need' = ReadLE(Field) /\ outcome' = "running"
        /\ UNCHANGED <<count, cur_name, remaining, disk, entries>>
    BY <1>1, <1>4 DEF ReadNameLen, Complete
  <2>2. \A l \in Lists : Continues(l)' => Follows(l)'
    BY <1>2, <2>1 DEF Follows, First
  <2> QED BY <2>1, <2>2, RunsOn
<1> QED BY <1>3, <1>4

LEMMA ReadNameFollows ==
  ASSUME IInv, IInv', Written, CInv, ReadName PROVE CInv'
<1>1. Complete("Name") /\ "Name" \in FieldStates
  BY DEF ReadName, FieldStates
<1>2. /\ state' = "DataLen" /\ outcome' = "running" /\ cur_name' = Field
      /\ UNCHANGED <<count, remaining, disk, entries>>
  BY <1>1 DEF ReadName, Complete
<1>3. ASSUME NEW l \in Lists, Continues(l)'
      PROVE  Follows(l) /\ state = "Name" /\ Field = l[Len(entries) + 1].name
  <2>1. Follows(l) /\ Field = Awaited(l) /\ state = "Name"
    BY <1>1, <1>3, FieldAwaited
  <2> QED BY <2>1 DEF Awaited
<1>4. \A l \in Lists : Continues(l)' => Follows(l)'
  BY <1>2, <1>3 DEF Follows, First
<1> QED BY <1>2, <1>4, RunsOn

LEMMA ReadDataLenFollows ==
  ASSUME IInv, IInv', Written, CInv, ReadDataLen PROVE CInv'
<1>1. Complete("DataLen") /\ "DataLen" \in FieldStates
  BY DEF ReadDataLen, FieldStates
<1>2. TypeOK /\ Shape /\ outcome = "running" /\ state = "DataLen"
  BY <1>1, FieldMoves
<1>3. ASSUME NEW l \in Lists, Continues(l)'
      PROVE  /\ Follows(l) /\ ValidName(cur_name) /\ cur_name = l[Len(entries) + 1].name
             /\ ReadLE(Field) = Len(l[Len(entries) + 1].data)
  <2>1. Follows(l) /\ Field = Awaited(l)
    BY <1>1, <1>3, FieldAwaited
  <2>2. Len(entries) + 1 \in 1 .. Len(l)
    BY <1>2, <2>1, Ahead
  <2>3. /\ ValidName(l[Len(entries) + 1].name)
        /\ Len(l[Len(entries) + 1].data) \in 0 .. Word - 1
    BY <2>2, Listed
  <2>4. Field = AppendLE(Len(l[Len(entries) + 1].data)) /\ cur_name = l[Len(entries) + 1].name
    BY <1>2, <2>1 DEF Awaited, Follows
  <2> QED BY <2>1, <2>3, <2>4, ReadAppendLE
<1>4. CASE ~ValidName(cur_name)
  <2>1. outcome' = "threw" /\ state' = "DataLen"
    BY <1>1, <1>2, <1>4 DEF ReadDataLen, Refuse, Throw
  <2>2. \A l \in Lists : ~Continues(l)'
    BY <1>3, <1>4
  <2> QED BY <2>1, <2>2, GivesUp
<1>5. CASE ValidName(cur_name)
  <2>1. /\ remaining' = ReadLE(Field) /\ disk' = Write(disk, cur_name, <<>>)
        /\ UNCHANGED <<count, cur_name>> /\ outcome' = "running"
    BY <1>1, <1>2, <1>5 DEF ReadDataLen
  <2>2. CASE ReadLE(Field) = 0
    <3>1. EntryDone(<<>>)
      BY <1>5, <2>2 DEF ReadDataLen
    <3>2. state' # "Data"
      BY <3>1 DEF EntryDone
    <3>3. ASSUME NEW l \in Lists, Continues(l)' PROVE Follows(l)'
      <4>1. Follows(l) /\ Len(l[Len(entries) + 1].data) = 0
        BY <1>3, <2>2, <3>3
      <4> QED BY <1>2, <2>1, <3>1, <3>3, <4>1, EntryAgrees, Lengths
    <3> QED BY <2>1, <3>2, <3>3, RunsOn
  <2>3. CASE ReadLE(Field) # 0
    <3>1. state' = "Data" /\ need' = need /\ entries' = entries
      BY <1>5, <2>3 DEF ReadDataLen
    <3>2. need' = Width
      BY <1>2, <3>1 DEF Shape
    <3>3. Len(disk'[cur_name]) = 0
      <4>1. /\ cur_name \in Seq(Byte) /\ <<>> \in Seq(Byte) /\ Len(<<>>) = 0
            /\ DOMAIN disk \subseteq Seq(Byte) /\ disk \in [DOMAIN disk -> Seq(Byte)]
        BY <1>2, Lengths DEF TypeOK
      <4>2. Write(disk, cur_name, <<>>)[cur_name] = <<>>
        BY <4>1, WriteType
      <4> QED BY <2>1, <4>1, <4>2
    <3>4. ASSUME NEW l \in Lists, Continues(l)' PROVE Follows(l)'
      <4>1. /\ Follows(l) /\ cur_name = l[Len(entries) + 1].name
            /\ remaining' = Len(l[Len(entries) + 1].data) /\ Len(entries) + 1 \in 1 .. Len(l)
        BY <1>2, <1>3, <2>1, <3>4, Ahead
      <4>2. Len(disk'[cur_name]) + remaining' = Len(l[Len(entries) + 1].data)
        BY <3>3, <4>1, Listed
      <4>3. count = Len(l) /\ Len(entries) <= Len(l) /\ entries = First(l, Len(entries))
        BY <1>2, <4>1 DEF Follows
      <4> QED BY <2>1, <3>1, <4>1, <4>2, <4>3 DEF Follows, First
    <3> QED BY <2>1, <3>2, <3>4, RunsOn
  <2> QED BY <2>2, <2>3
<1> QED BY <1>4, <1>5

LEMMA WriteDataFollows ==
  ASSUME IInv, IInv', Written, CInv, WriteData PROVE CInv'
<1> DEFINE new == disk[cur_name] \o Head_(Span)
<1>1. /\ outcome = "running" /\ state = "Data" /\ outcome' = outcome /\ fed' = fed
      /\ remaining' = remaining - Span /\ disk' = Write(disk, cur_name, new)
      /\ UNCHANGED <<count, cur_name>>
  BY DEF WriteData
<1>2. TypeOK /\ Shape
  BY <1>1 DEF IInv
<1>3. Span \in 0 .. Span /\ remaining \in Nat
  BY <1>2, Lengths, WordNat DEF TypeOK, Span
<1>4. /\ new \in Seq(Byte) /\ Len(new) = Len(disk[cur_name]) + Span /\ Len(disk[cur_name]) \in Nat
      /\ disk'[cur_name] = new
  BY <1>1, <1>3, SpanMoves
<1>5. ASSUME NEW l \in Lists, Continues(l)'
      PROVE  /\ Follows(l) /\ Len(entries) + 1 \in 1 .. Len(l) /\ Len(l[Len(entries) + 1].data) \in Nat
             /\ Len(disk[cur_name]) + remaining = Len(l[Len(entries) + 1].data)
  <2>1. Follows(l)
    BY <1>1, <1>5 DEF CInv, Continues, Pack
  <2>2. Len(entries) + 1 \in 1 .. Len(l)
    BY <1>1, <1>2, <2>1, Ahead
  <2> QED BY <1>1, <2>1, <2>2, Listed DEF Follows
<1> HIDE DEF new
<1>6. CASE Span = remaining
  <2>1. EntryDone(new)
    BY <1>6 DEF WriteData, new
  <2>2. state' # "Data"
    BY <2>1 DEF EntryDone
  <2>3. ASSUME NEW l \in Lists, Continues(l)' PROVE Follows(l)'
    <3>1. Follows(l) /\ Len(new) = Len(l[Len(entries) + 1].data)
      BY <1>4, <1>5, <1>6, <2>3
    <3> QED BY <1>1, <1>2, <1>4, <2>1, <2>3, <3>1, EntryAgrees
  <2> QED BY <1>1, <2>2, <2>3, RunsOn
<1>7. CASE Span # remaining
  <2>1. UNCHANGED <<state, need, entries>>
    BY <1>7 DEF WriteData
  <2>2. ASSUME NEW l \in Lists, Continues(l)' PROVE Follows(l)'
    <3>1. Follows(l) /\ Len(disk'[cur_name]) + remaining' = Len(l[Len(entries) + 1].data)
      BY <1>1, <1>3, <1>4, <1>5, <2>2
    <3> QED BY <1>1, <2>1, <3>1 DEF Follows, First
  <2>3. state' = "Data" => need' = Width
    BY <2>1 DEF CInv
  <2> QED BY <1>1, <2>2, <2>3, RunsOn
<1> QED BY <1>6, <1>7

LEMMA CInvNext == IInv /\ IInv' /\ Written /\ CInv /\ [Next]_vars => CInv'
<1> SUFFICES ASSUME IInv, IInv', Written, CInv, [Next]_vars PROVE CInv'
  OBVIOUS
<1>1. CASE OpenFails
  <2>1. outcome' = "threw" /\ ioError' = TRUE /\ state' # "Data"
    BY <1>1 DEF OpenFails, Refuse, Throw, Complete
  <2> QED BY <2>1, GivesUp
<1>2. CASE WriteFails
  <2>1. outcome' = "threw" /\ ioError' = TRUE /\ UNCHANGED <<state, need>>
    BY <1>2 DEF WriteFails, Throw
  <2> QED BY <2>1, GivesUp DEF CInv
<1>3. CASE UNCHANGED vars
  <2>1. UNCHANGED <<chunk, state, pending, need, count, cur_name, remaining, disk, outcome, fed,
                    entries, ioError>>
    BY <1>3 DEF vars
  <2>2. ASSUME NEW l \in Lists
        PROVE  Follows(l)' = Follows(l) /\ Continues(l)' = Continues(l) /\ Missed(l)' = Missed(l)
    BY <2>1 DEF Follows, Continues, Missed, FeedThrew, First, Pack
  <2> QED BY <2>1, <2>2 DEF CInv
<1> QED BY <1>1, <1>2, <1>3, FeedFollows, GatherFollows, TrailingBytesFollows, FinishFollows,
           ReadMagicFollows, ReadCountFollows, ReadNameLenFollows, ReadNameFollows,
           ReadDataLenFollows, WriteDataFollows DEF Next

(* What is accepted are the archives and nothing else: behind a return of  *)
(* finish() the body was the archive of the entries on the disk, and       *)
(* unless the disk fails feed() gives up on no body that may still become  *)
(* the archive of acceptable entries, nor finish() on one that is.         *)
THEOREM UnpacksExactly == Spec => []UnpackExact
<1>1. IInv /\ CInv => UnpackComplete
  <2> SUFFICES ASSUME IInv, CInv, ~ioError
               PROVE  /\ outcome = "threw" => fed \notin Archives
                      /\ FeedThrew => \A a \in Archives : ~IsPrefix(fed, a)
    BY DEF UnpackComplete
  <2>1. outcome = "threw" => \A l \in Lists : Missed(l)
    BY DEF CInv
  <2>2. ASSUME outcome = "threw" PROVE fed \notin Archives
    BY <2>1, <2>2 DEF Missed, Archives
  <2>3. ASSUME FeedThrew, NEW l \in Lists, IsPrefix(fed, Pack(l)) PROVE FALSE
    <3>1. ~Continues(l)
      BY <2>1, <2>3 DEF Missed, FeedThrew
    <3>2. fed \in Seq(Byte) /\ Pack(l) \in Seq(Byte)
      <4>1. l \in Seq(Entry) /\ Len(l) \in Nat
        BY Listed
      <4>2. Header(Len(l)) \in Seq(Byte) /\ Wire(First(l, Len(l))) \in Seq(Byte)
            /\ Pack(l) = Header(Len(l)) \o Wire(First(l, Len(l)))
        BY <4>1, PackNext
      <4>3. fed \in Seq(Byte)
        BY DEF IInv, TypeOK
      <4> QED BY <4>2, <4>3, Concat
    <3> QED BY <2>3, <3>1, <3>2, PrefixContinues DEF Continues
  <2> QED BY <2>2, <2>3 DEF Archives
<1> QED BY <1>1, Invariance, UnpacksSoundly, WrittenInit, WrittenNext, FollowsInit, CInvNext, PTL
        DEF Spec, UnpackExact

-----------------------------------------------------------------------------
(* The unpacker keeps the promise of a receiver.  The mapping is the one   *)
(* of ArchiveUnpacker: the count is the announcement once it is read, and  *)
(* the file of state Data is the unfinished one.                           *)

ann == IF state \in {"Magic", "Count"} THEN {} ELSE {count}
cur == IF state = "Data" THEN {cur_name} ELSE {}

\* A step that only gives up, or leaves what the promise talks about alone.
LEMMA GivingUp ==
  ASSUME outcome = "running", outcome' = "threw", ann' = ann, entries' = entries,
         disk' = disk \/ \E n \in DOMAIN disk' : disk' = Write(disk, n, disk'[n])
  PROVE  Stream!Next
<1>1. Stream!Reject
  BY DEF Stream!Reject, Stream!OnDisk, Write, ann
<1> QED BY <1>1 DEF Stream!Next

LEMMA Stuttering ==
  ASSUME ann' = ann, cur' = cur, UNCHANGED <<entries, disk, outcome>>
  PROVE  UNCHANGED Stream!vars
  BY DEF Stream!vars, ann, cur

LEMMA PrefixOfConcat ==
  ASSUME NEW s \in Seq(Byte), NEW t \in Seq(Byte)
  PROVE  IsPrefix(s, s \o t)
<1>1. Len(s) \in Nat /\ Len(t) \in Nat /\ Len(s \o t) = Len(s) + Len(t)
      /\ s \o t \in Seq(Byte)
  BY Concat, Lengths
<1>2. SubSeq(s, 1, Len(s)) = s
  BY SubSeqFull
<1>3. SubSeq(s \o t, 1, Len(s)) = s
  <2>1. CASE Len(s) = 0
    BY <1>1, <2>1, Lengths, SubSeqEmpty
  <2>2. CASE Len(s) > 0
    <3>1. 1 \in 1 .. Len(s) /\ Len(s) \in 1 .. Len(s)
      BY <1>1, <2>2
    <3>2. SubSeq(s \o t, 1, Len(s)) = SubSeq(s, 1, Len(s))
      BY <3>1, SubSeqOfConcat1
    <3> QED BY <1>2, <3>2
  <2> QED BY <1>1, <2>1, <2>2
<1> QED BY <1>1, <1>2, <1>3 DEF IsPrefix

LEMMA SamePrefix == \A s, t : IsPrefix(s, t) => Stream!IsPrefix(s, t)
  BY DEF IsPrefix, Stream!IsPrefix

\* The completion of an entry is a delivery.
LEMMA Delivering ==
  ASSUME TypeOK, Shape, outcome = "running", outcome' = "running",
         state \in {"DataLen", "Data"}, done_count < count, count' = count,
         cur_name \in Seq(Byte), NEW data \in Seq(Byte), EntryDone(data),
         disk' = Write(disk, cur_name, data),
         state = "Data" => IsPrefix(disk[cur_name], data)
  PROVE  Stream!Next
<1> DEFINE e == [name |-> cur_name, data |-> data]
<1>1. /\ entries \in Seq(Entry) /\ e \in Entry /\ entries' = Append(entries, e)
      /\ state' \in {"Done", "NameLen"} /\ done_count = Len(entries)
  BY DEF TypeOK, Shape, EntryDone, Entry
<1>2. Len(entries') = Len(entries) + 1 /\ entries'[Len(entries) + 1] = e
  BY <1>1, AppendProperties
<1>3. Stream!Expecting
  BY <1>1 DEF Stream!Expecting
<1>4. \A name \in (IF state = "Data" THEN {cur_name} ELSE {}) :
        e.name = name /\ Stream!IsPrefix(disk[name], e.data)
  BY SamePrefix
<1>5. disk' = Stream!OnDisk(disk, e.name, e.data)
  BY DEF Write, Stream!OnDisk
<1>6. state' # "Data" /\ state \notin {"Magic", "Count"}
      /\ state' \notin {"Magic", "Count"}
  BY <1>1
<1> HIDE DEF e
<1>7. Stream!Deliver
  BY <1>1, <1>2, <1>3, <1>4, <1>5, <1>6 DEF Stream!Deliver
<1> QED BY <1>7 DEF Stream!Next

LEMMA InitMaps == Init => Stream!Init
  BY DEF Init, Stream!Init, EmptyDir

LEMMA StepMaps == IInv /\ IInv' /\ [Next]_vars => [Stream!Next]_Stream!vars
<1> SUFFICES ASSUME IInv, IInv', [Next]_vars
             PROVE  Stream!Next \/ UNCHANGED Stream!vars
  OBVIOUS
<1> USE DEF ann, cur
<1>1. CASE \E span \in Spans : Feed(span)
  BY <1>1, Stuttering DEF Feed
<1>2. CASE WriteData
  <2> DEFINE new == disk[cur_name] \o Head_(Span)
  <2>1. /\ TypeOK /\ Shape /\ outcome = "running" /\ outcome' = "running"
        /\ state = "Data" /\ count' = count /\ cur_name' = cur_name
        /\ disk' = Write(disk, cur_name, new)
    BY <1>2 DEF WriteData, IInv
  <2>2. done_count < count /\ cur_name \in Seq(Byte) /\ cur_name \in DOMAIN disk
        /\ chunk \in Seq(Byte) /\ remaining \in Nat /\ Len(chunk) \in Nat
        /\ disk[cur_name] \in Seq(Byte) /\ done_count = Len(entries)
    BY <2>1, Lengths, WordNat DEF TypeOK, Shape
  <2>3. Head_(Span) \in Seq(Byte)
    <3>1. Span \in 0 .. Len(chunk)
      BY <2>2 DEF Span
    <3> QED BY <2>2, <3>1, CutChunk
  <2>4. new \in Seq(Byte) /\ IsPrefix(disk[cur_name], new)
    BY <2>2, <2>3, Concat, PrefixOfConcat
  <2>5. CASE Span = remaining
    <3>1. EntryDone(new)
      BY <1>2, <2>5 DEF WriteData
    <3> HIDE DEF new
    <3> QED BY <2>1, <2>2, <2>4, <3>1, Delivering
  <2>6. CASE Span # remaining
    <3>1. UNCHANGED <<state, entries>>
      BY <1>2, <2>6 DEF WriteData
    <3> HIDE DEF new
    <3>2. disk'[cur_name] = new
      BY <2>1 DEF Write
    <3>3. Stream!IsPrefix(disk[cur_name], new)
      BY <2>4, SamePrefix
    <3>4. Stream!Expecting
      BY <2>1, <2>2 DEF Stream!Expecting
    <3>5. Stream!Extend
      BY <2>1, <3>1, <3>2, <3>3, <3>4 DEF Stream!Extend, Stream!OnDisk, Write
    <3> QED BY <3>5 DEF Stream!Next
  <2> QED BY <2>5, <2>6
<1>3. CASE WriteFails
  <2>1. PICK n \in 0 .. Span :
          disk' = Write(disk, cur_name, disk[cur_name] \o Head_(n))
    BY <1>3 DEF WriteFails
  <2>2. cur_name \in DOMAIN disk' /\ disk' = Write(disk, cur_name, disk'[cur_name])
    BY <2>1 DEF Write
  <2> QED BY <1>3, <2>2, GivingUp DEF WriteFails, Throw
<1>4. CASE TrailingBytes
  BY <1>4, GivingUp DEF TrailingBytes, Throw
<1>5. CASE Gather
  BY <1>5, Stuttering DEF Gather
<1>6. CASE ReadMagic
  <2>1. state = "Magic" /\ outcome = "running"
    BY <1>6 DEF ReadMagic, Complete
  <2>2. CASE Field # Magic
    BY <1>6, <2>1, <2>2, GivingUp DEF ReadMagic, Refuse, Throw
  <2>3. CASE Field = Magic
    BY <1>6, <2>1, <2>3, Stuttering DEF ReadMagic
  <2> QED BY <2>2, <2>3
<1>7. CASE ReadCount
  <2>1. state = "Count" /\ outcome = "running"
    BY <1>7 DEF ReadCount, Complete
  <2>2. count' \in Nat
    BY WordNat DEF IInv, TypeOK
  <2>3. state' \in {"Done", "NameLen"} /\ UNCHANGED <<entries, disk, outcome>>
    BY <1>7 DEF ReadCount
  <2>4. Stream!Announce
    BY <2>1, <2>2, <2>3 DEF Stream!Announce
  <2> QED BY <2>4 DEF Stream!Next
<1>8. CASE ReadNameLen
  <2>1. state = "NameLen" /\ outcome = "running"
    BY <1>8 DEF ReadNameLen, Complete
  <2>2. CASE ReadLE(Field) = 0 \/ ReadLE(Field) > MaxNameLen
    BY <1>8, <2>1, <2>2, GivingUp DEF ReadNameLen, Refuse, Throw
  <2>3. CASE ~(ReadLE(Field) = 0 \/ ReadLE(Field) > MaxNameLen)
    BY <1>8, <2>1, <2>3, Stuttering DEF ReadNameLen
  <2> QED BY <2>2, <2>3
<1>9. CASE ReadName
  BY <1>9, Stuttering DEF ReadName, Complete
<1>10. CASE ReadDataLen
  <2>1. /\ TypeOK /\ Shape /\ state = "DataLen" /\ outcome = "running"
    BY <1>10 DEF ReadDataLen, Complete, IInv
  <2>2. done_count < count /\ cur_name \in Seq(Byte) /\ done_count = Len(entries)
    BY <2>1 DEF TypeOK, Shape
  <2>3. CASE ~ValidName(cur_name)
    BY <1>10, <2>1, <2>3, GivingUp DEF ReadDataLen, Refuse, Throw
  <2>4. CASE ValidName(cur_name)
    <3>1. disk' = Write(disk, cur_name, <<>>) /\ UNCHANGED <<count, cur_name, outcome>>
      BY <1>10, <2>4 DEF ReadDataLen
    <3>2. CASE ReadLE(Field) = 0
      <4>1. EntryDone(<<>>)
        BY <1>10, <2>4, <3>2 DEF ReadDataLen
      <4> QED BY <2>1, <2>2, <3>1, <4>1, Lengths, Delivering
    <3>3. CASE ReadLE(Field) # 0
      <4>1. state' = "Data" /\ UNCHANGED entries
        BY <1>10, <2>4, <3>3 DEF ReadDataLen
      <4>2. Stream!Expecting
        BY <2>1, <2>2 DEF Stream!Expecting
      <4>3. Stream!Open
        BY <2>1, <3>1, <4>1, <4>2 DEF Stream!Open, Stream!OnDisk, Write
      <4> QED BY <4>3 DEF Stream!Next
    <3> QED BY <3>2, <3>3
  <2> QED BY <2>3, <2>4
<1>11. CASE OpenFails
  BY <1>11, GivingUp DEF OpenFails, Complete, Refuse, Throw
<1>12. CASE Finish
  <2>1. outcome = "running" /\ Shape /\ TypeOK /\ UNCHANGED <<state, count, cur_name, entries, disk>>
    BY <1>12 DEF Finish, IInv
  <2>2. CASE state = "Done"
    <3>1. count = Len(entries) /\ outcome' = "ok"
      BY <1>12, <2>1, <2>2 DEF Shape, Finish
    <3>2. Stream!Accept
      BY <2>1, <2>2, <3>1 DEF Stream!Accept
    <3> QED BY <3>2 DEF Stream!Next
  <2>3. CASE state # "Done"
    BY <1>12, <2>1, <2>3, GivingUp DEF Finish
  <2> QED BY <2>2, <2>3
<1>13. CASE UNCHANGED vars
  BY <1>13, Stuttering DEF vars
<1> QED BY <1>1, <1>2, <1>3, <1>4, <1>5, <1>6, <1>7, <1>8, <1>9, <1>10, <1>11,
           <1>12, <1>13 DEF Next

(* The byte machine implements the receiver's promise: entries are         *)
(* extracted one at a time, and success is reported only when all of those *)
(* announced are on disk in full.                                          *)
THEOREM KeepsPromise == Spec => Promise
  BY InitMaps, StepMaps, Invariance, PTL DEF Spec, Promise, Stream!Spec
=============================================================================
