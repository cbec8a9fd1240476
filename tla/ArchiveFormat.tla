--------------------------- MODULE ArchiveFormat ---------------------------
(***************************************************************************)
(* The TLV archive of src/fhetch_transport/archive.h, "NBAR": a magic, a   *)
(* count, and for every file its name and its data, each behind a length.  *)
(*                                                                         *)
(* A byte is a digit in base Base and a fixed-width field is two digits,   *)
(* little-endian.  The code's fields have four or eight bytes; its readers *)
(* treat every byte of a field alike, so two are enough for a field to be  *)
(* cut in the middle.                                                      *)
(***************************************************************************)
EXTENDS Naturals, Sequences, SequencesExt

CONSTANTS
    Base,           \* how many values a byte has
    Magic,          \* the bytes "NBAR"
    MaxNameLen,     \* kMaxEntryNameLen
    RelativeNames,  \* the names validate_relative_path lets pass
    PlainNames,     \* the names validate_untrusted_entry_name lets pass
    Lists           \* lists of entries whose archives must be accepted

Byte == 0 .. Base - 1
Width == 2
Word == Base * Base     \* the number of values of a fixed-width field

ASSUME BaseAssumption == Base \in Nat /\ Base > 1
ASSUME MagicAssumption == Magic \in Seq(Byte) /\ Len(Magic) > 0
ASSUME NameAssumption ==
    /\ MaxNameLen \in 0 .. Word - 1
    /\ RelativeNames \subseteq Seq(Byte) \ {<<>>}
    /\ PlainNames \subseteq Seq(Byte)

AppendLE(v) == <<v % Base, (v \div Base) % Base>>
ReadLE(field) == field[1] + Base * field[2]

Entry == [name : Seq(Byte), data : Seq(Byte)]

Frame(e) ==
    AppendLE(Len(e.name)) \o e.name \o AppendLE(Len(e.data)) \o e.data

\* What scan_directory followed by stream_archive puts on the wire.
Pack(entries) ==
    Magic \o AppendLE(Len(entries))
          \o FlattenSeq([i \in DOMAIN entries |-> Frame(entries[i])])

\* The checks both unpackers make of a name before they use it as a path.
ValidName(name) == name \in RelativeNames \cap PlainNames

\* A directory is a function from names to contents; opening a file that is
\* there already truncates it.
Write(dir, name, data) ==
    [n \in DOMAIN dir \cup {name} |-> IF n = name THEN data ELSE dir[n]]

EmptyDir == [n \in {} |-> <<>>]

\* The directory left by extracting entries in order: the last one of a name
\* wins.
Extract(entries) ==
    LET dir[k \in 0 .. Len(entries)] ==
          IF k = 0 THEN EmptyDir ELSE Write(dir[k - 1], entries[k].name, entries[k].data)
    IN dir[Len(entries)]

\* The archives that are beyond reproach: their counts and lengths fit the
\* fields they are written to, and both unpackers let the names pass.
ASSUME ListsAssumption ==
    Lists \subseteq {l \in Seq(Entry) :
                        /\ Len(l) < Word
                        /\ \A i \in DOMAIN l : /\ ValidName(l[i].name)
                                              /\ Len(l[i].name) \in 1 .. MaxNameLen
                                              /\ Len(l[i].data) < Word}

Archives == {Pack(l) : l \in Lists}
=============================================================================
