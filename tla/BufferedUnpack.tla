--------------------------- MODULE BufferedUnpack ---------------------------
(***************************************************************************)
(* The buffered unpacker, unpack_into() of src/fhetch_transport/           *)
(* archive.cpp, with which the replay client extracts the probes of a      *)
(* response it holds in memory.  A step is the header, or one entry of the *)
(* loop.                                                                   *)
(*                                                                         *)
(* Positions and lengths are size_t, here modulo Word.  An archive in      *)
(* memory is shorter than half of the address space, and a length of at    *)
(* least half of it is negative as the std::streamsize write() takes: such *)
(* a write fails.                                                          *)
(***************************************************************************)
EXTENDS ArchiveFormat

CONSTANT Responses  \* the buffers unpack_into() may be given

ASSUME ResponsesAssumption ==
    \A r \in Responses : r \in Seq(Byte) /\ Len(r) < Word \div 2

VARIABLES
    archive,    \* the buffer
    pos,        \* how much of it is consumed
    count,      \* {n} once the header is read
    i,          \* the loop's counter
    disk,       \* the directory dest
    outcome,    \* "running", "threw" or "ok"
    entries,    \* history: the entries extracted
    accepted,   \* history: the bytes of those entries
    lost        \* history: a file was closed with less than it was given

vars == <<archive, pos, count, i, disk, outcome, entries, accepted, lost>>

Init ==
    /\ archive \in Responses
    /\ pos = 0
    /\ count = {}
    /\ i = 0
    /\ disk = EmptyDir
    /\ outcome = "running"
    /\ entries = <<>>
    /\ accepted = <<>>
    /\ lost = FALSE

Size == Len(archive)
Bytes(from, n) == SubSeq(archive, from + 1, from + n)

\* The bug of a response not allowed to end with a field.
BugFits(p, n) == (p + n) % Word < Size

\* Can a field of n bytes be read at p?  The sum is size_t arithmetic.
Fits(p, n) == (p + n) % Word <= Size

HeaderFits == Size >= Len(Magic) + Width /\ Bytes(0, Len(Magic)) = Magic

ReadHeader ==
    /\ outcome = "running" /\ count = {}
    /\ IF HeaderFits
       THEN /\ count' = {ReadLE(Bytes(Len(Magic), Width))}
            /\ pos' = Len(Magic) + Width
            /\ UNCHANGED outcome
       ELSE outcome' = "threw" /\ UNCHANGED <<count, pos>>
    /\ UNCHANGED <<archive, i, disk, entries, accepted, lost>>

\* The directory dest cannot be created.
DirFails ==
    /\ outcome = "running" /\ count = {}
    /\ HeaderFits
    /\ outcome' = "threw"
    /\ UNCHANGED <<archive, pos, count, i, disk, entries, accepted, lost>>

MoreEntries == outcome = "running" /\ \E n \in count : i < n

(* The entry at pos: where its name and its data start, and their lengths. *)
(* Each is used only behind the check that it can be read.                 *)
NameAt == pos + Width
NameLen == ReadLE(Bytes(pos, Width))
Name == Bytes(NameAt, NameLen)
LenAt == NameAt + NameLen
DataAt == LenAt + Width
DataLen == ReadLE(Bytes(LenAt, Width))
Data == Bytes(DataAt, DataLen)

\* The length of a name has half the bits of a size_t: its end cannot wrap.
FrameFits ==
    /\ Fits(pos, Width)
    /\ NameAt + NameLen <= Size
    /\ Fits(LenAt, Width)
    /\ Fits(DataAt, DataLen)

\* And its data can be written: a length that wrapped around is negative.
EntryFits == FrameFits /\ ValidName(Name) /\ DataLen < Word \div 2

\* The bug of not moving past the data.
BugNextEntry ==
    LET e == [name |-> Name, data |-> Data] IN
    /\ entries' = Append(entries, e) /\ accepted' = accepted \o Frame(e)
    /\ pos' = DataAt
    /\ i' = i + 1

NextEntry ==
    LET e == [name |-> Name, data |-> Data] IN
    /\ entries' = Append(entries, e) /\ accepted' = accepted \o Frame(e)
    /\ pos' = (DataAt + DataLen) % Word
    /\ i' = i + 1

ExtractEntry ==
    /\ MoreEntries
    /\ EntryFits
    /\ disk' = Write(disk, Name, Data)
    /\ NextEntry
    /\ UNCHANGED <<archive, count, outcome, lost>>

\* The write went to the stream's buffer.  The destructor of the stream closes
\* the file and tells nobody that the flush failed.
FlushFails ==
    /\ MoreEntries
    /\ EntryFits
    /\ \E n \in 0 .. DataLen - 1 : disk' = Write(disk, Name, Bytes(DataAt, n))
    /\ NextEntry
    /\ lost' = TRUE
    /\ UNCHANGED <<archive, count, outcome>>

\* A field, the name or the data reaches past the end, or the name is refused.
RefuseEntry ==
    /\ MoreEntries
    /\ ~(FrameFits /\ ValidName(Name))
    /\ outcome' = "threw"
    /\ UNCHANGED <<archive, pos, count, i, disk, entries, accepted, lost>>

\* The bug of not testing the stream after such a write.
BugWriteWrapped ==
    /\ MoreEntries
    /\ FrameFits /\ ValidName(Name)
    /\ DataLen >= Word \div 2
    /\ disk' = Write(disk, Name, <<>>)
    /\ pos' = (DataAt + DataLen) % Word
    /\ i' = i + 1
    /\ UNCHANGED <<archive, count, outcome, entries, accepted, lost>>

\* The end of the data wrapped around and passed the check; the write, of a
\* negative length, fails and leaves the file it truncated.
WriteWrapped ==
    /\ MoreEntries
    /\ FrameFits /\ ValidName(Name)
    /\ DataLen >= Word \div 2
    /\ disk' = Write(disk, Name, <<>>)
    /\ outcome' = "threw"
    /\ UNCHANGED <<archive, pos, count, i, entries, accepted, lost>>

\* The file cannot be created, or the write is short and is noticed.
DiskFails ==
    /\ MoreEntries
    /\ EntryFits
    /\ \/ disk' = disk
       \/ \E n \in 0 .. DataLen : disk' = Write(disk, Name, Bytes(DataAt, n))
    /\ outcome' = "threw"
    /\ UNCHANGED <<archive, pos, count, i, entries, accepted, lost>>

\* The loop is over.  Where pos is does not matter.
Return ==
    /\ outcome = "running" /\ count = {i}
    /\ outcome' = "ok"
    /\ UNCHANGED <<archive, pos, count, i, disk, entries, accepted, lost>>

Next ==
    \/ ReadHeader \/ DirFails
    \/ ExtractEntry \/ FlushFails \/ RefuseEntry \/ WriteWrapped \/ DiskFails
    \/ Return

Spec == Init /\ [][Next]_vars

-----------------------------------------------------------------------------

(* The cursor stays in the buffer although its arithmetic wraps around,    *)
(* and the loop never counts past the header's count.                      *)
TypeOK ==
    /\ archive \in Seq(Byte)
    /\ pos \in 0 .. Size
    /\ count \in SUBSET (0 .. Word - 1)
    /\ i \in Nat /\ \A n \in count : i <= n
    /\ disk \in [DOMAIN disk -> Seq(Byte)]
    /\ outcome \in {"running", "threw", "ok"}
    /\ entries \in Seq(Entry)
    /\ lost \in BOOLEAN

(* ReadsInBounds: what is written to disk comes from the buffer, at the    *)
(* place the format says: the bytes consumed are the header and the frames *)
(* of the entries extracted.  A wrapped sum never gets that far.           *)
ReadsInBounds ==
    \A n \in count : Bytes(0, pos) = Magic \o AppendLE(n) \o accepted

(* ReverseOfPack: success means that the response began with the archive   *)
(* of acceptable entries and that these are on disk, unless a flush was    *)
(* lost.  It may not have ended there: the streaming unpacker refuses      *)
(* bytes behind the last entry, this one does not look.                    *)
ReverseOfPack ==
    outcome = "ok" =>
        /\ IsPrefix(Pack(entries), archive)
        /\ count = {Len(entries)}
        /\ \A k \in DOMAIN entries : ValidName(entries[k].name)
        /\ ~lost => disk = Extract(entries)

(* AcceptsPacked: of an archive of acceptable entries neither the header   *)
(* nor an entry is refused; only the disk can fail.                        *)
AcceptsPacked ==
    archive \in Archives => /\ outcome = "running" /\ count = {} => HeaderFits
                            /\ MoreEntries => EntryFits

(* PackedExactly: what was packed is unpacked, to what it was.             *)
PackedExactly == ReverseOfPack /\ AcceptsPacked

(* WritesEachEntry: "Writes each archived entry to dest / entry_name"      *)
(* (archive.h:43-44).  The streaming unpacker tests the stream after       *)
(* closing it, unpack_into() does not.                                     *)
WritesEachEntry == outcome = "ok" => disk = Extract(entries)

(* Promise: the buffered unpacker makes the promise of any receiver up to  *)
(* the first flush that is lost.                                           *)
Stream == INSTANCE EntryStream WITH
    announced <- count, received <- entries, current <- {}

Promise == Stream!Init /\ [][Stream!Next \/ lost']_(Stream!vars)
=============================================================================
