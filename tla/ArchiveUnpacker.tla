-------------------------- MODULE ArchiveUnpacker --------------------------
(***************************************************************************)
(* The streaming unpacker of the replay server, class ArchiveUnpacker of   *)
(* src/fhetch_transport/archive.cpp.  The request body arrives in spans    *)
(* cut anywhere by the network; feed() is called with each of them and     *)
(* finish() once when the body has ended.                                  *)
(*                                                                         *)
(* A step is one turn of the loop of feed().  After an exception the       *)
(* object is never used again: the server stops reading.                   *)
(***************************************************************************)
EXTENDS ArchiveFormat

CONSTANTS
    Spans,      \* the spans a call of feed() may be given
    MaxBytes    \* bound on the length of the body

ASSUME SpanAssumption ==
    /\ Spans \subseteq Seq(Byte) \ {<<>>}
    /\ MaxBytes \in Nat

VARIABLES
    chunk,      \* data[off..len) of the running feed(), <<>> between calls
    state,      \* state_
    pending,    \* pending_
    need,       \* need_
    count,      \* count_
    done_count, \* done_count_
    cur_name,   \* cur_name_
    remaining,  \* data_remaining_
    disk,       \* the directory dest_
    outcome,    \* "running", or how it ended: "threw" or "ok"
    fed,        \* history: every byte handed to feed()
    entries,    \* history: the entries written in full, in order
    accepted,   \* history: the wire bytes of those entries
    ioError     \* history: the file system refused an operation

vars == <<chunk, state, pending, need, count, done_count, cur_name, remaining,
          disk, outcome, fed, entries, accepted, ioError>>

FieldStates == {"Magic", "Count", "NameLen", "Name", "DataLen"}

Init ==
    /\ chunk = <<>>
    /\ state = "Magic"
    /\ pending = <<>>
    /\ need = Len(Magic)
    /\ count = 0
    /\ done_count = 0
    /\ cur_name = <<>>
    /\ remaining = 0
    /\ disk = EmptyDir
    /\ outcome = "running"
    /\ fed = <<>>
    /\ entries = <<>>
    /\ accepted = <<>>
    /\ ioError = FALSE

Throw == outcome' = "threw"

\* A call of feed() with the next span of the body.
Feed(span) ==
    /\ outcome = "running" /\ chunk = <<>>
    /\ Len(fed) + Len(span) <= MaxBytes
    /\ chunk' = span
    /\ fed' = fed \o span
    /\ UNCHANGED <<state, pending, need, count, done_count, cur_name, remaining,
                   disk, outcome, entries, accepted, ioError>>

\* The head of chunk of length n and what is behind it.
Head_(n) == SubSeq(chunk, 1, n)
Rest(n) == SubSeq(chunk, n + 1, Len(chunk))

\* The bug of comparing the counter before it is incremented.
BugEntryDone(data) ==
    LET e == [name |-> cur_name, data |-> data] IN
    /\ done_count' = done_count + 1
    /\ state' = IF done_count = count THEN "Done" ELSE "NameLen"
    /\ need' = Width
    /\ pending' = <<>>
    /\ entries' = Append(entries, e)
    /\ accepted' = accepted \o Frame(e)

\* What both ways of completing an entry do: the file is closed and counted.
EntryDone(data) ==
    LET e == [name |-> cur_name, data |-> data] IN
    /\ done_count' = done_count + 1
    /\ state' = IF done_count + 1 = count THEN "Done" ELSE "NameLen"
    /\ need' = Width
    /\ pending' = <<>>
    /\ entries' = Append(entries, e)
    /\ accepted' = accepted \o Frame(e)

-----------------------------------------------------------------------------
(* State Data: bytes go straight to the open file.                         *)

\* The bug of writing all of the span to the file that is open.
BugSpan == Len(chunk)

Span == IF remaining < Len(chunk) THEN remaining ELSE Len(chunk)

WriteData ==
    /\ outcome = "running" /\ chunk # <<>> /\ state = "Data"
    /\ chunk' = Rest(Span)
    /\ remaining' = remaining - Span
    /\ disk' = Write(disk, cur_name, disk[cur_name] \o Head_(Span))
    /\ IF Span = remaining
       THEN EntryDone(disk[cur_name] \o Head_(Span))
       ELSE UNCHANGED <<done_count, state, need, pending, entries, accepted>>
    /\ UNCHANGED <<count, cur_name, outcome, fed, ioError>>

\* A short write, or a flush that fails at close(): any part of the bytes may
\* have reached the disk.
WriteFails ==
    /\ outcome = "running" /\ chunk # <<>> /\ state = "Data"
    /\ \E n \in 0 .. Span :
          disk' = Write(disk, cur_name, disk[cur_name] \o Head_(n))
    /\ ioError' = TRUE
    /\ Throw
    /\ UNCHANGED <<chunk, state, pending, need, count, done_count, cur_name,
                   remaining, fed, entries, accepted>>

-----------------------------------------------------------------------------
(* State Done: nothing may follow the last entry.                          *)

TrailingBytes ==
    /\ outcome = "running" /\ chunk # <<>> /\ state = "Done"
    /\ Throw
    /\ UNCHANGED <<chunk, state, pending, need, count, done_count, cur_name,
                   remaining, disk, fed, entries, accepted, ioError>>

-----------------------------------------------------------------------------
(* The other states gather need bytes of a field in pending.               *)

Want == need - Len(pending)

Gather ==
    /\ outcome = "running" /\ chunk # <<>> /\ state \in FieldStates
    /\ Len(chunk) < Want
    /\ pending' = pending \o chunk
    /\ chunk' = <<>>
    /\ UNCHANGED <<state, need, count, done_count, cur_name, remaining, disk,
                   outcome, fed, entries, accepted, ioError>>

\* chunk completes the field that s names.
Complete(s) ==
    /\ outcome = "running" /\ chunk # <<>> /\ state = s
    /\ Len(chunk) >= Want
    /\ chunk' = Rest(Want)
    /\ fed' = fed

Field == pending \o Head_(Want)

\* The field is refused.  What the object holds then is of no use to anyone.
Refuse ==
    /\ Throw
    /\ pending' = Field
    /\ UNCHANGED <<state, need, count, done_count, cur_name, remaining, disk,
                   entries, accepted>>

ReadMagic ==
    /\ Complete("Magic")
    /\ IF Field # Magic
       THEN Refuse
       ELSE /\ state' = "Count"
            /\ need' = Width
            /\ pending' = <<>>
            /\ UNCHANGED <<count, done_count, cur_name, remaining, disk,
                           outcome, entries, accepted>>
    /\ ioError' = ioError

\* The directory is there: the handler has just made it with mkdtemp().
ReadCount ==
    /\ Complete("Count")
    /\ count' = ReadLE(Field)
    /\ state' = IF count' = 0 THEN "Done" ELSE "NameLen"
    /\ need' = Width
    /\ pending' = <<>>
    /\ UNCHANGED <<done_count, cur_name, remaining, disk, outcome, entries,
                   accepted, ioError>>

\* The bug of a bound that excludes the longest name.
BugReadNameLen ==
    /\ Complete("NameLen")
    /\ IF ReadLE(Field) = 0 \/ ReadLE(Field) >= MaxNameLen
       THEN Refuse
       ELSE /\ state' = "Name"
            /\ need' = ReadLE(Field)
            /\ pending' = <<>>
            /\ UNCHANGED <<count, done_count, cur_name, remaining, disk,
                           outcome, entries, accepted>>
    /\ ioError' = ioError

\* The length is bounded before need commits the unpacker to buffering it.
ReadNameLen ==
    /\ Complete("NameLen")
    /\ IF ReadLE(Field) = 0 \/ ReadLE(Field) > MaxNameLen
       THEN Refuse
       ELSE /\ state' = "Name"
            /\ need' = ReadLE(Field)
            /\ pending' = <<>>
            /\ UNCHANGED <<count, done_count, cur_name, remaining, disk,
                           outcome, entries, accepted>>
    /\ ioError' = ioError

\* The bug of not clearing the accumulator behind a name.
BugReadName ==
    /\ Complete("Name")
    /\ cur_name' = Field
    /\ state' = "DataLen"
    /\ need' = Width
    /\ pending' = Field
    /\ UNCHANGED <<count, done_count, remaining, disk, outcome, entries,
                   accepted, ioError>>

ReadName ==
    /\ Complete("Name")
    /\ cur_name' = Field
    /\ state' = "DataLen"
    /\ need' = Width
    /\ pending' = <<>>
    /\ UNCHANGED <<count, done_count, remaining, disk, outcome, entries,
                   accepted, ioError>>

\* The name is validated here, and the file created: an empty one is complete
\* at once.
ReadDataLen ==
    /\ Complete("DataLen")
    /\ IF ~ValidName(cur_name)
       THEN Refuse
       ELSE /\ remaining' = ReadLE(Field)
            /\ disk' = Write(disk, cur_name, <<>>)
            /\ IF ReadLE(Field) = 0
               THEN EntryDone(<<>>)
               ELSE /\ state' = "Data"
                    /\ pending' = <<>>
                    /\ UNCHANGED <<done_count, need, entries, accepted>>
            /\ UNCHANGED <<count, cur_name, outcome>>
    /\ ioError' = ioError

\* The directories of the entry cannot be created, or the file not opened.
OpenFails ==
    /\ Complete("DataLen")
    /\ ValidName(cur_name)
    /\ Refuse
    /\ ioError' = TRUE

-----------------------------------------------------------------------------

\* The body ended; finish() decides whether it ended on an entry boundary.
Finish ==
    /\ outcome = "running" /\ chunk = <<>>
    /\ outcome' = IF state = "Done" THEN "ok" ELSE "threw"
    /\ UNCHANGED <<chunk, state, pending, need, count, done_count, cur_name,
                   remaining, disk, fed, entries, accepted, ioError>>

Next ==
    \/ \E span \in Spans : Feed(span)
    \/ WriteData \/ WriteFails
    \/ TrailingBytes
    \/ Gather
    \/ ReadMagic \/ ReadCount \/ ReadNameLen \/ ReadName
    \/ ReadDataLen \/ OpenFails
    \/ Finish

Spec == Init /\ [][Next]_vars

-----------------------------------------------------------------------------

(* The loop of feed() never reads past what it was given and its counters  *)
(* stay in range: a field is wanted only while it is incomplete, data only *)
(* while an entry is open, and no more entries are done than were          *)
(* announced.                                                              *)
TypeOK ==
    /\ chunk \in Seq(Byte) /\ fed \in Seq(Byte) /\ accepted \in Seq(Byte)
    /\ state \in FieldStates \cup {"Data", "Done"}
    /\ pending \in Seq(Byte) /\ cur_name \in Seq(Byte)
    /\ need \in Nat /\ count \in 0 .. Word - 1
    /\ done_count \in Nat /\ remaining \in 0 .. Word - 1
    /\ entries \in Seq(Entry)
    /\ DOMAIN disk \subseteq Seq(Byte)
    /\ disk \in [DOMAIN disk -> Seq(Byte)]
    /\ outcome \in {"running", "threw", "ok"}
    /\ ioError \in BOOLEAN

(* What has been decoded, put back on the wire.                            *)
Decoded ==
    LET header == Magic \o AppendLE(count)
        name   == AppendLE(Len(cur_name)) \o cur_name
        data   == disk[cur_name]
    IN  CASE state = "Magic"   -> <<>>
          [] state = "Count"   -> Magic
          [] state = "NameLen" -> header \o accepted
          [] state = "Name"    -> header \o accepted \o AppendLE(need)
          [] state = "DataLen" -> header \o accepted \o name
          [] state = "Data"    -> header \o accepted \o name
                                    \o AppendLE(Len(data) + remaining) \o data
          [] state = "Done"    -> header \o accepted

(* NothingLost: no byte of the body is dropped, repeated or moved by the   *)
(* way it was cut into spans.  The bytes fed so far are those of the       *)
(* decoded part, then the unfinished field, then what feed() has not       *)
(* looked at.                                                              *)
NothingLost ==
    outcome = "running" => fed = Decoded \o pending \o chunk

(* UnpackSound: when finish() returns, the body was, to the byte, the      *)
(* archive of the entries extracted, as many as it announced, all with     *)
(* acceptable names, and the directory holds those entries and no torn     *)
(* file.                                                                   *)
UnpackSound ==
    outcome = "ok" =>
        /\ fed = Pack(entries)
        /\ done_count = count /\ Len(entries) = count
        /\ \A i \in DOMAIN entries : ValidName(entries[i].name)
        /\ disk = Extract(entries)

(* UnpackComplete: unless the disk fails, feed() never gives up on what is *)
(* or may become the archive of entries with acceptable names, nor         *)
(* finish() on what is one, wherever it was cut.  It was feed() that threw *)
(* if a whole field, or bytes it was given, are left.                      *)
FeedThrew == outcome = "threw" /\ (Len(pending) = need \/ chunk # <<>>)

UnpackComplete ==
    ~ioError => /\ outcome = "threw" => fed \notin Archives
                /\ FeedThrew => \A a \in Archives : ~IsPrefix(fed, a)

(* UnpackExact: what is accepted are the archives and nothing else.        *)
UnpackExact == UnpackSound /\ UnpackComplete

(* Promise: the byte machine implements the promise of a receiver, one     *)
(* turn of the loop at a time.                                             *)
Stream == INSTANCE EntryStream WITH
    announced <- IF state \in {"Magic", "Count"} THEN {} ELSE {count},
    received  <- entries,
    current   <- IF state = "Data" THEN {cur_name} ELSE {}

Promise == Stream!Spec
=============================================================================
