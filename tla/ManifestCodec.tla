--------------------------- MODULE ManifestCodec ---------------------------
(***************************************************************************)
(* A snapshot's manifest: built record by record in memory (manifest.c,    *)
(* meta.c), stored as one file, and read back through callbacks.  Memory   *)
(* may run out in any call, a later version of the program may add fields  *)
(* and records of its own, and storage may cut, change or extend the file. *)
(***************************************************************************)
EXTENDS Tlv

CONSTANTS
    Snaps, VolumeRecords, Entries, \* what there is to record
    MaxRecords,              \* at most so many calls
    Decay                    \* what a decayed cell may hold

VARIABLES
    writer,   \* the amisnap_manifest_writer
    calls,    \* what its caller asked it to record, whatever it answered
    file,     \* the manifest stored, or <<>>
    fate,     \* what happened to it: a subset of {"skip", "critical", "decay"}
    reader    \* the locals of amisnap_manifest_decode(), and its callbacks

manifestVars == <<writer, calls, file, fate, reader>>

SnapTag == 102
VolumeTag == 103
EntryTag == 104
EndTag == 105
SnapLayout == <<Must(120, 3), May(21, String), May(22, String), May(23, String)>>
VolumeLayout == <<Must(130, String), May(31, String), May(32, 1), May(33, 3), May(34, 2)>>
EntryLayout == <<Must(140, String), Must(141, 1), Must(142, 1), Must(143, 3), May(44, String),
                 May(45, 2), May(146, 1), Many(147, 2), May(148, String), May(49, 1)>>
EndLayout == <<Must(150, 1), Must(151, 1)>>
Layout(tag) == CASE tag = SnapTag -> SnapLayout [] tag = VolumeTag -> VolumeLayout
                 [] tag = EntryTag -> EntryLayout [] tag = EndTag -> EndLayout

Newer == {9, 109}            \* tags this version does not know

NewWriter == [body |-> <<>>, count |-> 0, snap |-> FALSE, error |-> "ok"]
NoReader == [pos |-> 0, snap |-> FALSE, end |-> FALSE, count |-> 0, told |-> <<>>, rc |-> "none"]

ManifestInit ==
    /\ writer = NewWriter
    /\ calls = <<>> /\ file = <<>> /\ fate = {}
    /\ reader = NoReader

-----------------------------------------------------------------------------
(* Writing.                                                                *)

Writing == file = <<>> /\ reader.rc = "none"
Room == Len(calls) < MaxRecords

\* An earlier failure is the answer to everything after it.
Failed(rc) == writer' = [writer EXCEPT !.error = rc]

\* The record is encoded on its own, then appended; a later version adds
\* fields this one does not know.
Append1(tag, body, seen) ==
    writer' = [writer EXCEPT !.body = @ \o Field(tag, body), !.snap = TRUE,
                             !.count = IF tag = EntryTag THEN @ + 1 ELSE @]
              /\ fate' = fate \cup seen
OutOfMemoryForgotten(tag, body) ==  \* mutant: the failure is not latched
    /\ writer' \in {writer, [writer EXCEPT !.body = @ \o HalfField(tag, body)]}
    /\ fate' = fate

OutOfMemory(tag, body) ==
    /\ writer' \in {[writer EXCEPT !.error = "nomem"],
                    [writer EXCEPT !.error = "nomem", !.body = @ \o HalfField(tag, body)]}
    /\ fate' = fate

Record(tag, m) ==
    IF TooLong(Layout(tag), m) THEN Failed("toolong") /\ fate' = fate
    ELSE \E body \in {Body(Layout(tag), m)} :
         \/ Append1(tag, body, {})
         \/ Append1(tag, body \o Field(9, <<>>), {"skip"})
         \/ Append1(tag, body \o Field(109, <<>>), {"critical"})
         \/ OutOfMemory(tag, body)

InOrder(tag) == IF tag = SnapTag THEN ~writer.snap ELSE writer.snap
OutOfOrder(tag) == IF tag = SnapTag THEN "malformed" ELSE "missing"

Call(tag, m) ==
    /\ Writing /\ Room
    /\ calls' = Append(calls, [tag |-> tag, m |-> m])
    /\ IF writer.error # "ok" THEN UNCHANGED <<writer, fate>>
       ELSE IF InOrder(tag) THEN Record(tag, m)
       ELSE Failed(OutOfOrder(tag)) /\ fate' = fate
    /\ UNCHANGED <<file, reader>>

WriterSnap == \E m \in Snaps : Call(SnapTag, m)
WriterVolume == \E m \in VolumeRecords : Call(VolumeTag, m)
WriterEntry == \E m \in Entries : Call(EntryTag, m)

\* A whole record of a later version.
NewerRecord ==
    /\ Writing /\ writer.snap /\ fate = {}
    /\ \E t \in Newer : Append1(t, <<>>, IF Critical(t) THEN {"critical"} ELSE {"skip"})
    /\ UNCHANGED <<calls, file, reader>>

Finished(w) ==
    LET sealed == FileHeader(2, 0) \o w.body
        end == With(With(Empty(EndLayout), 150, <<Num(w.count)>>), 151, <<Digest(sealed)>>)
    IN  sealed \o Field(EndTag, Body(EndLayout, end))

\* amisnap_manifest_writer_finish(), which fails after any failure, and the
\* put of what it made.
WriterFinish ==
    /\ Writing
    /\ writer.error = "ok" /\ writer.snap
    /\ file' = Finished(writer)
    /\ UNCHANGED <<writer, calls, fate, reader>>

-----------------------------------------------------------------------------
(* What storage does to the file, once.                                    *)

Stored == file # <<>> /\ reader.rc = "none"

Decayed ==
    {SubSeq(file, 1, n) : n \in 1 .. Len(file) - 1}
        \cup {[file EXCEPT ![i] = Num(d)] : i \in DOMAIN file, d \in Decay}
        \cup {file \o Field(t, <<>>) : t \in Newer \cup {EntryTag}}

Decays ==
    /\ Stored /\ fate = {}
    /\ file' \in Decayed \ {file}
    /\ fate' = {"decay"}
    /\ UNCHANGED <<writer, calls, reader>>

-----------------------------------------------------------------------------
(* amisnap_manifest_decode()                                               *)

Refuse(rc) == reader' = [reader EXCEPT !.rc = rc]

ReadHeader ==
    /\ Stored
    /\ LET rc == HeaderVerdict(file, 2) IN
          reader' = IF rc = "ok" THEN [reader EXCEPT !.rc = "reading", !.pos = 5]
                    ELSE [reader EXCEPT !.rc = rc]
    /\ UNCHANGED <<writer, calls, file, fate>>

\* The callback of a record; it may ask to stop.
Told(tag, m, next) ==
    LET r == [reader EXCEPT !.told = Append(@, [tag |-> tag, m |-> m]), !.pos = next,
                            !.snap = TRUE, !.count = IF tag = EntryTag THEN @ + 1 ELSE @]
    IN  reader' \in {r, [r EXCEPT !.rc = "aborted"]}

\* What a type of entry must have: 1 is a file, 3 and 4 are links.
Consistent(tag, m) ==
    tag = EntryTag =>
        LET type == Number(m[141][1][1]) IN
        CASE type = 1 -> m[146] # <<>> /\ (m[146][1] # <<Num(0)>> => m[147] # <<>>)
          [] type \in {3, 4} -> m[148] # <<>>
          [] OTHER -> TRUE

\* Room for the references of an entry, from the record's length: each takes
\* its value and a tag and a length, here four cells.
RefCapFixed(value) == 1     \* mutant: a fixed limit

RefCap(value) == (Len(value) \div 4) + 1

ReadRecord(f) ==
    \E d \in {Decode(Layout(f.tag), f.value, RefCap(f.value))} :
        IF d.rc # "ok" THEN Refuse(d.rc)
        ELSE IF ~Consistent(f.tag, d.m) THEN Refuse("missing")
        ELSE Told(f.tag, d.m, f.next) \/ (f.tag = EntryTag /\ Refuse("nomem"))

ReadEnd(f) ==
    \E d \in {Decode(EndLayout, f.value, 1)} :
        IF d.rc # "ok" THEN Refuse(d.rc)
        ELSE IF d.m[150] # <<<<Num(reader.count)>>>> THEN Refuse("malformed")
        ELSE IF d.m[151] # <<<<Digest(SubSeq(file, 1, reader.pos - 1))>>>> THEN Refuse("mismatch")
        ELSE reader' = [reader EXCEPT !.end = TRUE, !.pos = f.next]

ReadFieldStuck(f) ==         \* mutant: an unknown record is not passed over
    IF ~reader.snap /\ f.tag # SnapTag THEN Refuse("missing")
    ELSE IF reader.end THEN Refuse("malformed")
    ELSE IF f.tag = SnapTag /\ reader.snap THEN Refuse("malformed")
    ELSE IF f.tag \in {SnapTag, VolumeTag, EntryTag} THEN ReadRecord(f)
    ELSE IF f.tag = EndTag THEN ReadEnd(f)
    ELSE IF Critical(f.tag) THEN Refuse("critical")
    ELSE UNCHANGED reader

ReadField(f) ==
    IF ~reader.snap /\ f.tag # SnapTag THEN Refuse("missing")
    ELSE IF reader.end THEN Refuse("malformed")
    ELSE IF f.tag = SnapTag /\ reader.snap THEN Refuse("malformed")
    ELSE IF f.tag \in {SnapTag, VolumeTag, EntryTag} THEN ReadRecord(f)
    ELSE IF f.tag = EndTag THEN ReadEnd(f)
    ELSE IF Critical(f.tag) THEN Refuse("critical")
    ELSE reader' = [reader EXCEPT !.pos = f.next]

ReadOn ==
    /\ reader.rc = "reading"
    /\ \E f \in {CursorField(file, reader.pos)} :
          CASE f.rc = "truncated" -> Refuse("truncated")
            [] f.rc = "end" -> Refuse(IF reader.snap /\ reader.end THEN "ok" ELSE "missing")
            [] OTHER -> ReadField(f)
    /\ UNCHANGED <<writer, calls, file, fate>>

ManifestNext ==
    \/ WriterSnap \/ WriterVolume \/ WriterEntry \/ NewerRecord \/ WriterFinish
    \/ Decays
    \/ ReadHeader \/ ReadOn

-----------------------------------------------------------------------------
(* Properties.                                                             *)

\* What the reader has told, and where it is, stays inside the file, and a
\* verdict is one of those tlv.h lists.
ManifestTypeOK ==
    /\ writer.error \in {"ok", "nomem", "toolong", "malformed", "missing"}
    /\ reader.pos \in 0 .. Len(file) + 1
    /\ reader.rc \in Refusals \cup {"none", "reading", "ok", "aborted", "nomem"}
    /\ Len(reader.told) <= Len(file)

\* manifest.h "MUST be treated as absent/corrupt, never partially trusted":
\* whatever storage did, when decode says OK the callbacks were told exactly
\* what the writer's caller asked to record, in that order, none left out
\* because it failed on the way.
AcceptedIsWhatWasAsked == reader.rc = "ok" => reader.told = calls

\* "a writer used correctly cannot produce a manifest decode would reject":
\* a manifest storage left alone, and to which no later version added what it
\* marked critical, is accepted unless a callback asks to stop.
WrittenIsAccepted ==
    fate \subseteq {"skip"} => reader.rc \notin Refusals

\* format.md "TLV encoding": what a later version marked critical is refused.
CriticalIsRefused == "critical" \in fate => reader.rc # "ok"

\* Every read ends.
ReadingEnds == reader.rc = "reading" ~> reader.rc # "reading"

\* amisnap_manifest_decode(): a manifest that is accepted is the one that was
\* asked for, one that was written is accepted, and what must be refused is.
DecodesWhatWasWritten ==
    ManifestTypeOK /\ AcceptedIsWhatWasAsked /\ WrittenIsAccepted /\ CriticalIsRefused
=============================================================================
