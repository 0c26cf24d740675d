------------------------------ MODULE MCParts ------------------------------
(***************************************************************************)
(* The parts that work alone, for TLC: the formats of a repository, and    *)
(* what the command-line program does beside the repository.  They share   *)
(* no state: a behaviour is one of a manifest, a header, stored objects, a *)
(* digest, a line of the exclude file, a walk over a source, the list of   *)
(* snapshots, sidecars and their calendar, random numbers and prompts, or  *)
(* whole runs of the program, and the other variables stand still.         *)
(***************************************************************************)
EXTENDS ManifestCodec, HeaderCodec, StoredForm, Digests,
        Scan, SnapshotList, MCUaem, Entropy, Process, TLC

CONSTANTS x0, x1, x2

VARIABLE machine

formatVars == <<manifestVars, headerVars, storedVars, digestVars>>
commandVars == <<line, scanVars, listVars, uaemVars, entropyVars, processVars>>
vars == <<machine, formatVars, commandVars>>

-----------------------------------------------------------------------------
(* Inputs of the formats.                                                  *)

Text(n) == [i \in 1 .. n |-> Num(60 + i)]
Three == <<Num(1), Num(2), Num(3)>>

\* A snapshot with an application name, one with a volume name too long.
ASnap == With(Empty(SnapLayout), 120, Three)
MCSnaps == {With(ASnap, 21, Text(2)), With(ASnap, 23, Text(3))}
MCVolumeRecords == {With(With(With(Empty(VolumeLayout), 130, Text(1)), 32, <<Num(5)>>),
                   34, <<Num(30), Num(1)>>)}
AnEntry(type) == With(With(With(With(Empty(EntryLayout), 140, Text(1)), 141, <<Num(type)>>),
                           142, <<Num(0)>>), 143, Three)
Ref(i) == <<Num(50 + i), Num(2)>>

\* A file of two chunks, an empty file, a directory and a link.
MCEntries == {[With(AnEntry(1), 146, <<Num(4)>>) EXCEPT ![147] = <<Ref(1), Ref(2)>>],
              With(With(AnEntry(1), 146, <<Num(0)>>), 49, <<Num(8)>>),
              With(AnEntry(2), 45, <<Num(1), Num(1)>>),
              With(AnEntry(3), 148, Text(2))}

MCSalts == {<<Num(41), Num(42)>>, <<Num(43), Num(44)>>}

\* An empty content, one that does not compress, one that does.
MCSize == [x \in Content |-> IF x = x0 THEN 0 ELSE IF x = x1 THEN 1 ELSE 4]
MCPacked == [x \in Content |-> IF x = x2 THEN [lz4 |-> 3, zlib |-> 2] ELSE [lz4 |-> 1, zlib |-> 2]]

MCKeys == {[i \in 1 .. n |-> <<9>>] : n \in {1, 2, 4}}
MCSecrets == {[i \in 1 .. n |-> <<9>>] : n \in {1, 4}}
MCDeriveSalts == {<<<<5>>>>, <<<<5>>, <<6>>>>}

-----------------------------------------------------------------------------
(* Paths without empty components: one to three short ones, two longer.    *)

Texts(n) == UNION {[1 .. k -> {"A", "b"}] : k \in 1 .. n}
MCPaths == Texts(3)
           \cup {c \o <<"/">> \o d : c \in Texts(2), d \in Texts(1)}
           \cup {c \o <<"/">> \o d \o <<"/">> \o e : c \in Texts(1), d \in Texts(1), e \in Texts(1)}

A == <<"A">>
B == <<"b">>
AB == <<"A", "b">>
Root == <<>> :> "root"
MCVolumes ==
    {Root @@ <<A>> :> "userdir" @@ <<A, B>> :> "file" @@ <<A, A>> :> "userdir" @@ <<A, A, B>> :> "pipe"
        @@ <<B>> :> "file",
     Root @@ <<B>> :> "userdir" @@ <<B, AB>> :> "file" @@ <<B, A>> :> "linkdir" @@ <<A>> :> "file",
     Root @@ <<AB>> :> "userdir" @@ <<AB, AB>> :> "userdir" @@ <<AB, AB, AB>> :> "userdir"}
MCLists == {{}, {<<"a">>, <<"#", "x">>}, {<<"a", "/">>}, {<<"a", "/", "b">>}, {<<"#", "?", "b", "/">>}}

-----------------------------------------------------------------------------
(* Machines that stand still.                                              *)

HeaderIdle ==
    /\ wanted = [cipher |-> FALSE, framed |-> TRUE, pass |-> CHOOSE p \in Passphrases : TRUE]
    /\ header = <<>> /\ damaged = FALSE /\ opened = Unread
StoredIdle ==
    /\ kind = [cipher |-> FALSE, framed |-> FALSE]
    /\ objects = [x \in Content |-> Missing] /\ snapshots = [i \in Ids |-> Missing]
    /\ decayed = FALSE /\ clock = 0 /\ sealed = {} /\ result = NoResult
DigestIdle == hasher = ShaInit /\ fed = <<>> /\ digest = NoDigest /\ derived = {}

ScanIdle ==
    /\ before = Root /\ volume = Root /\ owners = FALSE /\ list = {}
    /\ frames = <<>> /\ pathBuf = <<>> /\ emitted = <<>> /\ counts = NoCounts /\ verdict = "failed"
UaemIdle ==
    /\ day = [y |-> 1978, m |-> 1, d |-> 1] /\ count = 0 /\ tree = Tree1
    /\ settings = [p \in DOMAIN tree |-> Untouched] /\ walk = <<>>
    /\ tally = [applied |-> 0, failed |-> 0] /\ refused = {} /\ outcome = "none"

FormatsIdle == ManifestInit /\ HeaderIdle /\ StoredIdle /\ DigestIdle
CommandsIdle == ExcludeInit /\ ScanIdle /\ ListInit /\ UaemIdle /\ EntropyInit /\ ProcessInit

MCInit ==
    \/ machine \in {"manifest", "exclude", "list", "entropy", "process"} /\ FormatsIdle /\ CommandsIdle
    \/ /\ machine = "header" /\ CommandsIdle
       /\ ManifestInit /\ HeaderInit /\ StoredIdle /\ DigestIdle
    \/ /\ machine = "stored" /\ CommandsIdle
       /\ ManifestInit /\ HeaderIdle /\ StoredInit /\ DigestIdle
    \/ /\ machine = "digest" /\ CommandsIdle
       /\ ManifestInit /\ HeaderIdle /\ StoredIdle /\ DigestInit
    \/ /\ machine = "scan" /\ FormatsIdle
       /\ ExcludeInit /\ ScanInit /\ ListInit /\ UaemIdle /\ EntropyInit /\ ProcessInit
    \/ /\ machine = "uaem" /\ FormatsIdle
       /\ ExcludeInit /\ ScanIdle /\ ListInit /\ UaemInit /\ EntropyInit /\ ProcessInit

\* The calendar is counted beside one tree that nobody walks.
UaemBeside == (count = 0 /\ WalkNext) \/ (walk = <<>> /\ outcome = "none" /\ tree = Tree1 /\ NewDay)

FormatsNext ==
    \/ machine = "manifest" /\ ManifestNext /\ UNCHANGED <<headerVars, storedVars, digestVars>>
    \/ machine = "header" /\ HeaderNext /\ UNCHANGED <<manifestVars, storedVars, digestVars>>
    \/ machine = "stored" /\ StoredNext /\ UNCHANGED <<manifestVars, headerVars, digestVars>>
    \/ machine = "digest" /\ DigestNext /\ UNCHANGED <<manifestVars, headerVars, storedVars>>

CommandsNext ==
    \/ /\ machine = "exclude" /\ ExcludeNext
       /\ UNCHANGED <<scanVars, listVars, uaemVars, entropyVars, processVars>>
    \/ /\ machine = "scan" /\ ScanNext
       /\ UNCHANGED <<line, listVars, uaemVars, entropyVars, processVars>>
    \/ /\ machine = "list" /\ ListNext
       /\ UNCHANGED <<line, scanVars, uaemVars, entropyVars, processVars>>
    \/ /\ machine = "uaem" /\ UaemBeside
       /\ UNCHANGED <<line, scanVars, listVars, entropyVars, processVars>>
    \/ /\ machine = "entropy" /\ EntropyNext
       /\ UNCHANGED <<line, scanVars, listVars, uaemVars, processVars>>
    \/ /\ machine = "process" /\ ProcessNext
       /\ UNCHANGED <<line, scanVars, listVars, uaemVars, entropyVars>>

MCNext ==
    \/ FormatsNext /\ UNCHANGED <<machine, commandVars>>
    \/ CommandsNext /\ UNCHANGED <<machine, formatVars>>

\* A reader of a manifest goes on until it has a verdict, and so does the walk
\* over a source; nothing makes anybody write, remove, type or start anything.
MCSpec ==
    /\ MCInit /\ [][MCNext]_vars
    /\ WF_vars(ReadOn /\ UNCHANGED <<machine, headerVars, storedVars, digestVars, commandVars>>)
    /\ WF_vars(ScanStep /\ UNCHANGED <<machine, formatVars, line, listVars, uaemVars, entropyVars, processVars>>)

\* The two documents made of fields.  The manifest of a snapshot is read as what
\* was written or refused, whatever damage it has and however little memory
\* there was.  The header of a repository opens with its passphrase alone, as
\* what was written if storage left it alone; with a cell of it changed it opens
\* with the repository's key, with none if it is plain, or not at all.
DocumentsReadBack == DecodesWhatWasWritten /\ OpensOnlyAsItIs

\* amisnap_manifest_decode() and amisnap_scan_volume() return, whatever they
\* are given: every length, every batch and every level is used up.
ReadersReturn == ReadingEnds /\ ScanEnds
=============================================================================
