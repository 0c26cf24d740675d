-------------------------------- MODULE Scan --------------------------------
(***************************************************************************)
(* The walk over a source (scan.c): its root, then every directory a batch *)
(* of names at a time, descending into a directory in the middle of its    *)
(* parent's batch with the one path buffer all levels share.  The disk is  *)
(* in use meanwhile: entries go away between being listed, being locked    *)
(* and being captured, except a directory that is locked, or holds one.    *)
(* Dos.library's side is modelled from how scan.c uses it: ExAll gives     *)
(* each entry once, in an order of its own, and says when it has no more.  *)
(***************************************************************************)
EXTENDS Exclude, FiniteSets, FiniteSetsExt

CONSTANTS
    Volumes,     \* the sources: functions from paths to kinds of node
    Lists,       \* the exclude files: sets of lines
    MaxGone,     \* the disk's other users remove things until so many are gone
    MaxBatch,    \* entries one ExAll can hold: 4096 bytes' worth
    PathRoom     \* characters a path may have: AMISNAP_SCAN_PATH_BUF_LEN - 1

\* A volume is a tree of named nodes; what holds others is a directory.
ASSUME VolumeAssumption ==
    \A v \in Volumes :
        /\ DOMAIN v \subseteq Seq(Seq(STRING)) /\ IsFiniteSet(DOMAIN v)
        /\ <<>> \in DOMAIN v /\ v[<<>>] = "root"
        /\ \A p \in DOMAIN v \ {<<>>} :
              Front(p) \in DOMAIN v /\ v[Front(p)] \in {"root", "userdir"}

VARIABLES
    before,      \* the source when the walk began
    volume,      \* and now
    owners,      \* does the filesystem take ED_OWNER?
    list,        \* the exclude list, read
    frames,      \* the directories being walked, the innermost last:
                 \* [base, more, batch, type, given]
    pathBuf,     \* path_buf: the components in it
    emitted,     \* what on_entry was given: [path, kind, owner]
    counts,      \* amisnap_scan_result and the two capabilities that matter
    verdict      \* "none", or what amisnap_scan_volume returned

scanVars == <<before, volume, owners, list, frames, pathBuf, emitted, counts, verdict>>

Scanning == verdict = "none"
Depth == Len(frames)
Top == frames[Depth]

\* The text of a path of components.
PathText(path) == IF path = <<>> THEN <<>> ELSE FoldLeft(LAMBDA t, c : t \o <<"/">> \o c, Head(path), Tail(path))
Kept(base) == SubSeq(pathBuf, 1, base)
Inside(path, dir) == Len(path) > Len(dir) /\ SubSeq(path, 1, Len(dir)) = dir
Children(dir) == {p \in DOMAIN volume : Len(p) = Len(dir) + 1 /\ Inside(p, dir)}

\* amisnap_etype_from_st: what is not known for anything else is a file.
EType(st) ==
    CASE st \in {"root", "userdir"} -> "dir"
      [] st = "softlink" -> "softlink"
      [] st \in {"linkdir", "linkfile"} -> "hardlink"
      [] OTHER -> "file"

NoCounts == [dirs |-> 0, files |-> 0, links |-> 0, dirsExcluded |-> 0, filesExcluded |-> 0,
             dirsFailed |-> 0, maxName |-> 0, owner |-> FALSE]

ScanInit ==
    /\ before \in Volumes /\ volume = before /\ owners \in BOOLEAN /\ list \in {Patterns(l) : l \in Lists}
    /\ frames = <<>> /\ pathBuf = <<>> /\ emitted = <<>> /\ counts = NoCounts /\ verdict = "none"

Source == <<before, owners, list>>

Finish(v) ==
    /\ verdict' = v /\ frames' = <<>> /\ pathBuf' = <<>>
    /\ UNCHANGED <<Source, volume, emitted, counts>>

-----------------------------------------------------------------------------
(* Dos.library lets an entry go, if nobody holds a lock on it or below.    *)

LockedDirs == {Kept(frames[i].base) : i \in DOMAIN frames}
Vanish ==
    /\ Scanning /\ Cardinality(DOMAIN before \ DOMAIN volume) < MaxGone
    /\ \E p \in DOMAIN volume :
        /\ p # <<>>
        /\ \A q \in LockedDirs : q # p /\ ~Inside(q, p)
        /\ volume' = Restrict(volume, {q \in DOMAIN volume : q # p /\ ~Inside(q, p)})
    /\ UNCHANGED <<Source, frames, pathBuf, emitted, counts, verdict>>

NewFrame(path, type) == [base |-> Len(path), more |-> TRUE, batch |-> <<>>, type |-> type, given |-> {}]

\* amisnap_scan_volume: the root is locked, examined, given to the visitor
\* (before anything is known of owners), and walked.
ScanRoot ==
    /\ Scanning /\ frames = <<>> /\ emitted = <<>>
    /\ emitted' = <<[path |-> <<>>, kind |-> "dir", owner |-> FALSE]>>
    /\ counts' = [counts EXCEPT !.dirs = 1]
    /\ frames' = <<NewFrame(<<>>, "owner")>> /\ pathBuf' = <<>>
    /\ UNCHANGED <<Source, volume, verdict>>

\* ExAll: ED_OWNER is tried on the first directory and given up there.
TypeForAlways(f) == f.type    \* mutant: never given up
TypeFor(f) == IF owners THEN f.type ELSE "comment"

\* What ExAll may say of there being more, and the entries the loop takes of
\* a call: those of the last call come with more = FALSE.
Says(some, left) == {m \in BOOLEAN : (some # left => m) /\ (left = {} => ~m)}
BatchToTheLast(order, more) == IF more THEN order ELSE <<>>    \* mutant: asked before it is looked at
Batch(order, more) == order

WantsMoreAlways(f) == f.batch = <<>>    \* mutant: !more does not end the loop
WantsMore(f) == f.batch = <<>> /\ f.more

Stat(path) == [path |-> path, st |-> volume[path]]
Filled(f, some, order, more) ==
    [f EXCEPT !.more = more, !.given = @ \cup some, !.type = TypeFor(f), !.batch = Batch(order, more)]

ListMore ==
    /\ Scanning /\ frames # <<>> /\ WantsMore(Top)
    /\ LET left == Children(Kept(Top.base)) \ Top.given
       IN  \E some \in {s \in SUBSET left : Cardinality(s) <= MaxBatch /\ (left = {} <=> s = {})} :
           \E order \in SetToSeqs({Stat(p) : p \in some}) : \E more \in Says(some, left) :
             frames' = [frames EXCEPT ![Depth] = Filled(Top, some, order, more)]
    /\ counts' = [counts EXCEPT !.owner = @ \/ TypeFor(Top) = "owner"]
    /\ UNCHANGED <<Source, volume, pathBuf, emitted, verdict>>

-----------------------------------------------------------------------------
(* process_entry, for the next of the batch.                               *)

PushedAnywhere(name) == Append(pathBuf, name)    \* mutant: base_len is not looked at
Pushed(name) == Append(Kept(Top.base), name)

HasRoom(path) == Len(PathText(path)) <= PathRoom
Rest == [frames EXCEPT ![Depth].batch = Tail(@)]

Seen(e) == [counts EXCEPT !.maxName = IF Len(Last(e.path)) > @ THEN Len(Last(e.path)) ELSE @]

Entry(path, e) == [path |-> path, kind |-> EType(e.st), owner |-> Top.type = "owner" /\ counts.owner]

KeepsOutLate(path, st) ==    \* mutant: a directory's own entry is not asked about
    EType(st) # "dir" /\ Excluded(list, PathText(path), FALSE)
KeepsOut(path, st) == \E text \in {PathText(path)} : Excluded(list, text, EType(st) = "dir")

LeaveOut(e) ==
    /\ counts' = IF EType(e.st) = "dir" THEN [Seen(e) EXCEPT !.dirsExcluded = @ + 1]
                                        ELSE [Seen(e) EXCEPT !.filesExcluded = @ + 1]
    /\ frames' = Rest /\ UNCHANGED emitted

SkipLink(e) ==
    /\ EType(e.st) \in {"softlink", "hardlink"}
    /\ counts' = [Seen(e) EXCEPT !.links = @ + 1]
    /\ frames' = Rest /\ UNCHANGED emitted

EmitFile(e, path) ==
    /\ EType(e.st) = "file"
    /\ counts' = [Seen(e) EXCEPT !.files = @ + 1]
    /\ emitted' = Append(emitted, Entry(path, e)) /\ frames' = Rest

\* The directory is given to the visitor first, then locked by the whole path
\* in the buffer; one that does not lock is counted and passed over.
Descend(e, path) ==
    /\ EType(e.st) = "dir"
    /\ emitted' = Append(emitted, Entry(path, e))
    /\ \E locks \in {FALSE, (path \in DOMAIN volume)} :
        /\ counts' = [Seen(e) EXCEPT !.dirs = @ + 1, !.dirsFailed = IF locks THEN @ ELSE @ + 1]
        /\ frames' = IF locks THEN Append(Rest, NewFrame(path, Top.type)) ELSE Rest

Process ==
    /\ Scanning /\ frames # <<>> /\ Top.batch # <<>>
    /\ LET e == Head(Top.batch)
           path == Pushed(Last(e.path))
       IN  /\ HasRoom(path)
           /\ pathBuf' = path
           /\ IF KeepsOut(path, e.st) THEN LeaveOut(e)
              ELSE SkipLink(e) \/ EmitFile(e, path) \/ Descend(e, path)
    /\ UNCHANGED <<Source, volume, verdict>>

\* A path too long for the buffer ends the whole walk.
PathTooLong ==
    /\ Scanning /\ frames # <<>> /\ Top.batch # <<>>
    /\ ~HasRoom(Pushed(Last(Head(Top.batch).path)))
    /\ Finish("too_long")

\* The directory is walked: back to its parent, or done.
DirDone ==
    /\ Scanning /\ frames # <<>> /\ Top.batch = <<>> /\ ~WantsMore(Top)
    /\ IF Depth = 1 THEN Finish("ok")
       ELSE /\ frames' = Front(frames)
            /\ UNCHANGED <<Source, volume, pathBuf, emitted, counts, verdict>>

\* The root does not lock, ExAll fails, memory runs out or the visitor says no.
Abort == Scanning /\ Finish("failed")

ScanStep == ScanRoot \/ ListMore \/ Process \/ PathTooLong \/ DirDone
ScanNext == ScanStep \/ Vanish \/ Abort

-----------------------------------------------------------------------------
Out(p) ==
    \/ EType(before[p]) \in {"softlink", "hardlink"}
    \/ KeepsOut(p, before[p])

\* What the list keeps in: the node and every directory above it.
KeptIn(p) == \A n \in 1 .. Len(p) : ~Out(SubSeq(p, 1, n))

\* The visitor is given entries of the source, each under its own path and as
\* what it is, none twice, none the list keeps out or below such a one, each
\* after the directory it is in: restore recreates them in this order.  They
\* carry an owner when the filesystem has owners.
GivenInOrder ==
    \A i \in DOMAIN emitted :
        LET e == emitted[i]
        IN  /\ e.path \in DOMAIN before /\ e.kind = EType(before[e.path]) /\ KeptIn(e.path)
            /\ \A j \in 1 .. i - 1 : emitted[j].path # e.path
            /\ e.path # <<>> => /\ \E j \in 1 .. i - 1 : emitted[j].path = Front(e.path)
                                /\ e.owner = owners

\* A walk that returned AMISNAP_OK gave the visitor everything that is still
\* there and that the list keeps in, but for the contents of directories
\* counted in dirs_failed.
NothingPassedOver ==
    LET Given(p) == \E i \in DOMAIN emitted : emitted[i].path = p
        missed == {p \in DOMAIN volume \ {<<>>} : KeptIn(p) /\ ~Given(p) /\ Given(Front(p))}
    IN  verdict = "ok" => Cardinality({Front(p) : p \in missed}) <= counts.dirsFailed

\* A walk comes to an end, whatever goes away below it.
ScanEnds == Scanning ~> ~Scanning

\* scan.h: a walk gives its visitor what is there and not excluded, all of it
\* and nothing else.
WalksWhatIsThere == GivenInOrder /\ NothingPassedOver
=============================================================================
