---------------------------- MODULE ChangeDetect ----------------------------
(***************************************************************************)
(* How SNAPSHOT decides that a file need not be read: the metadata that    *)
(* ExAll() reported is compared with the entry of the previous snapshot,   *)
(* and the archive bit, which the filesystem clears on every write and     *)
(* SNAPSHOT sets after backing the file up, must be set.                   *)
(*                                                                         *)
(* The source volume is in use meanwhile.  The metadata is captured when   *)
(* a directory is listed, the size when the file is examined, the content  *)
(* when it is read, and the bit is set after that, each in a step of its   *)
(* own, and a user may write, replace or protect files between any two of  *)
(* them.  Any call may fail, and a snapshot may be abandoned at any time.  *)
(***************************************************************************)
EXTENDS Integers

CONSTANTS
    File,       \* paths on the source volume
    MaxWrites,  \* bound: writes by users, over the whole behaviour
    Chunk,      \* files of more than this size are split into chunks
    MaxSize,    \* bound: sizes are 1..MaxSize
    Prot,       \* protection bits, but for the archive bit
    Tricks      \* what users do beside writing and protecting:
                \*   "date" give a written file back its old datestamp
                \*   "swap" exchange two files by renaming them
                \*   "bit"  set the archive bit themselves
                \*   "live" all of this while a snapshot runs

ASSUME SizeAssumption == MaxSize \in Nat \ {0} /\ Chunk \in Nat
ASSUME WritesAssumption == MaxWrites \in Nat
ASSUME TricksAssumption == Tricks \subseteq {"date", "swap", "bit", "live"}

VARIABLES
    src,       \* the source volume
    now,       \* writes so far; also the clock of the source volume
    phase,     \* where the SNAPSHOT command is
    paranoid,  \* PARANOID given
    noarch,    \* NOARCHIVEBIT given
    last,      \* the entries of the last committed snapshot
    index,     \* the previous snapshot's entries as this run loaded them
    draft,     \* the entries written by this run
    unlisted,  \* files whose directory has not been listed yet
    listed,    \* files listed and not visited yet
    seen,      \* what ExAll() reported for each file listed by this run
    cur,       \* the file being visited
    size,      \* its size according to Examine()
    held       \* history: the versions a path had since it was listed

sourceVars == <<src, now>>
runVars == <<paranoid, noarch, last, index>>
scanVars == <<unlisted, listed, seen>>
vars == <<sourceVars, phase, runVars, draft, scanVars, cur, size, held>>

Version == 0 .. MaxWrites
Size == 1 .. MaxSize

\* Every write makes a new version of the content; the content read is a
\* version and the number of bytes of it.
Meta == [v : Version, size : Size, date : Version, prot : Prot, bit : BOOLEAN]
Entry == [content : Version \X Size, size : Size, date : Version, prot : Prot,
          xhash : BOOLEAN]
NoEntry == [size |-> 0]
NoFile == "none"
NoEntries == [f \in File |-> NoEntry]
NotListed == [size |-> 0]

Init ==
    /\ src \in [File -> {m \in Meta : m.v = 0 /\ m.date = 0 /\ ~m.bit}]
    /\ now = 0
    /\ phase = "idle"
    /\ paranoid = FALSE /\ noarch = FALSE
    /\ last = NoEntries /\ index = NoEntries /\ draft = NoEntries
    /\ unlisted = {} /\ listed = {}
    /\ seen = [f \in File |-> NotListed]
    /\ cur = NoFile /\ size = 0
    /\ held = [f \in File |-> {}]

-----------------------------------------------------------------------------
(* Users of the source volume.                                             *)

\* The history of a path starts when it is listed.
Holds(f, v) == IF seen[f] = NotListed THEN {} ELSE held[f] \cup {v}

Changed(f, m) ==
    /\ src' = [src EXCEPT ![f] = m]
    /\ held' = [held EXCEPT ![f] = Holds(f, m.v)]
    /\ UNCHANGED <<phase, runVars, draft, scanVars, cur, size>>

UserTurn == phase = "idle" \/ "live" \in Tricks

\* A write stamps the file and clears its archive bit.
Write(f) ==
    /\ UserTurn /\ now < MaxWrites
    /\ now' = now + 1
    /\ \E s \in Size, d \in Version :
          /\ d = now + 1 \/ ("date" \in Tricks /\ d = src[f].date)
          /\ Changed(f, [src[f] EXCEPT !.v = now + 1, !.size = s, !.date = d,
                                       !.bit = FALSE])

\* SetProtection() does not clear the bit; with a full mask it may set it.
Protect(f) ==
    /\ UserTurn
    /\ \E p \in Prot, b \in BOOLEAN :
          /\ b => src[f].bit \/ "bit" \in Tricks
          /\ Changed(f, [src[f] EXCEPT !.prot = p, !.bit = b])
    /\ UNCHANGED now

Swap(f, g) ==
    /\ UserTurn /\ "swap" \in Tricks /\ f # g
    /\ src' = [src EXCEPT ![f] = src[g], ![g] = src[f]]
    /\ held' = [held EXCEPT ![f] = Holds(f, src[g].v), ![g] = Holds(g, src[f].v)]
    /\ UNCHANGED <<now, phase, runVars, draft, scanVars, cur, size>>

-----------------------------------------------------------------------------
(* The SNAPSHOT command.                                                   *)

\* The previous manifest is loaded unless NOARCHIVEBIT is given; one that
\* is missing or unreadable only means a full scan.
Begin ==
    /\ phase = "idle"
    /\ paranoid' \in BOOLEAN /\ noarch' \in BOOLEAN
    /\ index' \in IF noarch' THEN {NoEntries} ELSE {last, NoEntries}
    /\ unlisted' = File
    /\ phase' = "scan"
    /\ UNCHANGED <<sourceVars, last, draft, listed, seen, cur, size, held>>

\* One ExAll() call: some files of a directory at once.
ListFiles ==
    /\ phase = "scan"
    /\ listed = {}
    /\ \E batch \in (SUBSET unlisted) \ {{}} :
          /\ listed' = batch
          /\ unlisted' = unlisted \ batch
          /\ seen' = [f \in File |-> IF f \in batch THEN src[f] ELSE seen[f]]
          /\ held' = [f \in File |-> IF f \in batch THEN {src[f].v} ELSE held[f]]
    /\ UNCHANGED <<sourceVars, phase, runVars, draft, cur, size>>

UnchangedButDate(f, s) ==    \* mutant: the datestamp is not compared
    /\ index[f] # NoEntry
    /\ seen[f].bit
    /\ index[f].prot = seen[f].prot
    /\ index[f].size = s

\* amisnap_index_unchanged(): the size is the one just examined, the rest
\* is what ExAll() reported when the directory was listed.
Unchanged(f, s) ==
    /\ index[f] # NoEntry
    /\ seen[f].bit
    /\ index[f].prot = seen[f].prot
    /\ index[f].date = seen[f].date
    /\ index[f].size = s

\* The entry carries the metadata of the listing, whatever is read later.
MakeEntry(f, content, xhash) ==
    draft' = [draft EXCEPT ![f] =
        [content |-> content, size |-> content[2], date |-> seen[f].date,
         prot |-> seen[f].prot, xhash |-> xhash]]

\* mark_backed_up() comes next, except under NOARCHIVEBIT.
MarkNext(f) ==
    IF noarch THEN phase' = "scan" /\ cur' = NoFile /\ size' = 0
    ELSE phase' = "mark" /\ cur' = f /\ size' = 0

\* An unchanged file takes over the references of the previous entry: its
\* entry has no xxHash.  PARANOID skips this for files of one chunk only.
VisitUnchanged(f) ==
    /\ phase = "scan" /\ f \in listed
    /\ Unchanged(f, src[f].size)
    /\ ~paranoid \/ src[f].size > Chunk
    /\ MakeEntry(f, index[f].content, FALSE)
    /\ listed' = listed \ {f}
    /\ MarkNext(f)
    /\ UNCHANGED <<sourceVars, runVars, unlisted, seen, held>>

Visit(f) ==
    /\ phase = "scan" /\ f \in listed
    /\ ~Unchanged(f, src[f].size) \/ (paranoid /\ src[f].size <= Chunk)
    /\ cur' = f /\ size' = src[f].size
    /\ listed' = listed \ {f}
    /\ phase' = "read"
    /\ UNCHANGED <<sourceVars, runVars, draft, unlisted, seen, held>>

ReadLargeShort ==            \* mutant: the chunk loop ends one byte early
    /\ phase = "read" /\ size > Chunk
    /\ LET n == IF src[cur].size < size THEN src[cur].size ELSE size
       IN  MakeEntry(cur, <<src[cur].v, n - 1>>, TRUE)
    /\ MarkNext(cur)
    /\ UNCHANGED <<sourceVars, runVars, scanVars, held>>

\* A large file is read up to the examined size or to its end.
ReadLarge ==
    /\ phase = "read" /\ size > Chunk
    /\ LET n == IF src[cur].size < size THEN src[cur].size ELSE size
       IN  MakeEntry(cur, <<src[cur].v, n>>, TRUE)
    /\ MarkNext(cur)
    /\ UNCHANGED <<sourceVars, runVars, scanVars, held>>

\* What a small file gives when it is read: exactly the examined size.
Bytes == <<src[cur].v, size>>

ConfirmedByMetadata ==       \* mutant: the hash only has to be there
    /\ Unchanged(cur, size)
    /\ index[cur].xhash

\* PARANOID: the bytes have the xxHash recorded with the previous entry.
Confirmed ==
    /\ Unchanged(cur, size)
    /\ index[cur].xhash
    /\ index[cur].content = Bytes

ReadConfirmed ==
    /\ phase = "read" /\ size <= Chunk
    /\ src[cur].size >= size
    /\ Confirmed
    /\ MakeEntry(cur, index[cur].content, TRUE)
    /\ MarkNext(cur)
    /\ UNCHANGED <<sourceVars, runVars, scanVars, held>>

\* A small file that is new, changed or not confirmed; its archive bit is
\* set next whatever the options say.
ReadSmall ==
    /\ phase = "read" /\ size <= Chunk
    /\ src[cur].size >= size
    /\ ~Confirmed
    /\ MakeEntry(cur, Bytes, TRUE)
    /\ phase' = "mark" /\ size' = 0
    /\ UNCHANGED <<sourceVars, runVars, scanVars, cur, held>>

\* The file cannot be locked or examined: it is left out of the snapshot.
VisitFails(f) ==
    /\ phase = "scan" /\ f \in listed
    /\ listed' = listed \ {f}
    /\ UNCHANGED <<sourceVars, phase, runVars, draft, unlisted, seen, cur, size, held>>

\* Opening, reading or storing fails, or a small file has shrunk:
\* it is left out of the snapshot.
FileFails ==
    /\ phase = "read"
    /\ phase' = "scan" /\ cur' = NoFile /\ size' = 0
    /\ UNCHANGED <<sourceVars, runVars, draft, scanVars, held>>

\* SetProtection() with the bits seen when the directory was listed; its
\* failure is ignored.
Mark ==
    /\ phase = "mark"
    /\ \/ src' = [src EXCEPT ![cur].prot = seen[cur].prot, ![cur].bit = TRUE]
       \/ UNCHANGED src
    /\ phase' = "scan" /\ cur' = NoFile /\ size' = 0
    /\ UNCHANGED <<now, runVars, draft, scanVars, held>>

Leave ==
    /\ phase' = "idle"
    /\ paranoid' = FALSE /\ noarch' = FALSE
    /\ index' = NoEntries /\ draft' = NoEntries
    /\ unlisted' = {} /\ listed' = {}
    /\ cur' = NoFile /\ size' = 0
    /\ seen' = [f \in File |-> NotListed]
    /\ held' = [f \in File |-> {}]
    /\ UNCHANGED sourceVars

Commit ==
    /\ phase = "scan" /\ unlisted = {} /\ listed = {}
    /\ last' = draft
    /\ Leave

\* Ctrl-C, a scan error, a manifest that cannot be committed, a crash: the
\* archive bits set so far stay set.
Abandon ==
    /\ phase # "idle"
    /\ UNCHANGED last
    /\ Leave

UserStep ==
    \/ \E f \in File : Write(f) \/ Protect(f)
    \/ \E f, g \in File : Swap(f, g)

RunStep ==
    \/ Begin \/ ListFiles
    \/ \E f \in File : VisitUnchanged(f) \/ Visit(f) \/ VisitFails(f)
    \/ phase = "read" /\ (ReadLarge \/ ReadConfirmed \/ ReadSmall \/ FileFails)
    \/ Mark
    \/ Commit \/ Abandon

Next == UserStep \/ RunStep

Spec == Init /\ [][Next]_vars

-----------------------------------------------------------------------------
(* Properties.                                                             *)

Phase == {"idle", "scan", "read", "mark"}

\* Every variable keeps its type, and a file is at hand while it is visited.
TypeOK ==
    /\ src \in [File -> Meta]
    /\ seen \in [File -> Meta \cup {NotListed}]
    /\ now \in Version
    /\ phase \in Phase
    /\ paranoid \in BOOLEAN /\ noarch \in BOOLEAN
    /\ last \in [File -> Entry \cup {NoEntry}]
    /\ index \in [File -> Entry \cup {NoEntry}]
    /\ draft \in [File -> Entry \cup {NoEntry}]
    /\ unlisted \subseteq File /\ listed \subseteq File
    /\ cur \in File \cup {NoFile}
    /\ size \in Size \cup {0}
    /\ held \in [File -> SUBSET Version]
    /\ phase \in {"read", "mark"} => cur \in File
    /\ phase = "read" => size \in Size

\* index.h: a file is skipped only when it is provably unchanged.  Whatever
\* is written meanwhile, the content a snapshot records for a file is one
\* the file had at some time since this snapshot listed it, never an older
\* one.
NothingStale ==
    \A f \in File : draft[f] # NoEntry => draft[f].content[1] \in held[f]

\* CLI-Reference.md PARANOID "Catches a file whose bytes changed while every
\* other piece of metadata happens to still match": with PARANOID the same
\* holds for the files of at most one chunk whatever users do to datestamps,
\* names and archive bits.
NothingStaleParanoid ==
    \A f \in File :
        paranoid /\ draft[f] # NoEntry /\ draft[f].size <= Chunk =>
            draft[f].content[1] \in held[f]

\* What makes the two NothingStale properties inductive.  A path that was
\* listed is followed: its history holds what it has now.
Followed ==
    /\ \A f \in File :
          IF seen[f] = NotListed THEN held[f] = {} ELSE src[f].v \in held[f]
    /\ \A f \in listed : seen[f] # NotListed
    /\ \A f \in unlisted : seen[f] = NotListed
    /\ \A f \in File : draft[f] # NoEntry => seen[f] # NotListed
    /\ phase \in {"read", "mark"} => seen[cur] # NotListed
    /\ phase = "idle" => draft = NoEntries /\ seen = [f \in File |-> NotListed]

\* The size in an entry is the number of bytes of its content.
Sized(e) == e # NoEntry => e.size = e.content[2]

ParanoidInv ==
    /\ Followed
    /\ \A f \in File : Sized(last[f]) /\ Sized(index[f]) /\ Sized(draft[f])
    /\ NothingStaleParanoid

\* When datestamps are honest, the content of an entry is at least as new
\* as its date says, and a previous entry is not newer than the listing:
\* hence equal dates mean equal contents.
Dated(f, e) == e # NoEntry => e.date <= e.content[1] /\ e.content[1] <= src[f].v

HonestInv ==
    /\ Followed
    /\ \A f \in File :
          /\ src[f].v = src[f].date /\ src[f].v <= now
          /\ Dated(f, last[f]) /\ Dated(f, index[f]) /\ Dated(f, draft[f])
          /\ seen[f] # NotListed =>
                /\ seen[f].v = seen[f].date /\ seen[f].v <= src[f].v
                /\ seen[f].v \in held[f]
                /\ index[f] # NoEntry => index[f].content[1] <= seen[f].v
    /\ NothingStale
=============================================================================
