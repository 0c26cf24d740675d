------------------------------ MODULE Restore ------------------------------
(***************************************************************************)
(* RESTORE: amisnap_restore_manifest() and cmd_restore, writing one        *)
(* snapshot to a destination directory through backend_dir.c.              *)
(*                                                                         *)
(* Every referenced object is read and verified before anything is         *)
(* written; then each entry is written in manifest order, a file being     *)
(* streamed chunk by chunk into tmp/ and renamed into place; then the      *)
(* metadata is applied in reverse order, because creating or changing a    *)
(* child changes the datestamp of its directory.                           *)
(*                                                                         *)
(* RESTORE takes no lock.  Meanwhile the snapshot may be pruned, objects   *)
(* may decay, calls may fail, and the command may be stopped or crash and  *)
(* be run again over what it left.                                         *)
(***************************************************************************)
EXTENDS Integers, Sequences, SequencesExt

CONSTANTS
    Object,     \* content objects of the repository
    Tree,       \* the paths of the destination looked at, as sequences of names
    Manifests,  \* the snapshots that may be restored: sequences of entries
    Subtrees,   \* the SUBTREE= prefixes that may be given, <<>> for all
    Priors,     \* what the destination may hold before the first run
    Hazards,    \* what may go wrong: "prune", "rot", "io", "stop"
    MaxRuns,    \* bound: how often RESTORE is run
    NoStage     \* no staging file is open

ASSUME HazardAssumption == Hazards \subseteq {"prune", "rot", "io", "stop"}
ASSUME StageAssumption == NoStage \notin Seq(Object)
ASSUME RunAssumption == MaxRuns \in Nat \ {0}

\* Entries: links are skipped; safe says that no component of the path is
\* empty or ".." and that it has no ':'.
EntryType == [path : Tree, kind : {"dir", "file", "link"}, chunks : Seq(Object),
              safe : BOOLEAN]

\* What is at a path of the destination; saved: with the metadata of the
\* snapshot and nothing has disturbed it since.
NodeType == [kind : {"none", "dir", "file"}, data : Seq(Object), saved : BOOLEAN]
Nothing == [kind |-> "none", data |-> <<>>, saved |-> FALSE]
Dir == [kind |-> "dir", data |-> <<>>, saved |-> FALSE]
FileOf(d) == [kind |-> "file", data |-> d, saved |-> FALSE]

Root == <<>>
TmpDir == <<"tmp">>

ASSUME TreeAssumption ==
    /\ Tree \subseteq Seq(STRING) /\ TmpDir \in Tree
    /\ \A t \in Tree : \A n \in 0 .. Len(t) : SubSeq(t, 1, n) \in Tree
ASSUME InputAssumption ==
    /\ Manifests \subseteq Seq(EntryType) /\ Subtrees \subseteq Tree
    /\ Priors \subseteq [Tree -> NodeType]
    /\ \A d \in Priors : \A p \in Tree : d[p].kind = "dir" => d[p].data = <<>>

VARIABLES
    mf,       \* the manifest in memory
    sub,      \* SUBTREE=
    object,   \* the state of each object: "good", "bad" or "gone"
    pruned,   \* the snapshot has been deleted by a PRUNE
    dest,     \* the destination
    staged,   \* what has been written to the staging file
    phase,    \* "idle", "verify", "write", "append", "meta", "done", "failed"
    i,        \* the entry at hand
    k,        \* the chunk at hand
    faults,   \* what verify counted: "corrupt", "missing"
    why,      \* why the run failed
    warn,     \* a metadata call failed
    runs,     \* runs so far
    prior,    \* history: dest before the first run
    before,   \* history: dest before this run
    damaged   \* history: objects that were not good when this run began

repoVars == <<mf, sub, object, pruned>>
destVars == <<dest, staged>>
posVars == <<phase, i, k>>
outcomeVars == <<faults, why, warn>>
historyVars == <<runs, prior, before, damaged>>
vars == <<repoVars, destVars, posVars, outcomeVars, historyVars>>

Init ==
    /\ mf \in Manifests /\ sub \in Subtrees
    /\ object \in [Object -> IF "rot" \in Hazards THEN {"good", "bad", "gone"}
                             ELSE {"good"}]
    /\ pruned = FALSE
    /\ dest \in Priors
    /\ staged = NoStage
    /\ phase = "idle" /\ i = 1 /\ k = 1
    /\ faults = {} /\ why = "none" /\ warn = FALSE
    /\ runs = 0
    /\ prior = dest /\ before = dest /\ damaged = {}

EntryForward ==              \* mutant: the metadata pass goes forward
    IF phase = "meta" THEN mf[Len(mf) + 1 - i] ELSE mf[i]
Entry == mf[i]
InSubtreeUnlessShorter(e) == \* mutant: shorter paths are not told apart
    Len(e.path) < Len(sub) \/ IsPrefix(sub, e.path)
InSubtree(e) == IsPrefix(sub, e.path)
Relevant(e) == InSubtree(e) /\ e.kind # "link"
Ancestors(p) == {q \in Tree : IsStrictPrefix(q, p)}
Parent(p) == IF p = Root THEN {} ELSE {Front(p)}

\* A manifest as the scan of a volume at rest writes it: one entry per path,
\* after those of the directories it is in.
InOrder(m) ==
    \A n \in DOMAIN m :
        /\ m[n].kind = "dir" => m[n].chunks = <<>>
        /\ m[n].path = Root => m[n].kind = "dir"
        /\ \A o \in DOMAIN m : m[o].path = m[n].path => o = n
        /\ \A q \in Ancestors(m[n].path) :
              \E o \in DOMAIN m : o < n /\ m[o].path = q /\ m[o].kind = "dir"

-----------------------------------------------------------------------------
(* The destination directory.  Creating, renaming or changing something    *)
(* changes the datestamp of the directory it is in.                        *)

Disturb(d, ps) ==
    [p \in Tree |-> IF p \in ps THEN [d[p] EXCEPT !.saved = FALSE] ELSE d[p]]

\* mkdir_p(): every component that is not there; one that exists is taken
\* for a directory without a look.
MkdirAll(d, p) ==
    LET new == {q \in Ancestors(p) \cup {p} : d[q].kind = "none"}
        made == [q \in Tree |-> IF q \in new THEN Dir ELSE d[q]]
    IN  Disturb(made, UNION {Parent(q) : q \in new})

\* mkdir() below a file fails.
CanMkdir(d, p) == \A q \in Ancestors(p) : d[q].kind # "file"

Fail(reason) ==
    /\ phase' = "failed" /\ why' = reason
    /\ i' = 1 /\ k' = 1
    /\ UNCHANGED <<faults, warn>>

Advance(s) == phase' = s /\ i' = i + 1 /\ k' = 1

-----------------------------------------------------------------------------
(* Starting, and the pre-flight verification of the whole snapshot.        *)

Start ==
    /\ phase \in {"idle", "failed", "done"} /\ runs < MaxRuns /\ ~pruned
    /\ phase' = "verify" /\ i' = 1 /\ k' = 1
    /\ faults' = {} /\ why' = "none" /\ warn' = FALSE
    /\ runs' = runs + 1
    /\ before' = dest
    /\ damaged' = {o \in Object : object[o] # "good"}
    /\ UNCHANGED <<repoVars, destVars, prior>>

CountsCorruptOnly(o) ==      \* mutant: a missing object is not counted
    IF object[o] = "bad" THEN {{"corrupt"}} ELSE {{}}

\* A read that fails, or returns other bytes, counts as corrupt.
Counts(o) ==
    (IF object[o] = "good" THEN {{}}
     ELSE IF object[o] = "bad" THEN {{"corrupt"}} ELSE {{"missing"}})
    \cup (IF "io" \in Hazards THEN {{"corrupt"}} ELSE {})

VerifyChunk ==
    /\ phase = "verify" /\ i <= Len(mf) /\ k <= Len(Entry.chunks)
    /\ \E c \in Counts(Entry.chunks[k]) : faults' = faults \cup c
    /\ k' = k + 1
    /\ UNCHANGED <<repoVars, destVars, phase, i, why, warn, historyVars>>

VerifyNext ==
    /\ phase = "verify" /\ i <= Len(mf) /\ k > Len(Entry.chunks)
    /\ Advance("verify")
    /\ UNCHANGED <<repoVars, destVars, outcomeVars, historyVars>>

VerifyDone ==
    /\ phase = "verify" /\ i > Len(mf)
    /\ IF faults # {}
       THEN Fail(IF "corrupt" \in faults THEN "corrupt" ELSE "missing")
       ELSE /\ phase' = "write" /\ i' = 1 /\ k' = 1
            /\ UNCHANGED outcomeVars
    /\ UNCHANGED <<repoVars, destVars, historyVars>>

-----------------------------------------------------------------------------
(* The content pass: on_entry and restore_file.                            *)

Writing == phase = "write" /\ i <= Len(mf)

WriteSkip ==
    /\ Writing /\ ~Relevant(Entry)
    /\ Advance("write")
    /\ UNCHANGED <<repoVars, destVars, outcomeVars, historyVars>>

WriteUnsafe ==
    /\ Writing /\ Relevant(Entry) /\ ~Entry.safe
    /\ Fail("unsafe")
    /\ UNCHANGED <<repoVars, destVars, historyVars>>

WriteDir ==
    /\ Writing /\ Relevant(Entry) /\ Entry.safe /\ Entry.kind = "dir"
    /\ CanMkdir(dest, Entry.path)
    /\ dest' = MkdirAll(dest, Entry.path)
    /\ Advance("write")
    /\ UNCHANGED <<repoVars, staged, outcomeVars, historyVars>>

\* put_begin: make tmp/ and open the staging file in it.
WriteBegin ==
    /\ Writing /\ Relevant(Entry) /\ Entry.safe /\ Entry.kind = "file"
    /\ dest[TmpDir].kind # "file"
    /\ dest' = Disturb(MkdirAll(dest, TmpDir), {TmpDir})
    /\ staged' = <<>>
    /\ phase' = "append" /\ k' = 1
    /\ UNCHANGED <<repoVars, i, outcomeVars, historyVars>>

\* Each chunk is fetched and verified again before it is appended.
AppendChunk ==
    /\ phase = "append" /\ k <= Len(Entry.chunks)
    /\ object[Entry.chunks[k]] = "good"
    /\ staged' = Append(staged, Entry.chunks[k])
    /\ k' = k + 1
    /\ UNCHANGED <<repoVars, dest, phase, i, outcomeVars, historyVars>>

RenameStaged ==
    dest' = Disturb([MkdirAll(dest, Entry.path) EXCEPT ![Entry.path] = FileOf(staged)],
                    {TmpDir} \cup Parent(Entry.path))

FetchFailsFinished ==        \* mutant: put_finish instead of put_abort
    /\ phase = "append" /\ k <= Len(Entry.chunks)
    /\ object[Entry.chunks[k]] # "good" \/ "io" \in Hazards
    /\ RenameStaged
    /\ staged' = NoStage
    /\ Fail("corrupt")
    /\ UNCHANGED <<repoVars, historyVars>>

FetchFailsUnclosed ==        \* mutant: no put_abort
    /\ phase = "append" /\ k <= Len(Entry.chunks)
    /\ object[Entry.chunks[k]] # "good" \/ "io" \in Hazards
    /\ Fail("corrupt")
    /\ UNCHANGED <<repoVars, destVars, historyVars>>

FetchFails ==
    /\ phase = "append" /\ k <= Len(Entry.chunks)
    /\ object[Entry.chunks[k]] # "good" \/ "io" \in Hazards
    /\ staged' = NoStage
    /\ dest' = Disturb(dest, {TmpDir})
    /\ Fail(CASE object[Entry.chunks[k]] = "bad" -> "corrupt"
              [] object[Entry.chunks[k]] = "gone" -> "missing"
              [] OTHER -> "io")
    /\ UNCHANGED <<repoVars, historyVars>>

RenameableNew ==             \* mutant: rename() does not replace a file
    CanMkdir(dest, Entry.path) /\ dest[Entry.path].kind = "none"
\* put_finish: make the parents and rename; a directory cannot be replaced.
Renameable ==
    CanMkdir(dest, Entry.path) /\ dest[Entry.path].kind # "dir"

WriteFinish ==
    /\ phase = "append" /\ k > Len(Entry.chunks)
    /\ Renameable
    /\ RenameStaged
    /\ staged' = NoStage
    /\ Advance("write")
    /\ UNCHANGED <<repoVars, outcomeVars, historyVars>>

\* What is in the way makes mkdir(), fopen() or rename() fail.
Clash ==
    \/ /\ Writing /\ Relevant(Entry) /\ Entry.safe
       /\ IF Entry.kind = "dir" THEN ~CanMkdir(dest, Entry.path)
          ELSE dest[TmpDir].kind = "file"
    \/ /\ phase = "append" /\ k > Len(Entry.chunks)
       /\ ~Renameable

WriteClash ==
    /\ Clash
    /\ staged' = NoStage
    /\ dest' = IF staged = NoStage THEN dest ELSE Disturb(dest, {TmpDir})
    /\ Fail("clash")
    /\ UNCHANGED <<repoVars, historyVars>>

\* A call fails; the directories before the one that failed may be made.
WriteFails ==
    /\ "io" \in Hazards
    /\ \/ Writing /\ Relevant(Entry) /\ Entry.safe
       \/ phase = "append"
    /\ staged' = NoStage
    /\ \E p \in Ancestors(Entry.path) \cup {Root, TmpDir} :
        /\ CanMkdir(dest, p)
        /\ dest' = Disturb(MkdirAll(dest, p), {TmpDir})
    /\ Fail("io")
    /\ UNCHANGED <<repoVars, historyVars>>

WriteDone ==
    /\ phase = "write" /\ i > Len(mf)
    /\ phase' = "meta" /\ i' = Len(mf) /\ k' = 1
    /\ UNCHANGED <<repoVars, destVars, outcomeVars, historyVars>>

-----------------------------------------------------------------------------
(* The metadata pass: apply_metadata_reverse.                              *)

MetaSkip ==
    /\ phase = "meta" /\ i >= 1 /\ ~Relevant(Entry)
    /\ i' = i - 1
    /\ UNCHANGED <<repoVars, destVars, phase, k, outcomeVars, historyVars>>

\* Comment, date, owner and protection, each best effort.
MetaApply ==
    /\ phase = "meta" /\ i >= 1 /\ Relevant(Entry)
    /\ \/ /\ dest' = Disturb([dest EXCEPT ![Entry.path].saved = TRUE], Parent(Entry.path))
          /\ UNCHANGED warn
       \/ /\ "io" \in Hazards
          /\ warn' = TRUE
          /\ UNCHANGED dest
    /\ i' = i - 1
    /\ UNCHANGED <<repoVars, staged, phase, k, faults, why, historyVars>>

MetaDone ==
    /\ phase = "meta" /\ i = 0
    /\ phase' = "done" /\ i' = 1
    /\ UNCHANGED <<repoVars, destVars, k, outcomeVars, historyVars>>

\* Ctrl-C is polled before each entry of the two passes.
Stop ==
    /\ "stop" \in Hazards /\ (Writing \/ (phase = "meta" /\ i >= 1))
    /\ Fail("aborted")
    /\ UNCHANGED <<repoVars, destVars, historyVars>>

\* A crash leaves the staging file behind.
Crash ==
    /\ "stop" \in Hazards /\ phase \in {"verify", "write", "append", "meta"}
    /\ Fail("crash")
    /\ staged' = NoStage
    /\ UNCHANGED <<repoVars, dest, historyVars>>

-----------------------------------------------------------------------------
(* The repository meanwhile.                                               *)

Prune ==
    /\ "prune" \in Hazards /\ ~pruned
    /\ pruned' = TRUE
    /\ UNCHANGED <<mf, sub, object, destVars, posVars, outcomeVars, historyVars>>

Sweep(o) ==
    /\ pruned /\ object[o] # "gone"
    /\ object' = [object EXCEPT ![o] = "gone"]
    /\ UNCHANGED <<mf, sub, pruned, destVars, posVars, outcomeVars, historyVars>>

Rot(o) ==
    /\ "rot" \in Hazards /\ object[o] = "good"
    /\ object' = [object EXCEPT ![o] = "bad"]
    /\ UNCHANGED <<mf, sub, pruned, destVars, posVars, outcomeVars, historyVars>>

RestoreStep ==
    \/ Start \/ VerifyChunk \/ VerifyNext \/ VerifyDone
    \/ WriteSkip \/ WriteUnsafe \/ WriteDir \/ WriteBegin \/ AppendChunk
    \/ WriteFinish \/ WriteDone \/ MetaSkip \/ MetaApply \/ MetaDone

FaultStep == FetchFails \/ WriteClash \/ WriteFails \/ Stop \/ Crash

Next ==
    \/ RestoreStep \/ FaultStep
    \/ Prune \/ \E o \in Object : Sweep(o) \/ Rot(o)

Spec == Init /\ [][Next]_vars

-----------------------------------------------------------------------------
(* Properties.                                                             *)

Reasons == {"none", "corrupt", "missing", "unsafe", "clash", "io", "aborted", "crash"}

\* Every variable keeps its type.
TypeOK ==
    /\ mf \in Seq(EntryType) /\ sub \in Tree
    /\ object \in [Object -> {"good", "bad", "gone"}] /\ pruned \in BOOLEAN
    /\ dest \in [Tree -> NodeType]
    /\ staged \in Seq(Object) \cup {NoStage}
    /\ phase \in {"idle", "verify", "write", "append", "meta", "done", "failed"}
    /\ i \in 0 .. Len(mf) + 1 /\ k \in Nat
    /\ faults \subseteq {"corrupt", "missing"} /\ why \in Reasons /\ warn \in BOOLEAN
    /\ phase = "append" <=> staged # NoStage

Entries == {mf[n] : n \in DOMAIN mf}
Files(p) == {e \in Entries : e.path = p /\ e.kind = "file"}

\* backend.h "nothing observable at key until put_finish() succeeds" and
\* restore.c "a corrupt or tampered object never reaches put_append": at
\* every moment each file of the destination is the one that was there or
\* exactly the one of the snapshot, never a part of it.
NoTornFile ==
    \A p \in Tree : dest[p].kind = "file" =>
        \/ prior[p].kind = "file" /\ dest[p].data = prior[p].data
        \/ \E e \in Files(p) : dest[p].data = e.chunks

\* restore.h "a missing or corrupt object is rejected up front, with zero
\* writes to dest": when any object of the snapshot, inside the subtree or
\* not, was damaged before the run, the run changes nothing.
DamagedNeverTouches ==
    (\E e \in Entries : \E n \in DOMAIN e.chunks : e.chunks[n] \in damaged) =>
        dest = before

\* A run that reports success has restored everything it was asked for:
\* every directory, every file with its content, and, but for counted
\* failures, the metadata of each, whatever earlier runs left behind.  Only a
\* file that was there in the place of a directory is taken for it.
SuccessMeansRestored ==
    phase = "done" =>
        \A e \in Entries : Relevant(e) =>
            /\ \/ dest[e.path].kind = e.kind /\ dest[e.path].data = e.chunks
               \/ e.kind = "dir" /\ prior[e.path].kind = "file"
            /\ warn \/ dest[e.path].saved

\* CLI-Reference.md "only the entry at that exact path plus everything under
\* it": what is outside the subtree is left alone, but for the directories
\* on the way to it and the staging directory.
OutsideUntouched ==
    \A p \in Tree \ {TmpDir} :
        ~IsPrefix(sub, p) /\ ~IsPrefix(p, sub) => dest[p] = prior[p]

\* restore.h "RESTORE can simply be re-run" and CLI-Reference.md "Without
\* SUBTREE=, the whole tree is restored": nothing that earlier runs, or this
\* one, made in the destination is ever in the way of an entry.  Only what
\* was there before can be, and the staging directory when the snapshot has
\* a file of that name.
Obstructed ==
    \E e \in Entries \cup {[path |-> TmpDir, kind |-> "dir"]} :
        \/ prior[e.path].kind \notin {"none", e.kind}
        \/ e.path = TmpDir /\ e.kind = "file"
NothingInTheWay == why = "clash" => Obstructed
=============================================================================
