------------------------------ MODULE SnapRepo ------------------------------
(***************************************************************************)
(* An AmiSnap repository and the commands that write to it: SNAPSHOT and   *)
(* PRUNE, run by several processes over one backend.                       *)
(*                                                                         *)
(* The repository holds content objects named by their hash, one manifest  *)
(* per committed snapshot, the staging directory tmp/ and the lock file    *)
(* amisnap.lock.  Every backend call is a step of its own: a put is a      *)
(* write to tmp/ and a rename, acquiring the lock is a test and a put, the *)
(* mark of a prune is a listing and a read per manifest.  Any call may     *)
(* fail, a put or a remove may take effect and still be reported as        *)
(* failed, and any process may crash between two steps, which loses its    *)
(* memory and leaves its staging file and its lock behind.                 *)
(***************************************************************************)
EXTENDS Integers, FiniteSets

CONSTANTS
    Proc,          \* invocations of the command line tool
    Object,        \* content addresses (BLAKE2s hashes of file contents)
    MaxId,         \* snapshot ids are 1..MaxId, in the order of their ticks
    LockGap,       \* TRUE: two processes may both test the lock before one takes it
    ExistsHonest,  \* TRUE: exists() never answers "absent" for a key that is there
    ListHonest     \* TRUE: list() never ends early without an error

ASSUME MaxIdAssumption == MaxId \in Nat \ {0}
ASSUME SwitchAssumption ==
    LockGap \in BOOLEAN /\ ExistsHonest \in BOOLEAN /\ ListHonest \in BOOLEAN

SnapId == 1 .. MaxId

VARIABLES
    objects,    \* keys under objects/
    committed,  \* ids with a manifest under snapshots/
    refs,       \* the hashes a manifest refers to ({} when it is not there)
    tmp,        \* keys with a file under tmp/
    lock,       \* amisnap.lock is there
    pc,         \* where each process is
    op,         \* the command it runs
    cur,        \* write_object: the object being put
    todo,       \* chunks of the current file not stored yet
    file,       \* all chunks of the current file
    draft,      \* references in the manifest being built
    prev,       \* references in the previous snapshot's index
    id,         \* the snapshot id at hand
    ids,        \* prune: ids still to delete, then ids still to mark
    mark,       \* prune: hashes referenced by the manifests read so far
    dels        \* prune: at least one manifest was deleted

repoVars == <<objects, committed, refs, tmp, lock>>
fileVars == <<cur, todo, file>>
snapVars == <<draft, prev, id>>
pruneVars == <<ids, mark, dels>>
vars == <<repoVars, pc, op, fileVars, snapVars, pruneVars>>

ObjKey(o) == <<"objects", o>>
MfKey(i) == <<"snapshots", i>>
LockKey == <<"amisnap.lock", 0>>
Key == {ObjKey(o) : o \in Object} \cup {MfKey(i) : i \in SnapId} \cup {LockKey}

Acquiring == {"putlock", "stagedlock"}
FilePhase == {"store", "putobj", "stagedobj"}
NamePhase == {"probe", "putmf", "stagedmf"}
SnapPhase == {"prev", "load", "scan"} \cup FilePhase \cup NamePhase
MarkPhase == {"targets", "delete", "list", "mark"}
SweepPhase == {"sweep", "sweeptmp"}
PrunePhase == MarkPhase \cup SweepPhase \cup {"refused"}
Critical == SnapPhase \cup PrunePhase \cup {"unlock"}
Phase == {"idle", "check"} \cup Acquiring \cup Critical

NoObject == "none"
Newest(S) == {i \in S : \A j \in S : j <= i}
Oldest(S) == {i \in S : \A j \in S : i <= j}
AllButLast(S, n) == {i \in S : Cardinality({j \in S : i < j}) >= n}
Referenced == UNION {refs[i] : i \in committed}

-----------------------------------------------------------------------------
Init ==
    /\ objects = {} /\ committed = {} /\ tmp = {} /\ lock = FALSE
    /\ refs = [i \in SnapId |-> {}]
    /\ pc = [p \in Proc |-> "idle"]
    /\ op = [p \in Proc |-> "SNAPSHOT"]
    /\ cur = [p \in Proc |-> NoObject]
    /\ todo = [p \in Proc |-> {}]
    /\ file = [p \in Proc |-> {}]
    /\ draft = [p \in Proc |-> {}]
    /\ prev = [p \in Proc |-> {}]
    /\ id = [p \in Proc |-> 1]
    /\ ids = [p \in Proc |-> {}]
    /\ mark = [p \in Proc |-> {}]
    /\ dels = [p \in Proc |-> FALSE]

At(p, s) == pc[p] = s
Goto(p, s) == pc' = [pc EXCEPT ![p] = s]

\* The file at hand is over, stored or given up.
CloseFile(p) ==
    /\ cur' = [cur EXCEPT ![p] = NoObject]
    /\ todo' = [todo EXCEPT ![p] = {}]
    /\ file' = [file EXCEPT ![p] = {}]

\* A process that leaves its command forgets everything it held in memory.
Leave(p, s) ==
    /\ Goto(p, s)
    /\ op' = [op EXCEPT ![p] = "SNAPSHOT"]
    /\ CloseFile(p)
    /\ draft' = [draft EXCEPT ![p] = {}]
    /\ prev' = [prev EXCEPT ![p] = {}]
    /\ id' = [id EXCEPT ![p] = 1]
    /\ ids' = [ids EXCEPT ![p] = {}]
    /\ mark' = [mark EXCEPT ![p] = {}]
    /\ dels' = [dels EXCEPT ![p] = FALSE]

\* exists() of a key whose presence is b answers "present" or "absent".
SaysPresent(b) == b
SaysAbsent(b) == ~b \/ ~ExistsHonest

\* What list() of a directory that holds S may report.
Listed(S) == {l \in SUBSET S : ListHonest => l = S}

-----------------------------------------------------------------------------
(* The lock: amisnap_repo_lock_acquire and amisnap_repo_lock_release.      *)

Start(p) ==
    /\ At(p, "idle")
    /\ Goto(p, "check")
    /\ \E o \in {"SNAPSHOT", "PRUNE"} : op' = [op EXCEPT ![p] = o]
    /\ UNCHANGED <<repoVars, fileVars, snapVars, pruneVars>>

\* The documented use is one operator: nobody tests the lock while another
\* process is between its own test and its put.  LockGap lifts this.
LockFreeUnchecked(p) ==      \* mutant: the answer of exists() is ignored
    /\ At(p, "check")
    /\ LockGap \/ \A q \in Proc : pc[q] \notin Acquiring
    /\ Goto(p, "putlock")
    /\ UNCHANGED <<repoVars, op, fileVars, snapVars, pruneVars>>

LockFree(p) ==
    /\ At(p, "check")
    /\ LockGap \/ \A q \in Proc : pc[q] \notin Acquiring
    /\ SaysAbsent(lock)
    /\ Goto(p, "putlock")
    /\ UNCHANGED <<repoVars, op, fileVars, snapVars, pruneVars>>

LockAwaited(p) ==            \* mutant: wait for the lock instead of giving up
    At(p, "check") /\ SaysPresent(lock) /\ UNCHANGED vars

LockRefused(p) ==
    /\ At(p, "check")
    /\ SaysPresent(lock)
    /\ Leave(p, "idle")
    /\ UNCHANGED repoVars

StageLock(p) ==
    /\ At(p, "putlock")
    /\ tmp' = tmp \cup {LockKey}
    /\ Goto(p, "stagedlock")
    /\ UNCHANGED <<objects, committed, refs, lock, op, fileVars, snapVars, pruneVars>>

LockTaken(p) ==
    /\ At(p, "stagedlock")
    /\ LockKey \in tmp
    /\ lock' = TRUE
    /\ tmp' = tmp \ {LockKey}
    /\ Goto(p, IF op[p] = "SNAPSHOT" THEN "prev" ELSE "targets")
    /\ UNCHANGED <<objects, committed, refs, op, fileVars, snapVars, pruneVars>>

\* The call failed: the command ends without a lock of its own.  When only
\* the answer was lost the lock file is there and belongs to nobody.
LockFail(p) ==
    /\ pc[p] \in {"check"} \cup Acquiring
    /\ \/ UNCHANGED lock
       \/ At(p, "stagedlock") /\ lock' = TRUE
    /\ tmp' = IF At(p, "stagedlock") THEN tmp \ {LockKey} ELSE tmp
    /\ Leave(p, "idle")
    /\ UNCHANGED <<objects, committed, refs>>

\* Every path out of the command releases; a failing remove is ignored.
Unlock(p) ==
    /\ At(p, "unlock")
    /\ lock' = FALSE \/ UNCHANGED lock
    /\ Leave(p, "idle")
    /\ UNCHANGED <<objects, committed, refs, tmp>>

-----------------------------------------------------------------------------
(* SNAPSHOT (cmd_snapshot, snapshot_on_entry, the repo.c writer).          *)

\* The latest snapshot's manifest becomes the index of unchanged files; no
\* snapshot, NOARCHIVEBIT or any failure means a full scan instead.
PickPrev(p) ==
    /\ At(p, "prev")
    /\ \E seen \in Listed(committed) :
          \E i \in Newest(seen) : id' = [id EXCEPT ![p] = i]
    /\ Goto(p, "load")
    /\ UNCHANGED <<repoVars, op, fileVars, draft, prev, pruneVars>>

LoadPrev(p) ==
    /\ At(p, "load")
    /\ id[p] \in committed
    /\ prev' = [prev EXCEPT ![p] = refs[id[p]]]
    /\ Goto(p, "scan")
    /\ UNCHANGED <<repoVars, op, fileVars, draft, id, pruneVars>>

NoPrev(p) ==
    /\ pc[p] \in {"prev", "load"}
    /\ Goto(p, "scan")
    /\ UNCHANGED <<repoVars, op, fileVars, snapVars, pruneVars>>

\* An unchanged file: its entry takes over the previous entry's references
\* without reading the file and without asking whether the objects exist.
ReuseFile(p) ==
    /\ At(p, "scan")
    /\ \E r \in SUBSET prev[p] :
          draft' = [draft EXCEPT ![p] = @ \cup r]
    /\ UNCHANGED <<repoVars, pc, op, fileVars, prev, id, pruneVars>>

\* A file that is read: one object, or one per chunk of a large file.
ReadFile(p) ==
    /\ At(p, "scan")
    /\ \E f \in (SUBSET Object) \ {{}} :
          /\ file' = [file EXCEPT ![p] = f]
          /\ todo' = [todo EXCEPT ![p] = f]
    /\ Goto(p, "store")
    /\ UNCHANGED <<repoVars, op, cur, snapVars, pruneVars>>

\* write_object: an object that is there is not written again.
StoreHit(p) ==
    /\ At(p, "store")
    /\ \E o \in todo[p] :
          /\ SaysPresent(o \in objects)
          /\ todo' = [todo EXCEPT ![p] = @ \ {o}]
    /\ UNCHANGED <<repoVars, pc, op, cur, file, snapVars, pruneVars>>

StoreMiss(p) ==
    /\ At(p, "store")
    /\ \E o \in todo[p] :
          /\ SaysAbsent(o \in objects)
          /\ cur' = [cur EXCEPT ![p] = o]
    /\ Goto(p, "putobj")
    /\ UNCHANGED <<repoVars, op, todo, file, snapVars, pruneVars>>

StageObject(p) ==
    /\ At(p, "putobj")
    /\ tmp' = tmp \cup {ObjKey(cur[p])}
    /\ Goto(p, "stagedobj")
    /\ UNCHANGED <<objects, committed, refs, lock, op, fileVars, snapVars, pruneVars>>

RenameObject(p) ==
    /\ At(p, "stagedobj")
    /\ ObjKey(cur[p]) \in tmp
    /\ tmp' = tmp \ {ObjKey(cur[p])}
    /\ objects' = objects \cup {cur[p]}
    /\ todo' = [todo EXCEPT ![p] = @ \ {cur[p]}]
    /\ cur' = [cur EXCEPT ![p] = NoObject]
    /\ Goto(p, "store")
    /\ UNCHANGED <<committed, refs, lock, op, file, snapVars, pruneVars>>

\* All chunks stored: only now does the entry join the manifest.
FileDone(p) ==
    /\ At(p, "store")
    /\ todo[p] = {}
    /\ draft' = [draft EXCEPT ![p] = @ \cup file[p]]
    /\ CloseFile(p)
    /\ Goto(p, "scan")
    /\ UNCHANGED <<repoVars, op, prev, id, pruneVars>>

FileFailKept(p) ==           \* mutant: the entry of a failed file is kept
    /\ pc[p] \in FilePhase
    /\ draft' = [draft EXCEPT ![p] = @ \cup file[p]]
    /\ CloseFile(p)
    /\ Goto(p, "scan")
    /\ UNCHANGED <<repoVars, op, prev, id, pruneVars>>

\* The file cannot be read, or a call for one of its chunks fails (the
\* last put possibly after taking effect): the entry is left out and the
\* snapshot goes on.
FileFail(p) ==
    /\ pc[p] \in FilePhase
    /\ IF At(p, "stagedobj")
       THEN /\ tmp' = tmp \ {ObjKey(cur[p])}
            /\ objects' = objects \/ objects' = objects \cup {cur[p]}
       ELSE UNCHANGED <<tmp, objects>>
    /\ CloseFile(p)
    /\ Goto(p, "scan")
    /\ UNCHANGED <<committed, refs, lock, op, snapVars, pruneVars>>

\* The scan is over.  The first candidate id is the time the command read
\* off a clock that may stand anywhere, also before earlier snapshots.
ScanDone(p) ==
    /\ At(p, "scan")
    /\ \E t \in SnapId : id' = [id EXCEPT ![p] = t]
    /\ Goto(p, "probe")
    /\ UNCHANGED <<repoVars, op, fileVars, draft, prev, pruneVars>>

\* amisnap_repo_writer_finish: count up to an id that is free, and
\* give up after the last one.
ProbeTakenUnbounded(p) ==    \* mutant: no bound on the number of attempts
    /\ At(p, "probe")
    /\ SaysPresent(id[p] \in committed)
    /\ id' = [id EXCEPT ![p] = @ + 1]
    /\ UNCHANGED <<repoVars, pc, op, fileVars, draft, prev, pruneVars>>

ProbeTaken(p) ==
    /\ At(p, "probe")
    /\ SaysPresent(id[p] \in committed)
    /\ id[p] < MaxId
    /\ id' = [id EXCEPT ![p] = @ + 1]
    /\ UNCHANGED <<repoVars, pc, op, fileVars, draft, prev, pruneVars>>

ProbeExhausted(p) ==
    /\ At(p, "probe")
    /\ SaysPresent(id[p] \in committed)
    /\ id[p] = MaxId
    /\ Leave(p, "unlock")
    /\ UNCHANGED repoVars

ProbeSkipped(p) ==           \* mutant: the id is used without a probe
    /\ At(p, "probe")
    /\ Goto(p, "putmf")
    /\ UNCHANGED <<repoVars, op, fileVars, snapVars, pruneVars>>

ProbeFree(p) ==
    /\ At(p, "probe")
    /\ SaysAbsent(id[p] \in committed)
    /\ Goto(p, "putmf")
    /\ UNCHANGED <<repoVars, op, fileVars, snapVars, pruneVars>>

StageManifest(p) ==
    /\ At(p, "putmf")
    /\ tmp' = tmp \cup {MfKey(id[p])}
    /\ Goto(p, "stagedmf")
    /\ UNCHANGED <<objects, committed, refs, lock, op, fileVars, snapVars, pruneVars>>

\* The rename of the manifest is the commit.
PublishManifest(p) ==
    /\ committed' = committed \cup {id[p]}
    /\ refs' = [refs EXCEPT ![id[p]] = draft[p]]

Commit(p) ==
    /\ At(p, "stagedmf")
    /\ MfKey(id[p]) \in tmp
    /\ PublishManifest(p)
    /\ tmp' = tmp \ {MfKey(id[p])}
    /\ Leave(p, "unlock")
    /\ UNCHANGED <<objects, lock>>

\* Break, a scan error, a failing probe, or a put of the manifest that fails or
\* whose answer is lost: the command gives up and releases the lock.
SnapFail(p) ==
    /\ pc[p] \in {"prev", "scan"} \cup NamePhase
    /\ IF At(p, "stagedmf")
       THEN /\ tmp' = tmp \ {MfKey(id[p])}
            /\ UNCHANGED <<committed, refs>> \/ PublishManifest(p)
       ELSE UNCHANGED <<tmp, committed, refs>>
    /\ Leave(p, "unlock")
    /\ UNCHANGED <<objects, lock>>

-----------------------------------------------------------------------------
(* PRUNE (cmd_prune, amisnap_prune_execute).                               *)

ChooseSnapid(p) ==
    /\ At(p, "targets")
    /\ \E i \in SnapId : ids' = [ids EXCEPT ![p] = {i}]
    /\ Goto(p, "delete")
    /\ UNCHANGED <<repoVars, op, fileVars, snapVars, mark, dels>>

ChooseKeepLast(p) ==
    /\ At(p, "targets")
    /\ \E n \in 0 .. MaxId, seen \in Listed(committed) :
          ids' = [ids EXCEPT ![p] = AllButLast(seen, n)]
    /\ Goto(p, "delete")
    /\ UNCHANGED <<repoVars, op, fileVars, snapVars, mark, dels>>

RemoveManifest(i) ==
    /\ committed' = committed \ {i}
    /\ refs' = [refs EXCEPT ![i] = {}]

\* Oldest first.  A manifest that is not there is skipped; a remove that
\* was retried after a lost answer reports "not there" although it worked.
DeleteManifest(p) ==
    /\ At(p, "delete")
    /\ \E i \in Oldest(ids[p]) :
          /\ RemoveManifest(i)
          /\ ids' = [ids EXCEPT ![p] = @ \ {i}]
          /\ \E counted \in BOOLEAN :
                dels' = [dels EXCEPT ![p] = @ \/ (counted /\ i \in committed)]
    /\ UNCHANGED <<objects, tmp, lock, pc, op, fileVars, snapVars, mark>>

DeletesDone(p) ==
    /\ At(p, "delete")
    /\ ids[p] = {}
    /\ Goto(p, "list")
    /\ UNCHANGED <<repoVars, op, fileVars, snapVars, pruneVars>>

ListForMark(p) ==
    /\ At(p, "list")
    /\ \E seen \in Listed(committed) :
          /\ seen # {} \/ dels[p]
          /\ ids' = [ids EXCEPT ![p] = seen]
    /\ Goto(p, "mark")
    /\ UNCHANGED <<repoVars, op, fileVars, snapVars, mark, dels>>

\* No snapshot seen and none deleted: refuse to sweep.
RefuseSweep(p) ==
    /\ At(p, "list")
    /\ {} \in Listed(committed) /\ ~dels[p]
    /\ Goto(p, "refused")
    /\ UNCHANGED <<repoVars, op, fileVars, snapVars, pruneVars>>

MarkOne(p) ==
    /\ At(p, "mark")
    /\ \E i \in ids[p] \cap committed :
          /\ mark' = [mark EXCEPT ![p] = @ \cup refs[i]]
          /\ ids' = [ids EXCEPT ![p] = @ \ {i}]
    /\ UNCHANGED <<repoVars, pc, op, fileVars, snapVars, dels>>

MarkCutShort(p) ==           \* mutant: sweep although a manifest is unread
    /\ At(p, "mark")
    /\ Goto(p, "sweep")
    /\ UNCHANGED <<repoVars, op, fileVars, snapVars, pruneVars>>

MarkDone(p) ==
    /\ At(p, "mark")
    /\ ids[p] = {}
    /\ Goto(p, "sweep")
    /\ UNCHANGED <<repoVars, op, fileVars, snapVars, pruneVars>>

SweepCutShort(p) ==          \* mutant: an error in one bucket ends the sweep quietly
    /\ At(p, "sweep")
    /\ Goto(p, "sweeptmp")
    /\ UNCHANGED <<repoVars, op, fileVars, snapVars, pruneVars>>

SweepObject(p) ==
    /\ At(p, "sweep")
    /\ \E o \in objects \ mark[p] : objects' = objects \ {o}
    /\ UNCHANGED <<committed, refs, tmp, lock, pc, op, fileVars, snapVars, pruneVars>>

ObjectsSwept(p) ==
    /\ At(p, "sweep")
    /\ \E seen \in Listed(objects) : seen \subseteq mark[p]
    /\ Goto(p, "sweeptmp")
    /\ UNCHANGED <<repoVars, op, fileVars, snapVars, pruneVars>>

SweepTmp(p) ==
    /\ At(p, "sweeptmp")
    /\ \E k \in tmp : tmp' = tmp \ {k}
    /\ UNCHANGED <<objects, committed, refs, lock, pc, op, fileVars, snapVars, pruneVars>>

PruneDone(p) ==
    /\ At(p, "refused") \/ (At(p, "sweeptmp") /\ {} \in Listed(tmp))
    /\ Leave(p, "unlock")
    /\ UNCHANGED repoVars

\* A call fails: the command stops where it is.  The remove at hand may
\* have taken effect.
PruneFail(p) ==
    /\ pc[p] \in MarkPhase \cup SweepPhase
    /\ \/ UNCHANGED repoVars
       \/ /\ At(p, "delete")
          /\ \E i \in Oldest(ids[p]) : RemoveManifest(i)
          /\ UNCHANGED <<objects, tmp, lock>>
       \/ /\ At(p, "sweep")
          /\ \E o \in objects \ mark[p] : objects' = objects \ {o}
          /\ UNCHANGED <<committed, refs, tmp, lock>>
    /\ Leave(p, "unlock")

-----------------------------------------------------------------------------
(* The environment.                                                        *)

Crash(p) ==
    /\ ~At(p, "idle")
    /\ Leave(p, "idle")
    /\ UNCHANGED repoVars

\* The user removes a stale amisnap.lock once nothing is running.
RemoveStaleLock ==
    /\ lock
    /\ \A p \in Proc : At(p, "idle")
    /\ lock' = FALSE
    /\ UNCHANGED <<objects, committed, refs, tmp, pc, op, fileVars, snapVars, pruneVars>>

LockStep(p) ==
    \/ LockFree(p) \/ LockRefused(p) \/ StageLock(p) \/ LockTaken(p) \/ Unlock(p)

SnapStep(p) ==
    \/ PickPrev(p) \/ LoadPrev(p) \/ NoPrev(p) \/ ReuseFile(p) \/ ReadFile(p)
    \/ StoreHit(p) \/ StoreMiss(p) \/ StageObject(p) \/ RenameObject(p)
    \/ FileDone(p) \/ ScanDone(p) \/ ProbeTaken(p) \/ ProbeExhausted(p)
    \/ ProbeFree(p) \/ StageManifest(p) \/ Commit(p)

PruneStep(p) ==
    \/ ChooseSnapid(p) \/ ChooseKeepLast(p) \/ DeleteManifest(p)
    \/ DeletesDone(p) \/ ListForMark(p) \/ RefuseSweep(p) \/ MarkOne(p)
    \/ MarkDone(p) \/ SweepObject(p) \/ ObjectsSwept(p) \/ SweepTmp(p)
    \/ PruneDone(p)

FailStep(p) ==
    LockFail(p) \/ FileFail(p) \/ SnapFail(p) \/ PruneFail(p) \/ Crash(p)

Next ==
    \/ \E p \in Proc :
          Start(p) \/ LockStep(p) \/ SnapStep(p) \/ PruneStep(p) \/ FailStep(p)
    \/ RemoveStaleLock

Spec == Init /\ [][Next]_vars

-----------------------------------------------------------------------------
(* Properties.                                                             *)

\* Every variable keeps its type; an object is at hand while it is put.
TypeOK ==
    /\ objects \subseteq Object
    /\ committed \subseteq SnapId
    /\ refs \in [SnapId -> SUBSET Object]
    /\ tmp \subseteq Key
    /\ lock \in BOOLEAN
    /\ pc \in [Proc -> Phase]
    /\ op \in [Proc -> {"SNAPSHOT", "PRUNE"}]
    /\ cur \in [Proc -> Object \cup {NoObject}]
    /\ todo \in [Proc -> SUBSET Object]
    /\ file \in [Proc -> SUBSET Object]
    /\ draft \in [Proc -> SUBSET Object]
    /\ prev \in [Proc -> SUBSET Object]
    /\ id \in [Proc -> SnapId]
    /\ ids \in [Proc -> SUBSET SnapId]
    /\ mark \in [Proc -> SUBSET Object]
    /\ dels \in [Proc -> BOOLEAN]
    /\ \A p \in Proc : pc[p] \in {"putobj", "stagedobj"} => cur[p] \in Object

\* format.md "Prune" and "Snapshot commit protocol": whatever is interrupted,
\* no manifest ever refers to an object that is not in the repository.
NoDanglingRef == \A i \in committed : refs[i] \subseteq objects

\* repo.h: SNAPSHOT and PRUNE are mutually exclusive, with each other and
\* with a second instance of either, and work only while the lock is there.
LockExclusive ==
    /\ \A p, q \in Proc : pc[p] \in Critical /\ pc[q] \in Critical => p = q
    /\ (\E p \in Proc : pc[p] \in Critical) => lock

\* prune.h: the sweep deletes every object no remaining manifest refers to,
\* so once it has gone through objects/ exactly the referenced ones are left.
SweepIsExact == \A p \in Proc : At(p, "sweeptmp") => objects = Referenced

\* format.md "Objects already present are never rewritten", "the writer
\* increments ticks until free": a committed snapshot keeps its contents as
\* long as it exists; no later snapshot is written over it.
CommittedIsFixed ==
    [][\A i \in committed \cap committed' : refs'[i] = refs[i]]_vars

\* While a snapshot is being taken nothing it already relies on (its own
\* new objects, and the ones it takes over from the previous snapshot) is
\* swept away under it.
RunningSnapshotIsSafe ==
    \A p \in Proc : pc[p] \in SnapPhase =>
        /\ draft[p] \cup prev[p] \subseteq objects
        /\ pc[p] \in FilePhase => file[p] \ todo[p] \subseteq objects

\* The inductive strengthening of the invariants above: at most one process
\* is past the test of the lock, and each process knows, phase by phase,
\* what keeps its next steps harmless.
Holding == Acquiring \cup Critical

OneHolder ==
    \A p, q \in Proc : pc[p] \in Holding /\ pc[q] \in Holding => p = q

ProcInv(p) ==
    /\ pc[p] \in Critical => lock
    /\ pc[p] \in SnapPhase => draft[p] \subseteq objects /\ prev[p] \subseteq objects
    /\ pc[p] \in FilePhase => file[p] \ todo[p] \subseteq objects
    /\ pc[p] \notin SnapPhase => draft[p] = {} /\ prev[p] = {}
    /\ pc[p] \in {"putmf", "stagedmf"} => id[p] \notin committed
    /\ pc[p] = "mark" =>
          \A i \in committed : i \in ids[p] \/ refs[i] \subseteq mark[p]
    /\ pc[p] \in SweepPhase => Referenced \subseteq mark[p]
    /\ pc[p] \in {"mark"} \cup SweepPhase => mark[p] \subseteq Referenced
    /\ pc[p] = "sweeptmp" => objects \subseteq mark[p]
    /\ pc[p] \notin {"mark"} \cup SweepPhase => mark[p] = {}

IInv == TypeOK /\ OneHolder /\ NoDanglingRef /\ \A p \in Proc : ProcInv(p)

\* The restorable snapshots, and what they hold.
Restorable == {i \in committed : refs[i] \subseteq objects}
Contents == [i \in SnapId |-> IF i \in Restorable THEN refs[i] ELSE {}]
Store == INSTANCE SnapshotStore WITH available <- Restorable, content <- Contents

\* The repository implements the store of snapshots it promises to be: a
\* snapshot becomes restorable complete and at once, no step of any command
\* and no crash changes or damages one, and they go away one at a time.
ImplementsStore == Store!StoreSpec

\* A running command is scheduled and its calls return (no failure is taken
\* for granted); a source volume has finitely many entries, so a scan that
\* goes on reaches its end.  The one-operator assumption holds a process
\* back only while another one acquires, hence strong fairness of the test.
Fairness ==
    \A p \in Proc :
        /\ WF_vars(LockStep(p) \/ SnapStep(p) \/ PruneStep(p))
        /\ SF_vars(ScanDone(p))
        /\ SF_vars(LockFree(p) \/ LockRefused(p))
FairSpec == Spec /\ Fairness

\* Every SNAPSHOT and PRUNE comes to an end, whatever fails underneath it
\* and whoever else is running.
CommandsEnd == \A p \in Proc : (~At(p, "idle")) ~> At(p, "idle")
=============================================================================
