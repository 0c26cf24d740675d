---------------------------- MODULE MCSnapshots ----------------------------
(***************************************************************************)
(* What a snapshot records, on a small instance: which contents of a       *)
(* source in use (ChangeDetect), and in which format (RepoFormat).  The    *)
(* two share no state: a behaviour is one of a source volume or one of a   *)
(* repository, and the other stands still.                                 *)
(***************************************************************************)
EXTENDS ChangeDetect, MCRepoFormat

CONSTANTS f1, rw, ro

VARIABLE machine

snapshotVars == <<machine, vars, formatVars>>

SnapshotsInit == machine \in {"source", "repository"} /\ Init /\ FormatInit
SnapshotsNext ==
    \/ machine = "source" /\ Next /\ UNCHANGED <<machine, formatVars>>
    \/ machine = "repository" /\ FormatNext /\ UNCHANGED <<machine, vars>>

SnapshotsSpec == SnapshotsInit /\ [][SnapshotsNext]_snapshotVars

\* Each permutation is tried on every state of the source volume too, so only
\* the processes are taken for interchangeable.
SnapshotSymmetry == Permutations(Proc)
=============================================================================
