---------------------------- MODULE SnapshotList ----------------------------
(***************************************************************************)
(* The list of snapshots as the commands use it (main.c): collected from   *)
(* the backend in whatever order it gives them, at most MAX_SNAPSHOTS of   *)
(* them, and sorted.  LIST shows each and says in its return code whether  *)
(* one could not be read; PRUNE KEEP_LAST=n deletes all but the last n;    *)
(* RESTORE and VERIFY without SNAPID take the last.  Other commands create *)
(* and delete snapshots meanwhile, and manifests decay.  Ids are numbers,  *)
(* ordered as the names are; a name longer than an id is a pair.           *)
(***************************************************************************)
EXTENDS Integers, Sequences, SequencesExt, FiniteSets, FiniteSetsExt

CONSTANTS
    Stamps,        \* snapshot ids: naturals
    MaxSnapshots,  \* MAX_SNAPSHOTS: 1024
    KeepLast       \* the values KEEP_LAST is given

ASSUME ListAssumption ==
    Stamps \subseteq Nat /\ MaxSnapshots \in Nat /\ KeepLast \subseteq Nat

VARIABLES
    stored,        \* snapshot -> is its manifest readable?
    ids,           \* LIST's copy of the list, what is left of it
    shown,         \* what it printed: [id, ok]
    degraded,      \* has it met one it could not read?
    code,          \* "idle", "running", or the return code
    present,       \* ghost: snapshots there since LIST began
    truncated,     \* ghost: there were more than MAX_SNAPSHOTS
    chosen         \* the choice just made: [req, id]

listVars == <<stored, ids, shown, degraded, code, present, truncated, chosen>>

Snapshots == DOMAIN stored
NoChoice == [req |-> <<1, 2, 3>>, id |-> -1]

ListInit ==
    /\ stored = <<>> /\ ids = <<>> /\ shown = <<>> /\ degraded = FALSE /\ code = "idle"
    /\ present = {} /\ truncated = FALSE /\ chosen = NoChoice

Collected(all) == {s \in SUBSET all : Cardinality(s) = IF Cardinality(all) < MaxSnapshots
                                                       THEN Cardinality(all) ELSE MaxSnapshots}
Unsorted(s) == CHOOSE q \in SetToSeqs(s) : \A i, j \in DOMAIN q : i < j => q[i] >= q[j]    \* mutant: as it came
Sorted(s) ==
    [i \in 1 .. Cardinality(s) |-> CHOOSE x \in s : Cardinality({y \in s : y <= x}) = i]

-----------------------------------------------------------------------------
(* The other commands.                                                     *)

Reader == <<ids, shown, degraded, code, truncated>>

Create ==
    /\ \E i \in Stamps \ Snapshots :
        stored' = [j \in Snapshots \cup {i} |-> IF j = i THEN TRUE ELSE stored[j]]
    /\ UNCHANGED <<Reader, present>> /\ chosen' = NoChoice

Rots ==
    /\ \E i \in Snapshots : stored[i] /\ stored' = [stored EXCEPT ![i] = FALSE]
    /\ UNCHANGED <<Reader, present>> /\ chosen' = NoChoice

Drop(gone) ==
    /\ stored' = [j \in Snapshots \ gone |-> stored[j]]
    /\ present' = present \ gone

\* PRUNE SNAPID=: the one named, exactly as named.
PruneOne == (\E i \in Snapshots : Drop({i})) /\ UNCHANGED Reader /\ chosen' = NoChoice

\* PRUNE KEEP_LAST=n: the list's first count - n.
DeletedFromTheEnd(list, n) == {list[i] : i \in n + 1 .. Len(list)}    \* mutant: the newest come first
Deleted(list, n) == {list[i] : i \in 1 .. Len(list) - n}

KeepLastIs(n) ==
    /\ \E s \in Collected(Snapshots) : Drop(Deleted(Sorted(s), n))
    /\ UNCHANGED Reader /\ chosen' = NoChoice
PruneKeepLast == \E n \in KeepLast : KeepLastIs(n)

\* resolve_snapid: a name is used as given, but for what is beyond the 16
\* characters of an id; without one, the last of the list.
Resolve ==
    /\ \/ \E i \in Stamps : \E long \in BOOLEAN :
            chosen' = [req |-> IF long THEN <<i, "longer">> ELSE <<i>>, id |-> i]
       \/ Snapshots # {} /\ \E s \in Collected(Snapshots) :
            chosen' = [req |-> <<>>, id |-> Last(Sorted(s))]
    /\ UNCHANGED <<stored, ids, shown, degraded, code, present, truncated>>

-----------------------------------------------------------------------------
(* LIST: the list once, then each manifest as it is by then.               *)

List ==
    /\ code = "idle" /\ code' = "running"
    /\ \E s \in Collected(Snapshots) : ids' = Sorted(s)
    /\ present' = Snapshots /\ truncated' = (Cardinality(Snapshots) > MaxSnapshots)
    /\ shown' = <<>> /\ degraded' = FALSE
    /\ chosen' = NoChoice /\ UNCHANGED stored

Readable(i) == i \in Snapshots /\ stored[i]
FlaggedLast(i) == ~Readable(i)    \* mutant: the next one that reads clears it
Flagged(i) == degraded \/ ~Readable(i)

Show ==
    /\ code = "running" /\ ids # <<>>
    /\ ids' = Tail(ids)
    /\ shown' = Append(shown, [id |-> Head(ids), ok |-> Readable(Head(ids))])
    /\ degraded' = Flagged(Head(ids))
    /\ chosen' = NoChoice /\ UNCHANGED <<stored, code, present, truncated>>

Listed ==
    /\ code = "running" /\ ids = <<>>
    /\ code' = IF degraded THEN "warn" ELSE "ok"
    /\ chosen' = NoChoice /\ UNCHANGED <<stored, ids, shown, degraded, present, truncated>>

ListNext == List \/ Show \/ Listed \/ Create \/ Rots \/ PruneOne \/ PruneKeepLast \/ Resolve

-----------------------------------------------------------------------------
Newest(set, n) == {i \in set : Cardinality({j \in set : j > i}) < n}

\* KEEP_LAST=n leaves the n greatest ids alone, even of a repository with more
\* snapshots than the list holds, and where the list holds them all leaves no
\* other: with too few to keep, it deletes nothing.
KeepsTheNewest ==
    \A n \in KeepLast : KeepLastIs(n) =>
        /\ Newest(Snapshots, n) \subseteq DOMAIN stored'
        /\ Cardinality(Snapshots) <= MaxSnapshots =>
                DOMAIN stored' = Newest(Snapshots, n)

\* LIST's clean bill: a return code of OK says that every snapshot that was
\* there all the while is shown, in order, and could be read.
CleanListIsClean ==
    code = "ok" /\ ~truncated =>
        /\ present \subseteq {shown[i].id : i \in DOMAIN shown}
        /\ \A i \in DOMAIN shown : shown[i].ok /\ (i > 1 => shown[i - 1].id < shown[i].id)

\* Without SNAPID the snapshot restored or verified is the one with the
\* greatest id, where the list holds them all; with one it is the one named.
ChoosesTheLatest ==
    /\ chosen.req = <<>> /\ Cardinality(Snapshots) <= MaxSnapshots =>
            chosen.id = Max(Snapshots)
    /\ Len(chosen.req) = 1 => chosen.req[1] = chosen.id

\* KEEP_LAST, LIST and the lookup of a snapshot see the same list, the right
\* way round, and do not call it complete when it was not read.
ListsRightly == [][KeepsTheNewest /\ ChoosesTheLatest' /\ CleanListIsClean']_listVars
=============================================================================
