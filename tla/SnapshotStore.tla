---------------------------- MODULE SnapshotStore ----------------------------
(***************************************************************************)
(* What a repository promises its user: a set of snapshots that can be     *)
(* restored, each with fixed contents.  A snapshot appears complete, in    *)
(* one step, under a name no other restorable snapshot has; it disappears  *)
(* in one step; nothing else ever happens to it.  SnapRepo, with its       *)
(* object files, staging files, lock, crashes and failing calls, is shown  *)
(* to implement this.                                                      *)
(***************************************************************************)
CONSTANTS Object,   \* content addresses
          SnapId    \* names of snapshots

VARIABLES available,  \* the snapshots that can be restored
          content     \* what each of them consists of ({} for the others)

storeVars == <<available, content>>

StoreInit ==
    /\ available = {}
    /\ content = [i \in SnapId |-> {}]

Add(i, c) ==
    /\ i \notin available
    /\ available' = available \cup {i}
    /\ content' = [content EXCEPT ![i] = c]

Delete(i) ==
    /\ i \in available
    /\ available' = available \ {i}
    /\ content' = [content EXCEPT ![i] = {}]

StoreNext ==
    \E i \in SnapId :
        \/ \E c \in SUBSET Object : Add(i, c)
        \/ Delete(i)

StoreSpec == StoreInit /\ [][StoreNext]_storeVars
=============================================================================
