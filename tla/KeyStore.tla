------------------------------ MODULE KeyStore ------------------------------
(***************************************************************************)
(* What backend.h promises its callers of a storage backend: a map from    *)
(* keys to contents.  A call takes effect at most once and at once, before *)
(* it reports success; a reader sees the old content or the new one and    *)
(* nothing in between.  A call that fails may have taken effect, or may    *)
(* still do so until the next one is made.  DirBackend, with its staging   *)
(* files, and RemoteBackend, with its connections, retries, chunked and    *)
(* multipart uploads, are shown to implement this.                         *)
(***************************************************************************)
CONSTANTS Key,      \* keys of the repository or of the destination
          Content,  \* what may be stored
          Absent    \* nothing is stored

VARIABLES store,  \* what is stored at each key
          last,   \* the last call: operation, key, content, what was there
          reply   \* what it returned; "pending" until then

keyStoreVars == <<store, last, reply>>

NoCall == [op |-> "other"]
Calls == {NoCall}
    \cup [op : {"put"}, key : Key, data : Content]
    \cup [op : {"get", "exists"}, key : Key]
    \cup [op : {"remove"}, key : Key, was : Content \cup {Absent}]
Pending == [rc |-> "pending"]

KeyStoreInit ==
    /\ store = [k \in Key |-> Absent]
    /\ last = NoCall
    /\ reply = [rc |-> "ok"]

Ask(c) ==
    /\ reply # Pending
    /\ c.op = "remove" => c.was = store[c.key]
    /\ last' = c /\ reply' = Pending
    /\ UNCHANGED store

TakeEffect ==
    /\ \/ last.op = "put" /\ store' = [store EXCEPT ![last.key] = last.data]
       \/ last.op = "remove" /\ store' = [store EXCEPT ![last.key] = Absent]
    /\ UNCHANGED <<last, reply>>

\* What a call may say: an error is always possible, everything else is true.
Truthful(r) ==
    \/ r = [rc |-> "error"]
    \/ last.op = "other" /\ r = [rc |-> "ok"]
    \/ last.op = "put" /\ r = [rc |-> "ok"] /\ store[last.key] = last.data
    \/ last.op = "get" /\ r = [rc |-> "ok", data |-> store[last.key]]
                       /\ store[last.key] # Absent
    \/ last.op = "exists" /\ r = [rc |-> "ok"] /\ store[last.key] # Absent
    \/ last.op = "remove" /\ r = [rc |-> "ok"] /\ store[last.key] = Absent
                          /\ last.was # Absent
    \/ last.op \in {"get", "exists", "remove"} /\ r = [rc |-> "absent"]
                          /\ store[last.key] = Absent

Reply ==
    /\ reply = Pending
    /\ \E r \in [rc : {"ok", "absent", "error"}] \cup [rc : {"ok"}, data : Content] :
           Truthful(r) /\ reply' = r
    /\ UNCHANGED <<store, last>>

\* A call that is not about the content of one key, made and answered.
Aside ==
    /\ reply # Pending
    /\ last' = NoCall /\ reply' = [rc |-> "ok"]
    /\ UNCHANGED store

KeyStoreNext == (\E c \in Calls : Ask(c)) \/ TakeEffect \/ Reply \/ Aside

KeyStoreSpec == KeyStoreInit /\ [][KeyStoreNext]_keyStoreVars
=============================================================================
