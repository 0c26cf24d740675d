----------------------------- MODULE DirBackend -----------------------------
(***************************************************************************)
(* The directory backend as calls to the file system: a put writes a file  *)
(* under tmp/, closes it, makes the parents of the key and renames.  Every *)
(* one of these is a step, any of them may fail, and a process may crash   *)
(* between two of them and leave its staging file behind.                  *)
(*                                                                         *)
(* An open file stays what it is when its name is taken by another file or *)
(* removed.  Several processes use one directory.  Each key is put and     *)
(* removed by one process at a time, its Owner (what the lock and the one  *)
(* operator of repo.h see to); everybody may read it, and PRUNE removes    *)
(* whatever it finds under tmp/.                                           *)
(***************************************************************************)
EXTENDS Integers, Sequences, SequencesExt, FiniteSets

CONSTANTS
    Client,      \* processes that use the directory
    Key,         \* keys: sequences of names
    Owner,       \* the process that puts and removes a key
    StageName,   \* tmp_name_for_key(): basename and xxHash32 of the whole key
    Content,     \* what is stored: sequences of pieces
    Ops,         \* bound: the calls each process makes
    StatHonest,  \* TRUE: stat() fails only for what is not there
    Absent, NoFile, Gone, Nothing, Dir

Tmp == <<"tmp">>
Byte == UNION {Range(d) : d \in Content}

ASSUME KeyAssumption ==
    /\ Key \cup {Tmp} \subseteq Seq(STRING)
    /\ \A k \in Key : k # <<>> /\ k[1] # "tmp"
    /\ \A k, l \in Key : k # l => ~IsPrefix(k, l)
ASSUME OwnerAssumption == Owner \in [Key -> Client]
\* The names differ: 32 bits of hash are taken to tell keys of one basename apart.
ASSUME StageAssumption ==
    /\ StageName \in [Key -> STRING]
    /\ \A k, l \in Key : StageName[k] = StageName[l] => k = l
ASSUME ContentAssumption == Content \subseteq Seq(Byte) /\ Absent \notin Content
ASSUME ValueAssumption ==
    /\ Nothing \notin Seq(Byte) /\ Dir \notin Seq(Byte) /\ Nothing # Dir
    /\ Gone \notin Seq(STRING) /\ NoFile \notin Seq(STRING) /\ Gone # NoFile

VARIABLES
    node,     \* what each path leads to: a file's bytes, Dir or Nothing
    at,       \* the next file system call of each process
    h,        \* its open file, and what it is for
    call,     \* the backend call it makes or made last
    reply,    \* what that returned
    faulty,   \* history: something went wrong in this call or its stream
    litter    \* history: staging files that a crash or a failing remove() left

vars == <<node, at, h, call, reply, faulty, litter>>

StageBare(k) ==              \* mutant: the basename alone
    <<"tmp", Last(k)>>
Stage(k) == <<"tmp", StageName[k]>>
Parents(k) == {SubSeq(k, 1, n) : n \in 1 .. Len(k) - 1}
Container == UNION {Parents(k) : k \in Key}
Path == Key \cup Container \cup {Tmp} \cup {Stage(k) : k \in Key}
FileAt(p) == node[p] \notin {Nothing, Dir}
Below(p) == {q \in Path : Len(q) = Len(p) + 1 /\ IsPrefix(p, q) /\ node[q] # Nothing}

NoHandle == [file |-> NoFile]
Pending == [rc |-> "pending"]
Said(rc) == [rc |-> rc]
NoCall == [op |-> "other"]

\* The bytes of an open file; file is its path, or Gone with its bytes kept.
Bytes(x) == IF x.file = Gone THEN x.bytes ELSE node[x.file]

\* Open files when the file at q goes and the one at p is found there instead.
Moved(p, q) ==
    [c \in Client |-> IF h[c].file = q THEN [h[c] EXCEPT !.file = Gone, !.bytes = node[q]]
                      ELSE IF h[c].file = p THEN [h[c] EXCEPT !.file = q]
                      ELSE h[c]]

-----------------------------------------------------------------------------
At(c, s) == at[c] = s
Goto(c, s) == at' = [at EXCEPT ![c] = s]
Hold(c, x) == h' = [h EXCEPT ![c] = x]
Becomes(p, x) == node' = [node EXCEPT ![p] = x]

Ask(c, q, s) ==
    /\ call' = [call EXCEPT ![c] = q]
    /\ reply' = [reply EXCEPT ![c] = Pending]
    /\ faulty' = [faulty EXCEPT ![c] = @ /\ At(c, "held")]
    /\ Goto(c, s)
    /\ UNCHANGED <<node, litter>>

Answer(c, r, s) ==
    /\ reply' = [reply EXCEPT ![c] = r]
    /\ Goto(c, s)
    /\ UNCHANGED call

Fault(c) == faulty' = [faulty EXCEPT ![c] = TRUE]

NewHandle(k, d, streamed) ==
    [file |-> NoFile, bytes |-> <<>>, key |-> k, want |-> d, left |-> d, streamed |-> streamed, failed |-> FALSE]

\* dir_put()
Put(c) ==
    /\ At(c, "idle") /\ "put" \in Ops[c]
    /\ \E k \in {k \in Key : Owner[k] = c}, d \in Content :
           /\ Ask(c, [op |-> "put", key |-> k, data |-> d], "mktmp")
           /\ Hold(c, NewHandle(k, d, FALSE))

\* dir_put_begin()
PutBegin(c) ==
    /\ At(c, "idle") /\ "stream" \in Ops[c]
    /\ \E k \in {k \in Key : Owner[k] = c}, d \in Content :
           Ask(c, NoCall, "mktmp") /\ Hold(c, NewHandle(k, d, TRUE))

\* dir_put_append() with the next piece
PutAppend(c) ==
    /\ At(c, "held") /\ ~h[c].failed /\ h[c].left # <<>>
    /\ Ask(c, NoCall, "write")
    /\ UNCHANGED h

\* dir_put_finish() when everything has been appended
PutFinish(c) ==
    /\ At(c, "held") /\ ~h[c].failed /\ h[c].left = <<>>
    /\ Ask(c, [op |-> "put", key |-> h[c].key, data |-> h[c].want], "close")
    /\ UNCHANGED h

\* dir_put_abort(), at any time and after a failed append
PutAbort(c) ==
    /\ At(c, "held")
    /\ Ask(c, NoCall, "abort")
    /\ UNCHANGED h

\* dir_get(), dir_exists()
Look(c) ==
    /\ At(c, "idle")
    /\ \E k \in Key, op \in {"get", "exists"} \cap Ops[c] : Ask(c, [op |-> op, key |-> k], op)
    /\ UNCHANGED h

\* dir_remove() of a key, and of a name found under tmp/ (sweep_tmp_cb)
RemoveKey(c) ==
    /\ At(c, "idle")
    /\ \/ \E k \in {k \in Key : Owner[k] = c /\ "remove" \in Ops[c]} :
              Ask(c, [op |-> "remove", key |-> k,
                      was |-> IF FileAt(k) THEN node[k] ELSE Absent], "remove")
       \/ \E p \in {p \in Below(Tmp) : "sweep" \in Ops[c]} :
              Ask(c, [op |-> "remove", key |-> p, was |-> Absent], "remove")
    /\ UNCHANGED h

\* dir_list(), dir_mkcol()
Around(c) ==
    /\ At(c, "idle")
    /\ \E p \in Container, op \in {"list", "mkcol"} \cap Ops[c] : Ask(c, [op |-> op, key |-> p], op)
    /\ UNCHANGED h

Caller(c) ==
    \/ Put(c) \/ PutBegin(c) \/ PutAppend(c) \/ PutFinish(c) \/ PutAbort(c)
    \/ Look(c) \/ RemoveKey(c) \/ Around(c)

-----------------------------------------------------------------------------
(* dir_put() and the streamed put.                                         *)

\* mkdir_p(tmp_dir): what is there already will do.
MakeTmp(c) ==
    /\ At(c, "mktmp")
    /\ node' = [node EXCEPT ![Tmp] = IF @ = Nothing THEN Dir ELSE @]
    /\ Goto(c, "open")
    /\ UNCHANGED <<h, call, reply, faulty, litter>>

\* fopen(tmp_path, "wb"): a file that is there is emptied, not replaced.
OpenStage(c) ==
    LET p == Stage(h[c].key) IN
        /\ At(c, "open")
        /\ Becomes(p, <<>>)
        /\ Hold(c, [h[c] EXCEPT !.file = p])
        /\ litter' = litter \ {p}
        /\ IF h[c].streamed THEN Answer(c, Said("ok"), "held")
           ELSE Goto(c, "write") /\ UNCHANGED <<call, reply>>
        /\ UNCHANGED faulty

\* mkdir() or fopen() fails; nothing has been staged.
NotStagedKept(c) ==          \* mutant: the handle is not freed
    /\ at[c] \in {"mktmp", "open"}
    /\ Fault(c)
    /\ Answer(c, Said("error"), "idle")
    /\ UNCHANGED <<node, h, litter>>

NotStaged(c) ==
    /\ at[c] \in {"mktmp", "open"}
    /\ Hold(c, NoHandle) /\ Fault(c)
    /\ Answer(c, Said("error"), "idle")
    /\ UNCHANGED <<node, litter>>

\* fwrite(): all that put() was given, or one piece of a stream.
Piece(c) == IF h[c].streamed THEN <<Head(h[c].left)>> ELSE h[c].left

Written(c, d, x) ==
    IF x.file = Gone THEN Hold(c, [x EXCEPT !.bytes = @ \o d]) /\ UNCHANGED node
    ELSE Hold(c, x) /\ Becomes(x.file, node[x.file] \o d)

Write(c) ==
    /\ At(c, "write")
    /\ Written(c, Piece(c), [h[c] EXCEPT !.left = SubSeq(@, Len(Piece(c)) + 1, Len(@))])
    /\ IF h[c].streamed THEN Answer(c, Said("ok"), "held")
       ELSE Goto(c, "close") /\ UNCHANGED <<call, reply>>
    /\ UNCHANGED <<faulty, litter>>

\* A short write: put() gives up, a stream is left to its caller to abort.
ShortWriteIgnored(c) ==      \* mutant: what fwrite() returns is not looked at
    /\ At(c, "write")
    /\ Fault(c)
    /\ Hold(c, [h[c] EXCEPT !.left = <<>>])
    /\ Goto(c, "close")
    /\ UNCHANGED <<node, call, reply, litter>>

ShortWrite(c) ==
    /\ At(c, "write")
    /\ \E n \in 0 .. Len(Piece(c)) - 1 :
           Written(c, SubSeq(Piece(c), 1, n), [h[c] EXCEPT !.failed = TRUE])
    /\ Fault(c)
    /\ IF h[c].streamed THEN Answer(c, Said("error"), "held")
       ELSE Goto(c, "discard") /\ UNCHANGED <<call, reply>>
    /\ UNCHANGED litter

Close(c) ==
    /\ At(c, "close")
    /\ Hold(c, [h[c] EXCEPT !.file = NoFile, !.bytes = <<>>])
    /\ Goto(c, "parents")
    /\ UNCHANGED <<node, call, reply, faulty, litter>>

\* ensure_parent_dir(): mkdir_p() of all that comes before the last name
MakeParents(c) ==
    /\ At(c, "parents")
    /\ node' = [p \in Path |-> IF p \in Parents(h[c].key) /\ node[p] = Nothing THEN Dir
                               ELSE node[p]]
    /\ Goto(c, "rename")
    /\ UNCHANGED <<h, call, reply, faulty, litter>>

\* rename() puts whatever has the staging name in the place of the key.
Rename(c) ==
    LET p == Stage(h[c].key) IN
    /\ At(c, "rename") /\ node[p] # Nothing
    /\ node' = [node EXCEPT ![h[c].key] = node[p], ![p] = Nothing]
    /\ h' = [Moved(p, h[c].key) EXCEPT ![c] = NoHandle]
    /\ litter' = litter \ {p}
    /\ Goto(c, "return")
    /\ UNCHANGED <<call, reply, faulty>>

\* The call that has taken effect returns.
Return(c) ==
    /\ At(c, "return")
    /\ Answer(c, Said("ok"), "idle")
    /\ UNCHANGED <<node, h, faulty, litter>>

\* fclose(), mkdir() or rename() fails, rename() also for want of the file.
CloseFailsOpen(c) ==         \* mutant: the staging file is not removed
    /\ at[c] \in {"close", "parents", "rename"}
    /\ Fault(c)
    /\ UNCHANGED <<node, litter>>
    /\ Hold(c, NoHandle)
    /\ Answer(c, Said("error"), "idle")

CloseFails(c) ==
    /\ at[c] \in {"close", "parents", "rename"}
    /\ IF At(c, "rename") /\ node[Stage(h[c].key)] = Nothing THEN UNCHANGED faulty
       ELSE Fault(c)
    /\ Goto(c, "discard")
    /\ UNCHANGED <<node, h, call, reply, litter>>

\* remove(tmp_path), after a failure and by put_abort(); its result is ignored.
Discard(c) ==
    LET p == Stage(h[c].key) IN
    /\ at[c] \in {"discard", "abort"}
    /\ \/ /\ Becomes(p, Nothing) /\ litter' = litter \ {p}
          /\ h' = [Moved(p, p) EXCEPT ![c] = NoHandle]
       \/ /\ UNCHANGED node /\ litter' = litter \cup {p}
          /\ Hold(c, NoHandle)
    /\ Answer(c, Said(IF At(c, "abort") THEN "ok" ELSE "error"), "idle")
    /\ UNCHANGED faulty

PutStep(c) ==
    \/ MakeTmp(c) \/ OpenStage(c) \/ NotStaged(c) \/ Write(c) \/ ShortWrite(c)
    \/ Close(c) \/ MakeParents(c) \/ Rename(c) \/ Return(c) \/ CloseFails(c)
    \/ Discard(c)

-----------------------------------------------------------------------------
(* The other calls.                                                        *)

\* dir_get(): fopen(); ENOENT alone means that nothing is there.
OpenToRead(c) ==
    LET p == call[c].key IN
    /\ At(c, "get")
    /\ IF FileAt(p) THEN /\ Hold(c, [file |-> p, bytes |-> <<>>]) /\ Goto(c, "read")
                         /\ UNCHANGED <<call, reply>>
       ELSE Answer(c, Said("absent"), "idle") /\ UNCHANGED h
    /\ UNCHANGED <<node, faulty, litter>>

\* The size is asked for and that much is read.
Read(c) ==
    /\ At(c, "read")
    /\ UNCHANGED <<node, faulty, litter>>
    /\ Hold(c, NoHandle)
    /\ Answer(c, [rc |-> "ok", data |-> Bytes(h[c])], "idle")

\* dir_exists() has no way to say that stat() failed; only a path it cannot join
\* is an error, in CallFails.
Stat(c) ==
    LET there == node[call[c].key] # Nothing IN
    /\ At(c, "exists")
    /\ \/ there /\ Answer(c, Said("ok"), "idle")
       \/ (~there \/ ~StatHonest) /\ Answer(c, Said("absent"), "idle")
    /\ UNCHANGED <<node, h, faulty, litter>>

\* The staging file of somebody else may be in use.
Unlink(c) ==
    LET p == call[c].key IN
    /\ At(c, "remove")
    /\ Becomes(p, Nothing) /\ h' = Moved(p, p)
    /\ litter' = litter \ {p}
    /\ faulty' = [d \in Client |-> \/ faulty[d]
                                   \/ h[d] # NoHandle /\ "key" \in DOMAIN h[d]
                                      /\ Stage(h[d].key) = p]
    /\ IF node[p] = Nothing THEN Answer(c, Said("absent"), "idle")
       ELSE Goto(c, "return") /\ UNCHANGED <<call, reply>>

\* dir_list(): what it reports is SnapRepo's Listed; dir_mkcol(): mkdir_p()
Listing(c) ==
    /\ At(c, "list")
    /\ Answer(c, Said("ok"), "idle")
    /\ UNCHANGED <<node, h, faulty, litter>>

Mkcol(c) ==
    LET k == call[c].key IN
    /\ At(c, "mkcol")
    /\ node' = [p \in Path |-> IF p \in Parents(k) \cup {k} /\ node[p] = Nothing THEN Dir
                               ELSE node[p]]
    /\ Answer(c, Said("ok"), "idle")
    /\ UNCHANGED <<h, faulty, litter>>

\* A path longer than AMISNAP_BACKEND_DIR_MAX_PATH, or a failing call
CallFails(c) ==
    /\ at[c] \in {"get", "read", "exists", "remove", "list", "mkcol"}
    /\ Fault(c)
    /\ UNCHANGED <<node, litter>>
    /\ Hold(c, NoHandle)
    /\ Answer(c, Said("error"), "idle")

LookStep(c) ==
    \/ OpenToRead(c) \/ Read(c) \/ Stat(c) \/ Unlink(c) \/ Listing(c) \/ Mkcol(c)
    \/ CallFails(c)

\* The process ends: its files are closed, its staging file stays.
Crash(c) ==
    /\ ~At(c, "idle")
    /\ litter' = IF "key" \in DOMAIN h[c] /\ FileAt(Stage(h[c].key))
                 THEN litter \cup {Stage(h[c].key)} ELSE litter
    /\ Hold(c, NoHandle)
    /\ UNCHANGED node
    /\ Fault(c)
    /\ IF reply[c] = Pending THEN Answer(c, Said("error"), "idle")
       ELSE Goto(c, "idle") /\ UNCHANGED <<call, reply>>

-----------------------------------------------------------------------------
Init ==
    /\ node = [p \in Path |-> Nothing]
    /\ at = [c \in Client |-> "idle"]
    /\ h = [c \in Client |-> NoHandle]
    /\ call = [c \in Client |-> NoCall]
    /\ reply = [c \in Client |-> Said("ok")]
    /\ faulty = [c \in Client |-> FALSE]
    /\ litter = {}

Next == \E c \in Client : Caller(c) \/ PutStep(c) \/ LookStep(c) \/ Crash(c)
Spec == Init /\ [][Next]_vars

-----------------------------------------------------------------------------
\* Type correctness of the file system and of the processes.
TypeOK ==
    /\ node \in [Path -> Seq(Byte) \cup {Nothing, Dir}]
    /\ at \in [Client -> {"idle", "mktmp", "open", "write", "held", "close", "parents",
                          "rename", "return", "discard", "abort", "get", "read", "exists", "remove",
                          "list", "mkcol"}]
    /\ \A c \in Client :
          /\ h[c].file \in Path \cup {NoFile, Gone}
          /\ at[c] \in {"write", "held", "close", "read"} => h[c].file # NoFile
          /\ at[c] = "idle" => h[c] = NoHandle
          /\ reply[c].rc \in {"pending", "ok", "absent", "error"}
          /\ at[c] \in {"idle", "held"} <=> reply[c] # Pending
    /\ faulty \in [Client -> BOOLEAN]
    /\ litter \subseteq {Stage(k) : k \in Key}

Mine(c) == {k \in Key : Owner[k] = c}
Visible(k) == IF FileAt(k) THEN node[k] ELSE Absent
MyCall(c) == call[c].op \in {"put", "get", "exists", "remove"} /\ call[c].key \in Mine(c)
Contract(c) == INSTANCE KeyStore WITH
    Key <- Mine(c),
    store <- [k \in Mine(c) |-> Visible(k)],
    last <- IF MyCall(c) THEN call[c] ELSE NoCall,
    reply <- IF MyCall(c) \/ reply[c] = Pending \/ reply[c] = Said("error") THEN reply[c]
             ELSE Said("ok")

\* backend.h: to the process that writes a key the directory is a map from
\* keys to contents with atomic calls, whatever else goes on in it.
ImplementsKeyStore ==
    /\ \A c \in Client : Contract(c)!KeyStoreInit
    /\ [][\A c \in Client : Contract(c)!KeyStoreNext
                            \/ UNCHANGED Contract(c)!keyStoreVars]_vars

\* backend.h put: a reader never sees part of what is being written, also
\* when the file it has open is replaced or removed meanwhile.
NoTornRead ==
    \A c \in Client : "data" \in DOMAIN reply[c] => reply[c].data \in Content

\* dir_put(), dir_put_finish(), dir_put_abort(): what lies under tmp/ belongs
\* to a put under way, but for what crashes and failing remove()s left.
NoLitter ==
    \A k \in Key : node[Stage(k)] # Nothing =>
        \/ Stage(k) \in litter
        \/ \E c \in Client : "key" \in DOMAIN h[c] /\ h[c].key = k

\* A call fails only if something failed during it, or somebody swept its
\* staging file: no two keys get in each other's way.
OnlyFaultsFail == \A c \in Client : reply[c] = Said("error") => faulty[c]

\* Readers get whole contents, and no call fails for want of a cause, through
\* every interleaving of two processes' file system calls.
ServesWhole == TypeOK /\ NoTornRead /\ OnlyFaultsFail
=============================================================================
