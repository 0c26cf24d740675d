----------------------------- MODULE RepoFormat -----------------------------
(***************************************************************************)
(* How the contents of a repository are encoded: INIT and REKEY write the  *)
(* header amisnap.repo, which says whether objects are framed              *)
(* (compressed) and holds the repository key wrapped by a passphrase;      *)
(* SNAPSHOT reads it once, when it starts, and encodes everything it       *)
(* writes accordingly; every reader decodes everything according to the    *)
(* header it finds.  An object that is there is never written again,       *)
(* whatever its encoding, and a repository without a header is plain.      *)
(*                                                                         *)
(* INIT and REKEY take no lock; both read the header and write it later.   *)
(* The lock that keeps SNAPSHOTs apart, and PRUNE, are in SnapRepo.        *)
(***************************************************************************)
EXTENDS Integers

CONSTANTS
    Proc,        \* invocations of the command line tool
    Object,      \* content addresses
    Key,         \* the random keys INIT draws
    NoKey,       \* CIPHER 0
    Pass,        \* passphrases
    NoPass,      \* no passphrase wraps a key
    InitFormats, \* what INIT is asked for: records [cipher, framed]
    InitFirst,   \* TRUE: INIT is run before the first snapshot, on its own
    Rekeyed      \* the formats, [cipher, framed], REKEY is used with

ASSUME KeyAssumption == NoKey \notin Key /\ NoPass \notin Pass
ASSUME InitAssumption ==
    /\ InitFirst \in BOOLEAN
    /\ InitFormats \subseteq [cipher : BOOLEAN, framed : BOOLEAN]
    /\ \A f \in InitFormats : f.cipher \/ f.framed

VARIABLES
    header,     \* amisnap.repo
    objects,    \* what is under objects/
    manifests,  \* what is under snapshots/
    drawn,      \* keys INIT has drawn
    pc,         \* "idle", "init", "snap" or "rekey"
    mem         \* what each process knows of the repository

repoVars == <<header, objects, manifests>>
formatVars == <<repoVars, drawn, pc, mem>>

\* How an object is encoded: encrypted with a key or not, framed or not.
Format == [key : Key \cup {NoKey}, framed : BOOLEAN]
Plain == [key |-> NoKey, framed |-> FALSE]
Header == [there : BOOLEAN, format : Format, pass : Pass \cup {NoPass}]
NoHeader == [there |-> FALSE, format |-> Plain, pass |-> NoPass]
Stored == [hash : Object, format : Format]
Manifest == [key : Key \cup {NoKey}, refs : SUBSET Object]
Memory == [format : Format, pass : Pass \cup {NoPass}, refs : SUBSET Object]
Nothing == [format |-> Plain, pass |-> NoPass, refs |-> {}]

FormatInit ==
    /\ header = NoHeader
    /\ objects = {} /\ manifests = {} /\ drawn = {}
    /\ pc = [p \in Proc |-> "idle"]
    /\ mem = [p \in Proc |-> Nothing]

At(p, s) == pc[p] = s
None(s) == \A p \in Proc : pc[p] # s
BeginCommand(p, s, m) ==
    /\ At(p, "idle")
    /\ pc' = [pc EXCEPT ![p] = s]
    /\ mem' = [mem EXCEPT ![p] = m]
    /\ UNCHANGED repoVars
End(p) == pc' = [pc EXCEPT ![p] = "idle"] /\ mem' = [mem EXCEPT ![p] = Nothing]

-----------------------------------------------------------------------------
(* INIT: refused when there is a header; else write one.                   *)

InitStart(p) ==
    /\ ~header.there
    /\ InitFirst => objects = {} /\ manifests = {} /\ None("snap")
    /\ \E f \in InitFormats, w \in Pass :
          \E k \in IF f.cipher THEN Key \ drawn ELSE {NoKey} :
             /\ drawn' = drawn \cup ({k} \ {NoKey})
             /\ BeginCommand(p, "init",
                   [format |-> [key |-> k, framed |-> f.framed],
                    pass |-> IF f.cipher THEN w ELSE NoPass, refs |-> {}])

WriteHeader(p) ==
    header' = [there |-> TRUE, format |-> mem[p].format, pass |-> mem[p].pass]

InitPut(p) ==
    /\ At(p, "init")
    /\ WriteHeader(p)
    /\ End(p)
    /\ UNCHANGED <<objects, manifests, drawn>>

-----------------------------------------------------------------------------
(* SNAPSHOT: open_repo_key, then objects, then the manifest.               *)

OpenRepoPlainly(p) ==        \* mutant: a wrong passphrase means no encryption
    /\ InitFirst => None("init")
    /\ \E t \in Pass :
          BeginCommand(p, "snap",
              [format |-> [header.format EXCEPT !.key = IF t = header.pass THEN @ ELSE NoKey],
               pass |-> NoPass, refs |-> {}])
    /\ UNCHANGED drawn

\* The passphrase typed must unwrap the key; without a header, or with one
\* that says CIPHER 0, none is asked for.
OpenRepo(p) ==
    /\ InitFirst => None("init")
    /\ \E t \in Pass : header.format.key = NoKey \/ t = header.pass
    /\ BeginCommand(p, "snap", [format |-> header.format, pass |-> NoPass, refs |-> {}])
    /\ UNCHANGED drawn

Present(o) == \E x \in objects : x.hash = o
Put(o, f) ==
    IF Present(o) THEN UNCHANGED objects
    ELSE objects' = objects \cup {[hash |-> o, format |-> f]}

WriteObjectFramed(p) ==      \* mutant: a framed object is not encrypted
    /\ At(p, "snap")
    /\ \E o \in Object :
          /\ Put(o, IF mem[p].format.framed THEN [key |-> NoKey, framed |-> TRUE]
                    ELSE mem[p].format)
          /\ mem' = [mem EXCEPT ![p].refs = @ \cup {o}]
    /\ UNCHANGED <<header, manifests, drawn, pc>>

WriteObject(p) ==
    /\ At(p, "snap")
    /\ \E o \in Object :
          /\ Put(o, mem[p].format)
          /\ mem' = [mem EXCEPT ![p].refs = @ \cup {o}]
    /\ UNCHANGED <<header, manifests, drawn, pc>>

\* A put that reports failure although it took effect.
PutFails(p) ==
    /\ At(p, "snap")
    /\ \E o \in Object : Put(o, mem[p].format)
    /\ UNCHANGED <<header, manifests, drawn, pc, mem>>

\* An unchanged file takes over the references of the previous manifest, if
\* that opens: with the key it was written with, or without one if plain.
ReuseEntry(p) ==
    /\ At(p, "snap")
    /\ \E m \in manifests :
          /\ m.key = mem[p].format.key
          /\ \E r \in SUBSET m.refs : mem' = [mem EXCEPT ![p].refs = @ \cup r]
    /\ UNCHANGED <<repoVars, drawn, pc>>

CommitManifest(p) ==
    /\ At(p, "snap")
    /\ manifests' = manifests \cup {[key |-> mem[p].format.key, refs |-> mem[p].refs]}
    /\ End(p)
    /\ UNCHANGED <<header, objects, drawn>>

-----------------------------------------------------------------------------
(* REKEY: unwrap the key with the old passphrase, wrap it with a new one.  *)

\* The new header is built from nothing: of the old one it takes over the
\* key and the chunk size, not OBJCOMP.
Rekey(p, n) ==
    BeginCommand(p, "rekey", [format |-> [key |-> header.format.key, framed |-> FALSE],
                              pass |-> n, refs |-> {}])

RekeyStartPlain(p) ==        \* mutant: CIPHER 0 is not refused
    /\ header.there /\ InitFirst => None("init")
    /\ \E n \in Pass : Rekey(p, n)
    /\ UNCHANGED drawn

RekeyStart(p) ==
    /\ header.there /\ header.format.key # NoKey
    /\ InitFirst => None("init")
    /\ [cipher |-> TRUE, framed |-> header.format.framed] \in Rekeyed
    /\ \E t, n \in Pass : t = header.pass /\ Rekey(p, n)
    /\ UNCHANGED drawn

RekeyFresh(p) ==             \* mutant: the key is drawn anew
    /\ At(p, "rekey")
    /\ \E k \in Key \ drawn :
          header' = [there |-> TRUE, pass |-> mem[p].pass,
                     format |-> [key |-> k, framed |-> FALSE]]
    /\ End(p)
    /\ UNCHANGED <<objects, manifests, drawn>>

RekeyPut(p) ==
    /\ At(p, "rekey")
    /\ WriteHeader(p)
    /\ End(p)
    /\ UNCHANGED <<objects, manifests, drawn>>

\* A failure, a break, or a crash, at any point.  (A put of the header or of
\* the manifest that takes effect and reports failure is InitPut, RekeyPut
\* or CommitManifest; a wrong passphrase ends a command before it begins.)
Fail(p) ==
    /\ ~At(p, "idle")
    /\ End(p)
    /\ UNCHANGED <<repoVars, drawn>>

FormatNext ==
    \E p \in Proc :
        \/ InitStart(p) \/ InitPut(p)
        \/ OpenRepo(p) \/ WriteObject(p) \/ PutFails(p) \/ ReuseEntry(p) \/ CommitManifest(p)
        \/ RekeyStart(p) \/ RekeyPut(p)
        \/ Fail(p)

FormatSpec == FormatInit /\ [][FormatNext]_formatVars

-----------------------------------------------------------------------------
(* Properties.                                                             *)

\* Every variable keeps its type; only an encrypted repository is rekeyed.
FormatTypeOK ==
    /\ header \in Header
    /\ objects \subseteq Stored
    /\ manifests \subseteq Manifest
    /\ drawn \subseteq Key
    /\ pc \in [Proc -> {"idle", "init", "snap", "rekey"}]
    /\ mem \in [Proc -> Memory]
    /\ header.format.key = NoKey <=> header.pass = NoPass
    /\ \A p \in Proc :
          /\ pc[p] \in {"init", "rekey"} =>
                (mem[p].format.key = NoKey <=> mem[p].pass = NoPass)
          /\ At(p, "rekey") => mem[p].format.key # NoKey

\* A manifest opens, and an object decodes, with the format of the header.
Opens(m) == m.key = header.format.key
Decodes(o) == [hash |-> o, format |-> header.format] \in objects

\* cmd_rekey "every already-written object/manifest stays exactly as it is",
\* "every existing snapshot stays readable": with the header as it is now,
\* every snapshot ever committed can be read.
Readable == \A m \in manifests : Opens(m) /\ \A o \in m.refs : Decodes(o)

\* format.md OBJCOMP "Fixed at init", "the 32-byte repository key ... never
\* changes": from the first snapshot on the format is the same for ever.
FormatIsFixed ==
    [][manifests # {} => header'.format = header.format]_formatVars

\* open_repo_key "never a silent fall-through to unencrypted access": what
\* is added to an encrypted repository is encrypted, with its key.
NothingInTheClear ==
    [][header.format.key # NoKey =>
          /\ \A x \in objects' \ objects : x.format.key = header.format.key
          /\ \A m \in manifests' \ manifests : m.key = header.format.key]_formatVars

\* What makes Readable inductive when INIT comes first and framed encrypted
\* repositories are not rekeyed: everything written, and everything a
\* running command is about to write, has the format of the header.
FormatInv ==
    /\ \A x \in objects : x.format = header.format
    /\ Readable
    /\ \A p \in Proc :
          /\ At(p, "snap") =>
                /\ mem[p].format = header.format
                /\ \A o \in mem[p].refs : Decodes(o)
          /\ At(p, "rekey") => header.there /\ mem[p].format = header.format
          /\ At(p, "init") =>
                objects = {} /\ manifests = {} /\ None("snap") /\ None("rekey")
=============================================================================
