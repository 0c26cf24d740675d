-------------------------- MODULE RepoFormatProofs --------------------------
(***************************************************************************)
(* The encoding of a repository, for every number of processes, objects,   *)
(* keys and passphrases: types; and, when INIT comes first and only        *)
(* repositories that are not framed are rekeyed, that every snapshot stays *)
(* readable, that the format is fixed once there is one, and that nothing  *)
(* is written in the clear into an encrypted repository.                   *)
(*                                                                         *)
(* And the hashes, HMAC and the derivation of keys it rests on, for every  *)
(* block, every input and every way it is cut into updates: what comes out *)
(* is what the standards define of the whole (Digests), and inputs, keys,  *)
(* salts and iterations that differ give digests and derived keys that     *)
(* differ.  A context stands for all it was fed (Holds, BlakeHolds): how   *)
(* many blocks went in, and what waits.  Compressions nest, so that what   *)
(* was put in is told from what came out (OverInjective), and the links of *)
(* a derivation never come back (LinksDiffer).                             *)
(*                                                                         *)
(* The two modules share no variable.                                      *)
(***************************************************************************)
EXTENDS RepoFormat, Digests, WellFoundedInduction, TLAPS

DocumentedUse == InitFirst /\ Rekeyed \subseteq {[cipher |-> TRUE, framed |-> FALSE]}

-----------------------------------------------------------------------------
(* Types.                                                                  *)

\* A repository that was never used is well typed.
LEMMA InitType == FormatInit => FormatTypeOK
BY KeyAssumption DEF FormatInit, FormatTypeOK, NoHeader, Header, Plain, Format, Nothing, Memory, At

\* A command that begins with a well typed memory keeps the types.
LEMMA BeginType ==
    ASSUME FormatTypeOK, NEW p \in Proc, NEW s \in {"init", "snap", "rekey"},
           NEW m \in Memory, BeginCommand(p, s, m), drawn' \subseteq Key,
           s # "snap" => (m.format.key = NoKey <=> m.pass = NoPass),
           s = "rekey" => m.format.key # NoKey
    PROVE  FormatTypeOK'
<1>1. pc' \in [Proc -> {"idle", "init", "snap", "rekey"}] /\ mem' \in [Proc -> Memory]
  BY DEF FormatTypeOK, BeginCommand
<1>2. UNCHANGED <<header, objects, manifests>>
  BY DEF BeginCommand, repoVars
<1>3. ASSUME NEW q \in Proc
      PROVE  /\ pc'[q] \in {"init", "rekey"} =>
                   (mem'[q].format.key = NoKey <=> mem'[q].pass = NoPass)
             /\ At(q, "rekey")' => mem'[q].format.key # NoKey
  BY DEF FormatTypeOK, BeginCommand, At
<1> QED  BY <1>1, <1>2, <1>3 DEF FormatTypeOK

\* A command that ends with a well typed header keeps the types.
LEMMA EndType ==
    ASSUME FormatTypeOK, NEW p \in Proc, End(p), header' \in Header,
           header'.format.key = NoKey <=> header'.pass = NoPass,
           objects' \subseteq Stored, manifests' \subseteq Manifest, drawn' \subseteq Key
    PROVE  FormatTypeOK'
<1>1. Nothing \in Memory
  BY DEF Nothing, Memory, Plain, Format
<1>2. pc' \in [Proc -> {"idle", "init", "snap", "rekey"}] /\ mem' \in [Proc -> Memory]
  BY <1>1 DEF FormatTypeOK, End
<1>3. ASSUME NEW q \in Proc
      PROVE  /\ pc'[q] \in {"init", "rekey"} =>
                   (mem'[q].format.key = NoKey <=> mem'[q].pass = NoPass)
             /\ At(q, "rekey")' => mem'[q].format.key # NoKey
  BY DEF FormatTypeOK, End, At
<1> QED  BY <1>2, <1>3 DEF FormatTypeOK

\* A put keeps what is there and adds at most the object, in the format given.
LEMMA PutFacts ==
    ASSUME FormatTypeOK, NEW o \in Object, NEW f \in Format, Put(o, f)
    PROVE  /\ objects' \subseteq Stored
           /\ objects \subseteq objects'
           /\ \A x \in objects' \ objects : x.format = f
           /\ \E x \in objects' : x.hash = o
<1>1. CASE Present(o)
  BY <1>1 DEF FormatTypeOK, Put, Present
<1>2. CASE ~Present(o)
  <2> DEFINE x == [hash |-> o, format |-> f]
  <2>1. x \in Stored /\ x.hash = o /\ x.format = f
    BY DEF Stored
  <2>2. objects' = objects \cup {x}
    BY <1>2 DEF Put
  <2> HIDE DEF x
  <2> QED  BY <2>1, <2>2 DEF FormatTypeOK
<1> QED  BY <1>1, <1>2

\* A step that only collects references.
LEMMA CollectType ==
    ASSUME FormatTypeOK, NEW p \in Proc, NEW r \in SUBSET Object,
           mem' = [mem EXCEPT ![p].refs = @ \cup r],
           UNCHANGED <<header, manifests, drawn, pc>>, objects' \subseteq Stored
    PROVE  /\ FormatTypeOK'
           /\ \A q \in Proc : mem'[q].format = mem[q].format /\ mem'[q].pass = mem[q].pass
           /\ mem'[p].refs = mem[p].refs \cup r
           /\ \A q \in Proc : q # p => mem'[q] = mem[q]
<1>1. mem \in [Proc -> Memory]
  BY DEF FormatTypeOK
<1>2. /\ mem' \in [Proc -> Memory]
      /\ \A q \in Proc : mem'[q].format = mem[q].format /\ mem'[q].pass = mem[q].pass
      /\ mem'[p].refs = mem[p].refs \cup r
      /\ \A q \in Proc : q # p => mem'[q] = mem[q]
  BY <1>1 DEF Memory
<1> QED  BY <1>2 DEF FormatTypeOK, At

\* What the commands are given has its type.
LEMMA InitMemory ==
    ASSUME NEW f \in InitFormats, NEW w \in Pass,
           NEW k \in IF f.cipher THEN Key \ drawn ELSE {NoKey}, FormatTypeOK
    PROVE  LET m == [format |-> [key |-> k, framed |-> f.framed],
                     pass |-> IF f.cipher THEN w ELSE NoPass, refs |-> {}]
           IN  m \in Memory /\ (m.format.key = NoKey <=> m.pass = NoPass)
<1>1. f \in [cipher : BOOLEAN, framed : BOOLEAN]
  BY InitAssumption
<1> QED  BY <1>1, KeyAssumption DEF Memory, Format

\* Every variable keeps its type (FormatTypeOK), and cmd_rekey only ever works on an
\* encrypted repository, with no assumption on how INIT and REKEY are used.
THEOREM TypeCorrect == FormatSpec => []FormatTypeOK
<1>1. FormatInit => FormatTypeOK
  BY InitType
<1>2. FormatTypeOK /\ [FormatNext]_formatVars => FormatTypeOK'
  <2> SUFFICES ASSUME FormatTypeOK, [FormatNext]_formatVars PROVE FormatTypeOK'
    OBVIOUS
  <2>1. CASE UNCHANGED formatVars
    BY <2>1 DEF formatVars, repoVars, FormatTypeOK, At
  <2>2. ASSUME NEW p \in Proc, InitStart(p) PROVE FormatTypeOK'
    <3>1. PICK f \in InitFormats, w \in Pass :
            \E k \in IF f.cipher THEN Key \ drawn ELSE {NoKey} :
               /\ drawn' = drawn \cup ({k} \ {NoKey})
               /\ BeginCommand(p, "init", [format |-> [key |-> k, framed |-> f.framed],
                      pass |-> IF f.cipher THEN w ELSE NoPass, refs |-> {}])
      BY <2>2 DEF InitStart
    <3>2. PICK k \in IF f.cipher THEN Key \ drawn ELSE {NoKey} :
               /\ drawn' = drawn \cup ({k} \ {NoKey})
               /\ BeginCommand(p, "init", [format |-> [key |-> k, framed |-> f.framed],
                      pass |-> IF f.cipher THEN w ELSE NoPass, refs |-> {}])
      BY <3>1
    <3>3. drawn' \subseteq Key
      BY <3>2 DEF FormatTypeOK
    <3> QED  BY <3>2, <3>3, InitMemory, BeginType
  <2>3. ASSUME NEW p \in Proc, InitPut(p) \/ RekeyPut(p) PROVE FormatTypeOK'
    <3>1. /\ mem[p].format \in Format /\ mem[p].pass \in Pass \cup {NoPass}
          /\ mem[p].format.key = NoKey <=> mem[p].pass = NoPass
      BY <2>3 DEF InitPut, RekeyPut, FormatTypeOK, Memory, At
    <3>2. header' = [there |-> TRUE, format |-> mem[p].format, pass |-> mem[p].pass]
      BY <2>3 DEF InitPut, RekeyPut, WriteHeader
    <3>3. header' \in Header
      BY <3>1, <3>2 DEF Header
    <3>4. header'.format = mem[p].format /\ header'.pass = mem[p].pass
      BY <3>2
    <3>5. header'.format.key = NoKey <=> header'.pass = NoPass
      BY <3>1, <3>4
    <3> QED  BY <2>3, <3>3, <3>5, EndType DEF InitPut, RekeyPut, FormatTypeOK
  <2>4. ASSUME NEW p \in Proc, OpenRepo(p) PROVE FormatTypeOK'
    <3>1. [format |-> header.format, pass |-> NoPass, refs |-> {}] \in Memory
      BY DEF FormatTypeOK, Header, Memory
    <3> QED  BY <2>4, <3>1, BeginType DEF OpenRepo, FormatTypeOK
  <2>5. ASSUME NEW p \in Proc, WriteObject(p) PROVE FormatTypeOK'
    <3>1. PICK o \in Object : Put(o, mem[p].format)
                              /\ mem' = [mem EXCEPT ![p].refs = @ \cup {o}]
      BY <2>5 DEF WriteObject
    <3>2. mem[p].format \in Format
      BY DEF FormatTypeOK, Memory
    <3>3. objects' \subseteq Stored
      BY <3>1, <3>2, PutFacts
    <3>4. {o} \in SUBSET Object /\ UNCHANGED <<header, manifests, drawn, pc>>
      BY <2>5 DEF WriteObject
    <3> QED  BY <3>1, <3>3, <3>4, CollectType
  <2>6. ASSUME NEW p \in Proc, PutFails(p) PROVE FormatTypeOK'
    <3>1. mem[p].format \in Format
      BY DEF FormatTypeOK, Memory
    <3>2. objects' \subseteq Stored
      BY <2>6, <3>1, PutFacts DEF PutFails
    <3> QED  BY <2>6, <3>2 DEF PutFails, FormatTypeOK, At
  <2>7. ASSUME NEW p \in Proc, ReuseEntry(p) PROVE FormatTypeOK'
    <3>1. PICK m \in manifests : \E r \in SUBSET m.refs :
                                    mem' = [mem EXCEPT ![p].refs = @ \cup r]
      BY <2>7 DEF ReuseEntry
    <3>2. m.refs \subseteq Object
      BY DEF FormatTypeOK, Manifest
    <3> QED  BY <2>7, <3>1, <3>2, CollectType DEF ReuseEntry, repoVars, FormatTypeOK
  <2>8. ASSUME NEW p \in Proc, CommitManifest(p) PROVE FormatTypeOK'
    <3>1. [key |-> mem[p].format.key, refs |-> mem[p].refs] \in Manifest
      BY DEF FormatTypeOK, Memory, Format, Manifest
    <3> QED  BY <2>8, <3>1, EndType DEF CommitManifest, FormatTypeOK
  <2>9. ASSUME NEW p \in Proc, RekeyStart(p) PROVE FormatTypeOK'
    <3>1. PICK n \in Pass : Rekey(p, n)
      BY <2>9 DEF RekeyStart
    <3> DEFINE m == [format |-> [key |-> header.format.key, framed |-> FALSE],
                     pass |-> n, refs |-> {}]
    <3>2. m \in Memory /\ m.format.key # NoKey /\ m.pass # NoPass
      BY <2>9, KeyAssumption DEF RekeyStart, FormatTypeOK, Header, Memory, Format
    <3>3. BeginCommand(p, "rekey", m)
      BY <3>1 DEF Rekey
    <3> HIDE DEF m
    <3> QED  BY <2>9, <3>2, <3>3, BeginType DEF RekeyStart, FormatTypeOK
  <2>10. ASSUME NEW p \in Proc, Fail(p) PROVE FormatTypeOK'
    BY <2>10, EndType DEF Fail, repoVars, FormatTypeOK
  <2> QED  BY <2>1, <2>2, <2>3, <2>4, <2>5, <2>6, <2>7, <2>8, <2>9, <2>10 DEF FormatNext
<1> QED  BY <1>1, <1>2, PTL DEF FormatSpec

-----------------------------------------------------------------------------
(* The format.                                                             *)

\* What one process knows, as FormatInv says it.
ProcFormat(p) ==
    /\ At(p, "snap") =>
          mem[p].format = header.format /\ \A o \in mem[p].refs : Decodes(o)
    /\ At(p, "rekey") => header.there /\ mem[p].format = header.format
    /\ At(p, "init") => objects = {} /\ manifests = {} /\ None("snap") /\ None("rekey")

\* FormatInv, split into what it says of the repository and of each process.
LEMMA FormatInvParts ==
    FormatInv <=> /\ \A x \in objects : x.format = header.format
                  /\ Readable
                  /\ \A p \in Proc : ProcFormat(p)
BY DEF FormatInv, ProcFormat

\* FormatInv holds in a repository that was never used.
LEMMA InitFormat == FormatInit => FormatInv
BY DEF FormatInit, FormatInv, Readable, At

\* An object that is there with the format of the header decodes.
LEMMA StoredDecodes ==
    ASSUME NEW x \in Stored, x.format = header.format, x \in objects
    PROVE  Decodes(x.hash)
<1>1. x = [hash |-> x.hash, format |-> x.format]
  BY DEF Stored
<1> QED  BY <1>1 DEF Decodes

\* Without a new header, and with objects that only grow, in the format of
\* the header, it is enough to look at the process that moved.
LEMMA OneMoves ==
    ASSUME FormatInv, NEW p \in Proc,
           header'.format = header.format, header.there => header'.there,
           objects \subseteq objects',
           \A x \in objects' \ objects : x.format = header.format,
           \A m \in manifests' \ manifests :
               m.key = header.format.key /\ \A o \in m.refs : Decodes(o),
           \A q \in Proc : q # p => pc'[q] = pc[q] /\ mem'[q] = mem[q],
           \A q \in Proc : q # p /\ At(q, "init") =>
               objects' = {} /\ manifests' = {} /\ None("snap")' /\ None("rekey")',
           ProcFormat(p)'
    PROVE  FormatInv'
<1>1. \A o : Decodes(o) => Decodes(o)'
  BY DEF Decodes
<1>2. \A x \in objects' : x.format = header'.format
  BY DEF FormatInv
<1>3. Readable'
  BY <1>1 DEF FormatInv, Readable, Opens
<1>4. ASSUME NEW q \in Proc, q # p PROVE ProcFormat(q)'
  BY <1>1, <1>4 DEF FormatInv, ProcFormat, At
<1>5. \A q \in Proc : ProcFormat(q)'
  BY <1>4
<1> QED  BY <1>2, <1>3, <1>5 DEF FormatInv, ProcFormat

\* Every step keeps the format, and writes in it.
LEMMA FormatStep ==
    ASSUME DocumentedUse, FormatTypeOK, FormatInv, [FormatNext]_formatVars
    PROVE  /\ FormatInv'
           /\ manifests # {} => header'.format = header.format
           /\ \A x \in objects' \ objects : x.format = header.format
           /\ \A m \in manifests' \ manifests : m.key = header.format.key
<1> DEFINE Goal == /\ FormatInv'
                   /\ manifests # {} => header'.format = header.format
                   /\ \A x \in objects' \ objects : x.format = header.format
                   /\ \A m \in manifests' \ manifests : m.key = header.format.key
<1> SUFFICES Goal
  OBVIOUS
<1>1. CASE UNCHANGED formatVars
  BY <1>1 DEF formatVars, repoVars, FormatInv, Readable, Opens, Decodes, At, None
<1>2. ASSUME NEW p \in Proc, InitStart(p) PROVE Goal
  <2>1. /\ objects = {} /\ manifests = {} /\ None("snap") /\ ~header.there
        /\ UNCHANGED repoVars
    BY <1>2 DEF InitStart, DocumentedUse, BeginCommand
  <2>2. /\ At(p, "idle") /\ pc' = [pc EXCEPT ![p] = "init"]
        /\ \A q \in Proc : q # p => mem'[q] = mem[q]
    BY <1>2 DEF InitStart, BeginCommand, FormatTypeOK
  <2>3. None("rekey")
    BY <2>1 DEF None, At, FormatInv
  <2>4. None("snap")' /\ None("rekey")'
    BY <2>1, <2>2, <2>3 DEF None, At, FormatTypeOK
  <2>5. pc'[p] = "init" /\ \A q \in Proc : q # p => pc'[q] = pc[q]
    BY <2>2 DEF FormatTypeOK
  <2>6. ProcFormat(p)'
    BY <2>1, <2>4, <2>5 DEF ProcFormat, At, repoVars
  <2> QED  BY <2>1, <2>2, <2>4, <2>5, <2>6, OneMoves DEF repoVars
<1>3. ASSUME NEW p \in Proc, InitPut(p) PROVE Goal
  <2>1. /\ objects = {} /\ manifests = {} /\ None("snap") /\ None("rekey")
        /\ UNCHANGED <<objects, manifests>>
    BY <1>3 DEF InitPut, FormatInv
  <2>2. None("snap")' /\ None("rekey")'
    BY <1>3, <2>1 DEF InitPut, End, None, At, FormatTypeOK
  <2>3. FormatInv'
    BY <2>1, <2>2 DEF FormatInv, Readable, None, At
  <2> QED  BY <2>1, <2>3
<1>4. ASSUME NEW p \in Proc, OpenRepo(p) PROVE Goal
  <2>1. /\ UNCHANGED repoVars /\ None("init")
        /\ pc' = [pc EXCEPT ![p] = "snap"]
        /\ mem' = [mem EXCEPT ![p] =
                      [format |-> header.format, pass |-> NoPass, refs |-> {}]]
    BY <1>4 DEF OpenRepo, BeginCommand, DocumentedUse
  <2>2. /\ pc'[p] = "snap" /\ mem'[p].format = header.format /\ mem'[p].refs = {}
        /\ \A q \in Proc : q # p => pc'[q] = pc[q] /\ mem'[q] = mem[q]
    BY <2>1 DEF FormatTypeOK
  <2>3. ProcFormat(p)'
    BY <2>1, <2>2 DEF ProcFormat, At, repoVars
  <2> QED  BY <2>1, <2>2, <2>3, OneMoves DEF repoVars, None, At
<1>5. ASSUME NEW p \in Proc, WriteObject(p) PROVE Goal
  <2>1. At(p, "snap") /\ UNCHANGED <<header, manifests, drawn, pc>>
    BY <1>5 DEF WriteObject
  <2>2. PICK o \in Object : Put(o, mem[p].format)
                            /\ mem' = [mem EXCEPT ![p].refs = @ \cup {o}]
    BY <1>5 DEF WriteObject
  <2>3. mem[p].format \in Format /\ mem[p].format = header.format
    BY <2>1 DEF FormatTypeOK, Memory, FormatInv
  <2>4. /\ objects' \subseteq Stored /\ objects \subseteq objects'
        /\ \A x \in objects' \ objects : x.format = header.format
        /\ \E x \in objects' : x.hash = o
    BY <2>2, <2>3, PutFacts
  <2>5. {o} \in SUBSET Object
    OBVIOUS
  <2>6. /\ \A q \in Proc : mem'[q].format = mem[q].format
        /\ mem'[p].refs = mem[p].refs \cup {o}
        /\ \A q \in Proc : q # p => mem'[q] = mem[q]
    BY <2>1, <2>2, <2>4, <2>5, CollectType
  <2>7. Decodes(o)'
    <3>1. PICK x \in objects' : x.hash = o
      BY <2>4
    <3>2. x \in Stored /\ x.format = header.format
      BY <2>4 DEF FormatInv
    <3>3. x = [hash |-> x.hash, format |-> x.format]
      BY <3>2 DEF Stored
    <3> QED  BY <2>1, <3>1, <3>2, <3>3 DEF Decodes
  <2>8. \A n : Decodes(n) => Decodes(n)'
    BY <2>1, <2>4 DEF Decodes
  <2>9. ProcFormat(p)'
    BY <2>1, <2>3, <2>6, <2>7, <2>8 DEF ProcFormat, FormatInv, At
  <2>10. None("init")
    BY <2>1 DEF None, FormatInv, At
  <2> QED  BY <2>1, <2>4, <2>6, <2>9, <2>10, OneMoves DEF None, At
<1>6. ASSUME NEW p \in Proc, PutFails(p) PROVE Goal
  <2>1. At(p, "snap") /\ UNCHANGED <<header, manifests, drawn, pc, mem>>
    BY <1>6 DEF PutFails
  <2>2. mem[p].format \in Format /\ mem[p].format = header.format
    BY <2>1 DEF FormatTypeOK, Memory, FormatInv
  <2>3. /\ objects \subseteq objects'
        /\ \A x \in objects' \ objects : x.format = header.format
    BY <1>6, <2>2, PutFacts DEF PutFails
  <2>4. \A n : Decodes(n) => Decodes(n)'
    BY <2>1, <2>3 DEF Decodes
  <2>5. ProcFormat(p)'
    BY <2>1, <2>4 DEF ProcFormat, FormatInv, At
  <2>6. None("init")
    BY <2>1 DEF None, FormatInv, At
  <2> QED  BY <2>1, <2>3, <2>5, <2>6, OneMoves DEF None, At
<1>7. ASSUME NEW p \in Proc, ReuseEntry(p) PROVE Goal
  <2>1. At(p, "snap") /\ UNCHANGED <<header, objects, manifests, drawn, pc>>
    BY <1>7 DEF ReuseEntry, repoVars
  <2>2. PICK m \in manifests : \E r \in SUBSET m.refs :
                                  mem' = [mem EXCEPT ![p].refs = @ \cup r]
    BY <1>7 DEF ReuseEntry
  <2>3. PICK r \in SUBSET m.refs : mem' = [mem EXCEPT ![p].refs = @ \cup r]
    BY <2>2
  <2>4. r \in SUBSET Object /\ \A o \in r : Decodes(o)
    BY DEF FormatTypeOK, Manifest, FormatInv, Readable
  <2>5. /\ \A q \in Proc : mem'[q].format = mem[q].format
        /\ mem'[p].refs = mem[p].refs \cup r
        /\ \A q \in Proc : q # p => mem'[q] = mem[q]
    BY <2>1, <2>3, <2>4, CollectType DEF FormatTypeOK
  <2>6. ProcFormat(p)'
    BY <2>1, <2>4, <2>5 DEF ProcFormat, FormatInv, At, Decodes
  <2>7. None("init")
    BY <2>1 DEF None, FormatInv, At
  <2> QED  BY <2>1, <2>5, <2>6, <2>7, OneMoves DEF None, At
<1>8. ASSUME NEW p \in Proc, CommitManifest(p) PROVE Goal
  <2>1. /\ At(p, "snap") /\ UNCHANGED <<header, objects>>
        /\ manifests' = manifests \cup
              {[key |-> mem[p].format.key, refs |-> mem[p].refs]}
        /\ End(p)
    BY <1>8 DEF CommitManifest
  <2>2. \A m \in manifests' \ manifests :
           m.key = header.format.key /\ \A o \in m.refs : Decodes(o)
    BY <2>1 DEF FormatInv
  <2>3. pc'[p] = "idle" /\ \A q \in Proc : q # p => pc'[q] = pc[q] /\ mem'[q] = mem[q]
    BY <2>1 DEF End, FormatTypeOK
  <2>4. ProcFormat(p)'
    BY <2>3 DEF ProcFormat, At
  <2>5. None("init")
    BY <2>1 DEF None, FormatInv, At
  <2> QED  BY <2>1, <2>2, <2>3, <2>4, <2>5, OneMoves DEF None, At
<1>9. ASSUME NEW p \in Proc, RekeyStart(p) PROVE Goal
  <2>1. /\ header.there /\ None("init") /\ UNCHANGED repoVars
        /\ header.format.framed = FALSE
    <3>1. [cipher |-> TRUE, framed |-> header.format.framed]
             = [cipher |-> TRUE, framed |-> FALSE]
      BY <1>9 DEF RekeyStart, DocumentedUse
    <3> QED  BY <1>9, <3>1 DEF RekeyStart, DocumentedUse, Rekey, BeginCommand
  <2>2. PICK n \in Pass : Rekey(p, n)
    BY <1>9 DEF RekeyStart
  <2>3. header.format = [key |-> header.format.key, framed |-> FALSE]
    BY <2>1 DEF FormatTypeOK, Header, Format
  <2>4. /\ pc' = [pc EXCEPT ![p] = "rekey"]
        /\ mem' = [mem EXCEPT ![p] =
                      [format |-> header.format, pass |-> n, refs |-> {}]]
    BY <2>2, <2>3 DEF Rekey, BeginCommand
  <2>5. /\ pc'[p] = "rekey" /\ mem'[p].format = header.format
        /\ \A q \in Proc : q # p => pc'[q] = pc[q] /\ mem'[q] = mem[q]
    BY <2>4 DEF FormatTypeOK
  <2>6. ProcFormat(p)'
    BY <2>1, <2>5 DEF ProcFormat, At, repoVars
  <2> QED  BY <2>1, <2>5, <2>6, OneMoves DEF repoVars, None, At
<1>10. ASSUME NEW p \in Proc, RekeyPut(p) PROVE Goal
  <2>1. /\ At(p, "rekey") /\ UNCHANGED <<objects, manifests>> /\ End(p)
        /\ header' = [there |-> TRUE, format |-> mem[p].format, pass |-> mem[p].pass]
    BY <1>10 DEF RekeyPut, WriteHeader
  <2>2. header'.format = header.format /\ header'.there
    BY <2>1 DEF FormatInv
  <2>3. pc'[p] = "idle" /\ \A q \in Proc : q # p => pc'[q] = pc[q] /\ mem'[q] = mem[q]
    BY <2>1 DEF End, FormatTypeOK
  <2>4. ProcFormat(p)'
    BY <2>3 DEF ProcFormat, At
  <2>5. None("init")
    BY <2>1 DEF None, FormatInv, At
  <2> QED  BY <2>1, <2>2, <2>3, <2>4, <2>5, OneMoves DEF None, At
<1>11. ASSUME NEW p \in Proc, Fail(p) PROVE Goal
  <2>1. UNCHANGED repoVars /\ End(p)
    BY <1>11 DEF Fail
  <2>2. pc' = [pc EXCEPT ![p] = "idle"]
        /\ \A q \in Proc : q # p => mem'[q] = mem[q]
    BY <2>1 DEF End, FormatTypeOK
  <2>3. pc'[p] = "idle" /\ \A q \in Proc : q # p => pc'[q] = pc[q]
    BY <2>2 DEF FormatTypeOK
  <2>4. ProcFormat(p)'
    BY <2>3 DEF ProcFormat, At
  <2>5. \A q \in Proc : At(q, "init") =>
           objects = {} /\ manifests = {} /\ None("snap")' /\ None("rekey")'
    BY <2>3 DEF FormatInv, None, At
  <2> QED  BY <2>1, <2>2, <2>3, <2>4, <2>5, OneMoves DEF repoVars
<1> QED  BY <1>1, <1>2, <1>3, <1>4, <1>5, <1>6, <1>7, <1>8, <1>9, <1>10, <1>11 DEF FormatNext

\* If INIT comes first and only unframed encrypted repositories are rekeyed,
\* then in every reachable state each committed snapshot can be opened with
\* the header as it is and each of its objects decodes: cmd_rekey() "every
\* existing snapshot stays readable".
THEOREM SnapshotsStayReadable ==
    ASSUME DocumentedUse PROVE FormatSpec => []Readable
<1>1. FormatTypeOK /\ FormatInv /\ [FormatNext]_formatVars => FormatInv'
  BY FormatStep
<1>2. FormatInv => Readable
  BY DEF FormatInv
<1> QED  BY <1>1, <1>2, InitFormat, TypeCorrect, PTL DEF FormatSpec

\* Under the same assumption no step of INIT, SNAPSHOT or REKEY changes the
\* format in the header of a repository that has a snapshot: format.md
\* OBJCOMP "Fixed at init".
THEOREM FormatNeverChanges ==
    ASSUME DocumentedUse PROVE FormatSpec => FormatIsFixed
<1>1. FormatTypeOK /\ FormatInv /\ [FormatNext]_formatVars => FormatInv'
  BY FormatStep
<1>2. FormatTypeOK /\ FormatInv /\ [FormatNext]_formatVars =>
         [manifests # {} => header'.format = header.format]_formatVars
  BY FormatStep
<1> QED  BY <1>1, <1>2, InitFormat, TypeCorrect, PTL DEF FormatSpec, FormatIsFixed

\* Under the same assumption every object and manifest that a step adds to an
\* encrypted repository is encrypted with the key in its header:
\* open_repo_key() "never a silent fall-through to unencrypted access".
THEOREM EncryptedStaysEncrypted ==
    ASSUME DocumentedUse PROVE FormatSpec => NothingInTheClear
<1>1. FormatTypeOK /\ FormatInv /\ [FormatNext]_formatVars => FormatInv'
  BY FormatStep
<1>2. FormatTypeOK /\ FormatInv /\ [FormatNext]_formatVars =>
         [header.format.key # NoKey =>
             /\ \A x \in objects' \ objects : x.format.key = header.format.key
             /\ \A m \in manifests' \ manifests : m.key = header.format.key]_formatVars
  BY FormatStep
<1> QED  BY <1>1, <1>2, InitFormat, TypeCorrect, PTL DEF FormatSpec, NothingInTheClear

\* Induction: a set that has 0 and is closed under successor has every number.
LEMMA SetInduction ==
    ASSUME NEW S, 0 \in S, \A n \in Nat : n \in S => n + 1 \in S
    PROVE  Nat \subseteq S
<1> DEFINE R == OpToRel(<, Nat)
           T == Nat \ S
<1>1. SUFFICES ASSUME T # {} PROVE FALSE
  OBVIOUS
<1>2. PICK x \in T : \A y \in T : <<y, x>> \notin R
  <2>1. IsWellFoundedOn(R, Nat) /\ T \subseteq Nat
    BY NatLessThanWellFounded
  <2> HIDE DEF R, T
  <2> QED  BY <1>1, <2>1, WFMin
<1>3. x \in Nat /\ x - 1 \in Nat /\ x - 1 < x /\ x = (x - 1) + 1
  <2>1. x \in Nat /\ x \notin S
    OBVIOUS
  <2>2. x # 0
    BY <2>1
  <2> HIDE DEF R, T
  <2> QED  BY ONLY <2>1, <2>2
<1>4. <<x - 1, x>> \in R
  <2> DEFINE y == x - 1
  <2>1. y \in Nat /\ x \in Nat /\ y < x
    BY <1>3
  <2> HIDE DEF y
  <2>2. <<y, x>> \in Nat \X Nat /\ <<y, x>>[1] < <<y, x>>[2]
    BY <2>1
  <2>3. <<y, x>> \in {ss \in Nat \X Nat : ss[1] < ss[2]}
    BY <2>2
  <2>4. <<y, x>> \in R
    BY <2>3, Zenon DEF OpToRel
  <2> QED  BY <2>4 DEF y
<1>5. x - 1 \in S
  BY <1>2, <1>3, <1>4
<1> QED  BY <1>2, <1>3, <1>5

-----------------------------------------------------------------------------
(* Compressions, one over the other.                                       *)

IsOver(f, h, xs) ==
    f = [i \in 0 .. Len(xs) |-> IF i = 0 THEN h ELSE Compress(f[i - 1], xs[i])]

\* The function that Over chooses: one value for every compression done.
LEMMA OverIs == \A h, xs : Over(h, xs) = (CHOOSE f : IsOver(f, h, xs))[Len(xs)]
BY Zenon DEF Over, IsOver

\* There is one, for every row of items.
LEMMA OverExists ==
    ASSUME NEW h, NEW xs, Len(xs) \in Nat
    PROVE  \E f : IsOver(f, h, xs)
<1> DEFINE Part(f, n) == f = [i \in 0 .. n |-> IF i = 0 THEN h ELSE Compress(f[i - 1], xs[i])]
           G == {n \in Nat : \E f : Part(f, n)}
<1>1. 0 \in G
  <2> DEFINE f == [i \in 0 .. 0 |-> h]
  <2>1. f = [i \in 0 .. 0 |-> IF i = 0 THEN h ELSE Compress(f[i - 1], xs[i])]
    OBVIOUS
  <2> HIDE DEF f
  <2>2. Part(f, 0)
    BY <2>1
  <2> QED  BY <2>2
<1>2. ASSUME NEW n \in Nat, n \in G PROVE n + 1 \in G
  <2>1. PICK g : Part(g, n)
    BY <1>2
  <2>2. \A i \in 0 .. n : g[i] = IF i = 0 THEN h ELSE Compress(g[i - 1], xs[i])
    BY <2>1
  <2> DEFINE f == [i \in 0 .. n + 1 |-> IF i = n + 1 THEN Compress(g[n], xs[i]) ELSE g[i]]
  <2>3. ASSUME NEW i \in 0 .. n + 1
        PROVE  f[i] = IF i = 0 THEN h ELSE Compress(f[i - 1], xs[i])
    <3>1. CASE i = n + 1
      <4>1. f[i - 1] = g[n] /\ i # 0
        BY <3>1
      <4> QED  BY <3>1, <4>1
    <3>2. CASE i # n + 1
      <4>1. i \in 0 .. n /\ f[i] = g[i] /\ (i # 0 => f[i - 1] = g[i - 1])
        BY <3>2
      <4> QED  BY <2>2, <4>1
    <3> QED  BY <3>1, <3>2
  <2>4. f = [i \in 0 .. n + 1 |-> IF i = 0 THEN h ELSE Compress(f[i - 1], xs[i])]
    <3> DEFINE e == [i \in 0 .. n + 1 |-> IF i = 0 THEN h ELSE Compress(f[i - 1], xs[i])]
    <3>1. f = e
      BY <2>3
    <3> QED  BY <3>1
  <2> HIDE DEF f
  <2>5. Part(f, n + 1)
    BY <2>4
  <2> QED  BY <2>5
<1>3. Nat \subseteq G
  <2> HIDE DEF G
  <2> QED  BY <1>1, <1>2, SetInduction
<1>4. PICK f : Part(f, Len(xs))
  BY <1>3
<1> QED  BY <1>4 DEF IsOver

\* The values on the way.
Steps(f, h, xs, n) == f[0] = h /\ \A i \in 1 .. n : f[i] = <<f[i - 1], xs[i]>>

\* Its steps, one compression each.
LEMMA OverSteps ==
    ASSUME NEW h, NEW xs, Len(xs) \in Nat
    PROVE  \E f : Steps(f, h, xs, Len(xs)) /\ Over(h, xs) = f[Len(xs)]
<1> DEFINE n == Len(xs)
<1> DEFINE f == CHOOSE g : IsOver(g, h, xs)
<1>1. IsOver(f, h, xs)
  BY OverExists
<1>2. Over(h, xs) = f[n]
  BY OverIs
<1> HIDE DEF f
<1>3. f = [i \in 0 .. n |-> IF i = 0 THEN h ELSE Compress(f[i - 1], xs[i])]
  BY <1>1, Zenon DEF IsOver
<1>4. \A i \in 0 .. n : f[i] = IF i = 0 THEN h ELSE Compress(f[i - 1], xs[i])
  BY <1>3, Zenon
<1>5. 0 \in 0 .. n /\ \A i \in 1 .. n : i # 0 /\ i \in 0 .. n
  OBVIOUS
<1>6. f[0] = h
  BY <1>4, <1>5, Zenon
<1>7. \A i \in 1 .. n : f[i] = <<f[i - 1], xs[i]>>
  BY <1>4, <1>5, Zenon DEF Compress
<1> QED  BY <1>2, <1>6, <1>7, Zenon DEF Steps

\* What is compressed in two goes, or in one.
LEMMA OverJoins ==
    ASSUME NEW h, NEW xs, NEW ys, NEW zs, NEW m \in Nat, NEW n \in Nat,
           Len(xs) = m, Len(ys) = n, Len(zs) = m + n,
           \A i \in 1 .. m : zs[i] = xs[i], \A i \in 1 .. n : zs[m + i] = ys[i]
    PROVE  Over(h, zs) = Over(Over(h, xs), ys)
<1>0. Len(xs) \in Nat /\ Len(ys) \in Nat /\ Len(zs) \in Nat
  OBVIOUS
<1>11. PICK f : Steps(f, h, xs, Len(xs)) /\ Over(h, xs) = f[Len(xs)]
  BY <1>0, OverSteps
<1>12. PICK g : Steps(g, f[m], ys, Len(ys)) /\ Over(f[m], ys) = g[Len(ys)]
  BY <1>0, OverSteps
<1>13. PICK e : Steps(e, h, zs, Len(zs)) /\ Over(h, zs) = e[Len(zs)]
  BY <1>0, OverSteps
<1>1. f[0] = h /\ Over(h, xs) = f[m] /\ \A i \in 1 .. m : f[i] = <<f[i - 1], xs[i]>>
  BY <1>11 DEF Steps
<1>2. g[0] = f[m] /\ Over(f[m], ys) = g[n] /\ \A i \in 1 .. n : g[i] = <<g[i - 1], ys[i]>>
  BY <1>12 DEF Steps
<1>3. e[0] = h /\ Over(h, zs) = e[m + n] /\ \A i \in 1 .. m + n : e[i] = <<e[i - 1], zs[i]>>
  BY <1>13 DEF Steps
<1> DEFINE G == {i \in Nat : i <= m => e[i] = f[i]}
           K == {i \in Nat : i <= n => e[m + i] = g[i]}
<1>4. Nat \subseteq G
  <2>1. 0 \in G
    BY <1>1, <1>3
  <2>2. ASSUME NEW i \in Nat, i \in G PROVE i + 1 \in G
    <3> SUFFICES ASSUME i + 1 <= m PROVE e[i + 1] = f[i + 1]
      OBVIOUS
    <3>1. i + 1 \in 1 .. m /\ i + 1 \in 1 .. m + n /\ (i + 1) - 1 = i /\ e[i] = f[i]
      BY <2>2
    <3>2. e[i + 1] = <<e[(i + 1) - 1], zs[i + 1]>> /\ f[i + 1] = <<f[(i + 1) - 1], xs[i + 1]>>
      BY <1>1, <1>3, <3>1
    <3>3. zs[i + 1] = xs[i + 1]
      BY <3>1
    <3>4. e[(i + 1) - 1] = e[i] /\ f[(i + 1) - 1] = f[i]
      BY <3>1
    <3> QED  BY ONLY <3>1, <3>2, <3>3, <3>4
  <2> HIDE DEF G
  <2> QED  BY <2>1, <2>2, SetInduction
<1>5. e[m] = f[m]
  BY <1>4
<1>6. Nat \subseteq K
  <2>1. 0 \in K
    BY <1>2, <1>5
  <2>2. ASSUME NEW i \in Nat, i \in K PROVE i + 1 \in K
    <3> SUFFICES ASSUME i + 1 <= n PROVE e[m + (i + 1)] = g[i + 1]
      OBVIOUS
    <3>1. i + 1 \in 1 .. n /\ m + (i + 1) \in 1 .. m + n /\ (i + 1) - 1 = i /\ (m + (i + 1)) - 1 = m + i
          /\ e[m + i] = g[i]
      BY <2>2
    <3>2. e[m + (i + 1)] = <<e[m + i], zs[m + (i + 1)]>>
      BY <3>1, <1>3
    <3>3. g[i + 1] = <<g[i], ys[i + 1]>>
      BY <3>1, <1>2
    <3> QED  BY <3>1, <3>2, <3>3
  <2> HIDE DEF K
  <2> QED  BY <2>1, <2>2, SetInduction
<1>7. e[m + n] = g[n]
  BY <1>6
<1> QED  BY <1>1, <1>2, <1>3, <1>7

\* Nothing put on top of h is h.
LEMMA OverNothing == ASSUME NEW h, NEW xs, Len(xs) = 0 PROVE Over(h, xs) = h
<1>1. PICK f : Steps(f, h, xs, Len(xs)) /\ Over(h, xs) = f[Len(xs)]
  BY OverSteps
<1> QED  BY <1>1 DEF Steps

\* The same items give the same value.
LEMMA OverSame ==
    ASSUME NEW h, NEW xs, NEW ys, NEW n \in Nat, Len(xs) = n, Len(ys) = n,
           \A i \in 1 .. n : xs[i] = ys[i]
    PROVE  Over(h, xs) = Over(h, ys)
<1>1. Len(<<>>) = 0 /\ \A i \in 1 .. 0 : ys[n + i] = <<>>[i]
  OBVIOUS
<1>2. Over(h, ys) = Over(Over(h, xs), <<>>)
  BY <1>1, OverJoins
<1> QED  BY <1>1, <1>2, OverNothing

\* One compression more.
LEMMA OverOneMore ==
    ASSUME NEW h, NEW xs, NEW zs, NEW m \in Nat, Len(xs) = m, Len(zs) = m + 1,
           \A i \in 1 .. m : zs[i] = xs[i]
    PROVE  Over(h, zs) = Compress(Over(h, xs), zs[m + 1])
<1> DEFINE ys == <<zs[m + 1]>>
<1>1. Len(ys) = 1 /\ ys[1] = zs[m + 1] /\ \A i \in 1 .. 1 : zs[m + i] = ys[i]
  OBVIOUS
<1> HIDE DEF ys
<1>2. Over(h, zs) = Over(Over(h, xs), ys)
  <2> DEFINE n == 1
  <2>1. n \in Nat /\ Len(ys) = n /\ Len(zs) = m + n /\ \A i \in 1 .. n : zs[m + i] = ys[i]
    BY <1>1
  <2> HIDE DEF n
  <2> QED  BY <2>1, OverJoins
<1>5. Len(ys) \in Nat
  BY <1>1
<1>3. PICK f : Steps(f, Over(h, xs), ys, Len(ys)) /\ Over(Over(h, xs), ys) = f[Len(ys)]
  BY <1>5, OverSteps
<1>4. f[0] = Over(h, xs) /\ f[1] = <<f[0], ys[1]>>
  BY <1>1, <1>3 DEF Steps
<1> QED  BY <1>1, <1>2, <1>3, <1>4 DEF Compress

\* Nothing else gives the same: neither other items nor more of them.
LEMMA OverInjective ==
    ASSUME NEW h, NEW g, NEW xs, NEW ys, NEW m \in Nat, NEW n \in Nat,
           Len(xs) = m, Len(ys) = n,
           \A a, b : h # <<a, b>> /\ g # <<a, b>>,
           Over(h, xs) = Over(g, ys)
    PROVE  h = g /\ m = n /\ \A i \in 1 .. m : xs[i] = ys[i]
<1>21. PICK e : Steps(e, h, xs, Len(xs)) /\ Over(h, xs) = e[Len(xs)]
  BY OverSteps
<1>22. PICK f : Steps(f, g, ys, Len(ys)) /\ Over(g, ys) = f[Len(ys)]
  BY OverSteps
<1>1. e[0] = h /\ Over(h, xs) = e[m] /\ \A i \in 1 .. m : e[i] = <<e[i - 1], xs[i]>>
  BY <1>21 DEF Steps
<1>2. f[0] = g /\ Over(g, ys) = f[n] /\ \A i \in 1 .. n : f[i] = <<f[i - 1], ys[i]>>
  BY <1>22 DEF Steps
<1> DEFINE G == {k \in Nat : k <= m /\ k <= n => e[m - k] = f[n - k]}
<1>3. 0 \in G
  <2>1. m - 0 = m /\ n - 0 = n
    OBVIOUS
  <2> QED  BY <1>1, <1>2, <2>1
<1>4. ASSUME NEW k \in Nat, k + 1 <= m, k + 1 <= n, e[m - k] = f[n - k]
      PROVE  xs[m - k] = ys[n - k] /\ e[m - (k + 1)] = f[n - (k + 1)]
  <2>1. m - k \in 1 .. m /\ n - k \in 1 .. n /\ (m - k) - 1 = m - (k + 1) /\ (n - k) - 1 = n - (k + 1)
    BY <1>4
  <2>2. e[m - k] = <<e[m - (k + 1)], xs[m - k]>>
    BY <1>1, <2>1
  <2>3. f[n - k] = <<f[n - (k + 1)], ys[n - k]>>
    BY <1>2, <2>1
  <2> QED  BY <2>2, <2>3, <1>4
<1>5. ASSUME NEW k \in Nat, k \in G PROVE k + 1 \in G
  <2> SUFFICES ASSUME k + 1 <= m, k + 1 <= n PROVE e[m - (k + 1)] = f[n - (k + 1)]
    OBVIOUS
  <2>1. e[m - k] = f[n - k]
    BY <1>5
  <2> QED  BY <2>1, <1>4
<1>6. Nat \subseteq G
  <2> HIDE DEF G
  <2> QED  BY <1>3, <1>5, SetInduction
<1>7. ASSUME m < n PROVE FALSE
  <2>1. e[0] = f[n - m]
    <3>1. e[m - m] = f[n - m]
      BY <1>6, <1>7
    <3> QED  BY <3>1
  <2>2. n - m \in 1 .. n
    BY <1>7
  <2>3. f[n - m] = <<f[(n - m) - 1], ys[n - m]>>
    BY <1>2, <2>2
  <2> QED  BY <1>1, <2>1, <2>3
<1>8. ASSUME n < m PROVE FALSE
  <2>1. e[m - n] = f[0]
    <3>1. e[m - n] = f[n - n]
      BY <1>6, <1>8
    <3> QED  BY <3>1
  <2>2. m - n \in 1 .. m
    BY <1>8
  <2>3. e[m - n] = <<e[(m - n) - 1], xs[m - n]>>
    BY <1>1, <2>2
  <2> QED  BY <1>2, <2>1, <2>3
<1>9. m = n
  BY <1>7, <1>8
<1>10. h = g
  <2>1. e[m - m] = f[n - m]
    <3>1. m <= m /\ m <= n
      BY <1>9
    <3> QED  BY <1>6, <3>1
  <2>2. m - m = 0 /\ n - m = 0
    BY <1>9
  <2> QED  BY <2>1, <2>2, <1>1, <1>2
<1>11. ASSUME NEW i \in 1 .. m PROVE xs[i] = ys[i]
  <2> DEFINE k == m - i
  <2>1. k \in Nat /\ k + 1 <= m /\ k + 1 <= n /\ m - k = i /\ n - k = i
    BY <1>9
  <2> HIDE DEF k
  <2>2. e[m - k] = f[n - k]
    BY <1>6, <2>1
  <2> QED  BY <2>1, <2>2, <1>4
<1> QED  BY <1>9, <1>10, <1>11

-----------------------------------------------------------------------------
(* Rows of cells, and the blocks they are cut into.                        *)

\* Sequences of one length and the same cells are one.
LEMMA Alike ==
    ASSUME NEW S, NEW s \in Seq(S), NEW t \in Seq(S), Len(s) = Len(t),
           \A i \in 1 .. Len(s) : s[i] = t[i]
    PROVE  s = t
OBVIOUS

\* A part of a sequence, and its cells.
LEMMA Part ==
    ASSUME NEW S, NEW s \in Seq(S), NEW a \in Nat, NEW b \in Nat, a + b <= Len(s)
    PROVE  /\ SubSeq(s, a + 1, a + b) \in Seq(S) /\ Len(SubSeq(s, a + 1, a + b)) = b
           /\ \A i \in 1 .. b : SubSeq(s, a + 1, a + b)[i] = s[a + i]
<1>1. \A i \in a + 1 .. a + b : s[i] \in S
  OBVIOUS
<1>2. Len(SubSeq(s, a + 1, a + b)) = b
  OBVIOUS
<1>3. SubSeq(s, a + 1, a + b) \in Seq(S)
  BY <1>1
<1>4. \A i \in 1 .. b : SubSeq(s, a + 1, a + b)[i] = s[a + i]
  OBVIOUS
<1> QED  BY <1>2, <1>3, <1>4

\* Two sequences put together.
LEMMA Join ==
    ASSUME NEW S, NEW s \in Seq(S), NEW t \in Seq(S)
    PROVE  /\ s \o t \in Seq(S) /\ Len(s \o t) = Len(s) + Len(t)
           /\ \A i \in 1 .. Len(s) : (s \o t)[i] = s[i]
           /\ \A i \in 1 .. Len(t) : (s \o t)[Len(s) + i] = t[i]
OBVIOUS

\* Multiples of a block.
LEMMA Times ==
    ASSUME NEW B \in Nat \ {0}, NEW i \in Nat, NEW j \in Nat
    PROVE  /\ i * B \in Nat /\ 0 * B = 0 /\ 1 * B = B
           /\ (i + j) * B = i * B + j * B
           /\ (i + 1) * B = i * B + B
           /\ i > 0 => i - 1 \in Nat /\ (i - 1) * B = i * B - B
           /\ i <= j => i * B <= j * B
           /\ i < j => i * B + B <= j * B
<1>1. i * B \in Nat /\ 0 * B = 0 /\ 1 * B = B
  OBVIOUS
<1>2. (i + j) * B = i * B + j * B
  OBVIOUS
<1>3. (i + 1) * B = i * B + B
  OBVIOUS
<1>4. i > 0 => i - 1 \in Nat /\ (i - 1) * B = i * B - B
  OBVIOUS
<1>5. i <= j => i * B <= j * B
  OBVIOUS
<1>6. i < j => i * B + B <= j * B
  OBVIOUS
<1> QED  BY <1>1, <1>2, <1>3, <1>4, <1>5, <1>6

\* A quotient, by the two products it lies between.
LEMMA Quotient ==
    ASSUME NEW B \in Nat \ {0}, NEW n \in Nat
    PROVE  /\ n \div B \in Nat /\ (n \div B) * B <= n /\ n < (n \div B) * B + B
           /\ \A k \in Nat : k * B <= n /\ n < k * B + B => n \div B = k
<1>1. n \div B \in Nat /\ (n \div B) * B <= n /\ n < (n \div B) * B + B
  OBVIOUS
<1>2. ASSUME NEW k \in Nat, k * B <= n, n < k * B + B PROVE n \div B = k
  <2> DEFINE q == n \div B
  <2>1. q \in Nat /\ q * B <= n /\ n < q * B + B
    BY <1>1
  <2> HIDE DEF q
  <2>2. q * B \in Nat /\ k * B \in Nat
    BY <2>1, Times
  <2>3. ~ (q < k)
    <3>1. q < k => q * B + B <= k * B
      BY <2>1, Times
    <3> QED  BY <2>1, <2>2, <1>2, <3>1
  <2>4. ~ (k < q)
    <3>1. k < q => k * B + B <= q * B
      BY <2>1, Times
    <3> QED  BY <2>1, <2>2, <1>2, <3>1
  <2>5. q = k
    BY <2>1, <2>3, <2>4
  <2> QED  BY <2>5 DEF q
<1> QED  BY <1>1, <1>2


\* A block of what is long enough to have it.
LEMMA BlockIs ==
    ASSUME NEW S, NEW s \in Seq(S), NEW i \in Nat \ {0}, i * Block <= Len(s)
    PROVE  /\ BlockAt(s, i) \in Seq(S) /\ Len(BlockAt(s, i)) = Block
           /\ \A j \in 1 .. Block : BlockAt(s, i)[j] = s[(i - 1) * Block + j]
<1>1. Block \in Nat \ {0}
  BY BlockAssumption
<1> DEFINE a == (i - 1) * Block
<1>2. a \in Nat /\ a + Block = i * Block
  BY <1>1, Times
<1>3. BlockAt(s, i) = SubSeq(s, a + 1, a + Block)
  BY <1>2 DEF BlockAt
<1> HIDE DEF a
<1>4. a + Block <= Len(s)
  BY <1>2
<1>5. /\ SubSeq(s, a + 1, a + Block) \in Seq(S) /\ Len(SubSeq(s, a + 1, a + Block)) = Block
      /\ \A j \in 1 .. Block : SubSeq(s, a + 1, a + Block)[j] = s[a + j]
  BY <1>1, <1>2, <1>4, Part
<1> QED  BY <1>3, <1>5 DEF a

\* What lies beyond the first k blocks.
LEMMA BeyondIs ==
    ASSUME NEW S, NEW s \in Seq(S), NEW k \in Nat, k * Block <= Len(s)
    PROVE  /\ Beyond(s, k) \in Seq(S) /\ Len(Beyond(s, k)) = Len(s) - k * Block
           /\ \A j \in 1 .. Len(s) - k * Block : Beyond(s, k)[j] = s[k * Block + j]
<1>1. Block \in Nat \ {0}
  BY BlockAssumption
<1> DEFINE a == k * Block
           b == Len(s) - a
<1>2. a \in Nat
  BY <1>1, Times
<1>3. Beyond(s, k) = SubSeq(s, a + 1, Len(s)) /\ a <= Len(s)
  BY DEF Beyond
<1> HIDE DEF a
<1>4. b \in Nat /\ a + b = Len(s) /\ a + b <= Len(s)
  BY <1>2, <1>3
<1> HIDE DEF b
<1>5. /\ SubSeq(s, a + 1, a + b) \in Seq(S) /\ Len(SubSeq(s, a + 1, a + b)) = b
      /\ \A j \in 1 .. b : SubSeq(s, a + 1, a + b)[j] = s[a + j]
  BY <1>2, <1>4, Part
<1> QED  BY <1>3, <1>4, <1>5 DEF a, b

\* Blocks of the beginning, and of what is beyond it.
LEMMA BlockOfFront ==
    ASSUME NEW S, NEW s \in Seq(S), NEW t \in Seq(S), NEW i \in Nat \ {0}, i * Block <= Len(s)
    PROVE  BlockAt(s \o t, i) = BlockAt(s, i)
<1>1. Block \in Nat \ {0} /\ (i - 1) * Block \in Nat /\ (i - 1) * Block + Block = i * Block
  BY BlockAssumption, Times
<1>2. /\ s \o t \in Seq(S) /\ Len(s \o t) = Len(s) + Len(t) /\ \A j \in 1 .. Len(s) : (s \o t)[j] = s[j]
  BY Join
<1>3. i * Block <= Len(s \o t)
  BY <1>1, <1>2
<1>4. /\ BlockAt(s, i) \in Seq(S) /\ Len(BlockAt(s, i)) = Block
      /\ \A j \in 1 .. Block : BlockAt(s, i)[j] = s[(i - 1) * Block + j]
  BY BlockIs
<1>5. /\ BlockAt(s \o t, i) \in Seq(S) /\ Len(BlockAt(s \o t, i)) = Block
      /\ \A j \in 1 .. Block : BlockAt(s \o t, i)[j] = (s \o t)[(i - 1) * Block + j]
  <2> DEFINE u == s \o t
  <2>1. u \in Seq(S) /\ i \in Nat \ {0} /\ i * Block <= Len(u)
    BY <1>2, <1>3
  <2> HIDE DEF u
  <2>2. /\ BlockAt(u, i) \in Seq(S) /\ Len(BlockAt(u, i)) = Block
        /\ \A j \in 1 .. Block : BlockAt(u, i)[j] = u[(i - 1) * Block + j]
    BY ONLY <2>1, BlockIs
  <2> QED  BY <2>2 DEF u
<1>6. \A j \in 1 .. Block : (i - 1) * Block + j \in 1 .. Len(s)
  BY <1>1
<1>7. \A j \in 1 .. Block : BlockAt(s \o t, i)[j] = BlockAt(s, i)[j]
  BY <1>2, <1>4, <1>5, <1>6
<1> QED  BY <1>4, <1>5, <1>7, Alike

\* A block of what lies beyond k blocks is a later one of the whole.
LEMMA BlockBeyond ==
    ASSUME NEW S, NEW s \in Seq(S), NEW k \in Nat, k * Block <= Len(s),
           NEW i \in Nat \ {0}, i * Block <= Len(s) - k * Block
    PROVE  BlockAt(s, k + i) = BlockAt(Beyond(s, k), i)
<1> DEFINE r == Beyond(s, k)
           a == k * Block
           b == (i - 1) * Block
<1>1. /\ Block \in Nat \ {0} /\ a \in Nat /\ b \in Nat /\ b + Block = i * Block
      /\ (k + i) * Block = a + i * Block
  BY BlockAssumption, Times
<1>2. ((k + i) - 1) * Block = a + b /\ k + i \in Nat \ {0}
  BY <1>1, Times
<1>3. /\ r \in Seq(S) /\ Len(r) = Len(s) - a /\ \A j \in 1 .. Len(s) - a : r[j] = s[a + j]
  BY BeyondIs
<1> HIDE DEF r
<1>4. (k + i) * Block <= Len(s) /\ i * Block <= Len(r)
  BY <1>1, <1>3
<1>5. /\ BlockAt(s, k + i) \in Seq(S) /\ Len(BlockAt(s, k + i)) = Block
      /\ \A j \in 1 .. Block : BlockAt(s, k + i)[j] = s[(a + b) + j]
  BY <1>2, <1>4, BlockIs
<1>6. /\ BlockAt(r, i) \in Seq(S) /\ Len(BlockAt(r, i)) = Block
      /\ \A j \in 1 .. Block : BlockAt(r, i)[j] = r[b + j]
  BY <1>3, <1>4, BlockIs
<1> HIDE DEF a, b
<1>7. \A j \in 1 .. Block : b + j \in 1 .. Len(s) - a /\ a + (b + j) = (a + b) + j
  BY <1>1, <1>3, <1>4
<1>8. \A j \in 1 .. Block : BlockAt(s, k + i)[j] = BlockAt(r, i)[j]
  BY <1>3, <1>5, <1>6, <1>7
<1>9. BlockAt(s, k + i) = BlockAt(r, i)
  BY <1>5, <1>6, <1>8, Alike
<1> QED  BY <1>9 DEF r

\* Beyond k blocks, and then n of the rest.
LEMMA BeyondBeyond ==
    ASSUME NEW S, NEW s \in Seq(S), NEW k \in Nat, k * Block <= Len(s),
           NEW i \in Nat, i * Block <= Len(s) - k * Block
    PROVE  Beyond(s, k + i) = Beyond(Beyond(s, k), i)
<1> DEFINE r == Beyond(s, k)
           a == k * Block
           b == i * Block
<1>1. Block \in Nat \ {0} /\ a \in Nat /\ b \in Nat /\ (k + i) * Block = a + b
  BY BlockAssumption, Times
<1>3. /\ r \in Seq(S) /\ Len(r) = Len(s) - a /\ \A j \in 1 .. Len(s) - a : r[j] = s[a + j]
  BY BeyondIs
<1> HIDE DEF r
<1>4. (k + i) * Block <= Len(s) /\ i * Block <= Len(r) /\ k + i \in Nat
  BY <1>1, <1>3
<1>5. /\ Beyond(s, k + i) \in Seq(S) /\ Len(Beyond(s, k + i)) = Len(s) - (a + b)
      /\ \A j \in 1 .. Len(s) - (a + b) : Beyond(s, k + i)[j] = s[(a + b) + j]
  BY <1>1, <1>4, BeyondIs
<1>6. /\ Beyond(r, i) \in Seq(S) /\ Len(Beyond(r, i)) = Len(r) - b
      /\ \A j \in 1 .. Len(r) - b : Beyond(r, i)[j] = r[b + j]
  BY <1>3, <1>4, BeyondIs
<1> HIDE DEF a, b
<1>7. \A j \in 1 .. Len(s) - (a + b) : /\ b + j \in 1 .. Len(s) - a /\ a + (b + j) = (a + b) + j
                                       /\ j \in 1 .. Len(r) - b
  BY <1>1, <1>3
<1>8. \A j \in 1 .. Len(s) - (a + b) : Beyond(s, k + i)[j] = Beyond(r, i)[j]
  BY <1>3, <1>5, <1>6, <1>7
<1>9. Beyond(s, k + i) = Beyond(r, i)
  <2>1. Len(Beyond(s, k + i)) = Len(Beyond(r, i))
    <3>1. Len(s) \in Nat
      OBVIOUS
    <3>2. Len(Beyond(s, k + i)) = Len(s) - (a + b) /\ Len(Beyond(r, i)) = Len(r) - b /\ Len(r) = Len(s) - a
      BY <1>3, <1>5, <1>6, Zenon
    <3>3. Len(s) - (a + b) = (Len(s) - a) - b
      BY ONLY <1>1, <3>1
    <3> QED  BY ONLY <3>2, <3>3
  <2> QED  BY <1>5, <1>6, <1>8, <2>1, Alike
<1> QED  BY <1>9 DEF r

\* What follows is behind, wherever the cut.
LEMMA BeyondJoin ==
    ASSUME NEW S, NEW s \in Seq(S), NEW t \in Seq(S), NEW k \in Nat, k * Block <= Len(s)
    PROVE  Beyond(s \o t, k) = Beyond(s, k) \o t
<1> DEFINE a == k * Block
           u == s \o t
           r == Beyond(s, k)
<1>1. Block \in Nat \ {0} /\ a \in Nat
  BY BlockAssumption, Times
<1>2. /\ u \in Seq(S) /\ Len(u) = Len(s) + Len(t)
      /\ \A i \in 1 .. Len(s) : u[i] = s[i]
      /\ \A i \in 1 .. Len(t) : u[Len(s) + i] = t[i]
  BY Join
<1>3. /\ r \in Seq(S) /\ Len(r) = Len(s) - a /\ \A j \in 1 .. Len(s) - a : r[j] = s[a + j]
  BY BeyondIs
<1> HIDE DEF u, r
<1>4. k * Block <= Len(u)
  BY <1>1, <1>2
<1>5. /\ Beyond(u, k) \in Seq(S) /\ Len(Beyond(u, k)) = Len(u) - a
      /\ \A j \in 1 .. Len(u) - a : Beyond(u, k)[j] = u[a + j]
  <2>1. u \in Seq(S)
    BY <1>2
  <2> QED  BY <2>1, <1>4, BeyondIs
<1>6. /\ r \o t \in Seq(S) /\ Len(r \o t) = Len(r) + Len(t)
      /\ \A i \in 1 .. Len(r) : (r \o t)[i] = r[i]
      /\ \A i \in 1 .. Len(t) : (r \o t)[Len(r) + i] = t[i]
  <2>1. r \in Seq(S)
    BY <1>3
  <2> QED  BY <2>1, Join
<1> HIDE DEF a
<1>7. ASSUME NEW j \in 1 .. Len(u) - a PROVE Beyond(u, k)[j] = (r \o t)[j]
  <2>1. CASE j <= Len(r)
    <3>1. a + j \in 1 .. Len(s) /\ j \in 1 .. Len(r) /\ j \in 1 .. Len(s) - a
      BY <1>1, <1>3, <2>1
    <3> QED  BY <1>2, <1>3, <1>5, <1>6, <3>1
  <2>2. CASE ~ (j <= Len(r))
    <3> DEFINE i == j - Len(r)
    <3>1. i \in 1 .. Len(t) /\ Len(r) + i = j /\ Len(s) + i = a + j
      BY <1>1, <1>2, <1>3, <2>2
    <3> HIDE DEF i
    <3>2. (r \o t)[j] = t[i] /\ u[a + j] = t[i]
      BY <1>2, <1>6, <3>1
    <3> QED  BY <1>5, <3>2
  <2> QED  BY <2>1, <2>2
<1>8. Len(Beyond(u, k)) = Len(r \o t)
  BY <1>1, <1>2, <1>3, <1>5, <1>6
<1>9. Beyond(u, k) = r \o t
  BY <1>5, <1>6, <1>7, <1>8, Alike
<1> QED  BY <1>9 DEF u, r

-----------------------------------------------------------------------------
(* Contexts, and what they hold.                                           *)

Context(c) == c = [alg |-> c.alg, key |-> c.key, h |-> c.h, buf |-> c.buf, count |-> c.count]

\* Three fields of a context set at once.
LEMMA Excepted ==
    ASSUME NEW c, Context(c), NEW H, NEW B, NEW N
    PROVE  [c EXCEPT !.h = H, !.buf = B, !.count = N] =
               [alg |-> c.alg, key |-> c.key, h |-> H, buf |-> B, count |-> N]
<1> DEFINE d == [alg |-> c.alg, key |-> c.key, h |-> c.h, buf |-> c.buf, count |-> c.count]
<1>1. c = d
  BY DEF Context
<1>2. [d EXCEPT !.h = H, !.buf = B, !.count = N] =
               [alg |-> c.alg, key |-> c.key, h |-> H, buf |-> B, count |-> N]
  <2> DEFINE e == [d EXCEPT !.h = H]
             f == [e EXCEPT !.buf = B]
  <2>1. e = [alg |-> c.alg, key |-> c.key, h |-> H, buf |-> c.buf, count |-> c.count]
    OBVIOUS
  <2>2. [d EXCEPT !.h = H, !.buf = B, !.count = N] = [f EXCEPT !.count = N]
    BY Zenon
  <2> HIDE DEF d, e
  <2>3. f = [alg |-> c.alg, key |-> c.key, h |-> H, buf |-> B, count |-> c.count]
    BY <2>1
  <2> HIDE DEF f
  <2>4. [f EXCEPT !.count = N] = [alg |-> c.alg, key |-> c.key, h |-> H, buf |-> B, count |-> N]
    BY <2>3
  <2> QED  BY <2>2, <2>4, Zenon
<1> HIDE DEF d
<1> QED  BY <1>1, <1>2, Zenon

\* The first n blocks.
Cut(d, n) == [i \in 1 .. n |-> BlockAt(d, i)]

\* d went in, on top of g.
Holds(c, g, d) ==
    /\ Context(c) /\ c.count = Len(d)
    /\ c.h = Over(g, Cut(d, Blocks(d)))
    /\ c.buf = Beyond(d, Blocks(d))

\* How many whole blocks there are.
LEMMA BlocksAre ==
    ASSUME NEW S, NEW d \in Seq(S)
    PROVE  /\ Block \in Nat \ {0} /\ Len(d) \in Nat
           /\ Blocks(d) \in Nat /\ Blocks(d) * Block <= Len(d) /\ Len(d) < Blocks(d) * Block + Block
           /\ \A k \in Nat : k * Block <= Len(d) /\ Len(d) < k * Block + Block => Blocks(d) = k
<1>1. Block \in Nat \ {0} /\ Len(d) \in Nat
  BY BlockAssumption
<1> QED  BY <1>1, Quotient DEF Blocks

\* Blocks are counted on from where the last count ended.
LEMMA BlocksSum ==
    ASSUME NEW S, NEW d \in Seq(S), NEW k \in Nat, k * Block <= Len(d)
    PROVE  Blocks(d) = k + Blocks(Beyond(d, k))
<1> DEFINE r == Beyond(d, k)
           n == Blocks(r)
<1>1. r \in Seq(S) /\ Len(r) = Len(d) - k * Block
  BY BeyondIs
<1> HIDE DEF r
<1>2. n \in Nat /\ n * Block <= Len(r) /\ Len(r) < n * Block + Block
  BY <1>1, BlocksAre
<1> HIDE DEF n
<1>3. Block \in Nat \ {0} /\ Len(d) \in Nat /\ k * Block \in Nat /\ n * Block \in Nat
      /\ (k + n) * Block = k * Block + n * Block
  BY <1>2, BlocksAre, Times
<1>4. k + n \in Nat /\ (k + n) * Block <= Len(d) /\ Len(d) < (k + n) * Block + Block
  BY <1>1, <1>2, <1>3
<1>5. Blocks(d) = k + n
  BY <1>4, BlocksAre
<1> QED  BY <1>5 DEF n, r

\* A block of those is a block.
LEMMA BlocksFit ==
    ASSUME NEW S, NEW d \in Seq(S), NEW n \in Nat, n * Block <= Len(d), NEW i \in 1 .. n
    PROVE  i \in Nat \ {0} /\ i * Block <= Len(d)
<1>1. Block \in Nat \ {0} /\ Len(d) \in Nat /\ i \in Nat \ {0} /\ n * Block \in Nat
  BY BlocksAre, Times
<1>2. i * Block <= n * Block /\ i * Block \in Nat
  BY <1>1, Times
<1> QED  BY <1>1, <1>2

\* What goes in after k blocks is the blocks of what is beyond them.
LEMMA OverBlocks ==
    ASSUME NEW S, NEW d \in Seq(S), NEW g, NEW k \in Nat, NEW n \in Nat, (k + n) * Block <= Len(d)
    PROVE  Over(g, Cut(d, k + n))
               = Over(Over(g, Cut(d, k)),
                      Cut(Beyond(d, k), n))
<1> DEFINE xs == Cut(d, k)
           ys == Cut(Beyond(d, k), n)
           zs == Cut(d, k + n)
<1>1. /\ Block \in Nat \ {0} /\ Len(d) \in Nat /\ k * Block \in Nat /\ n * Block \in Nat
      /\ k * Block + n * Block <= Len(d)
  BY BlocksAre, Times
<1>2. k * Block <= Len(d) /\ n * Block <= Len(d) - k * Block
  BY <1>1
<1>3. Len(xs) = k /\ Len(ys) = n /\ Len(zs) = k + n
  BY DEF Cut
<1>4. \A i \in 1 .. k : zs[i] = xs[i]
  BY DEF Cut
<1>5. ASSUME NEW i \in 1 .. n PROVE zs[k + i] = ys[i]
  <2>1. i \in Nat \ {0} /\ i * Block <= n * Block /\ i * Block \in Nat
    BY <1>1, Times
  <2>2. i * Block <= Len(d) - k * Block
    BY <1>1, <1>2, <2>1
  <2>3. BlockAt(d, k + i) = BlockAt(Beyond(d, k), i)
    BY <1>2, <2>1, <2>2, BlockBeyond
  <2>4. k + i \in 1 .. k + n
    OBVIOUS
  <2> QED  BY <2>3, <2>4 DEF Cut
<1> HIDE DEF xs, ys, zs
<1>6. Over(g, zs) = Over(Over(g, xs), ys)
  <2>1. k \in Nat /\ n \in Nat
    OBVIOUS
  <2> QED  BY ONLY <2>1, <1>3, <1>4, <1>5, OverJoins
<1> QED  BY <1>6 DEF xs, ys, zs

Waiting(c, p) == c.buf \o p

\* More goes in: the blocks of what waits and what comes.
LEMMA MoreHeld ==
    ASSUME NEW S, NEW d \in Seq(S), NEW p \in Seq(S), NEW g, NEW c, Holds(c, g, d)
    PROVE  /\ Waiting(c, p) \in Seq(S) /\ Waiting(c, p) = Beyond(d \o p, Blocks(d))
           /\ Over(g, Cut(d \o p, Blocks(d \o p)))
               = Over(c.h, Cut(Waiting(c, p), Blocks(Waiting(c, p))))
           /\ Beyond(d \o p, Blocks(d \o p)) = Beyond(Waiting(c, p), Blocks(Waiting(c, p)))
           /\ Len(d \o p) = c.count + Len(p)
<1> DEFINE u == d \o p
           all == Waiting(c, p)
           k == Blocks(d)
           n == Blocks(all)
<1>1. u \in Seq(S) /\ Len(u) = Len(d) + Len(p) /\ Len(p) \in Nat /\ Len(d) \in Nat
  BY Join
<1>2. k \in Nat /\ k * Block <= Len(d) /\ Block \in Nat \ {0} /\ k * Block \in Nat
  BY BlocksAre, Times
<1>3. all = Beyond(u, k)
  BY <1>2, BeyondJoin DEF Holds, Waiting
<1>4. c.h = Over(g, Cut(d, k)) /\ c.count = Len(d)
  BY DEF Holds
<1>5. Cut(d, k) = Cut(u, k)
  <2>1. \A i \in 1 .. k : BlockAt(u, i) = BlockAt(d, i)
    BY <1>2, BlocksFit, BlockOfFront
  <2> QED  BY <2>1 DEF Cut
<1> HIDE DEF u, all, k
<1>6. k * Block <= Len(u)
  BY <1>1, <1>2
<1>7. all \in Seq(S) /\ Len(all) = Len(u) - k * Block
  BY <1>1, <1>2, <1>3, <1>6, BeyondIs
<1>8. n \in Nat /\ n * Block <= Len(all) /\ Blocks(u) = k + n
  <2>1. n \in Nat /\ n * Block <= Len(all)
    BY <1>7, BlocksAre
  <2>2. u \in Seq(S) /\ k \in Nat
    BY <1>1, <1>2
  <2>3. Blocks(u) = k + Blocks(Beyond(u, k))
    BY ONLY <2>2, <1>6, BlocksSum
  <2> QED  BY <2>1, <2>3, <1>3
<1> HIDE DEF n
<1>9. (k + n) * Block <= Len(u)
  <2>1. (k + n) * Block = k * Block + n * Block /\ n * Block \in Nat
    BY <1>2, <1>8, Times
  <2> QED  BY <2>1, <1>1, <1>2, <1>7, <1>8
<1>10. Over(g, Cut(u, k + n))
         = Over(Over(g, Cut(u, k)), Cut(Beyond(u, k), n))
  <2>1. u \in Seq(S)
    BY <1>1
  <2>2. k \in Nat /\ n \in Nat
    BY <1>2, <1>8
  <2> QED  BY <2>1, <2>2, <1>9, OverBlocks
<1>11. Over(g, Cut(u, Blocks(u))) = Over(c.h, Cut(all, n))
  BY <1>3, <1>4, <1>5, <1>8, <1>10
<1>12. Beyond(u, k + n) = Beyond(all, n)
  <2>1. n * Block <= Len(u) - k * Block
    BY <1>7, <1>8
  <2>2. u \in Seq(S) /\ k \in Nat /\ n \in Nat
    BY <1>1, <1>2, <1>8
  <2>3. Beyond(u, k + n) = Beyond(Beyond(u, k), n)
    BY ONLY <2>1, <2>2, <1>6, BeyondBeyond
  <2> QED  BY <2>3, <1>3
<1> QED  BY <1>1, <1>3, <1>4, <1>7, <1>8, <1>11, <1>12 DEF u, all, k, n

\* amisnap_sha256_update(): the context stands for what it was fed and this.
LEMMA ShaUpdateHolds ==
    ASSUME NEW S, NEW d \in Seq(S), NEW p \in Seq(S), NEW g, NEW c, Holds(c, g, d)
    PROVE  /\ Holds(ShaUpdate(c, p), g, d \o p)
           /\ ShaUpdate(c, p).alg = c.alg /\ ShaUpdate(c, p).key = c.key
<1> DEFINE all == Waiting(c, p)
           e == ShaUpdate(c, p)
           H == Over(c.h, Cut(all, Blocks(all)))
           B == Beyond(all, Blocks(all))
           N == c.count + Len(p)
<1>1. e = [c EXCEPT !.h = H, !.buf = B, !.count = N]
  BY Zenon DEF ShaUpdate, Cut, Waiting
<1>2. /\ Over(g, Cut(d \o p, Blocks(d \o p))) = H
      /\ Beyond(d \o p, Blocks(d \o p)) = B
      /\ Len(d \o p) = N
  BY MoreHeld
<1>3. Context(c)
  BY DEF Holds
<1> HIDE DEF e, H, B, N
<1>4. e = [alg |-> c.alg, key |-> c.key, h |-> H, buf |-> B, count |-> N]
  BY <1>1, <1>3, Excepted
<1>5. e.h = H /\ e.buf = B /\ e.count = N /\ e.alg = c.alg /\ e.key = c.key
  BY <1>4
<1>6. Context(e)
  BY <1>4, <1>5, Zenon DEF Context
<1>7. Holds(e, g, d \o p)
  BY <1>2, <1>5, <1>6, Zenon DEF Holds
<1> QED  BY <1>5, <1>7 DEF e

Made(c, H, B, N) == [alg |-> c.alg, key |-> c.key, h |-> H, buf |-> B, count |-> N]

\* The fields of a context put together.
LEMMA MadeIs ==
    ASSUME NEW c, NEW H, NEW B, NEW N
    PROVE  /\ Made(c, H, B, N).h = H /\ Made(c, H, B, N).buf = B /\ Made(c, H, B, N).count = N
           /\ Made(c, H, B, N).alg = c.alg /\ Made(c, H, B, N).key = c.key /\ Context(Made(c, H, B, N))
BY DEF Made, Context

\* One field of a context set.
LEMMA ExceptedCount ==
    ASSUME NEW c, Context(c), NEW N
    PROVE  [c EXCEPT !.count = N] = Made(c, c.h, c.buf, N)
<1> DEFINE d == [alg |-> c.alg, key |-> c.key, h |-> c.h, buf |-> c.buf, count |-> c.count]
<1>1. c = d
  BY DEF Context
<1>2. [d EXCEPT !.count = N] = Made(c, c.h, c.buf, N)
  BY DEF Made
<1> HIDE DEF d
<1> QED  BY <1>1, <1>2, Zenon

\* Another.
LEMMA ExceptedBuf ==
    ASSUME NEW c, Context(c), NEW B
    PROVE  [c EXCEPT !.buf = B] = Made(c, c.h, B, c.count)
<1> DEFINE d == [alg |-> c.alg, key |-> c.key, h |-> c.h, buf |-> c.buf, count |-> c.count]
<1>1. c = d
  BY DEF Context
<1>2. [d EXCEPT !.buf = B] = Made(c, c.h, B, c.count)
  BY DEF Made
<1> HIDE DEF d
<1> QED  BY <1>1, <1>2, Zenon

\* Two fields of a context set.
LEMMA ExceptedTwo ==
    ASSUME NEW c, Context(c), NEW H, NEW B
    PROVE  [c EXCEPT !.h = H, !.buf = B] = Made(c, H, B, c.count)
<1> DEFINE d == [alg |-> c.alg, key |-> c.key, h |-> c.h, buf |-> c.buf, count |-> c.count]
           e == [d EXCEPT !.h = H]
<1>1. c = d
  BY DEF Context
<1>2. e = [alg |-> c.alg, key |-> c.key, h |-> H, buf |-> c.buf, count |-> c.count]
  OBVIOUS
<1>3. [d EXCEPT !.h = H, !.buf = B] = [e EXCEPT !.buf = B]
  BY Zenon
<1> HIDE DEF d, e
<1>4. [e EXCEPT !.buf = B] = Made(c, H, B, c.count)
  BY <1>2 DEF Made
<1> QED  BY <1>1, <1>3, <1>4, Zenon

\* A stripe that was filled up, and the stripes of the rest.
LEMMA XxhStripesIs ==
    ASSUME NEW c, Context(c), NEW p
    PROVE  XxhStripes(c, p) = Made(c, Over(c.h, Cut(p, Blocks(p))), Beyond(p, Blocks(p)), c.count)
<1>1. XxhStripes(c, p) = [c EXCEPT !.h = Over(c.h, Cut(p, Blocks(p))), !.buf = Beyond(p, Blocks(p))]
  BY Zenon DEF XxhStripes, Cut
<1> QED  BY <1>1, ExceptedTwo, Zenon

\* The buffer filled up and put in.
LEMMA XxhFilledIs ==
    ASSUME NEW c, Context(c), NEW b
    PROVE  XxhFilled(c, b) = Made(c, Compress(c.h, b), <<>>, c.count)
<1>1. XxhFilled(c, b) = [c EXCEPT !.h = Compress(c.h, b), !.buf = <<>>]
  BY Zenon DEF XxhFilled
<1> QED  BY <1>1, ExceptedTwo, Zenon

\* One block is one compression.
LEMMA OneBlock ==
    ASSUME NEW S, NEW s \in Seq(S), NEW h, NEW n \in Nat, (1 + n) * Block <= Len(s)
    PROVE  Over(h, Cut(s, 1 + n)) = Over(Compress(h, BlockAt(s, 1)), Cut(Beyond(s, 1), n))
<1>1. Over(h, Cut(s, 1 + n)) = Over(Over(h, Cut(s, 1)), Cut(Beyond(s, 1), n))
  BY OverBlocks
<1>2. Over(h, Cut(s, 1)) = Compress(Over(h, Cut(s, 0)), BlockAt(s, 1))
  <2> DEFINE xs == Cut(s, 0)
             zs == Cut(s, 1)
             m == 0
  <2>1. /\ m \in Nat /\ Len(xs) = m /\ Len(zs) = m + 1 /\ \A i \in 1 .. m : zs[i] = xs[i]
        /\ zs[m + 1] = BlockAt(s, 1)
    BY DEF Cut
  <2> HIDE DEF xs, zs, m
  <2>2. Over(h, zs) = Compress(Over(h, xs), zs[m + 1])
    BY <2>1, OverOneMore
  <2> QED  BY <2>1, <2>2 DEF xs, zs
<1>3. Over(h, Cut(s, 0)) = h
  <2>1. Len(Cut(s, 0)) = 0
    BY DEF Cut
  <2> QED  BY <2>1, OverNothing
<1> QED  BY <1>1, <1>2, <1>3

\* No block: nothing is put in, and everything is left.
LEMMA NoBlock ==
    ASSUME NEW S, NEW s \in Seq(S), NEW h
    PROVE  Over(h, Cut(s, 0)) = h /\ Beyond(s, 0) = s
<1>1. Len(Cut(s, 0)) = 0
  BY DEF Cut
<1>2. Over(h, Cut(s, 0)) = h
  BY <1>1, OverNothing
<1>3. Block \in Nat \ {0} /\ 0 * Block = 0 /\ 0 * Block + 1 = 1
  BY BlockAssumption, Times
<1>4. Beyond(s, 0) = SubSeq(s, 1, Len(s))
  BY <1>3 DEF Beyond
<1>5. SubSeq(s, 1, Len(s)) = s
  OBVIOUS
<1> QED  BY <1>2, <1>4, <1>5

\* amisnap_xxh32_update(): short of a stripe, through the buffer, or straight.
LEMMA XxhUpdateHolds ==
    ASSUME NEW S, NEW d \in Seq(S), NEW p \in Seq(S), NEW g, NEW c, Holds(c, g, d)
    PROVE  /\ Holds(XxhUpdate(c, p), g, d \o p)
           /\ XxhUpdate(c, p).alg = c.alg /\ XxhUpdate(c, p).key = c.key
<1> DEFINE all == Waiting(c, p)
           H == Over(c.h, Cut(all, Blocks(all)))
           B == Beyond(all, Blocks(all))
           N == c.count + Len(p)
           counted == [c EXCEPT !.count = c.count + Len(p)]
           fill == Block - Len(c.buf)
<1>1. /\ all \in Seq(S)
      /\ Over(g, Cut(d \o p, Blocks(d \o p))) = H
      /\ Beyond(d \o p, Blocks(d \o p)) = B
      /\ Len(d \o p) = N
  BY MoreHeld
<1>2. Context(c)
  BY DEF Holds
<1>3. c.buf \in Seq(S) /\ Len(c.buf) < Block /\ Block \in Nat \ {0} /\ Len(c.buf) \in Nat
  <2>1. /\ Block \in Nat \ {0} /\ Blocks(d) \in Nat /\ Blocks(d) * Block <= Len(d) /\ Len(d) < Blocks(d) * Block + Block
    BY BlocksAre
  <2>2. Beyond(d, Blocks(d)) \in Seq(S) /\ Len(Beyond(d, Blocks(d))) = Len(d) - Blocks(d) * Block
    BY <2>1, BeyondIs
  <2>3. c.buf = Beyond(d, Blocks(d))
    BY DEF Holds
  <2>4. Len(d) \in Nat /\ Blocks(d) * Block \in Nat
    BY <2>1, Times
  <2> QED  BY <2>1, <2>2, <2>3, <2>4
<1>4. all = c.buf \o p
  BY DEF Waiting
<1>5. /\ Len(all) = Len(c.buf) + Len(p) /\ Len(p) \in Nat
      /\ \A i \in 1 .. Len(c.buf) : all[i] = c.buf[i]
      /\ \A i \in 1 .. Len(p) : all[Len(c.buf) + i] = p[i]
  BY <1>3, <1>4, Join
<1>6. counted = Made(c, c.h, c.buf, N) /\ Context(counted)
      /\ counted.h = c.h /\ counted.buf = c.buf /\ counted.count = N
      /\ counted.alg = c.alg /\ counted.key = c.key
  <2>1. counted = Made(c, c.h, c.buf, N)
    BY <1>2, ExceptedCount, Zenon
  <2> QED  BY <2>1, MadeIs
<1>7. XxhUpdate(c, p) =
        IF Len(c.buf) + Len(p) < Block THEN [counted EXCEPT !.buf = counted.buf \o p]
        ELSE IF c.buf # <<>> THEN XxhStripes(XxhFilled(counted, c.buf \o SubSeq(p, 1, fill)),
                                        SubSeq(p, fill + 1, Len(p)))
        ELSE XxhStripes(counted, p)
  BY Zenon DEF XxhUpdate
<1> HIDE DEF counted, all
<1>8. XxhUpdate(c, p) = Made(c, H, B, N)
  <2>1. CASE Len(c.buf) + Len(p) < Block
    <3>1. Blocks(all) = 0
      <4>1. 0 \in Nat /\ 0 * Block <= Len(all) /\ Len(all) < 0 * Block + Block
        BY <1>3, <1>5, <2>1, Times
      <4> QED  BY <1>1, <4>1, BlocksAre
    <3>2. H = c.h /\ B = all
      BY <1>1, <3>1, NoBlock
    <3>3. XxhUpdate(c, p) = [counted EXCEPT !.buf = all]
      BY <1>4, <1>6, <1>7, <2>1
    <3>4. XxhUpdate(c, p) = Made(counted, c.h, all, N)
      <4>1. Context(counted)
        BY <1>6
      <4>2. [counted EXCEPT !.buf = all] = Made(counted, counted.h, all, counted.count)
        BY ONLY <4>1, ExceptedBuf, Zenon
      <4>3. Made(counted, counted.h, all, counted.count) = Made(counted, c.h, all, N)
        BY <1>6, Zenon
      <4> QED  BY ONLY <3>3, <4>2, <4>3, Zenon
    <3> QED  BY <3>2, <3>4, <1>6 DEF Made
  <2>2. CASE ~ (Len(c.buf) + Len(p) < Block) /\ c.buf # <<>>
    <3> DEFINE x == c.buf \o SubSeq(p, 1, fill)
               y == SubSeq(p, fill + 1, Len(p))
               n == Blocks(y)
               filled == XxhFilled(counted, x)
    <3>1. x = BlockAt(all, 1) /\ y = Beyond(all, 1)
      <4> DEFINE q == SubSeq(p, 1, fill)
      <4>1. fill \in Nat /\ fill <= Len(p) /\ Len(c.buf) + fill = Block /\ Len(p) - fill \in Nat
            /\ fill + (Len(p) - fill) = Len(p) /\ Len(all) - Block = Len(p) - fill /\ Block <= Len(all)
        <5>1. Block \in Nat /\ Len(all) \in Nat /\ Len(all) = Len(c.buf) + Len(p) /\ Len(p) \in Nat
              /\ Len(c.buf) \in Nat
          BY <1>1, <1>3, <1>5
        <5>2. fill \in Nat /\ fill <= Len(p) /\ Len(c.buf) + fill = Block
          BY <5>1, <1>3, <2>2
        <5> HIDE DEF fill
        <5>3. Block <= Len(all) /\ Len(all) - Block = Len(p) - fill
          <6>1. PICK b \in Nat, l \in Nat, a \in Nat, z \in Nat, f \in Nat :
                    b = Len(c.buf) /\ l = Len(p) /\ a = Len(all) /\ z = Block /\ f = fill
            BY <5>1, <5>2
          <6>2. a = b + l /\ f <= l /\ b + f = z
            BY <5>1, <5>2, <6>1
          <6>3. z <= a /\ a - z = l - f
            BY ONLY <6>2
          <6> QED  BY <6>1, <6>3
        <5>4. Len(p) - fill \in Nat /\ fill + (Len(p) - fill) = Len(p)
          BY <5>1, <5>2
        <5> QED  BY <5>2, <5>3, <5>4
      <4>2. q \in Seq(S) /\ Len(q) = fill /\ \A i \in 1 .. fill : q[i] = p[i]
        <5> HIDE DEF fill
        <5>1. 0 \in Nat /\ 0 + fill <= Len(p) /\ 0 + 1 = 1 /\ 0 + fill = fill
              /\ \A i \in 1 .. fill : 0 + i = i
          BY <4>1
        <5>2. /\ SubSeq(p, 0 + 1, 0 + fill) \in Seq(S) /\ Len(SubSeq(p, 0 + 1, 0 + fill)) = fill
              /\ \A i \in 1 .. fill : SubSeq(p, 0 + 1, 0 + fill)[i] = p[0 + i]
          BY <4>1, <5>1, Part
        <5> QED  BY <5>1, <5>2
      <4>3. /\ y \in Seq(S) /\ Len(y) = Len(p) - fill
            /\ \A i \in 1 .. Len(p) - fill : y[i] = p[fill + i]
        <5> HIDE DEF fill
        <5> DEFINE b == Len(p) - fill
        <5>1. b \in Nat /\ fill + b = Len(p) /\ fill + b <= Len(p)
          BY <4>1
        <5> HIDE DEF b
        <5>0. p \in Seq(S) /\ fill \in Nat
          BY <4>1
        <5>2. /\ SubSeq(p, fill + 1, fill + b) \in Seq(S) /\ Len(SubSeq(p, fill + 1, fill + b)) = b
              /\ \A i \in 1 .. b : SubSeq(p, fill + 1, fill + b)[i] = p[fill + i]
          BY ONLY <5>0, <5>1, Part
        <5> QED  BY <5>1, <5>2 DEF b
      <4> HIDE DEF q, fill
      <4>4. /\ c.buf \o q \in Seq(S) /\ Len(c.buf \o q) = Len(c.buf) + Len(q)
            /\ \A i \in 1 .. Len(c.buf) : (c.buf \o q)[i] = c.buf[i]
            /\ \A i \in 1 .. Len(q) : (c.buf \o q)[Len(c.buf) + i] = q[i]
        <5>1. c.buf \in Seq(S) /\ q \in Seq(S)
          BY <1>3, <4>2
        <5> QED  BY ONLY <5>1, Join
      <4>5. x = c.buf \o q
        BY DEF q
      <4> HIDE DEF x, y
      <4>6. /\ BlockAt(all, 1) \in Seq(S) /\ Len(BlockAt(all, 1)) = Block
            /\ \A j \in 1 .. Block : BlockAt(all, 1)[j] = all[j]
        <5>1. 1 * Block <= Len(all) /\ 1 \in Nat \ {0} /\ (1 - 1) * Block = 0 /\ \A j \in 1 .. Block : 0 + j = j
          BY <1>3, <4>1, Times
        <5>2. /\ BlockAt(all, 1) \in Seq(S) /\ Len(BlockAt(all, 1)) = Block
              /\ \A j \in 1 .. Block : BlockAt(all, 1)[j] = all[(1 - 1) * Block + j]
          BY <1>1, <5>1, BlockIs
        <5> QED  BY <5>1, <5>2
      <4>7. ASSUME NEW j \in 1 .. Block PROVE x[j] = BlockAt(all, 1)[j]
        <5>1. CASE j <= Len(c.buf)
          BY <5>1, <4>4, <4>5, <4>6, <1>3, <1>5
        <5>2. CASE ~ (j <= Len(c.buf))
          <6> DEFINE i == j - Len(c.buf)
          <6>1. i \in 1 .. fill /\ i \in 1 .. Len(p) /\ i \in 1 .. Len(q) /\ Len(c.buf) + i = j
            <7>1. Len(c.buf) \in Nat /\ Block \in Nat /\ Len(p) \in Nat /\ fill \in Nat
              BY <1>3, <1>5, <4>1
            <7>2. fill <= Len(p) /\ Len(c.buf) + fill = Block /\ Len(q) = fill
              BY <4>1, <4>2
            <7> QED  BY <7>1, <7>2, <5>2
          <6> HIDE DEF i
          <6>2. x[j] = q[i] /\ q[i] = p[i] /\ all[j] = p[i]
            BY <6>1, <4>2, <4>4, <4>5, <1>5
          <6> QED  BY <6>2, <4>6
        <5> QED  BY <5>1, <5>2
      <4>8. x = BlockAt(all, 1)
        <5>1. x \in Seq(S) /\ Len(x) = Block
          BY <4>1, <4>2, <4>4, <4>5
        <5> QED  BY <5>1, <4>6, <4>7, Alike
      <4>9. /\ Beyond(all, 1) \in Seq(S) /\ Len(Beyond(all, 1)) = Len(all) - Block
            /\ \A j \in 1 .. Len(all) - Block : Beyond(all, 1)[j] = all[Block + j]
        <5>1. 1 * Block = Block /\ 1 * Block <= Len(all) /\ 1 \in Nat
          BY <1>3, <4>1, Times
        <5>2. /\ Beyond(all, 1) \in Seq(S) /\ Len(Beyond(all, 1)) = Len(all) - 1 * Block
              /\ \A j \in 1 .. Len(all) - 1 * Block : Beyond(all, 1)[j] = all[1 * Block + j]
          BY <1>1, <5>1, BeyondIs
        <5> QED  BY <5>1, <5>2
      <4>10. ASSUME NEW j \in 1 .. Len(p) - fill PROVE y[j] = Beyond(all, 1)[j]
        <5>1. /\ fill + j \in 1 .. Len(p) /\ Len(c.buf) + (fill + j) = Block + j
              /\ j \in 1 .. Len(all) - Block
          <6>1. Len(c.buf) \in Nat /\ Block \in Nat /\ Len(p) \in Nat /\ fill \in Nat
            BY <1>3, <1>5, <4>1
          <6>2. fill <= Len(p) /\ Len(c.buf) + fill = Block /\ Len(all) - Block = Len(p) - fill
            BY <4>1
          <6>4. fill + j \in 1 .. Len(p)
            BY <6>1, <6>2
          <6>5. Len(c.buf) + (fill + j) = Block + j
            <7>1. PICK b \in Nat, z \in Nat, f \in Nat, i \in Nat :
                      b = Len(c.buf) /\ z = Block /\ f = fill /\ i = j
              BY <6>1
            <7>2. b + f = z
              BY <6>2, <7>1
            <7>3. b + (f + i) = z + i
              BY ONLY <7>2
            <7> QED  BY <7>1, <7>3
          <6> QED  BY <6>2, <6>4, <6>5
        <5> QED  BY <5>1, <4>3, <4>9, <1>5
      <4>11. y = Beyond(all, 1)
        <5>1. Len(y) = Len(Beyond(all, 1))
          BY <4>1, <4>3, <4>9
        <5> QED  BY <5>1, <4>3, <4>9, <4>10, Alike
      <4> QED  BY <4>8, <4>11
    <3>2. XxhUpdate(c, p) = XxhStripes(filled, y)
      BY <1>7, <2>2
    <3>3. filled = Made(counted, Compress(c.h, x), <<>>, N)
      BY <1>6, XxhFilledIs
    <3> HIDE DEF x, y, filled
    <3>4. Context(filled) /\ filled.h = Compress(c.h, x) /\ filled.count = N /\ filled.alg = c.alg /\ filled.key = c.key
      BY <3>3, <1>6, MadeIs
    <3>5. XxhUpdate(c, p) = Made(filled, Over(filled.h, Cut(y, n)), Beyond(y, n), filled.count)
      BY <3>2, <3>4, XxhStripesIs
    <3>6. XxhUpdate(c, p) = Made(c, Over(Compress(c.h, x), Cut(y, n)), Beyond(y, n), N)
      BY <3>4, <3>5 DEF Made
    <3>7. /\ 1 * Block = Block /\ Block <= Len(all) /\ y \in Seq(S) /\ Len(y) = Len(all) - Block
      <4>1. 1 * Block = Block /\ Block <= Len(all)
        BY <1>3, <1>5, <2>2, Times
      <4>2. 1 * Block <= Len(all)
        BY <4>1
      <4>3. Beyond(all, 1) \in Seq(S) /\ Len(Beyond(all, 1)) = Len(all) - 1 * Block
        BY <1>1, <4>2, BeyondIs
      <4> QED  BY <3>1, <4>1, <4>3
    <3>8. Blocks(all) = 1 + n
      <4>1. 1 * Block <= Len(all)
        BY <3>7
      <4> QED  BY <1>1, <4>1, <3>1, BlocksSum
    <3>9. n \in Nat /\ n * Block <= Len(y) /\ n * Block \in Nat /\ (1 + n) * Block = Block + n * Block
      <4>1. n \in Nat /\ n * Block <= Len(y)
        BY <3>7, BlocksAre
      <4> HIDE DEF n
      <4> QED  BY <4>1, <1>3, Times
    <3> HIDE DEF n
    <3>10. (1 + n) * Block <= Len(all)
      BY <1>3, <1>5, <3>7, <3>9
    <3>11. Over(c.h, Cut(all, 1 + n)) = Over(Compress(c.h, BlockAt(all, 1)), Cut(Beyond(all, 1), n))
      BY <1>1, <3>9, <3>10, OneBlock
    <3>12. Beyond(all, 1 + n) = Beyond(Beyond(all, 1), n)
      <4>1. 1 * Block <= Len(all) /\ n * Block <= Len(all) - 1 * Block
        BY <3>7, <3>9
      <4> QED  BY <1>1, <3>9, <4>1, BeyondBeyond
    <3> QED  BY <3>1, <3>6, <3>8, <3>11, <3>12
  <2>3. CASE ~ (Len(c.buf) + Len(p) < Block) /\ c.buf = <<>>
    <3>1. all = p
      BY <1>4, <2>3
    <3>2. XxhUpdate(c, p) = XxhStripes(counted, all)
      BY <1>7, <2>3, <3>1
    <3>3. XxhUpdate(c, p) = Made(counted, H, B, N)
      BY <1>6, <3>2, XxhStripesIs
    <3> QED  BY <3>3, <1>6 DEF Made
  <2> QED  BY <2>1, <2>2, <2>3
<1> DEFINE e == XxhUpdate(c, p)
<1> HIDE DEF H, B, N, e
<1>9. e.h = H /\ e.buf = B /\ e.count = N /\ e.alg = c.alg /\ e.key = c.key /\ Context(e)
  <2>1. e = Made(c, H, B, N)
    BY <1>8 DEF e
  <2> QED  BY <2>1, MadeIs
<1>10. Holds(e, g, d \o p)
  BY <1>1, <1>9, Zenon DEF Holds
<1> QED  BY <1>9, <1>10 DEF e

-----------------------------------------------------------------------------
(* Rows of any cells.                                                      *)

Row(s) == \E S : s \in Seq(S)

\* Two rows are of one set of cells.
LEMMA CommonRows ==
    ASSUME NEW s, NEW t, Row(s), Row(t)
    PROVE  \E S : s \in Seq(S) /\ t \in Seq(S)
<1>1. PICK S : s \in Seq(S)
  BY DEF Row
<1>2. PICK T : t \in Seq(T)
  BY DEF Row
<1>3. s \in Seq(S \cup T) /\ t \in Seq(S \cup T)
  BY <1>1, <1>2
<1> QED  BY <1>3

\* A function on 1 .. n is a row.
LEMMA RowOf ==
    ASSUME NEW s, NEW n \in Nat, s = [i \in 1 .. n |-> s[i]]
    PROVE  Row(s) /\ Len(s) = n
<1> DEFINE S == {s[i] : i \in 1 .. n}
<1>1. s \in [1 .. n -> S]
  <2>1. \A i \in 1 .. n : s[i] \in S
    OBVIOUS
  <2> HIDE DEF S
  <2> QED  BY <2>1
<1> HIDE DEF S
<1>2. s \in Seq(S) /\ Len(s) = n
  BY <1>1
<1> QED  BY <1>2 DEF Row

\* Two rows put together.
LEMMA RowsJoin ==
    ASSUME NEW s, NEW t, Row(s), Row(t)
    PROVE  /\ Row(s \o t) /\ Len(s \o t) = Len(s) + Len(t) /\ Len(s) \in Nat /\ Len(t) \in Nat
           /\ \A i \in 1 .. Len(s) : (s \o t)[i] = s[i]
           /\ \A i \in 1 .. Len(t) : (s \o t)[Len(s) + i] = t[i]
<1>1. PICK S : s \in Seq(S) /\ t \in Seq(S)
  BY CommonRows
<1>2. /\ s \o t \in Seq(S) /\ Len(s \o t) = Len(s) + Len(t)
      /\ \A i \in 1 .. Len(s) : (s \o t)[i] = s[i]
      /\ \A i \in 1 .. Len(t) : (s \o t)[Len(s) + i] = t[i]
  BY ONLY <1>1, Join
<1>3. Len(s) \in Nat /\ Len(t) \in Nat
  BY <1>1
<1> QED  BY <1>2, <1>3 DEF Row

\* Rows of one length and the same cells are one.
LEMMA RowsAlike ==
    ASSUME NEW s, NEW t, Row(s), Row(t), Len(s) = Len(t), \A i \in 1 .. Len(s) : s[i] = t[i]
    PROVE  s = t
<1>1. PICK S : s \in Seq(S) /\ t \in Seq(S)
  BY CommonRows
<1> QED  BY <1>1, Alike

\* A row cut in two at a place tells both parts.
Halves(s, t, n, w) == Row(s) /\ Row(t) /\ n = Len(s) /\ w = s \o t
LEMMA HalvesTell ==
    ASSUME NEW s, NEW t, NEW u, NEW v, NEW n, NEW w, Halves(s, t, n, w), Halves(u, v, n, w)
    PROVE  s = u /\ t = v
<1>1. Row(s) /\ Row(t) /\ n = Len(s) /\ w = s \o t
  BY DEF Halves
<1>2. Row(u) /\ Row(v) /\ n = Len(u) /\ w = u \o v
  BY DEF Halves
<1>3. /\ Len(w) = Len(s) + Len(t) /\ Len(s) \in Nat /\ Len(t) \in Nat
      /\ \A i \in 1 .. Len(s) : w[i] = s[i]
      /\ \A i \in 1 .. Len(t) : w[Len(s) + i] = t[i]
  <2>1. Row(s) /\ Row(t)
    BY <1>1
  <2>2. /\ Len(s \o t) = Len(s) + Len(t) /\ Len(s) \in Nat /\ Len(t) \in Nat
        /\ \A i \in 1 .. Len(s) : (s \o t)[i] = s[i]
        /\ \A i \in 1 .. Len(t) : (s \o t)[Len(s) + i] = t[i]
    BY ONLY <2>1, RowsJoin
  <2> QED  BY ONLY <1>1, <2>2, Zenon
<1>4. /\ Len(w) = Len(u) + Len(v) /\ Len(u) \in Nat /\ Len(v) \in Nat
      /\ \A i \in 1 .. Len(u) : w[i] = u[i]
      /\ \A i \in 1 .. Len(v) : w[Len(u) + i] = v[i]
  <2>1. Row(u) /\ Row(v)
    BY <1>2
  <2>2. /\ Len(u \o v) = Len(u) + Len(v) /\ Len(u) \in Nat /\ Len(v) \in Nat
        /\ \A i \in 1 .. Len(u) : (u \o v)[i] = u[i]
        /\ \A i \in 1 .. Len(v) : (u \o v)[Len(u) + i] = v[i]
    BY ONLY <2>1, RowsJoin
  <2> QED  BY ONLY <1>2, <2>2, Zenon
<1>5. Len(s) = Len(u)
  BY <1>1, <1>2
<1>6. Len(t) = Len(v)
  BY ONLY <1>3, <1>4, <1>5
<1>7. \A i \in 1 .. Len(s) : s[i] = u[i]
  BY ONLY <1>3, <1>4, <1>5
<1>8. \A i \in 1 .. Len(t) : t[i] = v[i]
  BY ONLY <1>3, <1>4, <1>5, <1>6
<1>9. s = u
  BY <1>1, <1>2, <1>5, <1>7, RowsAlike
<1>10. t = v
  BY <1>1, <1>2, <1>6, <1>8, RowsAlike
<1> QED  BY <1>9, <1>10

\* Of two rows put together and as long, each is the same.
LEMMA RowsTell ==
    ASSUME NEW s, NEW t, NEW u, NEW v, Row(s), Row(t), Row(u), Row(v),
           Len(s) = Len(u), s \o t = u \o v
    PROVE  s = u /\ t = v
<1>1. Halves(s, t, Len(s), s \o t)
  BY DEF Halves
<1>2. Halves(u, v, Len(s), s \o t)
  BY Zenon DEF Halves
<1> QED  BY ONLY <1>1, <1>2, HalvesTell, Zenon

\* A row filled up with zeros.
LEMMA Padded ==
    ASSUME NEW d, Row(d), NEW n \in Nat, Len(d) <= n
    PROVE  /\ Row(Pad(d, n)) /\ Len(Pad(d, n)) = n /\ Len(d) \in Nat
           /\ \A i \in 1 .. Len(d) : Pad(d, n)[i] = d[i]
           /\ \A i \in Len(d) + 1 .. n : Pad(d, n)[i] = Zero
<1> DEFINE m == n - Len(d)
           z == [i \in 1 .. m |-> Zero]
<1>1. Len(d) \in Nat
  BY DEF Row
<1>2. m \in Nat /\ Len(d) + m = n
  BY <1>1
<1>3. Pad(d, n) = d \o z
  BY DEF Pad
<1> HIDE DEF m
<1>4. z = [i \in 1 .. m |-> z[i]] /\ \A i \in 1 .. m : z[i] = Zero
  OBVIOUS
<1> HIDE DEF z
<1>5. Row(z) /\ Len(z) = m
  BY <1>2, <1>4, RowOf
<1>6. /\ Row(d \o z) /\ Len(d \o z) = Len(d) + Len(z)
      /\ \A i \in 1 .. Len(d) : (d \o z)[i] = d[i]
      /\ \A i \in 1 .. Len(z) : (d \o z)[Len(d) + i] = z[i]
  BY <1>5, RowsJoin
<1>7. ASSUME NEW i \in Len(d) + 1 .. n PROVE (d \o z)[i] = Zero
  <2> DEFINE j == i - Len(d)
  <2>1. j \in 1 .. m /\ Len(d) + j = i
    BY <1>1, <1>2
  <2> HIDE DEF j
  <2> QED  BY <2>1, <1>4, <1>5, <1>6
<1> QED  BY <1>1, <1>2, <1>3, <1>5, <1>6, <1>7

\* A row with one cell more.
LEMMA Appended ==
    ASSUME NEW d, Row(d), NEW x
    PROVE  /\ Row(Append(d, x)) /\ Len(Append(d, x)) = Len(d) + 1 /\ Len(d) \in Nat
           /\ \A i \in 1 .. Len(d) : Append(d, x)[i] = d[i]
           /\ Append(d, x)[Len(d) + 1] = x
<1>1. PICK S : d \in Seq(S)
  BY DEF Row
<1>2. d \in Seq(S \cup {x})
  BY <1>1
<1>3. Append(d, x) \in Seq(S \cup {x})
  BY <1>2
<1>4. /\ Len(Append(d, x)) = Len(d) + 1 /\ Len(d) \in Nat
      /\ \A i \in 1 .. Len(d) : Append(d, x)[i] = d[i]
      /\ Append(d, x)[Len(d) + 1] = x
  BY <1>2
<1> QED  BY <1>3, <1>4 DEF Row

\* A block of a row.
LEMMA BlockOfRow ==
    ASSUME NEW s, Row(s), NEW i \in Nat \ {0}, i * Block <= Len(s)
    PROVE  /\ Row(BlockAt(s, i)) /\ Len(BlockAt(s, i)) = Block
           /\ \A j \in 1 .. Block : BlockAt(s, i)[j] = s[(i - 1) * Block + j]
<1>1. PICK S : s \in Seq(S)
  BY DEF Row
<1> QED  BY <1>1, BlockIs DEF Row

\* What all blocks tell.
LEMMA BlocksTell ==
    ASSUME NEW e, NEW f, Row(e), Row(f), NEW n \in Nat, Len(e) = n * Block, Len(f) = n * Block,
           \A i \in 1 .. n : BlockAt(e, i) = BlockAt(f, i)
    PROVE  e = f
<1>0. Block \in Nat \ {0}
  BY BlockAssumption
<1>1. ASSUME NEW x \in 1 .. Len(e) PROVE e[x] = f[x]
  <2> DEFINE q == (x - 1) \div Block
             a == q * Block
             j == x - a
  <2>1. n * Block \in Nat
    BY <1>0, Times
  <2>2. x - 1 \in Nat /\ x <= n * Block
    BY <2>1
  <2>3. q \in Nat /\ a <= x - 1 /\ x - 1 < a + Block
    BY <1>0, <2>2, Quotient
  <2> HIDE DEF q
  <2>4. a \in Nat /\ (q + 1) * Block = a + Block
    BY <1>0, <2>3, Times
  <2>5. (q < n => a + Block <= n * Block) /\ (n <= q => n * Block <= a)
    BY <1>0, <2>3, Times
  <2> HIDE DEF a
  <2>6. q < n
    BY <2>1, <2>2, <2>3, <2>4, <2>5
  <2>7. j \in 1 .. Block /\ a + j = x
    BY <1>0, <2>3, <2>4
  <2> HIDE DEF j
  <2>8. q + 1 \in Nat \ {0} /\ q + 1 \in 1 .. n /\ (q + 1) * Block <= Len(e) /\ (q + 1) * Block <= Len(f)
        /\ (q + 1) - 1 = q
    BY <2>3, <2>4, <2>5, <2>6
  <2>9. BlockAt(e, q + 1)[j] = e[q * Block + j] /\ BlockAt(f, q + 1)[j] = f[q * Block + j]
    <3>1. \A i \in 1 .. Block : BlockAt(e, q + 1)[i] = e[((q + 1) - 1) * Block + i]
      BY <2>8, BlockOfRow
    <3>2. \A i \in 1 .. Block : BlockAt(f, q + 1)[i] = f[((q + 1) - 1) * Block + i]
      BY <2>8, BlockOfRow
    <3> QED  BY <3>1, <3>2, <2>7, <2>8
  <2>10. e[a + j] = f[a + j]
    BY <2>8, <2>9 DEF a
  <2> QED  BY <2>7, <2>10
<1> QED  BY <1>1, RowsAlike

-----------------------------------------------------------------------------
(* The ends.                                                               *)

\* What comes behind leaves the blocks in front as they are.
LEMMA BlockOfFrontRow ==
    ASSUME NEW d, Row(d), NEW e, Row(e), \A i \in 1 .. Len(d) : e[i] = d[i],
           NEW i \in Nat \ {0}, i * Block <= Len(d), Len(d) <= Len(e)
    PROVE  BlockAt(e, i) = BlockAt(d, i)
<1>1. Block \in Nat \ {0} /\ (i - 1) * Block \in Nat /\ (i - 1) * Block + Block = i * Block
  BY BlockAssumption, Times
<1>2. Len(d) \in Nat /\ Len(e) \in Nat
  BY DEF Row
<1>3. i * Block <= Len(e)
  BY <1>1, <1>2
<1>4. /\ Row(BlockAt(d, i)) /\ Len(BlockAt(d, i)) = Block
      /\ \A j \in 1 .. Block : BlockAt(d, i)[j] = d[(i - 1) * Block + j]
  BY BlockOfRow
<1>5. /\ Row(BlockAt(e, i)) /\ Len(BlockAt(e, i)) = Block
      /\ \A j \in 1 .. Block : BlockAt(e, i)[j] = e[(i - 1) * Block + j]
  BY <1>3, BlockOfRow
<1>6. \A j \in 1 .. Block : (i - 1) * Block + j \in 1 .. Len(d)
  BY <1>1, <1>2
<1>7. \A j \in 1 .. Len(BlockAt(e, i)) : BlockAt(e, i)[j] = BlockAt(d, i)[j]
  BY <1>4, <1>5, <1>6
<1> QED  BY <1>4, <1>5, <1>7, RowsAlike

\* What is left of a row behind its whole blocks.
LEMMA BeyondRow ==
    ASSUME NEW d, Row(d)
    PROVE  LET k == Blocks(d)
           IN  /\ Block \in Nat \ {0} /\ Len(d) \in Nat /\ k \in Nat /\ k * Block \in Nat
               /\ k * Block <= Len(d) /\ Len(d) < k * Block + Block
               /\ Row(Beyond(d, k)) /\ Len(Beyond(d, k)) = Len(d) - k * Block
               /\ \A j \in 1 .. Len(d) - k * Block : Beyond(d, k)[j] = d[k * Block + j]
<1> DEFINE k == Blocks(d)
<1>1. PICK S : d \in Seq(S)
  BY DEF Row
<1>2. /\ Block \in Nat \ {0} /\ Len(d) \in Nat
      /\ k \in Nat /\ k * Block <= Len(d) /\ Len(d) < k * Block + Block
  BY <1>1, BlocksAre
<1> HIDE DEF k
<1>3. k * Block \in Nat
  BY <1>2, Times
<1>4. /\ Beyond(d, k) \in Seq(S) /\ Len(Beyond(d, k)) = Len(d) - k * Block
      /\ \A j \in 1 .. Len(d) - k * Block : Beyond(d, k)[j] = d[k * Block + j]
  BY <1>1, <1>2, BeyondIs
<1>5. Row(Beyond(d, k))
  BY <1>4 DEF Row
<1> QED  BY <1>2, <1>3, <1>4, <1>5 DEF k

\* With the mark, zeroes and the length, in n blocks.
Ended(d, n) == Append(Pad(Append(d, Mark), n * Block - 1), <<Len(d)>>)

\* An input with its mark, zeros and length.
LEMMA EndedIs ==
    ASSUME NEW d, Row(d), NEW n \in Nat, Len(d) + 2 <= n * Block
    PROVE  /\ Row(Ended(d, n)) /\ Len(Ended(d, n)) = n * Block /\ Len(d) \in Nat /\ n * Block \in Nat
           /\ \A i \in 1 .. Len(d) : Ended(d, n)[i] = d[i]
           /\ Ended(d, n)[Len(d) + 1] = Mark
           /\ \A i \in Len(d) + 2 .. n * Block - 1 : Ended(d, n)[i] = Zero
           /\ Ended(d, n)[n * Block] = <<Len(d)>>
<1> DEFINE a == Append(d, Mark)
           l == n * Block - 1
           b == Pad(a, l)
           e == Append(b, <<Len(d)>>)
<1>1. /\ Row(a) /\ Len(a) = Len(d) + 1 /\ Len(d) \in Nat
      /\ \A i \in 1 .. Len(d) : a[i] = d[i]
      /\ a[Len(d) + 1] = Mark
  BY Appended
<1>2. n * Block \in Nat
  BY BlockAssumption, Times
<1>3. l \in Nat /\ Len(a) <= l /\ l + 1 = n * Block /\ Len(d) + 1 <= l
  BY <1>1, <1>2
<1> HIDE DEF a, l
<1>4. /\ Row(b) /\ Len(b) = l
      /\ \A i \in 1 .. Len(a) : b[i] = a[i]
      /\ \A i \in Len(a) + 1 .. l : b[i] = Zero
  BY <1>1, <1>3, Padded
<1> HIDE DEF b
<1>5. /\ Row(e) /\ Len(e) = l + 1
      /\ \A i \in 1 .. l : e[i] = b[i]
      /\ e[l + 1] = <<Len(d)>>
  BY <1>4, Appended
<1>6. e = Ended(d, n)
  BY DEF Ended, a, b, l
<1> HIDE DEF e
<1>7. \A i \in 1 .. Len(d) : e[i] = d[i]
  <2>1. \A i \in 1 .. Len(d) : i \in 1 .. l /\ i \in 1 .. Len(a)
    BY <1>1, <1>3
  <2> QED  BY <2>1, <1>1, <1>4, <1>5
<1>8. e[Len(d) + 1] = Mark
  <2>1. Len(d) + 1 \in 1 .. l /\ Len(d) + 1 \in 1 .. Len(a)
    BY <1>1, <1>3
  <2> QED  BY <2>1, <1>1, <1>4, <1>5
<1>9. \A i \in Len(d) + 2 .. l : e[i] = Zero
  <2>1. \A i \in Len(d) + 2 .. l : i \in 1 .. l /\ i \in Len(a) + 1 .. l
    BY <1>1, <1>3
  <2> QED  BY <2>1, <1>4, <1>5
<1> QED  BY <1>1, <1>2, <1>3, <1>5, <1>6, <1>7, <1>8, <1>9 DEF l

ShaBlocks(d) == (Len(d) + 1 + (Block - LengthAt) + Block - 1) \div Block

\* SHA-256 as a row of blocks.
LEMMA RefShaIs == \A d : RefSha(d) = Over(<<"sha256">>, Cut(Ended(d, ShaBlocks(d)), ShaBlocks(d)))
BY Zenon DEF RefSha, Ended, ShaBlocks, Cut

\* How many blocks an input needs with its mark and length.
LEMMA ShaBlocksAre ==
    ASSUME NEW d, Row(d)
    PROVE  /\ ShaBlocks(d) \in Nat /\ Len(d) + 2 <= ShaBlocks(d) * Block
           /\ ShaBlocks(d) = Blocks(d) + (IF Len(d) - Blocks(d) * Block + 2 <= Block THEN 1 ELSE 2)
<1> DEFINE k == Blocks(d)
           n == k + (IF Len(d) - k * Block + 2 <= Block THEN 1 ELSE 2)
           l == Len(d) + Block + 1
<1>1. /\ Block \in Nat \ {0} /\ Len(d) \in Nat /\ k \in Nat /\ k * Block \in Nat
      /\ k * Block <= Len(d) /\ Len(d) < k * Block + Block
  BY BeyondRow
<1> HIDE DEF k
<1>2. Len(d) + 1 + (Block - LengthAt) + Block - 1 = l
  BY <1>1 DEF LengthAt
<1>3. n \in Nat /\ (k + 1) * Block = k * Block + Block /\ (k + 2) * Block = k * Block + 2 * Block
  <2>1. (k + 1) * Block = k * Block + 1 * Block /\ (k + 2) * Block = k * Block + 2 * Block /\ 1 * Block = Block
    BY <1>1, Times
  <2> QED  BY <2>1, <1>1
<1>4. l \in Nat /\ n * Block <= l /\ l < n * Block + Block
  <2>1. CASE Len(d) - k * Block + 2 <= Block
    BY <2>1, <1>1, <1>3
  <2>2. CASE ~ (Len(d) - k * Block + 2 <= Block)
    BY <2>2, <1>1, <1>3
  <2> QED  BY <2>1, <2>2
<1>5. l \div Block = n
  <2> HIDE DEF l, n
  <2> QED  BY <1>1, <1>3, <1>4, Quotient
<1>6. Len(d) + 2 <= n * Block
  <2>1. CASE Len(d) - k * Block + 2 <= Block
    BY <2>1, <1>1, <1>3
  <2>2. CASE ~ (Len(d) - k * Block + 2 <= Block)
    BY <2>2, <1>1, <1>3
  <2> QED  BY <2>1, <2>2
<1>7. ShaBlocks(d) = n
  BY <1>2, <1>5, Zenon DEF ShaBlocks
<1> QED  BY <1>3, <1>6, <1>7 DEF k

\* One block more than k.
LEMMA CutOneMore ==
    ASSUME NEW g, NEW e, NEW d, NEW k \in Nat, \A i \in 1 .. k : BlockAt(e, i) = BlockAt(d, i)
    PROVE  Over(g, Cut(e, k + 1)) = Compress(Over(g, Cut(d, k)), BlockAt(e, k + 1))
<1> DEFINE xs == Cut(d, k)
           zs == Cut(e, k + 1)
<1>1. Len(xs) = k /\ Len(zs) = k + 1 /\ zs[k + 1] = BlockAt(e, k + 1)
  BY DEF Cut
<1>2. ASSUME NEW i \in 1 .. k PROVE zs[i] = xs[i]
  BY DEF Cut
<1> HIDE DEF xs, zs
<1>3. Over(g, zs) = Compress(Over(g, xs), zs[k + 1])
  BY <1>1, <1>2, OverOneMore
<1> QED  BY <1>1, <1>3 DEF xs, zs

\* amisnap_sha256_final(): in the last block, or in one more.
LEMMA ShaEnds ==
    ASSUME NEW d, Row(d), NEW c, Holds(c, <<"sha256">>, d)
    PROVE  ShaFinal(c) = RefSha(d)
<1> DEFINE k == Blocks(d)
           n == ShaBlocks(d)
           e == Ended(d, n)
           r == Beyond(d, k)
           a == Append(r, Mark)
           o == k * Block
           g == <<"sha256">>
<1>1. /\ Block \in Nat \ {0} /\ Len(d) \in Nat /\ k \in Nat /\ o \in Nat
      /\ o <= Len(d) /\ Len(d) < o + Block
      /\ Row(r) /\ Len(r) = Len(d) - o
      /\ \A j \in 1 .. Len(d) - o : r[j] = d[o + j]
  BY BeyondRow
<1>2. n \in Nat /\ Len(d) + 2 <= n * Block /\ n = k + (IF Len(d) - o + 2 <= Block THEN 1 ELSE 2)
  BY ShaBlocksAre
<1>3. c.buf = r /\ c.count = Len(d) /\ c.h = Over(g, Cut(d, k))
  BY DEF Holds
<1>4. RefSha(d) = Over(g, Cut(e, n))
  BY RefShaIs
<1> HIDE DEF k, r, n, g
<1>5. /\ Row(e) /\ Len(e) = n * Block /\ n * Block \in Nat
      /\ \A i \in 1 .. Len(d) : e[i] = d[i]
      /\ e[Len(d) + 1] = Mark
      /\ \A i \in Len(d) + 2 .. n * Block - 1 : e[i] = Zero
      /\ e[n * Block] = <<Len(d)>>
  BY <1>2, EndedIs
<1> HIDE DEF e
<1>6. /\ Row(a) /\ Len(a) = Len(r) + 1
      /\ \A i \in 1 .. Len(r) : a[i] = r[i]
      /\ a[Len(r) + 1] = Mark
  BY <1>1, Appended
<1> HIDE DEF a
<1>7. (k + 1) * Block = o + Block /\ (k + 2) * Block = o + 2 * Block /\ k + 1 \in Nat \ {0} /\ k + 2 \in Nat \ {0}
  <2>1. (k + 1) * Block = k * Block + 1 * Block /\ (k + 2) * Block = k * Block + 2 * Block /\ 1 * Block = Block
    BY <1>1, Times
  <2> QED  BY <2>1, <1>1
<1>8. ASSUME NEW i \in 1 .. k PROVE BlockAt(e, i) = BlockAt(d, i)
  <2>1. i \in Nat \ {0} /\ i * Block <= k * Block /\ i * Block \in Nat
    BY <1>1, Times
  <2>2. i * Block <= Len(d)
    <3> HIDE DEF o
    <3>1. i * Block <= o
      BY <2>1 DEF o
    <3> QED  BY <3>1, <2>1, <1>1
  <2>3. Len(d) <= Len(e)
    <3>1. Len(e) = n * Block /\ Len(d) + 2 <= n * Block /\ n * Block \in Nat /\ Len(d) \in Nat
      BY <1>1, <1>2, <1>5, Zenon
    <3>2. Len(d) + 2 <= Len(e) /\ Len(e) \in Nat /\ Len(d) \in Nat
      BY ONLY <3>1, Zenon
    <3> QED  BY ONLY <3>2
  <2> QED  BY <2>1, <2>2, <2>3, <1>5, BlockOfFrontRow
<1>9. Over(g, Cut(e, k + 1)) = Compress(c.h, BlockAt(e, k + 1))
  BY <1>1, <1>3, <1>8, CutOneMore
<1> DEFINE l == Block - 1
<1>10. l \in Nat /\ l + 1 = Block
  BY <1>1
<1>11. ShaFinal(c) =
         IF Len(a) <= l THEN Compress(c.h, Append(Pad(a, l), <<Len(d)>>))
         ELSE Compress(Compress(c.h, Pad(a, Block)), Append(Pad(<<>>, l), <<Len(d)>>))
  BY <1>3, Zenon DEF ShaFinal, LengthAt, a
\* The cells of a block of e.
<1>12. ASSUME NEW q \in {k + 1, k + 2}, q <= n
       PROVE  /\ Row(BlockAt(e, q)) /\ Len(BlockAt(e, q)) = Block
              /\ \A j \in 1 .. Block : BlockAt(e, q)[j] = e[(q - 1) * Block + j]
  <2>0. q \in Nat \ {0}
    BY <1>7
  <2>1. q \in Nat \ {0} /\ q * Block <= n * Block
    BY ONLY <2>0, <1>1, <1>2, <1>12, Times
  <2> QED  BY <2>1, <1>5, <1>12, BlockOfRow
<1>13. CASE Len(a) <= l
  <2> DEFINE y == Append(Pad(a, l), <<Len(d)>>)
             z == BlockAt(e, k + 1)
             b == Pad(a, l)
  <2>1. n = k + 1 /\ n * Block = o + Block
    BY <1>1, <1>2, <1>6, <1>7, <1>10, <1>13
  <2>2. /\ Row(b) /\ Len(b) = l
        /\ \A i \in 1 .. Len(a) : b[i] = a[i]
        /\ \A i \in Len(a) + 1 .. l : b[i] = Zero
    BY <1>6, <1>10, <1>13, Padded
  <2> HIDE DEF b
  <2>3. /\ Row(y) /\ Len(y) = l + 1
        /\ \A i \in 1 .. l : y[i] = b[i]
        /\ y[l + 1] = <<Len(d)>>
    <3>1. /\ Row(Append(b, <<Len(d)>>)) /\ Len(Append(b, <<Len(d)>>)) = Len(b) + 1
          /\ \A i \in 1 .. Len(b) : Append(b, <<Len(d)>>)[i] = b[i]
          /\ Append(b, <<Len(d)>>)[Len(b) + 1] = <<Len(d)>>
      BY <2>2, Appended
    <3>2. y = Append(b, <<Len(d)>>)
      BY DEF b
    <3> QED  BY ONLY <2>2, <3>1, <3>2
  <2>4. /\ Row(z) /\ Len(z) = Block
        /\ \A j \in 1 .. Block : z[j] = e[o + j]
    <3>1. k + 1 \in {k + 1, k + 2} /\ k + 1 <= n /\ (k + 1) - 1 = k
      BY <1>1, <2>1
    <3>2. /\ Row(z) /\ Len(z) = Block
          /\ \A j \in 1 .. Block : z[j] = e[((k + 1) - 1) * Block + j]
      BY <3>1, <1>12
    <3> QED  BY <3>1, <3>2
  <2> HIDE DEF y, z
  <2>5. ASSUME NEW j \in 1 .. Block PROVE y[j] = z[j]
    <3>0. j \in Nat /\ j <= Block /\ Len(r) \in Nat /\ o + j \in Nat /\ o + Len(r) = Len(d) /\ Len(a) = Len(r) + 1 /\ Len(r) + 2 <= Block
      BY <1>1, <1>6, <1>10, <1>13
    <3>1. CASE j <= Len(r)
      <4>1. j \in 1 .. l /\ j \in 1 .. Len(a) /\ j \in 1 .. Len(r) /\ o + j \in 1 .. Len(d) /\ j \in 1 .. Len(d) - o
        BY <3>0, <3>1, <1>1, <1>10
      <4> QED  BY <4>1, <1>1, <1>5, <1>6, <2>2, <2>3, <2>4
    <3>2. CASE j = Len(r) + 1
      <4>1. j \in 1 .. l /\ j \in 1 .. Len(a) /\ o + j = Len(d) + 1
        BY <3>0, <3>2, <1>1, <1>10
      <4> QED  BY <4>1, <3>2, <1>5, <1>6, <2>2, <2>3, <2>4
    <3>3. CASE Len(r) + 1 < j /\ j < Block
      <4>1. j \in 1 .. l /\ j \in Len(a) + 1 .. l /\ o + j \in Len(d) + 2 .. n * Block - 1
        BY <3>0, <3>3, <1>1, <1>10, <2>1
      <4> QED  BY <4>1, <1>5, <2>2, <2>3, <2>4
    <3>4. CASE j = Block
      <4>1. j = l + 1 /\ o + j = n * Block
        BY <3>4, <1>10, <2>1
      <4> QED  BY <4>1, <1>5, <2>3, <2>4
    <3>5. Block \in Nat
      BY <1>1
    <3>6. j <= Len(r) \/ j = Len(r) + 1 \/ (Len(r) + 1 < j /\ j < Block) \/ j = Block
      BY ONLY <3>0, <3>5
    <3> QED  BY <3>1, <3>2, <3>3, <3>4, <3>6
  <2>6. y = z
    BY <1>10, <2>3, <2>4, <2>5, RowsAlike
  <2> QED  BY <1>4, <1>9, <1>11, <1>13, <2>1, <2>6 DEF y, z
<1>14. CASE ~ (Len(a) <= l)
  <2> DEFINE b == Pad(<<>>, l)
             x == Pad(a, Block)
             y == Append(b, <<Len(d)>>)
             w == BlockAt(e, k + 1)
             z == BlockAt(e, k + 2)
  <2>1. n = k + 2 /\ n * Block = o + 2 * Block /\ Len(a) = Block /\ Len(r) = l /\ o + Block = Len(d) + 1
    BY <1>1, <1>2, <1>6, <1>7, <1>10, <1>14
  <2>2. /\ Row(x) /\ Len(x) = Block /\ \A i \in 1 .. Len(a) : x[i] = a[i]
    <3>1. Block \in Nat /\ Len(a) <= Block
      BY <1>1, <2>1
    <3> QED  BY <3>1, <1>6, Padded
  <2>3. /\ Row(b) /\ Len(b) = l /\ \A i \in 1 .. l : b[i] = Zero
    <3>1. Row(<<>>) /\ Len(<<>>) = 0
      <4>1. <<>> \in Seq({0})
        OBVIOUS
      <4> QED  BY <4>1 DEF Row
    <3>2. /\ Row(Pad(<<>>, l)) /\ Len(Pad(<<>>, l)) = l
          /\ \A i \in Len(<<>>) + 1 .. l : Pad(<<>>, l)[i] = Zero
      BY <1>10, <3>1, Padded
    <3> QED  BY <3>1, <3>2
  <2> HIDE DEF x, b
  <2>4. /\ Row(y) /\ Len(y) = Len(b) + 1
        /\ \A i \in 1 .. Len(b) : y[i] = b[i]
        /\ y[Len(b) + 1] = <<Len(d)>>
    BY <2>3, Appended
  <2>5. /\ Row(w) /\ Len(w) = Block /\ \A j \in 1 .. Block : w[j] = e[o + j]
    <3>1. k + 1 \in {k + 1, k + 2} /\ k + 1 <= n /\ (k + 1) - 1 = k
      BY <1>1, <2>1
    <3>2. /\ Row(w) /\ Len(w) = Block
          /\ \A j \in 1 .. Block : w[j] = e[((k + 1) - 1) * Block + j]
      BY <3>1, <1>12
    <3> QED  BY <3>1, <3>2
  <2>6. /\ Row(z) /\ Len(z) = Block /\ \A j \in 1 .. Block : z[j] = e[(o + Block) + j]
    <3>1. k + 2 \in {k + 1, k + 2} /\ k + 2 <= n /\ (k + 2) - 1 = k + 1
      BY <1>1, <2>1
    <3>2. /\ Row(z) /\ Len(z) = Block
          /\ \A j \in 1 .. Block : z[j] = e[((k + 2) - 1) * Block + j]
      BY <3>1, <1>12
    <3> QED  BY <3>1, <3>2, <1>7
  <2> HIDE DEF y, w, z
  <2>7. ASSUME NEW j \in 1 .. Block PROVE x[j] = w[j]
    <3>0. j \in Nat /\ o + Len(r) = Len(d) /\ Len(r) \in Nat /\ Len(r) + 1 = Block /\ Len(a) = Len(r) + 1
      BY <1>1, <1>6, <1>10, <2>1
    <3>1. CASE j <= Len(r)
      <4>1. j \in 1 .. Len(a) /\ j \in 1 .. Len(r) /\ o + j \in 1 .. Len(d) /\ j \in 1 .. Len(d) - o
        BY <3>0, <3>1, <1>1
      <4> QED  BY <4>1, <1>1, <1>5, <1>6, <2>2, <2>5
    <3>2. CASE j = Len(r) + 1
      <4>1. j \in 1 .. Len(a) /\ o + j = Len(d) + 1
        BY <3>0, <3>2, <1>1
      <4> QED  BY <4>1, <3>2, <1>5, <1>6, <2>2, <2>5
    <3> QED  BY <3>0, <3>1, <3>2
  <2>8. x = w
    BY <2>2, <2>5, <2>7, RowsAlike
  <2>9. ASSUME NEW j \in 1 .. Block PROVE y[j] = z[j]
    <3>1. CASE j < Block
      <4>1. j \in 1 .. l /\ (o + Block) + j \in Len(d) + 2 .. n * Block - 1
        BY <3>1, <1>1, <1>10, <2>1
      <4> QED  BY <4>1, <1>5, <2>3, <2>4, <2>6
    <3>2. CASE j = Block
      <4>1. j = Len(b) + 1 /\ (o + Block) + j = n * Block
        BY <3>2, <1>1, <1>10, <2>1, <2>3
      <4> QED  BY <4>1, <1>5, <2>4, <2>6
    <3> QED  BY <1>1, <3>1, <3>2
  <2>10. y = z
    <3>1. Len(y) = Block /\ Len(z) = Block
      BY <1>10, <2>3, <2>4, <2>6
    <3> QED  BY <2>4, <2>6, <2>9, <3>1, RowsAlike
  <2>11. Over(g, Cut(e, (k + 1) + 1)) = Compress(Over(g, Cut(e, k + 1)), BlockAt(e, (k + 1) + 1))
    <3>1. k + 1 \in Nat
      BY <1>7
    <3> QED  BY <3>1, CutOneMore
  <2>12. (k + 1) + 1 = k + 2
    BY <1>1
  <2>13. Over(g, Cut(e, n)) = Compress(Compress(c.h, w), z)
    BY <1>9, <2>1, <2>11, <2>12 DEF w, z
  <2> QED  BY <1>4, <1>11, <1>14, <2>8, <2>10, <2>13 DEF x, y, b
<1> QED  BY <1>13, <1>14

\* Different inputs have different hashes.
LEMMA ShaTells ==
    ASSUME NEW d, NEW f, Row(d), Row(f), RefSha(d) = RefSha(f)
    PROVE  d = f
<1> DEFINE m == ShaBlocks(d)
           n == ShaBlocks(f)
           e == Ended(d, m)
           i == Ended(f, n)
           g == <<"sha256">>
<1>1. m \in Nat /\ n \in Nat /\ Len(d) + 2 <= m * Block /\ Len(f) + 2 <= n * Block
  BY ShaBlocksAre
<1>2. /\ Row(e) /\ Len(e) = m * Block /\ Len(d) \in Nat /\ m * Block \in Nat
      /\ \A j \in 1 .. Len(d) : e[j] = d[j]
      /\ e[m * Block] = <<Len(d)>>
  BY <1>1, EndedIs
<1>3. /\ Row(i) /\ Len(i) = n * Block /\ Len(f) \in Nat /\ n * Block \in Nat
      /\ \A j \in 1 .. Len(f) : i[j] = f[j]
      /\ i[n * Block] = <<Len(f)>>
  BY <1>1, EndedIs
<1>4. Over(g, Cut(e, m)) = Over(g, Cut(i, n))
  BY RefShaIs
<1>5. \A a, b : g # <<a, b>>
  OBVIOUS
<1> HIDE DEF e, i, m, n, g
<1> DEFINE xs == Cut(e, m)
           ys == Cut(i, n)
<1>6. Len(xs) = m /\ Len(ys) = n
  BY <1>1 DEF Cut
<1>7. (\A j \in 1 .. m : xs[j] = BlockAt(e, j)) /\ (\A j \in 1 .. n : ys[j] = BlockAt(i, j))
  BY <1>1 DEF Cut
<1> HIDE DEF xs, ys
<1>8. m = n /\ \A j \in 1 .. m : xs[j] = ys[j]
  <2>1. Over(g, xs) = Over(g, ys)
    BY <1>4 DEF xs, ys
  <2> QED  BY <1>1, <1>5, <1>6, <2>1, OverInjective
<1>9. e = i
  BY <1>1, <1>2, <1>3, <1>7, <1>8, BlocksTell
<1>10. Len(d) = Len(f)
  <2>1. <<Len(d)>> = <<Len(f)>>
    BY <1>2, <1>3, <1>8, <1>9
  <2>2. <<Len(d)>>[1] = <<Len(f)>>[1]
    BY <2>1
  <2> QED  BY <2>2
<1>11. \A j \in 1 .. Len(d) : d[j] = f[j]
  BY <1>2, <1>3, <1>9, <1>10
<1> QED  BY <1>10, <1>11, RowsAlike

-----------------------------------------------------------------------------
(* BLAKE2s.                                                                *)

\* The blocks behind which more came.
Full(d) == IF d = <<>> THEN 0 ELSE (Len(d) - 1) \div Block
Counted(d, t, n) == [i \in 1 .. n |-> BlakeItem(BlockAt(d, i), t + i * Block, FALSE)]

BlakeHolds(c, g, d) ==
    /\ Context(c) /\ c.count = Full(d) * Block
    /\ c.h = Over(g, Counted(d, 0, Full(d)))
    /\ c.buf = Beyond(d, Full(d))

\* A block waits until more comes: the last is never put in, whole or not.
LEMMA FullIs ==
    ASSUME NEW d, Row(d)
    PROVE  /\ Block \in Nat \ {0} /\ Len(d) \in Nat /\ Full(d) \in Nat /\ Full(d) * Block \in Nat
           /\ Full(d) * Block <= Len(d) /\ Len(d) <= Full(d) * Block + Block
           /\ (d = <<>> => Full(d) = 0 /\ Len(d) = 0)
           /\ (d # <<>> => Full(d) * Block < Len(d) /\ Len(d) > 0)
           /\ \A k \in Nat : k * Block < Len(d) /\ Len(d) <= k * Block + Block => Full(d) = k
<1>1. Block \in Nat \ {0} /\ Len(d) \in Nat /\ (d = <<>> <=> Len(d) = 0)
  <2>1. PICK S : d \in Seq(S)
    BY DEF Row
  <2> QED  BY <2>1, BlockAssumption
<1>2. CASE d = <<>>
  <2>1. Full(d) = 0 /\ 0 * Block = 0 /\ Len(d) = 0
    BY <1>1, <1>2, Times DEF Full
  <2>2. ASSUME NEW k \in Nat PROVE ~ (k * Block < Len(d))
    <3>1. k * Block \in Nat
      BY <1>1, Times
    <3> QED  BY <3>1, <2>1
  <2> QED  BY <1>1, <1>2, <2>1, <2>2
<1>3. CASE d # <<>>
  <2> DEFINE l == Len(d) - 1
             w == l \div Block
  <2>1. l \in Nat /\ Full(d) = w
    BY <1>1, <1>3 DEF Full
  <2>2. w \in Nat /\ w * Block <= l /\ l < w * Block + Block
        /\ \A k \in Nat : k * Block <= l /\ l < k * Block + Block => w = k
    <3> HIDE DEF l
    <3> QED  BY <1>1, <2>1, Quotient
  <2> HIDE DEF w
  <2>3. w * Block \in Nat
    BY <1>1, <2>2, Times
  <2>4. ASSUME NEW k \in Nat, k * Block < Len(d), Len(d) <= k * Block + Block PROVE w = k
    <3>1. k * Block \in Nat
      BY <1>1, Times
    <3>2. k * Block <= l /\ l < k * Block + Block
      BY <1>1, <2>4, <3>1
    <3> QED  BY <2>2, <3>2
  <2>5. w * Block < Len(d) /\ Len(d) <= w * Block + Block /\ Len(d) > 0
    BY <1>1, <2>1, <2>2, <2>3
  <2>6. w * Block <= Len(d)
    BY <2>5, <1>1, <2>3
  <2> QED  BY <1>1, <1>3, <2>1, <2>2, <2>3, <2>4, <2>5, <2>6
<1> QED  BY <1>2, <1>3

\* Blocks counted on from where the last count ended.
LEMMA OverCounted ==
    ASSUME NEW S, NEW d \in Seq(S), NEW g, NEW k \in Nat, NEW n \in Nat, (k + n) * Block <= Len(d)
    PROVE  Over(g, Counted(d, 0, k + n))
               = Over(Over(g, Counted(d, 0, k)), Counted(Beyond(d, k), k * Block, n))
<1> DEFINE xs == Counted(d, 0, k)
           ys == Counted(Beyond(d, k), k * Block, n)
           zs == Counted(d, 0, k + n)
<1>1. /\ Block \in Nat \ {0} /\ Len(d) \in Nat /\ k * Block \in Nat /\ n * Block \in Nat
      /\ k * Block + n * Block <= Len(d)
  BY BlocksAre, Times
<1>2. k * Block <= Len(d) /\ n * Block <= Len(d) - k * Block
  BY <1>1
<1>3. Len(xs) = k /\ Len(ys) = n /\ Len(zs) = k + n
  BY DEF Counted
<1>4. ASSUME NEW i \in 1 .. k PROVE zs[i] = xs[i]
  <2>1. i \in 1 .. k + n
    OBVIOUS
  <2>2. zs[i] = BlakeItem(BlockAt(d, i), 0 + i * Block, FALSE)
    BY <2>1, Zenon DEF Counted
  <2>3. xs[i] = BlakeItem(BlockAt(d, i), 0 + i * Block, FALSE)
    BY Zenon DEF Counted
  <2> QED  BY <2>2, <2>3
<1>5. ASSUME NEW i \in 1 .. n PROVE zs[k + i] = ys[i]
  <2>1. i \in Nat \ {0} /\ i * Block <= n * Block /\ i * Block \in Nat /\ (k + i) * Block = k * Block + i * Block
    BY <1>1, Times
  <2>2. i * Block <= Len(d) - k * Block
    BY <1>1, <1>2, <2>1
  <2>3. BlockAt(d, k + i) = BlockAt(Beyond(d, k), i)
    BY <1>2, <2>1, <2>2, BlockBeyond
  <2>4. k + i \in 1 .. k + n
    OBVIOUS
  <2>5. zs[k + i] = BlakeItem(BlockAt(d, k + i), 0 + (k + i) * Block, FALSE)
    BY <2>4, Zenon DEF Counted
  <2>6. ys[i] = BlakeItem(BlockAt(Beyond(d, k), i), k * Block + i * Block, FALSE)
    BY Zenon DEF Counted
  <2>7. 0 + (k + i) * Block = k * Block + i * Block
    BY <1>1, <2>1
  <2> QED  BY <2>3, <2>5, <2>6, <2>7
<1> HIDE DEF xs, ys, zs
<1>6. Over(g, zs) = Over(Over(g, xs), ys)
  <2>1. k \in Nat /\ n \in Nat
    OBVIOUS
  <2> QED  BY ONLY <2>1, <1>3, <1>4, <1>5, OverJoins
<1> QED  BY <1>6 DEF xs, ys, zs

\* amisnap_blake2s_update(): the context stands for what it was fed and this.
LEMMA BlakeUpdateHolds ==
    ASSUME NEW S, NEW d \in Seq(S), NEW p \in Seq(S), NEW g, NEW c, BlakeHolds(c, g, d)
    PROVE  /\ BlakeHolds(BlakeUpdate(c, p), g, d \o p)
           /\ BlakeUpdate(c, p).alg = c.alg /\ BlakeUpdate(c, p).key = c.key
<1> DEFINE u == d \o p
           all == Waiting(c, p)
           k == Full(d)
           n == Full(all)
           H == Over(c.h, Counted(all, c.count, n))
           B == Beyond(all, n)
           N == c.count + n * Block
           e == BlakeUpdate(c, p)
<1>1. u \in Seq(S) /\ Len(u) = Len(d) + Len(p) /\ Len(p) \in Nat /\ Len(d) \in Nat
  BY Join
<1>2. /\ Block \in Nat \ {0} /\ k \in Nat /\ k * Block \in Nat
      /\ k * Block <= Len(d) /\ Len(d) <= k * Block + Block
      /\ (d = <<>> => k = 0) /\ (d # <<>> => k * Block < Len(d))
  BY FullIs DEF Row
<1>3. all = Beyond(u, k)
  BY <1>2, BeyondJoin DEF BlakeHolds, Waiting
<1>4. c.h = Over(g, Counted(d, 0, k)) /\ c.count = k * Block /\ Context(c)
  BY DEF BlakeHolds
<1>5. Counted(d, 0, k) = Counted(u, 0, k)
  <2>1. \A i \in 1 .. k : BlockAt(u, i) = BlockAt(d, i)
    BY <1>2, BlocksFit, BlockOfFront
  <2> QED  BY <2>1 DEF Counted
<1>6. e = [c EXCEPT !.h = H, !.buf = B, !.count = N]
  BY Zenon DEF BlakeUpdate, Counted, Waiting, Full
<1> HIDE DEF u, all, k, e
<1>7. k * Block <= Len(u)
  BY <1>1, <1>2
<1>8. all \in Seq(S) /\ Len(all) = Len(u) - k * Block
  <2>1. u \in Seq(S) /\ k \in Nat
    BY <1>1, <1>2
  <2>2. Beyond(u, k) \in Seq(S) /\ Len(Beyond(u, k)) = Len(u) - k * Block
    BY ONLY <2>1, <1>7, BeyondIs
  <2> QED  BY <2>2, <1>3
<1>9. /\ n \in Nat /\ n * Block \in Nat /\ n * Block <= Len(all) /\ Len(all) <= n * Block + Block
      /\ (all = <<>> => n = 0 /\ Len(all) = 0) /\ (all # <<>> => n * Block < Len(all) /\ Len(all) > 0)
  BY <1>8, FullIs DEF Row
<1> HIDE DEF n
<1>10. (k + n) * Block = k * Block + n * Block /\ k + n \in Nat
  BY <1>2, <1>9, Times
<1>11. (k + n) * Block <= Len(u)
  BY <1>1, <1>2, <1>8, <1>9, <1>10
<1>12. Full(u) = k + n
  <2>0. u \in Seq(S) /\ Row(u)
    BY <1>1 DEF Row
  <2>1. CASE Len(u) = 0
    <3>1. u = <<>>
      BY <2>0, <2>1
    <3>2. Full(u) = 0
      BY <3>1 DEF Full
    <3>3. Len(d) = 0 /\ Len(all) = 0
      BY <2>1, <1>1, <1>2, <1>7, <1>8
    <3>4. d = <<>> /\ all = <<>>
      BY <3>3, <1>8
    <3> QED  BY <3>2, <3>4, <1>2, <1>9
  <2>2. CASE Len(u) # 0
    <3>1. Len(all) > 0
      <4>1. CASE d = <<>>
        <5>1. k * Block = 0
          BY <4>1, <1>2, Times
        <5> QED  BY <5>1, <2>2, <1>1, <1>8
      <4>2. CASE d # <<>>
        BY <4>2, <1>1, <1>2, <1>8
      <4> QED  BY <4>1, <4>2
    <3>2. n * Block < Len(all)
      <4>1. all # <<>>
        BY <3>1, <1>9
      <4> QED  BY <4>1, <1>9
    <3>3. (k + n) * Block < Len(u) /\ Len(u) <= (k + n) * Block + Block
      BY <3>2, <1>1, <1>2, <1>8, <1>9, <1>10
    <3> QED  BY <2>0, <3>3, <1>10, FullIs
  <2> QED  BY <2>1, <2>2
<1>13. Over(g, Counted(u, 0, k + n)) = H
  <2>1. u \in Seq(S) /\ k \in Nat /\ n \in Nat
    BY <1>1, <1>2, <1>9
  <2>2. Over(g, Counted(u, 0, k + n))
          = Over(Over(g, Counted(u, 0, k)), Counted(Beyond(u, k), k * Block, n))
    BY ONLY <2>1, <1>11, OverCounted
  <2> QED  BY <2>2, <1>3, <1>4, <1>5
<1>14. Beyond(u, k + n) = B
  <2>1. u \in Seq(S) /\ k \in Nat /\ n \in Nat /\ n * Block <= Len(u) - k * Block
    BY <1>1, <1>2, <1>8, <1>9
  <2>2. Beyond(u, k + n) = Beyond(Beyond(u, k), n)
    BY ONLY <2>1, <1>7, BeyondBeyond
  <2> QED  BY <2>2, <1>3
<1>15. (k + n) * Block = N
  BY <1>4, <1>10
<1> HIDE DEF H, B, N
<1>16. e = Made(c, H, B, N)
  <2>1. e = [alg |-> c.alg, key |-> c.key, h |-> H, buf |-> B, count |-> N]
    BY <1>4, <1>6, Excepted
  <2> QED  BY <2>1 DEF Made
<1>17. e.h = H /\ e.buf = B /\ e.count = N /\ e.alg = c.alg /\ e.key = c.key /\ Context(e)
  BY <1>16, MadeIs
<1>18. BlakeHolds(e, g, u)
  BY <1>12, <1>13, <1>14, <1>15, <1>17, Zenon DEF BlakeHolds
<1> QED  BY <1>17, <1>18 DEF e, u

\* The last block, whole or not.
LEMMA BlakeEnds ==
    ASSUME NEW d, Row(d), NEW g, NEW c, BlakeHolds(c, g, d)
    PROVE  LET n == Full(d) + 1
           IN  BlakeFinal(c) = Over(g, [i \in 1 .. n |->
                                   BlakeItem(BlockAt(Pad(d, n * Block), i),
                                             IF i = n THEN Len(d) ELSE i * Block, i = n)])
<1> DEFINE w == Full(d)
           n == w + 1
           o == w * Block
           e == Pad(d, n * Block)
           r == Beyond(d, w)
           xs == Counted(d, 0, w)
           zs == [i \in 1 .. n |-> BlakeItem(BlockAt(e, i), IF i = n THEN Len(d) ELSE i * Block, i = n)]
<1>1. /\ Block \in Nat \ {0} /\ Len(d) \in Nat /\ w \in Nat /\ o \in Nat
      /\ o <= Len(d) /\ Len(d) <= o + Block
  BY FullIs
<1>2. c.buf = r /\ c.count = o /\ c.h = Over(g, xs)
  BY DEF BlakeHolds
<1>3. /\ Row(r) /\ Len(r) = Len(d) - o /\ \A j \in 1 .. Len(d) - o : r[j] = d[o + j]
  <2>1. PICK S : d \in Seq(S)
    BY DEF Row
  <2>2. /\ r \in Seq(S) /\ Len(r) = Len(d) - o /\ \A j \in 1 .. Len(d) - o : r[j] = d[o + j]
    BY <1>1, <2>1, BeyondIs
  <2> QED  BY <2>2 DEF Row
<1>4. n \in Nat \ {0} /\ n * Block = o + Block /\ n * Block \in Nat /\ n - 1 = w
  BY <1>1, Times
<1> HIDE DEF w, r
<1>5. /\ Row(e) /\ Len(e) = n * Block
      /\ \A i \in 1 .. Len(d) : e[i] = d[i]
      /\ \A i \in Len(d) + 1 .. n * Block : e[i] = Zero
  <2>1. n * Block \in Nat /\ Len(d) <= n * Block
    BY <1>1, <1>4
  <2> QED  BY <2>1, Padded
<1> HIDE DEF e
<1> DEFINE y == Pad(r, Block)
           z == BlockAt(e, n)
<1>6. /\ Row(y) /\ Len(y) = Block
      /\ \A i \in 1 .. Len(r) : y[i] = r[i]
      /\ \A i \in Len(r) + 1 .. Block : y[i] = Zero
  <2>1. Block \in Nat /\ Len(r) <= Block
    BY <1>1, <1>3
  <2> QED  BY <2>1, <1>3, Padded
<1>7. /\ Row(z) /\ Len(z) = Block /\ \A j \in 1 .. Block : z[j] = e[o + j]
  <2>1. n * Block <= Len(e)
    BY <1>4, <1>5
  <2>2. /\ Row(z) /\ Len(z) = Block /\ \A j \in 1 .. Block : z[j] = e[(n - 1) * Block + j]
    BY <2>1, <1>4, <1>5, BlockOfRow
  <2> QED  BY <2>2, <1>4
<1> HIDE DEF y, z, n
<1>8. ASSUME NEW j \in 1 .. Block PROVE y[j] = z[j]
  <2>0. j \in Nat /\ j <= Block /\ Block \in Nat /\ o + Len(r) = Len(d) /\ Len(r) \in Nat
    BY <1>1, <1>3
  <2>1. CASE j <= Len(r)
    <3>1. j \in 1 .. Len(r) /\ o + j \in 1 .. Len(d) /\ j \in 1 .. Len(d) - o
      BY <2>0, <2>1, <1>1
    <3> QED  BY <3>1, <1>3, <1>5, <1>6, <1>7
  <2>2. CASE ~ (j <= Len(r))
    <3>1. j \in Len(r) + 1 .. Block /\ o + j \in Len(d) + 1 .. n * Block
      BY <2>0, <2>2, <1>1, <1>4
    <3> QED  BY <3>1, <1>5, <1>6, <1>7
  <2> QED  BY <2>1, <2>2
<1>9. y = z
  BY <1>6, <1>7, <1>8, RowsAlike
<1>10. Len(xs) = w /\ Len(zs) = w + 1
  <2>1. w + 1 = n
    BY <1>1, <1>4
  <2> QED  BY <1>1, <1>4, <2>1 DEF Counted
<1>11. zs[w + 1] = BlakeItem(z, Len(d), TRUE)
  <2>1. w + 1 = n /\ n \in 1 .. n
    BY <1>1, <1>4
  <2>2. zs[n] = BlakeItem(BlockAt(e, n), IF n = n THEN Len(d) ELSE n * Block, n = n)
    BY <2>1, Zenon
  <2>3. (n = n) = TRUE
    OBVIOUS
  <2> QED  BY <2>1, <2>2, <2>3, Zenon DEF z
<1>12. ASSUME NEW i \in 1 .. w PROVE zs[i] = xs[i]
  <2>1. i \in 1 .. n /\ i # n /\ i \in Nat \ {0}
    BY <1>1, <1>4
  <2>2. i * Block <= Len(d) /\ Len(d) <= Len(e) /\ i * Block \in Nat
    <3>1. i * Block <= w * Block /\ i * Block \in Nat
      BY <1>1, <2>1, Times
    <3> HIDE DEF o
    <3>2. i * Block <= o
      BY <3>1 DEF o
    <3> QED  BY <3>1, <3>2, <1>1, <1>4, <1>5
  <2>3. BlockAt(e, i) = BlockAt(d, i)
    BY <2>1, <2>2, <1>5, BlockOfFrontRow
  <2>4. zs[i] = BlakeItem(BlockAt(e, i), i * Block, FALSE)
    <3>1. zs[i] = BlakeItem(BlockAt(e, i), IF i = n THEN Len(d) ELSE i * Block, i = n)
      BY <2>1, Zenon
    <3>2. (i = n) = FALSE
      BY <2>1
    <3> QED  BY <2>1, <3>1, <3>2, Zenon
  <2>5. xs[i] = BlakeItem(BlockAt(d, i), 0 + i * Block, FALSE)
    BY Zenon DEF Counted
  <2>6. 0 + i * Block = i * Block
    BY <2>2
  <2> QED  BY <2>3, <2>4, <2>5, <2>6, Zenon
<1>13. BlakeFinal(c) = Compress(c.h, BlakeItem(y, Len(d), TRUE))
  <2>1. c.count + Len(c.buf) = Len(d)
    BY <1>1, <1>2, <1>3
  <2> QED  BY <1>2, <2>1, Zenon DEF BlakeFinal, y
<1> HIDE DEF xs, zs
<1>14. Over(g, zs) = Compress(Over(g, xs), zs[w + 1])
  BY <1>1, <1>10, <1>12, OverOneMore
<1>15. BlakeFinal(c) = Over(g, zs)
  BY <1>2, <1>9, <1>11, <1>13, <1>14
<1> QED  BY <1>15, Zenon DEF zs, e, n, w

KeyBlock(key) == IF key = <<>> THEN <<>> ELSE Pad(key, Block)

\* The block a key is made into.
LEMMA KeyBlockIs ==
    ASSUME NEW key, Row(key), Len(key) <= Block
    PROVE  /\ Row(KeyBlock(key)) /\ Len(key) \in Nat
           /\ Len(KeyBlock(key)) = IF Len(key) = 0 THEN 0 ELSE Block
           /\ \A i \in 1 .. Len(key) : KeyBlock(key)[i] = key[i]
<1>1. Len(key) \in Nat /\ (key = <<>> <=> Len(key) = 0)
  <2>1. PICK S : key \in Seq(S)
    BY DEF Row
  <2> QED  BY <2>1
<1>2. CASE key = <<>>
  <2>1. KeyBlock(key) = key
    BY <1>2 DEF KeyBlock
  <2> QED  BY <1>1, <1>2, <2>1
<1>3. CASE key # <<>>
  <2>1. KeyBlock(key) = Pad(key, Block) /\ Block \in Nat
    BY <1>3, BlockAssumption DEF KeyBlock
  <2>2. /\ Row(Pad(key, Block)) /\ Len(Pad(key, Block)) = Block
        /\ \A i \in 1 .. Len(key) : Pad(key, Block)[i] = key[i]
    BY <2>1, Padded
  <2> QED  BY <1>1, <1>3, <2>1, <2>2
<1> QED  BY <1>2, <1>3

RefBlakeBlocks(d) == IF d = <<>> THEN 1 ELSE (Len(d) + Block - 1) \div Block
Blaked(d, n) == [i \in 1 .. n |-> BlakeItem(BlockAt(Pad(d, n * Block), i),
                                            IF i = n THEN Len(d) ELSE i * Block, i = n)]

\* BLAKE2s as a row of blocks.
LEMMA RefBlakeIs ==
    \A key, m : RefBlake(key, m) =
        Over(BlakeIV(key), Blaked(KeyBlock(key) \o m, RefBlakeBlocks(KeyBlock(key) \o m)))
BY Zenon DEF RefBlake, KeyBlock, RefBlakeBlocks, Blaked

\* One block more than those behind which more came.
LEMMA RefBlakeBlocksAre == ASSUME NEW d, Row(d) PROVE RefBlakeBlocks(d) = Full(d) + 1
<1> DEFINE w == Full(d)
           l == Len(d) + Block - 1
<1>1. /\ Block \in Nat \ {0} /\ Len(d) \in Nat /\ w \in Nat /\ w * Block \in Nat
      /\ Len(d) <= w * Block + Block
      /\ (d = <<>> => w = 0 /\ Len(d) = 0) /\ (d # <<>> => w * Block < Len(d) /\ Len(d) > 0)
  BY FullIs
<1> HIDE DEF w
<1>2. CASE d = <<>>
  BY <1>1, <1>2 DEF RefBlakeBlocks, w
<1>3. CASE d # <<>>
  <2>1. (w + 1) * Block = w * Block + Block
    BY <1>1, Times
  <2>2. l \in Nat /\ (w + 1) * Block <= l /\ l < (w + 1) * Block + Block /\ w + 1 \in Nat
    BY <1>1, <1>3, <2>1
  <2> HIDE DEF l
  <2>3. l \div Block = w + 1
    BY <1>1, <2>2, Quotient
  <2> QED  BY <1>3, <2>3 DEF RefBlakeBlocks, l, w
<1> QED  BY <1>2, <1>3

\* amisnap_blake2s_final(), of a key and an input.
LEMMA BlakeEndsAs ==
    ASSUME NEW key, NEW m, Row(KeyBlock(key) \o m), NEW c, BlakeHolds(c, BlakeIV(key), KeyBlock(key) \o m)
    PROVE  BlakeFinal(c) = RefBlake(key, m)
<1> DEFINE d == KeyBlock(key) \o m
           n == Full(d) + 1
<1>1. BlakeFinal(c) = Over(BlakeIV(key), Blaked(d, n))
  <2> DEFINE g == BlakeIV(key)
  <2>1. Row(d) /\ BlakeHolds(c, g, d)
    OBVIOUS
  <2> HIDE DEF d, g
  <2>2. BlakeFinal(c) = Over(g, [i \in 1 .. Full(d) + 1 |->
                                   BlakeItem(BlockAt(Pad(d, (Full(d) + 1) * Block), i),
                                             IF i = Full(d) + 1 THEN Len(d) ELSE i * Block, i = Full(d) + 1)])
    BY <2>1, BlakeEnds, Zenon
  <2> QED  BY <2>2, Zenon DEF Blaked, g
<1>2. RefBlakeBlocks(d) = n
  BY RefBlakeBlocksAre
<1> QED  BY <1>1, <1>2, RefBlakeIs, Zenon

\* Different inputs have different hashes, and different keys.
LEMMA BlakeTells ==
    ASSUME NEW key, NEW other, NEW m, NEW l, Row(key), Row(other), Row(m), Row(l),
           Len(key) <= Block, Len(other) <= Block, RefBlake(key, m) = RefBlake(other, l)
    PROVE  key = other /\ m = l
<1> DEFINE d == KeyBlock(key) \o m
           e == KeyBlock(other) \o l
           a == RefBlakeBlocks(d)
           b == RefBlakeBlocks(e)
           g == BlakeIV(key)
           h == BlakeIV(other)
<1>1. /\ Row(KeyBlock(key)) /\ Len(key) \in Nat
      /\ Len(KeyBlock(key)) = IF Len(key) = 0 THEN 0 ELSE Block
      /\ \A i \in 1 .. Len(key) : KeyBlock(key)[i] = key[i]
  BY KeyBlockIs
<1>2. /\ Row(KeyBlock(other)) /\ Len(other) \in Nat
      /\ Len(KeyBlock(other)) = IF Len(other) = 0 THEN 0 ELSE Block
      /\ \A i \in 1 .. Len(other) : KeyBlock(other)[i] = other[i]
  BY KeyBlockIs
<1>3. Row(d) /\ Row(e)
  BY <1>1, <1>2, RowsJoin
<1>4. Over(g, Blaked(d, a)) = Over(h, Blaked(e, b))
  BY RefBlakeIs
<1>5. (\A x, y : g # <<x, y>> /\ h # <<x, y>>) /\ (g = h => Len(key) = Len(other))
  BY DEF BlakeIV
<1> HIDE DEF d, e, g, h
<1>6. /\ Block \in Nat \ {0} /\ Len(d) \in Nat /\ a \in Nat \ {0} /\ a * Block \in Nat /\ Len(d) <= a * Block
      /\ Len(e) \in Nat /\ b \in Nat \ {0} /\ b * Block \in Nat /\ Len(e) <= b * Block
  <2>1. a = Full(d) + 1 /\ b = Full(e) + 1
    BY <1>3, RefBlakeBlocksAre
  <2>2. /\ Block \in Nat \ {0} /\ Len(d) \in Nat /\ Full(d) \in Nat /\ Full(d) * Block \in Nat
        /\ Len(d) <= Full(d) * Block + Block
    BY <1>3, FullIs
  <2>3. Len(e) \in Nat /\ Full(e) \in Nat /\ Full(e) * Block \in Nat /\ Len(e) <= Full(e) * Block + Block
    BY <1>3, FullIs
  <2>4. (Full(d) + 1) * Block = Full(d) * Block + Block /\ (Full(e) + 1) * Block = Full(e) * Block + Block
    BY <2>2, <2>3, Times
  <2> HIDE DEF a, b
  <2>5. a * Block = Full(d) * Block + Block /\ b * Block = Full(e) * Block + Block
    BY <2>1, <2>4
  <2>6. a \in Nat \ {0} /\ b \in Nat \ {0}
    <3>1. Full(d) \in Nat /\ Full(e) \in Nat
      BY <2>2, <2>3
    <3>2. Full(d) + 1 \in Nat \ {0} /\ Full(e) + 1 \in Nat \ {0}
      BY ONLY <3>1
    <3> QED  BY ONLY <2>1, <3>2
  <2> DEFINE x == a * Block
             y == b * Block
             x0 == Full(d) * Block
             y0 == Full(e) * Block
  <2>7. x = x0 + Block /\ y = y0 + Block /\ x0 \in Nat /\ y0 \in Nat
    BY <2>2, <2>3, <2>5
  <2>8. Len(d) <= x0 + Block /\ Len(e) <= y0 + Block
    BY <2>2, <2>3
  <2> HIDE DEF x, y, x0, y0
  <2>9. x \in Nat /\ y \in Nat /\ Len(d) <= x /\ Len(e) <= y
    BY <2>2, <2>3, <2>7, <2>8
  <2> QED  BY <2>2, <2>3, <2>6, <2>9 DEF x, y
<1> HIDE DEF a, b
<1> DEFINE xs == Blaked(d, a)
           ys == Blaked(e, b)
<1>7. Len(xs) = a /\ Len(ys) = b
  BY <1>6 DEF Blaked
<1>8. /\ \A i \in 1 .. a : xs[i] = BlakeItem(BlockAt(Pad(d, a * Block), i), IF i = a THEN Len(d) ELSE i * Block, i = a)
      /\ \A i \in 1 .. b : ys[i] = BlakeItem(BlockAt(Pad(e, b * Block), i), IF i = b THEN Len(e) ELSE i * Block, i = b)
  BY Zenon DEF Blaked
<1> HIDE DEF xs, ys
<1>9. g = h /\ a = b /\ \A i \in 1 .. a : xs[i] = ys[i]
  <2>1. Over(g, xs) = Over(h, ys)
    BY <1>4 DEF xs, ys
  <2>2. a \in Nat /\ b \in Nat
    BY <1>6
  <2> QED  BY ONLY <1>5, <1>7, <2>1, <2>2, OverInjective
<1>10. Len(d) = Len(e)
  <2>1. a \in 1 .. a /\ a \in 1 .. b
    BY <1>6, <1>9
  <2>2. xs[a] = BlakeItem(BlockAt(Pad(d, a * Block), a), Len(d), TRUE)
    BY <1>8, <2>1
  <2>3. ys[a] = BlakeItem(BlockAt(Pad(e, b * Block), a), Len(e), TRUE)
    BY <1>8, <1>9, <2>1
  <2>4. xs[a] = ys[a]
    BY <1>9, <2>1
  <2> QED  BY <2>2, <2>3, <2>4 DEF BlakeItem
<1> DEFINE u == Pad(d, a * Block)
           v == Pad(e, b * Block)
<1>11. /\ Row(u) /\ Len(u) = a * Block /\ \A i \in 1 .. Len(d) : u[i] = d[i]
       /\ Row(v) /\ Len(v) = b * Block /\ \A i \in 1 .. Len(e) : v[i] = e[i]
  BY <1>3, <1>6, Padded
<1> HIDE DEF u, v
<1>12. \A i \in 1 .. a : BlockAt(u, i) = BlockAt(v, i)
  <2> SUFFICES ASSUME NEW i \in 1 .. a PROVE BlockAt(u, i) = BlockAt(v, i)
    OBVIOUS
  <2>1. xs[i] = BlakeItem(BlockAt(u, i), IF i = a THEN Len(d) ELSE i * Block, i = a)
    BY <1>8 DEF u
  <2>2. ys[i] = BlakeItem(BlockAt(v, i), IF i = b THEN Len(e) ELSE i * Block, i = b)
    BY <1>8, <1>9 DEF v
  <2>3. xs[i] = ys[i]
    BY <1>9
  <2>4. xs[i][1] = BlockAt(u, i) /\ ys[i][1] = BlockAt(v, i)
    BY <2>1, <2>2 DEF BlakeItem
  <2> QED  BY <2>3, <2>4
<1>13. u = v
  <2>1. a \in Nat /\ Len(v) = a * Block
    BY <1>6, <1>9, <1>11
  <2> QED  BY <2>1, <1>11, <1>12, BlocksTell
<1>14. d = e
  BY <1>3, <1>10, <1>11, <1>13, RowsAlike
<1>15. Len(key) = Len(other)
  BY <1>5, <1>9
<1>16. KeyBlock(key) = KeyBlock(other) /\ m = l
  <2>1. Len(KeyBlock(key)) = Len(KeyBlock(other))
    BY <1>1, <1>2, <1>15
  <2>2. KeyBlock(key) \o m = KeyBlock(other) \o l
    BY <1>14 DEF d, e
  <2> QED  BY ONLY <1>1, <1>2, <2>1, <2>2, Row(m), Row(l), RowsTell
<1>17. key = other
  BY <1>1, <1>2, <1>15, <1>16, RowsAlike
<1> QED  BY <1>16, <1>17

\* XXH32
LEMMA XxhEnds ==
    ASSUME NEW d, Row(d), NEW c, Holds(c, <<"seed">>, d)
    PROVE  XxhFinal(c) = RefXxh(d)
<1> DEFINE k == Blocks(d)
           h == Over(<<"seed">>, Cut(d, k))
<1>1. /\ Block \in Nat \ {0} /\ Len(d) \in Nat /\ k \in Nat /\ k * Block \in Nat
      /\ k * Block <= Len(d) /\ Len(d) < k * Block + Block
  BY BeyondRow
<1>2. Len(d) >= Block <=> k > 0
  <2> HIDE DEF k
  <2>1. CASE k = 0
    <3>1. k * Block = 0
      BY <2>1, <1>1, Times
    <3> QED  BY <3>1, <2>1, <1>1
  <2>2. CASE k > 0
    <3>1. 1 <= k /\ 1 \in Nat
      BY <2>2, <1>1
    <3>2. 1 * Block <= k * Block /\ 1 * Block = Block
      BY <3>1, <1>1, Times
    <3> QED  BY <3>2, <2>2, <1>1
  <2> QED  BY <1>1, <2>1, <2>2
<1>3. c.buf = Beyond(d, k) /\ c.count = Len(d) /\ c.h = h
  BY DEF Holds
<1>4. XxhFinal(c) = Avalanche(IF Len(d) >= Block THEN <<"merged", h>> ELSE <<"seed">>, Len(d), Beyond(d, k))
  BY <1>3, Zenon DEF XxhFinal
<1>5. RefXxh(d) = Avalanche(IF k > 0 THEN <<"merged", h>> ELSE <<"seed">>, Len(d), Beyond(d, k))
  BY Zenon DEF RefXxh, Cut
<1>6. CASE k > 0
  BY <1>2, <1>4, <1>5, <1>6, Zenon
<1>7. CASE ~ (k > 0)
  BY <1>2, <1>4, <1>5, <1>7, Zenon
<1> QED  BY <1>6, <1>7

-----------------------------------------------------------------------------
(* What is fed, of any cells, and HMAC.                                    *)

\* SHA-256 fed with any rows.
LEMMA ShaFeeds ==
    ASSUME NEW d, NEW p, Row(d), Row(p), NEW g, NEW c, Holds(c, g, d)
    PROVE  /\ Holds(ShaUpdate(c, p), g, d \o p)
           /\ ShaUpdate(c, p).alg = c.alg /\ ShaUpdate(c, p).key = c.key
<1>1. PICK S : d \in Seq(S) /\ p \in Seq(S)
  BY CommonRows
<1> QED  BY <1>1, ShaUpdateHolds

\* XXH32 fed with any rows.
LEMMA XxhFeeds ==
    ASSUME NEW d, NEW p, Row(d), Row(p), NEW g, NEW c, Holds(c, g, d)
    PROVE  /\ Holds(XxhUpdate(c, p), g, d \o p)
           /\ XxhUpdate(c, p).alg = c.alg /\ XxhUpdate(c, p).key = c.key
<1>1. PICK S : d \in Seq(S) /\ p \in Seq(S)
  BY CommonRows
<1> QED  BY <1>1, XxhUpdateHolds

\* BLAKE2s fed with any rows.
LEMMA BlakeFeeds ==
    ASSUME NEW d, NEW p, Row(d), Row(p), NEW g, NEW c, BlakeHolds(c, g, d)
    PROVE  /\ BlakeHolds(BlakeUpdate(c, p), g, d \o p)
           /\ BlakeUpdate(c, p).alg = c.alg /\ BlakeUpdate(c, p).key = c.key
<1>1. PICK S : d \in Seq(S) /\ p \in Seq(S)
  BY CommonRows
<1> QED  BY <1>1, BlakeUpdateHolds

\* The empty row.
LEMMA EmptyRow ==
    /\ Row(<<>>) /\ Len(<<>>) = 0
    /\ \A m : Row(m) => <<>> \o m = m /\ m \o <<>> = m
<1>1. <<>> \in Seq({0})
  OBVIOUS
<1>2. ASSUME NEW m, Row(m) PROVE <<>> \o m = m /\ m \o <<>> = m
  <2>1. PICK S : m \in Seq(S)
    BY <1>2 DEF Row
  <2> QED  BY <2>1
<1> QED  BY <1>1, <1>2 DEF Row

\* Three rows put together, in either order.
LEMMA RowsGroup ==
    ASSUME NEW s, NEW t, NEW u, Row(s), Row(t), Row(u)
    PROVE  (s \o t) \o u = s \o (t \o u)
<1>1. PICK S : s \in Seq(S) /\ t \in Seq(S)
  BY CommonRows
<1>2. PICK T : u \in Seq(T)
  BY DEF Row
<1>3. s \in Seq(S \cup T) /\ t \in Seq(S \cup T) /\ u \in Seq(S \cup T)
  BY <1>1, <1>2
<1> HIDE <1>1, <1>2
<1> QED  BY <1>3

\* Nothing went in yet.
LEMMA EmptyHolds ==
    ASSUME NEW c, Context(c), c.buf = <<>>, c.count = 0
    PROVE  Holds(c, c.h, <<>>) /\ BlakeHolds(c, c.h, <<>>)
<1>1. Block \in Nat \ {0} /\ <<>> \in Seq({0}) /\ Len(<<>>) = 0 /\ 0 * Block = 0
  BY BlockAssumption, Times
<1>2. Blocks(<<>>) = 0
  <2>1. 0 \in Nat /\ 0 * Block <= Len(<<>>) /\ Len(<<>>) < 0 * Block + Block
    BY <1>1
  <2> QED  BY <1>1, <2>1, BlocksAre
<1>3. Over(c.h, Cut(<<>>, 0)) = c.h /\ Beyond(<<>>, 0) = <<>>
  BY <1>1, NoBlock
<1>4. Full(<<>>) = 0
  BY DEF Full
<1>5. Over(c.h, Counted(<<>>, 0, 0)) = c.h
  <2>1. Len(Counted(<<>>, 0, 0)) = 0
    BY DEF Counted
  <2> QED  BY <2>1, OverNothing
<1>6. Holds(c, c.h, <<>>)
  BY <1>1, <1>2, <1>3 DEF Holds
<1>7. BlakeHolds(c, c.h, <<>>)
  BY <1>1, <1>3, <1>4, <1>5 DEF BlakeHolds
<1> QED  BY <1>6, <1>7

\* A SHA-256 begun, and fed once.
LEMMA ShaBegins ==
    /\ Holds(ShaInit, <<"sha256">>, <<>>) /\ ShaInit.alg = "sha256" /\ ShaInit.key = <<>>
    /\ \A m : Row(m) => Holds(ShaUpdate(ShaInit, m), <<"sha256">>, m)
<1>1. Context(ShaInit) /\ ShaInit.buf = <<>> /\ ShaInit.count = 0 /\ ShaInit.h = <<"sha256">>
      /\ ShaInit.alg = "sha256" /\ ShaInit.key = <<>>
  BY DEF ShaInit, Context
<1>2. Holds(ShaInit, <<"sha256">>, <<>>)
  BY <1>1, EmptyHolds
<1>3. ASSUME NEW m, Row(m) PROVE Holds(ShaUpdate(ShaInit, m), <<"sha256">>, m)
  <2>1. Holds(ShaUpdate(ShaInit, m), <<"sha256">>, <<>> \o m)
    BY <1>2, <1>3, EmptyRow, ShaFeeds
  <2>2. <<>> \o m = m
    BY <1>3, EmptyRow
  <2> QED  BY <2>1, <2>2
<1> QED  BY <1>1, <1>2, <1>3

\* The one call of SHA-256.
LEMMA ShaIs == ASSUME NEW m, Row(m) PROVE Sha(m) = RefSha(m)
<1>1. Holds(ShaUpdate(ShaInit, m), <<"sha256">>, m)
  BY ShaBegins
<1> QED  BY <1>1, ShaEnds DEF Sha

\* The bytes of a digest tell which it is.
LEMMA SpreadIs ==
    /\ DigestLen \in 1 .. Block /\ Block \in Nat \ {0} /\ DigestLen \in Nat \ {0}
    /\ \A x : /\ Row(Spread(x)) /\ Len(Spread(x)) = DigestLen
              /\ \A i \in 1 .. DigestLen : Spread(x)[i] = <<"digest", i, x>>
    /\ \A x, y : Spread(x) = Spread(y) => x = y
<1>1. DigestLen \in 1 .. Block /\ Block \in Nat \ {0} /\ DigestLen \in Nat \ {0}
  BY BlockAssumption
<1>2. ASSUME NEW x
      PROVE  /\ Row(Spread(x)) /\ Len(Spread(x)) = DigestLen
             /\ \A i \in 1 .. DigestLen : Spread(x)[i] = <<"digest", i, x>>
  <2>1. Spread(x) = [i \in 1 .. DigestLen |-> Spread(x)[i]]
        /\ \A i \in 1 .. DigestLen : Spread(x)[i] = <<"digest", i, x>>
    BY DEF Spread
  <2> QED  BY <1>1, <2>1, RowOf
<1>3. ASSUME NEW x, NEW y, Spread(x) = Spread(y) PROVE x = y
  <2>1. 1 \in 1 .. DigestLen
    BY <1>1
  <2>2. <<"digest", 1, x>> = <<"digest", 1, y>>
    BY <1>2, <1>3, <2>1
  <2> QED  BY <2>2
<1> QED  BY <1>1, <1>2, <1>3

\* A key with one of the two pads.
LEMMA XoredIs ==
    ASSUME NEW key, NEW with
    PROVE  /\ Row(Xored(key, with)) /\ Len(Xored(key, with)) = Block
           /\ \A i \in 1 .. Block : Xored(key, with)[i] = <<with, BlockKey(key)[i]>>
<1>1. Xored(key, with) = [i \in 1 .. Block |-> Xored(key, with)[i]]
      /\ \A i \in 1 .. Block : Xored(key, with)[i] = <<with, BlockKey(key)[i]>>
  BY DEF Xored
<1>2. Block \in Nat
  BY BlockAssumption
<1> QED  BY <1>1, <1>2, RowOf

\* amisnap_hmac_sha256_init(): the inner hash has its pad.
LEMMA HmacBegins ==
    ASSUME NEW key
    PROVE  /\ Holds(HmacInit(key), <<"sha256">>, Xored(key, "ipad"))
           /\ HmacInit(key).alg = "hmac" /\ HmacInit(key).key = key
<1> DEFINE x == Xored(key, "ipad")
           c == ShaUpdate(ShaInit, x)
           e == HmacInit(key)
<1>1. Holds(c, <<"sha256">>, x)
  BY XoredIs, ShaBegins
<1>2. e = [c EXCEPT !.alg = "hmac", !.key = key]
  BY DEF HmacInit
<1> HIDE DEF x, c, e
<1>3. e = [alg |-> "hmac", key |-> key, h |-> c.h, buf |-> c.buf, count |-> c.count]
  <2> DEFINE d == [alg |-> c.alg, key |-> c.key, h |-> c.h, buf |-> c.buf, count |-> c.count]
             f == [d EXCEPT !.alg = "hmac"]
  <2>1. c = d
    BY <1>1 DEF Holds, Context
  <2>2. f = [alg |-> "hmac", key |-> c.key, h |-> c.h, buf |-> c.buf, count |-> c.count]
    OBVIOUS
  <2>3. [d EXCEPT !.alg = "hmac", !.key = key] = [f EXCEPT !.key = key]
    BY Zenon
  <2> HIDE DEF d, f
  <2>4. [f EXCEPT !.key = key] = [alg |-> "hmac", key |-> key, h |-> c.h, buf |-> c.buf, count |-> c.count]
    BY <2>2
  <2> QED  BY <1>2, <2>1, <2>3, <2>4, Zenon
<1>4. e.alg = "hmac" /\ e.key = key /\ e.h = c.h /\ e.buf = c.buf /\ e.count = c.count
  BY <1>3
<1>5. Context(e)
  BY <1>3, <1>4, Zenon DEF Context
<1>6. Holds(e, <<"sha256">>, x)
  BY <1>1, <1>4, <1>5, Zenon DEF Holds
<1> QED  BY <1>4, <1>6 DEF e, x

\* amisnap_hmac_sha256_final(): the outer hash over the inner one.
LEMMA HmacEnds ==
    ASSUME NEW m, Row(m), NEW c, Holds(c, <<"sha256">>, Xored(c.key, "ipad") \o m)
    PROVE  HmacFinal(c) = RefHmac(c.key, m)
<1> DEFINE x == Xored(c.key, "ipad")
           y == Xored(c.key, "opad")
           z == Spread(RefSha(x \o m))
           a == ShaUpdate(ShaInit, y)
           b == ShaUpdate(a, z)
<1>1. Row(x) /\ Row(y) /\ Row(z)
  BY XoredIs, SpreadIs
<1>2. Row(x \o m) /\ Row(y \o z)
  BY <1>1, RowsJoin
<1>3. ShaFinal(c) = RefSha(x \o m)
  BY <1>2, ShaEnds
<1>4. Holds(a, <<"sha256">>, y)
  BY <1>1, ShaBegins
<1>5. Holds(b, <<"sha256">>, y \o z)
  <2> HIDE DEF a, z, y
  <2> QED  BY <1>1, <1>4, ShaFeeds
<1>6. ShaFinal(b) = RefSha(y \o z)
  <2> HIDE DEF a, b, z, y
  <2> QED  BY <1>2, <1>5, ShaEnds
<1>7. HmacFinal(c) = ShaFinal(b)
  BY <1>3, Zenon DEF HmacFinal
<1> QED  BY <1>6, <1>7, Zenon DEF RefHmac

\* The one call of HMAC.
LEMMA HmacIs == ASSUME NEW key, NEW m, Row(m) PROVE Hmac(key, m) = RefHmac(key, m)
<1> DEFINE c == HmacInit(key)
           e == ShaUpdate(c, m)
           x == Xored(key, "ipad")
<1>1. Holds(c, <<"sha256">>, x) /\ c.key = key
  BY HmacBegins
<1>2. Row(x)
  BY XoredIs
<1> HIDE DEF c, x
<1>3. Holds(e, <<"sha256">>, x \o m) /\ e.key = key
  BY <1>1, <1>2, ShaFeeds
<1> HIDE DEF e
<1>4. HmacFinal(e) = RefHmac(key, m)
  BY <1>3, HmacEnds DEF x
<1> QED  BY <1>4 DEF Hmac, e, c

\* Two keys of a MAC, neither of which is the other with zeros behind.
Apart(k, l) ==
    /\ k \in Seq(Byte) /\ l \in Seq(Byte)
    /\ Len(k) < Len(l) => \E i \in Len(k) + 1 .. Len(l) : l[i] # Zero
    /\ Len(l) < Len(k) => \E i \in Len(l) + 1 .. Len(k) : k[i] # Zero

\* The block of a key: hashed when longer, else with zeros behind.
LEMMA BlockKeyIs ==
    ASSUME NEW k \in Seq(Byte)
    PROVE  /\ Len(k) > Block => BlockKey(k)[1] = <<"digest", 1, RefSha(k)>>
           /\ Len(k) <= Block =>
                 /\ \A i \in 1 .. Len(k) : BlockKey(k)[i] = k[i]
                 /\ \A i \in Len(k) + 1 .. Block : BlockKey(k)[i] = Zero
                 /\ BlockKey(k)[1] \in Byte
<1>1. Row(k) /\ Len(k) \in Nat /\ Block \in Nat \ {0}
  BY SpreadIs DEF Row
<1>2. CASE Len(k) > Block
  <2> DEFINE s == Spread(Sha(k))
  <2>1. BlockKey(k) = Pad(s, Block)
    BY <1>2 DEF BlockKey
  <2>2. Row(s) /\ Len(s) <= Block /\ Len(s) = DigestLen /\ s[1] = <<"digest", 1, Sha(k)>> /\ 1 \in 1 .. Len(s)
    BY SpreadIs
  <2> HIDE DEF s
  <2>3. Pad(s, Block)[1] = s[1]
    BY <1>1, <2>2, Padded
  <2> QED  BY <1>1, <1>2, <2>1, <2>2, <2>3, ShaIs
<1>3. CASE Len(k) <= Block
  <2>1. BlockKey(k) = Pad(k, Block)
    BY <1>1, <1>3 DEF BlockKey
  <2>2. /\ \A i \in 1 .. Len(k) : Pad(k, Block)[i] = k[i]
        /\ \A i \in Len(k) + 1 .. Block : Pad(k, Block)[i] = Zero
    BY <1>1, <1>3, Padded
  <2>3. Pad(k, Block)[1] \in Byte
    <3>1. CASE Len(k) = 0
      <4>1. Pad(k, Block)[1] = Zero
        BY <1>1, <2>2, <3>1
      <4>2. Zero \in Byte
        BY DEF Zero, Byte
      <4> QED  BY <4>1, <4>2
    <3>2. CASE Len(k) # 0
      <4>1. 1 \in 1 .. Len(k)
        BY <1>1, <3>2
      <4> QED  BY <2>2, <4>1
    <3> QED  BY <3>1, <3>2
  <2> QED  BY <1>1, <1>3, <2>1, <2>2, <2>3
<1> QED  BY <1>1, <1>2, <1>3

\* Keys that are apart have blocks that differ.
LEMMA BlockKeysTell ==
    ASSUME NEW k, NEW l, Apart(k, l), \A i \in 1 .. Block : BlockKey(k)[i] = BlockKey(l)[i]
    PROVE  k = l
<1>1. /\ k \in Seq(Byte) /\ l \in Seq(Byte) /\ Row(k) /\ Row(l) /\ Len(k) \in Nat /\ Len(l) \in Nat
      /\ Block \in Nat \ {0} /\ 1 \in 1 .. Block
  BY SpreadIs DEF Apart, Row
<1>2. \A x : \A b \in Byte : <<"digest", 1, x>> # b
  <2> SUFFICES ASSUME NEW x, NEW b \in Byte, <<"digest", 1, x>> = b PROVE FALSE
    OBVIOUS
  <2>1. DOMAIN b = {1}
    BY DEF Byte
  <2>2. 2 \in DOMAIN <<"digest", 1, x>>
    OBVIOUS
  <2> QED  BY <2>1, <2>2
<1>3. CASE Len(k) > Block /\ Len(l) > Block
  <2>1. <<"digest", 1, RefSha(k)>> = <<"digest", 1, RefSha(l)>>
    BY <1>1, <1>3, BlockKeyIs
  <2>2. RefSha(k) = RefSha(l)
    BY <2>1
  <2> QED  BY <1>1, <2>2, ShaTells
<1>4. CASE Len(k) > Block /\ Len(l) <= Block
  <2>1. BlockKey(k)[1] = <<"digest", 1, RefSha(k)>>
    BY <1>1, <1>4, BlockKeyIs
  <2>2. BlockKey(l)[1] \in Byte
    BY <1>1, <1>4, BlockKeyIs
  <2>3. BlockKey(k)[1] = BlockKey(l)[1]
    BY <1>1
  <2> QED  BY <2>1, <2>2, <2>3, <1>2, Zenon
<1>5. CASE Len(k) <= Block /\ Len(l) > Block
  <2>1. BlockKey(l)[1] = <<"digest", 1, RefSha(l)>>
    BY <1>1, <1>5, BlockKeyIs
  <2>2. BlockKey(k)[1] \in Byte
    BY <1>1, <1>5, BlockKeyIs
  <2>3. BlockKey(k)[1] = BlockKey(l)[1]
    BY <1>1
  <2> QED  BY <2>1, <2>2, <2>3, <1>2, Zenon
<1>6. CASE Len(k) <= Block /\ Len(l) <= Block
  <2>1. /\ \A i \in 1 .. Len(k) : BlockKey(k)[i] = k[i]
        /\ \A i \in Len(k) + 1 .. Block : BlockKey(k)[i] = Zero
    BY <1>1, <1>6, BlockKeyIs
  <2>2. /\ \A i \in 1 .. Len(l) : BlockKey(l)[i] = l[i]
        /\ \A i \in Len(l) + 1 .. Block : BlockKey(l)[i] = Zero
    BY <1>1, <1>6, BlockKeyIs
  <2>3. ~ (Len(k) < Len(l))
    <3> SUFFICES ASSUME Len(k) < Len(l) PROVE FALSE
      OBVIOUS
    <3>1. PICK i \in Len(k) + 1 .. Len(l) : l[i] # Zero
      BY DEF Apart
    <3>2. i \in 1 .. Len(l) /\ i \in Len(k) + 1 .. Block /\ i \in 1 .. Block
      BY <1>1, <1>6
    <3> QED  BY <2>1, <2>2, <3>1, <3>2
  <2>4. ~ (Len(l) < Len(k))
    <3> SUFFICES ASSUME Len(l) < Len(k) PROVE FALSE
      OBVIOUS
    <3>1. PICK i \in Len(l) + 1 .. Len(k) : k[i] # Zero
      BY DEF Apart
    <3>2. i \in 1 .. Len(k) /\ i \in Len(l) + 1 .. Block /\ i \in 1 .. Block
      BY <1>1, <1>6
    <3> QED  BY <2>1, <2>2, <3>1, <3>2
  <2>5. Len(k) = Len(l)
    BY <1>1, <2>3, <2>4
  <2>6. ASSUME NEW i \in 1 .. Len(k) PROVE k[i] = l[i]
    <3>1. i \in 1 .. Len(l) /\ i \in 1 .. Block
      BY <1>1, <1>6, <2>5
    <3> QED  BY <2>1, <2>2, <3>1
  <2> QED  BY <1>1, <2>5, <2>6, RowsAlike
<1> QED  BY <1>1, <1>3, <1>4, <1>5, <1>6

\* Different inputs have different MACs, and different keys.
LEMMA HmacTells ==
    ASSUME NEW k, NEW l, Apart(k, l), NEW m, NEW n, Row(m), Row(n), RefHmac(k, m) = RefHmac(l, n)
    PROVE  k = l /\ m = n
<1> DEFINE x == Xored(k, "opad")
           y == Xored(l, "opad")
           ki == Xored(k, "ipad") \o m
           li == Xored(l, "ipad") \o n
           dk == Spread(RefSha(ki))
           dl == Spread(RefSha(li))
<1>1. /\ Row(x) /\ Row(y) /\ Len(x) = Len(y) /\ Row(Xored(k, "ipad")) /\ Row(Xored(l, "ipad"))
      /\ Len(Xored(k, "ipad")) = Len(Xored(l, "ipad"))
  BY XoredIs
<1>2. Row(ki) /\ Row(li)
  BY <1>1, RowsJoin
<1>3. Row(dk) /\ Row(dl)
  BY SpreadIs
<1>4. Row(x \o dk) /\ Row(y \o dl)
  BY <1>1, <1>3, RowsJoin
<1>5. x \o dk = y \o dl
  <2>1. RefSha(x \o dk) = RefSha(y \o dl)
    BY DEF RefHmac
  <2> QED  BY ONLY <1>4, <2>1, ShaTells
<1>6. x = y /\ dk = dl
  <2>1. Halves(x, dk, Len(x), x \o dk)
    BY <1>1, <1>3 DEF Halves
  <2>2. Halves(y, dl, Len(x), x \o dk)
    BY <1>1, <1>3, <1>5, Zenon DEF Halves
  <2> HIDE DEF x, y, dk, dl
  <2> QED  BY ONLY <2>1, <2>2, HalvesTell, Zenon
<1>7. \A i \in 1 .. Block : BlockKey(k)[i] = BlockKey(l)[i]
  <2> SUFFICES ASSUME NEW i \in 1 .. Block PROVE BlockKey(k)[i] = BlockKey(l)[i]
    OBVIOUS
  <2>1. <<"opad", BlockKey(k)[i]>> = <<"opad", BlockKey(l)[i]>>
    BY <1>6, XoredIs
  <2> QED  BY <2>1
<1>8. k = l
  BY <1>7, BlockKeysTell
<1>9. ki = li
  <2>1. RefSha(ki) = RefSha(li)
    BY <1>6, SpreadIs
  <2> QED  BY <1>2, <2>1, ShaTells
<1>10. m = n
  BY ONLY <1>1, <1>9, Row(m), Row(n), RowsTell
<1> QED  BY <1>8, <1>10

-----------------------------------------------------------------------------
(* Derived keys.                                                           *)

Indexed(salt, i) == salt \o <<<<"index", i>>>>

\* The links of a chain.
Link(pass, salt, i, u, n) == Spread(IF n = 1 THEN Hmac(pass, Indexed(salt, i)) ELSE Hmac(pass, u[n - 1]))

IsChain(u, pass, salt, iters, i) == u = [n \in 1 .. iters |-> Link(pass, salt, i, u, n)]

\* A chain is what its links are.
LEMMA ChainIs ==
    \A pass, salt, iters, i :
        Chain(pass, salt, iters, i) =
            LET u == CHOOSE f : IsChain(f, pass, salt, iters, i) IN {u[n] : n \in 1 .. iters}
BY Zenon DEF Chain, IsChain, Link, Indexed

\* There are such links, for every number of iterations.
LEMMA ChainExists ==
    ASSUME NEW pass, NEW salt, NEW iters \in Nat, NEW i
    PROVE  \E u : IsChain(u, pass, salt, iters, i)
<1> DEFINE To(f, n) == f = [k \in 1 .. n |-> Link(pass, salt, i, f, k)]
           G == {n \in Nat : \E f : To(f, n)}
<1>1. 0 \in G
  <2> DEFINE f == [k \in 1 .. 0 |-> 0]
  <2>1. f = [k \in 1 .. 0 |-> Link(pass, salt, i, f, k)]
    OBVIOUS
  <2> HIDE DEF f
  <2>2. To(f, 0)
    BY <2>1
  <2> QED  BY <2>2
<1>2. ASSUME NEW n \in Nat, n \in G PROVE n + 1 \in G
  <2>1. PICK g : To(g, n)
    BY <1>2
  <2>2. \A k \in 1 .. n : g[k] = Link(pass, salt, i, g, k)
    BY <2>1
  <2> DEFINE f == [k \in 1 .. n + 1 |-> IF k = n + 1 THEN Link(pass, salt, i, g, k) ELSE g[k]]
  <2>3. ASSUME NEW k \in 1 .. n + 1 PROVE f[k] = Link(pass, salt, i, f, k)
    <3>1. Link(pass, salt, i, f, k) = Link(pass, salt, i, g, k)
      <4>1. k # 1 => f[k - 1] = g[k - 1]
        OBVIOUS
      <4> HIDE DEF f
      <4> QED  BY <4>1, Zenon DEF Link
    <3>2. CASE k = n + 1
      <4>1. f[k] = Link(pass, salt, i, g, k)
        BY <3>2
      <4> QED  BY <3>1, <4>1
    <3>3. CASE k # n + 1
      <4>1. k \in 1 .. n /\ f[k] = g[k]
        BY <3>3
      <4> QED  BY <2>2, <3>1, <4>1
    <3> QED  BY <3>2, <3>3
  <2>4. f = [k \in 1 .. n + 1 |-> Link(pass, salt, i, f, k)]
    <3> DEFINE e == [k \in 1 .. n + 1 |-> Link(pass, salt, i, f, k)]
    <3>1. f = e
      BY <2>3
    <3> QED  BY <3>1
  <2> HIDE DEF f
  <2>5. To(f, n + 1)
    BY <2>4
  <2> QED  BY <2>5
<1>3. Nat \subseteq G
  <2> HIDE DEF G
  <2> QED  BY <1>1, <1>2, SetInduction
<1>4. PICK f : To(f, iters)
  BY <1>3
<1> QED  BY <1>4 DEF IsChain

\* What the links of a chain are.
Links(u, pass, salt, iters, i) ==
    /\ iters > 0 => u[1] = Spread(RefHmac(pass, Indexed(salt, i)))
    /\ \A n \in 1 .. iters : n > 1 => u[n] = Spread(RefHmac(pass, u[n - 1])) /\ Row(u[n - 1])

\* A salt with the number of a block behind.
LEMMA IndexedRow ==
    ASSUME NEW salt, Row(salt), NEW i
    PROVE  Row(Indexed(salt, i)) /\ Row(<<<<"index", i>>>>) /\ Len(<<<<"index", i>>>>) = 1
<1>1. <<<<"index", i>>>> \in Seq({<<"index", i>>}) /\ Len(<<<<"index", i>>>>) = 1
  OBVIOUS
<1>2. Row(<<<<"index", i>>>>)
  BY <1>1 DEF Row
<1> QED  BY <1>1, <1>2, RowsJoin DEF Indexed

\* The links of a chain, as the standard has them.
LEMMA ChainHas ==
    ASSUME NEW pass, NEW salt, Row(salt), NEW iters \in Nat, NEW i
    PROVE  \E u : Links(u, pass, salt, iters, i) /\ Chain(pass, salt, iters, i) = {u[n] : n \in 1 .. iters}
<1> DEFINE u == CHOOSE f : IsChain(f, pass, salt, iters, i)
<1>1. IsChain(u, pass, salt, iters, i)
  BY ChainExists
<1>2. Chain(pass, salt, iters, i) = {u[n] : n \in 1 .. iters}
  BY ChainIs, Zenon
<1> HIDE DEF u
<1>3. u = [n \in 1 .. iters |-> Link(pass, salt, i, u, n)]
  BY <1>1, Zenon DEF IsChain
<1>4. \A n \in 1 .. iters : u[n] = Link(pass, salt, i, u, n)
  BY <1>3, Zenon
<1>5. iters > 0 => u[1] = Spread(RefHmac(pass, Indexed(salt, i)))
  <2> SUFFICES ASSUME iters > 0 PROVE u[1] = Spread(RefHmac(pass, Indexed(salt, i)))
    OBVIOUS
  <2>1. u[1] = Link(pass, salt, i, u, 1)
    BY <1>4
  <2>2. Hmac(pass, Indexed(salt, i)) = RefHmac(pass, Indexed(salt, i))
    BY IndexedRow, HmacIs
  <2> QED  BY <2>1, <2>2, Zenon DEF Link
<1>6. ASSUME NEW n \in 1 .. iters PROVE Row(u[n])
  <2>1. \E x : u[n] = Spread(x)
    BY <1>4, Zenon DEF Link
  <2> QED  BY <2>1, SpreadIs
<1>7. ASSUME NEW n \in 1 .. iters, n > 1
      PROVE  u[n] = Spread(RefHmac(pass, u[n - 1])) /\ Row(u[n - 1])
  <2>1. n # 1 /\ n - 1 \in 1 .. iters
    BY <1>7
  <2>2. u[n] = Spread(Hmac(pass, u[n - 1]))
    BY <1>4, <2>1, Zenon DEF Link
  <2>3. Row(u[n - 1])
    BY <1>6, <2>1
  <2> QED  BY <2>2, <2>3, HmacIs
<1> QED  BY <1>2, <1>5, <1>7 DEF Links

\* A digest is no salt with a number behind.
LEMMA NotIndexed ==
    ASSUME NEW salt, Row(salt), NEW i, NEW x
    PROVE  Indexed(salt, i) # Spread(x)
<1> SUFFICES ASSUME Indexed(salt, i) = Spread(x) PROVE FALSE
  OBVIOUS
<1> DEFINE e == <<<<"index", i>>>>
           w == Indexed(salt, i)
           l == Len(salt) + 1
<1>1. Row(e) /\ Len(e) = 1 /\ e[1] = <<"index", i>>
  BY IndexedRow
<1>2. w = salt \o e
  BY DEF Indexed
<1> HIDE DEF e
<1>3. /\ Len(salt \o e) = Len(salt) + Len(e) /\ Len(salt) \in Nat
      /\ \A j \in 1 .. Len(e) : (salt \o e)[Len(salt) + j] = e[j]
  <2>1. Row(e)  BY <1>1
  <2> QED  BY ONLY Row(salt), <2>1, RowsJoin
<1>4. w[l] = <<"index", i>> /\ Len(w) = l /\ l \in Nat \ {0}
  BY <1>1, <1>2, <1>3
<1> HIDE DEF l
<1>5. Len(Spread(x)) = DigestLen /\ \A j \in 1 .. DigestLen : Spread(x)[j] = <<"digest", j, x>>
  BY SpreadIs
<1>6. l \in 1 .. DigestLen
  BY <1>4, <1>5
<1>7. <<"index", i>> = <<"digest", l, x>>
  BY <1>4, <1>5, <1>6
<1> QED  BY <1>7

\* A salt and a number are told from the two put together.
LEMMA IndexTells ==
    ASSUME NEW s, NEW t, Row(s), Row(t), NEW i, NEW j, Indexed(s, i) = Indexed(t, j)
    PROVE  s = t /\ i = j
<1> DEFINE e == <<<<"index", i>>>>
           f == <<<<"index", j>>>>
<1>1. Row(e) /\ Len(e) = 1 /\ e[1] = <<"index", i>> /\ Row(f) /\ Len(f) = 1 /\ f[1] = <<"index", j>>
  BY IndexedRow
<1>2. s \o e = t \o f
  BY DEF Indexed
<1> HIDE DEF e, f
<1>3. Len(s \o e) = Len(s) + Len(e) /\ Len(s) \in Nat
  BY <1>1, RowsJoin
<1>4. Len(t \o f) = Len(t) + Len(f) /\ Len(t) \in Nat
  BY <1>1, RowsJoin
<1>5. Len(s) = Len(t)
  <2>1. Len(s \o e) = Len(t \o f)
    BY <1>2
  <2> QED  BY ONLY <1>1, <1>3, <1>4, <2>1
<1>6. s = t /\ e = f
  BY ONLY Row(s), Row(t), <1>1, <1>2, <1>5, RowsTell
<1> QED  BY <1>1, <1>6

\* The first link of a chain in another.
LEMMA FirstLink ==
    ASSUME NEW p, NEW q, Apart(p, q), NEW s, NEW t, Row(s), Row(t), NEW a \in Nat, NEW b \in Nat,
           NEW i, NEW j, NEW u, NEW v, Links(u, p, s, a, i), Links(v, q, t, b, j),
           a > 0, NEW n \in 1 .. b, u[1] = v[n]
    PROVE  p = q /\ s = t /\ i = j /\ n = 1
<1>1. u[1] = Spread(RefHmac(p, Indexed(s, i))) /\ Row(Indexed(s, i))
  BY IndexedRow DEF Links
<1>2. CASE n = 1
  <2>1. v[1] = Spread(RefHmac(q, Indexed(t, j))) /\ Row(Indexed(t, j))
    <3>1. b > 0
      OBVIOUS
    <3> QED  BY <3>1, IndexedRow DEF Links
  <2>2. RefHmac(p, Indexed(s, i)) = RefHmac(q, Indexed(t, j))
    BY <1>1, <1>2, <2>1, SpreadIs
  <2>3. p = q /\ Indexed(s, i) = Indexed(t, j)
    BY <1>1, <2>1, <2>2, HmacTells
  <2> QED  BY <1>2, <2>3, IndexTells
<1>3. CASE n # 1
  <2>1. n > 1
    BY <1>3
  <2>2. v[n] = Spread(RefHmac(q, v[n - 1])) /\ Row(v[n - 1])
    BY <2>1 DEF Links
  <2>3. RefHmac(p, Indexed(s, i)) = RefHmac(q, v[n - 1])
    BY <1>1, <2>2, SpreadIs
  <2>4. Indexed(s, i) = v[n - 1]
    BY <1>1, <2>2, <2>3, HmacTells
  <2>5. \E x : v[n - 1] = Spread(x)
    <3>1. CASE n - 1 = 1
      BY <3>1 DEF Links
    <3>2. CASE n - 1 # 1
      <4>1. n - 1 \in 1 .. b /\ n - 1 > 1
        BY <2>1, <3>2
      <4> QED  BY <4>1 DEF Links
    <3> QED  BY <3>1, <3>2
  <2> QED  BY <2>4, <2>5, NotIndexed
<1> QED  BY <1>2, <1>3

\* Chains of one passphrase and salt go through the same links, and never
\* through one again.
LEMMA LinksStay ==
    ASSUME NEW p, Apart(p, p), NEW s, Row(s), NEW a \in Nat, NEW b \in Nat, a <= b, NEW i,
           NEW u, NEW v, Links(u, p, s, a, i), Links(v, p, s, b, i)
    PROVE  \A n \in 1 .. a : u[n] = v[n]
<1> DEFINE G == {n \in Nat : n \in 1 .. a => u[n] = v[n]}
<1>1. 0 \in G
  OBVIOUS
<1>2. ASSUME NEW n \in Nat, n \in G PROVE n + 1 \in G
  <2> SUFFICES ASSUME n + 1 \in 1 .. a PROVE u[n + 1] = v[n + 1]
    OBVIOUS
  <2>1. CASE n = 0
    BY <2>1 DEF Links
  <2>2. CASE n # 0
    <3>1. n \in 1 .. a /\ (n + 1) - 1 = n /\ n + 1 > 1 /\ n + 1 \in 1 .. b
      BY <2>2
    <3>2. u[n] = v[n]
      BY <1>2, <3>1
    <3>3. u[n + 1] = Spread(RefHmac(p, u[(n + 1) - 1]))
      BY <3>1 DEF Links
    <3>4. v[n + 1] = Spread(RefHmac(p, v[(n + 1) - 1]))
      BY <3>1 DEF Links
    <3> QED  BY <3>1, <3>2, <3>3, <3>4
  <2> QED  BY <2>1, <2>2
<1>3. Nat \subseteq G
  <2> HIDE DEF G
  <2> QED  BY <1>1, <1>2, SetInduction
<1> QED  BY <1>3

\* A link that came back would make two earlier ones the same, down to the first.
LEMMA LinksDiffer ==
    ASSUME NEW p, Apart(p, p), NEW s, Row(s), NEW b \in Nat, NEW i, NEW v, Links(v, p, s, b, i)
    PROVE  \A n \in 1 .. b : \A m \in 1 .. b : n < m => v[n] # v[m]
<1> DEFINE G == {n \in Nat : n \in 1 .. b => \A m \in 1 .. b : n < m => v[n] # v[m]}
<1>1. 0 \in G
  OBVIOUS
<1>2. ASSUME NEW n \in Nat, n \in G PROVE n + 1 \in G
  <2> SUFFICES ASSUME n + 1 \in 1 .. b, NEW m \in 1 .. b, n + 1 < m, v[n + 1] = v[m] PROVE FALSE
    OBVIOUS
  <2>1. CASE n = 0
    <3>1. v[1] = v[m] /\ b > 0 /\ m # 1
      BY <2>1
    <3> QED  BY <3>1, FirstLink
  <2>2. CASE n # 0
    <3>1. /\ n \in 1 .. b /\ m - 1 \in 1 .. b /\ n < m - 1 /\ (n + 1) - 1 = n /\ n + 1 > 1 /\ m > 1
      BY <2>2
    <3>2. v[n + 1] = Spread(RefHmac(p, v[n])) /\ Row(v[n])
      <4>1. v[n + 1] = Spread(RefHmac(p, v[(n + 1) - 1])) /\ Row(v[(n + 1) - 1])
        BY <3>1 DEF Links
      <4> QED  BY <3>1, <4>1
    <3>3. v[m] = Spread(RefHmac(p, v[m - 1])) /\ Row(v[m - 1])
      BY <3>1 DEF Links
    <3>4. RefHmac(p, v[n]) = RefHmac(p, v[m - 1])
      BY <3>2, <3>3, SpreadIs
    <3>5. v[n] = v[m - 1]
      BY <3>2, <3>3, <3>4, HmacTells
    <3> QED  BY <1>2, <3>1, <3>5
  <2> QED  BY <2>1, <2>2
<1>3. Nat \subseteq G
  <2> HIDE DEF G
  <2> QED  BY <1>1, <1>2, SetInduction
<1> QED  BY <1>3

\* Equal chains are of one passphrase, salt, number of iterations and block.
LEMMA ChainsTell ==
    ASSUME NEW p, NEW q, Apart(p, q), NEW s, NEW t, Row(s), Row(t), NEW a \in Nat, NEW b \in Nat,
           a > 0, b > 0, NEW i, NEW j, Chain(p, s, a, i) = Chain(q, t, b, j)
    PROVE  p = q /\ s = t /\ i = j /\ a = b
<1>1. PICK u : Links(u, p, s, a, i) /\ Chain(p, s, a, i) = {u[n] : n \in 1 .. a}
  BY ChainHas
<1>2. PICK v : Links(v, q, t, b, j) /\ Chain(q, t, b, j) = {v[n] : n \in 1 .. b}
  BY ChainHas
<1>3. /\ \A m \in 1 .. a : \E n \in 1 .. b : u[m] = v[n]
      /\ \A n \in 1 .. b : \E m \in 1 .. a : u[m] = v[n]
  BY <1>1, <1>2
<1>4. p = q /\ s = t /\ i = j
  <2>1. PICK n \in 1 .. b : u[1] = v[n]
    BY <1>3
  <2> QED  BY <1>1, <1>2, <2>1, FirstLink
<1>5. Apart(p, p)
  BY <1>4
<1>6. ~ (a < b)
  <2> SUFFICES ASSUME a < b PROVE FALSE
    OBVIOUS
  <2>1. \A n \in 1 .. a : u[n] = v[n]
    <3>1. a <= b
      OBVIOUS
    <3> QED  BY ONLY <1>1, <1>2, <1>4, <1>5, <3>1, Row(s), LinksStay
  <2>2. PICK m \in 1 .. a : u[m] = v[b]
    BY <1>3
  <2>3. m \in 1 .. b /\ b \in 1 .. b /\ m < b /\ v[m] = v[b]
    BY <2>1, <2>2
  <2> QED  BY <1>2, <1>4, <1>5, <2>3, LinksDiffer
<1>7. ~ (b < a)
  <2> SUFFICES ASSUME b < a PROVE FALSE
    OBVIOUS
  <2>1. \A n \in 1 .. b : v[n] = u[n]
    <3>1. b <= a
      OBVIOUS
    <3> QED  BY ONLY <1>1, <1>2, <1>4, <1>5, <3>1, Row(s), LinksStay
  <2>2. PICK n \in 1 .. b : u[a] = v[n]
    BY <1>3
  <2>3. n \in 1 .. a /\ a \in 1 .. a /\ n < a /\ u[n] = u[a]
    BY <2>1, <2>2
  <2> QED  BY <1>1, <1>4, <1>5, <2>3, LinksDiffer
<1> QED  BY <1>4, <1>6, <1>7

-----------------------------------------------------------------------------
(* The machine.                                                            *)

\* What a context stands for: all it was fed, however it was cut.
HasherHolds(c, m) ==
    \/ /\ c.alg = "blake2s" /\ c.key \in Keys \cup {<<>>} /\ Len(c.key) <= DigestLen
       /\ BlakeHolds(c, BlakeIV(c.key), KeyBlock(c.key) \o m)
    \/ c.alg = "sha256" /\ c.key = <<>> /\ Holds(c, <<"sha256">>, m)
    \/ c.alg = "xxh32" /\ c.key = <<>> /\ Holds(c, <<"seed">>, m)
    \/ c.alg = "hmac" /\ c.key \in Keys /\ Holds(c, <<"sha256">>, Xored(c.key, "ipad") \o m)

\* The keys of a MAC, and the blocks they are made into.
LEMMA KeysAre ==
    ASSUME NEW key \in Keys \cup {<<>>}
    PROVE  Row(key) /\ (Len(key) <= DigestLen => Len(key) <= Block /\ Row(KeyBlock(key)))
<1>1. Row(key)
  BY EmptyRow, BlockAssumption DEF Row
<1>2. Len(key) \in Nat
  BY <1>1 DEF Row
<1>3. DigestLen \in 1 .. Block /\ Block \in Nat
  BY SpreadIs
<1>4. ASSUME Len(key) <= DigestLen PROVE Len(key) <= Block /\ Row(KeyBlock(key))
  <2>1. Len(key) <= Block
    BY <1>2, <1>3, <1>4
  <2> QED  BY <1>1, <2>1, KeyBlockIs
<1> QED  BY <1>1, <1>4

\* amisnap_blake2s_init() and amisnap_blake2s_init_key().
LEMMA BlakeBegins ==
    ASSUME NEW key \in Keys \cup {<<>>}, Len(key) <= DigestLen
    PROVE  HasherHolds(BlakeInit(key), <<>>)
<1> DEFINE r == [alg |-> "blake2s", key |-> key, h |-> BlakeIV(key), buf |-> <<>>, count |-> 0]
           c == BlakeUpdate(r, KeyBlock(key))
<1>1. Context(r) /\ r.buf = <<>> /\ r.count = 0 /\ r.h = BlakeIV(key) /\ r.alg = "blake2s" /\ r.key = key
  BY DEF Context
<1>2. BlakeInit(key) = c
  BY DEF BlakeInit, KeyBlock
<1>3. Row(KeyBlock(key)) /\ Row(<<>>)
  BY KeysAre, EmptyRow
<1>4. BlakeHolds(r, BlakeIV(key), <<>>)
  <2> HIDE DEF r
  <2> QED  BY <1>1, EmptyHolds
<1>5. BlakeHolds(c, BlakeIV(key), <<>> \o KeyBlock(key)) /\ c.alg = r.alg /\ c.key = r.key
  <2> HIDE DEF r
  <2>1. ASSUME NEW d, d = <<>>
        PROVE  BlakeHolds(c, BlakeIV(key), d \o KeyBlock(key)) /\ c.alg = r.alg /\ c.key = r.key
    <3>1. Row(d) /\ Row(KeyBlock(key)) /\ BlakeHolds(r, BlakeIV(key), d)
      BY <1>3, <1>4, <2>1
    <3> QED  BY ONLY <3>1, BlakeFeeds
  <2> QED  BY <2>1
<1>6. <<>> \o KeyBlock(key) = KeyBlock(key) /\ KeyBlock(key) \o <<>> = KeyBlock(key)
  BY <1>3, EmptyRow
<1> HIDE DEF r, c
<1> QED  BY <1>1, <1>2, <1>5, <1>6 DEF HasherHolds

\* A context that was begun stands for nothing.
LEMMA HashersBegin ==
    ASSUME NEW c \in Starts
    PROVE  HasherHolds(c, <<>>)
<1>1. CASE c = ShaInit
  BY <1>1, ShaBegins DEF HasherHolds
<1>2. CASE c = XxhInit
  <2>1. /\ Context(XxhInit) /\ XxhInit.buf = <<>> /\ XxhInit.count = 0 /\ XxhInit.h = <<"seed">>
        /\ XxhInit.alg = "xxh32" /\ XxhInit.key = <<>>
    BY DEF XxhInit, Context
  <2> QED  BY <1>2, <2>1, EmptyHolds DEF HasherHolds
<1>3. CASE \E k \in Keys : c = HmacInit(k)
  <2>1. PICK k \in Keys : c = HmacInit(k)
    BY <1>3
  <2>2. Xored(k, "ipad") \o <<>> = Xored(k, "ipad")
    BY XoredIs, EmptyRow
  <2> QED  BY <2>1, <2>2, HmacBegins DEF HasherHolds
<1>4. CASE \E k \in {x \in Keys \cup {<<>>} : Len(x) <= DigestLen} : c = BlakeInit(k)
  BY <1>4, BlakeBegins
<1> QED  BY <1>1, <1>2, <1>3, <1>4 DEF Starts

\* A context that is fed stands for what it was fed.
LEMMA HashersFed ==
    ASSUME NEW m, NEW p, Row(m), Row(p), NEW c, HasherHolds(c, m)
    PROVE  HasherHolds(Updated(c, p), m \o p) /\ Updated(c, p).alg = c.alg /\ Updated(c, p).key = c.key
<1>1. CASE c.alg = "blake2s"
  <2>1. /\ c.key \in Keys \cup {<<>>} /\ Len(c.key) <= DigestLen
        /\ BlakeHolds(c, BlakeIV(c.key), KeyBlock(c.key) \o m)
    BY <1>1 DEF HasherHolds
  <2>2. Updated(c, p) = BlakeUpdate(c, p)
    BY <1>1 DEF Updated
  <2>3. Row(KeyBlock(c.key))
    BY <2>1, KeysAre
  <2>4. Row(KeyBlock(c.key) \o m)
    BY <2>3, RowsJoin
  <2>5. /\ BlakeHolds(BlakeUpdate(c, p), BlakeIV(c.key), (KeyBlock(c.key) \o m) \o p)
        /\ BlakeUpdate(c, p).alg = c.alg /\ BlakeUpdate(c, p).key = c.key
    BY <2>1, <2>4, BlakeFeeds
  <2>6. (KeyBlock(c.key) \o m) \o p = KeyBlock(c.key) \o (m \o p)
    BY <2>3, RowsGroup
  <2> QED  BY <1>1, <2>1, <2>2, <2>5, <2>6, Zenon DEF HasherHolds
<1>2. CASE c.alg = "xxh32"
  <2>1. c.key = <<>> /\ Holds(c, <<"seed">>, m)
    BY <1>2 DEF HasherHolds
  <2>2. Updated(c, p) = XxhUpdate(c, p)
    BY <1>2 DEF Updated
  <2>3. /\ Holds(XxhUpdate(c, p), <<"seed">>, m \o p)
        /\ XxhUpdate(c, p).alg = c.alg /\ XxhUpdate(c, p).key = c.key
    BY <2>1, XxhFeeds
  <2> QED  BY <1>2, <2>1, <2>2, <2>3, Zenon DEF HasherHolds
<1>3. CASE c.alg = "sha256"
  <2>1. c.key = <<>> /\ Holds(c, <<"sha256">>, m)
    BY <1>3 DEF HasherHolds
  <2>2. Updated(c, p) = ShaUpdate(c, p)
    BY <1>3 DEF Updated
  <2>3. /\ Holds(ShaUpdate(c, p), <<"sha256">>, m \o p)
        /\ ShaUpdate(c, p).alg = c.alg /\ ShaUpdate(c, p).key = c.key
    BY <2>1, ShaFeeds
  <2> QED  BY <1>3, <2>1, <2>2, <2>3, Zenon DEF HasherHolds
<1>4. CASE c.alg = "hmac"
  <2> DEFINE x == Xored(c.key, "ipad")
  <2>1. c.key \in Keys /\ Holds(c, <<"sha256">>, x \o m)
    BY <1>4 DEF HasherHolds
  <2>2. Updated(c, p) = ShaUpdate(c, p)
    BY <1>4 DEF Updated
  <2>3. Row(x)
    BY XoredIs
  <2>4. Row(x \o m)
    BY <2>3, RowsJoin
  <2>5. /\ Holds(ShaUpdate(c, p), <<"sha256">>, (x \o m) \o p)
        /\ ShaUpdate(c, p).alg = c.alg /\ ShaUpdate(c, p).key = c.key
    BY <2>1, <2>4, ShaFeeds
  <2>6. (x \o m) \o p = x \o (m \o p)
    BY <2>3, RowsGroup
  <2> QED  BY <1>4, <2>1, <2>2, <2>5, <2>6, Zenon DEF HasherHolds
<1> QED  BY <1>1, <1>2, <1>3, <1>4 DEF HasherHolds

\* What is finished is the standard's function of it.
LEMMA HashersEnd ==
    ASSUME NEW m, Row(m), NEW c, HasherHolds(c, m)
    PROVE  Finalised(c) = Reference(c, m)
<1>1. CASE c.alg = "blake2s"
  <2>1. /\ c.key \in Keys \cup {<<>>} /\ Len(c.key) <= DigestLen
        /\ BlakeHolds(c, BlakeIV(c.key), KeyBlock(c.key) \o m)
    BY <1>1 DEF HasherHolds
  <2>2. Row(KeyBlock(c.key))
    BY <2>1, KeysAre
  <2>3. Row(KeyBlock(c.key) \o m)
    BY <2>2, RowsJoin
  <2>4. BlakeFinal(c) = RefBlake(c.key, m)
    BY <2>1, <2>3, BlakeEndsAs
  <2> QED  BY <1>1, <2>4 DEF Finalised, Reference
<1>2. CASE c.alg = "xxh32"
  <2>1. Holds(c, <<"seed">>, m)
    BY <1>2 DEF HasherHolds
  <2>2. XxhFinal(c) = RefXxh(m)
    BY <2>1, XxhEnds
  <2> QED  BY <1>2, <2>2 DEF Finalised, Reference
<1>3. CASE c.alg = "sha256"
  <2>1. Holds(c, <<"sha256">>, m)
    BY <1>3 DEF HasherHolds
  <2>2. ShaFinal(c) = RefSha(m)
    BY <2>1, ShaEnds
  <2> QED  BY <1>3, <2>2 DEF Finalised, Reference
<1>4. CASE c.alg = "hmac"
  <2>1. Holds(c, <<"sha256">>, Xored(c.key, "ipad") \o m)
    BY <1>4 DEF HasherHolds
  <2>2. HmacFinal(c) = RefHmac(c.key, m)
    BY <2>1, HmacEnds
  <2> QED  BY <1>4, <2>2 DEF Finalised, Reference
<1> QED  BY <1>1, <1>2, <1>3, <1>4 DEF HasherHolds

\* No key of a MAC is another with zeros behind.
LEMMA KeysApart == \A k, l \in Keys : Apart(k, l)
BY BlockAssumption DEF Apart

\* Nor is a passphrase.
LEMMA SecretsApart == \A k, l \in Secrets : Apart(k, l)
BY BlockAssumption DEF Apart

\* Of one cryptographic hash, a digest tells the input and the key.
LEMMA ReferencesTell ==
    ASSUME NEW m, NEW l, Row(m), Row(l), NEW c, NEW e, NEW f, NEW g,
           HasherHolds(c, f), HasherHolds(e, g), c.alg = e.alg, c.alg # "xxh32",
           Reference(c, m) = Reference(e, l)
    PROVE  m = l /\ c.key = e.key
<1>1. CASE c.alg = "blake2s"
  <2>1. /\ c.key \in Keys \cup {<<>>} /\ Len(c.key) <= DigestLen
        /\ e.key \in Keys \cup {<<>>} /\ Len(e.key) <= DigestLen
    BY <1>1 DEF HasherHolds
  <2>2. Row(c.key) /\ Len(c.key) <= Block /\ Row(e.key) /\ Len(e.key) <= Block
    BY <2>1, KeysAre
  <2>3. RefBlake(c.key, m) = RefBlake(e.key, l)
    BY <1>1 DEF Reference
  <2> QED  BY <2>2, <2>3, BlakeTells
<1>2. CASE c.alg = "sha256"
  <2>1. c.key = <<>> /\ e.key = <<>>
    BY <1>2 DEF HasherHolds
  <2>2. RefSha(m) = RefSha(l)
    BY <1>2 DEF Reference
  <2> QED  BY <2>1, <2>2, ShaTells
<1>3. CASE c.alg = "hmac"
  <2>1. c.key \in Keys /\ e.key \in Keys
    BY <1>3 DEF HasherHolds
  <2>2. Apart(c.key, e.key)
    BY <2>1, KeysApart
  <2>3. RefHmac(c.key, m) = RefHmac(e.key, l)
    BY <1>3 DEF Reference
  <2> QED  BY <2>2, <2>3, HmacTells
<1> QED  BY <1>1, <1>2, <1>3 DEF HasherHolds

\* What is fed is a row.
LEMMA InputsAreRows == \A n : \A m \in Inputs(n) : Row(m)
<1> SUFFICES ASSUME NEW n, NEW m \in Inputs(n) PROVE Row(m)
  OBVIOUS
<1>1. PICK i \in 0 .. n : m \in [1 .. i -> {<<b>> : b \in Bytes}]
  BY DEF Inputs
<1>2. m \in Seq({<<b>> : b \in Bytes})
  BY <1>1
<1> QED  BY <1>2 DEF Row

-----------------------------------------------------------------------------
\* A key that was derived.
IsDerived(d) ==
    /\ d.pass \in Secrets /\ d.salt \in DeriveSalts /\ d.iters \in Nat
    /\ \A i \in DOMAIN d.out : d.out[i] = Chain(d.pass, d.salt, AtLeastOne(d.iters), i)

DigestInv ==
    /\ Row(fed) /\ HasherHolds(hasher, fed) /\ DigestOfWhole
    /\ \A d \in derived : IsDerived(d)

\* The invariant holds at the start.
LEMMA DigestInitInv == DigestInit => DigestInv
<1> SUFFICES ASSUME DigestInit PROVE DigestInv
  OBVIOUS
<1>1. hasher \in Starts /\ fed = <<>> /\ digest = NoDigest /\ derived = {}
  BY DEF DigestInit
<1>2. HasherHolds(hasher, fed) /\ Row(fed)
  BY <1>1, HashersBegin, EmptyRow
<1> QED  BY <1>1, <1>2 DEF DigestInv, DigestOfWhole

\* What DeriveKey adds was derived.
LEMMA DerivedIs ==
    ASSUME NEW pass \in Secrets, NEW salt \in DeriveSalts, NEW n \in Nat, NEW blocks
    PROVE  IsDerived([pass |-> pass, salt |-> salt, iters |-> n, out |-> Derived(pass, salt, n, blocks)])
<1> DEFINE d == [pass |-> pass, salt |-> salt, iters |-> n, out |-> Derived(pass, salt, n, blocks)]
<1>1. d.pass = pass /\ d.salt = salt /\ d.iters = n /\ d.out = Derived(pass, salt, n, blocks)
  OBVIOUS
<1> HIDE DEF d
<1>2. \A i \in DOMAIN d.out : d.out[i] = Chain(pass, salt, AtLeastOne(n), i)
  BY <1>1, Zenon DEF Derived
<1>3. IsDerived(d)
  BY <1>1, <1>2, Zenon DEF IsDerived
<1> QED  BY <1>3 DEF d

\* Every step keeps the invariant.
LEMMA DigestNextInv == DigestInv /\ [DigestNext]_digestVars => DigestInv'
<1> SUFFICES ASSUME DigestInv, [DigestNext]_digestVars PROVE DigestInv'
  OBVIOUS
<1>1. CASE HashUpdate
  <2>1. PICK p \in Inputs(MaxInput - Len(fed)) : hasher' = Updated(hasher, p) /\ fed' = fed \o p
    BY <1>1 DEF HashUpdate
  <2>2. digest' = digest /\ derived' = derived /\ digest = NoDigest
    BY <1>1 DEF HashUpdate
  <2>3. Row(p) /\ Row(fed) /\ HasherHolds(hasher, fed)
    BY <2>1, InputsAreRows DEF DigestInv
  <2>4. Row(fed \o p)
    BY <2>3, RowsJoin
  <2>5. HasherHolds(Updated(hasher, p), fed \o p)
    BY <2>3, HashersFed
  <2>6. Row(fed') /\ HasherHolds(hasher', fed')
    BY <2>1, <2>4, <2>5
  <2> QED  BY <2>2, <2>6 DEF DigestInv, DigestOfWhole
<1>2. CASE HashFinal
  <2>1. digest' = Finalised(hasher) /\ hasher' = hasher /\ fed' = fed /\ derived' = derived
    BY <1>2 DEF HashFinal
  <2>2. Finalised(hasher) = Reference(hasher, fed)
    BY HashersEnd DEF DigestInv
  <2> QED  BY <2>1, <2>2 DEF DigestInv, DigestOfWhole
<1>3. CASE DeriveKey
  <2>1. hasher' = hasher /\ fed' = fed /\ digest' = digest
    BY <1>3 DEF DeriveKey
  <2>2. PICK pass \in Secrets, salt \in DeriveSalts, n \in 0 .. 3, blocks \in 1 .. 2 :
           derived' = derived \cup
               {[pass |-> pass, salt |-> salt, iters |-> n, out |-> Derived(pass, salt, n, blocks)]}
    BY <1>3 DEF DeriveKey
  <2>3. n \in Nat
    OBVIOUS
  <2>4. IsDerived([pass |-> pass, salt |-> salt, iters |-> n, out |-> Derived(pass, salt, n, blocks)])
    BY <2>3, DerivedIs
  <2>5. \A d \in derived' : IsDerived(d)
    BY <2>2, <2>4 DEF DigestInv
  <2> QED  BY <2>1, <2>5 DEF DigestInv, DigestOfWhole
<1>4. CASE UNCHANGED digestVars
  BY <1>4 DEF DigestInv, DigestOfWhole, digestVars
<1> QED  BY <1>1, <1>2, <1>3, <1>4 DEF DigestNext

\* The invariant gives DigestsDiffer.
LEMMA DigestsTell == DigestInv => DigestsDiffer
<1> SUFFICES ASSUME DigestInv, digest # NoDigest, hasher.alg # "xxh32",
                    NEW c \in Starts, c.alg = hasher.alg, NEW m \in Inputs(MaxInput),
                    OneShots[c][m] = digest
             PROVE  m = fed /\ c.key = hasher.key
  BY DEF DigestsDiffer
<1> DEFINE e == Updated(c, m)
<1>1. OneShots[c][m] = Finalised(e)
  BY DEF OneShots
<1>2. Row(m) /\ Row(fed) /\ HasherHolds(c, <<>>) /\ Row(<<>>) /\ <<>> \o m = m
  BY InputsAreRows, HashersBegin, EmptyRow DEF DigestInv
<1>3. HasherHolds(e, <<>> \o m) /\ e.alg = c.alg /\ e.key = c.key
  <2>1. ASSUME NEW d, d = <<>> PROVE HasherHolds(e, d \o m) /\ e.alg = c.alg /\ e.key = c.key
    <3>1. Row(d) /\ Row(m) /\ HasherHolds(c, d)
      BY <1>2, <2>1
    <3> QED  BY ONLY <3>1, HashersFed
  <2> QED  BY <2>1
<1> HIDE DEF e
<1>4. HasherHolds(e, m)
  BY <1>2, <1>3
<1>5. Finalised(e) = Reference(e, m)
  BY <1>2, <1>4, HashersEnd
<1>6. Reference(e, m) = Reference(hasher, fed) /\ HasherHolds(hasher, fed)
  BY <1>1, <1>5 DEF DigestInv, DigestOfWhole
<1>7. e.alg = hasher.alg /\ e.alg # "xxh32"
  BY <1>3
<1>8. m = fed /\ e.key = hasher.key
  BY <1>2, <1>4, <1>6, <1>7, ReferencesTell
<1> QED  BY <1>3, <1>8

\* The invariant gives DerivedKeysDiffer.
LEMMA DerivedKeysTell == DigestInv => DerivedKeysDiffer
<1> SUFFICES ASSUME DigestInv, NEW d \in derived, NEW e \in derived,
                    NEW i \in DOMAIN d.out, NEW j \in DOMAIN e.out, d.out[i] = e.out[j]
             PROVE  /\ i = j /\ d.pass = e.pass /\ d.salt = e.salt
                    /\ AtLeastOne(d.iters) = AtLeastOne(e.iters)
  BY DEF DerivedKeysDiffer
<1> DEFINE a == AtLeastOne(d.iters)
           b == AtLeastOne(e.iters)
<1>1. IsDerived(d) /\ IsDerived(e)
  BY DEF DigestInv
<1>2. a \in Nat /\ b \in Nat /\ a > 0 /\ b > 0
  BY <1>1 DEF IsDerived, AtLeastOne
<1>3. Chain(d.pass, d.salt, a, i) = Chain(e.pass, e.salt, b, j)
  BY <1>1 DEF IsDerived
<1>4. Row(d.salt) /\ Row(e.salt)
  BY <1>1, BlockAssumption DEF IsDerived, Row
<1>5. Apart(d.pass, e.pass)
  BY <1>1, SecretsApart DEF IsDerived
<1> HIDE DEF a, b
<1>6. i = j /\ d.pass = e.pass /\ d.salt = e.salt /\ a = b
  BY <1>2, <1>3, <1>4, <1>5, ChainsTell
<1> QED  BY <1>6 DEF a, b

\* The digests and keys computed in pieces are those the standards define of the
\* whole, and as different as the inputs and keys are (blake2s.c, sha256.c,
\* hmac_sha256.c, xxhash32.c, pbkdf2.c), for any block, any inputs, any keys.
THEOREM DigestsWhole == DigestInit /\ [][DigestNext]_digestVars => []DigestsOfWholes
<1>1. DigestInv => DigestsOfWholes
  BY DigestsTell, DerivedKeysTell DEF DigestsOfWholes, DigestInv
<1> QED  BY <1>1, DigestInitInv, DigestNextInv, PTL
=============================================================================
