-------------------------- MODULE DirBackendProofs --------------------------
(***************************************************************************)
(* The directory backend for any processes, keys and contents: readers get *)
(* whole contents, calls fail only for a cause, nothing is left under tmp/ *)
(* but what crashes and failing calls leave, and to the process that owns  *)
(* a key the directory is the map with atomic calls of KeyStore.           *)
(***************************************************************************)
EXTENDS DirBackend, SequenceTheorems, TLAPS

-----------------------------------------------------------------------------
(* The invariant.                                                          *)

\* Positions of a process that has a put or a stream under way, and those of
\* it in which its staging file exists or did.
Staging == {"write", "held", "close", "parents", "rename", "discard", "abort"}
Putting == {"mktmp", "open"} \cup Staging

WriteHandle == [file : Seq(STRING) \cup {NoFile, Gone}, bytes : Seq(Byte), key : Key,
                want : Content, left : Seq(Byte), streamed : BOOLEAN, failed : BOOLEAN]
ReadHandle == [file : Key \cup {Gone}, bytes : Seq(Byte)]

Answers == [rc : {"pending", "ok", "absent", "error"}] \cup [rc : {"ok"}, data : Content]

\* Only staging files are ever less than whole.
Files ==
    /\ node \in [Path -> Seq(Byte) \cup {Nothing, Dir}]
    /\ \A k \in Key : node[k] \in Content \cup {Nothing}
    /\ \A k \in Key : node[Stage(k)] \in Seq(Byte) \cup {Nothing}
    /\ litter \subseteq {Stage(k) : k \in Key}

\* What a process has open.
Holds(c) ==
    IF at[c] \in Putting THEN
       /\ h[c] \in WriteHandle /\ Owner[h[c].key] = c
       /\ h[c].file \in {NoFile, Gone, Stage(h[c].key)}
    ELSE IF at[c] = "read" THEN h[c] \in ReadHandle
    ELSE h[c] = NoHandle

\* How far a put has come.
PutState(c) ==
    LET x == h[c]
        s == Stage(x.key)
    IN
    /\ x.file = s => node[s] # Nothing
    /\ at[c] \in {"mktmp", "open"} => x.file = NoFile /\ ~x.failed /\ x.left = x.want
    /\ at[c] \in {"write", "held", "close"} =>
          /\ x.file \in {s, Gone}
          /\ x.file = Gone => node[s] = Nothing
          /\ ~x.failed /\ x.file = s => node[s] \o x.left = x.want
    /\ at[c] = "write" => ~x.failed /\ (x.streamed => x.left # <<>>)
    /\ at[c] = "close" => ~x.failed /\ x.left = <<>>
    /\ at[c] \in {"parents", "rename"} => x.file = NoFile /\ node[s] \in {x.want, Nothing}
    /\ at[c] \in {"held", "abort"} => x.streamed
    /\ at[c] \in {"write", "held", "close", "parents", "rename"} /\ node[s] = Nothing => faulty[c]
    /\ at[c] = "discard" => faulty[c]

\* What a reader has open is whole.
ReadState(c) ==
    /\ h[c].file \in Key => node[h[c].file] \in Content
    /\ h[c].file = Gone => h[c].bytes \in Content
    /\ call[c].key \in Mine(c) => h[c].file = call[c].key

PutCall(c) == call[c] = [op |-> "put", key |-> h[c].key, data |-> h[c].want]

SweepCall(c) == \E k \in Key : call[c] = [op |-> "remove", key |-> Stage(k), was |-> Absent]
RemoveCall(c) == \E k \in Mine(c) : call[c] = [op |-> "remove", key |-> k, was |-> Visible(k)]

\* A call that has taken effect.
HasPut(c) ==
    \E k \in Mine(c) : node[k] # Nothing /\ call[c] = [op |-> "put", key |-> k, data |-> node[k]]
HasRemoved(c) ==
    \E k \in Mine(c), d \in Content :
        node[k] = Nothing /\ call[c] = [op |-> "remove", key |-> k, was |-> d]

\* Which call is being made.
CallState(c) ==
    /\ at[c] \in {"mktmp", "open", "write"} => IF h[c].streamed THEN call[c] = NoCall ELSE PutCall(c)
    /\ at[c] \in {"held", "abort"} => call[c] = NoCall
    /\ at[c] \in {"close", "parents", "rename"} => PutCall(c)
    /\ at[c] \in {"get", "read"} => call[c] \in [op : {"get"}, key : Key]
    /\ at[c] = "exists" => call[c] \in [op : {"exists"}, key : Key]
    /\ at[c] = "list" => call[c] \in [op : {"list"}, key : Container]
    /\ at[c] = "mkcol" => call[c] \in [op : {"mkcol"}, key : Container]
    /\ at[c] = "remove" => SweepCall(c) \/ RemoveCall(c)
    /\ at[c] = "return" => SweepCall(c) \/ HasPut(c) \/ HasRemoved(c)

ReplyState(c) ==
    /\ reply[c] \in Answers
    /\ at[c] \in {"idle", "held"} <=> reply[c] # Pending
    /\ reply[c] = Said("error") => faulty[c]

\* What lies under tmp/ is litter or the file of the one who puts that key.
Litter(c) ==
    \A k \in Mine(c) : node[Stage(k)] # Nothing =>
        Stage(k) \in litter \/ (at[c] \in Staging /\ h[c].key = k)

ClientInv(c) ==
    /\ at[c] \in Putting => PutState(c)
    /\ at[c] = "read" => ReadState(c)
    /\ Holds(c) /\ CallState(c) /\ ReplyState(c) /\ Litter(c)

Positions == Putting \cup {"idle", "return", "get", "read", "exists", "remove", "list", "mkcol"}
Types ==
    /\ at \in [Client -> Positions]
    /\ faulty \in [Client -> BOOLEAN]
    /\ DOMAIN h = Client /\ DOMAIN call = Client /\ DOMAIN reply = Client

IInv == Types /\ Files /\ \A c \in Client : ClientInv(c)

-----------------------------------------------------------------------------
(* Paths.                                                                  *)

LEMMA Tuples ==
    ASSUME NEW S, NEW x \in S, NEW y \in S
    PROVE  /\ <<x>> \in Seq(S) /\ <<x>>[1] = x /\ Len(<<x>>) = 1
           /\ <<x, y>> \in Seq(S) /\ <<x, y>>[1] = x /\ <<x, y>>[2] = y /\ Len(<<x, y>>) = 2
  OBVIOUS

LEMMA TmpIsPath == Tmp \in Seq(STRING) /\ Tmp[1] = "tmp" /\ Len(Tmp) = 1 /\ "tmp" \in STRING
<1>1. Tmp \in Seq(STRING)
  BY KeyAssumption
<1>2. Tmp[1] = "tmp" /\ Len(Tmp) = 1
  BY DEF Tmp
<1> QED  BY <1>1, <1>2, ElementOfSeq

LEMMA StageIsPath ==
    ASSUME NEW k \in Key
    PROVE  Stage(k) \in Seq(STRING) /\ Stage(k)[1] = "tmp" /\ Len(Stage(k)) = 2
           /\ Stage(k)[2] = StageName[k]
<1>1. "tmp" \in STRING
  BY TmpIsPath
<1>2. StageName[k] \in STRING
  BY StageAssumption
<1> QED  BY <1>1, <1>2, Tuples DEF Stage

LEMMA KeysApart ==
    ASSUME NEW k \in Key, NEW n \in 1 .. Len(k) - 1
    PROVE  /\ SubSeq(k, 1, n) \in Seq(STRING) /\ SubSeq(k, 1, n) \notin Key
           /\ \A l \in Key : SubSeq(k, 1, n) # Stage(l)
<1>1. k \in Seq(STRING) /\ Len(k) \in Nat /\ n \in Nat /\ n <= Len(k)
  BY KeyAssumption, LenProperties
<1> DEFINE p == SubSeq(k, 1, n)
<1>2. p \in Seq(STRING) /\ Len(p) = n /\ \A i \in 1 .. n : p[i] = k[i]
  BY <1>1, SubSeqProperties
<1>3. ASSUME p \in Key  PROVE FALSE
  <2>1. p # k
    BY <1>1, <1>2
  <2>2. SubSeq(p, 1, n) = SubSeq(k, 1, n)
    BY <1>2, SubSeqFull
  <2>3. IsPrefix(p, k)
    BY <1>1, <1>2, <2>2 DEF IsPrefix
  <2> QED  BY <1>3, <2>1, <2>3, KeyAssumption
<1>4. ASSUME NEW l \in Key, p = Stage(l)  PROVE FALSE
  <2>1. p[1] = "tmp"
    BY <1>4, StageIsPath
  <2>2. p[1] = k[1]
    BY <1>1, <1>2
  <2> QED  BY <2>1, <2>2, KeyAssumption
<1> QED  BY <1>2, <1>3, <1>4

\* What kinds of paths there are, and that none is of two kinds.
LEMMA PathFacts ==
    /\ Path \subseteq Seq(STRING) /\ Key \subseteq Path /\ Container \subseteq Path /\ Tmp \in Path
    /\ \A k \in Key : Stage(k) \in Path \ Key /\ Stage(k) # Tmp /\ Stage(k) \notin Container
    /\ \A k, l \in Key : Stage(k) = Stage(l) => k = l
    /\ Tmp \notin Key /\ Container \cap Key = {}
    /\ \A k \in Key : Parents(k) \subseteq Container
    /\ Gone \notin Path /\ NoFile \notin Path /\ Gone # NoFile
<1>1. \A k \in Key : Stage(k) \in Seq(STRING) /\ Stage(k)[1] = "tmp" /\ Len(Stage(k)) = 2
                     /\ Stage(k)[2] = StageName[k]
  BY StageIsPath
<1>2. Tmp \in Seq(STRING) /\ Tmp[1] = "tmp" /\ Len(Tmp) = 1
  BY TmpIsPath
<1>3. \A k \in Key : k \in Seq(STRING) /\ k[1] # "tmp"
  BY KeyAssumption
<1>4. \A k \in Key : Parents(k) \subseteq Container
  BY DEF Container
<1>5. ASSUME NEW p \in Container  PROVE p \in Seq(STRING) /\ p \notin Key /\ \A l \in Key : p # Stage(l)
  <2>1. PICK k \in Key : p \in Parents(k)
    BY <1>5 DEF Container
  <2>2. PICK n \in 1 .. Len(k) - 1 : p = SubSeq(k, 1, n)
    BY <2>1 DEF Parents
  <2> QED  BY <2>2, KeysApart
<1>6. \A k, l \in Key : Stage(k) = Stage(l) => k = l
  BY <1>1, StageAssumption
<1>7. Path \subseteq Seq(STRING)
  BY <1>1, <1>2, <1>3, <1>5 DEF Path
<1>8. \A k \in Key : Stage(k) \in Path /\ Stage(k) \notin Key /\ Stage(k) # Tmp
  BY <1>1, <1>2, <1>3 DEF Path
<1>9. Key \subseteq Path /\ Container \subseteq Path /\ Tmp \in Path
  BY DEF Path
<1> QED  BY <1>2, <1>3, <1>4, <1>5, <1>6, <1>7, <1>8, <1>9, ValueAssumption

-----------------------------------------------------------------------------
(* What a step of one process leaves of what another one relies on.        *)

Undisturbed(c) ==
    /\ at'[c] = at[c] /\ call'[c] = call[c] /\ reply'[c] = reply[c]
    /\ faulty[c] => faulty'[c]
    /\ \A k \in Mine(c) : node'[k] = node[k]
    /\ \/ h'[c] = h[c] /\ (h[c].file \in Path => node'[h[c].file] = node[h[c].file])
       \/ /\ h[c].file \in Path \ Mine(c)
          /\ h'[c] = [h[c] EXCEPT !.file = Gone, !.bytes = node[h[c].file]]
          /\ at[c] \in Putting => node'[h[c].file] = Nothing
    /\ \A k \in Mine(c) :
          \/ node'[Stage(k)] = node[Stage(k)] /\ (Stage(k) \in litter => Stage(k) \in litter')
          \/ node'[Stage(k)] = Nothing /\ (at[c] \in Putting /\ h[c].key = k => faulty'[c])

LEMMA FrameHolds ==
    ASSUME Types, Files, NEW c \in Client, ClientInv(c), Undisturbed(c)
    PROVE  Holds(c)'
<1>1. at'[c] = at[c]
  BY DEF Undisturbed
<1>2. CASE h'[c] = h[c]
  BY <1>1, <1>2 DEF Holds, ClientInv
<1>3. CASE /\ h[c].file \in Path \ Mine(c)
           /\ h'[c] = [h[c] EXCEPT !.file = Gone, !.bytes = node[h[c].file]]
  <2>1. CASE at[c] \in Putting
    <3>1. h[c] \in WriteHandle /\ Owner[h[c].key] = c /\ h[c].file = Stage(h[c].key)
      BY <1>3, <2>1, PathFacts DEF ClientInv, Holds
    <3>2. node[h[c].file] \in Seq(Byte)
      BY <3>1, <2>1 DEF ClientInv, PutState, Files, WriteHandle
    <3>3. h'[c] \in WriteHandle /\ h'[c].key = h[c].key /\ h'[c].file = Gone
      BY <1>3, <3>1, <3>2 DEF WriteHandle
    <3> QED  BY <1>1, <2>1, <3>1, <3>3 DEF Holds
  <2>2. CASE at[c] = "read"
    <3>1. h[c] \in ReadHandle /\ h[c].file \in Key
      BY <1>3, <2>2, PathFacts DEF ClientInv, Holds, ReadHandle, Putting, Staging
    <3>2. node[h[c].file] \in Seq(Byte)
      BY <3>1, <2>2, ContentAssumption DEF ClientInv, ReadState
    <3>3. h'[c] \in ReadHandle
      BY <1>3, <3>1, <3>2 DEF ReadHandle
    <3> QED  BY <1>1, <2>2, <3>3 DEF Holds, Putting, Staging
  <2>3. CASE at[c] \notin Putting /\ at[c] # "read"
    BY <1>3, <2>3, PathFacts DEF ClientInv, Holds, NoHandle
  <2> QED  BY <2>1, <2>2, <2>3
<1> QED  BY <1>2, <1>3 DEF Undisturbed

LEMMA FramePut ==
    ASSUME Types, Files, NEW c \in Client, ClientInv(c), Undisturbed(c), at[c] \in Putting
    PROVE  PutState(c)'
<1>1. at'[c] = at[c] /\ (faulty[c] => faulty'[c])
  BY DEF Undisturbed
<1>2. h[c] \in WriteHandle /\ h[c].key \in Mine(c) /\ Owner[h[c].key] = c /\ h[c].key \in Key
      /\ h[c].file \in {NoFile, Gone, Stage(h[c].key)} /\ PutState(c)
  BY DEF ClientInv, Holds, WriteHandle, Mine
<1>3. \/ node'[Stage(h[c].key)] = node[Stage(h[c].key)]
      \/ node'[Stage(h[c].key)] = Nothing /\ faulty'[c]
  BY <1>2 DEF Undisturbed
<1>4. Stage(h[c].key) \in Path /\ NoFile \notin Path /\ Gone \notin Path /\ NoFile # Gone
  BY <1>2, PathFacts, ValueAssumption
<1>5. CASE h'[c] = h[c] /\ (h[c].file \in Path => node'[h[c].file] = node[h[c].file])
  BY <1>1, <1>2, <1>3, <1>4, <1>5 DEF PutState, Stage
<1>6. CASE /\ h[c].file \in Path \ Mine(c)
           /\ h'[c] = [h[c] EXCEPT !.file = Gone, !.bytes = node[h[c].file]]
           /\ node'[h[c].file] = Nothing
  <2>1. h[c].file = Stage(h[c].key)
    BY <1>2, <1>4, <1>6
  <2>2. node'[Stage(h[c].key)] = Nothing /\ faulty'[c]
    BY <1>2, <1>3, <1>6, <2>1 DEF PutState
  <2>3. /\ h'[c].key = h[c].key /\ h'[c].file = Gone /\ h'[c].left = h[c].left
        /\ h'[c].want = h[c].want /\ h'[c].failed = h[c].failed /\ h'[c].streamed = h[c].streamed
    BY <1>2, <1>6 DEF WriteHandle
  <2>4. at[c] \notin {"mktmp", "open", "parents", "rename"}
    BY <1>2, <1>4, <2>1 DEF PutState
  <2> QED  BY <1>1, <1>2, <1>4, <2>1, <2>2, <2>3, <2>4 DEF PutState, Stage
<1> QED  BY <1>5, <1>6 DEF Undisturbed

LEMMA Frame ==
    ASSUME Types, Files, NEW c \in Client, ClientInv(c), Undisturbed(c)
    PROVE  ClientInv(c)'
<1>1. /\ at'[c] = at[c] /\ call'[c] = call[c] /\ reply'[c] = reply[c] /\ (faulty[c] => faulty'[c])
      /\ \A k \in Mine(c) : node'[k] = node[k]
  BY DEF Undisturbed
<1>2. at[c] \in Putting => h'[c].key = h[c].key /\ h'[c].want = h[c].want /\ h'[c].streamed = h[c].streamed
  <2>1. at[c] \in Putting => h[c] \in WriteHandle
    BY DEF ClientInv, Holds
  <2> QED  BY <2>1 DEF Undisturbed, WriteHandle
<1>3. ASSUME at[c] = "read"  PROVE ReadState(c)'
  <2>1. h[c] \in ReadHandle /\ ReadState(c)
    BY <1>3 DEF ClientInv, Holds, Putting, Staging
  <2>2. CASE h'[c] = h[c] /\ (h[c].file \in Path => node'[h[c].file] = node[h[c].file])
    BY <1>1, <2>1, <2>2, PathFacts DEF ReadState, Mine
  <2>3. CASE /\ h[c].file \in Path \ Mine(c)
             /\ h'[c] = [h[c] EXCEPT !.file = Gone, !.bytes = node[h[c].file]]
    <3>1. h'[c].file = Gone /\ h'[c].bytes = node[h[c].file] /\ h[c].file \in Key
      BY <2>1, <2>3, PathFacts DEF ReadHandle
    <3> QED  BY <1>1, <2>1, <2>3, <3>1, PathFacts DEF ReadState, Mine
  <2> QED  BY <2>2, <2>3 DEF Undisturbed
<1>4. CallState(c)'
  <2>1. CallState(c)
    BY DEF ClientInv
  <2>2. \A k \in Mine(c) : Visible(k)' = Visible(k)
    BY <1>1 DEF Visible, FileAt
  <2>3. at[c] \in Putting => (PutCall(c)' <=> PutCall(c))
    BY <1>1, <1>2 DEF PutCall
  <2>4. at[c] \in {"mktmp", "open", "write", "close", "parents", "rename"} => at[c] \in Putting
    BY DEF Putting, Staging
  <2>5. SweepCall(c)' <=> SweepCall(c)
    BY <1>1 DEF SweepCall, Stage
  <2>6. RemoveCall(c)' <=> RemoveCall(c)
    BY <1>1, <2>2 DEF RemoveCall, Mine
  <2>7. (HasPut(c)' <=> HasPut(c)) /\ (HasRemoved(c)' <=> HasRemoved(c))
    BY <1>1 DEF HasPut, HasRemoved, Mine
  <2> QED  BY <1>1, <1>2, <2>1, <2>3, <2>4, <2>5, <2>6, <2>7 DEF CallState
<1>5. ReplyState(c)'
  BY <1>1 DEF ClientInv, ReplyState
<1>6. Litter(c)'
  <2>1. Litter(c)
    BY DEF ClientInv
  <2>2. \A k \in Mine(c) : node'[Stage(k)] # Nothing =>
           node[Stage(k)] # Nothing /\ (Stage(k) \in litter => Stage(k) \in litter')
    BY DEF Undisturbed
  <2>3. ASSUME NEW k \in Mine(c), node'[Stage(k)] # Nothing
        PROVE  Stage(k) \in litter' \/ (at'[c] \in Staging /\ h'[c].key = k)
    <3>1. Stage(k) \in litter \/ (at[c] \in Staging /\ h[c].key = k)
      BY <2>1, <2>2, <2>3 DEF Litter
    <3>2. CASE Stage(k) \in litter
      BY <2>2, <2>3, <3>2
    <3>3. CASE at[c] \in Staging /\ h[c].key = k
      BY <1>1, <1>2, <3>3 DEF Putting
    <3> QED  BY <3>1, <3>2, <3>3
  <2> QED  BY <2>3 DEF Litter, Mine, Stage
<1> QED  BY <1>1, <1>3, <1>4, <1>5, <1>6, FrameHolds, FramePut DEF ClientInv

-----------------------------------------------------------------------------
(* What each action does, for the one who takes it and for the others.     *)

Good(c) == Types' /\ Files' /\ ClientInv(c)' /\ \A d \in Client \ {c} : Undisturbed(d)

\* Only what belongs to c changes, besides the files.
Local(c) ==
    /\ at' \in [Client -> Positions] /\ faulty' \in [Client -> BOOLEAN]
    /\ DOMAIN h' = Client /\ DOMAIN call' = Client /\ DOMAIN reply' = Client
    /\ \A d \in Client \ {c} : /\ at'[d] = at[d] /\ call'[d] = call[d] /\ reply'[d] = reply[d]
                               /\ h'[d] = h[d] /\ (faulty[d] => faulty'[d])

LEMMA Quiet ==
    ASSUME Types, Files, NEW c \in Client, Local(c), node' = node,
           litter \subseteq litter', litter' \subseteq {Stage(k) : k \in Key}
    PROVE  Types' /\ Files' /\ \A d \in Client \ {c} : Undisturbed(d)
<1>1. Types'
  BY DEF Types, Local
<1>2. Files'
  BY DEF Files, Path, Stage, Container, Parents, Tmp
<1>3. \A d \in Client \ {c} : Undisturbed(d)
  BY DEF Undisturbed, Local
<1> QED  BY <1>1, <1>2, <1>3

\* A call is made.
LEMMA Asked ==
    ASSUME IInv, NEW c \in Client, NEW q, NEW s \in Positions \ {"idle", "held"},
           at[c] \in {"idle", "held"}, Ask(c, q, s),
           h' = h \/ \E x : h' = [h EXCEPT ![c] = x]
    PROVE  /\ Types' /\ Files' /\ \A d \in Client \ {c} : Undisturbed(d)
           /\ ReplyState(c)' /\ at'[c] = s /\ call'[c] = q /\ node' = node /\ litter' = litter
           /\ faulty'[c] = (faulty[c] /\ at[c] = "held")
<1>1. Types /\ Files /\ ClientInv(c)
  BY DEF IInv
<1>2. Local(c) /\ at'[c] = s /\ call'[c] = q /\ node' = node /\ litter' = litter
      /\ faulty'[c] = (faulty[c] /\ at[c] = "held") /\ reply'[c] = Pending
  BY <1>1 DEF Ask, Goto, At, Local, Types
<1>3. ReplyState(c)'
  BY <1>2 DEF ReplyState, Answers, Pending, Said
<1> QED  BY <1>1, <1>2, <1>3, Quiet DEF Files

\* put(): nothing is open or staged yet.
LEMMA BeginGood ==
    ASSUME IInv, NEW c \in Client, Put(c) \/ PutBegin(c)
    PROVE  Good(c)
<1>1. Types /\ Files /\ ClientInv(c) /\ at[c] = "idle"
  BY DEF IInv, Put, PutBegin, At
<1> DEFINE Request(k, d, b) == IF b THEN NoCall ELSE [op |-> "put", key |-> k, data |-> d]
<1>2. PICK k \in Key, d \in Content, b \in BOOLEAN :
          /\ Owner[k] = c /\ Ask(c, Request(k, d, b), "mktmp")
          /\ h' = [h EXCEPT ![c] = NewHandle(k, d, b)]
  BY DEF Put, PutBegin, Hold
<1> DEFINE q == Request(k, d, b)
<1>3. "mktmp" \in Positions \ {"idle", "held"}
  BY DEF Positions, Putting
<1>4. /\ Types' /\ Files' /\ \A e \in Client \ {c} : Undisturbed(e)
      /\ ReplyState(c)' /\ at'[c] = "mktmp" /\ call'[c] = q /\ node' = node /\ litter' = litter
  <2>1. h' = h \/ \E x : h' = [h EXCEPT ![c] = x]
    BY <1>2
  <2> HIDE DEF q, Request
  <2> QED  BY <1>1, <1>2, <1>3, <2>1, Asked DEF q
<1>5. h'[c] = NewHandle(k, d, b)
  BY <1>1, <1>2 DEF Types
<1>6. h'[c] \in WriteHandle
  BY <1>5, ContentAssumption DEF NewHandle, WriteHandle
<1>7. Holds(c)'
  BY <1>2, <1>4, <1>5, <1>6 DEF Holds, Putting, NewHandle
<1>8. PutState(c)'
  BY <1>2, <1>4, <1>5, PathFacts DEF PutState, NewHandle
<1>9. CallState(c)'
  BY <1>2, <1>4, <1>5 DEF CallState, NewHandle, PutCall
<1>10. Litter(c)'
  BY <1>1, <1>4 DEF ClientInv, Litter, Staging, Mine, Stage
<1> QED  BY <1>4, <1>7, <1>8, <1>9, <1>10 DEF Good, ClientInv

\* put_append(), put_finish(), put_abort()
LEMMA StreamGood ==
    ASSUME IInv, NEW c \in Client, PutAppend(c) \/ PutFinish(c) \/ PutAbort(c)
    PROVE  Good(c)
<1>1. Types /\ Files /\ ClientInv(c) /\ at[c] = "held" /\ h' = h
  BY DEF IInv, PutAppend, PutFinish, PutAbort, At
<1> DEFINE Request(s) ==
        IF s = "close" THEN [op |-> "put", key |-> h[c].key, data |-> h[c].want] ELSE NoCall
<1>2. PICK s \in {"write", "close", "abort"} :
          /\ Ask(c, Request(s), s) /\ (s = "write" => ~h[c].failed /\ h[c].left # <<>>)
          /\ s = "close" => ~h[c].failed /\ h[c].left = <<>>
  BY DEF PutAppend, PutFinish, PutAbort
<1> DEFINE q == Request(s)
<1>3. s \in Positions \ {"idle", "held"} /\ s \in Putting /\ at[c] \in Putting /\ s \in Staging
  BY <1>1 DEF Positions, Putting, Staging
<1>4. /\ Types' /\ Files' /\ \A e \in Client \ {c} : Undisturbed(e)
      /\ ReplyState(c)' /\ at'[c] = s /\ call'[c] = q /\ node' = node /\ litter' = litter
      /\ faulty'[c] = faulty[c]
  BY <1>1, <1>2, <1>3, Asked DEF Types
<1>5. Holds(c)'
  BY <1>1, <1>3, <1>4 DEF ClientInv, Holds, Stage
<1>6. PutState(c)'
  BY <1>1, <1>2, <1>3, <1>4 DEF ClientInv, PutState, Stage
<1>7. CallState(c)'
  BY <1>1, <1>2, <1>3, <1>4 DEF ClientInv, CallState, PutState, PutCall
<1>8. Litter(c)'
  BY <1>1, <1>3, <1>4 DEF ClientInv, Litter, Mine, Stage
<1> QED  BY <1>3, <1>4, <1>5, <1>6, <1>7, <1>8 DEF Good, ClientInv, Putting, Staging

\* What is found under tmp/ has the name of a staging file.
LEMMA FoundIsStage ==
    ASSUME NEW p \in Below(Tmp)
    PROVE  \E k \in Key : p = Stage(k)
<1>1. p \in Path /\ p \in Seq(STRING) /\ Len(p) = 2 /\ IsPrefix(Tmp, p)
  BY PathFacts, TmpIsPath DEF Below
<1>2. p[1] = "tmp"
  <2>1. SubSeq(Tmp, 1, 1)[1] = Tmp[1] /\ SubSeq(p, 1, 1)[1] = p[1]
    BY <1>1, TmpIsPath
  <2> QED  BY <1>1, <2>1, TmpIsPath DEF IsPrefix
<1>3. p \notin Container
  <2>1. ASSUME NEW k \in Key, NEW n \in 1 .. Len(k) - 1, p = SubSeq(k, 1, n)  PROVE FALSE
    BY <1>2, <2>1, KeyAssumption, LenProperties, SubSeqProperties
  <2> QED  BY <2>1 DEF Container, Parents
<1> QED  BY <1>1, <1>2, <1>3, KeyAssumption, TmpIsPath DEF Path

\* The other calls.
LEMMA CallGood ==
    ASSUME IInv, NEW c \in Client, Look(c) \/ RemoveKey(c) \/ Around(c)
    PROVE  Good(c)
<1>1. Types /\ Files /\ ClientInv(c) /\ at[c] = "idle" /\ h' = h
  BY DEF IInv, Look, RemoveKey, Around, At
<1> DEFINE Asks(q, s) ==
        \/ s \in {"get", "exists"} /\ q \in [op : {s}, key : Key]
        \/ s \in {"list", "mkcol"} /\ q \in [op : {s}, key : Container]
        \/ s = "remove" /\ \E k \in Mine(c) : q = [op |-> "remove", key |-> k, was |-> Visible(k)]
        \/ s = "remove" /\ \E k \in Key : q = [op |-> "remove", key |-> Stage(k), was |-> Absent]
<1>2. \E q, s : Ask(c, q, s) /\ Asks(q, s)
  <2>1. CASE Look(c)
    BY <2>1 DEF Look
  <2>2. CASE RemoveKey(c)
    BY <2>2, FoundIsStage DEF RemoveKey, Visible, Mine
  <2>3. CASE Around(c)
    BY <2>3 DEF Around
  <2> QED  BY <2>1, <2>2, <2>3
<1>3. PICK q, s : Ask(c, q, s) /\ Asks(q, s)
  BY <1>2
<1>4. s \in {"get", "exists", "list", "mkcol", "remove"}
  BY <1>3
<1>5. s \in Positions \ {"idle", "held"} /\ s \notin Putting /\ s # "read" /\ s # "return"
  BY <1>4 DEF Positions, Putting, Staging
<1>6. /\ Types' /\ Files' /\ \A e \in Client \ {c} : Undisturbed(e)
      /\ ReplyState(c)' /\ at'[c] = s /\ call'[c] = q /\ node' = node /\ litter' = litter
  BY <1>1, <1>3, <1>5, Asked
<1>7. Holds(c)'
  BY <1>1, <1>5, <1>6 DEF ClientInv, Holds, Putting, Staging
<1>8. CallState(c)'
  BY <1>3, <1>4, <1>6 DEF CallState, SweepCall, RemoveCall, Visible, FileAt, Mine, Stage
<1>9. Litter(c)'
  BY <1>1, <1>6 DEF ClientInv, Litter, Staging, Mine, Stage
<1> QED  BY <1>5, <1>6, <1>7, <1>8, <1>9 DEF Good, ClientInv

-----------------------------------------------------------------------------
(* put() and the stream, up to the rename.                                 *)

\* What the others have open, and what lies under the names of their keys, is
\* out of reach of what c does to its own staging file and to directories.
LEMMA OpenFiles ==
    ASSUME Files, NEW c \in Client, ClientInv(c)
    PROVE  /\ h[c].file \in {NoFile, Gone} \cup Key \cup {Stage(k) : k \in Mine(c)}
           /\ h[c].file \in Key => node[h[c].file] \in Content
<1>1. CASE at[c] \in Putting
  BY <1>1, PathFacts, ValueAssumption DEF ClientInv, Holds, WriteHandle, Mine
<1>2. CASE at[c] = "read"
  BY <1>2 DEF ClientInv, Holds, ReadState, ReadHandle, Putting, Staging
<1>3. CASE at[c] \notin Putting /\ at[c] # "read"
  BY <1>3, PathFacts, ValueAssumption DEF ClientInv, Holds, NoHandle
<1> QED  BY <1>1, <1>2, <1>3

\* c changes no file but its own under tmp/.
Spares(c) ==
    /\ node' \in [Path -> Seq(Byte) \cup {Nothing, Dir}]
    /\ litter' \subseteq {Stage(k) : k \in Key}
    /\ \A k \in Key : node'[k] = node[k]
    /\ \A k \in Mine(c) : node'[Stage(k)] \in Seq(Byte) \cup {Nothing}
    /\ \A k \in Key \ Mine(c) :
          node'[Stage(k)] = node[Stage(k)] /\ (Stage(k) \in litter => Stage(k) \in litter')

LEMMA Sparing ==
    ASSUME IInv, NEW c \in Client, Local(c), Spares(c)
    PROVE  Types' /\ Files' /\ \A d \in Client \ {c} : Undisturbed(d)
<1>1. Types /\ Files /\ \A d \in Client : ClientInv(d)
  BY DEF IInv
<1>2. Types'
  BY DEF Types, Local
<1>3. \A k \in Key : node'[Stage(k)] \in Seq(Byte) \cup {Nothing}
  BY <1>1 DEF Files, Spares
<1>4. Files'
  BY <1>1, <1>3 DEF Files, Spares, Path, Stage, Container, Parents, Tmp
<1>5. ASSUME NEW d \in Client \ {c}  PROVE Undisturbed(d)
  <2>1. \A k \in Mine(d) : k \in Key \ Mine(c)
    BY DEF Mine
  <2>2. h[d].file \in {NoFile, Gone} \cup Key \cup {Stage(k) : k \in Mine(d)}
    BY <1>1, OpenFiles
  <2>3. h[d].file \in Path => node'[h[d].file] = node[h[d].file]
    BY <2>1, <2>2, PathFacts DEF Spares
  <2> QED  BY <1>5, <2>1, <2>3 DEF Undisturbed, Local, Spares
<1> QED  BY <1>2, <1>4, <1>5

\* mkdir() of tmp/ and of the parents of a key
LEMMA DirectoriesSpare ==
    ASSUME IInv, NEW c \in Client, litter' = litter, NEW S, S \cap (Key \cup {Stage(k) : k \in Key}) = {},
           node' = [p \in Path |-> IF p \in S /\ node[p] = Nothing THEN Dir ELSE node[p]]
    PROVE  Spares(c) /\ \A k \in Key : node'[Stage(k)] = node[Stage(k)]
<1>1. Files
  BY DEF IInv
<1>2. node' \in [Path -> Seq(Byte) \cup {Nothing, Dir}]
  BY <1>1 DEF Files
<1>3. \A k \in Key : node'[k] = node[k] /\ node'[Stage(k)] = node[Stage(k)]
  BY PathFacts
<1> QED  BY <1>1, <1>2, <1>3 DEF Spares, Files, Mine

\* Nothing of c but its position changes.
LEMMA MovesOn ==
    ASSUME IInv, NEW c \in Client, NEW s \in Positions, Goto(c, s),
           h' = h \/ \E x : h' = [h EXCEPT ![c] = x],
           faulty' = faulty \/ Fault(c), UNCHANGED <<call, reply>>
    PROVE  Local(c) /\ at'[c] = s /\ call'[c] = call[c] /\ reply'[c] = reply[c]
           /\ (faulty[c] => faulty'[c])
BY DEF IInv, Types, Local, Goto, Fault

LEMMA MakeTmpGood ==
    ASSUME IInv, NEW c \in Client, MakeTmp(c)
    PROVE  Good(c)
<1>1. Types /\ Files /\ ClientInv(c) /\ at[c] = "mktmp" /\ h' = h /\ litter' = litter /\ faulty' = faulty
  BY DEF IInv, MakeTmp, At
<1>2. "open" \in Positions /\ "open" \in Putting \ Staging /\ "mktmp" \in Putting \ Staging
  BY DEF Positions, Putting, Staging
<1>3. Local(c) /\ at'[c] = "open" /\ call'[c] = call[c] /\ reply'[c] = reply[c]
  BY <1>1, <1>2, MovesOn DEF MakeTmp
<1>4. node' = [p \in Path |-> IF p \in {Tmp} /\ node[p] = Nothing THEN Dir ELSE node[p]]
  <2>1. node' = [node EXCEPT ![Tmp] = IF @ = Nothing THEN Dir ELSE @]
    BY DEF MakeTmp
  <2> QED  BY <1>1, <2>1 DEF Files
<1>5. Spares(c) /\ \A k \in Key : node'[Stage(k)] = node[Stage(k)]
  <2>1. {Tmp} \cap (Key \cup {Stage(k) : k \in Key}) = {}
    BY PathFacts
  <2> QED  BY <1>1, <1>4, <2>1, DirectoriesSpare
<1>6. Types' /\ Files' /\ \A d \in Client \ {c} : Undisturbed(d)
  BY <1>3, <1>5, Sparing
<1>7. Holds(c)' /\ h[c] \in WriteHandle
  BY <1>1, <1>2, <1>3 DEF ClientInv, Holds, Stage
<1>8. PutState(c)'
  BY <1>1, <1>2, <1>3, <1>5, <1>7, PathFacts, ValueAssumption DEF ClientInv, PutState, Stage, WriteHandle
<1>9. CallState(c)' /\ ReplyState(c)'
  BY <1>1, <1>3 DEF ClientInv, CallState, PutCall, ReplyState
<1>10. Litter(c)'
  BY <1>1, <1>2, <1>5 DEF ClientInv, Litter, Mine, Stage
<1> QED  BY <1>2, <1>3, <1>6, <1>7, <1>8, <1>9, <1>10 DEF Good, ClientInv

LEMMA OpenStageGood ==
    ASSUME IInv, NEW c \in Client, OpenStage(c)
    PROVE  Good(c)
<1> DEFINE x == h[c]
           p == Stage(x.key)
<1>1. Types /\ Files /\ ClientInv(c) /\ at[c] = "open" /\ faulty' = faulty /\ litter' = litter \ {p}
  BY DEF IInv, OpenStage, At
<1>2. "open" \in Putting \ Staging /\ {"held", "write"} \subseteq Positions \cap Staging
      /\ Staging \subseteq Putting
  BY DEF Positions, Putting, Staging
<1>3. /\ x \in WriteHandle /\ x.key \in Key /\ Owner[x.key] = c /\ x.key \in Mine(c)
      /\ PutState(c) /\ p \in Path /\ p \in Seq(STRING) /\ x.want \in Seq(Byte)
  BY <1>1, <1>2, PathFacts, ContentAssumption DEF ClientInv, Holds, WriteHandle, Mine
<1>4. Local(c) /\ call'[c] = call[c]
      /\ h'[c] = [x EXCEPT !.file = p] /\ at'[c] = (IF x.streamed THEN "held" ELSE "write")
      /\ reply'[c] = (IF x.streamed THEN Said("ok") ELSE reply[c])
  BY <1>1, <1>2 DEF OpenStage, Hold, Answer, Goto, Local, Types
<1>5. h'[c] \in WriteHandle /\ h'[c].file = p /\ h'[c].key = x.key /\ h'[c].left = x.want
      /\ h'[c].want = x.want /\ h'[c].streamed = x.streamed /\ ~h'[c].failed
  BY <1>1, <1>3, <1>4 DEF WriteHandle, PutState
<1>6. node' = [node EXCEPT ![p] = <<>>]
  BY DEF OpenStage, Becomes
<1>7. <<>> \in Seq(Byte) /\ <<>> # Nothing /\ <<>> \o x.want = x.want
  BY <1>3, EmptySeq, ConcatEmptySeq, ValueAssumption
<1>8. node' \in [Path -> Seq(Byte) \cup {Nothing, Dir}] /\ node'[p] = <<>>
      /\ \A q \in Path : q # p => node'[q] = node[q]
  BY <1>1, <1>3, <1>6, <1>7 DEF Files
<1>9. Spares(c)
  BY <1>1, <1>3, <1>7, <1>8, PathFacts DEF Spares, Files, Mine
<1>10. Types' /\ Files' /\ \A d \in Client \ {c} : Undisturbed(d)
  BY <1>4, <1>9, Sparing
<1>11. Holds(c)'
  BY <1>2, <1>3, <1>4, <1>5 DEF Holds, Stage
<1>12. PutState(c)'
  <2>1. Stage(h'[c].key) = p /\ p # Gone /\ p # NoFile
    BY <1>3, <1>5, PathFacts
  <2>2. at'[c] \in {"held", "write"} /\ (at'[c] = "held" <=> x.streamed)
    BY <1>4
  <2>3. node'[p] # Nothing /\ node'[p] \o h'[c].left = h'[c].want
    BY <1>5, <1>7, <1>8
  <2>4. at'[c] = "write" => ~h'[c].streamed
    BY <1>5, <2>2
  <2> QED  BY <1>5, <2>1, <2>2, <2>3, <2>4 DEF PutState
<1>13. CallState(c)' /\ ReplyState(c)'
  BY <1>1, <1>4, <1>5 DEF ClientInv, CallState, PutCall, ReplyState, Answers, Pending, Said
<1>14. Litter(c)'
  BY <1>1, <1>2, <1>3, <1>4, <1>5, <1>8, PathFacts DEF ClientInv, Litter, Mine, Stage
<1> QED  BY <1>2, <1>4, <1>10, <1>11, <1>12, <1>13, <1>14 DEF Good, ClientInv, Putting, Staging

LEMMA NotStagedGood ==
    ASSUME IInv, NEW c \in Client, NotStaged(c)
    PROVE  Good(c)
<1>1. Types /\ Files /\ ClientInv(c) /\ at[c] \in {"mktmp", "open"} /\ node' = node /\ litter' = litter
  BY DEF IInv, NotStaged
<1>2. at[c] \notin Staging /\ "idle" \in Positions /\ "idle" \notin Putting /\ "idle" \notin Staging
  BY <1>1 DEF Positions, Putting, Staging
<1>3. Local(c) /\ at'[c] = "idle" /\ h'[c] = NoHandle /\ call'[c] = call[c] /\ reply'[c] = Said("error")
      /\ faulty'[c]
  BY <1>1, <1>2 DEF NotStaged, Hold, Fault, Answer, Goto, Local, Types
<1>4. Types' /\ Files' /\ \A d \in Client \ {c} : Undisturbed(d)
  BY <1>1, <1>3, Quiet DEF Files
<1>5. Holds(c)' /\ CallState(c)' /\ ReplyState(c)'
  BY <1>2, <1>3 DEF Holds, CallState, ReplyState, Answers, Pending, Said
<1>6. Litter(c)'
  BY <1>1, <1>2 DEF ClientInv, Litter, Mine, Stage
<1> QED  BY <1>2, <1>3, <1>4, <1>5, <1>6 DEF Good, ClientInv

\* A put under way.
LEMMA UnderWay ==
    ASSUME IInv, NEW c \in Client, at[c] \in Putting
    PROVE  /\ Types /\ Files /\ ClientInv(c) /\ PutState(c) /\ CallState(c) /\ ReplyState(c) /\ Litter(c)
           /\ h[c] \in WriteHandle /\ h[c].key \in Key /\ h[c].key \in Mine(c) /\ Owner[h[c].key] = c
           /\ Stage(h[c].key) \in Path /\ h[c].file \in {NoFile, Gone, Stage(h[c].key)}
           /\ NoFile \notin Path /\ Gone \notin Path /\ NoFile # Gone
           /\ h[c].want \in Seq(Byte) /\ h[c].left \in Seq(Byte) /\ h[c].bytes \in Seq(Byte)
BY PathFacts, ContentAssumption, ValueAssumption DEF IInv, ClientInv, Holds, WriteHandle, Mine

LEMMA Appends ==
    ASSUME IInv, NEW c \in Client, at[c] \in Putting, litter' = litter, NEW d \in Seq(Byte),
           NEW y \in WriteHandle, y.key = h[c].key, y.file = h[c].file, Written(c, d, y),
           h[c].file \in {Gone, Stage(h[c].key)}
    PROVE  /\ Spares(c) /\ h'[c] \in WriteHandle /\ DOMAIN h' = Client
           /\ \A e \in Client \ {c} : h'[e] = h[e]
           /\ h'[c].file = y.file /\ h'[c].key = y.key /\ h'[c].want = y.want
           /\ h'[c].left = y.left /\ h'[c].streamed = y.streamed /\ h'[c].failed = y.failed
           /\ h[c].file = Gone => node'[Stage(y.key)] = node[Stage(y.key)]
           /\ h[c].file = Stage(y.key) => /\ node'[Stage(y.key)] = node[Stage(y.key)] \o d
                                          /\ node'[Stage(y.key)] \in Seq(Byte)
           /\ \A q \in Path : q # Stage(y.key) => node'[q] = node[q]
<1> DEFINE p == Stage(y.key)
<1>1. /\ Types /\ Files /\ PutState(c) /\ y.key \in Key /\ y.key \in Mine(c) /\ p \in Path
      /\ Gone \notin Path
  BY UnderWay
<1>2. CASE h[c].file = Gone
  <2>1. node' = node /\ h' = [h EXCEPT ![c] = [y EXCEPT !.bytes = @ \o d]]
    BY <1>2 DEF Written, Hold
  <2>2. y.bytes \o d \in Seq(Byte)
    BY ConcatProperties DEF WriteHandle
  <2>3. h'[c] = [y EXCEPT !.bytes = y.bytes \o d] /\ DOMAIN h' = Client
    BY <1>1, <2>1 DEF Types
  <2>4. Spares(c)
    BY <1>1, <2>1 DEF Spares, Files, Mine
  <2> QED  BY <1>1, <1>2, <2>1, <2>2, <2>3, <2>4 DEF WriteHandle
<1>3. CASE h[c].file = p
  <2>1. node' = [node EXCEPT ![p] = node[p] \o d] /\ h' = [h EXCEPT ![c] = y]
    BY <1>1, <1>3 DEF Written, Hold, Becomes
  <2>2. node[p] \in Seq(Byte)
    BY <1>1, <1>3 DEF Files, PutState
  <2>3. node[p] \o d \in Seq(Byte)
    BY <2>2, ConcatProperties
  <2>4. h'[c] = y /\ DOMAIN h' = Client
    BY <1>1, <2>1 DEF Types
  <2>5. node' \in [Path -> Seq(Byte) \cup {Nothing, Dir}] /\ node'[p] = node[p] \o d
        /\ \A q \in Path : q # p => node'[q] = node[q]
    BY <1>1, <2>1, <2>3 DEF Files
  <2>6. Spares(c)
    BY <1>1, <2>3, <2>5, PathFacts DEF Spares, Files, Mine
  <2> QED  BY <1>1, <1>3, <2>1, <2>3, <2>4, <2>5, <2>6
<1> QED  BY <1>2, <1>3

LEMMA Regroup ==
    ASSUME NEW r \in Seq(Byte), NEW s \in Seq(Byte), NEW t \in Seq(Byte)
    PROVE  (r \o s) \o t = r \o (s \o t)
BY ConcatAssociative

\* One write takes its piece off what is left.
LEMMA PieceFacts ==
    ASSUME NEW c \in Client, h[c].left \in Seq(Byte), h[c].streamed => h[c].left # <<>>
    PROVE  LET d == Piece(c)
               l == SubSeq(h[c].left, Len(Piece(c)) + 1, Len(h[c].left))
           IN  d \in Seq(Byte) /\ l \in Seq(Byte) /\ d \o l = h[c].left /\ (~h[c].streamed => l = <<>>)
<1> DEFINE w == h[c].left
<1>1. w \in Seq(Byte) /\ Len(w) \in Nat
  BY LenProperties
<1>2. CASE h[c].streamed
  <2>1. w # <<>> /\ Len(w) >= 1 /\ Head(w) = w[1] /\ w[1] \in Byte
    BY <1>1, <1>2, EmptySeq, ElementOfSeq
  <2>2. Piece(c) = <<w[1]>> /\ Len(<<w[1]>>) = 1 /\ <<w[1]>> \in Seq(Byte)
    BY <1>2, <2>1 DEF Piece
  <2>3. SubSeq(w, 1, Len(w)) = <<w[1]>> \o SubSeq(w, 2, Len(w))
    BY <1>1, <2>1, SubSeqRecursiveFirst
  <2>4. SubSeq(w, 2, Len(w)) \in Seq(Byte)
    BY <1>1
  <2> QED  BY <1>1, <1>2, <2>2, <2>3, <2>4, SubSeqFull
<1>3. CASE ~h[c].streamed
  <2>1. SubSeq(w, Len(w) + 1, Len(w)) = <<>>
    BY <1>1, SubSeqEmpty
  <2> QED  BY <1>1, <1>3, <2>1, EmptySeq, ConcatEmptySeq DEF Piece
<1> QED  BY <1>2, <1>3

LEMMA WriteGood ==
    ASSUME IInv, NEW c \in Client, Write(c)
    PROVE  Good(c)
<1> DEFINE x == h[c]
           p == Stage(x.key)
           d == Piece(c)
           l == SubSeq(x.left, Len(d) + 1, Len(x.left))
           y == [x EXCEPT !.left = l]
<1>1. at[c] = "write" /\ faulty' = faulty /\ litter' = litter /\ Written(c, d, y)
  BY DEF Write, At
<1>2. "write" \in Putting /\ {"held", "close"} \subseteq Positions \cap Staging /\ Staging \subseteq Putting
      /\ "write" \in Staging
  BY DEF Positions, Putting, Staging
<1>3. /\ Types /\ Files /\ PutState(c) /\ CallState(c) /\ ReplyState(c) /\ Litter(c)
      /\ x \in WriteHandle /\ x.key \in Key /\ x.key \in Mine(c) /\ Owner[x.key] = c /\ p \in Path
      /\ Gone \notin Path
  BY <1>1, <1>2, UnderWay
<1>4. x.file \in {p, Gone} /\ ~x.failed /\ (x.streamed => x.left # <<>>)
      /\ x.left \in Seq(Byte)
  BY <1>1, <1>3 DEF PutState, WriteHandle
<1>5. d \in Seq(Byte) /\ l \in Seq(Byte) /\ d \o l = x.left /\ (~x.streamed => l = <<>>)
  BY <1>4, PieceFacts
<1> HIDE DEF d, l
<1>6. y \in WriteHandle /\ y.key = x.key /\ y.file = x.file /\ y.left = l /\ y.want = x.want
      /\ y.streamed = x.streamed /\ y.failed = x.failed
  BY <1>3, <1>5 DEF WriteHandle
<1>7. /\ Spares(c) /\ h'[c] \in WriteHandle /\ DOMAIN h' = Client
      /\ \A e \in Client \ {c} : h'[e] = h[e]
      /\ h'[c].file = x.file /\ h'[c].key = x.key /\ h'[c].want = x.want
      /\ h'[c].left = l /\ h'[c].streamed = x.streamed /\ h'[c].failed = x.failed
      /\ x.file = Gone => node'[p] = node[p]
      /\ x.file = p => node'[p] = node[p] \o d /\ node'[p] \in Seq(Byte)
      /\ \A q \in Path : q # p => node'[q] = node[q]
  <2> HIDE DEF y
  <2> QED  BY <1>1, <1>2, <1>3, <1>4, <1>5, <1>6, Appends
<1>8. Local(c) /\ call'[c] = call[c] /\ at'[c] = (IF x.streamed THEN "held" ELSE "close")
      /\ reply'[c] = (IF x.streamed THEN Said("ok") ELSE reply[c])
  BY <1>1, <1>2, <1>3, <1>7 DEF Write, Answer, Goto, Local, Types
<1>9. Types' /\ Files' /\ \A e \in Client \ {c} : Undisturbed(e)
  BY <1>7, <1>8, Sparing
<1>10. x.file = p => node'[p] \o l = x.want
  <2>1. ASSUME x.file = p  PROVE node[p] \in Seq(Byte) /\ node[p] \o x.left = x.want
    BY <1>1, <1>3, <1>4, <2>1 DEF PutState, Files
  <2>2. ASSUME x.file = p  PROVE (node[p] \o d) \o l = node[p] \o (d \o l)
    <3>1. node[p] \in Seq(Byte)
      BY <2>1, <2>2
    <3> QED  BY <1>5, <3>1, Regroup
  <2> QED  BY <1>5, <1>7, <2>1, <2>2
<1>11. Holds(c)'
  BY <1>2, <1>3, <1>4, <1>7, <1>8 DEF Holds, Stage
<1>12. PutState(c)'
  <2>1. /\ x.file = Gone => node[p] = Nothing
        /\ node[p] = Nothing => faulty[c]
        /\ x.file = p => node[p] # Nothing
    BY <1>1, <1>3 DEF PutState
  <2>2. node'[p] = Nothing => faulty'[c]
    BY <1>1, <1>4, <1>7, <2>1, ValueAssumption
  <2>3. Stage(h'[c].key) = p /\ h'[c].file \in {p, Gone} /\ p # Gone
    BY <1>3, <1>4, <1>7
  <2>4. h'[c].file = p => node'[p] # Nothing /\ node'[p] \o h'[c].left = h'[c].want
    BY <1>7, <1>10, ValueAssumption
  <2>5. h'[c].file = Gone => node'[p] = Nothing
    BY <1>7, <2>1
  <2>6. IF x.streamed THEN at'[c] = "held" /\ h'[c].streamed
        ELSE at'[c] = "close" /\ h'[c].left = <<>>
    BY <1>5, <1>7, <1>8
  <2>7. ~h'[c].failed
    BY <1>4, <1>7
  <2> QED  BY <2>2, <2>3, <2>4, <2>5, <2>6, <2>7 DEF PutState
<1>13. CallState(c)' /\ ReplyState(c)'
  BY <1>1, <1>3, <1>7, <1>8 DEF CallState, PutCall, ReplyState, Answers, Pending, Said
<1>14. Litter(c)'
  <2>1. at[c] \in Staging /\ at'[c] \in Staging /\ h'[c].key = x.key
    BY <1>1, <1>2, <1>7, <1>8
  <2>2. \A k \in Mine(c) : k # x.key => node'[Stage(k)] = node[Stage(k)]
    BY <1>3, <1>7, PathFacts DEF Mine
  <2> QED  BY <1>1, <1>3, <2>1, <2>2 DEF Litter, Mine
<1> QED  BY <1>2, <1>8, <1>9, <1>11, <1>12, <1>13, <1>14 DEF Good, ClientInv, Putting, Staging

\* A short write leaves part of the piece in the staging file, never elsewhere.
LEMMA ShortWriteGood ==
    ASSUME IInv, NEW c \in Client, ShortWrite(c)
    PROVE  Good(c)
<1> DEFINE x == h[c]
           p == Stage(x.key)
           y == [x EXCEPT !.failed = TRUE]
<1>1. at[c] = "write" /\ litter' = litter
  BY DEF ShortWrite, At
<1>2. "write" \in Putting /\ {"held", "discard"} \subseteq Positions \cap Staging
      /\ Staging \subseteq Putting /\ "write" \in Staging
  BY DEF Positions, Putting, Staging
<1>3. /\ Types /\ Files /\ PutState(c) /\ CallState(c) /\ ReplyState(c) /\ Litter(c)
      /\ x \in WriteHandle /\ x.key \in Key /\ x.key \in Mine(c) /\ Owner[x.key] = c /\ p \in Path
      /\ Gone \notin Path
  BY <1>1, <1>2, UnderWay
<1>4. x.file \in {p, Gone} /\ x.left \in Seq(Byte) /\ (x.streamed => x.left # <<>>)
  BY <1>1, <1>3 DEF PutState, WriteHandle
<1>5. Piece(c) \in Seq(Byte)
  BY <1>4, PieceFacts
<1>6. PICK n \in 0 .. Len(Piece(c)) - 1 : Written(c, SubSeq(Piece(c), 1, n), y)
  BY DEF ShortWrite
<1> DEFINE d == SubSeq(Piece(c), 1, n)
<1>7. d \in Seq(Byte)
  BY <1>5, <1>6
<1>8. y \in WriteHandle /\ y.key = x.key /\ y.file = x.file /\ y.left = x.left /\ y.want = x.want
      /\ y.streamed = x.streamed /\ y.failed
  BY <1>3 DEF WriteHandle
<1>9. /\ Spares(c) /\ h'[c] \in WriteHandle /\ DOMAIN h' = Client
      /\ \A e \in Client \ {c} : h'[e] = h[e]
      /\ h'[c].file = x.file /\ h'[c].key = x.key /\ h'[c].want = x.want
      /\ h'[c].streamed = x.streamed /\ h'[c].failed
      /\ x.file = Gone => node'[p] = node[p]
      /\ x.file = p => node'[p] \in Seq(Byte)
      /\ \A q \in Path : q # p => node'[q] = node[q]
  <2>1. Written(c, d, y)
    BY <1>6
  <2> HIDE DEF y, d
  <2> QED  BY <1>1, <1>2, <1>3, <1>4, <1>7, <1>8, <2>1, Appends
<1>10. Local(c) /\ call'[c] = call[c] /\ at'[c] = (IF x.streamed THEN "held" ELSE "discard")
       /\ reply'[c] = (IF x.streamed THEN Said("error") ELSE reply[c]) /\ faulty'[c]
  BY <1>1, <1>2, <1>3, <1>9 DEF ShortWrite, Fault, Answer, Goto, Local, Types
<1>11. Types' /\ Files' /\ \A e \in Client \ {c} : Undisturbed(e)
  BY <1>9, <1>10, Sparing
<1>12. Holds(c)'
  BY <1>2, <1>3, <1>4, <1>9, <1>10 DEF Holds, Stage
<1>13. PutState(c)'
  <2>1. x.file = Gone => node[p] = Nothing
    BY <1>1, <1>3 DEF PutState
  <2>2. Stage(h'[c].key) = p /\ h'[c].file \in {p, Gone} /\ p # Gone
    BY <1>3, <1>4, <1>9
  <2>3. h'[c].file = p => node'[p] # Nothing
    BY <1>9, ValueAssumption
  <2>4. h'[c].file = Gone => node'[p] = Nothing
    BY <1>9, <2>1
  <2>5. h'[c].failed /\ faulty'[c]
    BY <1>9, <1>10
  <2>6. \/ at'[c] = "held" /\ h'[c].streamed
       \/ at'[c] = "discard"
    BY <1>9, <1>10
  <2> QED  BY <2>2, <2>3, <2>4, <2>5, <2>6 DEF PutState
<1>14. CallState(c)' /\ ReplyState(c)'
  BY <1>1, <1>3, <1>9, <1>10 DEF CallState, PutCall, ReplyState, Answers, Pending, Said
<1>15. Litter(c)'
  BY <1>1, <1>2, <1>3, <1>9, <1>10, PathFacts DEF Litter, Mine, Stage
<1> QED  BY <1>2, <1>10, <1>11, <1>12, <1>13, <1>14, <1>15 DEF Good, ClientInv, Putting, Staging

\* fclose(), the parents of the key
LEMMA CloseGood ==
    ASSUME IInv, NEW c \in Client, Close(c)
    PROVE  Good(c)
<1> DEFINE x == h[c]
           p == Stage(x.key)
<1>1. at[c] = "close" /\ node' = node /\ litter' = litter /\ faulty' = faulty
  BY DEF Close, At
<1>2. {"close", "parents"} \subseteq Positions \cap Staging /\ Staging \subseteq Putting
  BY DEF Positions, Putting, Staging
<1>3. /\ Types /\ Files /\ PutState(c) /\ CallState(c) /\ ReplyState(c) /\ Litter(c)
      /\ x \in WriteHandle /\ x.key \in Key /\ Owner[x.key] = c /\ x.want \in Seq(Byte)
      /\ p \in Path /\ NoFile \notin Path
  BY <1>1, <1>2, UnderWay
<1>4. Local(c) /\ at'[c] = "parents" /\ call'[c] = call[c] /\ reply'[c] = reply[c]
      /\ h'[c] = [x EXCEPT !.file = NoFile, !.bytes = <<>>]
  BY <1>1, <1>2, <1>3 DEF Close, Hold, Goto, Local, Types
<1>5. h'[c] \in WriteHandle /\ h'[c].file = NoFile /\ h'[c].key = x.key /\ h'[c].want = x.want
      /\ h'[c].streamed = x.streamed
  <2> DEFINE y == [x EXCEPT !.file = NoFile, !.bytes = <<>>]
  <2>1. x \in WriteHandle /\ h'[c] = y
    BY <1>3, <1>4
  <2> HIDE DEF x
  <2>2. y \in WriteHandle /\ y.file = NoFile /\ y.key = x.key /\ y.want = x.want
        /\ y.streamed = x.streamed
    BY <2>1, EmptySeq DEF WriteHandle
  <2> QED  BY <2>1, <2>2
<1>6. Types' /\ Files' /\ \A e \in Client \ {c} : Undisturbed(e)
  BY <1>1, <1>3, <1>4, Quiet DEF Files
<1>7. node[p] \in {x.want, Nothing} /\ (node[p] = Nothing => faulty[c])
  <2>1. ASSUME x.file = p  PROVE node[p] \in Seq(Byte) /\ node[p] \o <<>> = x.want
    BY <1>1, <1>3, <2>1 DEF PutState, Files
  <2>2. x.file = p => node[p] = x.want
    BY <2>1, ConcatEmptySeq
  <2> QED  BY <1>1, <1>3, <2>2 DEF PutState
<1>8. Holds(c)'
  BY <1>2, <1>3, <1>4, <1>5 DEF Holds
<1>9. PutState(c)'
  <2>1. Stage(h'[c].key) = p /\ p # NoFile
    BY <1>3, <1>5
  <2>2. node'[p] \in {h'[c].want, Nothing} /\ (node'[p] = Nothing => faulty'[c])
    BY <1>1, <1>5, <1>7
  <2> QED  BY <1>4, <1>5, <2>1, <2>2 DEF PutState
<1>10. CallState(c)' /\ ReplyState(c)'
  BY <1>1, <1>3, <1>4, <1>5 DEF CallState, PutCall, ReplyState
<1>11. Litter(c)'
  BY <1>1, <1>2, <1>3, <1>4, <1>5 DEF Litter, Mine, Stage
<1> QED  BY <1>2, <1>4, <1>6, <1>8, <1>9, <1>10, <1>11 DEF Good, ClientInv, Putting, Staging

LEMMA MakeParentsGood ==
    ASSUME IInv, NEW c \in Client, MakeParents(c)
    PROVE  Good(c)
<1> DEFINE x == h[c]
           p == Stage(x.key)
<1>1. at[c] = "parents" /\ h' = h /\ litter' = litter /\ faulty' = faulty
  BY DEF MakeParents, At
<1>2. {"rename", "parents"} \subseteq Positions \cap Staging /\ Staging \subseteq Putting
  BY DEF Positions, Putting, Staging
<1>3. /\ Types /\ Files /\ PutState(c) /\ CallState(c) /\ ReplyState(c) /\ Litter(c)
      /\ x \in WriteHandle /\ x.key \in Key /\ Owner[x.key] = c /\ p \in Path /\ NoFile \notin Path
  BY <1>1, <1>2, UnderWay
<1>4. Local(c) /\ at'[c] = "rename" /\ call'[c] = call[c] /\ reply'[c] = reply[c]
  BY <1>1, <1>2, MovesOn DEF MakeParents
<1>5. Spares(c) /\ \A k \in Key : node'[Stage(k)] = node[Stage(k)]
  <2>1. Parents(x.key) \cap (Key \cup {Stage(k) : k \in Key}) = {}
    BY <1>3, PathFacts
  <2> QED  BY <1>1, <2>1, DirectoriesSpare DEF MakeParents
<1>6. Types' /\ Files' /\ \A d \in Client \ {c} : Undisturbed(d)
  BY <1>4, <1>5, Sparing
<1>7. Holds(c)'
  BY <1>1, <1>2, <1>3, <1>4 DEF Holds, PutState
<1>8. PutState(c)'
  BY <1>1, <1>3, <1>4, <1>5 DEF PutState, Stage
<1>9. CallState(c)' /\ ReplyState(c)'
  BY <1>1, <1>3, <1>4 DEF CallState, PutCall, ReplyState
<1>10. Litter(c)'
  BY <1>1, <1>2, <1>3, <1>4, <1>5 DEF Litter, Mine, Stage
<1> QED  BY <1>2, <1>4, <1>6, <1>7, <1>8, <1>9, <1>10 DEF Good, ClientInv, Putting, Staging

LEMMA CloseFailsGood ==
    ASSUME IInv, NEW c \in Client, CloseFails(c)
    PROVE  Good(c)
<1>1. at[c] \in {"close", "parents", "rename"} /\ node' = node /\ h' = h /\ litter' = litter
  BY DEF CloseFails
<1>2. {"close", "parents", "rename", "discard"} \subseteq Positions \cap Staging /\ Staging \subseteq Putting
  BY DEF Positions, Putting, Staging
<1>3. /\ Types /\ Files /\ PutState(c) /\ CallState(c) /\ ReplyState(c) /\ Litter(c)
      /\ h[c] \in WriteHandle /\ Owner[h[c].key] = c /\ h[c].file \in {NoFile, Gone, Stage(h[c].key)}
  BY <1>1, <1>2, UnderWay
<1>4. Local(c) /\ at'[c] = "discard" /\ call'[c] = call[c] /\ reply'[c] = reply[c]
  BY <1>1, <1>2, MovesOn DEF CloseFails
<1>5. faulty'[c]
  BY <1>3 DEF CloseFails, Fault, Types, PutState, At
<1>6. Types' /\ Files' /\ \A d \in Client \ {c} : Undisturbed(d)
  BY <1>1, <1>3, <1>4, Quiet DEF Files
<1>7. Holds(c)'
  BY <1>1, <1>2, <1>3, <1>4 DEF Holds, Stage
<1>8. PutState(c)'
  BY <1>1, <1>3, <1>4, <1>5 DEF PutState, Stage
<1>9. CallState(c)' /\ ReplyState(c)'
  BY <1>1, <1>3, <1>4, <1>5 DEF CallState, ReplyState
<1>10. Litter(c)'
  BY <1>1, <1>2, <1>3, <1>4 DEF Litter, Mine, Stage
<1> QED  BY <1>2, <1>4, <1>6, <1>7, <1>8, <1>9, <1>10 DEF Good, ClientInv, Putting, Staging

LEMMA ReturnGood ==
    ASSUME IInv, NEW c \in Client, Return(c)
    PROVE  Good(c)
<1>1. Types /\ Files /\ ClientInv(c) /\ at[c] = "return" /\ node' = node /\ h' = h /\ litter' = litter
      /\ faulty' = faulty
  BY DEF IInv, Return, At
<1>2. "idle" \in Positions /\ "idle" \notin Putting /\ "return" \notin Putting /\ Staging \subseteq Putting
  BY DEF Positions, Putting, Staging
<1>3. Local(c) /\ at'[c] = "idle" /\ call'[c] = call[c] /\ reply'[c] = Said("ok")
  BY <1>1, <1>2 DEF Return, Answer, Goto, Local, Types
<1>4. Types' /\ Files' /\ \A d \in Client \ {c} : Undisturbed(d)
  BY <1>1, <1>3, Quiet DEF Files
<1>5. Holds(c)' /\ CallState(c)' /\ ReplyState(c)' /\ Litter(c)'
  BY <1>1, <1>2, <1>3 DEF ClientInv, Holds, CallState, ReplyState, Answers, Pending, Said, Litter, Mine, Stage
<1> QED  BY <1>2, <1>3, <1>4, <1>5 DEF Good, ClientInv

LEMMA HandleKinds ==
    /\ \A x \in WriteHandle : "key" \in DOMAIN x /\ x # NoHandle
    /\ \A x \in ReadHandle : "key" \notin DOMAIN x
    /\ "key" \notin DOMAIN NoHandle /\ NoHandle.file = NoFile
BY DEF WriteHandle, ReadHandle, NoHandle

\* remove(tmp_path): done, or the file becomes litter.
LEMMA DiscardGood ==
    ASSUME IInv, NEW c \in Client, Discard(c)
    PROVE  Good(c)
<1> DEFINE x == h[c]
           p == Stage(x.key)
<1>1. at[c] \in {"discard", "abort"} /\ faulty' = faulty
  BY DEF Discard
<1>2. {"discard", "abort"} \subseteq Putting \cap Staging /\ "idle" \in Positions
      /\ "idle" \notin Putting /\ Staging \subseteq Putting
  BY DEF Positions, Putting, Staging
<1>3. /\ Types /\ Files /\ PutState(c) /\ Litter(c) /\ x.key \in Key /\ x.key \in Mine(c) /\ p \in Path
  BY <1>1, <1>2, UnderWay
<1>4. \A d \in Client \ {c} : h[d].file # p
  <2>1. ASSUME NEW d \in Client \ {c}  PROVE h[d].file \in {NoFile, Gone} \cup Key \cup {Stage(k) : k \in Mine(d)}
    BY OpenFiles DEF IInv
  <2>2. \A d \in Client \ {c} : x.key \notin Mine(d)
    BY <1>3 DEF Mine
  <2> QED  BY <1>3, <2>1, <2>2, PathFacts DEF Mine
<1>5. /\ h'[c] = NoHandle /\ DOMAIN h' = Client /\ \A d \in Client \ {c} : h'[d] = h[d]
      /\ \/ node' = [node EXCEPT ![p] = Nothing] /\ litter' = litter \ {p}
         \/ node' = node /\ litter' = litter \cup {p}
  <2>1. CASE node' = [node EXCEPT ![p] = Nothing] /\ litter' = litter \ {p}
             /\ h' = [Moved(p, p) EXCEPT ![c] = NoHandle]
    <3>1. DOMAIN Moved(p, p) = Client /\ \A d \in Client \ {c} : Moved(p, p)[d] = h[d]
      BY <1>4 DEF Moved
    <3> QED  BY <2>1, <3>1
  <2>2. CASE node' = node /\ litter' = litter \cup {p} /\ h' = [h EXCEPT ![c] = NoHandle]
    BY <1>3, <2>2 DEF Types
  <2> QED  BY <2>1, <2>2 DEF Discard, Becomes, Hold
<1>6. Local(c) /\ at'[c] = "idle" /\ reply'[c] \in {Said("ok"), Said("error")}
      /\ (reply'[c] = Said("error") => at[c] = "discard")
  BY <1>1, <1>2, <1>3, <1>5 DEF Discard, Answer, Goto, Local, Types, At, Said
<1>7. /\ node'[p] = Nothing \/ p \in litter'
      /\ \A q \in Path : q # p => node'[q] = node[q] /\ (q \in litter => q \in litter')
      /\ node' \in [Path -> Seq(Byte) \cup {Nothing, Dir}] /\ node'[p] \in Seq(Byte) \cup {Nothing}
  BY <1>3, <1>5 DEF Files
<1>8. Spares(c)
  <2>1. litter' \subseteq {Stage(k) : k \in Key}
    BY <1>3, <1>5 DEF Files
  <2>2. \A k \in Key : Stage(k) \in Path /\ (k # x.key => Stage(k) # p)
    BY <1>3, PathFacts
  <2>3. \A k \in Key : k \in Path /\ k # p
    BY <1>3, PathFacts
  <2>4. \A k \in Key : node'[Stage(k)] \in Seq(Byte) \cup {Nothing}
    BY <1>3, <1>7, <2>2 DEF Files
  <2>5. \A k \in Key : node'[k] = node[k]
    BY <1>7, <2>3
  <2>6. \A k \in Key \ Mine(c) :
            node'[Stage(k)] = node[Stage(k)] /\ (Stage(k) \in litter => Stage(k) \in litter')
    BY <1>3, <1>7, <2>2
  <2> QED  BY <1>7, <2>1, <2>4, <2>5, <2>6 DEF Spares, Mine
<1>9. Types' /\ Files' /\ \A d \in Client \ {c} : Undisturbed(d)
  BY <1>6, <1>8, Sparing
<1>10. Holds(c)' /\ CallState(c)' /\ ReplyState(c)'
  BY <1>1, <1>2, <1>3, <1>5, <1>6 DEF Holds, CallState, ReplyState, Answers, Pending, Said, PutState
<1>11. Litter(c)'
  <2>1. ASSUME NEW k \in Mine(c), node'[Stage(k)] # Nothing  PROVE Stage(k) \in litter'
    BY <1>3, <1>7, <2>1, PathFacts DEF Litter, Mine
  <2> QED  BY <2>1 DEF Litter, Mine, Stage
<1> QED  BY <1>2, <1>6, <1>9, <1>10, <1>11 DEF Good, ClientInv

\* rename(): the key has the whole content at once, and whoever reads the old
\* one goes on with it.
LEMMA RenameGood ==
    ASSUME IInv, NEW c \in Client, Rename(c)
    PROVE  Good(c) /\ node'[h[c].key] = h[c].want
           /\ \A k \in Key : k # h[c].key => node'[k] = node[k]
<1> DEFINE x == h[c]
           q == x.key
           p == Stage(q)
<1>1. at[c] = "rename" /\ faulty' = faulty /\ node[p] # Nothing /\ litter' = litter \ {p}
      /\ node' = [node EXCEPT ![q] = node[p], ![p] = Nothing]
      /\ h' = [Moved(p, q) EXCEPT ![c] = NoHandle]
  BY DEF Rename, At
<1>2. "rename" \in Putting \cap Staging /\ "return" \in Positions /\ "return" \notin Putting
      /\ Staging \subseteq Putting
  BY DEF Positions, Putting, Staging
<1>3. /\ Types /\ Files /\ PutState(c) /\ CallState(c) /\ ReplyState(c) /\ Litter(c)
      /\ x \in WriteHandle /\ q \in Key /\ q \in Mine(c) /\ p \in Path /\ q \in Path /\ p # q
  BY <1>1, <1>2, UnderWay, PathFacts
<1>4. node[p] = x.want /\ x.want \in Content /\ x.want \in Seq(Byte) /\ x.want # Nothing
  BY <1>1, <1>3, ContentAssumption, ValueAssumption DEF PutState, WriteHandle
<1>5. node' \in [Path -> Seq(Byte) \cup {Nothing, Dir}] /\ node'[q] = x.want /\ node'[p] = Nothing
      /\ \A r \in Path : r # p /\ r # q => node'[r] = node[r]
  BY <1>1, <1>3, <1>4 DEF Files
<1>6. /\ \A d \in Client \ {c} : h'[d] = (IF h[d].file = q THEN [h[d] EXCEPT !.file = Gone, !.bytes = node[q]]
                                             ELSE IF h[d].file = p THEN [h[d] EXCEPT !.file = q] ELSE h[d])
      /\ h'[c] = NoHandle /\ DOMAIN h' = Client
  BY <1>1 DEF Moved
<1>7. /\ at' \in [Client -> Positions] /\ at'[c] = "return" /\ call' = call /\ reply' = reply
      /\ \A d \in Client \ {c} : at'[d] = at[d]
  BY <1>1, <1>2, <1>3 DEF Rename, Goto, Types
<1>8. \A k \in Key : Stage(k) \in Path /\ Stage(k) # q /\ (k # q => Stage(k) # p)
  BY <1>3, PathFacts
<1>9. Types'
  BY <1>1, <1>3, <1>6, <1>7 DEF Types
<1>10. \A k \in Key : /\ k # q => node'[k] = node[k]
                      /\ k # q => node'[Stage(k)] = node[Stage(k)]
                      /\ k # q /\ Stage(k) \in litter => Stage(k) \in litter'
  <2>1. ASSUME NEW k \in Key  PROVE k \in Path /\ k # p
    BY <1>3, PathFacts
  <2>2. ASSUME NEW k \in Key, k # q  PROVE node'[k] = node[k] /\ node'[Stage(k)] = node[Stage(k)]
    BY <1>5, <1>8, <2>1, <2>2
  <2> QED  BY <1>1, <1>8, <2>2
<1>11. Files'
  <2>1. \A k \in Key : node'[k] \in Content \cup {Nothing} /\ node'[Stage(k)] \in Seq(Byte) \cup {Nothing}
    BY <1>3, <1>4, <1>5, <1>10 DEF Files
  <2>2. litter' \subseteq {Stage(k) : k \in Key}
    BY <1>1, <1>3 DEF Files
  <2> QED  BY <1>5, <2>1, <2>2 DEF Files, Path, Stage, Container, Parents, Tmp
<1>12. ASSUME NEW d \in Client \ {c}  PROVE Undisturbed(d)
  <2>1. q \notin Mine(d) /\ \A k \in Mine(d) : k \in Key /\ k # q
    BY <1>3 DEF Mine
  <2>2. h[d].file \in {NoFile, Gone} \cup Key \cup {Stage(k) : k \in Mine(d)} /\ h[d].file # p
    <3>1. h[d].file \in {NoFile, Gone} \cup Key \cup {Stage(k) : k \in Mine(d)}
      BY <1>3, OpenFiles DEF IInv
    <3> QED  BY <1>3, <1>8, <2>1, <3>1, PathFacts
  <2>3. at[d] \in Putting => h[d].file # q
    <3>1. ASSUME at[d] \in Putting  PROVE h[d].file \in {NoFile, Gone, Stage(h[d].key)} /\ h[d].key \in Key
      BY <3>1, UnderWay
    <3> QED  BY <1>3, <1>8, <3>1, PathFacts
  <2>4. \/ h'[d] = h[d] /\ (h[d].file \in Path => node'[h[d].file] = node[h[d].file])
        \/ /\ h[d].file \in Path \ Mine(d)
           /\ h'[d] = [h[d] EXCEPT !.file = Gone, !.bytes = node[h[d].file]]
           /\ at[d] \in Putting => node'[h[d].file] = Nothing
    BY <1>3, <1>5, <1>6, <2>1, <2>2, <2>3
  <2> QED  BY <1>1, <1>7, <1>10, <2>1, <2>4 DEF Undisturbed
<1>13. Holds(c)' /\ ReplyState(c)'
  BY <1>1, <1>2, <1>3, <1>6, <1>7 DEF Holds, ReplyState
<1>14. CallState(c)'
  <2>1. PutCall(c)
    BY <1>1, <1>3 DEF CallState
  <2>2. HasPut(c)'
    BY <1>3, <1>4, <1>5, <1>7, <2>1 DEF HasPut, PutCall, Mine
  <2> QED  BY <1>7, <2>2 DEF CallState
<1>15. Litter(c)'
  <2>1. ASSUME NEW k \in Mine(c), node'[Stage(k)] # Nothing  PROVE Stage(k) \in litter'
    <3>1. k \in Key /\ k # q
      BY <1>5, <2>1 DEF Mine
    <3> QED  BY <1>3, <1>10, <2>1, <3>1 DEF Litter
  <2> QED  BY <2>1 DEF Litter, Mine, Stage
<1>16. ClientInv(c)'
  BY <1>2, <1>7, <1>13, <1>14, <1>15 DEF ClientInv
<1> QED  BY <1>5, <1>9, <1>10, <1>11, <1>12, <1>16 DEF Good

-----------------------------------------------------------------------------
(* The other calls.                                                        *)

\* remove(): whoever has the file open goes on with it, and a put whose
\* staging file it was will fail for that cause.
LEMMA UnlinkGood ==
    ASSUME IInv, NEW c \in Client, Unlink(c)
    PROVE  /\ Good(c) /\ call'[c] = call[c] /\ DOMAIN h' = Client
           /\ \A k \in Key : k # call[c].key => node'[k] = node[k]
<1> DEFINE p == call[c].key
<1>1. at[c] = "remove" /\ litter' = litter \ {p} /\ node' = [node EXCEPT ![p] = Nothing]
      /\ h' = Moved(p, p)
  BY DEF Unlink, At, Becomes
<1>2. "remove" \notin Putting /\ {"idle", "return"} \subseteq Positions /\ "idle" \notin Putting
      /\ "return" \notin Putting /\ Staging \subseteq Putting
  BY DEF Positions, Putting, Staging
<1>3. Types /\ Files /\ ClientInv(c) /\ h[c] = NoHandle
  BY <1>1, <1>2 DEF IInv, ClientInv, Holds
<1>4. (SweepCall(c) /\ \E k \in Key : p = Stage(k)) \/ (RemoveCall(c) /\ p \in Mine(c) /\ p \in Key)
  <2>1. SweepCall(c) \/ RemoveCall(c)
    BY <1>1, <1>3 DEF ClientInv, CallState
  <2>2. SweepCall(c) => \E k \in Key : p = Stage(k)
    BY DEF SweepCall
  <2>3. RemoveCall(c) => p \in Mine(c) /\ p \in Key
    BY DEF RemoveCall, Mine
  <2> QED  BY <2>1, <2>2, <2>3
<1>5. p \in Path
  BY <1>4, PathFacts
<1>6. node' \in [Path -> Seq(Byte) \cup {Nothing, Dir}] /\ node'[p] = Nothing
      /\ \A r \in Path : r # p => node'[r] = node[r]
  BY <1>1, <1>3, <1>5 DEF Files
<1>7. /\ \A d \in Client : h'[d] = IF h[d].file = p THEN [h[d] EXCEPT !.file = Gone, !.bytes = node[p]]
                                   ELSE h[d]
      /\ DOMAIN h' = Client
  BY <1>1 DEF Moved
<1>8. h'[c] = NoHandle
  BY <1>3, <1>5, <1>7, HandleKinds, PathFacts
<1>9. /\ at' \in [Client -> Positions] /\ call' = call /\ DOMAIN reply' = Client
      /\ \A d \in Client \ {c} : at'[d] = at[d] /\ reply'[d] = reply[d]
      /\ IF node[p] = Nothing THEN at'[c] = "idle" /\ reply'[c] = Said("absent")
         ELSE at'[c] = "return" /\ reply'[c] = reply[c]
  BY <1>1, <1>2, <1>3 DEF Unlink, Answer, Goto, Types
<1>10. /\ faulty' \in [Client -> BOOLEAN]
       /\ \A d \in Client : /\ faulty[d] => faulty'[d]
                            /\ h[d] # NoHandle /\ "key" \in DOMAIN h[d] /\ Stage(h[d].key) = p => faulty'[d]
                            /\ h[d] = NoHandle => faulty'[d] = faulty[d]
  BY <1>3 DEF Unlink, Types
<1>11. Types'
  BY <1>3, <1>7, <1>9, <1>10 DEF Types
<1>12. \A k \in Key : k \in Path /\ Stage(k) \in Path
  BY PathFacts
<1>13. Files'
  <2>1. \A k \in Key : node'[k] \in Content \cup {Nothing} /\ node'[Stage(k)] \in Seq(Byte) \cup {Nothing}
    BY <1>3, <1>6, <1>12 DEF Files
  <2>2. litter' \subseteq {Stage(k) : k \in Key}
    BY <1>1, <1>3 DEF Files
  <2> QED  BY <1>6, <2>1, <2>2 DEF Files, Path, Stage, Container, Parents, Tmp
<1>14. ASSUME NEW d \in Client \ {c}  PROVE Undisturbed(d)
  <2>1. p \notin Mine(d) /\ \A k \in Mine(d) : k \in Key /\ k # p
    BY <1>4, PathFacts DEF Mine
  <2>2. at[d] \in Putting => h[d] \in WriteHandle /\ "key" \in DOMAIN h[d] /\ h[d] # NoHandle
    BY UnderWay, HandleKinds
  <2>3. ASSUME NEW k \in Mine(d)
        PROVE  \/ node'[Stage(k)] = node[Stage(k)] /\ (Stage(k) \in litter => Stage(k) \in litter')
               \/ node'[Stage(k)] = Nothing /\ (at[d] \in Putting /\ h[d].key = k => faulty'[d])
    <3>1. CASE Stage(k) = p
      BY <1>6, <1>10, <2>2, <3>1
    <3>2. CASE Stage(k) # p
      BY <1>1, <1>6, <1>12, <2>1, <3>2
    <3> QED  BY <3>1, <3>2
  <2>4. \A k \in Mine(d) : node'[k] = node[k]
    BY <1>6, <1>12, <2>1
  <2>5. \/ h'[d] = h[d] /\ (h[d].file \in Path => node'[h[d].file] = node[h[d].file])
        \/ /\ h[d].file \in Path \ Mine(d)
           /\ h'[d] = [h[d] EXCEPT !.file = Gone, !.bytes = node[h[d].file]]
           /\ at[d] \in Putting => node'[h[d].file] = Nothing
    BY <1>5, <1>6, <1>7, <2>1
  <2> QED  BY <1>9, <1>10, <2>3, <2>4, <2>5 DEF Undisturbed
<1>15. Holds(c)' /\ ReplyState(c)'
  BY <1>1, <1>2, <1>3, <1>8, <1>9, <1>10 DEF ClientInv, Holds, ReplyState, Answers, Pending, Said
<1>16. CallState(c)'
  <2>1. CASE node[p] = Nothing
    BY <1>9, <2>1 DEF CallState
  <2>2. CASE node[p] # Nothing /\ SweepCall(c)
    BY <1>9, <2>2 DEF CallState, SweepCall, Stage
  <2>3. CASE node[p] # Nothing /\ RemoveCall(c) /\ p \in Mine(c) /\ p \in Key
    <3>1. PICK k \in Mine(c) : call[c] = [op |-> "remove", key |-> k, was |-> Visible(k)]
      BY <2>3 DEF RemoveCall
    <3>2. p = k /\ node[k] \in Content
      BY <1>3, <2>3, <3>1 DEF Files
    <3>3. Visible(k) \in Content
      BY <2>3, <3>2, ContentAssumption, ValueAssumption DEF Visible, FileAt
    <3>4. HasRemoved(c)'
      BY <1>6, <1>9, <3>1, <3>2, <3>3 DEF HasRemoved, Mine
    <3> QED  BY <1>9, <2>3, <3>4 DEF CallState
  <2> QED  BY <1>4, <2>1, <2>2, <2>3
<1>17. Litter(c)'
  <2>1. ASSUME NEW k \in Mine(c), node'[Stage(k)] # Nothing  PROVE Stage(k) \in litter'
    <3>1. k \in Key /\ Stage(k) # p
      BY <1>6, <2>1 DEF Mine
    <3>2. Stage(k) \in litter
      BY <1>1, <1>2, <1>3, <1>6, <1>12, <2>1, <3>1 DEF ClientInv, Litter
    <3> QED  BY <1>1, <3>1, <3>2
  <2> QED  BY <2>1 DEF Litter, Mine, Stage
<1>18. ClientInv(c)'
  BY <1>2, <1>9, <1>15, <1>16, <1>17 DEF ClientInv
<1> QED  BY <1>6, <1>7, <1>9, <1>11, <1>12, <1>13, <1>14, <1>18 DEF Good

\* A call that changes no file, or only makes directories.
LEMMA AnswerGood ==
    ASSUME IInv, NEW c \in Client, Local(c), Spares(c), litter' = litter,
           \A k \in Key : node'[Stage(k)] = node[Stage(k)], at[c] \notin Staging,
           at'[c] = "idle", h'[c] = NoHandle, reply'[c] \in Answers, reply'[c] # Pending,
           reply'[c] = Said("error") => faulty'[c]
    PROVE  Good(c)
<1>1. Types' /\ Files' /\ \A d \in Client \ {c} : Undisturbed(d)
  BY Sparing
<1>2. "idle" \notin Putting /\ "idle" \notin Staging
  BY DEF Putting, Staging
<1>3. Holds(c)' /\ CallState(c)' /\ ReplyState(c)'
  BY <1>2 DEF Holds, CallState, ReplyState
<1>4. Litter(c)'
  BY <1>2 DEF IInv, ClientInv, Litter, Mine, Stage
<1> QED  BY <1>1, <1>2, <1>3, <1>4 DEF Good, ClientInv

LEMMA SameFilesSpared ==
    ASSUME Files, NEW c \in Client, node' = node, litter' = litter
    PROVE  Spares(c) /\ \A k \in Key : node'[Stage(k)] = node[Stage(k)]
BY DEF Spares, Files, Mine

LEMMA LookGood ==
    ASSUME IInv, NEW c \in Client,
           Read(c) \/ Stat(c) \/ Listing(c) \/ CallFails(c)
    PROVE  Good(c)
<1>1. Types /\ Files /\ ClientInv(c) /\ node' = node /\ litter' = litter
      /\ at[c] \in {"get", "read", "exists", "remove", "list", "mkcol"}
  BY DEF IInv, Read, Stat, Listing, CallFails, At
<1>2. at[c] \notin Putting /\ at[c] \notin Staging /\ "idle" \in Positions
  BY <1>1 DEF Positions, Putting, Staging
<1>3. at[c] # "read" => h[c] = NoHandle
  BY <1>1, <1>2 DEF ClientInv, Holds
<1>4. at[c] = "read" => Bytes(h[c]) \in Content
  <2>1. at[c] = "read" => h[c].file \in Key \cup {Gone}
    BY <1>1, <1>2 DEF ClientInv, Holds, ReadHandle
  <2> QED  BY <1>1, <2>1 DEF ClientInv, ReadState, Bytes
<1>5. Local(c) /\ at'[c] = "idle" /\ h'[c] = NoHandle /\ reply'[c] # Pending
      /\ reply'[c] \in Answers /\ (reply'[c] = Said("error") => faulty'[c])
  <2>1. CASE Read(c)
    BY <1>1, <1>2, <1>4, <2>1 DEF Read, At, Hold, Answer, Goto, Local, Types, Answers, Pending, Said
  <2>2. CASE Stat(c)
    BY <1>1, <1>2, <1>3, <2>2 DEF Stat, At, Answer, Goto, Local, Types, Answers, Pending, Said
  <2>3. CASE Listing(c)
    BY <1>1, <1>2, <1>3, <2>3 DEF Listing, At, Answer, Goto, Local, Types, Answers, Pending, Said
  <2>4. CASE CallFails(c)
    BY <1>1, <1>2, <2>4 DEF CallFails, Hold, Fault, Answer, Goto, Local, Types, Answers, Pending, Said
  <2> QED  BY <2>1, <2>2, <2>3, <2>4
<1>6. Spares(c) /\ \A k \in Key : node'[Stage(k)] = node[Stage(k)]
  BY <1>1, SameFilesSpared
<1> QED  BY <1>1, <1>2, <1>5, <1>6, AnswerGood

LEMMA MkcolGood ==
    ASSUME IInv, NEW c \in Client, Mkcol(c)
    PROVE  Good(c)
<1> DEFINE k == call[c].key
<1>1. Types /\ Files /\ ClientInv(c) /\ at[c] = "mkcol" /\ litter' = litter /\ h' = h
  BY DEF IInv, Mkcol, At
<1>2. at[c] \notin Putting /\ at[c] \notin Staging /\ "idle" \in Positions
  BY <1>1 DEF Positions, Putting, Staging
<1>3. h[c] = NoHandle /\ k \in Container
  BY <1>1, <1>2 DEF ClientInv, Holds, CallState
<1>4. Parents(k) \cup {k} \subseteq Container
  <2>1. PICK l \in Key : k \in Parents(l)
    BY <1>3 DEF Container
  <2>2. PICK n \in 1 .. Len(l) - 1 : k = SubSeq(l, 1, n)
    BY <2>1 DEF Parents
  <2>3. l \in Seq(STRING) /\ Len(l) \in Nat /\ Len(k) = n
    BY <2>2, KeyAssumption, LenProperties, SubSeqProperties
  <2>4. ASSUME NEW m \in 1 .. Len(k) - 1  PROVE SubSeq(k, 1, m) \in Parents(l)
    <3>1. SubSeq(k, 1, m) = SubSeq(l, 1, m)
      BY <2>2, <2>3
    <3>2. m \in 1 .. Len(l) - 1
      BY <2>2, <2>3
    <3> QED  BY <3>1, <3>2 DEF Parents
  <2> QED  BY <1>3, <2>4, PathFacts DEF Parents
<1>5. Spares(c) /\ \A l \in Key : node'[Stage(l)] = node[Stage(l)]
  <2>1. (Parents(k) \cup {k}) \cap (Key \cup {Stage(l) : l \in Key}) = {}
    BY <1>4, PathFacts
  <2> QED  BY <1>1, <2>1, DirectoriesSpare DEF Mkcol
<1>6. Local(c) /\ at'[c] = "idle" /\ h'[c] = NoHandle /\ reply'[c] = Said("ok")
  BY <1>1, <1>2, <1>3 DEF Mkcol, Answer, Goto, Local, Types
<1> QED  BY <1>1, <1>2, <1>5, <1>6, AnswerGood DEF Answers, Pending, Said

\* dir_get(): what is open is the file of the key, whole.
LEMMA OpenToReadGood ==
    ASSUME IInv, NEW c \in Client, OpenToRead(c)
    PROVE  Good(c)
<1> DEFINE p == call[c].key
<1>1. Types /\ Files /\ ClientInv(c) /\ at[c] = "get" /\ node' = node /\ litter' = litter /\ faulty' = faulty
  BY DEF IInv, OpenToRead, At
<1>2. at[c] \notin Putting /\ at[c] \notin Staging /\ {"idle", "read"} \subseteq Positions
      /\ "read" \notin Putting /\ "read" \notin Staging
  BY <1>1 DEF Positions, Putting, Staging
<1>3. h[c] = NoHandle /\ p \in Key /\ call[c] \in [op : {"get"}, key : Key]
  BY <1>1, <1>2 DEF ClientInv, Holds, CallState
<1>4. Spares(c) /\ \A k \in Key : node'[Stage(k)] = node[Stage(k)]
  BY <1>1, SameFilesSpared
<1>5. CASE FileAt(p)
  <2>1. Local(c) /\ at'[c] = "read" /\ h'[c] = [file |-> p, bytes |-> <<>>] /\ call'[c] = call[c]
        /\ reply'[c] = reply[c]
    BY <1>1, <1>2, <1>5 DEF OpenToRead, Hold, Goto, Local, Types
  <2>2. Types' /\ Files' /\ \A d \in Client \ {c} : Undisturbed(d)
    BY <1>4, <2>1, Sparing
  <2>3. node[p] \in Content
    BY <1>1, <1>3, <1>5 DEF Files, FileAt
  <2>4. Holds(c)'
    BY <1>2, <1>3, <2>1, EmptySeq DEF Holds, ReadHandle
  <2>5. ReadState(c)'
    BY <1>1, <1>3, <2>1, <2>3, PathFacts DEF ReadState
  <2>6. CallState(c)' /\ ReplyState(c)'
    BY <1>1, <1>3, <2>1 DEF ClientInv, CallState, ReplyState
  <2>7. Litter(c)'
    BY <1>1, <1>2, <2>1 DEF ClientInv, Litter, Mine, Stage
  <2> QED  BY <1>2, <2>1, <2>2, <2>4, <2>5, <2>6, <2>7 DEF Good, ClientInv
<1>6. CASE ~FileAt(p)
  <2>1. Local(c) /\ at'[c] = "idle" /\ h'[c] = NoHandle /\ reply'[c] = Said("absent")
    BY <1>1, <1>2, <1>3, <1>6 DEF OpenToRead, Answer, Goto, Local, Types
  <2> QED  BY <1>1, <1>2, <1>4, <2>1, AnswerGood DEF Answers, Pending, Said
<1> QED  BY <1>5, <1>6

\* The process ends at any step: what it was writing is litter.
LEMMA CrashGood ==
    ASSUME IInv, NEW c \in Client, Crash(c)
    PROVE  Good(c)
<1>1. Types /\ Files /\ ClientInv(c) /\ at[c] # "idle" /\ node' = node
  BY DEF IInv, Crash, At
<1>2. "idle" \in Positions /\ "idle" \notin Putting /\ "idle" \notin Staging /\ Staging \subseteq Putting
  BY DEF Positions, Putting, Staging
<1>3. Local(c) /\ at'[c] = "idle" /\ h'[c] = NoHandle /\ faulty'[c]
      /\ reply'[c] = (IF reply[c] = Pending THEN Said("error") ELSE reply[c])
  BY <1>1, <1>2 DEF Crash, Hold, Fault, Answer, Goto, Local, Types
<1>4. at[c] \in Putting => "key" \in DOMAIN h[c] /\ h[c].key \in Key /\ Stage(h[c].key) \in Path
  BY UnderWay, HandleKinds
<1>5. at[c] \notin Putting => "key" \notin DOMAIN h[c]
  BY <1>1, HandleKinds DEF ClientInv, Holds
<1>6. litter \subseteq litter' /\ litter' \subseteq {Stage(k) : k \in Key}
  BY <1>1, <1>4, <1>5 DEF Crash, Files
<1>7. Types' /\ Files' /\ \A d \in Client \ {c} : Undisturbed(d)
  BY <1>1, <1>3, <1>6, Quiet
<1>8. Holds(c)' /\ CallState(c)' /\ ReplyState(c)'
  BY <1>1, <1>2, <1>3 DEF ClientInv, Holds, CallState, ReplyState, Answers, Pending, Said
<1>9. Litter(c)'
  <2>1. ASSUME NEW k \in Mine(c), node[Stage(k)] # Nothing  PROVE Stage(k) \in litter'
    <3>1. CASE Stage(k) \in litter
      BY <1>6, <3>1
    <3>2. CASE at[c] \in Staging /\ h[c].key = k
      <4>1. FileAt(Stage(k))
        BY <1>1, <2>1, ValueAssumption DEF FileAt, Files, Mine
      <4> QED  BY <1>2, <1>4, <3>2, <4>1 DEF Crash
    <3> QED  BY <1>1, <2>1, <3>1, <3>2 DEF ClientInv, Litter
  <2> QED  BY <1>1, <2>1 DEF Litter, Mine, Stage
<1> QED  BY <1>2, <1>3, <1>7, <1>8, <1>9 DEF Good, ClientInv

-----------------------------------------------------------------------------
(* The theorems.                                                           *)

LEMMA InitInv == Init => IInv
<1> SUFFICES ASSUME Init  PROVE IInv
  OBVIOUS
<1>1. "idle" \in Positions /\ "idle" \notin Putting /\ "idle" \notin Staging
  BY DEF Positions, Putting, Staging
<1>2. Types
  BY <1>1 DEF Init, Types
<1>3. Files
  BY PathFacts DEF Init, Files
<1>4. ASSUME NEW c \in Client  PROVE ClientInv(c)
  <2>1. at[c] = "idle" /\ h[c] = NoHandle /\ call[c] = NoCall /\ reply[c] = Said("ok")
    BY DEF Init
  <2>2. \A k \in Mine(c) : node[Stage(k)] = Nothing
    BY PathFacts DEF Init, Mine
  <2> QED  BY <1>1, <2>1, <2>2 DEF ClientInv, Holds, CallState, ReplyState, Answers, Pending, Said, Litter
<1> QED  BY <1>2, <1>3, <1>4 DEF IInv

LEMMA StepGood ==
    ASSUME IInv, NEW c \in Client, Caller(c) \/ PutStep(c) \/ LookStep(c) \/ Crash(c)
    PROVE  Good(c)
<1>1. CASE Caller(c)
  BY <1>1, BeginGood, StreamGood, CallGood DEF Caller
<1>2. CASE PutStep(c)
  BY <1>2, MakeTmpGood, OpenStageGood, NotStagedGood, WriteGood, ShortWriteGood, CloseGood,
     MakeParentsGood, RenameGood, ReturnGood, CloseFailsGood, DiscardGood DEF PutStep
<1>3. CASE LookStep(c)
  BY <1>3, OpenToReadGood, LookGood, UnlinkGood, MkcolGood DEF LookStep
<1>4. CASE Crash(c)
  BY <1>4, CrashGood
<1> QED  BY <1>1, <1>2, <1>3, <1>4

LEMMA Unmoved ==
    ASSUME IInv, UNCHANGED vars
    PROVE  IInv'
<1>1. Types' /\ Files'
  BY DEF vars, IInv, Types, Files, Path, Stage, Container, Parents, Tmp
<1>2. \A c \in Client : Undisturbed(c)
  BY DEF vars, Undisturbed
<1> QED  BY <1>1, <1>2, Frame DEF IInv

\* The invariant: every staging file is a prefix of what its put is given,
\* and each process keeps it through whatever the others do.
THEOREM Inductive == Spec => []IInv
<1>1. ASSUME IInv, Next  PROVE IInv'
  <2>1. PICK c \in Client : Caller(c) \/ PutStep(c) \/ LookStep(c) \/ Crash(c)
    BY <1>1 DEF Next
  <2>2. Good(c)
    BY <1>1, <2>1, StepGood
  <2>3. ASSUME NEW d \in Client \ {c}  PROVE ClientInv(d)'
    BY <1>1, <2>2, Frame DEF Good, IInv
  <2> QED  BY <2>2, <2>3 DEF Good, IInv
<1>2. IInv /\ [Next]_vars => IInv'
  BY <1>1, Unmoved
<1> QED  BY <1>2, InitInv, PTL DEF Spec

LEMMA Serves == IInv => ServesWhole
<1> SUFFICES ASSUME IInv  PROVE ServesWhole
  OBVIOUS
<1>1. Types /\ Files /\ \A c \in Client : ClientInv(c)
  BY DEF IInv
<1>2. ASSUME NEW c \in Client
      PROVE  /\ h[c].file \in Path \cup {NoFile, Gone}
             /\ at[c] \in {"write", "held", "close", "read"} => h[c].file # NoFile
             /\ at[c] = "idle" => h[c] = NoHandle
  <2>1. h[c].file \in Path \cup {NoFile, Gone}
    BY <1>1, OpenFiles, PathFacts DEF Mine
  <2>2. at[c] \in {"write", "held", "close"} => h[c].file # NoFile
    <3>1. ASSUME at[c] \in {"write", "held", "close"}  PROVE at[c] \in Putting
      BY <3>1 DEF Putting, Staging
    <3>2. ASSUME at[c] \in {"write", "held", "close"}
          PROVE  h[c].file \in {Stage(h[c].key), Gone} /\ Stage(h[c].key) \in Path
      BY <3>1, <3>2, UnderWay DEF PutState
    <3> QED  BY <3>2, PathFacts
  <2>3. at[c] = "read" => h[c].file # NoFile
    BY <1>1, PathFacts DEF ClientInv, Holds, ReadHandle, Putting, Staging
  <2>4. at[c] = "idle" => h[c] = NoHandle
    BY <1>1 DEF ClientInv, Holds, Putting, Staging
  <2> QED  BY <2>1, <2>2, <2>3, <2>4
<1>3. TypeOK
  BY <1>1, <1>2 DEF TypeOK, Types, Files, Positions, Putting, Staging, ClientInv, ReplyState, Answers, Pending
<1>4. NoTornRead
  BY <1>1 DEF NoTornRead, ClientInv, ReplyState, Answers
<1>5. OnlyFaultsFail
  BY <1>1 DEF OnlyFaultsFail, ClientInv, ReplyState
<1> QED  BY <1>3, <1>4, <1>5 DEF ServesWhole

\* Readers get whole contents, and no call fails for want of a cause, however
\* many processes use the directory, whatever they store in it.
THEOREM ReadersGetWholes == Spec => []ServesWhole
BY Inductive, Serves, PTL

\* What lies under tmp/ belongs to a put under way, but for what crashes and
\* failing removes left.
THEOREM NothingIsLeft == Spec => []NoLitter
<1>1. ASSUME IInv  PROVE NoLitter
  <2>1. ASSUME NEW k \in Key, node[Stage(k)] # Nothing, Stage(k) \notin litter
        PROVE  \E c \in Client : "key" \in DOMAIN h[c] /\ h[c].key = k
    <3>1. Owner[k] \in Client /\ k \in Mine(Owner[k])
      BY OwnerAssumption DEF Mine
    <3>2. at[Owner[k]] \in Staging /\ h[Owner[k]].key = k
      BY <1>1, <2>1, <3>1 DEF IInv, ClientInv, Litter
    <3>3. h[Owner[k]] \in WriteHandle
      BY <1>1, <3>1, <3>2, UnderWay DEF Putting
    <3> QED  BY <3>1, <3>2, <3>3, HandleKinds
  <2> QED  BY <2>1 DEF NoLitter
<1> QED  BY <1>1, Inductive, PTL

-----------------------------------------------------------------------------
(* KeyStore is implemented.                                                *)

LEMMA VisibleIs ==
    ASSUME Files, NEW k \in Key
    PROVE  /\ node[k] = Nothing => Visible(k) = Absent
           /\ node[k] # Nothing => Visible(k) = node[k] /\ node[k] \in Content /\ node[k] # Absent
BY ContentAssumption, ValueAssumption DEF Files, Visible, FileAt

\* A step of somebody else, and one that only c itself can see.
LEMMA SeesNothing ==
    ASSUME NEW c \in Client, call'[c] = call[c], reply'[c] = reply[c],
           \A k \in Mine(c) : Visible(k)' = Visible(k)
    PROVE  UNCHANGED Contract(c)!keyStoreVars
BY DEF Contract!keyStoreVars, MyCall, Mine

LEMMA SeesAsking ==
    ASSUME NEW c \in Client, reply[c] # Pending, reply'[c] = Pending,
           \A k \in Mine(c) : Visible(k)' = Visible(k),
           \/ ~MyCall(c)'
           \/ /\ MyCall(c)' /\ call'[c] \in Contract(c)!Calls
              /\ call'[c].op = "remove" => call'[c].was = Visible(call'[c].key)
    PROVE  Contract(c)!KeyStoreNext
<1> DEFINE q == IF MyCall(c)' THEN call'[c] ELSE NoCall
<1>1. q \in Contract(c)!Calls
  BY DEF Contract!Calls, Contract!NoCall, NoCall
<1>2. [k \in Mine(c) |-> Visible(k)]' = [k \in Mine(c) |-> Visible(k)]
  BY DEF Mine
<1>3. q.op = "remove" => q.key \in Mine(c) /\ q.was = Visible(q.key)
  BY DEF NoCall, MyCall, Mine
<1>4. Contract(c)!Ask(q)
  BY <1>2, <1>3 DEF Contract!Ask, Contract!Pending, Pending, Said
<1> QED  BY <1>1, <1>4 DEF Contract!KeyStoreNext

\* An answer that is an error or true of what is stored.
LEMMA SeesAnswer ==
    ASSUME Files, NEW c \in Client, call'[c] = call[c], reply[c] = Pending,
           reply'[c] \in Answers, reply'[c] # Pending,
           \A k \in Mine(c) : Visible(k)' = Visible(k),
           MyCall(c) /\ reply'[c] # Said("error") =>
              LET k == call[c].key IN
              \/ call[c].op = "put" /\ reply'[c] = Said("ok") /\ Visible(k) = call[c].data
              \/ call[c].op = "get" /\ Visible(k) # Absent /\ reply'[c] = [rc |-> "ok", data |-> Visible(k)]
              \/ call[c].op = "exists" /\ Visible(k) # Absent /\ reply'[c] = Said("ok")
              \/ call[c].op = "remove" /\ Visible(k) = Absent /\ call[c].was # Absent /\ reply'[c] = Said("ok")
              \/ call[c].op \in {"get", "exists", "remove"} /\ Visible(k) = Absent /\ reply'[c] = Said("absent")
    PROVE  Contract(c)!KeyStoreNext
<1> DEFINE r == IF MyCall(c) \/ reply'[c] = Said("error") THEN reply'[c] ELSE Said("ok")
           last == IF MyCall(c) THEN call[c] ELSE NoCall
<1>1. MyCall(c)' <=> MyCall(c)
  BY DEF MyCall, Mine
<1>2. [k \in Mine(c) |-> Visible(k)]' = [k \in Mine(c) |-> Visible(k)]
  BY DEF Mine
<1>3. r \in [rc : {"ok", "absent", "error"}] \cup [rc : {"ok"}, data : Content]
  BY DEF Answers, Pending, Said
<1>4. Contract(c)!Truthful(r)
  <2>1. CASE r = Said("error")
    BY <2>1 DEF Contract!Truthful, Said
  <2>2. CASE ~MyCall(c) /\ r = Said("ok")
    BY <2>2 DEF Contract!Truthful, NoCall, Said
  <2>3. CASE MyCall(c) /\ reply'[c] # Said("error")
    <3>1. call[c].key \in Mine(c) /\ r = reply'[c]
      BY <2>3 DEF MyCall
    <3>2. [k \in Mine(c) |-> Visible(k)][call[c].key] = Visible(call[c].key)
      BY <3>1
    <3> QED  BY <2>3, <3>1, <3>2 DEF Contract!Truthful, Said
  <2> QED  BY <2>1, <2>2, <2>3
<1>5. Contract(c)!Reply
  BY <1>1, <1>2, <1>3, <1>4 DEF Contract!Reply, Contract!Pending, Pending, Said
<1> QED  BY <1>5 DEF Contract!KeyStoreNext

\* The moment a put or a remove takes effect.
LEMMA SeesEffect ==
    ASSUME NEW c \in Client, call'[c] = call[c], reply'[c] = reply[c], MyCall(c),
           \/ call[c].op = "put" /\ Visible(call[c].key)' = call[c].data
           \/ call[c].op = "remove" /\ Visible(call[c].key)' = Absent,
           \A k \in Mine(c) \ {call[c].key} : Visible(k)' = Visible(k)
    PROVE  Contract(c)!KeyStoreNext
<1>1. MyCall(c)' /\ call[c].key \in Mine(c)
  BY DEF MyCall, Mine
<1>2. Contract(c)!TakeEffect
  <2>1. CASE call[c].op = "put" /\ Visible(call[c].key)' = call[c].data
    <3>1. [k \in Mine(c) |-> Visible(k)]' =
             [[k \in Mine(c) |-> Visible(k)] EXCEPT ![call[c].key] = call[c].data]
      BY <1>1, <2>1 DEF Mine
    <3> QED  BY <1>1, <2>1, <3>1 DEF Contract!TakeEffect
  <2>2. CASE call[c].op = "remove" /\ Visible(call[c].key)' = Absent
    <3>1. [k \in Mine(c) |-> Visible(k)]' =
             [[k \in Mine(c) |-> Visible(k)] EXCEPT ![call[c].key] = Absent]
      BY <1>1, <2>2 DEF Mine
    <3> QED  BY <1>1, <2>2, <3>1 DEF Contract!TakeEffect
  <2> QED  BY <2>1, <2>2
<1> QED  BY <1>2 DEF Contract!KeyStoreNext

Simulates(c) == Contract(c)!KeyStoreNext \/ UNCHANGED Contract(c)!keyStoreVars

LEMMA Others ==
    ASSUME NEW c \in Client, Undisturbed(c)
    PROVE  Simulates(c)
<1>1. \A k \in Mine(c) : Visible(k)' = Visible(k)
  BY DEF Undisturbed, Visible, FileAt
<1> QED  BY <1>1, SeesNothing DEF Undisturbed, Simulates

\* Nothing but rename() and remove() shows at a key.
LEMMA KeysKept ==
    ASSUME IInv, NEW c \in Client, PutStep(c) \/ LookStep(c), ~Rename(c), ~Unlink(c)
    PROVE  \A k \in Key : Visible(k)' = Visible(k)
<1>1. Types /\ Files
  BY DEF IInv
<1>2. \A k \in Key : node'[k] = node[k]
  <2>1. CASE node' = node
    BY <2>1
  <2>2. CASE MakeTmp(c)
    BY <1>1, <2>2, PathFacts DEF MakeTmp, Files
  <2>3. ASSUME OpenStage(c) \/ Write(c) \/ ShortWrite(c) \/ Discard(c), node' # node
        PROVE  \A q \in Path : q # Stage(h[c].key) => node'[q] = node[q]
    <3>1. at[c] \in Putting
      BY <2>3 DEF OpenStage, Write, ShortWrite, Discard, At, Putting, Staging
    <3>2. at[c] = "write" => h[c].file \in {Stage(h[c].key), Gone}
      BY <3>1, UnderWay DEF PutState
    <3>3. CASE OpenStage(c)
      BY <1>1, <3>3 DEF OpenStage, Becomes, Files
    <3>4. CASE Write(c)
      <4> DEFINE y == [h[c] EXCEPT !.left = SubSeq(@, Len(Piece(c)) + 1, Len(@))]
      <4>1. Written(c, Piece(c), y) /\ y.file = h[c].file /\ at[c] = "write"
        BY <3>4 DEF Write, At
      <4> HIDE DEF y
      <4>2. node' = [node EXCEPT ![h[c].file] = node[h[c].file] \o Piece(c)]
            /\ h[c].file # Gone
        BY <2>3, <4>1 DEF Written, Becomes
      <4> QED  BY <1>1, <3>2, <4>1, <4>2 DEF Files
    <3>5. CASE ShortWrite(c)
      <4> DEFINE y == [h[c] EXCEPT !.failed = TRUE]
      <4>1. PICK n \in 0 .. Len(Piece(c)) - 1 : Written(c, SubSeq(Piece(c), 1, n), y)
        BY <3>5 DEF ShortWrite
      <4>2. y.file = h[c].file /\ h[c].file \in {Stage(h[c].key), Gone}
        BY <3>1, <3>2, <3>5, UnderWay DEF WriteHandle, ShortWrite, At
      <4> HIDE DEF y
      <4> QED  BY <1>1, <2>3, <4>1, <4>2 DEF Written, Becomes, Files
    <3>6. CASE Discard(c)
      BY <1>1, <2>3, <3>6 DEF Discard, Becomes, Files
    <3> QED  BY <2>3, <3>3, <3>4, <3>5, <3>6
  <2>4. ASSUME OpenStage(c) \/ Write(c) \/ ShortWrite(c) \/ Discard(c)
        PROVE  h[c].key \in Key
    <3>1. at[c] \in Putting
      BY <2>4 DEF OpenStage, Write, ShortWrite, Discard, At, Putting, Staging
    <3> QED  BY <3>1, UnderWay
  <2>5. CASE OpenStage(c) \/ Write(c) \/ ShortWrite(c) \/ Discard(c)
    BY <2>3, <2>4, <2>5, PathFacts
  <2>6. CASE MakeParents(c)
    <3>1. at[c] = "parents" /\ "parents" \in Putting
      BY <2>6 DEF MakeParents, At, Putting, Staging
    <3>2. Parents(h[c].key) \subseteq Container
      BY <3>1, UnderWay, PathFacts
    <3> QED  BY <2>6, <3>2, PathFacts DEF MakeParents
  <2>7. CASE Mkcol(c)
    <3>1. at[c] = "mkcol" /\ "mkcol" \notin Staging
      BY <2>7 DEF Mkcol, At, Staging
    <3>2. \A k \in Key : node[k] # Nothing => node'[k] = node[k]
      BY <2>7, PathFacts DEF Mkcol
    <3>3. \A k \in Key : node'[k] \in {node[k], Dir}
      BY <2>7, PathFacts DEF Mkcol
    <3>4. Good(c)
      BY <2>7, MkcolGood
    <3>5. \A k \in Key : node'[k] # Dir
      BY <3>4, ContentAssumption, ValueAssumption DEF Good, Files
    <3> QED  BY <3>2, <3>3, <3>5
  <2> QED  BY <2>1, <2>2, <2>5, <2>6, <2>7 DEF PutStep, LookStep, NotStaged, Close, Return, CloseFails,
              OpenToRead, Read, Stat, Listing, CallFails
<1> QED  BY <1>2 DEF Visible, FileAt

LEMMA CallerSim ==
    ASSUME IInv, NEW c \in Client, Caller(c)
    PROVE  Simulates(c)
<1>1. Types /\ Files /\ ClientInv(c)
  BY DEF IInv
<1>2. PICK q, s : Ask(c, q, s)
  <2>1. \E q, s : Ask(c, q, s)
    BY DEF Caller, Put, PutBegin, PutAppend, PutFinish, PutAbort, Look, RemoveKey, Around
  <2> QED  BY <2>1
<1>3. call'[c] = q /\ reply'[c] = Pending /\ node' = node
  BY <1>1, <1>2 DEF Ask, Types
<1>4. reply[c] # Pending
  <2>1. at[c] \in {"idle", "held"}
    BY DEF Caller, Put, PutBegin, PutAppend, PutFinish, PutAbort, Look, RemoveKey, Around, At
  <2> QED  BY <1>1, <2>1 DEF ClientInv, ReplyState
<1>5. \A k \in Mine(c) : Visible(k)' = Visible(k)
  BY <1>3 DEF Visible, FileAt
<1> DEFINE Kind(r) ==
        \/ r.op \notin {"put", "get", "exists", "remove"}
        \/ r \in [op : {"get", "exists"}, key : Key]
        \/ r \in [op : {"put"}, key : Mine(c), data : Content]
        \/ \E k \in Mine(c) : r = [op |-> "remove", key |-> k, was |-> Visible(k)]
        \/ \E k \in Key : r = [op |-> "remove", key |-> Stage(k), was |-> Absent]
<1>6. Kind(q)
  <2>1. CASE Put(c) \/ PutBegin(c)
    <3>1. CASE Put(c)
      <4>1. PICK k \in Mine(c), d \in Content : Ask(c, [op |-> "put", key |-> k, data |-> d], "mktmp")
        BY <3>1 DEF Put, Mine
      <4> QED  BY <1>1, <1>3, <4>1 DEF Ask, Types
    <3>2. CASE PutBegin(c)
      <4>1. Ask(c, NoCall, "mktmp")
        BY <3>2 DEF PutBegin
      <4> QED  BY <1>1, <1>3, <4>1 DEF Ask, Types, NoCall
    <3> QED  BY <2>1, <3>1, <3>2
  <2>2. CASE PutAppend(c) \/ PutAbort(c)
    <3>1. \E r, t : Ask(c, r, t) /\ Kind(r)
      BY <2>2 DEF PutAppend, PutAbort, NoCall
    <3> QED  BY <1>1, <1>3, <3>1 DEF Ask, Types
  <2>3. CASE PutFinish(c)
    <3>1. h[c].key \in Mine(c) /\ h[c].want \in Content
      BY <2>3, UnderWay DEF PutFinish, At, Putting, Staging, WriteHandle
    <3>2. \E r, t : Ask(c, r, t) /\ Kind(r)
      BY <2>3, <3>1 DEF PutFinish
    <3> QED  BY <1>1, <1>3, <3>2 DEF Ask, Types
  <2>4. CASE Look(c)
    <3>1. \E r, t : Ask(c, r, t) /\ Kind(r)
      BY <2>4 DEF Look
    <3> QED  BY <1>1, <1>3, <3>1 DEF Ask, Types
  <2>5. CASE RemoveKey(c)
    <3>1. \E r, t : Ask(c, r, t) /\ Kind(r)
      BY <2>5, FoundIsStage DEF RemoveKey, Visible, Mine
    <3> QED  BY <1>1, <1>3, <3>1 DEF Ask, Types
  <2>6. CASE Around(c)
    <3>1. \E r, t : Ask(c, r, t) /\ Kind(r)
      BY <2>6 DEF Around
    <3> QED  BY <1>1, <1>3, <3>1 DEF Ask, Types
  <2> QED  BY <2>1, <2>2, <2>3, <2>4, <2>5, <2>6 DEF Caller
<1>7. \A k \in Mine(c) : Visible(k) \in Content \cup {Absent} /\ k \in Key
  BY <1>1, VisibleIs DEF Mine
<1>8. \/ ~MyCall(c)'
      \/ /\ MyCall(c)' /\ call'[c] \in Contract(c)!Calls
         /\ call'[c].op = "remove" => call'[c].was = Visible(call'[c].key)
  <2>1. MyCall(c)' <=> q.op \in {"put", "get", "exists", "remove"} /\ q.key \in Mine(c)
    BY <1>3 DEF MyCall, Mine
  <2>2. CASE q.op \notin {"put", "get", "exists", "remove"}
    BY <2>1, <2>2
  <2>3. CASE q \in [op : {"get", "exists"}, key : Key]
    BY <1>3, <2>1, <2>3 DEF Contract!Calls
  <2>4. CASE q \in [op : {"put"}, key : Mine(c), data : Content]
    BY <1>3, <2>1, <2>4 DEF Contract!Calls
  <2>5. CASE \E k \in Mine(c) : q = [op |-> "remove", key |-> k, was |-> Visible(k)]
    <3>1. PICK k \in Mine(c) : q = [op |-> "remove", key |-> k, was |-> Visible(k)]
      BY <2>5
    <3> QED  BY <1>3, <1>7, <2>1, <3>1 DEF Contract!Calls
  <2>6. CASE \E k \in Key : q = [op |-> "remove", key |-> Stage(k), was |-> Absent]
    <3>1. PICK k \in Key : q = [op |-> "remove", key |-> Stage(k), was |-> Absent]
      BY <2>6
    <3> QED  BY <2>1, <3>1, PathFacts DEF Mine
  <2> QED  BY <1>6, <2>2, <2>3, <2>4, <2>5, <2>6
<1> QED  BY <1>3, <1>4, <1>5, <1>8, SeesAsking DEF Simulates

LEMMA Waiting ==
    ASSUME IInv, NEW c \in Client, at[c] \notin {"idle", "held"}
    PROVE  reply[c] = Pending
BY DEF IInv, ClientInv, ReplyState

\* Nothing is said yet.
LEMMA SilentSim ==
    ASSUME IInv, NEW c \in Client, PutStep(c) \/ LookStep(c), ~Rename(c), ~Unlink(c),
           call' = call, reply' = reply
    PROVE  Simulates(c)
<1>1. \A k \in Mine(c) : Visible(k)' = Visible(k)
  BY KeysKept DEF Mine
<1> QED  BY <1>1, SeesNothing DEF Simulates

\* An error, and the answers to calls that are not about one key.
LEMMA PlainSim ==
    ASSUME IInv, NEW c \in Client, at[c] \notin {"idle", "held"}, call'[c] = call[c],
           \A k \in Mine(c) : Visible(k)' = Visible(k),
           reply'[c] = Said("error") \/ (reply'[c] = Said("ok") /\ ~MyCall(c))
    PROVE  Simulates(c)
<1>1. Files /\ reply[c] = Pending
  BY Waiting DEF IInv
<1>2. reply'[c] \in Answers /\ reply'[c] # Pending
  BY DEF Answers, Said, Pending
<1> QED  BY <1>1, <1>2, SeesAnswer DEF Simulates

LEMMA PutStepSim ==
    ASSUME IInv, NEW c \in Client, PutStep(c), ~Rename(c), ~Return(c)
    PROVE  Simulates(c)
<1>1. Types /\ ~Unlink(c) /\ at[c] \notin {"idle", "held"} /\ at[c] \in Putting
  BY DEF IInv, PutStep, MakeTmp, OpenStage, NotStaged, Write, ShortWrite, Close, MakeParents, Rename, Return,
     CloseFails, Discard, Unlink, At, Putting, Staging
<1>2. \A k \in Mine(c) : Visible(k)' = Visible(k)
  BY <1>1, KeysKept DEF Mine
<1>3. CASE call' = call /\ reply' = reply
  BY <1>1, <1>3, SilentSim
<1>4. CallState(c)
  BY DEF IInv, ClientInv
<1>5. CASE NotStaged(c) \/ Discard(c)
  <2>1. /\ call'[c] = call[c]
        /\ reply'[c] = Said("error") \/ (reply'[c] = Said("ok") /\ at[c] = "abort")
    BY <1>1, <1>5 DEF NotStaged, Discard, Answer, At, Types
  <2>2. at[c] = "abort" => ~MyCall(c)
    BY <1>4 DEF CallState, MyCall, NoCall
  <2> QED  BY <1>1, <1>2, <2>1, <2>2, PlainSim
<1>6. CASE OpenStage(c) \/ Write(c) \/ ShortWrite(c)
  <2>1. \/ call' = call /\ reply' = reply
        \/ /\ h[c].streamed /\ call'[c] = call[c]
           /\ reply'[c] = Said("ok") \/ reply'[c] = Said("error")
    BY <1>1, <1>6 DEF OpenStage, Write, ShortWrite, Answer, Types
  <2>2. h[c].streamed => ~MyCall(c)
    BY <1>4, <1>6 DEF CallState, MyCall, NoCall, OpenStage, Write, ShortWrite, At
  <2> QED  BY <1>1, <1>2, <1>3, <2>1, <2>2, PlainSim
<1> QED  BY <1>3, <1>5, <1>6 DEF PutStep, MakeTmp, Close, MakeParents, CloseFails

LEMMA ReturnSim ==
    ASSUME IInv, NEW c \in Client, Return(c)
    PROVE  Simulates(c)
<1>1. Types /\ Files /\ at[c] = "return" /\ node' = node /\ CallState(c) /\ reply[c] = Pending
  BY Waiting DEF IInv, ClientInv, Return, At
<1>2. call'[c] = call[c] /\ reply'[c] = Said("ok") /\ reply'[c] \in Answers /\ reply'[c] # Pending
      /\ reply'[c] # Said("error")
  BY <1>1 DEF Return, Answer, Types, Answers, Said, Pending
<1>3. \A k \in Mine(c) : Visible(k)' = Visible(k)
  BY <1>1 DEF Visible, FileAt
<1>4. CASE SweepCall(c)
  <2>1. ~MyCall(c)
    BY <1>4, PathFacts DEF SweepCall, MyCall, Mine
  <2> QED  BY <1>1, <1>2, <1>3, <2>1, PlainSim
<1>5. CASE HasPut(c)
  <2>1. PICK k \in Mine(c) : node[k] # Nothing /\ call[c] = [op |-> "put", key |-> k, data |-> node[k]]
    BY <1>5 DEF HasPut
  <2>2. k \in Key
    BY DEF Mine
  <2>3. Visible(k) = node[k]
    BY <1>1, <2>1, <2>2, VisibleIs
  <2>4. call[c].op = "put" /\ Visible(call[c].key) = call[c].data
    BY <2>1, <2>3
  <2> QED  BY <1>1, <1>2, <1>3, <2>4, SeesAnswer DEF Simulates
<1>6. CASE HasRemoved(c)
  <2>1. PICK k \in Mine(c), d \in Content :
            node[k] = Nothing /\ call[c] = [op |-> "remove", key |-> k, was |-> d]
    BY <1>6 DEF HasRemoved
  <2>2. k \in Key
    BY DEF Mine
  <2>3. Visible(k) = Absent /\ d # Absent
    BY <1>1, <2>1, <2>2, VisibleIs, ContentAssumption
  <2>4. call[c].op = "remove" /\ Visible(call[c].key) = Absent /\ call[c].was # Absent
    BY <2>1, <2>3
  <2> QED  BY <1>1, <1>2, <1>3, <2>4, SeesAnswer DEF Simulates
<1> QED  BY <1>1, <1>4, <1>5, <1>6 DEF CallState

LEMMA RenameSim ==
    ASSUME IInv, NEW c \in Client, Rename(c)
    PROVE  Simulates(c)
<1>1. at[c] = "rename" /\ at[c] \in Putting
  BY DEF Rename, At, Putting, Staging
<1>2. Files /\ CallState(c) /\ h[c].key \in Key /\ h[c].key \in Mine(c) /\ h[c] \in WriteHandle
  BY <1>1, UnderWay
<1>3. call[c] = [op |-> "put", key |-> h[c].key, data |-> h[c].want]
  BY <1>1, <1>2 DEF CallState, PutCall
<1>4. PICK q \in Mine(c), d \in Content : q = h[c].key /\ d = h[c].want
  BY <1>2 DEF WriteHandle
<1>5. node'[q] = d /\ \A k \in Key : k # q => node'[k] = node[k]
  BY <1>4, RenameGood
<1>6. Visible(q)' = d
  BY <1>5, ContentAssumption, ValueAssumption DEF Visible, FileAt
<1>7. \A k \in Mine(c) \ {q} : Visible(k)' = Visible(k)
  BY <1>5 DEF Visible, FileAt, Mine
<1>8. call'[c] = call[c] /\ reply'[c] = reply[c]
  BY DEF Rename
<1>9. MyCall(c) /\ call[c].op = "put" /\ call[c].key = q /\ call[c].data = d /\ call'[c].key = q
  BY <1>2, <1>3, <1>4, <1>8 DEF MyCall
<1> QED  BY <1>6, <1>7, <1>8, <1>9, SeesEffect DEF Simulates

LEMMA UnlinkSim ==
    ASSUME IInv, NEW c \in Client, Unlink(c)
    PROVE  Simulates(c)
<1> DEFINE p == call[c].key
<1>1. Types /\ Files /\ CallState(c) /\ at[c] = "remove" /\ reply[c] = Pending
  BY Waiting DEF IInv, ClientInv, Unlink, At
<1>2. node' = [node EXCEPT ![p] = Nothing] /\ call'[c] = call[c]
      /\ IF node[p] = Nothing THEN reply'[c] = Said("absent") ELSE reply'[c] = reply[c]
  BY <1>1 DEF Unlink, Becomes, Answer, Types
<1>3. \A k \in Key : k # p => Visible(k)' = Visible(k)
  BY <1>1, <1>2, PathFacts DEF Visible, FileAt, Files
<1>4. CASE SweepCall(c)
  <2>1. ~MyCall(c) /\ p \notin Key
    BY <1>4, PathFacts DEF SweepCall, MyCall, Mine
  <2>2. \A k \in Mine(c) : Visible(k)' = Visible(k)
    BY <1>3, <2>1 DEF Mine
  <2>3. CASE node[p] = Nothing
    <3>1. reply'[c] = Said("absent") /\ reply'[c] \in Answers /\ reply'[c] # Pending
      BY <1>2, <2>3 DEF Answers, Said, Pending
    <3> QED  BY <1>1, <1>2, <2>1, <2>2, <3>1, SeesAnswer DEF Simulates
  <2>4. CASE node[p] # Nothing
    BY <1>2, <2>2, <2>4, SeesNothing DEF Simulates
  <2> QED  BY <2>3, <2>4
<1>5. CASE RemoveCall(c)
  <2>1. PICK k \in Mine(c) : call[c] = [op |-> "remove", key |-> k, was |-> Visible(k)]
    BY <1>5 DEF RemoveCall
  <2>2. k \in Key /\ k \in Path /\ p = k /\ MyCall(c)
    BY <2>1, PathFacts DEF MyCall, Mine
  <2>3. Visible(k)' = Absent
    BY <1>1, <1>2, <2>2 DEF Visible, FileAt, Files
  <2>4. \A l \in Mine(c) \ {k} : Visible(l)' = Visible(l)
    BY <1>3, <2>2 DEF Mine
  <2>5. CASE node[p] = Nothing
    <3>1. Visible(k) = Absent
      BY <1>1, <2>2, <2>5, VisibleIs
    <3>2. \A l \in Mine(c) : Visible(l)' = Visible(l)
      BY <2>3, <2>4, <3>1
    <3>3. reply'[c] = Said("absent") /\ reply'[c] \in Answers /\ reply'[c] # Pending
      BY <1>2, <2>5 DEF Answers, Said, Pending
    <3>4. call[c].op = "remove" /\ Visible(call[c].key) = Absent
      BY <2>1, <3>1
    <3> QED  BY <1>1, <1>2, <3>2, <3>3, <3>4, SeesAnswer DEF Simulates
  <2>6. CASE node[p] # Nothing
    <3>1. call[c].op = "remove" /\ call[c].key = k /\ call'[c].key = k /\ reply'[c] = reply[c]
      BY <1>2, <2>1, <2>6
    <3> QED  BY <1>2, <2>2, <2>3, <2>4, <3>1, SeesEffect DEF Simulates
  <2> QED  BY <2>5, <2>6
<1> QED  BY <1>1, <1>4, <1>5 DEF CallState

\* get and exists; only a stat() that fails for what is there could lie.
LEMMA ReadSim ==
    ASSUME StatHonest, IInv, NEW c \in Client, OpenToRead(c) \/ Read(c) \/ Stat(c)
    PROVE  Simulates(c)
<1>1. Types /\ Files /\ ClientInv(c) /\ at[c] \in {"get", "read", "exists"} /\ node' = node
      /\ reply[c] = Pending
  BY Waiting DEF IInv, OpenToRead, Read, Stat, At
<1>2. call[c].key \in Key /\ call[c].op = (IF at[c] = "exists" THEN "exists" ELSE "get")
      /\ (MyCall(c) <=> call[c].key \in Mine(c))
  BY <1>1 DEF ClientInv, CallState, MyCall
<1>3. \A k \in Mine(c) : Visible(k)' = Visible(k)
  BY <1>1 DEF Visible, FileAt
<1> DEFINE k == call[c].key
<1>4. /\ node[k] = Nothing => Visible(k) = Absent
      /\ node[k] # Nothing => Visible(k) = node[k] /\ Visible(k) # Absent /\ FileAt(k)
  BY <1>1, <1>2, VisibleIs, ContentAssumption, ValueAssumption DEF FileAt
<1>5. call'[c] = call[c]
  BY DEF OpenToRead, Read, Stat, Answer
<1>6. CASE reply' = reply
  BY <1>3, <1>5, <1>6, SeesNothing DEF Simulates
<1>7. CASE OpenToRead(c) /\ ~FileAt(k)
  <2>1. reply'[c] = Said("absent") /\ reply'[c] \in Answers /\ reply'[c] # Pending /\ at[c] = "get"
    BY <1>1, <1>7 DEF OpenToRead, Answer, At, Types, Answers, Said, Pending
  <2>2. call[c].op \in {"get", "exists", "remove"} /\ Visible(call[c].key) = Absent
    BY <1>2, <1>4, <1>7, <2>1
  <2> QED  BY <1>1, <1>3, <1>5, <2>1, <2>2, SeesAnswer DEF Simulates
<1>8. CASE Read(c)
  <2>1. reply'[c] = [rc |-> "ok", data |-> Bytes(h[c])] /\ at[c] = "read"
    BY <1>1, <1>8 DEF Read, Answer, At, Types
  <2>2. ReadState(c) /\ h[c] \in ReadHandle
    BY <1>1, <2>1 DEF ClientInv, Holds, Putting, Staging
  <2>3. Bytes(h[c]) \in Content
    BY <2>2 DEF ReadState, Bytes, ReadHandle
  <2>4. reply'[c] \in Answers /\ reply'[c] # Pending
    BY <2>1, <2>3 DEF Answers, Pending, Said
  <2>5. MyCall(c) => Visible(k) = Bytes(h[c]) /\ Visible(k) # Absent
    <3>1. ASSUME MyCall(c)  PROVE h[c].file = k /\ k # Gone /\ node[k] \in Content
      BY <1>2, <2>2, <3>1, PathFacts DEF ReadState
    <3> QED  BY <1>4, <3>1, ContentAssumption, ValueAssumption DEF Bytes
  <2>6. MyCall(c) => call[c].op = "get" /\ Visible(call[c].key) # Absent
                     /\ reply'[c] = [rc |-> "ok", data |-> Visible(call[c].key)]
    BY <1>2, <2>1, <2>5
  <2> QED  BY <1>1, <1>3, <1>5, <2>4, <2>6, SeesAnswer DEF Simulates
<1>9. CASE Stat(c)
  <2>1. /\ at[c] = "exists"
        /\ \/ node[k] # Nothing /\ reply'[c] = Said("ok")
           \/ node[k] = Nothing /\ reply'[c] = Said("absent")
    BY <1>1, <1>9 DEF Stat, Answer, At, Types
  <2>2. reply'[c] \in Answers /\ reply'[c] # Pending
    BY <2>1 DEF Answers, Pending, Said
  <2>3. call[c].op = "exists"
    BY <1>2, <2>1
  <2>4. \/ Visible(call[c].key) # Absent /\ reply'[c] = Said("ok")
        \/ Visible(call[c].key) = Absent /\ reply'[c] = Said("absent")
    BY <1>4, <2>1
  <2> QED  BY <1>1, <1>3, <1>5, <2>2, <2>3, <2>4, SeesAnswer DEF Simulates
<1> QED  BY <1>6, <1>7, <1>8, <1>9 DEF OpenToRead

LEMMA AroundSim ==
    ASSUME IInv, NEW c \in Client, Listing(c) \/ Mkcol(c) \/ CallFails(c)
    PROVE  Simulates(c)
<1>1. Types /\ CallState(c) /\ at[c] \in {"get", "read", "exists", "remove", "list", "mkcol"}
  BY DEF IInv, ClientInv, Listing, Mkcol, CallFails, At
<1>2. \A k \in Mine(c) : Visible(k)' = Visible(k)
  <2>1. (~Rename(c) /\ ~Unlink(c)) \/ node' = node
    BY DEF Listing, Mkcol, CallFails, Rename, Unlink, At
  <2> QED  BY <2>1, KeysKept DEF LookStep, Mine, Visible, FileAt
<1>3. call'[c] = call[c]
      /\ (reply'[c] = Said("error") \/ (reply'[c] = Said("ok") /\ at[c] \in {"list", "mkcol"}))
  BY <1>1 DEF Listing, Mkcol, CallFails, Answer, At, Types
<1>4. at[c] \in {"list", "mkcol"} => ~MyCall(c)
  BY <1>1 DEF CallState, MyCall
<1> QED  BY <1>1, <1>2, <1>3, <1>4, PlainSim

LEMMA CrashSim ==
    ASSUME IInv, NEW c \in Client, Crash(c)
    PROVE  Simulates(c)
<1>1. Types /\ Files /\ ReplyState(c) /\ node' = node /\ at[c] # "idle" /\ call'[c] = call[c]
  BY DEF IInv, ClientInv, Crash, At, Answer
<1>2. \A k \in Mine(c) : Visible(k)' = Visible(k)
  BY <1>1 DEF Visible, FileAt
<1>3. CASE reply[c] = Pending
  <2>1. reply'[c] = Said("error") /\ at[c] \notin {"idle", "held"}
    BY <1>1, <1>3 DEF Crash, Answer, Types, ReplyState
  <2> QED  BY <1>1, <1>2, <2>1, PlainSim
<1>4. CASE reply[c] # Pending
  BY <1>1, <1>2, <1>4, SeesNothing DEF Simulates, Crash
<1> QED  BY <1>3, <1>4

\* backend.h: to the process that owns a key the directory is a map with
\* atomic calls, whatever the others do, as long as stat() fails only for what
\* is not there.
THEOREM Implements ==
    ASSUME StatHonest
    PROVE  Spec => ImplementsKeyStore
<1>1. ASSUME Init  PROVE \A c \in Client : Contract(c)!KeyStoreInit
  <2>1. ASSUME NEW c \in Client  PROVE Contract(c)!KeyStoreInit
    <3>1. call[c] = NoCall /\ reply[c] = Said("ok") /\ \A k \in Mine(c) : Visible(k) = Absent
      BY <1>1, PathFacts DEF Init, Visible, FileAt, Mine
    <3> QED  BY <3>1 DEF Contract!KeyStoreInit, Contract!NoCall, MyCall, NoCall, Said, Pending
  <2> QED  BY <2>1
<1>2. ASSUME IInv, Next  PROVE \A d \in Client : Simulates(d)
  <2>1. PICK c \in Client : Caller(c) \/ PutStep(c) \/ LookStep(c) \/ Crash(c)
    BY <1>2 DEF Next
  <2>2. Simulates(c)
    BY <1>2, <2>1, CallerSim, PutStepSim, ReturnSim, RenameSim, UnlinkSim, ReadSim, AroundSim, CrashSim
    DEF LookStep
  <2>3. ASSUME NEW d \in Client \ {c}  PROVE Simulates(d)
    BY <1>2, <2>1, <2>3, StepGood, Others DEF Good
  <2> QED  BY <2>2, <2>3
<1>3. IInv /\ [Next]_vars => [\A c \in Client : Contract(c)!KeyStoreNext
                                               \/ UNCHANGED Contract(c)!keyStoreVars]_vars
  BY <1>2 DEF Simulates
<1> QED  BY <1>1, <1>3, Inductive, PTL DEF Spec, ImplementsKeyStore
=============================================================================
