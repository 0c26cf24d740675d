---------------------------- MODULE PartsProofs ----------------------------
(***************************************************************************)
(* The parts that stand alone, for every value of their constants:         *)
(* - the stored form: what is stored is read back or refused, whatever the *)
(*   contents and their sizes, compressed or not (StoredForm);             *)
(* - a run of the program: what it opened is closed in order (Process);    *)
(* - the random numbers and the console (Entropy);                         *)
(* - the list of snapshots (SnapshotList);                                 *)
(* - the walk over a source (Scan);                                        *)
(* - the patterns of the exclude list (Exclude);                           *)
(* - the sidecars, and the walk that applies them (Uaem).                  *)
(* The modules share no variable.                                          *)
(***************************************************************************)
EXTENDS StoredForm, Process, Entropy, SnapshotList, Scan, Uaem,
        FiniteSetTheorems, WellFoundedInduction, TLAPS

-----------------------------------------------------------------------------
(* The stored form: the invariant.                                         *)

\* A file at the destination is a nonce, a text and a MAC, whatever happened
\* to it.
Shaped(f) == DOMAIN f = {"nonce", "text", "mac"}

\* The MAC of a manifest was made for some snapshot, or is none.
MacOfManifest(f) ==
    \/ \E j \in Nat : f.mac = <<ManifestNonce(j), ManifestText(j)>>
    \/ f.mac \in {<<"none">>, <<"altered">>}

\* As WriteObject left it.
AsWritten(f, x) ==
    \E alg \in Algs, n \in {ObjectNonce(x, TextOf(x, a)) : a \in Algs} :
        f = IF kind.cipher THEN Seal(n, TextOf(x, alg)) ELSE Plainly(TextOf(x, alg))

\* As Commit left it.
AsCommitted(f, i) ==
    f = IF kind.cipher THEN Seal(ManifestNonce(i), ManifestText(i)) ELSE Plainly(ManifestText(i))

SealedRight(p) ==
    \/ \E t : p = <<<<"object", t>>, t>>
    \/ \E j \in Nat : p = <<ManifestNonce(j), ManifestText(j)>>

\* Everything is as it was written.
Faithful ==
    /\ \A x \in Content : objects[x] # Missing => AsWritten(objects[x], x)
    /\ \A i \in Ids : snapshots[i] # Missing => AsCommitted(snapshots[i], i)

StoredInv ==
    /\ kind \in [cipher : BOOLEAN, framed : BOOLEAN]
    /\ DOMAIN objects = Content /\ DOMAIN snapshots = Ids
    /\ \A i \in Ids : snapshots[i] # Missing => Shaped(snapshots[i]) /\ MacOfManifest(snapshots[i])
    /\ ~decayed => Faithful
    /\ \A p \in sealed : SealedRight(p)
    /\ FetchedIsContent /\ ManifestIsItsOwn /\ IntactIsRead

-----------------------------------------------------------------------------
(* The stored form: reading.                                               *)

\* write_object() and fetch: a text that was written is decoded.
LEMMA WrittenIsRead ==
    ASSUME NEW x \in Content, NEW alg \in Algs, kind \in [cipher : BOOLEAN, framed : BOOLEAN]
    PROVE  Contents(TextOf(x, alg), x) = {Gives(x)}
<1>1. Size[x] \in Nat /\ Packed[x] \in [{"lz4", "zlib"} -> Nat] /\ x # Junk
  BY SizeAssumption
<1>2. CASE ~kind.framed
  BY <1>1, <1>2 DEF Contents, TextOf, Raw, Whole
<1>3. CASE kind.framed /\ Shrinks(alg, x)
  <2>1. alg \in {"lz4", "zlib"}
    BY <1>3 DEF Shrinks, Algs
  <2>2. TextOf(x, alg) = Frame(alg, x, Packed[x][alg])
    BY <1>3 DEF TextOf, FrameEncode
  <2>3. Unpacked(Frame(alg, x, Packed[x][alg]), Size[x]) = {Gives(x)}
    BY <1>1, <2>1 DEF Unpacked, Frame, Whole
  <2>4. FrameDecode(Frame(alg, x, Packed[x][alg]), Size[x]) = {Gives(x)}
    <3> DEFINE t == Frame(alg, x, Packed[x][alg])
    <3>1. t.alg = alg /\ t.usize = Size[x]
      BY DEF Frame
    <3>2. Unpacked(t, Size[x]) = {Gives(x)}
      BY <2>3
    <3> HIDE DEF t
    <3>3. t.alg # "cut" /\ t.usize = Size[x] /\ t.alg # "stored" /\ t.alg \in {"lz4", "zlib"}
      BY <2>1, <3>1
    <3>4. FrameDecode(t, Size[x]) = Unpacked(t, Size[x])
      BY <3>3, Zenon DEF FrameDecode
    <3> QED  BY <3>2, <3>4 DEF t
  <2>5. Frame(alg, x, Packed[x][alg]).alg # "none"
    BY <2>1 DEF Frame
  <2>6. Contents(Frame(alg, x, Packed[x][alg]), x) = FrameDecode(Frame(alg, x, Packed[x][alg]), Size[x])
    BY <1>3, <2>5, Zenon DEF Contents
  <2> QED  BY <2>2, <2>4, <2>6
<1>4. CASE kind.framed /\ ~Shrinks(alg, x)
  <2>1. TextOf(x, alg) = Frame("stored", x, Size[x])
    BY <1>4 DEF TextOf, FrameEncode
  <2>2. FrameDecode(Frame("stored", x, Size[x]), Size[x]) = {Gives(x)}
    <3> DEFINE t == Frame("stored", x, Size[x])
    <3>1. /\ t.alg = "stored" /\ t.by = "stored" /\ t.usize = Size[x] /\ t.len = Size[x]
          /\ t.of = x
      BY DEF Frame
    <3>2. Whole(t)
      BY <1>1, <3>1 DEF Whole
    <3> HIDE DEF t
    <3>3. t.alg # "cut" /\ t.usize = Size[x] /\ t.alg = "stored" /\ t.alg \notin {"lz4", "zlib"}
      BY <3>1
    <3>4. FrameDecode(t, Size[x]) =
            IF t.len # Size[x] THEN {Refused("malformed")}
            ELSE {Gives(IF t.by = "stored" /\ Whole(t) THEN t.of ELSE Junk)}
      BY <3>3, Zenon DEF FrameDecode
    <3>5. FrameDecode(t, Size[x]) = {Gives(x)}
      BY <3>1, <3>2, <3>4
    <3> QED  BY <3>5 DEF t
  <2>3. Frame("stored", x, Size[x]).alg # "none"
    BY DEF Frame
  <2>4. Contents(Frame("stored", x, Size[x]), x) = FrameDecode(Frame("stored", x, Size[x]), Size[x])
    BY <1>4, <2>3, Zenon DEF Contents
  <2> QED  BY <2>1, <2>2, <2>4
<1> QED  BY <1>2, <1>3, <1>4

\* Its length is one that amisnap_repo_fetch_object() accepts.
LEMMA WrittenHasGoodLength ==
    ASSUME NEW x \in Content, NEW alg \in Algs, kind.cipher, NEW n, n # <<"none">>
    PROVE  GoodLength(Seal(n, TextOf(x, alg)), x)
<1>1. Size[x] \in Nat /\ Packed[x] \in [{"lz4", "zlib"} -> Nat]
  BY SizeAssumption
<1>2. FrameLength(Seal(n, TextOf(x, alg))) = Length(TextOf(x, alg)) + 2
  BY DEF FrameLength, Seal, Overhead
<1>3. CASE ~kind.framed
  <2>1. Length(TextOf(x, alg)) = Size[x]
    BY <1>1, <1>3 DEF TextOf, Raw, Length
  <2> QED  BY <1>1, <1>2, <1>3, <2>1 DEF GoodLength, Overhead
<1>4. CASE kind.framed
  <2>1. \E l \in 0 .. Size[x] : Length(TextOf(x, alg)) = l + 1
    <3>1. CASE Shrinks(alg, x)
      <4>1. alg \in {"lz4", "zlib"} /\ Packed[x][alg] \in 0 .. Size[x]
        BY <1>1, <3>1 DEF Shrinks, Algs
      <4>2. Length(Frame(alg, x, Packed[x][alg])) = Packed[x][alg] + 1
        BY <1>1, <4>1 DEF Frame, Length, HeaderSize
      <4> QED  BY <1>4, <3>1, <4>1, <4>2 DEF TextOf, FrameEncode
    <3>2. CASE ~Shrinks(alg, x)
      <4>1. Length(Frame("stored", x, Size[x])) = Size[x] + 1
        BY <1>1 DEF Frame, Length, HeaderSize
      <4> QED  BY <1>1, <1>4, <3>2, <4>1 DEF TextOf, FrameEncode
    <3> QED  BY <3>1, <3>2
  <2> QED  BY <1>1, <1>2, <1>4, <2>1 DEF GoodLength, Overhead, HeaderSize
<1> QED  BY <1>3, <1>4

\* What was written and not damaged is fetched.
LEMMA IntactObjectIsRead ==
    ASSUME StoredInv, NEW x \in Content, NEW f, AsWritten(f, x)
    PROVE  Fetched(f, x) = {Gives(x)}
<1>1. PICK alg \in Algs, n \in {ObjectNonce(x, TextOf(x, a)) : a \in Algs} :
        f = IF kind.cipher THEN Seal(n, TextOf(x, alg)) ELSE Plainly(TextOf(x, alg))
  BY DEF AsWritten
<1>2. f.text = TextOf(x, alg)
  BY <1>1 DEF Seal, Plainly
<1>3. Contents(f.text, x) = {Gives(x)}
  BY <1>2, WrittenIsRead DEF StoredInv
<1>4. Hashed(Gives(x), x) = Gives(x)
  BY DEF Hashed, Gives
<1>5. {Hashed(r, x) : r \in Contents(f.text, x)} = {Gives(x)}
  BY <1>3, <1>4
<1>6. CASE kind.cipher
  <2>1. n # <<"none">>
    BY DEF ObjectNonce
  <2>2. GoodLength(f, x)
    BY <1>1, <1>6, <2>1, WrittenHasGoodLength
  <2>3. Opens(f)
    BY <1>1, <1>6 DEF Opens, Seal
  <2> QED  BY <1>5, <2>2, <2>3 DEF Fetched
<1> QED  BY <1>5, <1>6 DEF Fetched

\* Whatever is fetched as x and accepted is x.
LEMMA FetchedIsHashed ==
    ASSUME NEW f, NEW x, NEW r \in Fetched(f, x), r.rc = "ok"
    PROVE  r.got = x
<1>1. CASE r \in {Refused("malformed"), Refused("mismatch")}
  BY <1>1 DEF Refused
<1>2. CASE \E s \in Contents(f.text, x) : r = Hashed(s, x)
  BY <1>2 DEF Hashed, Refused
<1> QED  BY <1>1, <1>2 DEF Fetched

\* amisnap_repo_open_manifest(): with its own nonce and a MAC that agrees, a
\* manifest is that of its id.
LEMMA OpenedIsItsOwn ==
    ASSUME NEW f, MacOfManifest(f), NEW i \in Ids, kind.cipher, Opened(f, i).rc = "ok"
    PROVE  Opened(f, i).got = i
<1>1. f.nonce = ManifestNonce(i) /\ Opens(f) /\ Opened(f, i) = Gives(f.text.of)
  BY DEF Opened, Refused
<1>2. f.mac = <<ManifestNonce(i), f.text>>
  BY <1>1 DEF Opens
<1>3. PICK j \in Nat : f.mac = <<ManifestNonce(j), ManifestText(j)>>
  BY <1>2 DEF MacOfManifest
<1>4. f.text = ManifestText(i)
  BY <1>2, <1>3 DEF ManifestNonce
<1> QED  BY <1>1, <1>4 DEF ManifestText, Gives

\* A manifest as it was committed opens.
LEMMA IntactManifestIsRead ==
    ASSUME NEW f, NEW i \in Ids, AsCommitted(f, i)
    PROVE  Opened(f, i).rc = "ok"
<1>1. CASE kind.cipher
  BY <1>1 DEF AsCommitted, Opened, Seal, Opens, ManifestNonce, Gives
<1>2. CASE ~kind.cipher
  BY <1>2 DEF AsCommitted, Opened, Plainly, Gives
<1> QED  BY <1>1, <1>2

-----------------------------------------------------------------------------
(* The stored form: the invariant holds.                                   *)

\* A repository starts empty.
LEMMA InitStored == StoredInit => StoredInv
<1> SUFFICES ASSUME StoredInit  PROVE StoredInv
  OBVIOUS
<1>1. result.rc = "none" /\ sealed = {}
  BY DEF StoredInit, NoResult
<1> QED
  BY <1>1 DEF StoredInit, StoredInv, Faithful, FetchedIsContent, ManifestIsItsOwn, IntactIsRead

\* A call that is not a read has no result.
LEMMA NoResultIsRight ==
    ASSUME result' = NoResult
    PROVE  (FetchedIsContent /\ ManifestIsItsOwn /\ IntactIsRead)'
BY DEF NoResult, FetchedIsContent, ManifestIsItsOwn, IntactIsRead

\* Damage to a file leaves it a file, with a MAC it had or none.
LEMMA AlteredFacts ==
    ASSUME NEW f, Shaped(f), MacOfManifest(f), NEW g \in Altered(f)
    PROVE  Shaped(g) /\ MacOfManifest(g)
<1>1. CASE \E t : g = [f EXCEPT !.text = t]
  BY <1>1 DEF Shaped, MacOfManifest
<1>2. CASE g = [f EXCEPT !.mac = <<"altered">>]
  BY <1>2 DEF Shaped, MacOfManifest
<1>3. CASE g = [f EXCEPT !.nonce = <<"altered">>]
  BY <1>3 DEF Shaped, MacOfManifest
<1> QED  BY <1>1, <1>2, <1>3 DEF Altered

\* Every call, and a failure of storage, keeps the invariant.
LEMMA StoredStep ==
    ASSUME StoredInv, [StoredNext]_storedVars
    PROVE  StoredInv'
<1>1. UNCHANGED kind
  BY DEF StoredNext, WriteObject, PruneObject, FetchObject, Commit, PruneSnapshot, OpenManifest,
     StorageFails, storedVars
<1>2. /\ \A g, y : AsWritten(g, y)' = AsWritten(g, y)
      /\ \A g, y : AsCommitted(g, y)' = AsCommitted(g, y)
  BY <1>1 DEF AsWritten, TextOf, AsCommitted
<1>3. CASE WriteObject
  <2>1. PICK x \in Content, alg \in IF kind.framed THEN Algs ELSE {"stored"} :
          /\ objects[x] = Missing
          /\ \E t \in {TextOf(x, alg)} : \E n \in {ObjectNonce(x, t)} :
                /\ objects' = [objects EXCEPT ![x] = IF kind.cipher THEN Seal(n, t) ELSE Plainly(t)]
                /\ sealed' = IF kind.cipher THEN sealed \cup {<<n, t>>} ELSE sealed
    BY <1>3 DEF WriteObject
  <2>2. alg \in Algs
    BY DEF Algs
  <2> DEFINE t == TextOf(x, alg)
             f == IF kind.cipher THEN Seal(ObjectNonce(x, t), t) ELSE Plainly(t)
  <2>3. /\ objects' = [objects EXCEPT ![x] = f]
        /\ sealed' \subseteq sealed \cup {<<ObjectNonce(x, t), t>>}
        /\ result' = NoResult /\ UNCHANGED <<snapshots, decayed, clock>>
    BY <1>3, <2>1 DEF WriteObject
  <2>4. AsWritten(f, x)
    BY <2>2 DEF AsWritten
  <2>5. \A p \in sealed' : SealedRight(p)
    BY <2>3 DEF StoredInv, SealedRight, ObjectNonce
  <2>6. DOMAIN objects' = Content
    BY <2>3 DEF StoredInv
  <2> HIDE DEF f
  <2>7. ASSUME ~decayed  PROVE Faithful'
    <3>1. ASSUME NEW y \in Content, objects'[y] # Missing  PROVE AsWritten(objects'[y], y)
      BY <2>3, <2>4, <2>7, <3>1 DEF StoredInv, Faithful
    <3>2. ASSUME NEW i \in Ids, snapshots'[i] # Missing  PROVE AsCommitted(snapshots'[i], i)
      BY <2>3, <2>7, <3>2 DEF StoredInv, Faithful
    <3> QED  BY <1>2, <3>1, <3>2 DEF Faithful
  <2> QED  BY <1>1, <2>3, <2>5, <2>6, <2>7, NoResultIsRight DEF StoredInv
<1>4. CASE PruneObject
  <2>1. PICK x \in Content : objects' = [objects EXCEPT ![x] = Missing]
    BY <1>4 DEF PruneObject
  <2>2. result' = NoResult /\ UNCHANGED <<snapshots, decayed, clock, sealed>>
    BY <1>4 DEF PruneObject
  <2>3. ASSUME ~decayed  PROVE Faithful'
    <3>1. ASSUME NEW y \in Content, objects'[y] # Missing  PROVE AsWritten(objects'[y], y)
      BY <2>1, <2>3, <3>1 DEF StoredInv, Faithful
    <3>2. ASSUME NEW i \in Ids, snapshots'[i] # Missing  PROVE AsCommitted(snapshots'[i], i)
      BY <2>2, <2>3, <3>2 DEF StoredInv, Faithful
    <3> QED  BY <1>2, <3>1, <3>2 DEF Faithful
  <2>4. DOMAIN objects' = Content
    BY <2>1 DEF StoredInv
  <2> QED  BY <1>1, <2>2, <2>3, <2>4, NoResultIsRight DEF StoredInv
<1>5. CASE FetchObject
  <2>1. PICK x \in Content :
          /\ objects[x] # Missing
          /\ \E r \in Fetched(objects[x], x) : result' = [of |-> x, rc |-> r.rc, got |-> r.got]
    BY <1>5 DEF FetchObject
  <2> PICK r \in Fetched(objects[x], x) : result' = [of |-> x, rc |-> r.rc, got |-> r.got]
    BY <2>1
  <2>2. UNCHANGED <<objects, snapshots, decayed, clock, sealed>>
    BY <1>5 DEF FetchObject
  <2>3. result'.of = x /\ result'.rc = r.rc /\ result'.got = r.got /\ x \notin Ids
    BY <2>1, SizeAssumption
  <2>4. FetchedIsContent'
    BY <2>3, FetchedIsHashed DEF FetchedIsContent
  <2>5. ManifestIsItsOwn'
    BY <2>3 DEF ManifestIsItsOwn
  <2>6. IntactIsRead'
    <3>1. ASSUME ~decayed  PROVE r.rc = "ok"
      <4>1. AsWritten(objects[x], x)
        BY <2>1, <3>1 DEF StoredInv, Faithful
      <4> QED  BY <4>1, IntactObjectIsRead DEF Gives
    <3> QED  BY <2>2, <2>3, <3>1 DEF IntactIsRead
  <2>7. Faithful' = Faithful
    BY <1>2, <2>2 DEF Faithful
  <2> QED  BY <1>1, <2>2, <2>4, <2>5, <2>6, <2>7 DEF StoredInv
<1>6. CASE Commit
  <2> DEFINE n == ManifestNonce(clock)
             t == ManifestText(clock)
             f == IF kind.cipher THEN Seal(n, t) ELSE Plainly(t)
  <2>1. /\ clock \in Ids /\ snapshots' = [snapshots EXCEPT ![clock] = f]
        /\ sealed' \subseteq sealed \cup {<<n, t>>}
        /\ result' = NoResult /\ UNCHANGED <<objects, decayed>>
    BY <1>6 DEF Commit
  <2>2. clock \in Nat
    BY <2>1, SizeAssumption
  <2>3. Shaped(f) /\ MacOfManifest(f) /\ AsCommitted(f, clock)
    BY <2>2 DEF Shaped, MacOfManifest, AsCommitted, Seal, Plainly
  <2>4. \A p \in sealed' : SealedRight(p)
    BY <2>1, <2>2 DEF StoredInv, SealedRight
  <2> HIDE DEF f
  <2>5. DOMAIN snapshots' = Ids
    BY <2>1 DEF StoredInv
  <2>6. ASSUME NEW i \in Ids, snapshots'[i] # Missing
        PROVE  Shaped(snapshots'[i]) /\ MacOfManifest(snapshots'[i])
    BY <2>1, <2>3, <2>6 DEF StoredInv
  <2>7. ASSUME ~decayed  PROVE Faithful'
    <3>1. ASSUME NEW y \in Content, objects'[y] # Missing  PROVE AsWritten(objects'[y], y)
      BY <2>1, <2>7, <3>1 DEF StoredInv, Faithful
    <3>2. ASSUME NEW i \in Ids, snapshots'[i] # Missing  PROVE AsCommitted(snapshots'[i], i)
      BY <2>1, <2>3, <2>7, <3>2 DEF StoredInv, Faithful
    <3> QED  BY <1>2, <3>1, <3>2 DEF Faithful
  <2> QED  BY <1>1, <2>1, <2>4, <2>5, <2>6, <2>7, NoResultIsRight DEF StoredInv
<1>7. CASE PruneSnapshot
  <2>1. PICK j \in Ids : snapshots' = [snapshots EXCEPT ![j] = Missing]
    BY <1>7 DEF PruneSnapshot
  <2>2. result' = NoResult /\ UNCHANGED <<objects, decayed, clock, sealed>>
    BY <1>7 DEF PruneSnapshot
  <2>3. DOMAIN snapshots' = Ids
    BY <2>1 DEF StoredInv
  <2>4. ASSUME NEW i \in Ids, snapshots'[i] # Missing
        PROVE  Shaped(snapshots'[i]) /\ MacOfManifest(snapshots'[i])
    BY <2>1, <2>4 DEF StoredInv
  <2>5. ASSUME ~decayed  PROVE Faithful'
    <3>1. ASSUME NEW y \in Content, objects'[y] # Missing  PROVE AsWritten(objects'[y], y)
      BY <2>2, <2>5, <3>1 DEF StoredInv, Faithful
    <3>2. ASSUME NEW i \in Ids, snapshots'[i] # Missing  PROVE AsCommitted(snapshots'[i], i)
      BY <2>1, <2>5, <3>2 DEF StoredInv, Faithful
    <3> QED  BY <1>2, <3>1, <3>2 DEF Faithful
  <2> QED  BY <1>1, <2>2, <2>3, <2>4, <2>5, NoResultIsRight DEF StoredInv
<1>8. CASE OpenManifest
  <2>1. PICK i \in Ids : /\ snapshots[i] # Missing
                         /\ \E r \in {Opened(snapshots[i], i)} :
                               result' = [of |-> i, rc |-> r.rc, got |-> r.got]
    BY <1>8 DEF OpenManifest
  <2>2. UNCHANGED <<objects, snapshots, decayed, clock, sealed>>
    BY <1>8 DEF OpenManifest
  <2>3. /\ result'.of = i /\ i \notin Content
        /\ result'.rc = Opened(snapshots[i], i).rc /\ result'.got = Opened(snapshots[i], i).got
    BY <2>1, SizeAssumption
  <2>4. FetchedIsContent'
    BY <2>3 DEF FetchedIsContent
  <2>5. ManifestIsItsOwn'
    <3>1. MacOfManifest(snapshots[i])
      BY <2>1 DEF StoredInv
    <3> QED  BY <1>1, <2>3, <3>1, OpenedIsItsOwn DEF ManifestIsItsOwn
  <2>6. IntactIsRead'
    <3>1. ASSUME ~decayed  PROVE Opened(snapshots[i], i).rc = "ok"
      <4>1. AsCommitted(snapshots[i], i)
        BY <2>1, <3>1 DEF StoredInv, Faithful
      <4> QED  BY <4>1, IntactManifestIsRead
    <3> QED  BY <2>2, <2>3, <3>1 DEF IntactIsRead
  <2>7. Faithful' = Faithful
    BY <1>2, <2>2 DEF Faithful
  <2> QED  BY <1>1, <2>2, <2>4, <2>5, <2>6, <2>7 DEF StoredInv
<1>9. CASE StorageFails
  <2>1. decayed' = TRUE /\ result' = NoResult /\ UNCHANGED <<clock, sealed>>
    BY <1>9 DEF StorageFails
  <2>2. CASE /\ UNCHANGED snapshots
             /\ \E x, y \in Content :
                  objects' \in {[objects EXCEPT ![x] = g] : g \in Altered(objects[x])}
                                 \cup {[objects EXCEPT ![x] = objects[y]]}
    <3>1. DOMAIN objects' = Content
      BY <2>2 DEF StoredInv
    <3> QED  BY <1>1, <2>1, <2>2, <3>1, NoResultIsRight DEF StoredInv
  <2>3. CASE /\ UNCHANGED objects
             /\ \E i, j \in Ids :
                  /\ snapshots[i] # Missing /\ snapshots[j] # Missing
                  /\ snapshots' \in {[snapshots EXCEPT ![i] = g] : g \in Altered(snapshots[i])}
                                      \cup {[snapshots EXCEPT ![i] = snapshots[j]],
                                            [snapshots EXCEPT ![i] = Plainly(ManifestText(j))]}
    <3>1. PICK i, g : /\ i \in Ids /\ snapshots' = [snapshots EXCEPT ![i] = g]
                      /\ Shaped(g) /\ MacOfManifest(g)
      <4>1. PICK i \in Ids, j \in Ids :
                  /\ snapshots[i] # Missing /\ snapshots[j] # Missing
                  /\ snapshots' \in {[snapshots EXCEPT ![i] = g] : g \in Altered(snapshots[i])}
                                      \cup {[snapshots EXCEPT ![i] = snapshots[j]],
                                            [snapshots EXCEPT ![i] = Plainly(ManifestText(j))]}
        BY <2>3
      <4>2. /\ Shaped(snapshots[i]) /\ MacOfManifest(snapshots[i])
            /\ Shaped(snapshots[j]) /\ MacOfManifest(snapshots[j])
        BY <4>1 DEF StoredInv
      <4>3. Shaped(Plainly(ManifestText(j))) /\ MacOfManifest(Plainly(ManifestText(j)))
        BY DEF Shaped, MacOfManifest, Plainly
      <4>4. \A g \in Altered(snapshots[i]) : Shaped(g) /\ MacOfManifest(g)
        BY <4>2, AlteredFacts
      <4> QED  BY <4>1, <4>2, <4>3, <4>4
    <3>2. DOMAIN snapshots' = Ids
      BY <3>1 DEF StoredInv
    <3>3. ASSUME NEW m \in Ids, snapshots'[m] # Missing
          PROVE  Shaped(snapshots'[m]) /\ MacOfManifest(snapshots'[m])
      BY <3>1, <3>3 DEF StoredInv
    <3> QED  BY <1>1, <2>1, <2>3, <3>2, <3>3, NoResultIsRight DEF StoredInv
  <2> QED  BY <1>9, <2>2, <2>3 DEF StorageFails
<1>10. CASE UNCHANGED storedVars
  <2>1. Faithful' = Faithful
    BY <1>2, <1>10 DEF Faithful, storedVars
  <2> QED
    BY <1>1, <1>10, <2>1
    DEF storedVars, StoredInv, FetchedIsContent, ManifestIsItsOwn, IntactIsRead
<1> QED  BY <1>3, <1>4, <1>5, <1>6, <1>7, <1>8, <1>9, <1>10 DEF StoredNext

-----------------------------------------------------------------------------
(* The stored form: the theorem.                                           *)

\* The nonces of objects come from their texts, those of manifests from ids,
\* and neither looks like the other.
LEMMA NoncesDiffer ==
    ASSUME \A p \in sealed : SealedRight(p)
    PROVE  OneNonceOneText
BY DEF OneNonceOneText, SealedRight, ManifestNonce

\* amisnap_repo_fetch_object() and amisnap_repo_open_manifest() give what was
\* stored or an error, an error only after a fault; and a nonce protects one
\* text only, however often objects are pruned and stored again.
THEOREM StoredIsReadBack == StoredInit /\ [][StoredNext]_storedVars => []ReadsWhatWasStored
<1>1. StoredInv => ReadsWhatWasStored
  BY NoncesDiffer DEF StoredInv, ReadsWhatWasStored
<1> QED  BY <1>1, InitStored, StoredStep, PTL

-----------------------------------------------------------------------------
(* The run of the program.                                                 *)

Things == {"stack", "rda", "args", "log", "exclude", "timer", "socket", "tls", "lock"}
Libraries == {"socket", "tls"}
Steps == {"usage", "exclude", "repo", "dest", "key", "lock", "work", "report", "prompt",
          "draw", "clock", "unknown"}

\* No step takes the lock before one has opened the repository.
LockAfterRepo(plan, open) ==
    \A i \in 1 .. Len(plan) :
        plan[i] = "lock" => "repo" \in open \/ \E j \in 1 .. i - 1 : plan[j] = "repo"

RunTypes ==
    /\ phase \in {"off", "args", "log", "command", "unwind", "exit"}
    /\ todo \in Seq(Steps)
    /\ urls \in [{"repo", "dest"} -> Schemes \cup {"dir"}]
    /\ held \subseteq Things
    /\ stack \in {"shell", "own"}
    /\ DOMAIN backends \subseteq {"repo", "dest"}

\* What may be held where the run has got to.
HeldByPhase ==
    /\ phase \in {"off", "args"} => held \subseteq {"stack"}
    /\ phase = "log" => held \subseteq {"stack", "rda", "args"}
    /\ phase = "exit" => held \cap {"lock", "exclude"} = {}
    /\ phase \notin {"command", "unwind"} => DOMAIN backends = {}
    /\ "stack" \in held <=> stack = "own"

\* A library is open when its flag says so, but that the flags are only
\* cleared when the next run begins.
FlagsTell == latches = held \cap Libraries

\* An open backend has the libraries its URL needs.
BackendsStand ==
    \A s \in DOMAIN backends : backends[s] = urls[s] /\ Needs(urls[s]) \subseteq latches

\* The lock is one of an open repository.
LockStands ==
    /\ "lock" \in held => "repo" \in DOMAIN backends
    /\ phase \in {"log", "command"} => LockAfterRepo(todo, DOMAIN backends)

ProcessInv == RunTypes /\ HeldByPhase /\ FlagsTell /\ BackendsStand /\ LockStands

-----------------------------------------------------------------------------
LEMMA PlanTyped == ASSUME NEW verb PROVE Plan(verb) \in Seq(Steps)
<1>1. SnapshotPlan \in Seq(Steps) /\ ListPlan \in Seq(Steps) /\ VerifyPlan \in Seq(Steps)
  BY DEF SnapshotPlan, ListPlan, VerifyPlan, Steps
<1>2. PrunePlan \in Seq(Steps) /\ RestorePlan \in Seq(Steps) /\ InitPlan \in Seq(Steps)
  BY DEF PrunePlan, RestorePlan, InitPlan, Steps
<1>3. RekeyPlan \in Seq(Steps) /\ BenchmarkPlan \in Seq(Steps) /\ ApplyUaemPlan \in Seq(Steps)
  BY DEF RekeyPlan, BenchmarkPlan, ApplyUaemPlan, Steps
<1>4. <<>> \in Seq(Steps) /\ <<"unknown">> \in Seq(Steps)
  BY DEF Steps
<1>5. QED
  BY <1>1, <1>2, <1>3, <1>4 DEF Plan

\* Two plans take the lock, both of the repository they have opened.
LEMMA PlanLocksLast == ASSUME NEW verb PROVE LockAfterRepo(Plan(verb), {})
<1>1. /\ LockAfterRepo(SnapshotPlan, {}) /\ LockAfterRepo(PrunePlan, {})
  BY DEF LockAfterRepo, SnapshotPlan, PrunePlan
<1>2. /\ LockAfterRepo(ListPlan, {}) /\ LockAfterRepo(VerifyPlan, {})
      /\ LockAfterRepo(RestorePlan, {}) /\ LockAfterRepo(InitPlan, {})
  BY DEF LockAfterRepo, ListPlan, VerifyPlan, RestorePlan, InitPlan
<1>3. /\ LockAfterRepo(RekeyPlan, {}) /\ LockAfterRepo(BenchmarkPlan, {})
      /\ LockAfterRepo(ApplyUaemPlan, {})
  BY DEF LockAfterRepo, RekeyPlan, BenchmarkPlan, ApplyUaemPlan
<1>4. LockAfterRepo(<<>>, {}) /\ LockAfterRepo(<<"unknown">>, {})
  BY DEF LockAfterRepo
<1>5. QED
  BY <1>1, <1>2, <1>3, <1>4 DEF Plan

\* What is left of a plan once its first step is done.
LEMMA RestOfPlan ==
    ASSUME NEW plan \in Seq(Steps), plan # <<>>, NEW open, LockAfterRepo(plan, open)
    PROVE  /\ Tail(plan) \in Seq(Steps)
           /\ LockAfterRepo(Tail(plan), open \cup {Head(plan)})
           /\ Head(plan) = "lock" => "repo" \in open
<1> DEFINE rest == Tail(plan)
<1>1. /\ rest \in Seq(Steps) /\ Len(rest) = Len(plan) - 1 /\ Len(plan) \in Nat \ {0}
      /\ \A i \in 1 .. Len(rest) : rest[i] = plan[i + 1]
  OBVIOUS
<1>2. Head(plan) = plan[1]
  OBVIOUS
<1>3. Head(plan) = "lock" => "repo" \in open
  BY <1>1, <1>2 DEF LockAfterRepo
<1>4. ASSUME NEW i \in 1 .. Len(rest), rest[i] = "lock", "repo" \notin open, Head(plan) # "repo"
      PROVE  \E j \in 1 .. i - 1 : rest[j] = "repo"
  <2>1. i + 1 \in 1 .. Len(plan) /\ plan[i + 1] = "lock"
    BY <1>1, <1>4
  <2>2. PICK j \in 1 .. i : plan[j] = "repo"
    BY <2>1, <1>4 DEF LockAfterRepo
  <2>3. j # 1
    BY <2>2, <1>2, <1>4
  <2>4. j - 1 \in 1 .. i - 1 /\ j - 1 \in 1 .. Len(rest) /\ (j - 1) + 1 = j
    BY <2>3, <1>1
  <2>5. rest[j - 1] = "repo"
    BY <2>2, <2>4, <1>1
  <2>6. QED
    BY <2>4, <2>5
<1>5. LockAfterRepo(rest, open \cup {Head(plan)})
  <2> HIDE DEF rest
  <2> QED  BY <1>4 DEF LockAfterRepo
<1>6. QED
  BY <1>1, <1>3, <1>5

-----------------------------------------------------------------------------
LEMMA InitProcess == ProcessInit => ProcessInv
<1> SUFFICES ASSUME ProcessInit PROVE ProcessInv
  OBVIOUS
<1>0. DOMAIN backends = {} /\ todo = <<>> /\ <<>> \in Seq(Steps)
  BY DEF ProcessInit
<1>1. RunTypes
  BY <1>0 DEF ProcessInit, RunTypes
<1>2. HeldByPhase /\ FlagsTell /\ BackendsStand /\ LockStands
  BY <1>0 DEF ProcessInit, HeldByPhase, FlagsTell, BackendsStand, LockStands
<1>3. QED
  BY <1>1, <1>2 DEF ProcessInv

LEMMA InvMeans == ProcessInv => NothingLeftBehind /\ StandsOnItsLibraries
<1> SUFFICES ASSUME ProcessInv PROVE NothingLeftBehind /\ StandsOnItsLibraries
  OBVIOUS
<1>1. NothingLeftBehind
  BY DEF ProcessInv, HeldByPhase, NothingLeftBehind
<1>2. ASSUME NEW s \in DOMAIN backends
      PROVE  /\ backends[s] # "dir" => "socket" \in held
             /\ backends[s] = "https" => "tls" \in held
  <2>1. backends[s] = urls[s] /\ Needs(urls[s]) \subseteq latches /\ latches \subseteq held
    BY <1>2 DEF ProcessInv, BackendsStand, FlagsTell
  <2>2. urls[s] \in {"dir", "http", "https", "s3"}
    BY <1>2, SchemeAssumption DEF ProcessInv, RunTypes
  <2>3. QED
    BY <2>1, <2>2 DEF Needs
<1>3. QED
  BY <1>1, <1>2 DEF StandsOnItsLibraries

\* What is only taken, by a step that keeps the phase or leaves the command, and
\* is no library, stack or lock, disturbs nothing.
LEMMA StepOfCommand ==
    ASSUME ProcessInv, phase = "command", todo # <<>>, Head(todo) # "repo",
           UNCHANGED <<CommandVars, latches, backends>>,
           \/ todo' = Tail(todo) /\ phase' = phase
           \/ todo' = todo /\ phase' = "unwind",
           NEW more \in SUBSET {"exclude", "timer"}, held' = held \cup more
    PROVE  ProcessInv' /\ ClosedInOrder
<1>1. todo \in Seq(Steps) /\ LockAfterRepo(todo, DOMAIN backends)
  BY DEF ProcessInv, RunTypes, LockStands
<1>2. /\ Tail(todo) \in Seq(Steps)
      /\ LockAfterRepo(Tail(todo), DOMAIN backends)
  <2>1. LockAfterRepo(Tail(todo), DOMAIN backends \cup {Head(todo)})
    BY <1>1, RestOfPlan
  <2>2. QED
    BY <2>1, <1>1, RestOfPlan DEF LockAfterRepo
<1>3. RunTypes'
  BY <1>1, <1>2 DEF ProcessInv, RunTypes, Things, CommandVars
<1>4. HeldByPhase' /\ FlagsTell' /\ BackendsStand'
  BY DEF ProcessInv, HeldByPhase, FlagsTell, BackendsStand, CommandVars, Libraries
<1>5. LockStands'
  BY <1>2 DEF ProcessInv, LockStands, CommandVars
<1>6. ClosedInOrder
  BY DEF ClosedInOrder
<1>7. QED
  BY <1>3, <1>4, <1>5, <1>6 DEF ProcessInv

-----------------------------------------------------------------------------
(* A run: the way in.                                                      *)

LEMMA ProcessIn ==
    ASSUME ProcessInv, Start \/ ReadArgs \/ OpenLog
    PROVE  ProcessInv' /\ ClosedInOrder
<1>1. CASE Start
  <2>1. RunTypes'
    BY <1>1 DEF ProcessInv, RunTypes, Start, Things
  <2>2. HeldByPhase' /\ FlagsTell' /\ BackendsStand' /\ LockStands'
    BY <1>1 DEF ProcessInv, HeldByPhase, FlagsTell, BackendsStand, LockStands, Start, Libraries
  <2>3. ClosedInOrder
    BY <1>1 DEF Start, ClosedInOrder
  <2>4. QED
    BY <2>1, <2>2, <2>3 DEF ProcessInv
<1>2. CASE ReadArgs
  <2>1. CASE phase' = "log"
    <3>1. PICK verb \in Verbs, r, d \in Schemes :
            /\ todo' = Plan(verb) /\ urls' = [repo |-> r, dest |-> d]
            /\ held' = held \cup {"rda", "args"}
            /\ phase = "args" /\ UNCHANGED <<latches, backends, stack>>
      BY <1>2, <2>1 DEF ReadArgs
    <3>2. todo' \in Seq(Steps) /\ LockAfterRepo(todo', {})
      BY <3>1, PlanTyped, PlanLocksLast
    <3>3. RunTypes'
      BY <2>1, <3>1, <3>2 DEF ProcessInv, RunTypes, Things
    <3>4. DOMAIN backends' = {} /\ HeldByPhase'
      BY <2>1, <3>1 DEF ProcessInv, HeldByPhase
    <3>5. FlagsTell' /\ BackendsStand'
      BY <3>1, <3>4 DEF ProcessInv, FlagsTell, BackendsStand, Libraries
    <3>6. LockStands'
      BY <2>1, <3>1, <3>2, <3>4 DEF ProcessInv, HeldByPhase, LockStands, LockAfterRepo
    <3>7. ClosedInOrder
      BY <3>1 DEF ClosedInOrder
    <3>8. QED
      BY <3>3, <3>4, <3>5, <3>6, <3>7 DEF ProcessInv
  <2>2. CASE phase' # "log"
    <3>1. phase = "args" /\ phase' = "off" /\ UNCHANGED <<todo, urls, held, latches, backends, stack>>
      BY <1>2, <2>2 DEF ReadArgs
    <3>2. ProcessInv'
      BY <3>1 DEF ProcessInv, RunTypes, HeldByPhase, FlagsTell, BackendsStand, LockStands
    <3>3. QED
      BY <3>1, <3>2 DEF ClosedInOrder
  <2>3. QED
    BY <2>1, <2>2
<1>3. CASE OpenLog
  <2>1. /\ phase = "log" /\ UNCHANGED <<todo, urls, latches, backends, stack>>
        /\ \/ phase' = "command" /\ held' \in {held, held \cup {"log"}}
           \/ phase' = "off" /\ held' = held \ {"args", "rda"}
    BY <1>3 DEF OpenLog
  <2>2. RunTypes'
    BY <2>1 DEF ProcessInv, RunTypes, Things
  <2>3. HeldByPhase' /\ FlagsTell' /\ BackendsStand'
    BY <2>1 DEF ProcessInv, HeldByPhase, FlagsTell, BackendsStand, Libraries
  <2>4. LockStands'
    BY <2>1 DEF ProcessInv, LockStands
  <2>5. ClosedInOrder
    BY <2>1 DEF ClosedInOrder, ProcessInv, HeldByPhase
  <2>6. QED
    BY <2>2, <2>3, <2>4, <2>5 DEF ProcessInv
<1>4. QED
  BY <1>1, <1>2, <1>3

-----------------------------------------------------------------------------
(* A run: the command.                                                     *)

LEMMA ProcessGoesOn ==
    ASSUME ProcessInv, Advance \/ LoadExclude \/ UseTimer \/ Done
    PROVE  ProcessInv' /\ ClosedInOrder
<1> DEFINE Moves == \/ todo' = Tail(todo) /\ phase' = phase
                    \/ todo' = todo /\ phase' = "unwind"
           Stays == UNCHANGED <<CommandVars, latches, backends>>
           Begins == phase = "command" /\ todo # <<>> /\ Head(todo) # "repo"
<1>1. CASE Advance
  <2>1. Begins /\ Moves /\ Stays /\ held' = held \cup {}
    BY <1>1 DEF Advance, NextStep, PassOrEnd, GoOn, GiveUp, CommandVars
  <2>2. QED
    BY <2>1, StepOfCommand
<1>2. CASE LoadExclude
  <2>1. /\ Begins /\ Moves /\ Stays
        /\ \/ held' = held \cup {}
           \/ held' = held \cup {"exclude"}
    BY <1>2 DEF LoadExclude, NextStep, GoOn, GiveUp, CommandVars
  <2>2. QED
    BY <2>1, StepOfCommand
<1>3. CASE UseTimer
  <2>1. /\ Begins /\ Moves /\ Stays
        /\ \/ held' = held \cup {}
           \/ held' = held \cup {"timer"}
    BY <1>3 DEF UseTimer, NextStep, PassOrEnd, GoOn, GiveUp, CommandVars
  <2>2. QED
    BY <2>1, StepOfCommand
<1>4. CASE Done
  <2>1. phase = "command" /\ phase' = "unwind" /\ UNCHANGED <<todo, urls, held, latches, backends, stack>>
    BY <1>4 DEF Done, CommandVars
  <2>2. ProcessInv'
    BY <2>1 DEF ProcessInv, RunTypes, HeldByPhase, FlagsTell, BackendsStand, LockStands
  <2>3. QED
    BY <2>1, <2>2 DEF ClosedInOrder
<1>5. QED
  BY <1>1, <1>2, <1>3, <1>4

LEMMA ProcessLocks ==
    ASSUME ProcessInv, TakeLock
    PROVE  ProcessInv' /\ ClosedInOrder
<1>1. /\ phase = "command" /\ todo # <<>> /\ Head(todo) = "lock"
      /\ UNCHANGED <<urls, stack, latches, backends>>
  BY DEF TakeLock, NextStep, CommandVars
<1>2. todo \in Seq(Steps) /\ LockAfterRepo(todo, DOMAIN backends)
  BY <1>1 DEF ProcessInv, RunTypes, LockStands
<1>3. /\ Tail(todo) \in Seq(Steps) /\ "repo" \in DOMAIN backends
      /\ LockAfterRepo(Tail(todo), DOMAIN backends)
  <2>1. LockAfterRepo(Tail(todo), DOMAIN backends \cup {Head(todo)})
    BY <1>1, <1>2, RestOfPlan
  <2>2. /\ Tail(todo) \in Seq(Steps) /\ "repo" \in DOMAIN backends
    BY <1>1, <1>2, RestOfPlan
  <2>3. QED
    BY <2>1, <2>2, <1>1 DEF LockAfterRepo
<1>4. \/ todo' = Tail(todo) /\ phase' = phase /\ held' = held \cup {"lock"}
      \/ todo' = todo /\ phase' = "unwind" /\ held' = held
  BY DEF TakeLock, GoOn, GiveUp
<1>5. RunTypes'
  BY <1>1, <1>2, <1>3, <1>4 DEF ProcessInv, RunTypes, Things
<1>6. HeldByPhase' /\ FlagsTell' /\ BackendsStand'
  BY <1>1, <1>4 DEF ProcessInv, HeldByPhase, FlagsTell, BackendsStand, Libraries
<1>7. LockStands'
  BY <1>1, <1>3, <1>4 DEF ProcessInv, LockStands
<1>8. ClosedInOrder
  BY <1>4 DEF ClosedInOrder
<1>9. QED
  BY <1>5, <1>6, <1>7, <1>8 DEF ProcessInv

LEMMA ProcessOpens ==
    ASSUME ProcessInv, OpenLibrary \/ OpenBackend
    PROVE  ProcessInv' /\ ClosedInOrder
<1>1. CASE OpenLibrary
  <2>1. PICK lib \in Libraries :
            /\ phase = "command" /\ UNCHANGED <<todo, urls, stack, backends>>
            /\ \/ held' = held \cup {lib} /\ latches' = latches \cup {lib} /\ phase' = phase
               \/ phase' = "unwind" /\ UNCHANGED <<held, latches>>
    BY <1>1 DEF OpenLibrary, NextStep, GiveUp, CommandVars, Libraries, Latched
  <2>2. RunTypes' /\ HeldByPhase'
    BY <2>1 DEF ProcessInv, RunTypes, HeldByPhase, Things, Libraries
  <2>3. FlagsTell'
    BY <2>1 DEF ProcessInv, FlagsTell
  <2>4. BackendsStand'
    BY <2>1 DEF ProcessInv, BackendsStand
  <2>5. LockStands'
    BY <2>1 DEF ProcessInv, LockStands, Libraries
  <2>6. ClosedInOrder
    BY <2>1 DEF ClosedInOrder
  <2>7. QED
    BY <2>2, <2>3, <2>4, <2>5, <2>6 DEF ProcessInv
<1>2. CASE OpenBackend
  <2>1. PICK slot \in {"repo", "dest"} :
            /\ NextStep(slot) /\ Needs(urls[slot]) \subseteq latches
            /\ \/ GoOn /\ backends' = [s \in DOMAIN backends \cup {slot} |-> urls[s]]
               \/ GiveUp(20) /\ UNCHANGED backends
    BY <1>2 DEF OpenBackend
  <2>2. /\ phase = "command" /\ todo # <<>> /\ Head(todo) = slot
        /\ UNCHANGED <<urls, stack, held, latches>>
    BY <2>1, <1>2 DEF OpenBackend, NextStep, CommandVars
  <2>3. todo \in Seq(Steps) /\ LockAfterRepo(todo, DOMAIN backends)
    BY <2>2 DEF ProcessInv, RunTypes, LockStands
  <2>4. /\ Tail(todo) \in Seq(Steps)
        /\ LockAfterRepo(Tail(todo), DOMAIN backends \cup {slot})
    BY <2>2, <2>3, RestOfPlan
  <2>5. \/ /\ todo' = Tail(todo) /\ phase' = phase
           /\ backends' = [s \in DOMAIN backends \cup {slot} |-> urls[s]]
        \/ todo' = todo /\ phase' = "unwind" /\ backends' = backends
    BY <2>1 DEF GoOn, GiveUp
  <2>6. DOMAIN backends' \in {DOMAIN backends, DOMAIN backends \cup {slot}}
    BY <2>5
  <2>7. RunTypes'
    BY <2>2, <2>3, <2>4, <2>5, <2>6 DEF ProcessInv, RunTypes
  <2>8. HeldByPhase' /\ FlagsTell'
    BY <2>2, <2>5 DEF ProcessInv, HeldByPhase, FlagsTell
  <2>9. BackendsStand'
    BY <2>1, <2>2, <2>5 DEF ProcessInv, BackendsStand
  <2>10. LockStands'
    <3>1. CASE todo' = Tail(todo) /\ phase' = phase
               /\ backends' = [s \in DOMAIN backends \cup {slot} |-> urls[s]]
      <4>1. DOMAIN backends' = DOMAIN backends \cup {slot}
        BY <3>1
      <4>2. QED
        BY <2>2, <2>4, <3>1, <4>1 DEF ProcessInv, LockStands
    <3>2. CASE todo' = todo /\ phase' = "unwind" /\ backends' = backends
      BY <3>2, <2>2 DEF ProcessInv, LockStands
    <3>3. QED
      BY <2>5, <3>1, <3>2
  <2>11. ClosedInOrder
    BY <2>2 DEF ClosedInOrder
  <2>12. QED
    BY <2>7, <2>8, <2>9, <2>10, <2>11 DEF ProcessInv
<1>3. QED
  BY <1>1, <1>2

-----------------------------------------------------------------------------
(* A run: the way back and the way out.                                    *)

LEMMA ProcessUnwinds ==
    ASSUME ProcessInv, ReleaseLock \/ CloseBackend \/ Return
    PROVE  ProcessInv' /\ ClosedInOrder
<1>1. CASE ReleaseLock
  <2>1. /\ phase = "unwind" /\ "lock" \in held /\ held' = held \ {"lock"}
        /\ UNCHANGED <<phase, todo, urls, latches, backends, stack>>
    BY <1>1 DEF ReleaseLock, HoldsLock, CommandVars
  <2>2. RunTypes' /\ HeldByPhase'
    BY <2>1 DEF ProcessInv, RunTypes, HeldByPhase
  <2>3. FlagsTell' /\ BackendsStand' /\ LockStands'
    BY <2>1 DEF ProcessInv, FlagsTell, BackendsStand, LockStands, Libraries
  <2>4. ClosedInOrder
    BY <2>1 DEF ClosedInOrder, ProcessInv, LockStands
  <2>5. QED
    BY <2>2, <2>3, <2>4 DEF ProcessInv
<1>2. CASE CloseBackend
  <2>1. PICK slot \in DOMAIN backends : backends' = [s \in DOMAIN backends \ {slot} |-> backends[s]]
    BY <1>2 DEF CloseBackend
  <2>2. /\ phase = "unwind" /\ "lock" \notin held
        /\ UNCHANGED <<phase, todo, urls, held, latches, stack>>
    BY <1>2 DEF CloseBackend, HoldsLock, CommandVars
  <2>3. DOMAIN backends' \subseteq DOMAIN backends /\ \A s \in DOMAIN backends' : backends'[s] = backends[s]
    BY <2>1
  <2>4. RunTypes' /\ HeldByPhase'
    BY <2>2, <2>3 DEF ProcessInv, RunTypes, HeldByPhase
  <2>5. FlagsTell' /\ BackendsStand' /\ LockStands'
    BY <2>2, <2>3 DEF ProcessInv, FlagsTell, BackendsStand, LockStands
  <2>6. ClosedInOrder
    BY <2>2 DEF ClosedInOrder
  <2>7. QED
    BY <2>4, <2>5, <2>6 DEF ProcessInv
<1>3. CASE Return
  <2>1. /\ phase = "unwind" /\ phase' = "exit" /\ "lock" \notin held /\ DOMAIN backends = {}
        /\ held' = held \ {"exclude"} /\ todo' = <<>>
        /\ UNCHANGED <<urls, latches, backends, stack>>
    BY <1>3 DEF Return, HoldsLock, CommandVars
  <2>2. todo' \in Seq(Steps)
    BY <2>1
  <2>3. RunTypes' /\ HeldByPhase'
    BY <2>1, <2>2 DEF ProcessInv, RunTypes, HeldByPhase
  <2>4. FlagsTell' /\ BackendsStand' /\ LockStands'
    BY <2>1 DEF ProcessInv, FlagsTell, BackendsStand, LockStands, Libraries
  <2>5. ClosedInOrder
    BY <2>1 DEF ClosedInOrder
  <2>6. QED
    BY <2>3, <2>4, <2>5 DEF ProcessInv
<1>4. QED
  BY <1>1, <1>2, <1>3

\* Order's things one by one: what stands before a thing is gone by then.
LEMMA OrderIs ==
    /\ DOMAIN Order = 1 .. 6
    /\ Order[1] = "tls" /\ Order[2] = "socket" /\ Order[3] = "timer"
    /\ Order[4] = "log" /\ Order[5] = "args" /\ Order[6] = "rda"
BY DEF Order

LEMMA ClosesIs == ASSUME FlagsTell, NEW r PROVE Closes(r) <=> r \in held
<1>1. Range(Library) = Libraries
  <2>1. DOMAIN Library = 1 .. 2 /\ Library[1] = "tls" /\ Library[2] = "socket"
    BY DEF Library
  <2>2. QED
    BY <2>1 DEF Range, Libraries
<1>2. QED
  BY <1>1 DEF Closes, FlagsTell, Libraries

LEMMA ProcessEnds ==
    ASSUME ProcessInv, CloseNext \/ MainReturns \/ SwapBack
    PROVE  ProcessInv' /\ ClosedInOrder
<1>1. CASE CloseNext
  <2>1. PICK i \in 1 .. 6 :
            /\ Closes(Order[i]) /\ \A j \in 1 .. i - 1 : ~Closes(Order[j])
            /\ held' = held \ {Order[i]} /\ latches' = latches \ {Order[i]}
    BY <1>1, OrderIs DEF CloseNext
  <2>2. phase = "exit" /\ UNCHANGED <<phase, todo, urls, backends, stack>>
    BY <1>1 DEF CloseNext, CommandVars
  <2>3. Order[i] \in held /\ \A j \in 1 .. i - 1 : Order[j] \notin held
    BY <2>1, ClosesIs DEF ProcessInv
  <2>4. Order[i] \in {"tls", "socket", "timer", "log", "args", "rda"}
    BY OrderIs
  <2>5. DOMAIN backends = {} /\ held \cap {"lock", "exclude"} = {} /\ held \subseteq Things
    BY <2>2 DEF ProcessInv, HeldByPhase, RunTypes
  <2>6. RunTypes' /\ HeldByPhase'
    BY <2>1, <2>2, <2>4 DEF ProcessInv, RunTypes, HeldByPhase
  <2>7. FlagsTell' /\ BackendsStand' /\ LockStands'
    BY <2>1, <2>2, <2>5 DEF ProcessInv, FlagsTell, BackendsStand, LockStands
  <2>8. ClosedInOrder
    <3>1. held \ held' = {Order[i]}
      BY <2>1, <2>3
    <3>2. Order[i] = "socket" => "tls" \notin held
      BY <2>3, OrderIs
    <3>3. Order[i] = "args" => held \subseteq {"args", "rda", "stack"}
      <4>1. Order[i] = "args" => i = 5
        BY OrderIs
      <4>2. Order[i] = "args" => held \cap {"tls", "socket", "timer", "log"} = {}
        BY <4>1, <2>3, OrderIs
      <4>3. QED
        BY <4>2, <2>5 DEF Things
    <3>4. QED
      BY <3>1, <3>2, <3>3, <2>4, <2>5 DEF ClosedInOrder
  <2>9. QED
    BY <2>6, <2>7, <2>8 DEF ProcessInv
<1>2. CASE MainReturns
  <2>1. /\ phase = "exit" /\ phase' = "off" /\ \A i \in 1 .. 6 : ~Closes(Order[i])
        /\ UNCHANGED <<todo, urls, held, latches, backends, stack>>
    BY <1>2, OrderIs DEF MainReturns, CommandVars
  <2>2. held \cap {"tls", "socket", "timer", "log", "args", "rda"} = {}
    <3>1. \A i \in 1 .. 6 : Order[i] \notin held
      BY <2>1, ClosesIs DEF ProcessInv
    <3>2. QED
      BY <3>1, OrderIs
  <2>3. held \subseteq {"stack"}
    BY <2>1, <2>2 DEF ProcessInv, HeldByPhase, RunTypes, Things
  <2>4. ProcessInv'
    BY <2>1, <2>3 DEF ProcessInv, RunTypes, HeldByPhase, FlagsTell, BackendsStand, LockStands
  <2>5. QED
    BY <2>1, <2>4 DEF ClosedInOrder
<1>3. CASE SwapBack
  <2>1. /\ phase = "off" /\ stack = "own" /\ stack' = "shell" /\ held' = held \ {"stack"}
        /\ UNCHANGED <<phase, todo, urls, latches, backends>>
    BY <1>3 DEF SwapBack
  <2>2. held = {"stack"}
    BY <2>1 DEF ProcessInv, HeldByPhase
  <2>3. RunTypes' /\ HeldByPhase'
    BY <2>1 DEF ProcessInv, RunTypes, HeldByPhase
  <2>4. FlagsTell' /\ BackendsStand' /\ LockStands'
    BY <2>1 DEF ProcessInv, FlagsTell, BackendsStand, LockStands, Libraries
  <2>5. ClosedInOrder
    BY <2>1, <2>2 DEF ClosedInOrder
  <2>6. QED
    BY <2>3, <2>4, <2>5 DEF ProcessInv
<1>4. QED
  BY <1>1, <1>2, <1>3

LEMMA ProcessStep ==
    ASSUME ProcessInv, [ProcessNext]_processVars
    PROVE  ProcessInv' /\ [ClosedInOrder]_processVars
<1>1. CASE UNCHANGED processVars
  BY <1>1 DEF processVars, ProcessInv, RunTypes, HeldByPhase, FlagsTell, BackendsStand, LockStands
<1>2. CASE ProcessNext
  BY <1>2, ProcessIn, ProcessGoesOn, ProcessLocks, ProcessOpens, ProcessUnwinds, ProcessEnds
     DEF ProcessNext
<1>3. QED
  BY <1>1, <1>2

\* real_main(): whatever a run of the program meets, from the stack it gets to
\* the backends it opens, it leaves nothing behind, no backend of the network
\* is ever open without the libraries below it, and what others stand on is
\* given back last.
THEOREM RunsLeaveInOrder ==
    ProcessInit /\ [][ProcessNext]_processVars => LeavesInOrder
<1>1. ProcessInv /\ [ProcessNext]_processVars
        => [NothingLeftBehind' /\ StandsOnItsLibraries' /\ ClosedInOrder]_processVars
  <2> SUFFICES ASSUME ProcessInv, [ProcessNext]_processVars
               PROVE  [NothingLeftBehind' /\ StandsOnItsLibraries' /\ ClosedInOrder]_processVars
    OBVIOUS
  <2>1. ProcessInv' /\ [ClosedInOrder]_processVars
    BY ProcessStep
  <2>2. (ProcessInv => NothingLeftBehind /\ StandsOnItsLibraries)'
    BY InvMeans, PTL
  <2>3. NothingLeftBehind' /\ StandsOnItsLibraries'
    BY <2>1, <2>2
  <2>4. QED
    BY <2>1, <2>3
<1>2. ProcessInv /\ [ProcessNext]_processVars => ProcessInv'
  BY ProcessStep
<1>3. QED
  BY <1>1, <1>2, InitProcess, PTL DEF LeavesInOrder

-----------------------------------------------------------------------------
(* The random numbers and the console.  A block has a longer chain behind  *)
(* it than the one before.  The line stands for the keys that survive, and *)
(* what was typed from each of them on outweighs what was erased by as     *)
(* many keys as the line has from there.                                   *)

IsASeq(s) == \E S : s \in Seq(S)

Chained ==
    /\ IsASeq(drbg) /\ IsASeq(drawn)
    /\ \A i \in 1 .. Len(drawn) : Len(drawn[i]) \in Nat /\ Len(drawn[i]) <= Len(drbg)
    /\ \A i, j \in 1 .. Len(drawn) : i < j => Len(drawn[i]) < Len(drawn[j])

Outweighs(at) ==
    \A p \in 1 .. Len(buffer) : Surplus(at[p], Len(typed)) = Len(buffer) - p + 1
StandsFor(at) == at \in [1 .. Len(buffer) -> Survivors] /\ Reads(at) /\ Outweighs(at)

LineInv ==
    /\ typed \in Seq(Strokes) /\ buffer \in Seq(Strokes) /\ Len(buffer) <= LineRoom
    /\ Fitted => \E at : StandsFor(at)

EntropyInv == Chained /\ NothingKept /\ LineInv /\ CalibratedToTarget

-----------------------------------------------------------------------------
(* The console: what a key changes.                                        *)

Weight(k) == IF k = "control" THEN 0 ELSE IF k = "erase" THEN -1 ELSE 1

LEMMA BetweenType ==
    ASSUME NEW i \in Int, NEW j \in Int, NEW keys
    PROVE  Between(i, j, keys) \in Nat
<1>1. IsFiniteSet({k \in i .. j : typed[k] \in keys})
  BY FS_Interval, FS_Subset
<1>2. QED
  BY <1>1, FS_CardinalityType DEF Between

LEMMA BetweenGrows ==
    ASSUME typed \in Seq(Strokes), NEW k \in Strokes, typed' = Append(typed, k),
           NEW n, n = Len(typed), NEW keys
    PROVE  /\ \A i, j \in 1 .. n : Between(i, j, keys)' = Between(i, j, keys)
           /\ \A i \in 1 .. n + 1 :
                 Between(i, n + 1, keys)'
                     = Between(i, n, keys) + (IF k \in keys THEN 1 ELSE 0)
<1>1. n \in Nat /\ typed'[n + 1] = k /\ \A q \in 1 .. n : typed'[q] = typed[q]
  OBVIOUS
<1>2. ASSUME NEW i \in 1 .. n, NEW j \in 1 .. n
      PROVE  Between(i, j, keys)' = Between(i, j, keys)
  <2>1. {q \in i .. j : typed'[q] \in keys} = {q \in i .. j : typed[q] \in keys}
    BY <1>1
  <2>2. QED
    BY <2>1 DEF Between
<1>3. ASSUME NEW i \in 1 .. n + 1
      PROVE  Between(i, n + 1, keys)' = Between(i, n, keys) + (IF k \in keys THEN 1 ELSE 0)
  <2> DEFINE old == {q \in i .. n : typed[q] \in keys}
             new == {q \in i .. n + 1 : typed'[q] \in keys}
  <2>0. IsFiniteSet(i .. n)
    BY <1>1, FS_Interval
  <2>1. IsFiniteSet(old) /\ Cardinality(old) \in Nat
    <3>1. old \subseteq i .. n
      OBVIOUS
    <3> HIDE DEF old
    <3>2. IsFiniteSet(old)
      BY <2>0, <3>1, FS_Subset
    <3>3. QED
      BY <3>2, FS_CardinalityType
  <2>2. \A q \in i .. n + 1 : q = n + 1 \/ (q \in i .. n /\ typed'[q] = typed[q])
    BY <1>1
  <2>3. n + 1 \in i .. n + 1 /\ n + 1 \notin i .. n /\ i .. n \subseteq i .. n + 1
    BY <1>1
  <2>4. CASE k \in keys
    <3>1. new = old \cup {n + 1}
      BY <2>2, <2>3, <2>4, <1>1
    <3>2. n + 1 \notin old
      BY <2>3
    <3>a. Between(i, n + 1, keys)' = Cardinality(new) /\ Between(i, n, keys) = Cardinality(old)
      BY DEF Between
    <3> HIDE DEF old, new
    <3>3. Cardinality(new) = Cardinality(old) + 1
      BY <3>1, <3>2, <2>1, FS_AddElement
    <3>4. QED
      BY <3>a, <3>3, <2>4
  <2>5. CASE k \notin keys
    <3>1. new = old
      BY <2>2, <2>3, <2>5, <1>1
    <3>2. Between(i, n + 1, keys)' = Cardinality(new) /\ Between(i, n, keys) = Cardinality(old)
      BY DEF Between
    <3> HIDE DEF old, new
    <3>3. QED
      BY <3>1, <3>2, <2>5, <2>1
  <2>6. QED
    BY <2>4, <2>5
<1>4. QED
  BY <1>2, <1>3

LEMMA DepthGrows ==
    ASSUME typed \in Seq(Strokes), NEW k \in Strokes, typed' = Append(typed, k),
           NEW n, n = Len(typed)
    PROVE  /\ \A i, j \in 1 .. n : Surplus(i, j)' = Surplus(i, j)
           /\ \A i \in 1 .. n + 1 :
                 /\ Surplus(i, n) \in Int
                 /\ Surplus(i, n + 1)' = Surplus(i, n) + Weight(k)
           /\ Surplus(n + 1, n) = 0
<1> DEFINE chars == Strokes \ {"erase", "control"}
<1>1. n \in Nat
  OBVIOUS
<1>2. ASSUME NEW i \in 1 .. n + 1
      PROVE  Between(i, n, chars) \in Nat /\ Between(i, n, {"erase"}) \in Nat
  BY <1>1, BetweenType
<1>3. /\ \A i, j \in 1 .. n : Between(i, j, chars)' = Between(i, j, chars)
      /\ \A i \in 1 .. n + 1 : Between(i, n + 1, chars)'
                     = Between(i, n, chars) + (IF k \in chars THEN 1 ELSE 0)
  <2> HIDE DEF chars
  <2> QED  BY BetweenGrows
<1>4. /\ \A i, j \in 1 .. n : Between(i, j, {"erase"})' = Between(i, j, {"erase"})
      /\ \A i \in 1 .. n + 1 : Between(i, n + 1, {"erase"})'
                     = Between(i, n, {"erase"}) + (IF k \in {"erase"} THEN 1 ELSE 0)
  BY BetweenGrows
<1>5. Between(n + 1, n, chars) = 0 /\ Between(n + 1, n, {"erase"}) = 0
  <2>1. n + 1 .. n = {}
    BY <1>1
  <2>2. QED
    BY <2>1, FS_EmptySet DEF Between
<1>6. \A i, j \in 1 .. n : Surplus(i, j)' = Surplus(i, j)
  BY <1>3, <1>4 DEF Surplus
<1>7. ASSUME NEW i \in 1 .. n + 1
      PROVE  Surplus(i, n) \in Int /\ Surplus(i, n + 1)' = Surplus(i, n) + Weight(k)
  <2>1. /\ Surplus(i, n) = Between(i, n, chars) - Between(i, n, {"erase"})
        /\ Surplus(i, n + 1)' = Between(i, n + 1, chars)' - Between(i, n + 1, {"erase"})'
    BY DEF Surplus
  <2>2. Weight(k) = (IF k \in chars THEN 1 ELSE 0) - (IF k \in {"erase"} THEN 1 ELSE 0)
    BY DEF Weight
  <2> HIDE DEF chars
  <2>3. QED
    BY <2>1, <2>2, <1>2, <1>3, <1>4
<1>8. Surplus(n + 1, n) = 0
  BY <1>5 DEF Surplus
<1>9. QED
  BY <1>6, <1>7, <1>8

\* Which keys survive another one.
LEMMA SurvivorsGrow ==
    ASSUME typed \in Seq(Strokes), NEW k \in Strokes, typed' = Append(typed, k),
           NEW n, n = Len(typed)
    PROVE  Survivors' = {i \in Survivors : Surplus(i, n) + Weight(k) > 0}
                            \cup (IF Weight(k) = 1 THEN {n + 1} ELSE {})
<1>1. /\ n \in Nat /\ DOMAIN typed = 1 .. n /\ DOMAIN typed' = 1 .. n + 1 /\ Len(typed') = n + 1
      /\ typed'[n + 1] = k /\ \A q \in 1 .. n : typed'[q] = typed[q]
  OBVIOUS
<1>2. /\ \A i, j \in 1 .. n : Surplus(i, j)' = Surplus(i, j)
      /\ \A i \in 1 .. n + 1 : Surplus(i, n) \in Int /\ Surplus(i, n + 1)' = Surplus(i, n) + Weight(k)
      /\ Surplus(n + 1, n) = 0
  BY DepthGrows
<1>3. Survivors' = {i \in 1 .. n + 1 : Survives(i)'}
  BY <1>1 DEF Survivors
<1>4. Survivors = {i \in 1 .. n : Survives(i)}
  BY <1>1 DEF Survivors
<1>5. ASSUME NEW i \in 1 .. n
      PROVE  Survives(i)' <=> Survives(i) /\ Surplus(i, n) + Weight(k) > 0
  <2>1. i .. n + 1 = (i .. n) \cup {n + 1}
    BY <1>1
  <2>2. Survives(i)' <=> /\ typed[i] \notin {"erase", "control"}
                         /\ \A j \in i .. n + 1 : Surplus(i, j)' > 0
    BY <1>1 DEF Survives
  <2>3. \A j \in i .. n : Surplus(i, j)' = Surplus(i, j)
    BY <1>2
  <2>4. Surplus(i, n + 1)' = Surplus(i, n) + Weight(k)
    BY <1>2
  <2>5. Survives(i) <=> /\ typed[i] \notin {"erase", "control"}
                        /\ \A j \in i .. n : Surplus(i, j) > 0
    BY DEF Survives
  <2>6. QED
    BY <2>1, <2>2, <2>3, <2>4, <2>5
<1>6. Survives(n + 1)' <=> Weight(k) = 1
  <2>1. Survives(n + 1)' <=> /\ k \notin {"erase", "control"}
                             /\ \A j \in n + 1 .. n + 1 : Surplus(n + 1, j)' > 0
    BY <1>1 DEF Survives
  <2>2. n + 1 .. n + 1 = {n + 1}
    BY <1>1
  <2>3. Surplus(n + 1, n + 1)' = Weight(k)
    BY <1>1, <1>2 DEF Weight
  <2>4. QED
    BY <2>1, <2>2, <2>3 DEF Weight
<1>7. \A i \in 1 .. n + 1 : i \in 1 .. n \/ i = n + 1
  BY <1>1
<1>8. n + 1 \in 1 .. n + 1 /\ n + 1 \notin 1 .. n /\ 1 .. n \subseteq 1 .. n + 1
  BY <1>1
<1>9. QED
  BY <1>3, <1>4, <1>5, <1>6, <1>7, <1>8

LEMMA FittedBefore ==
    ASSUME typed \in Seq(Strokes), NEW k \in Strokes, typed' = Append(typed, k),
           NEW n, n = Len(typed), Fitted'
    PROVE  /\ Fitted
           /\ \A i \in 1 .. n + 1 : Surplus(i, n) + Weight(k) <= LineRoom
<1>1. n \in Nat /\ DOMAIN typed = 1 .. n /\ DOMAIN typed' = 1 .. n + 1
  OBVIOUS
<1>2. /\ \A i, j \in 1 .. n : Surplus(i, j)' = Surplus(i, j)
      /\ \A i \in 1 .. n + 1 : Surplus(i, n + 1)' = Surplus(i, n) + Weight(k)
  BY DepthGrows
<1>3. \A i, j \in 1 .. n + 1 : Surplus(i, j)' <= LineRoom
  BY <1>1 DEF Fitted
<1>4. QED
  BY <1>1, <1>2, <1>3 DEF Fitted

-----------------------------------------------------------------------------
(* The console: the line.                                                  *)

\* The key survives at the end of the line, and there is room for it.
LEMMA KeyAdded ==
    ASSUME LineInv, NEW k \in Strokes, Weight(k) = 1, typed' = Append(typed, k),
           Len(buffer) < LineRoom, buffer' = Append(buffer, k), Fitted',
           NEW n, n = Len(typed), NEW m, m = Len(buffer)
    PROVE  \E at : StandsFor(at)'
<1>1. /\ n \in Nat /\ DOMAIN typed = 1 .. n /\ typed \in Seq(Strokes)
      /\ typed'[n + 1] = k /\ \A q \in 1 .. n : typed'[q] = typed[q]
      /\ m \in Nat /\ DOMAIN buffer = 1 .. m /\ Len(buffer') = m + 1
      /\ DOMAIN buffer' = 1 .. m + 1 /\ Len(typed') = n + 1
      /\ buffer'[m + 1] = k /\ \A q \in 1 .. m : buffer'[q] = buffer[q]
  BY DEF LineInv
<1>2. PICK at : StandsFor(at)
  BY <1>1, FittedBefore DEF LineInv
<1>3. /\ \A i \in 1 .. n + 1 : Surplus(i, n) \in Int /\ Surplus(i, n + 1)' = Surplus(i, n) + 1
      /\ Surplus(n + 1, n) = 0
  BY <1>1, DepthGrows
<1>4. /\ at \in [1 .. m -> Survivors] /\ Range(at) = Survivors
      /\ \A p, q \in 1 .. m : p < q => at[p] < at[q]
      /\ \A p \in 1 .. m : buffer[p] = typed[at[p]] /\ Surplus(at[p], n) = m - p + 1
  BY <1>2 DEF StandsFor, Reads, Outweighs
<1>5. Survivors \subseteq 1 .. n
  BY <1>1 DEF Survivors
<1>6. Survivors' = Survivors \cup {n + 1}
  <2>1. Survivors' = {i \in Survivors : Surplus(i, n) + 1 > 0} \cup {n + 1}
    BY <1>1, SurvivorsGrow
  <2>2. \A i \in Survivors : \E p \in 1 .. m : i = at[p]
    BY <1>4 DEF Range
  <2>3. \A i \in Survivors : Surplus(i, n) + 1 > 0
    BY <2>2, <1>1, <1>4
  <2>4. QED
    BY <2>1, <2>3
<1>0. PICK next : next = [p \in 1 .. m + 1 |-> IF p = m + 1 THEN n + 1 ELSE at[p]]
  OBVIOUS
<1>7. \A p \in 1 .. m + 1 : p = m + 1 \/ p \in 1 .. m
  BY <1>1
<1>8. /\ next \in [1 .. m + 1 -> Survivors'] /\ next[m + 1] = n + 1
      /\ \A p \in 1 .. m : next[p] = at[p] /\ next[p] \in 1 .. n
  <2>1. next[m + 1] = n + 1 /\ \A p \in 1 .. m : next[p] = at[p]
    BY <1>0, <1>1
  <2>2. \A p \in 1 .. m : at[p] \in Survivors
    BY <1>4
  <2>3. \A p \in 1 .. m + 1 : next[p] \in Survivors'
    BY <2>1, <2>2, <1>6, <1>7
  <2>4. next \in [1 .. m + 1 -> Survivors']
    BY <2>3, <1>0
  <2>5. QED
    BY <2>1, <2>2, <2>4, <1>5
<1>9. Range(next) = Survivors'
  <2>1. Range(next) \subseteq Survivors'
    BY <1>8 DEF Range
  <2>2. ASSUME NEW i \in Survivors PROVE i \in Range(next)
    <3>1. PICK p \in 1 .. m : i = at[p]
      BY <1>4 DEF Range
    <3>2. p \in 1 .. m + 1 /\ next[p] = i
      BY <3>1, <1>8, <1>1
    <3>3. QED
      BY <3>2, <1>8 DEF Range
  <2>3. n + 1 \in Range(next)
    BY <1>1, <1>8 DEF Range
  <2>4. QED
    BY <2>1, <2>2, <2>3, <1>6
<1>10. \A p, q \in 1 .. m + 1 : p < q => next[p] < next[q]
  <2>1. ASSUME NEW p \in 1 .. m + 1, NEW q \in 1 .. m + 1, p < q
        PROVE  next[p] < next[q]
    <3>1. p \in 1 .. m
      BY <2>1, <1>1
    <3>2. CASE q = m + 1
      BY <3>1, <3>2, <1>1, <1>8
    <3>3. CASE q \in 1 .. m
      BY <3>1, <3>3, <2>1, <1>4, <1>8
    <3>4. QED
      BY <3>2, <3>3, <1>7
  <2>2. QED
    BY <2>1
<1>11. \A p \in 1 .. m + 1 : buffer'[p] = typed'[next[p]]
  BY <1>1, <1>4, <1>7, <1>8
<1>12. \A p \in 1 .. m + 1 : Surplus(next[p], n + 1)' = (m + 1) - p + 1
  <2>1. ASSUME NEW p \in 1 .. m + 1, NEW i, i = next[p]
        PROVE  Surplus(i, n + 1)' = (m + 1) - p + 1
    <3>1. CASE p = m + 1
      <4>1. i = n + 1 /\ i \in 1 .. n + 1
        BY <2>1, <3>1, <1>1, <1>8
      <4>2. QED
        BY <4>1, <3>1, <1>1, <1>3
    <3>2. CASE p \in 1 .. m
      <4>1. i = at[p] /\ i \in 1 .. n + 1 /\ Surplus(i, n) = m - p + 1
        BY <2>1, <3>2, <1>1, <1>4, <1>8
      <4>2. QED
        BY <4>1, <3>2, <1>1, <1>3
    <3>3. QED
      BY <3>1, <3>2, <1>7
  <2>2. QED
    BY <2>1
<1>13. StandsFor(next)'
  BY <1>1, <1>8, <1>9, <1>10, <1>11, <1>12 DEF StandsFor, Reads, Outweighs
<1>14. QED
  BY <1>13

\* The key takes the last one away, or there was none.
LEMMA KeyErased ==
    ASSUME LineInv, NEW k \in Strokes, Weight(k) = -1, typed' = Append(typed, k),
           IF buffer = <<>> THEN buffer' = buffer ELSE buffer' = Front(buffer), Fitted',
           NEW n, n = Len(typed), NEW m, m = Len(buffer)
    PROVE  \E at : StandsFor(at)'
<1> DEFINE w == IF m = 0 THEN 0 ELSE m - 1
<1>1. /\ n \in Nat /\ DOMAIN typed = 1 .. n /\ typed \in Seq(Strokes)
      /\ \A q \in 1 .. n : typed'[q] = typed[q]
      /\ m \in Nat /\ DOMAIN buffer = 1 .. m /\ Len(typed') = n + 1 /\ buffer \in Seq(Strokes)
  BY DEF LineInv
<1>2. /\ w \in Nat /\ w <= m /\ Len(buffer') = w /\ DOMAIN buffer' = 1 .. w
      /\ \A q \in 1 .. w : buffer'[q] = buffer[q]
  <2>1. CASE m = 0
    <3>1. buffer = <<>> /\ buffer' = buffer
      BY <2>1, <1>1
    <3>2. QED
      BY <3>1, <2>1, <1>1
  <2>2. CASE m # 0
    <3>1. buffer # <<>> /\ buffer' = [i \in 1 .. m - 1 |-> buffer[i]]
      BY <2>2, <1>1 DEF Front
    <3>2. m - 1 \in Nat /\ buffer' \in Seq(Strokes) /\ Len(buffer') = m - 1
      BY <3>1, <2>2, <1>1
    <3>3. QED
      BY <3>1, <3>2, <2>2
  <2>3. QED
    BY <2>1, <2>2
<1> HIDE DEF w
<1>3. PICK at : StandsFor(at)
  BY <1>1, FittedBefore DEF LineInv
<1>4. /\ \A i \in 1 .. n + 1 : Surplus(i, n) \in Int /\ Surplus(i, n + 1)' = Surplus(i, n) - 1
  BY <1>1, DepthGrows
<1>5. /\ at \in [1 .. m -> Survivors] /\ Range(at) = Survivors
      /\ \A p, q \in 1 .. m : p < q => at[p] < at[q]
      /\ \A p \in 1 .. m : buffer[p] = typed[at[p]] /\ Surplus(at[p], n) = m - p + 1
  BY <1>3, <1>1 DEF StandsFor, Reads, Outweighs
<1>6. Survivors \subseteq 1 .. n
  BY <1>1 DEF Survivors
<1>7. /\ \A p \in 1 .. w : p \in 1 .. m /\ p < m
      /\ \A p \in 1 .. m : p \in 1 .. w \/ p = m
  BY <1>1, <1>2 DEF w
<1>8. Survivors' = {at[p] : p \in 1 .. w}
  <2>0. Survivors' = {i \in Survivors : Surplus(i, n) + Weight(k) > 0}
    BY <1>1, SurvivorsGrow
  <2>1. Survivors' = {i \in Survivors : Surplus(i, n) - 1 > 0}
    <3>1. \A i \in Survivors : Surplus(i, n) + Weight(k) = Surplus(i, n) - 1
      BY <1>1, <1>4, <1>6
    <3>2. QED
      BY <2>0, <3>1
  <2>2. ASSUME NEW p \in 1 .. w
        PROVE  at[p] \in Survivors /\ Surplus(at[p], n) - 1 > 0
    <3>1. p \in 1 .. m /\ p < m /\ m - p + 1 - 1 > 0
      BY <1>1, <1>7
    <3>2. at[p] \in Survivors /\ Surplus(at[p], n) = m - p + 1
      BY <3>1, <1>5
    <3>3. QED
      BY <3>1, <3>2
  <2>3. ASSUME NEW i \in Survivors, Surplus(i, n) - 1 > 0
        PROVE  \E p \in 1 .. w : i = at[p]
    <3>1. PICK p \in 1 .. m : i = at[p]
      BY <1>5 DEF Range
    <3>2. m - p > 0
      BY <3>1, <2>3, <1>5, <1>1
    <3>3. QED
      BY <3>1, <3>2, <1>7, <1>1
  <2>4. QED
    BY <2>1, <2>2, <2>3
<1>9. PICK next : next = [p \in 1 .. w |-> at[p]]
  OBVIOUS
<1>10. /\ next \in [1 .. w -> Survivors'] /\ \A p \in 1 .. w : next[p] = at[p] /\ next[p] \in 1 .. n
  BY <1>9, <1>8, <1>5, <1>6, <1>7
<1>11. Range(next) = Survivors'
  BY <1>8, <1>10 DEF Range
<1>12. \A p, q \in 1 .. w : p < q => next[p] < next[q]
  BY <1>5, <1>7, <1>10
<1>13. \A p \in 1 .. w : buffer'[p] = typed'[next[p]]
  BY <1>1, <1>2, <1>5, <1>7, <1>10
<1>14. \A p \in 1 .. w : Surplus(next[p], n + 1)' = w - p + 1
  <2>1. ASSUME NEW p \in 1 .. w, NEW i, i = next[p]
        PROVE  Surplus(i, n + 1)' = w - p + 1
    <3>1. i = at[p] /\ i \in 1 .. n + 1 /\ Surplus(i, n) = m - p + 1 /\ p < m
      BY <2>1, <1>1, <1>5, <1>7, <1>10
    <3>2. w = m - 1
      BY <3>1, <1>1 DEF w
    <3>3. QED
      BY <3>1, <3>2, <1>1, <1>4
  <2>2. QED
    BY <2>1
<1>15. StandsFor(next)'
  BY <1>1, <1>2, <1>10, <1>11, <1>12, <1>13, <1>14 DEF StandsFor, Reads, Outweighs
<1>16. QED
  BY <1>15

\* The key changes nothing.
LEMMA KeyIgnored ==
    ASSUME LineInv, NEW k \in Strokes, Weight(k) = 0, typed' = Append(typed, k),
           buffer' = buffer, Fitted',
           NEW n, n = Len(typed), NEW m, m = Len(buffer)
    PROVE  \E at : StandsFor(at)'
<1>1. /\ n \in Nat /\ DOMAIN typed = 1 .. n /\ typed \in Seq(Strokes)
      /\ \A q \in 1 .. n : typed'[q] = typed[q]
      /\ m \in Nat /\ DOMAIN buffer = 1 .. m /\ Len(typed') = n + 1
  BY DEF LineInv
<1>2. PICK at : StandsFor(at)
  BY <1>1, FittedBefore DEF LineInv
<1>3. /\ \A i \in 1 .. n + 1 : Surplus(i, n) \in Int /\ Surplus(i, n + 1)' = Surplus(i, n)
  <2>1. \A i \in 1 .. n + 1 : Surplus(i, n) \in Int /\ Surplus(i, n + 1)' = Surplus(i, n) + Weight(k)
    BY <1>1, DepthGrows
  <2>2. QED
    BY <2>1
<1>4. /\ at \in [1 .. m -> Survivors] /\ Range(at) = Survivors
      /\ \A p, q \in 1 .. m : p < q => at[p] < at[q]
      /\ \A p \in 1 .. m : buffer[p] = typed[at[p]] /\ Surplus(at[p], n) = m - p + 1
  BY <1>2, <1>1 DEF StandsFor, Reads, Outweighs
<1>5. Survivors \subseteq 1 .. n
  BY <1>1 DEF Survivors
<1>6. Survivors' = Survivors
  <2>1. Survivors' = {i \in Survivors : Surplus(i, n) + 0 > 0}
    BY <1>1, SurvivorsGrow
  <2>2. \A i \in Survivors : \E p \in 1 .. m : i = at[p]
    BY <1>4 DEF Range
  <2>3. \A i \in Survivors : Surplus(i, n) + 0 > 0
    BY <2>2, <1>1, <1>4
  <2>4. QED
    BY <2>1, <2>3
<1>7. \A p \in 1 .. m : at[p] \in 1 .. n /\ buffer'[p] = typed'[at[p]]
  BY <1>1, <1>4, <1>5
<1>8. \A p \in 1 .. m : Surplus(at[p], n + 1)' = m - p + 1
  <2>1. ASSUME NEW p \in 1 .. m, NEW i, i = at[p]
        PROVE  Surplus(i, n + 1)' = m - p + 1
    BY <2>1, <1>1, <1>3, <1>4, <1>7
  <2>2. QED
    BY <2>1
<1>9. StandsFor(at)'
  BY <1>1, <1>4, <1>6, <1>7, <1>8 DEF StandsFor, Reads, Outweighs
<1>10. QED
  BY <1>9

\* There is no room for the key: then the keys have not always fitted.
LEMMA KeyRefused ==
    ASSUME LineInv, NEW k \in Strokes, Weight(k) = 1, typed' = Append(typed, k),
           Len(buffer) >= LineRoom, Fitted',
           NEW n, n = Len(typed), NEW m, m = Len(buffer)
    PROVE  FALSE
<1>1. /\ n \in Nat /\ DOMAIN typed = 1 .. n /\ typed \in Seq(Strokes) /\ m \in Nat /\ m = LineRoom
      /\ DOMAIN buffer = 1 .. m
  BY EntropyAssumption DEF LineInv
<1>2. Fitted /\ \A i \in 1 .. n + 1 : Surplus(i, n) + 1 <= m
  BY <1>1, FittedBefore
<1>3. Surplus(n + 1, n) = 0
  BY <1>1, DepthGrows
<1>4. m > 0
  BY <1>1, <1>2, <1>3
<1>5. PICK at : StandsFor(at)
  BY <1>2 DEF LineInv
<1>6. at[1] \in Survivors /\ Surplus(at[1], n) = m
  BY <1>1, <1>4, <1>5 DEF StandsFor, Outweighs
<1>7. at[1] \in 1 .. n + 1
  BY <1>1, <1>6 DEF Survivors
<1>8. QED
  BY <1>1, <1>2, <1>6, <1>7

-----------------------------------------------------------------------------
(* Random numbers and console: the steps.                                  *)

LEMMA Joining ==
    ASSUME NEW S, NEW s \in Seq(S), NEW t \in Seq(S), NEW k, k = Len(s), NEW n, n = Len(t)
    PROVE  /\ s \o t \in Seq(S) /\ Len(s \o t) = k + n
           /\ \A i \in 1 .. k : (s \o t)[i] = s[i]
           /\ \A i \in k + 1 .. k + n : (s \o t)[i] = t[i - k]
<1>1. k \in Nat /\ n \in Nat /\ s \o t \in Seq(S) /\ Len(s \o t) = k + n
  OBVIOUS
<1>2. \A i \in 1 .. k : (s \o t)[i] = s[i]
  BY <1>1
<1>3. \A i \in k + 1 .. k + n : (s \o t)[i] = t[i - k]
  BY <1>1
<1>4. QED
  BY <1>1, <1>2, <1>3

LEMMA LineKept == ASSUME LineInv, UNCHANGED <<typed, buffer>> PROVE LineInv'
<1>1. \A i, j : Surplus(i, j)' = Surplus(i, j)
  BY DEF Surplus, Between
<1>2. Survivors' = Survivors
  BY <1>1 DEF Survivors, Survives
<1>3. Fitted' => Fitted
  BY <1>1 DEF Fitted
<1>4. ASSUME NEW at, StandsFor(at) PROVE StandsFor(at)'
  <2>1. Reads(at)'
    BY <1>2, <1>4 DEF StandsFor, Reads
  <2>2. Outweighs(at)'
    <3>1. ASSUME NEW p \in 1 .. Len(buffer), NEW i, i = at[p], NEW n, n = Len(typed)
          PROVE  Surplus(i, n)' = Len(buffer) - p + 1
      BY <3>1, <1>1, <1>4 DEF StandsFor, Outweighs
    <3>2. QED
      BY <3>1 DEF Outweighs
  <2>3. QED
    BY <2>1, <2>2, <1>2, <1>4 DEF StandsFor
<1>5. QED
  BY <1>3, <1>4 DEF LineInv

LEMMA LineEmpty == ASSUME typed = <<>>, buffer = <<>> PROVE LineInv
<1>1. /\ typed \in Seq(Strokes) /\ buffer \in Seq(Strokes) /\ Len(buffer) = 0
      /\ DOMAIN typed = {} /\ DOMAIN buffer = {} /\ 1 .. Len(buffer) = {}
  OBVIOUS
<1>2. Len(buffer) <= LineRoom
  BY <1>1, EntropyAssumption
<1>3. PICK at : at = [p \in 1 .. Len(buffer) |-> 0]
  OBVIOUS
<1>4. Survivors = {} /\ DOMAIN at = {} /\ Range(at) = {}
  BY <1>1, <1>3 DEF Survivors, Range
<1>5. at \in [1 .. Len(buffer) -> Survivors]
  BY <1>1, <1>3
<1>6. StandsFor(at)
  BY <1>1, <1>4, <1>5 DEF StandsFor, Reads, Outweighs
<1>7. QED
  BY <1>1, <1>2, <1>6 DEF LineInv

LEMMA KeyStep == ASSUME EntropyInv, Key PROVE LineInv'
<1>1. PICK k \in Strokes : typed' = Append(typed, k) /\ buffer' = KeyTaken(k)
  BY DEF Key
<1>2. LineInv /\ typed \in Seq(Strokes) /\ buffer \in Seq(Strokes) /\ LineRoom \in Nat
      /\ Len(buffer) \in Nat /\ Len(buffer) <= LineRoom
  BY EntropyAssumption DEF EntropyInv, LineInv
<1>3. typed' \in Seq(Strokes)
  BY <1>1, <1>2
<1>4. CASE k = "erase"
  <2>1. buffer' = IF buffer = <<>> THEN buffer ELSE Front(buffer)
    BY <1>1, <1>4 DEF KeyTaken
  <2>2. buffer' \in Seq(Strokes) /\ Len(buffer') <= LineRoom
    <3>1. CASE buffer = <<>>
      BY <2>1, <3>1, <1>2
    <3>2. CASE buffer # <<>>
      <4>1. Len(buffer) - 1 \in Nat /\ buffer' = [i \in 1 .. Len(buffer) - 1 |-> buffer[i]]
        BY <2>1, <3>2, <1>2 DEF Front
      <4>2. buffer' \in Seq(Strokes) /\ Len(buffer') = Len(buffer) - 1
        BY <4>1, <1>2
      <4>3. QED
        BY <4>2, <1>2
    <3>3. QED
      BY <3>1, <3>2
  <2>3. Weight(k) = -1
    BY <1>4 DEF Weight
  <2>4. ASSUME Fitted' PROVE \E at : StandsFor(at)'
    BY <1>1, <1>2, <2>1, <2>3, <2>4, KeyErased
  <2>5. QED
    BY <1>3, <2>2, <2>4 DEF LineInv
<1>5. CASE k = "control"
  <2>1. buffer' = buffer /\ Weight(k) = 0
    BY <1>1, <1>5 DEF KeyTaken, Weight
  <2>2. ASSUME Fitted' PROVE \E at : StandsFor(at)'
    BY <1>1, <1>2, <2>1, <2>2, KeyIgnored
  <2>3. QED
    BY <1>2, <1>3, <2>1, <2>2 DEF LineInv
<1>6. CASE k \notin {"erase", "control"}
  <2>1. buffer' = IF Len(buffer) < LineRoom THEN Append(buffer, k) ELSE buffer
    BY <1>1, <1>6 DEF KeyTaken
  <2>2. Weight(k) = 1
    BY <1>6 DEF Weight
  <2>3. CASE Len(buffer) < LineRoom
    <3>1. buffer' = Append(buffer, k)
      BY <2>1, <2>3
    <3>2. buffer' \in Seq(Strokes) /\ Len(buffer') <= LineRoom
      BY <3>1, <2>3, <1>2
    <3>3. ASSUME Fitted' PROVE \E at : StandsFor(at)'
      BY <1>1, <1>2, <2>2, <2>3, <3>1, <3>3, KeyAdded
    <3>4. QED
      BY <1>3, <3>2, <3>3 DEF LineInv
  <2>4. CASE ~(Len(buffer) < LineRoom)
    <3>1. buffer' = buffer /\ Len(buffer) >= LineRoom
      BY <2>1, <2>4, <1>2
    <3>2. ~Fitted'
      BY <1>1, <1>2, <2>2, <3>1, KeyRefused
    <3>3. QED
      BY <1>2, <1>3, <3>1, <3>2 DEF LineInv
  <2>5. QED
    BY <2>3, <2>4
<1>7. QED
  BY <1>4, <1>5, <1>6

\* A draw: the chain grows by the seed, a block at a time, and once more.
LEMMA DrawStep == ASSUME EntropyInv, Random PROVE Chained'
<1>1. CASE UNCHANGED DrawVars
  BY <1>1 DEF DrawVars, EntropyInv, Chained
<1>2. CASE ~UNCHANGED DrawVars
  <2>1. PICK n \in DrawBlocks :
            /\ drawn' = drawn \o BlocksOf(Seeded(pool'), n)
            /\ drbg' = Append(Advanced(Seeded(pool'), n), <<"next">>)
    BY <1>2 DEF Random
  <2>2. n \in Nat
    BY EntropyAssumption
  <2>3. PICK S : drbg \in Seq(S)
    BY DEF EntropyInv, Chained, IsASeq
  <2>4. PICK T : drawn \in Seq(T)
    BY DEF EntropyInv, Chained, IsASeq
  <2> DEFINE c == Seeded(pool')
             seed == <<"seed", pool'>>
             U == S \cup {seed, <<"V">>, <<"next">>}
  <2>5. c \in Seq(U) /\ Len(c) = Len(drbg) + 1
    BY <2>3 DEF Seeded
  <2> HIDE DEF c
  <2>6. ASSUME NEW i \in 0 .. n
        PROVE  Advanced(c, i) \in Seq(U) /\ Len(Advanced(c, i)) = Len(c) + i
    <3> DEFINE v == [q \in 1 .. i |-> <<"V">>]
    <3>1. i \in Nat /\ v \in Seq(U) /\ Len(v) = i
      BY <2>2
    <3> HIDE DEF v, U
    <3>2. c \o v \in Seq(U) /\ Len(c \o v) = Len(c) + i
      BY <2>5, <3>1
    <3>3. QED
      BY <3>2 DEF Advanced, v
  <2>7. drbg' \in Seq(U) /\ Len(drbg') = Len(drbg) + n + 2
    <3>1. n \in 0 .. n /\ <<"next">> \in U
      BY <2>2
    <3>2. Advanced(c, n) \in Seq(U) /\ Len(Advanced(c, n)) = Len(c) + n
      BY <3>1, <2>6
    <3>3. drbg' = Append(Advanced(c, n), <<"next">>)
      BY <2>1 DEF c
    <3>4. Len(drbg) \in Nat
      BY <2>3
    <3> HIDE DEF U
    <3>5. QED
      BY <3>1, <3>2, <3>3, <3>4, <2>2, <2>5
  <2> DEFINE b == BlocksOf(c, n)
             W == T \cup Seq(U)
  <2>8. b \in Seq(W) /\ Len(b) = n /\ \A i \in 1 .. n : b[i] = Advanced(c, i)
    <3>1. \A i \in 1 .. n : Advanced(c, i) \in W
      BY <2>2, <2>6
    <3> HIDE DEF W, U
    <3>2. QED
      BY <2>2, <3>1 DEF BlocksOf
  <2> HIDE DEF b
  <2> DEFINE k == Len(drawn)
  <2>9. /\ drawn' = drawn \o b /\ drawn \in Seq(W) /\ k \in Nat
    BY <2>1, <2>4 DEF b, c
  <2> HIDE DEF W
  <2>10. /\ drawn' \in Seq(W) /\ Len(drawn') = k + n
         /\ \A i \in 1 .. k : drawn'[i] = drawn[i]
         /\ \A i \in k + 1 .. k + n : drawn'[i] = b[i - k]
    <3>1. PICK l \in Nat : l = k
      BY <2>9
    <3>2. Len(drawn) = l /\ Len(b) = n
      BY <3>1, <2>8
    <3>3. /\ drawn \o b \in Seq(W) /\ Len(drawn \o b) = l + n
          /\ \A i \in 1 .. l : (drawn \o b)[i] = drawn[i]
          /\ \A i \in l + 1 .. l + n : (drawn \o b)[i] = b[i - l]
      <4>1. drawn \in Seq(W) /\ b \in Seq(W)
        BY <2>8, <2>9
      <4>2. QED
        BY ONLY <3>2, <4>1, Joining
    <3>4. QED
      BY <3>1, <3>3, <2>9
  <2>11. /\ \A i \in 1 .. k : Len(drawn[i]) \in Nat /\ Len(drawn[i]) <= Len(drbg)
         /\ \A i, j \in 1 .. k : i < j => Len(drawn[i]) < Len(drawn[j])
         /\ Len(drbg) \in Nat
    BY <2>3 DEF EntropyInv, Chained, k
  <2> HIDE DEF k
  <2>12. k \in Nat
    BY <2>9
  <2>13. \A i \in 1 .. k + n : i \in 1 .. k \/ i \in k + 1 .. k + n
    BY <2>9, <2>2
  <2>14. \A i \in k + 1 .. k + n : Len(drawn'[i]) = Len(drbg) + 1 + (i - k)
    <3>1. ASSUME NEW i \in k + 1 .. k + n PROVE Len(drawn'[i]) = Len(drbg) + 1 + (i - k)
      <4>1. i - k \in 1 .. n /\ i - k \in 0 .. n
        BY <2>2, <2>9
      <4>2. drawn'[i] = Advanced(c, i - k)
        BY <4>1, <2>8, <2>10
      <4>3. QED
        BY <4>1, <4>2, <2>5, <2>6
    <3>2. QED
      BY <3>1
  <2>15. ASSUME NEW i \in 1 .. k + n
         PROVE  Len(drawn'[i]) \in Nat /\ Len(drawn'[i]) <= Len(drbg')
    <3>1. CASE i \in 1 .. k
      BY <3>1, <2>2, <2>7, <2>10, <2>11
    <3>2. CASE i \in k + 1 .. k + n
      <4>1. Len(drawn'[i]) = Len(drbg) + 1 + (i - k) /\ i - k \in 1 .. n
        <5>1. Len(drawn'[i]) = Len(drbg) + 1 + (i - k)
          BY <3>2, <2>14
        <5>2. QED
          BY <5>1, <3>2, <2>2, <2>12
      <4>2. Len(drbg') = Len(drbg) + n + 2 /\ Len(drbg) \in Nat
        BY <2>7, <2>11
      <4>3. QED
        BY <4>1, <4>2, <2>2
    <3>3. QED
      BY <3>1, <3>2, <2>13
  <2>16. ASSUME NEW i \in 1 .. k + n, NEW j \in 1 .. k + n, i < j
         PROVE  Len(drawn'[i]) < Len(drawn'[j])
    <3>1. CASE j \in 1 .. k
      <4>1. i \in 1 .. k
        BY <3>1, <2>16, <2>9
      <4>2. QED
        BY <3>1, <4>1, <2>16, <2>10, <2>11
    <3>2. CASE j \in k + 1 .. k + n /\ i \in 1 .. k
      <4>1. Len(drawn'[j]) = Len(drbg) + 1 + (j - k) /\ j - k \in 1 .. n
        <5>1. Len(drawn'[j]) = Len(drbg) + 1 + (j - k)
          BY <3>2, <2>14
        <5>2. QED
          BY <5>1, <3>2, <2>2, <2>12
      <4>2. Len(drawn'[i]) \in Nat /\ Len(drawn'[i]) <= Len(drbg) /\ Len(drbg) \in Nat
        BY <3>2, <2>10, <2>11
      <4>3. QED
        BY <4>1, <4>2, <2>2
    <3>3. CASE j \in k + 1 .. k + n /\ i \in k + 1 .. k + n
      <4>1. Len(drawn'[j]) = Len(drbg) + 1 + (j - k) /\ j - k \in 1 .. n
        <5>1. Len(drawn'[j]) = Len(drbg) + 1 + (j - k)
          BY <3>3, <2>14
        <5>2. QED
          BY <5>1, <3>3, <2>2, <2>12
      <4>2. Len(drawn'[i]) = Len(drbg) + 1 + (i - k) /\ i - k \in 1 .. n
        <5>1. Len(drawn'[i]) = Len(drbg) + 1 + (i - k)
          BY <3>3, <2>14
        <5>2. QED
          BY <5>1, <3>3, <2>2, <2>12
      <4>3. Len(drbg) \in Nat /\ i - k < j - k
        BY <2>16, <2>12, <2>11
      <4>4. QED
        BY <4>1, <4>2, <4>3
    <3>4. QED
      BY <3>1, <3>2, <3>3, <2>13
  <2>17. QED
    BY <2>7, <2>10, <2>15, <2>16 DEF Chained, IsASeq
<1>3. QED
  BY <1>1, <1>2

-----------------------------------------------------------------------------
(* The calibration of the key derivation.                                  *)

\* The counter may wrap between its two readings.
LEMMA ElapsedIsTime ==
    ASSUME NEW t0 \in 0 .. Modulus - 1, NEW took \in 0 .. Modulus - 1
    PROVE  Elapsed(t0, (t0 + took) % Modulus) = took
<1>1. Modulus \in Nat \ {0}
  BY EntropyAssumption
<1>2. CASE t0 + took < Modulus
  <2>1. t0 + took \in 0 .. Modulus - 1
    BY <1>1, <1>2
  <2>2. (t0 + took) % Modulus = t0 + took
    BY <2>1, <1>1
  <2>3. (t0 + took) - t0 + Modulus = took + Modulus
    BY <1>1
  <2>4. (took + Modulus) % Modulus = took
    BY <1>1
  <2>5. QED
    BY <2>2, <2>3, <2>4 DEF Elapsed
<1>3. CASE t0 + took >= Modulus
  <2>1. t0 + took - Modulus \in 0 .. Modulus - 1
    BY <1>1, <1>3
  <2>2. (t0 + took) % Modulus = t0 + took - Modulus
    BY <2>1, <1>1
  <2>3. (t0 + took - Modulus) - t0 + Modulus = took
    BY <1>1
  <2>4. took % Modulus = took
    BY <1>1
  <2>5. QED
    BY <2>2, <2>3, <2>4 DEF Elapsed
<1>4. QED
  BY <1>1, <1>2, <1>3

LEMMA QuotientIs ==
    ASSUME NEW a \in Nat, NEW b \in Nat \ {0}
    PROVE  /\ a \div b \in Nat
           /\ (a \div b) * b <= a
           /\ (a \div b + 1) * b > a
           /\ b <= a => a \div b >= 1
OBVIOUS

LEMMA CalibrateStep == ASSUME Calibrate PROVE CalibratedToTarget'
<1> DEFINE total == Calibration * Target
<1>1. PICK t0 \in 0 .. Modulus - 1, took \in 0 .. Modulus - 1 :
        iterations' = {[start |-> t0, took |-> took,
                        iters |-> Iters(t0, Elapsed(t0, (t0 + took) % Modulus))]}
  BY DEF Calibrate
<1>2. PICK n : n = Iters(t0, took)
  OBVIOUS
<1>3. iterations' = {[start |-> t0, took |-> took, iters |-> n]}
  BY <1>1, <1>2, ElapsedIsTime
<1>4. Modulus \in Nat \ {0} /\ total \in Nat \ {0} /\ took \in Nat /\ Fallback >= 1
  <2>1. Calibration \in Nat \ {0} /\ Target \in Nat \ {0} /\ Modulus \in Nat \ {0} /\ Fallback >= 1
    BY EntropyAssumption
  <2>2. QED
    BY <2>1
<1> HIDE DEF total
<1>5. n = IF t0 = 0 \/ took = 0 THEN Fallback
          ELSE IF total \div took < 1 THEN 1 ELSE total \div took
  BY <1>2 DEF Iters, total
<1>6. CASE t0 = 0 \/ took = 0
  <2>1. n = Fallback
    BY <1>5, <1>6
  <2>2. n >= 1 /\ ~(t0 # 0 /\ took \in 1 .. total)
    BY <2>1, <1>4, <1>6
  <2>3. QED
    BY <1>3, <2>2 DEF CalibratedToTarget, total
<1>7. CASE t0 # 0 /\ took # 0
  <2>1. took \in Nat \ {0}
    BY <1>4, <1>7
  <2> DEFINE q == total \div took
  <2>2. /\ q \in Nat /\ q * took <= total /\ (q + 1) * took > total
        /\ took <= total => q >= 1
    BY <1>4, <2>1, QuotientIs
  <2>3. n = IF q < 1 THEN 1 ELSE q
    BY <1>5, <1>7
  <2> HIDE DEF q
  <2>4. n >= 1 /\ (took \in 1 .. total => n = q)
    BY <2>2, <2>3
  <2>5. took \in 1 .. total => n * took <= total /\ (n + 1) * took > total
    BY <2>2, <2>4
  <2>6. QED
    BY <1>3, <2>4, <2>5 DEF CalibratedToTarget, total
<1>8. QED
  BY <1>6, <1>7

LEMMA InitEntropy == EntropyInit => EntropyInv
<1> SUFFICES ASSUME EntropyInit PROVE EntropyInv
  OBVIOUS
<1>1. Chained
  <2>1. <<>> \in Seq({}) /\ Len(<<>>) = 0 /\ 1 .. 0 = {}
    OBVIOUS
  <2>2. QED
    BY <2>1 DEF EntropyInit, Chained, IsASeq
<1>2. NothingKept /\ CalibratedToTarget
  BY DEF EntropyInit, NothingKept, CalibratedToTarget
<1>3. LineInv
  BY LineEmpty DEF EntropyInit
<1>4. QED
  BY <1>1, <1>2, <1>3 DEF EntropyInv

\* What a timer that does not open leaves behind: nothing.
LEMMA TimerStep ==
    ASSUME NothingKept, TimerReady PROVE timer' # "open" => resources' = {}
<1>1. CASE timer # "untried"
  BY <1>1 DEF TimerReady, NothingKept
<1>2. CASE timer = "untried"
  <2>1. \E got : Gets(got)
    BY <1>2 DEF TimerReady
  <2>2. QED
    BY <2>1 DEF Gets, AfterFailure
<1>3. QED
  BY <1>1, <1>2

LEMMA EntropyStep == ASSUME EntropyInv, [EntropyNext]_entropyVars PROVE EntropyInv'
<1>1. Chained /\ NothingKept /\ LineInv /\ CalibratedToTarget
  BY DEF EntropyInv
<1>2. CASE Random
  <2>1. /\ timer' # "open" => resources' = {}
        /\ UNCHANGED <<console, prompt, buffer, typed>> /\ iterations' = {}
    BY <1>1, <1>2, TimerStep DEF Random, TypingVars
  <2>2. Chained'
    BY <1>2, DrawStep
  <2>3. QED
    BY <1>1, <2>1, <2>2, LineKept DEF EntropyInv, NothingKept, CalibratedToTarget
<1>3. CASE Ask
  <2>1. /\ typed' = <<>> /\ buffer' = <<>> /\ prompt' # "none" /\ iterations' = {}
        /\ UNCHANGED <<drbg, drawn>>
    BY <1>3 DEF Ask, DrawVars
  <2>2. timer' # "open" => resources' = {}
    BY <1>1, <1>3, TimerStep DEF Ask, NothingKept
  <2>3. LineInv'
    <3>1. (typed = <<>> /\ buffer = <<>> => LineInv)'
      BY LineEmpty, PTL
    <3>2. QED
      BY <2>1, <3>1
  <2>4. QED
    BY <1>1, <2>1, <2>2, <2>3 DEF EntropyInv, Chained, NothingKept, CalibratedToTarget
<1>4. CASE Key
  <2>1. prompt' # "none" /\ iterations' = {} /\ UNCHANGED <<drbg, drawn, timer, resources>>
    BY <1>4 DEF Key, DrawVars
  <2>2. LineInv'
    BY <1>4, KeyStep
  <2>3. QED
    BY <1>1, <2>1, <2>2 DEF EntropyInv, Chained, NothingKept, CalibratedToTarget
<1>5. CASE Entered
  <2>1. /\ console' = "cooked" /\ iterations' = {}
        /\ UNCHANGED <<drbg, drawn, timer, resources, buffer, typed>>
    BY <1>5 DEF Entered, DrawVars, ConsoleAfter
  <2>2. QED
    BY <1>1, <2>1, LineKept DEF EntropyInv, Chained, NothingKept, CalibratedToTarget
<1>6. CASE Used
  <2>1. /\ typed' = <<>> /\ buffer' = <<>> /\ iterations' = {}
        /\ UNCHANGED <<drbg, drawn, timer, resources, console, prompt>>
    BY <1>6 DEF Used, DrawVars
  <2>2. LineInv'
    <3>1. (typed = <<>> /\ buffer = <<>> => LineInv)'
      BY LineEmpty, PTL
    <3>2. QED
      BY <2>1, <3>1
  <2>3. QED
    BY <1>1, <2>1, <2>2 DEF EntropyInv, Chained, NothingKept, CalibratedToTarget
<1>7. CASE Calibrate
  <2>1. UNCHANGED <<drbg, drawn, timer, resources, console, prompt, buffer, typed>>
    BY <1>7 DEF Calibrate, DrawVars, TypingVars
  <2>2. CalibratedToTarget'
    BY <1>7, CalibrateStep
  <2>3. QED
    BY <1>1, <2>1, <2>2, LineKept DEF EntropyInv, Chained, NothingKept
<1>8. CASE Cleanup
  <2>1. /\ resources' = {} /\ drbg' = <<>> /\ drawn' = <<>> /\ iterations' = {}
        /\ UNCHANGED <<console, prompt, buffer, typed>>
    BY <1>8 DEF Cleanup, TypingVars
  <2>2. Chained'
    <3>1. <<>> \in Seq({}) /\ Len(<<>>) = 0 /\ 1 .. 0 = {}
      OBVIOUS
    <3>2. QED
      BY <2>1, <3>1 DEF Chained, IsASeq
  <2>3. QED
    BY <1>1, <2>1, <2>2, LineKept DEF EntropyInv, NothingKept, CalibratedToTarget
<1>9. CASE UNCHANGED entropyVars
  BY <1>1, <1>9, LineKept DEF entropyVars, EntropyInv, Chained, NothingKept, CalibratedToTarget
<1>10. QED
  BY <1>2, <1>3, <1>4, <1>5, <1>6, <1>7, <1>8, <1>9 DEF EntropyNext

LEMMA InvIsFresh == EntropyInv => FreshAndAsTyped
<1> SUFFICES ASSUME EntropyInv PROVE FreshAndAsTyped
  OBVIOUS
<1>1. DrawsDiffer
  <2>1. PICK S : drawn \in Seq(S)
    BY DEF EntropyInv, Chained, IsASeq
  <2>2. DOMAIN drawn = 1 .. Len(drawn) /\ Len(drawn) \in Nat
    BY <2>1
  <2>3. ASSUME NEW i \in 1 .. Len(drawn), NEW j \in 1 .. Len(drawn), i # j
        PROVE  drawn[i] # drawn[j]
    <3>1. Len(drawn[i]) \in Nat /\ Len(drawn[j]) \in Nat
      BY DEF EntropyInv, Chained
    <3>2. i < j \/ j < i
      BY <2>2, <2>3
    <3>3. Len(drawn[i]) < Len(drawn[j]) \/ Len(drawn[j]) < Len(drawn[i])
      BY <3>2 DEF EntropyInv, Chained
    <3>4. QED
      BY <3>1, <3>3
  <2>4. QED
    BY <2>2, <2>3 DEF DrawsDiffer
<1>2. LineAsTyped
  <2>1. buffer \in Seq(Strokes) /\ Len(buffer) <= LineRoom
    BY DEF EntropyInv, LineInv
  <2>2. DOMAIN buffer = 1 .. Len(buffer)
    BY <2>1
  <2>3. ASSUME Fitted PROVE \E at \in [DOMAIN buffer -> Survivors] : Reads(at)
    <3>1. PICK at : StandsFor(at)
      BY <2>3 DEF EntropyInv, LineInv
    <3>2. QED
      BY <3>1, <2>2 DEF StandsFor
  <2>4. QED
    BY <2>1, <2>3 DEF LineAsTyped
<1>3. QED
  BY <1>1, <1>2 DEF EntropyInv, FreshAndAsTyped

\* random.c, drbg.c, console.c: no block of a run is given out twice, whatever
\* the machine gives to the pool; a timer that did not open holds nothing and
\* the console is cooked again; a line is what was typed and not erased; and
\* the calibration is of the time it took, also when the counter wraps.
THEOREM DrawnAndTyped ==
    EntropyInit /\ [][EntropyNext]_entropyVars => []FreshAndAsTyped
<1>1. EntropyInit => EntropyInv
  BY InitEntropy
<1>2. EntropyInv /\ [EntropyNext]_entropyVars => EntropyInv'
  BY EntropyStep
<1>3. EntropyInv => FreshAndAsTyped
  BY InvIsFresh
<1>4. QED
  BY <1>1, <1>2, <1>3, PTL

-----------------------------------------------------------------------------
(* The list of snapshots: a set of ids and its list.                       *)

Increasing(q) == \A i, j \in DOMAIN q : i < j => q[i] < q[j]

\* q lists S.
IsListOf(q, S) ==
    /\ q \in Seq(S) /\ Len(q) = Cardinality(S) /\ Increasing(q)
    /\ \A x \in S : \E i \in 1 .. Len(q) : x = q[i]

\* An id's place in the list is how many are not above it; each has its own.
LEMMA SortedIncreases ==
    ASSUME NEW S \in SUBSET Nat, IsFiniteSet(S)
    PROVE  Sorted(S) \in SetToSeqs(S) /\ Increasing(Sorted(S))
<1> DEFINE n == Cardinality(S)
           Below(x) == {y \in S : y <= x}
           rank == [x \in S |-> Cardinality(Below(x))]
<1>1. n \in Nat /\ IsFiniteSet(1 .. n) /\ Cardinality(1 .. n) = n
  BY FS_CardinalityType, FS_Interval
<1>2. \A x \in S : Below(x) \in SUBSET S /\ x \in Below(x)
  OBVIOUS
<1>3. ASSUME NEW x \in S
      PROVE  IsFiniteSet(Below(x)) /\ rank[x] \in 1 .. n /\ rank[x] = Cardinality(Below(x))
  <2> DEFINE B == Below(x)
  <2>1. B \in SUBSET S /\ x \in B /\ rank[x] = Cardinality(B)
    BY <1>2
  <2> HIDE DEF B, rank
  <2>2. IsFiniteSet(B) /\ Cardinality(B) <= n /\ Cardinality(B) \in Nat
    BY <2>1, FS_Subset, FS_CardinalityType
  <2>3. Cardinality(B) # 0
    BY <2>1, <2>2, FS_EmptySet
  <2>4. QED
    BY <2>1, <2>2, <2>3, <1>1 DEF B
<1>4. ASSUME NEW x \in S, NEW y \in S, x < y
      PROVE  rank[x] < rank[y]
  <2> DEFINE B == Below(x)
             C == Below(y)
  <2>0. x \in Nat /\ y \in Nat /\ \A z \in S : z \in Nat
    OBVIOUS
  <2>1. B \in SUBSET C /\ B # C
    <3>1. \A z \in S : z <= x => z <= y
      BY <2>0, <1>4
    <3>2. y \in C /\ y \notin B
      BY <2>0, <1>4
    <3>3. QED
      BY <3>1, <3>2
  <2>2. /\ IsFiniteSet(C) /\ rank[x] = Cardinality(B) /\ rank[y] = Cardinality(C)
        /\ rank[x] \in Nat /\ rank[y] \in Nat
    <3> HIDE DEF rank, Below
    <3>1. rank[x] \in 1 .. n /\ rank[y] \in 1 .. n
      BY <1>3
    <3>2. QED
      BY <3>1, <1>3, <1>1
  <2> HIDE DEF B, C, rank
  <2>3. Cardinality(B) <= Cardinality(C) /\ (Cardinality(C) = Cardinality(B) => C = B)
    BY <2>1, <2>2, FS_Subset
  <2>4. QED
    BY <2>1, <2>2, <2>3
<1>5. rank \in Injection(S, 1 .. n)
  <2>1. rank \in [S -> 1 .. n]
    BY <1>3
  <2>2. \A x, y \in S : rank[x] = rank[y] => x = y
    <3>1. ASSUME NEW x \in S, NEW y \in S, x # y PROVE rank[x] # rank[y]
      <4>1. x < y \/ y < x
        <5>1. x \in Nat /\ y \in Nat
          OBVIOUS
        <5>2. QED
          BY <5>1, <3>1
      <4>2. rank[x] \in Int /\ rank[y] \in Int
        <5> HIDE DEF rank, Below
        <5>1. rank[x] \in 1 .. n /\ rank[y] \in 1 .. n
          BY <1>3
        <5>2. QED
          BY <5>1, <1>1
      <4> HIDE DEF rank
      <4>3. rank[x] < rank[y] \/ rank[y] < rank[x]
        BY <4>1, <1>4
      <4>4. QED
        BY <4>2, <4>3
    <3>2. QED
      BY <3>1
  <2> HIDE DEF rank
  <2>3. QED
    BY <2>1, <2>2 DEF Injection, IsInjective
<1>6. \A i \in 1 .. n : \E x \in S : rank[x] = i
  <2> HIDE DEF rank
  <2>1. rank \in Surjection(S, 1 .. n)
    BY <1>1, <1>5, FS_Injection
  <2>2. QED
    BY <2>1 DEF Surjection
<1> DEFINE q == Sorted(S)
<1>a. q = [i \in 1 .. n |-> CHOOSE x \in S : Cardinality(Below(x)) = i]
  BY DEF Sorted
<1> HIDE DEF q
<1>7. ASSUME NEW i \in 1 .. n
      PROVE  q[i] \in S /\ rank[q[i]] = i
  <2>1. \E x \in S : Cardinality(Below(x)) = i
    BY <1>6
  <2>2. q[i] = CHOOSE x \in S : Cardinality(Below(x)) = i
    BY <1>a
  <2> HIDE DEF Below
  <2>3. q[i] \in S /\ Cardinality(Below(q[i])) = i
    BY <2>1, <2>2
  <2>4. QED
    BY <2>3
<1>8. q \in [1 .. n -> S] /\ DOMAIN q = 1 .. n
  <2> HIDE DEF rank, Below
  <2> QED  BY <1>7, <1>a
<1> HIDE DEF rank
<1>9. \A i, j \in 1 .. n : i # j => q[i] # q[j]
  BY <1>7
<1>10. ASSUME NEW i \in 1 .. n, NEW j \in 1 .. n, i < j
       PROVE  q[i] < q[j]
  <2>1. q[i] \in S /\ q[j] \in S /\ rank[q[i]] = i /\ rank[q[j]] = j
    BY <1>7
  <2>2. ASSUME q[j] < q[i] PROVE FALSE
    <3>1. rank[q[j]] < rank[q[i]]
      BY <2>1, <2>2, <1>4
    <3>2. QED
      BY <3>1, <2>1, <1>10, <1>1
  <2>3. q[i] # q[j] /\ q[i] \in Nat /\ q[j] \in Nat
    <3>1. i # j
      BY <1>1, <1>10
    <3>2. q[i] # q[j]
      BY <3>1, <1>9
    <3>3. QED
      BY <3>2, <2>1
  <2>4. QED
    BY <2>2, <2>3
<1>11. q \in SetToSeqs(S)
  BY <1>8, <1>9 DEF SetToSeqs
<1>12. Increasing(q)
  BY <1>8, <1>10 DEF Increasing
<1>13. QED
  BY <1>11, <1>12 DEF q

LEMMA SortedLists ==
    ASSUME NEW S \in SUBSET Nat, IsFiniteSet(S)
    PROVE  IsListOf(Sorted(S), S)
<1> DEFINE q == Sorted(S)
           n == Cardinality(S)
<1>1. q \in SetToSeqs(S) /\ Increasing(q)
  BY SortedIncreases
<1> HIDE DEF q
<1>2. n \in Nat /\ q \in [1 .. n -> S] /\ \A i, j \in 1 .. n : i # j => q[i] # q[j]
  BY <1>1, FS_CardinalityType DEF SetToSeqs
<1>3. q \in Seq(S) /\ Len(q) = n
  BY <1>2
<1>4. q \in Injection(1 .. n, S)
  <2>1. \A i, j \in 1 .. n : q[i] = q[j] => i = j
    BY <1>2
  <2>2. QED
    BY <1>2, <2>1 DEF Injection, IsInjective
<1>5. q \in Surjection(1 .. n, S)
  <2>1. Cardinality(1 .. n) = n
    BY <1>2, FS_Interval
  <2>2. QED
    BY <2>1, <1>4, FS_Injection
<1>6. \A x \in S : \E i \in 1 .. n : x = q[i]
  BY <1>5 DEF Surjection
<1>7. QED
  BY <1>1, <1>3, <1>6 DEF IsListOf, q

\* As many are above an id as follow it in the list.
LEMMA AboveInList ==
    ASSUME NEW S \in SUBSET Nat, IsFiniteSet(S), NEW q, IsListOf(q, S), NEW i \in 1 .. Len(q)
    PROVE  /\ Cardinality({y \in S : y > q[i]}) = Len(q) - i
           /\ \A k \in i + 1 .. Len(q) : q[k] \in S /\ q[k] > q[i]
<1> DEFINE n == Len(q)
           above == {y \in S : y > q[i]}
           f == [k \in 1 .. n - i |-> q[i + k]]
<1>1. /\ n \in Nat /\ q \in Seq(S) /\ DOMAIN q = 1 .. n /\ \A k \in 1 .. n : q[k] \in S
      /\ i \in 1 .. n /\ n - i \in Nat
  BY FS_CardinalityType DEF IsListOf
<1> HIDE DEF n
<1>2. \A j, k \in 1 .. n : j < k => q[j] < q[k]
  BY <1>1 DEF IsListOf, Increasing
<1>3. \A k \in i + 1 .. n : q[k] \in S /\ q[k] > q[i]
  BY <1>1, <1>2
<1>4. \A k \in 1 .. n - i : i + k \in i + 1 .. n
  BY <1>1
<1>5. f \in [1 .. n - i -> above]
  BY <1>3, <1>4
<1>6. \A y \in above : \E k \in 1 .. n - i : f[k] = y
  <2>1. ASSUME NEW y \in above PROVE \E k \in 1 .. n - i : f[k] = y
    <3>1. PICK j \in 1 .. n : y = q[j]
      BY <2>1 DEF IsListOf, n
    <3>2. ~(j < i) /\ j # i
      <4>1. q[j] \in Nat /\ q[i] \in Nat /\ q[j] > q[i]
        BY <3>1, <2>1, <1>1
      <4>2. j < i => q[j] < q[i]
        BY <3>1, <1>1, <1>2
      <4>3. QED
        BY <4>1, <4>2
    <3>3. j - i \in 1 .. n - i /\ i + (j - i) = j
      BY <3>2, <1>1
    <3>4. QED
      BY <3>1, <3>3
  <2>2. QED
    BY <2>1
<1>7. \A j, k \in 1 .. n - i : f[j] = f[k] => j = k
  <2>1. ASSUME NEW j \in 1 .. n - i, NEW k \in 1 .. n - i, j < k PROVE f[j] # f[k]
    <3>1. i + j \in 1 .. n /\ i + k \in 1 .. n /\ i + j < i + k
      BY <2>1, <1>1
    <3>2. q[i + j] < q[i + k] /\ q[i + j] \in Nat /\ q[i + k] \in Nat
      BY <3>1, <1>1, <1>2
    <3>3. QED
      BY <3>2
  <2>2. \A j, k \in 1 .. n - i : j < k \/ k < j \/ j = k
    BY <1>1
  <2> HIDE DEF f
  <2>3. QED
    BY <2>1, <2>2
<1>8. f \in Bijection(1 .. n - i, above)
  <2> HIDE DEF f, above
  <2>1. f \in Injection(1 .. n - i, above)
    BY <1>5, <1>7 DEF Injection, IsInjective
  <2>2. f \in Surjection(1 .. n - i, above)
    BY <1>5, <1>6 DEF Surjection
  <2>3. QED
    BY <2>1, <2>2 DEF Bijection
<1>9. Cardinality(above) = n - i
  <2> HIDE DEF f, above
  <2>1. ExistsBijection(1 .. n - i, above)
    BY <1>8 DEF ExistsBijection
  <2>2. QED
    BY <2>1, <1>1, FS_CountingElements
<1>10. QED
  BY <1>3, <1>9 DEF n

\* What the commands take of the backend's snapshots.
LEMMA CollectedIs ==
    ASSUME NEW all \in SUBSET Nat, IsFiniteSet(all), NEW S \in Collected(all)
    PROVE  /\ S \in SUBSET all /\ S \in SUBSET Nat /\ IsFiniteSet(S)
           /\ Cardinality(all) <= MaxSnapshots => S = all
<1>1. Cardinality(all) \in Nat /\ MaxSnapshots \in Nat
  BY FS_CardinalityType, ListAssumption
<1>2. S \in SUBSET all /\ (Cardinality(all) <= MaxSnapshots => Cardinality(S) = Cardinality(all))
  BY <1>1 DEF Collected
<1>3. QED
  BY <1>2, FS_Subset

-----------------------------------------------------------------------------
(* The invariant.  What LIST has shown and what is left of its list are in *)
(* order; what was there when it began and still is, is in one of them; it *)
(* is not degraded only if all that was shown could be read.               *)

ListInv ==
    /\ Snapshots \in SUBSET Nat /\ IsFiniteSet(Snapshots)
    /\ \A i \in Snapshots : stored[i] \in BOOLEAN
    /\ code \in {"idle", "running", "ok", "warn"}
    /\ ids \in Seq(Nat) /\ Increasing(ids)
    /\ shown \in Seq([id : Nat, ok : BOOLEAN])
    /\ \A i, j \in 1 .. Len(shown) : i < j => shown[i].id < shown[j].id
    /\ \A i \in 1 .. Len(shown), j \in 1 .. Len(ids) : shown[i].id < ids[j]
    /\ ~truncated => \A x \in present : \/ \E i \in 1 .. Len(shown) : x = shown[i].id
                                       \/ \E j \in 1 .. Len(ids) : x = ids[j]
    /\ ~degraded => \A i \in 1 .. Len(shown) : shown[i].ok
    /\ code = "idle" => shown = <<>>
    /\ code = "ok" => ids = <<>> /\ ~degraded

\* A clean bill is one.
LEMMA CleanIsClean == ListInv => CleanListIsClean
<1> SUFFICES ASSUME ListInv, code = "ok", ~truncated
             PROVE  /\ present \subseteq {shown[i].id : i \in DOMAIN shown}
                    /\ \A i \in DOMAIN shown :
                          shown[i].ok /\ (i > 1 => shown[i - 1].id < shown[i].id)
  BY DEF CleanListIsClean
<1>1. DOMAIN shown = 1 .. Len(shown) /\ Len(shown) \in Nat
  BY DEF ListInv
<1>2. ids = <<>> /\ ~degraded /\ 1 .. Len(ids) = {}
  BY DEF ListInv
<1>3. present \subseteq {shown[i].id : i \in DOMAIN shown}
  BY <1>1, <1>2 DEF ListInv
<1>4. ASSUME NEW i \in DOMAIN shown, i > 1 PROVE shown[i - 1].id < shown[i].id
  <2>1. i - 1 \in 1 .. Len(shown) /\ i \in 1 .. Len(shown) /\ i - 1 < i
    BY <1>1, <1>4
  <2>2. QED
    BY <2>1 DEF ListInv
<1>5. QED
  BY <1>1, <1>2, <1>3, <1>4 DEF ListInv

\* PRUNE KEEP_LAST=n.
LEMMA NewestKept == ListInv => KeepsTheNewest
<1> SUFFICES ASSUME ListInv, NEW n \in KeepLast, KeepLastIs(n)
             PROVE  /\ Newest(Snapshots, n) \subseteq DOMAIN stored'
                    /\ Cardinality(Snapshots) <= MaxSnapshots =>
                            DOMAIN stored' = Newest(Snapshots, n)
  BY DEF KeepsTheNewest
<1>1. PICK S \in Collected(Snapshots) : Drop(Deleted(Sorted(S), n))
  BY DEF KeepLastIs
<1>2. /\ Snapshots \in SUBSET Nat /\ IsFiniteSet(Snapshots) /\ n \in Nat
  BY ListAssumption DEF ListInv
<1>3. /\ S \in SUBSET Snapshots /\ S \in SUBSET Nat /\ IsFiniteSet(S)
      /\ Cardinality(Snapshots) <= MaxSnapshots => S = Snapshots
  BY <1>2, CollectedIs
<1> DEFINE q == Sorted(S)
           gone == Deleted(q, n)
<1>4. IsListOf(q, S)
  BY <1>3, SortedLists
<1> HIDE DEF q
<1>5. Len(q) \in Nat /\ \A i \in 1 .. Len(q) : q[i] \in S
  BY <1>4 DEF IsListOf
<1>6. DOMAIN stored' = Snapshots \ gone
  BY <1>1 DEF Drop, q
<1>7. gone = {q[i] : i \in 1 .. Len(q) - n}
  BY DEF Deleted
<1> HIDE DEF gone
<1>8. ASSUME NEW x \in Newest(Snapshots, n) PROVE x \notin gone
  <2>1. SUFFICES ASSUME NEW i \in 1 .. Len(q) - n, x = q[i] PROVE FALSE
    BY <1>7
  <2> DEFINE above == {y \in S : y > x}
             all == {y \in Snapshots : y > x}
  <2>2. i \in 1 .. Len(q)
    BY <2>1, <1>2, <1>5
  <2>3. Cardinality(above) = Len(q) - i
    BY <2>1, <2>2, <1>3, <1>4, AboveInList
  <2>4. above \in SUBSET all /\ all \in SUBSET Snapshots
    BY <1>3
  <2>5. Cardinality(all) < n
    BY <1>8 DEF Newest
  <2> HIDE DEF above, all
  <2>6. IsFiniteSet(all) /\ Cardinality(all) \in Nat
    BY <2>4, <1>2, FS_Subset, FS_CardinalityType
  <2>7. Cardinality(above) <= Cardinality(all)
    BY <2>4, <2>6, FS_Subset
  <2>8. QED
    BY <2>1, <2>3, <2>5, <2>6, <2>7, <1>2, <1>5
<1>9. Newest(Snapshots, n) \subseteq Snapshots
  BY DEF Newest
<1>10. ASSUME S = Snapshots, NEW x \in Snapshots, x \notin gone PROVE x \in Newest(Snapshots, n)
  <2>1. PICK i \in 1 .. Len(q) : x = q[i]
    BY <1>4, <1>10 DEF IsListOf
  <2>2. ~(i <= Len(q) - n)
    BY <2>1, <1>7, <1>10, <1>5, <1>2
  <2>3. Cardinality({y \in Snapshots : y > x}) = Len(q) - i
    BY <2>1, <1>3, <1>4, <1>10, AboveInList
  <2>4. Len(q) - i < n
    BY <2>1, <2>2, <1>2, <1>5
  <2>5. QED
    BY <2>3, <2>4 DEF Newest
<1>11. QED
  BY <1>3, <1>6, <1>8, <1>9, <1>10

\* Without SNAPID the last of the list is the greatest id.
LEMMA LastIsMax ==
    ASSUME ListInv, NEW S \in Collected(Snapshots), Snapshots # {},
           Cardinality(Snapshots) <= MaxSnapshots
    PROVE  Last(Sorted(S)) = Max(Snapshots)
<1> DEFINE q == Sorted(S)
<1>1. Snapshots \in SUBSET Nat /\ IsFiniteSet(Snapshots) /\ S = Snapshots
  BY CollectedIs DEF ListInv
<1>2. IsListOf(q, Snapshots)
  BY <1>1, SortedLists
<1> HIDE DEF q
<1>3. Len(q) \in Nat /\ (\A i \in 1 .. Len(q) : q[i] \in Snapshots) /\ DOMAIN q = 1 .. Len(q)
      /\ (\A x \in Snapshots : \E i \in 1 .. Len(q) : x = q[i])
  BY <1>2 DEF IsListOf
<1>4. Len(q) \in 1 .. Len(q)
  BY <1>3
<1> DEFINE m == q[Len(q)]
<1>5. m \in Snapshots
  BY <1>3, <1>4
<1>6. ASSUME NEW x \in Snapshots PROVE m >= x
  <2>1. PICK i \in 1 .. Len(q) : x = q[i]
    BY <1>3
  <2>2. i < Len(q) => q[i] < m
    BY <2>1, <1>3, <1>4, <1>2 DEF IsListOf, Increasing
  <2>3. m \in Nat /\ x \in Nat
    BY <1>1, <1>5
  <2>4. QED
    BY <2>1, <2>2, <2>3, <1>3
<1>7. Last(q) = m
  BY DEF Last
<1> HIDE DEF m
<1>8. \A k \in Snapshots : (\A y \in Snapshots : k >= y) => k = m
  BY <1>1, <1>5, <1>6
<1>9. Max(Snapshots) = m
  BY <1>5, <1>6, <1>8 DEF Max
<1>10. QED
  BY <1>7, <1>9 DEF q

-----------------------------------------------------------------------------
(* The list of snapshots: the steps.                                       *)

LEMMA InitList == ListInit => ListInv
<1> SUFFICES ASSUME ListInit PROVE ListInv
  OBVIOUS
<1>1. stored = <<>> /\ ids = <<>> /\ shown = <<>> /\ code = "idle" /\ present = {}
  BY DEF ListInit
<1>2. Snapshots = {}
  BY <1>1 DEF Snapshots
<1>3. ids \in Seq(Nat) /\ shown \in Seq([id : Nat, ok : BOOLEAN]) /\ DOMAIN ids = {}
      /\ Len(ids) = 0 /\ Len(shown) = 0 /\ 1 .. 0 = {}
  BY <1>1
<1>4. QED
  BY <1>1, <1>2, <1>3, FS_EmptySet DEF ListInv, Increasing

\* Another command's: what LIST has is as it was, and nothing was there all
\* the while that was not before.
LEMMA OthersStep ==
    ASSUME ListInv, UNCHANGED Reader, present' \subseteq present,
           Snapshots' \in SUBSET Nat, IsFiniteSet(Snapshots'),
           \A i \in Snapshots' : stored'[i] \in BOOLEAN
    PROVE  ListInv'
<1>1. UNCHANGED <<ids, shown, degraded, code, truncated>>
  BY DEF Reader
<1>2. (Snapshots \in SUBSET Nat /\ IsFiniteSet(Snapshots) /\ \A i \in Snapshots : stored[i] \in BOOLEAN)'
  OBVIOUS
<1>3. (code \in {"idle", "running", "ok", "warn"} /\ ids \in Seq(Nat) /\ Increasing(ids)
         /\ shown \in Seq([id : Nat, ok : BOOLEAN]))'
  BY <1>1 DEF ListInv, Increasing
<1>4. (~truncated => \A x \in present : \/ \E i \in 1 .. Len(shown) : x = shown[i].id
                                       \/ \E j \in 1 .. Len(ids) : x = ids[j])'
  BY <1>1 DEF ListInv
<1>5. (/\ \A i, j \in 1 .. Len(shown) : i < j => shown[i].id < shown[j].id
       /\ \A i \in 1 .. Len(shown), j \in 1 .. Len(ids) : shown[i].id < ids[j]
       /\ ~degraded => \A i \in 1 .. Len(shown) : shown[i].ok
       /\ code = "idle" => shown = <<>>
       /\ code = "ok" => ids = <<>> /\ ~degraded)'
  BY <1>1 DEF ListInv
<1>6. QED
  BY <1>2, <1>3, <1>4, <1>5 DEF ListInv

LEMMA StoreStep ==
    ASSUME ListInv, Create \/ Rots \/ PruneOne \/ PruneKeepLast \/ Resolve
    PROVE  ListInv'
<1>1. Snapshots \in SUBSET Nat /\ IsFiniteSet(Snapshots) /\ \A i \in Snapshots : stored[i] \in BOOLEAN
  BY DEF ListInv
<1>2. CASE Create
  <2>1. PICK i \in Stamps \ Snapshots :
            stored' = [j \in Snapshots \cup {i} |-> IF j = i THEN TRUE ELSE stored[j]]
    BY <1>2 DEF Create
  <2>2. Snapshots' = Snapshots \cup {i} /\ i \in Nat
    BY <2>1, ListAssumption DEF Snapshots
  <2>3. IsFiniteSet(Snapshots')
    BY <2>2, <1>1, FS_AddElement
  <2>4. \A j \in Snapshots' : stored'[j] \in BOOLEAN
    BY <2>1, <2>2, <1>1
  <2>5. UNCHANGED Reader /\ present' \subseteq present
    BY <1>2 DEF Create
  <2>6. QED
    BY <2>2, <2>3, <2>4, <2>5, <1>1, OthersStep
<1>3. CASE Rots
  <2>1. PICK i \in Snapshots : stored' = [stored EXCEPT ![i] = FALSE]
    BY <1>3 DEF Rots
  <2>2. Snapshots' = Snapshots
    BY <2>1 DEF Snapshots
  <2>3. \A j \in Snapshots' : stored'[j] \in BOOLEAN
    BY <2>1, <2>2, <1>1 DEF Snapshots
  <2>4. UNCHANGED Reader /\ present' \subseteq present
    BY <1>3 DEF Rots
  <2>5. QED
    BY <2>2, <2>3, <2>4, <1>1, OthersStep
<1>4. CASE PruneOne \/ PruneKeepLast
  <2>1. UNCHANGED Reader /\ \E gone : Drop(gone)
    BY <1>4 DEF PruneOne, PruneKeepLast, KeepLastIs
  <2>2. PICK gone : Drop(gone)
    BY <2>1
  <2>3. Snapshots' = Snapshots \ gone /\ present' \subseteq present
    BY <2>2 DEF Drop, Snapshots
  <2>4. IsFiniteSet(Snapshots')
    BY <2>3, <1>1, FS_Subset
  <2>5. \A j \in Snapshots' : stored'[j] \in BOOLEAN
    BY <2>2, <2>3, <1>1 DEF Drop
  <2>6. QED
    BY <2>1, <2>3, <2>4, <2>5, <1>1, OthersStep
<1>5. CASE Resolve
  <2>1. UNCHANGED Reader /\ UNCHANGED <<stored, present>>
    BY <1>5 DEF Resolve, Reader
  <2>2. Snapshots' = Snapshots
    BY <2>1 DEF Snapshots
  <2>3. QED
    BY <2>1, <2>2, <1>1, OthersStep
<1>6. QED
  BY <1>2, <1>3, <1>4, <1>5

LEMMA ListStep == ASSUME ListInv, List PROVE ListInv'
<1>1. PICK S \in Collected(Snapshots) : ids' = Sorted(S)
  BY DEF List
<1>2. /\ code' = "running" /\ present' = Snapshots /\ shown' = <<>> /\ degraded' = FALSE
      /\ truncated' = (Cardinality(Snapshots) > MaxSnapshots) /\ stored' = stored
  BY DEF List
<1>3. Snapshots \in SUBSET Nat /\ IsFiniteSet(Snapshots) /\ \A i \in Snapshots : stored[i] \in BOOLEAN
  BY DEF ListInv
<1>4. Snapshots' = Snapshots
  BY <1>2 DEF Snapshots
<1>5. /\ S \in SUBSET Nat /\ IsFiniteSet(S)
      /\ Cardinality(Snapshots) <= MaxSnapshots => S = Snapshots
  BY <1>3, CollectedIs
<1>6. IsListOf(ids', S)
  BY <1>1, <1>5, SortedLists
<1>7. ids' \in Seq(Nat) /\ Increasing(ids)'
  <2>1. PICK q : q = ids'
    OBVIOUS
  <2>2. q \in Seq(S) /\ Increasing(q)
    BY <2>1, <1>6 DEF IsListOf
  <2>3. q \in Seq(Nat)
    <3>1. Len(q) \in Nat /\ q \in [1 .. Len(q) -> S]
      BY <2>2
    <3>2. q \in [1 .. Len(q) -> Nat]
      BY <3>1, <1>5
    <3>3. QED
      BY <3>1, <3>2
  <2>4. \A i, j \in DOMAIN ids' : i < j => ids'[i] < ids'[j]
    BY <2>1, <2>2 DEF Increasing
  <2>5. QED
    BY <2>1, <2>3, <2>4 DEF Increasing
<1>8. shown' \in Seq([id : Nat, ok : BOOLEAN]) /\ Len(shown') = 0 /\ 1 .. Len(shown') = {}
  BY <1>2
<1>9. ~truncated' => \A x \in present' : \E j \in 1 .. Len(ids') : x = ids'[j]
  <2>1. Cardinality(Snapshots) \in Nat /\ MaxSnapshots \in Nat
    BY <1>3, FS_CardinalityType, ListAssumption
  <2>2. ASSUME ~truncated' PROVE S = Snapshots
    <3>1. truncated' = (Cardinality(Snapshots) > MaxSnapshots)
      BY <1>2
    <3>2. ~(Cardinality(Snapshots) > MaxSnapshots)
      BY <3>1, <2>2
    <3>3. Cardinality(Snapshots) <= MaxSnapshots
      BY <3>2, <2>1
    <3>4. QED
      BY <3>3, <1>5
  <2>3. QED
    BY <2>2, <1>2, <1>6 DEF IsListOf
<1>10. QED
  BY <1>2, <1>3, <1>4, <1>7, <1>8, <1>9 DEF ListInv

LEMMA ShowStep == ASSUME ListInv, Show PROVE ListInv'
<1> DEFINE n == Len(shown)
           m == Len(ids)
<1>1. /\ code = "running" /\ ids # <<>> /\ ids' = Tail(ids)
      /\ shown' = Append(shown, [id |-> Head(ids), ok |-> Readable(Head(ids))])
      /\ degraded' = (degraded \/ ~Readable(Head(ids)))
      /\ UNCHANGED <<stored, code, present, truncated>>
  BY DEF Show, Flagged
<1>2. PICK r : r = Readable(Head(ids))
  OBVIOUS
<1>3. Readable(Head(ids)) \in BOOLEAN
  BY DEF ListInv, Readable
<1>4. /\ ids \in Seq(Nat) /\ m \in Nat \ {0} /\ Head(ids) = ids[1] /\ ids[1] \in Nat
      /\ ids' \in Seq(Nat) /\ Len(ids') = m - 1 /\ \A j \in 1 .. m - 1 : ids'[j] = ids[j + 1]
      /\ DOMAIN ids = 1 .. m /\ DOMAIN ids' = 1 .. m - 1
  <2>1. ids \in Seq(Nat) /\ ids # <<>>
    BY <1>1 DEF ListInv
  <2>2. QED
    BY <2>1, <1>1
<1> DEFINE new == [id |-> ids[1], ok |-> r]
<1>5. new \in [id : Nat, ok : BOOLEAN] /\ new.id = ids[1] /\ new.ok = r
  BY <1>2, <1>3, <1>4
<1> HIDE DEF new
<1>6. /\ shown \in Seq([id : Nat, ok : BOOLEAN]) /\ n \in Nat
      /\ shown' \in Seq([id : Nat, ok : BOOLEAN]) /\ Len(shown') = n + 1
      /\ shown'[n + 1] = new /\ \A i \in 1 .. n : shown'[i] = shown[i]
  <2>1. shown \in Seq([id : Nat, ok : BOOLEAN])
    BY DEF ListInv
  <2>2. shown' = Append(shown, new)
    BY <1>1, <1>2, <1>4 DEF new
  <2>3. QED
    BY <2>1, <2>2, <1>5
<1> HIDE DEF n, m
<1>7. \A i \in 1 .. n + 1 : i \in 1 .. n \/ i = n + 1
  BY <1>6
<1>8. \A i, j \in 1 .. m : i < j => ids[i] < ids[j]
  BY <1>4 DEF ListInv, Increasing
<1>9. /\ \A i, j \in 1 .. n : i < j => shown[i].id < shown[j].id
      /\ \A i \in 1 .. n, j \in 1 .. m : shown[i].id < ids[j]
      /\ ~truncated => \A x \in present : \/ \E i \in 1 .. n : x = shown[i].id
                                          \/ \E j \in 1 .. m : x = ids[j]
      /\ ~degraded => \A i \in 1 .. n : shown[i].ok
  BY DEF ListInv, n, m
<1>10. 1 \in 1 .. m /\ \A j \in 1 .. m - 1 : j + 1 \in 1 .. m /\ 1 < j + 1
  BY <1>4
<1>11. Increasing(ids)'
  <2>1. \A i, j \in 1 .. m - 1 : i < j => ids[i + 1] < ids[j + 1]
    BY <1>8, <1>10, <1>4
  <2>2. \A i, j \in 1 .. m - 1 : i < j => ids'[i] < ids'[j]
    BY <2>1, <1>4
  <2>3. \A i, j \in DOMAIN ids' : i < j => ids'[i] < ids'[j]
    BY <2>2, <1>4
  <2>4. QED
    BY <2>3 DEF Increasing
<1>12. ASSUME NEW i \in 1 .. n + 1, NEW j \in 1 .. n + 1, i < j
       PROVE  shown'[i].id < shown'[j].id
  <2>1. i \in 1 .. n
    BY <1>12, <1>6
  <2>2. CASE j \in 1 .. n
    BY <2>1, <2>2, <1>6, <1>9, <1>12
  <2>3. CASE j = n + 1
    BY <2>1, <2>3, <1>5, <1>6, <1>9, <1>10
  <2>4. QED
    BY <2>2, <2>3, <1>7
<1>13. ASSUME NEW i \in 1 .. n + 1, NEW j \in 1 .. m - 1
       PROVE  shown'[i].id < ids'[j]
  <2>1. ids'[j] = ids[j + 1] /\ j + 1 \in 1 .. m /\ 1 < j + 1
    BY <1>4, <1>10
  <2>2. CASE i \in 1 .. n
    BY <2>1, <2>2, <1>6, <1>9
  <2>3. CASE i = n + 1
    BY <2>1, <2>3, <1>5, <1>6, <1>8, <1>10
  <2>4. QED
    BY <2>2, <2>3, <1>7
<1>14. ASSUME ~truncated, NEW x \in present
       PROVE  \/ \E i \in 1 .. n + 1 : x = shown'[i].id
              \/ \E j \in 1 .. m - 1 : x = ids'[j]
  <2>1. CASE \E i \in 1 .. n : x = shown[i].id
    <3>1. PICK i \in 1 .. n : x = shown[i].id
      BY <2>1
    <3>2. i \in 1 .. n + 1
      BY <3>1, <1>6
    <3>a. shown'[i] = shown[i]
      BY <3>1, <1>6
    <3>3. QED
      BY <3>1, <3>2, <3>a
  <2>2. CASE \E j \in 1 .. m : x = ids[j]
    <3>1. PICK j \in 1 .. m : x = ids[j]
      BY <2>2
    <3>2. CASE j = 1
      <4>1. n + 1 \in 1 .. n + 1 /\ x = shown'[n + 1].id
        BY <3>1, <3>2, <1>5, <1>6
      <4>2. QED
        BY <4>1
    <3>3. CASE j # 1
      <4>1. j - 1 \in 1 .. m - 1 /\ (j - 1) + 1 = j
        BY <3>1, <3>3, <1>4
      <4>2. x = ids'[j - 1]
        BY <4>1, <3>1, <1>4
      <4>3. QED
        BY <4>1, <4>2
    <3>4. QED
      BY <3>2, <3>3
  <2>3. QED
    BY <2>1, <2>2, <1>9, <1>14
<1>15. ~degraded' => \A i \in 1 .. n + 1 : shown'[i].ok
  BY <1>1, <1>2, <1>5, <1>6, <1>7, <1>9
<1>16. Snapshots' = Snapshots
  BY <1>1 DEF Snapshots
<1>17. (Snapshots \in SUBSET Nat /\ IsFiniteSet(Snapshots) /\ \A i \in Snapshots : stored[i] \in BOOLEAN)'
  BY <1>1, <1>16 DEF ListInv
<1>18. /\ Len(shown') = n + 1 /\ Len(ids') = m - 1 /\ code' = "running"
       /\ truncated' = truncated /\ present' = present
  BY <1>1, <1>4, <1>6
<1>19. (~truncated => \A x \in present : \/ \E i \in 1 .. Len(shown) : x = shown[i].id
                                        \/ \E j \in 1 .. Len(ids) : x = ids[j])'
  BY <1>14, <1>18
<1>20. (/\ \A i, j \in 1 .. Len(shown) : i < j => shown[i].id < shown[j].id
        /\ \A i \in 1 .. Len(shown), j \in 1 .. Len(ids) : shown[i].id < ids[j]
        /\ ~degraded => \A i \in 1 .. Len(shown) : shown[i].ok)'
  BY <1>12, <1>13, <1>15, <1>18
<1>21. QED
  BY <1>4, <1>6, <1>11, <1>17, <1>18, <1>19, <1>20 DEF ListInv

LEMMA ListedStep == ASSUME ListInv, Listed PROVE ListInv'
<1>1. /\ code = "running" /\ ids = <<>> /\ code' = IF degraded THEN "warn" ELSE "ok"
      /\ UNCHANGED <<stored, ids, shown, degraded, present, truncated>>
  BY DEF Listed
<1>2. Snapshots' = Snapshots /\ code' \in {"idle", "running", "ok", "warn"} /\ code' # "idle"
  BY <1>1 DEF Snapshots
<1>3. code' = "ok" => ids' = <<>> /\ ~degraded'
  BY <1>1
<1>4. QED
  BY <1>1, <1>2, <1>3 DEF ListInv, Increasing

\* The choice of a snapshot, in the state it was made in.
LEMMA ChosenStep == ASSUME ListInv, ListNext PROVE ChoosesTheLatest'
<1>1. CASE ~Resolve
  <2>1. chosen' = NoChoice
    BY <1>1 DEF ListNext, List, Show, Listed, Create, Rots, PruneOne, PruneKeepLast, KeepLastIs
  <2>2. chosen'.req # <<>> /\ Len(chosen'.req) # 1
    <3>1. Len(<<1, 2, 3>>) = 3 /\ Len(<<>>) = 0
      OBVIOUS
    <3>2. chosen'.req = <<1, 2, 3>>
      BY <2>1 DEF NoChoice
    <3>3. QED
      BY <3>1, <3>2
  <2>3. QED
    BY <2>2 DEF ChoosesTheLatest
<1>2. CASE Resolve
  <2>1. Snapshots' = Snapshots
    BY <1>2 DEF Resolve, Snapshots
  <2>2. CASE \E i \in Stamps : \E long \in BOOLEAN :
            chosen' = [req |-> IF long THEN <<i, "longer">> ELSE <<i>>, id |-> i]
    <3>1. PICK i \in Stamps, long \in BOOLEAN :
            chosen' = [req |-> IF long THEN <<i, "longer">> ELSE <<i>>, id |-> i]
      BY <2>2
    <3>2. chosen'.id = i /\ chosen'.req \in {<<i, "longer">>, <<i>>}
      BY <3>1
    <3>3. chosen'.req # <<>> /\ (Len(chosen'.req) = 1 => chosen'.req[1] = i)
      BY <3>2
    <3>4. QED
      BY <3>2, <3>3 DEF ChoosesTheLatest
  <2>3. CASE Snapshots # {} /\ \E S \in Collected(Snapshots) :
            chosen' = [req |-> <<>>, id |-> Last(Sorted(S))]
    <3>1. PICK S \in Collected(Snapshots) : chosen' = [req |-> <<>>, id |-> Last(Sorted(S))]
      BY <2>3
    <3>2. chosen'.req = <<>> /\ chosen'.id = Last(Sorted(S)) /\ Len(chosen'.req) = 0
      BY <3>1
    <3>3. Cardinality(Snapshots) <= MaxSnapshots => chosen'.id = Max(Snapshots)
      BY <2>3, <3>2, LastIsMax
    <3>4. QED
      BY <3>2, <3>3, <2>1 DEF ChoosesTheLatest
  <2>4. QED
    BY <1>2, <2>2, <2>3 DEF Resolve
<1>3. QED
  BY <1>1, <1>2

LEMMA ListNextStep == ASSUME ListInv, [ListNext]_listVars PROVE ListInv'
<1>1. CASE UNCHANGED listVars
  BY <1>1 DEF listVars, ListInv, Increasing, Snapshots
<1>2. CASE ListNext
  BY <1>2, StoreStep, ListStep, ShowStep, ListedStep DEF ListNext
<1>3. QED
  BY <1>1, <1>2

\* PRUNE KEEP_LAST, RESTORE and VERIFY without SNAPID, and LIST (main.c): the
\* newest snapshots are never deleted, the last one is the one chosen, and a
\* list that is called clean is complete, in order and was read.
THEOREM ListedRightly ==
    ListInit /\ [][ListNext]_listVars => ListsRightly
<1>1. ListInv /\ [ListNext]_listVars
        => [KeepsTheNewest /\ ChoosesTheLatest' /\ CleanListIsClean']_listVars
  <2> SUFFICES ASSUME ListInv, [ListNext]_listVars, ~UNCHANGED listVars
               PROVE  KeepsTheNewest /\ ChoosesTheLatest' /\ CleanListIsClean'
    OBVIOUS
  <2>1. ListInv'
    BY ListNextStep
  <2>2. (ListInv => CleanListIsClean)'
    BY CleanIsClean, PTL
  <2>3. QED
    BY <2>1, <2>2, NewestKept, ChosenStep
<1>2. ListInv /\ [ListNext]_listVars => ListInv'
  BY ListNextStep
<1>3. QED
  BY <1>1, <1>2, InitList, PTL DEF ListsRightly

-----------------------------------------------------------------------------
(* The walk over a source: the invariant.                                  *)

Names == Seq(Seq(STRING))
Kinds == {"dir", "file", "softlink", "hardlink"}
Stats == [path : DOMAIN before, st : {before[p] : p \in DOMAIN before}]
Frames == [base : Nat, more : BOOLEAN, batch : Seq(Stats), type : {"owner", "comment"},
           given : SUBSET DOMAIN before]
Emitted == [path : Names, kind : Kinds, owner : BOOLEAN]
Counts == [dirs : Nat, files : Nat, links : Nat, dirsExcluded : Nat, filesExcluded : Nat,
           dirsFailed : Nat, maxName : Nat, owner : BOOLEAN]

ScanTypes ==
    /\ before \in Volumes /\ owners \in BOOLEAN
    /\ DOMAIN volume \subseteq DOMAIN before /\ \A p \in DOMAIN volume : volume[p] = before[p]
    /\ pathBuf \in Names /\ emitted \in Seq(Emitted)
    /\ frames \in Seq(Frames) /\ Len(frames) <= Len(pathBuf) + 1
    /\ \A i \in 1 .. Len(frames) : frames[i].base = i - 1
    /\ counts \in Counts

\* The directory of the i-th frame is what the buffer holds below its end.
At(i) == SubSeq(pathBuf, 1, i - 1)
ChildOf(p, d) == Len(p) = Len(d) + 1 /\ SubSeq(p, 1, Len(d)) = d
GivenTo(e, p) == \E k \in 1 .. Len(e) : e[k].path = p

\* A frame's directory was given to the visitor; what ExAll gave of it is in
\* it; of that, the visitor was given what is no longer in the batch.
Batched(f, src) ==
    /\ \A k \in 1 .. Len(f.batch) :
          f.batch[k].path \in f.given /\ f.batch[k].st = src[f.batch[k].path]
    /\ \A k, l \in 1 .. Len(f.batch) : k # l => f.batch[k].path # f.batch[l].path
NotTwice(f, d, e) ==
    \A k \in 1 .. Len(e) : ChildOf(e[k].path, d) =>
        e[k].path \in f.given /\ \A l \in 1 .. Len(f.batch) : f.batch[l].path # e[k].path
FrameInv(f, d, e, src) ==
    GivenTo(e, d) /\ (\A p \in f.given : ChildOf(p, d)) /\ Batched(f, src) /\ NotTwice(f, d, e)
FramesInv == \A i \in 1 .. Len(frames) : FrameInv(frames[i], At(i), emitted, before)

\* All levels agree on whether the filesystem has owners.
OwnersInv ==
    /\ counts.owner => owners
    /\ owners => \A i \in 1 .. Len(frames) :
                    frames[i].type = "owner" /\ (frames[i].batch # <<>> => counts.owner)

\* What a directory has that was not given is still to come, or the directory
\* failed.
ToCome(p, f) == (f.more /\ p \notin f.given) \/ \E k \in 1 .. Len(f.batch) : f.batch[k].path = p
Waiting(p) == KeptIn(p) /\ GivenTo(emitted, Front(p)) /\ ~GivenTo(emitted, p)
Expected(p) == \E i \in 1 .. Len(frames) : Front(p) = At(i) /\ ToCome(p, frames[i])
Covers(failed) ==
    \A p \in DOMAIN volume \ {<<>>} : Waiting(p) => Front(p) \in failed \/ Expected(p)
CompleteInv ==
    verdict \in {"none", "ok"} =>
        \E failed : IsFiniteSet(failed) /\ Cardinality(failed) <= counts.dirsFailed /\ Covers(failed)

WalkInv == ScanTypes /\ FramesInv /\ OwnersInv /\ GivenInOrder
ScanInv == WalkInv /\ CompleteInv /\ (verdict = "ok" => frames = <<>>)

-----------------------------------------------------------------------------
(* Paths.                                                                  *)

LEMMA Pushing ==
    ASSUME NEW S, NEW s \in Seq(S), NEW n \in 0 .. Len(s), NEW x \in S,
           NEW t, t = Append(SubSeq(s, 1, n), x)
    PROVE  /\ t \in Seq(S) /\ Len(t) = n + 1 /\ SubSeq(t, 1, n + 1) = t /\ t[n + 1] = x
           /\ \A m \in 0 .. n : SubSeq(t, 1, m) = SubSeq(s, 1, m)
<1>1. n \in Nat /\ n <= Len(s)
  OBVIOUS
<1>2. SubSeq(s, 1, n) \in Seq(S) /\ Len(SubSeq(s, 1, n)) = n
      /\ \A i \in 1 .. n : SubSeq(s, 1, n)[i] = s[i]
  BY <1>1
<1>3. t \in Seq(S) /\ Len(t) = n + 1 /\ t[n + 1] = x /\ \A i \in 1 .. n : t[i] = s[i]
  BY <1>2
<1>4. SubSeq(t, 1, n + 1) = t
  BY <1>3, <1>1
<1>5. ASSUME NEW m \in 0 .. n PROVE SubSeq(t, 1, m) = SubSeq(s, 1, m)
  <2>1. m \in Nat /\ m <= Len(s) /\ m <= Len(t) /\ \A i \in 1 .. m : i \in 1 .. n
    BY <1>1, <1>3
  <2>2. SubSeq(t, 1, m) \in Seq(S) /\ Len(SubSeq(t, 1, m)) = m
        /\ \A i \in 1 .. m : SubSeq(t, 1, m)[i] = t[i]
    BY <2>1, <1>3
  <2>3. SubSeq(s, 1, m) \in Seq(S) /\ Len(SubSeq(s, 1, m)) = m
        /\ \A i \in 1 .. m : SubSeq(s, 1, m)[i] = s[i]
    BY <2>1
  <2>4. \A i \in 1 .. m : SubSeq(t, 1, m)[i] = SubSeq(s, 1, m)[i]
    BY <2>1, <2>2, <2>3, <1>3
  <2>5. QED
    BY <2>2, <2>3, <2>4
<1>6. QED
  BY <1>3, <1>4, <1>5

LEMMA SubSeqTwice ==
    ASSUME NEW S, NEW s \in Seq(S), NEW b \in 0 .. Len(s), NEW m \in 0 .. b
    PROVE  SubSeq(SubSeq(s, 1, b), 1, m) = SubSeq(s, 1, m)
<1>1. SubSeq(s, 1, b) \in Seq(S) /\ Len(SubSeq(s, 1, b)) = b
      /\ \A i \in 1 .. b : SubSeq(s, 1, b)[i] = s[i]
  OBVIOUS
<1> DEFINE t == SubSeq(s, 1, b)
<1> HIDE DEF t
<1>2. t \in Seq(S) /\ Len(t) = b /\ \A i \in 1 .. b : t[i] = s[i]
  BY <1>1 DEF t
<1>3. SubSeq(t, 1, m) \in Seq(S) /\ Len(SubSeq(t, 1, m)) = m
      /\ \A i \in 1 .. m : SubSeq(t, 1, m)[i] = t[i]
  BY <1>2
<1>4. SubSeq(s, 1, m) \in Seq(S) /\ Len(SubSeq(s, 1, m)) = m
      /\ \A i \in 1 .. m : SubSeq(s, 1, m)[i] = s[i]
  OBVIOUS
<1>5. \A i \in 1 .. m : SubSeq(t, 1, m)[i] = SubSeq(s, 1, m)[i]
  BY <1>2, <1>3, <1>4
<1>6. QED
  BY <1>3, <1>4, <1>5 DEF t

LEMMA Children1 ==
    ASSUME NEW S, NEW d \in Seq(S), NEW p \in Seq(S), ChildOf(p, d)
    PROVE  p # <<>> /\ Append(d, Last(p)) = p /\ Front(p) = d /\ Last(p) \in S
<1>1. Len(d) \in Nat /\ Len(p) = Len(d) + 1 /\ SubSeq(p, 1, Len(d)) = d
  BY DEF ChildOf
<1>2. Last(p) = p[Len(d) + 1] /\ Front(p) = d
  BY <1>1 DEF Last, Front
<1>3. Last(p) \in S
  BY <1>1, <1>2
<1>4. \A i \in 1 .. Len(d) : d[i] = p[i]
  BY <1>1
<1>5. Append(d, Last(p)) \in Seq(S) /\ Len(Append(d, Last(p))) = Len(p)
      /\ \A i \in 1 .. Len(p) : Append(d, Last(p))[i] = p[i]
  BY <1>1, <1>2, <1>3, <1>4
<1>6. QED
  BY <1>1, <1>2, <1>3, <1>5

LEMMA FrontHasChild ==
    ASSUME NEW S, NEW p \in Seq(S), p # <<>>
    PROVE  Front(p) \in Seq(S) /\ ChildOf(p, Front(p))
<1>1. Len(p) \in Nat /\ Len(p) # 0 /\ Front(p) = SubSeq(p, 1, Len(p) - 1)
  BY DEF Front
<1>2. PICK n \in Nat : n = Len(p) - 1 /\ n <= Len(p)
  BY <1>1
<1>3. SubSeq(p, 1, n) \in Seq(S) /\ Len(SubSeq(p, 1, n)) = n
  BY <1>2
<1>4. Front(p) = SubSeq(p, 1, n) /\ Len(p) = n + 1
  BY <1>1, <1>2
<1>5. QED
  BY <1>3, <1>4 DEF ChildOf

LEMMA PrefixOfChild ==
    ASSUME NEW S, NEW d \in Seq(S), NEW p \in Seq(S), ChildOf(p, d)
    PROVE  /\ SubSeq(p, 1, Len(p)) = p /\ Len(p) = Len(d) + 1
           /\ \A m \in 0 .. Len(d) : SubSeq(p, 1, m) = SubSeq(d, 1, m)
<1>1. p = Append(d, Last(p)) /\ Last(p) \in S
  BY Children1
<1>2. d = SubSeq(d, 1, Len(d)) /\ Len(d) \in 0 .. Len(d)
  OBVIOUS
<1>3. p = Append(SubSeq(d, 1, Len(d)), Last(p))
  BY <1>1, <1>2
<1>4. PICK n \in 0 .. Len(d), x \in S : n = Len(d) /\ p = Append(SubSeq(d, 1, n), x)
  BY <1>1, <1>2, <1>3
<1>5. /\ SubSeq(p, 1, n + 1) = p /\ Len(p) = n + 1
      /\ \A m \in 0 .. n : SubSeq(p, 1, m) = SubSeq(d, 1, m)
  <2> HIDE DEF ChildOf
  <2>1. p = Append(SubSeq(d, 1, n), x)
    BY <1>4
  <2>2. QED
    BY <2>1, Pushing
<1>6. QED
  BY <1>4, <1>5

\* A path is kept in if its directory is and it is not out itself.
LEMMA KeptChild ==
    ASSUME NEW d \in Names, NEW p \in Names, ChildOf(p, d)
    PROVE  KeptIn(p) <=> KeptIn(d) /\ ~Out(p)
<1>1. /\ SubSeq(p, 1, Len(p)) = p /\ Len(p) = Len(d) + 1 /\ Len(d) \in Nat
      /\ \A m \in 0 .. Len(d) : SubSeq(p, 1, m) = SubSeq(d, 1, m)
  BY PrefixOfChild DEF Names
<1>2. \A m \in 1 .. Len(p) : m = Len(p) \/ m \in 1 .. Len(d)
  BY <1>1
<1>3. 1 .. Len(d) \subseteq 1 .. Len(p) /\ Len(p) \in 1 .. Len(p) /\ 1 .. Len(d) \subseteq 0 .. Len(d)
  BY <1>1
<1>4. KeptIn(p) => KeptIn(d) /\ ~Out(p)
  BY <1>1, <1>3 DEF KeptIn
<1>5. KeptIn(d) /\ ~Out(p) => KeptIn(p)
  BY <1>1, <1>2, <1>3 DEF KeptIn
<1>6. QED
  BY <1>4, <1>5

LEMMA KeptStill == ASSUME UNCHANGED <<before, list>> PROVE \A p : KeptIn(p)' <=> KeptIn(p)
<1>1. ASSUME NEW p PROVE Out(p)' <=> Out(p)
  BY DEF Out, KeepsOut, Excluded
<1>2. QED
  BY <1>1 DEF KeptIn

\* What is appended is given, and what was.
LEMMA GivenMore ==
    ASSUME NEW S, NEW e \in Seq(S), NEW x \in S
    PROVE  \A p : GivenTo(Append(e, x), p) <=> GivenTo(e, p) \/ p = x.path
<1>1. Len(e) \in Nat /\ Len(Append(e, x)) = Len(e) + 1 /\ Append(e, x)[Len(e) + 1] = x
      /\ \A k \in 1 .. Len(e) : Append(e, x)[k] = e[k]
  OBVIOUS
<1>2. \A k \in 1 .. Len(e) + 1 : k \in 1 .. Len(e) \/ k = Len(e) + 1
  BY <1>1
<1>3. Len(e) + 1 \in 1 .. Len(e) + 1 /\ 1 .. Len(e) \subseteq 1 .. Len(e) + 1
  BY <1>1
<1>4. QED
  BY <1>1, <1>2, <1>3 DEF GivenTo

\* A list of all members of a set, each once.
LEMMA Listing ==
    ASSUME NEW S, IsFiniteSet(S), NEW q \in SetToSeqs(S)
    PROVE  /\ q \in Seq(S) /\ \A k, l \in 1 .. Len(q) : k # l => q[k] # q[l]
           /\ \A x \in S : \E k \in 1 .. Len(q) : q[k] = x
<1> DEFINE n == Cardinality(S)
<1>1. n \in Nat /\ IsFiniteSet(1 .. n) /\ Cardinality(1 .. n) = n
  BY FS_CardinalityType, FS_Interval
<1>2. q \in [1 .. n -> S] /\ \A i, j \in 1 .. n : i # j => q[i] # q[j]
  BY DEF SetToSeqs
<1>3. q \in Seq(S) /\ Len(q) = n
  BY <1>1, <1>2
<1>4. q \in Injection(1 .. n, S)
  BY <1>2 DEF Injection, IsInjective
<1> HIDE DEF n
<1>5. q \in Surjection(1 .. n, S)
  BY <1>1, <1>4, FS_Injection DEF n
<1>6. \A x \in S : \E k \in 1 .. n : q[k] = x
  BY <1>5 DEF Surjection
<1>7. QED
  BY <1>2, <1>3, <1>6

-----------------------------------------------------------------------------
(* The innermost directory and its next entry.                             *)

LEMMA AtType ==
    ASSUME ScanTypes, NEW i \in 1 .. Len(frames)
    PROVE  At(i) \in Names /\ Len(At(i)) = i - 1 /\ i - 1 \in 0 .. Len(pathBuf)
<1>1. PICK j \in 0 .. Len(pathBuf) : j = i - 1
  BY DEF ScanTypes, Names
<1>2. SubSeq(pathBuf, 1, j) \in Names /\ Len(SubSeq(pathBuf, 1, j)) = j
  BY <1>1 DEF ScanTypes, Names
<1>3. QED
  BY <1>1, <1>2 DEF At

LEMMA TopFrame ==
    ASSUME WalkInv, frames # <<>>, NEW n, n = Len(frames)
    PROVE  /\ n \in Nat \ {0} /\ n \in 1 .. Len(frames) /\ Top = frames[n] /\ Top \in Frames
           /\ Top.base = n - 1 /\ Kept(Top.base) = At(n) /\ At(n) \in Names /\ Len(At(n)) = n - 1
           /\ FrameInv(Top, At(n), emitted, before)
<1>1. n \in Nat \ {0} /\ n \in 1 .. Len(frames) /\ frames[n] \in Frames /\ frames[n].base = n - 1
  BY DEF WalkInv, ScanTypes
<1>2. Top = frames[n]
  BY DEF Top, Depth
<1>3. Kept(Top.base) = At(n)
  BY <1>1, <1>2 DEF Kept, At
<1>4. At(n) \in Names /\ Len(At(n)) = n - 1
  BY <1>1, AtType DEF WalkInv
<1>5. FrameInv(Top, At(n), emitted, before)
  BY <1>1, <1>2 DEF WalkInv, FramesInv
<1>6. QED
  BY <1>1, <1>2, <1>3, <1>4, <1>5

LEMMA Sources ==
    ASSUME before \in Volumes
    PROVE  /\ DOMAIN before \subseteq Names /\ IsFiniteSet(DOMAIN before)
           /\ <<>> \in DOMAIN before /\ before[<<>>] = "root"
           /\ \A p \in DOMAIN before \ {<<>>} :
                 Front(p) \in DOMAIN before /\ before[Front(p)] \in {"root", "userdir"}
BY VolumeAssumption DEF Names

\* The next of a batch is a new entry of its directory, and the buffer holds
\* its path.
LEMMA NextOfBatch ==
    ASSUME WalkInv, frames # <<>>, Top.batch # <<>>, NEW n, n = Len(frames),
           NEW e, e = Head(Top.batch)
    PROVE  /\ e.path \in DOMAIN before /\ e.path \in Names /\ e.st = before[e.path] /\ e = Top.batch[1]
           /\ ChildOf(e.path, At(n)) /\ Len(e.path) = n /\ e.path # <<>> /\ Front(e.path) = At(n)
           /\ Pushed(Last(e.path)) = e.path /\ Last(e.path) \in Seq(STRING)
           /\ e.path \in Top.given
           /\ ~GivenTo(emitted, e.path) /\ GivenTo(emitted, At(n))
<1>1. /\ n \in Nat \ {0} /\ Top \in Frames /\ Kept(Top.base) = At(n)
      /\ At(n) \in Names /\ Len(At(n)) = n - 1 /\ FrameInv(Top, At(n), emitted, before)
  BY TopFrame
<1>2. Top.batch \in Seq(Stats) /\ 1 \in 1 .. Len(Top.batch) /\ e = Top.batch[1] /\ e \in Stats
  BY <1>1 DEF Frames
<1>3. e.path \in DOMAIN before /\ e.path \in Names
  <2>1. e.path \in DOMAIN before
    BY <1>2 DEF Stats
  <2>2. before \in Volumes
    BY DEF WalkInv, ScanTypes
  <2>3. QED
    BY <2>1, <2>2, Sources
<1>4. e.path \in Top.given /\ e.st = before[e.path]
  BY <1>1, <1>2 DEF FrameInv, Batched
<1>5. ChildOf(e.path, At(n)) /\ GivenTo(emitted, At(n))
  BY <1>1, <1>4 DEF FrameInv
<1>6. e.path # <<>> /\ Front(e.path) = At(n) /\ Append(At(n), Last(e.path)) = e.path
      /\ Last(e.path) \in Seq(STRING)
  <2>1. PICK p, d : p = e.path /\ d = At(n) /\ p \in Names /\ d \in Names /\ ChildOf(p, d)
    BY <1>1, <1>3, <1>5
  <2>2. p # <<>> /\ Append(d, Last(p)) = p /\ Front(p) = d /\ Last(p) \in Seq(STRING)
    BY ONLY <2>1, Children1 DEF Names
  <2>3. QED
    BY <2>1, <2>2
<1>7. Pushed(Last(e.path)) = e.path
  BY <1>1, <1>6 DEF Pushed
<1>8. ASSUME GivenTo(emitted, e.path) PROVE FALSE
  <2>1. PICK k \in 1 .. Len(emitted) : emitted[k].path = e.path
    BY <1>8 DEF GivenTo
  <2>2. \A l \in 1 .. Len(Top.batch) : Top.batch[l].path # e.path
    BY <1>1, <1>5, <2>1 DEF FrameInv, NotTwice
  <2>3. QED
    BY <2>2, <1>2
<1>9. Len(e.path) = n
  BY <1>1, <1>5 DEF ChildOf
<1>10. QED
  BY <1>2, <1>3, <1>4, <1>5, <1>6, <1>7, <1>8, <1>9

\* No frame's directory moves when the buffer takes an entry of the innermost.
LEMMA AtKept ==
    ASSUME WalkInv, frames # <<>>, NEW n, n = Len(frames), NEW p \in Names, ChildOf(p, At(n)),
           pathBuf' = p, NEW i \in 1 .. n
    PROVE  At(i)' = At(i)
<1>1. n \in Nat \ {0} /\ n \in 1 .. Len(frames) /\ At(n) \in Names /\ Len(At(n)) = n - 1
  BY TopFrame
<1>2. PICK m \in 0 .. Len(At(n)) : m = i - 1
  BY <1>1
<1>3. SubSeq(p, 1, m) = SubSeq(At(n), 1, m)
  <2>1. PICK d \in Names : d = At(n) /\ ChildOf(p, d) /\ m \in 0 .. Len(d)
    BY <1>1
  <2>2. \A j \in 0 .. Len(d) : SubSeq(p, 1, j) = SubSeq(d, 1, j)
    BY ONLY <2>1, PrefixOfChild, p \in Names DEF Names
  <2>3. QED
    BY <2>1, <2>2
<1>4. PICK b \in 0 .. Len(pathBuf) : b = n - 1
  BY <1>1, AtType DEF WalkInv
<1>5. pathBuf \in Names /\ m <= b /\ b = Len(At(n))
  BY <1>1, <1>2, <1>4 DEF WalkInv, ScanTypes
<1>6. SubSeq(SubSeq(pathBuf, 1, b), 1, m) = SubSeq(pathBuf, 1, m)
  BY <1>2, <1>4, <1>5, SubSeqTwice DEF Names
<1>7. At(n) = SubSeq(pathBuf, 1, b)
  BY <1>4 DEF At
<1>8. At(i)' = SubSeq(p, 1, m) /\ At(i) = SubSeq(pathBuf, 1, m)
  BY <1>2 DEF At
<1>9. QED
  BY <1>3, <1>6, <1>7, <1>8

-----------------------------------------------------------------------------
(* An entry of the batch is dealt with.                                    *)

\* The frame of the directory once its next entry is dealt with.
AfterNext(f) == [f EXCEPT !.batch = Tail(@)]

LEMMA TailOfBatch ==
    ASSUME NEW f \in Frames, f.batch # <<>>, NEW g, g = AfterNext(f)
    PROVE  /\ g \in Frames /\ g.base = f.base /\ g.more = f.more /\ g.type = f.type /\ g.given = f.given
           /\ Len(f.batch) \in Nat \ {0} /\ Len(g.batch) = Len(f.batch) - 1
           /\ \A k \in 1 .. Len(g.batch) : k + 1 \in 1 .. Len(f.batch) /\ g.batch[k] = f.batch[k + 1]
                                           /\ k + 1 # 1
<1>1. f.batch \in Seq(Stats) /\ Len(f.batch) \in Nat \ {0}
  BY DEF Frames
<1>2. Tail(f.batch) \in Seq(Stats) /\ Len(Tail(f.batch)) = Len(f.batch) - 1
      /\ \A k \in 1 .. Len(f.batch) - 1 : Tail(f.batch)[k] = f.batch[k + 1]
  BY <1>1
<1>3. g = [f EXCEPT !.batch = Tail(f.batch)]
  BY DEF AfterNext
<1>4. g \in Frames /\ g.base = f.base /\ g.more = f.more /\ g.type = f.type /\ g.given = f.given
      /\ g.batch = Tail(f.batch)
  BY <1>2, <1>3 DEF Frames
<1>5. \A k \in 1 .. Len(f.batch) - 1 : k + 1 \in 1 .. Len(f.batch) /\ k + 1 # 1
  BY <1>1
<1>6. QED
  BY <1>1, <1>2, <1>4, <1>5

\* The innermost frame, when its next entry was given to the visitor, or was
\* left out: em is what the visitor was given then.
LEMMA FrameAfterNext ==
    ASSUME NEW f \in Frames, f.batch # <<>>, NEW d, NEW e \in Seq(Emitted), FrameInv(f, d, e, before),
           NEW g, g = AfterNext(f), NEW em,
           em = e \/ \E x \in Emitted : x.path = f.batch[1].path /\ em = Append(e, x)
    PROVE  FrameInv(g, d, em, before)
<1>1. /\ g.given = f.given /\ Len(f.batch) \in Nat \ {0} /\ 1 \in 1 .. Len(f.batch)
      /\ \A k \in 1 .. Len(g.batch) : k + 1 \in 1 .. Len(f.batch) /\ g.batch[k] = f.batch[k + 1] /\ k + 1 # 1
  BY TailOfBatch
<1>2. Batched(g, before)
  <2>1. Batched(f, before)
    BY DEF FrameInv
  <2>2. ASSUME NEW k \in 1 .. Len(g.batch)
        PROVE  g.batch[k].path \in g.given /\ g.batch[k].st = before[g.batch[k].path]
    BY <1>1, <2>1 DEF Batched
  <2>3. ASSUME NEW k \in 1 .. Len(g.batch), NEW l \in 1 .. Len(g.batch), k # l
        PROVE  g.batch[k].path # g.batch[l].path
    <3>1. /\ k + 1 \in 1 .. Len(f.batch) /\ g.batch[k] = f.batch[k + 1]
          /\ l + 1 \in 1 .. Len(f.batch) /\ g.batch[l] = f.batch[l + 1]
      BY <1>1
    <3>2. k + 1 # l + 1
      BY <2>3
    <3>3. QED
      BY <3>1, <3>2, <2>1 DEF Batched
  <2>4. QED
    BY <2>2, <2>3 DEF Batched
<1>3. NotTwice(g, d, e)
  BY <1>1 DEF FrameInv, NotTwice
<1>4. CASE em = e
  BY <1>1, <1>2, <1>3, <1>4 DEF FrameInv
<1>5. ASSUME NEW x \in Emitted, x.path = f.batch[1].path, em = Append(e, x)
      PROVE  FrameInv(g, d, em, before)
  <2>1. GivenTo(em, d)
    BY <1>5, GivenMore DEF FrameInv
  <2>2. /\ Len(em) = Len(e) + 1 /\ em[Len(e) + 1] = x /\ \A k \in 1 .. Len(e) : em[k] = e[k]
        /\ Len(e) \in Nat
    BY <1>5
  <2>3. \A k \in 1 .. Len(em) : k \in 1 .. Len(e) \/ k = Len(e) + 1
    BY <2>2
  <2>4. x.path \in g.given /\ \A l \in 1 .. Len(g.batch) : g.batch[l].path # x.path
    <3>1. Batched(f, before) /\ 1 \in 1 .. Len(f.batch) /\ g.given = f.given
      BY <1>1 DEF FrameInv
    <3>2. f.batch[1].path \in f.given
      BY <3>1 DEF Batched
    <3>3. ASSUME NEW l \in 1 .. Len(g.batch) PROVE g.batch[l].path # f.batch[1].path
      <4>1. l + 1 \in 1 .. Len(f.batch) /\ g.batch[l] = f.batch[l + 1] /\ l + 1 # 1
        BY <1>1
      <4> QED  BY <3>1, <4>1 DEF Batched
    <3> QED  BY <1>5, <3>1, <3>2, <3>3
  <2>5. NotTwice(g, d, em)
    BY <1>3, <2>2, <2>3, <2>4 DEF NotTwice
  <2>6. QED
    BY <1>1, <1>2, <2>1, <2>5 DEF FrameInv
<1>6. QED
  BY <1>4, <1>5

\* The other frames: what is given now is not in their directories.
LEMMA FrameElsewhere ==
    ASSUME NEW f, NEW d, NEW e \in Seq(Emitted), FrameInv(f, d, e, before),
           NEW p, ~ChildOf(p, d), NEW em,
           em = e \/ \E x \in Emitted : x.path = p /\ em = Append(e, x)
    PROVE  FrameInv(f, d, em, before)
<1>1. CASE em = e
  BY <1>1
<1>2. ASSUME NEW x \in Emitted, x.path = p, em = Append(e, x)
      PROVE  FrameInv(f, d, em, before)
  <2>1. GivenTo(em, d)
    BY <1>2, GivenMore DEF FrameInv
  <2>2. /\ Len(em) = Len(e) + 1 /\ em[Len(e) + 1] = x /\ \A k \in 1 .. Len(e) : em[k] = e[k]
        /\ Len(e) \in Nat
    BY <1>2
  <2>3. \A k \in 1 .. Len(em) : k \in 1 .. Len(e) \/ k = Len(e) + 1
    BY <2>2
  <2>4. NotTwice(f, d, em)
    BY <1>2, <2>2, <2>3 DEF FrameInv, NotTwice
  <2>5. QED
    BY <2>1, <2>4 DEF FrameInv
<1>3. QED
  BY <1>1, <1>2

\* What is given next is given in order.
LEMMA OrderKept ==
    ASSUME emitted \in Seq(Emitted), GivenInOrder, UNCHANGED <<before, owners, list>>,
           NEW x \in Emitted, emitted' = Append(emitted, x),
           x.path \in DOMAIN before, x.kind = EType(before[x.path]), KeptIn(x.path),
           ~GivenTo(emitted, x.path),
           x.path # <<>> => GivenTo(emitted, Front(x.path)) /\ x.owner = owners
    PROVE  GivenInOrder'
<1> DEFINE n == Len(emitted)
<1>1. /\ n \in Nat /\ DOMAIN emitted = 1 .. n /\ Len(emitted') = n + 1 /\ DOMAIN emitted' = 1 .. n + 1
      /\ emitted'[n + 1] = x /\ \A k \in 1 .. n : emitted'[k] = emitted[k]
  OBVIOUS
<1> HIDE DEF n
<1>2. \A k \in 1 .. n + 1 : k \in 1 .. n \/ k = n + 1
  BY <1>1
<1>3. \A p : KeptIn(p)' <=> KeptIn(p)
  BY KeptStill
<1>4. \A i \in 1 .. n : 1 .. i - 1 \subseteq 1 .. n
  BY <1>1
<1>5. ASSUME NEW i \in 1 .. n, NEW y, y = emitted[i]
      PROVE  /\ y.path \in DOMAIN before /\ y.kind = EType(before[y.path]) /\ KeptIn(y.path)
             /\ \A j \in 1 .. i - 1 : emitted'[j].path # y.path
             /\ y.path # <<>> => /\ \E j \in 1 .. i - 1 : emitted'[j].path = Front(y.path)
                                 /\ y.owner = owners
  BY <1>1, <1>4, <1>5 DEF GivenInOrder
<1>6. /\ \A j \in 1 .. (n + 1) - 1 : emitted'[j].path # x.path
      /\ x.path # <<>> => \E j \in 1 .. (n + 1) - 1 : emitted'[j].path = Front(x.path)
  <2>1. (n + 1) - 1 = n
    BY <1>1
  <2>2. (\A j \in 1 .. n : emitted[j].path # x.path)
        /\ (x.path # <<>> => \E j \in 1 .. n : emitted[j].path = Front(x.path))
    BY DEF GivenTo, n
  <2>3. QED
    BY <1>1, <2>1, <2>2
<1>7. ASSUME NEW i \in 1 .. n + 1, NEW y, y = emitted'[i]
      PROVE  /\ y.path \in DOMAIN before /\ y.kind = EType(before[y.path]) /\ KeptIn(y.path)'
             /\ \A j \in 1 .. i - 1 : emitted'[j].path # y.path
             /\ y.path # <<>> => /\ \E j \in 1 .. i - 1 : emitted'[j].path = Front(y.path)
                                 /\ y.owner = owners
  <2>1. CASE i \in 1 .. n
    <3>1. y = emitted[i]
      BY <2>1, <1>1, <1>7
    <3>2. KeptIn(y.path)' <=> KeptIn(y.path)
      BY <1>3
    <3>3. /\ y.path \in DOMAIN before /\ y.kind = EType(before[y.path]) /\ KeptIn(y.path)
          /\ \A j \in 1 .. i - 1 : emitted'[j].path # y.path
          /\ y.path # <<>> => /\ \E j \in 1 .. i - 1 : emitted'[j].path = Front(y.path)
                              /\ y.owner = owners
      <4> HIDE DEF GivenInOrder
      <4>1. QED
        BY ONLY <3>1, <2>1, <1>5
    <3>4. QED
      BY ONLY <3>2, <3>3
  <2>2. CASE i = n + 1
    <3>1. y = x
      BY <2>2, <1>1, <1>7
    <3>2. KeptIn(y.path)' <=> KeptIn(y.path)
      BY <1>3
    <3>3. y.path \in DOMAIN before /\ y.kind = EType(before[y.path]) /\ KeptIn(y.path)'
          /\ (y.path # <<>> => y.owner = owners)
      BY <3>1, <3>2
    <3>4. i - 1 = (n + 1) - 1
      BY <2>2
    <3>5. /\ \A j \in 1 .. i - 1 : emitted'[j].path # y.path
          /\ y.path # <<>> => \E j \in 1 .. i - 1 : emitted'[j].path = Front(y.path)
      BY <3>1, <3>4, <1>6
    <3>6. QED
      BY <3>3, <3>5
  <2>3. QED
    BY <2>1, <2>2, <1>2
<1>8. QED
  BY <1>1, <1>7 DEF GivenInOrder

-----------------------------------------------------------------------------
(* The steps keep WalkInv.                                                 *)

LEMMA InitScan == ScanInit => ScanInv
<1> SUFFICES ASSUME ScanInit PROVE ScanInv
  OBVIOUS
<1>1. /\ before \in Volumes /\ volume = before /\ owners \in BOOLEAN
      /\ frames = <<>> /\ pathBuf = <<>> /\ emitted = <<>> /\ counts = NoCounts /\ verdict = "none"
  BY DEF ScanInit
<1>2. /\ counts \in Counts /\ counts.owner = FALSE /\ counts.dirsFailed = 0
      /\ Len(frames) = 0 /\ 1 .. Len(frames) = {} /\ Len(emitted) = 0 /\ 1 .. Len(emitted) = {}
      /\ DOMAIN emitted = {} /\ pathBuf \in Names /\ Len(pathBuf) = 0
      /\ emitted \in Seq(Emitted) /\ frames \in Seq(Frames)
  BY <1>1 DEF NoCounts, Counts, Names
<1>3. ScanTypes
  BY <1>1, <1>2 DEF ScanTypes
<1>4. FramesInv /\ OwnersInv /\ GivenInOrder
  BY <1>2 DEF FramesInv, OwnersInv, GivenInOrder
<1>5. Covers({}) /\ IsFiniteSet({}) /\ Cardinality({}) <= counts.dirsFailed
  BY <1>2, FS_EmptySet DEF Covers, Waiting, GivenTo
<1>6. QED
  BY <1>1, <1>3, <1>4, <1>5 DEF ScanInv, WalkInv, CompleteInv

\* The order given stays what it was.
LEMMA OrderSame == ASSUME GivenInOrder, UNCHANGED <<before, owners, list, emitted>> PROVE GivenInOrder'
<1>1. \A p : KeptIn(p)' <=> KeptIn(p)
  BY KeptStill
<1>2. ASSUME NEW i \in DOMAIN emitted, NEW y, y = emitted[i]
      PROVE  /\ y.path \in DOMAIN before' /\ y.kind = EType(before'[y.path]) /\ KeptIn(y.path)'
             /\ \A j \in 1 .. i - 1 : emitted'[j].path # y.path
             /\ y.path # <<>> => /\ \E j \in 1 .. i - 1 : emitted'[j].path = Front(y.path)
                                 /\ y.owner = owners'
  <2>1. KeptIn(y.path)' <=> KeptIn(y.path)
    BY <1>1
  <2>2. /\ y.path \in DOMAIN before' /\ y.kind = EType(before'[y.path]) /\ KeptIn(y.path)
        /\ \A j \in 1 .. i - 1 : emitted'[j].path # y.path
        /\ y.path # <<>> => /\ \E j \in 1 .. i - 1 : emitted'[j].path = Front(y.path)
                            /\ y.owner = owners'
    BY <1>2 DEF GivenInOrder
  <2>3. QED
    BY ONLY <2>1, <2>2
<1>3. DOMAIN emitted' = DOMAIN emitted
  OBVIOUS
<1>4. QED
  BY <1>2, <1>3 DEF GivenInOrder

LEMMA WaitingStill ==
    ASSUME UNCHANGED <<before, list, emitted>> PROVE \A p : Waiting(p)' <=> Waiting(p)
<1>1. ASSUME NEW p PROVE Waiting(p)' <=> Waiting(p)
  <2>1. KeptIn(p)' <=> KeptIn(p)
    BY KeptStill
  <2>2. GivenTo(emitted, p)' <=> GivenTo(emitted, p)
    BY DEF GivenTo
  <2>3. GivenTo(emitted, Front(p))' <=> GivenTo(emitted, Front(p))
    BY DEF GivenTo
  <2>4. QED
    BY ONLY <2>1, <2>2, <2>3 DEF Waiting
<1>2. QED
  BY <1>1

\* The walk ends.
LEMMA FinishWalk ==
    ASSUME WalkInv, NEW v, Finish(v)
    PROVE  WalkInv' /\ frames' = <<>> /\ verdict' = v
<1>1. /\ UNCHANGED <<before, owners, list, volume, emitted, counts>>
      /\ frames' = <<>> /\ pathBuf' = <<>> /\ verdict' = v
  BY DEF Finish, Source
<1>2. /\ frames' \in Seq(Frames) /\ pathBuf' \in Names /\ Len(frames') = 0 /\ Len(pathBuf') = 0
      /\ 1 .. Len(frames') = {}
  BY <1>1 DEF Names
<1>3. ScanTypes'
  BY <1>1, <1>2 DEF WalkInv, ScanTypes
<1>4. FramesInv'
  BY <1>2 DEF FramesInv
<1>5. OwnersInv'
  BY <1>1, <1>2 DEF WalkInv, OwnersInv
<1>6. GivenInOrder'
  BY <1>1, OrderSame DEF WalkInv
<1>7. QED
  BY <1>1, <1>3, <1>4, <1>5, <1>6 DEF WalkInv

\* The root is given.
LEMMA RootWalk ==
    ASSUME WalkInv, ScanRoot PROVE WalkInv'
<1> DEFINE x == [path |-> <<>>, kind |-> "dir", owner |-> FALSE]
           f == NewFrame(<<>>, "owner")
<1>1. /\ UNCHANGED <<before, owners, list, volume>>
      /\ emitted = <<>> /\ emitted' = <<x>> /\ counts' = [counts EXCEPT !.dirs = 1]
      /\ frames' = <<f>> /\ pathBuf' = <<>>
  BY DEF ScanRoot, Source
<1>2. <<>> \in Names /\ <<>> \in Seq(Stats) /\ Len(<<>>) = 0 /\ SubSeq(<<>>, 1, 0) = <<>> /\ 1 .. 0 = {}
  BY DEF Names
<1>3. /\ x.path = <<>> /\ x.kind = "dir" /\ x \in Emitted
      /\ Len(<<x>>) = 1 /\ <<x>> \in Seq(Emitted) /\ <<x>>[1] = x /\ <<x>> = Append(<<>>, x)
  BY <1>2 DEF Emitted, Kinds
<1>4. f.base = 0 /\ f.more /\ f.batch = <<>> /\ f.type = "owner" /\ f.given = {} /\ f \in Frames
  BY <1>2 DEF NewFrame, Frames
<1> HIDE DEF x, f
<1>5. /\ frames' \in Seq(Frames) /\ Len(frames') = 1 /\ frames'[1] = f /\ 1 .. Len(frames') = {1}
  BY <1>1, <1>4
<1>6. /\ counts' \in Counts /\ counts'.owner = counts.owner
  BY <1>1 DEF WalkInv, ScanTypes, Counts
<1>7. ScanTypes'
  <2>1. emitted' \in Seq(Emitted) /\ pathBuf' \in Names /\ Len(pathBuf') = 0
    BY <1>1, <1>2, <1>3
  <2>2. \A i \in 1 .. Len(frames') : frames'[i].base = i - 1
    BY <1>4, <1>5
  <2>3. Len(frames') <= Len(pathBuf') + 1
    BY <1>5, <2>1
  <2>4. /\ before' \in Volumes /\ owners' \in BOOLEAN
        /\ DOMAIN volume' \subseteq DOMAIN before' /\ \A p \in DOMAIN volume' : volume'[p] = before'[p]
    BY <1>1 DEF WalkInv, ScanTypes
  <2>5. Frames' = Frames /\ Counts' = Counts
    BY <1>1 DEF Frames, Counts, Stats
  <2>6. QED
    BY <1>5, <1>6, <2>1, <2>2, <2>3, <2>4, <2>5 DEF ScanTypes
<1>8. FramesInv'
  <2>1. At(1)' = <<>>
    BY <1>1, <1>2 DEF At
  <2>2. /\ Len(emitted') = 1 /\ 1 \in 1 .. 1 /\ emitted'[1] = x /\ \A k \in 1 .. 1 : k = 1
    BY <1>1, <1>3
  <2>3. GivenTo(emitted', <<>>)
    BY <1>3, <2>2 DEF GivenTo
  <2>4. Batched(f, before')
    BY <1>2, <1>4 DEF Batched
  <2>5. ~ChildOf(<<>>, <<>>)
    BY <1>2 DEF ChildOf
  <2>6. NotTwice(f, <<>>, emitted')
    BY <1>3, <2>2, <2>5 DEF NotTwice
  <2>7. FrameInv(f, <<>>, emitted', before')
    BY <1>4, <2>3, <2>4, <2>6 DEF FrameInv
  <2>8. QED
    BY <1>5, <2>1, <2>7 DEF FramesInv
<1>9. OwnersInv'
  BY <1>1, <1>4, <1>5, <1>6 DEF WalkInv, OwnersInv
<1>10. GivenInOrder'
  <2>1. KeptIn(<<>>)
    BY <1>2 DEF KeptIn
  <2>2. <<>> \in DOMAIN before /\ before[<<>>] = "root"
    BY Sources DEF WalkInv, ScanTypes
  <2>3. x.kind = EType(before[x.path])
    BY <1>3, <2>2 DEF EType
  <2>4. ~GivenTo(emitted, x.path)
    BY <1>1, <1>2 DEF GivenTo
  <2>5. emitted \in Seq(Emitted) /\ emitted' = Append(emitted, x) /\ GivenInOrder
    BY <1>1, <1>3 DEF WalkInv, ScanTypes
  <2>6. x.path \in DOMAIN before /\ KeptIn(x.path) /\ x.path = <<>>
    BY <1>3, <2>1, <2>2
  <2>7. x.path # <<>> => GivenTo(emitted, Front(x.path)) /\ x.owner = owners
    BY <2>6
  <2>8. x \in Emitted /\ UNCHANGED <<before, owners, list>>
    BY <1>1, <1>3
  <2>9. QED
    BY ONLY <2>3, <2>4, <2>5, <2>6, <2>7, <2>8, OrderKept
<1>11. QED
  BY <1>7, <1>8, <1>9, <1>10 DEF WalkInv

\* Something goes away.
LEMMA VanishWalk ==
    ASSUME WalkInv, Vanish
    PROVE  /\ WalkInv' /\ DOMAIN volume' \subseteq DOMAIN volume
           /\ UNCHANGED <<before, owners, list, frames, pathBuf, emitted, counts, verdict>>
<1>1. /\ UNCHANGED <<before, owners, list, frames, pathBuf, emitted, counts, verdict>>
      /\ DOMAIN volume' \subseteq DOMAIN volume /\ \A p \in DOMAIN volume' : volume'[p] = volume[p]
  <2>1. PICK p \in DOMAIN volume : volume' = Restrict(volume, {q \in DOMAIN volume : q # p /\ ~Inside(q, p)})
    BY DEF Vanish
  <2>2. PICK S : S = {q \in DOMAIN volume : q # p /\ ~Inside(q, p)} /\ volume' = [q \in S |-> volume[q]]
    BY <2>1 DEF Restrict
  <2>3. S \subseteq DOMAIN volume
    BY <2>2
  <2>4. QED
    BY <2>2, <2>3 DEF Vanish, Source
<1>2. ScanTypes'
  <2>1. Frames' = Frames
    BY <1>1 DEF Frames, Stats
  <2>2. QED
    BY <1>1, <2>1 DEF WalkInv, ScanTypes
<1>3. FramesInv'
  BY <1>1 DEF WalkInv, FramesInv, At
<1>4. OwnersInv'
  BY <1>1 DEF WalkInv, OwnersInv
<1>5. GivenInOrder'
  BY <1>1, OrderSame DEF WalkInv
<1>6. QED
  BY <1>1, <1>2, <1>3, <1>4, <1>5 DEF WalkInv

\* One frame is another one now.
LEMMA OneFrame ==
    ASSUME NEW S, NEW fs \in Seq(S), NEW n \in 1 .. Len(fs), NEW g \in S, NEW gs, gs = [fs EXCEPT ![n] = g]
    PROVE  gs \in Seq(S) /\ Len(gs) = Len(fs) /\ gs[n] = g /\ \A i \in 1 .. Len(fs) : i # n => gs[i] = fs[i]
OBVIOUS

\* What ListMore does: the entries it takes, in their order.
ListsSome(some, order, more) ==
    /\ some \subseteq Children(At(Len(frames))) \ Top.given
    /\ Children(At(Len(frames))) \ Top.given \subseteq some \/ more
    /\ \A k \in 1 .. Len(order) : order[k].path \in some /\ order[k].st = volume[order[k].path]
    /\ \A k, l \in 1 .. Len(order) : k # l => order[k].path # order[l].path
    /\ \A p \in some : \E k \in 1 .. Len(order) : order[k].path = p
    /\ order \in Seq(Stats) /\ more \in BOOLEAN

LEMMA TakesBatch ==
    ASSUME WalkInv, ListMore
    PROVE  /\ frames # <<>> /\ Top.batch = <<>> /\ Top.more
           /\ UNCHANGED <<before, owners, list, volume, pathBuf, emitted, verdict>>
           /\ counts' = [counts EXCEPT !.owner = @ \/ TypeFor(Top) = "owner"]
           /\ \E some, order, more :
                 /\ ListsSome(some, order, more)
                 /\ frames' = [frames EXCEPT ![Len(frames)] = Filled(Top, some, order, more)]
<1>1. /\ frames # <<>> /\ Top.batch = <<>> /\ Top.more
      /\ UNCHANGED <<before, owners, list, volume, pathBuf, emitted, verdict>>
      /\ counts' = [counts EXCEPT !.owner = @ \/ TypeFor(Top) = "owner"]
  BY DEF ListMore, WantsMore, Source
<1>2. PICK n : n = Len(frames) /\ n = Depth
  BY DEF Depth
<1>3. Kept(Top.base) = At(n)
  BY <1>1, <1>2, TopFrame
<1>4. PICK left : left = Children(At(n)) \ Top.given
  OBVIOUS
<1>5. PICK some \in SUBSET left : \E order \in SetToSeqs({Stat(p) : p \in some}) :
         \E more \in Says(some, left) : frames' = [frames EXCEPT ![n] = Filled(Top, some, order, more)]
  BY <1>2, <1>3, <1>4 DEF ListMore
<1>6. PICK T : T = {Stat(p) : p \in some}
  OBVIOUS
<1>7. PICK order \in SetToSeqs(T) :
         \E more \in Says(some, left) : frames' = [frames EXCEPT ![n] = Filled(Top, some, order, more)]
  BY <1>5, <1>6
<1>8. PICK more \in Says(some, left) : frames' = [frames EXCEPT ![n] = Filled(Top, some, order, more)]
  BY <1>7
<1>9. more \in BOOLEAN /\ (some # left => more)
  BY DEF Says
<1>10. some \subseteq DOMAIN volume /\ DOMAIN volume \subseteq DOMAIN before /\ before \in Volumes
       /\ \A p \in some : volume[p] = before[p]
  BY <1>4 DEF Children, WalkInv, ScanTypes
<1>11. IsFiniteSet(T)
  <2>1. IsFiniteSet(some)
    BY <1>10, Sources, FS_Subset
  <2>2. [p \in some |-> Stat(p)] \in Surjection(some, T)
    BY <1>6 DEF Surjection
  <2>3. QED
    BY <2>1, <2>2, FS_Surjection
<1>12. /\ order \in Seq(T) /\ \A k, l \in 1 .. Len(order) : k # l => order[k] # order[l]
       /\ \A x \in T : \E k \in 1 .. Len(order) : order[k] = x
  BY <1>11, Listing
<1>13. \A x \in T : x.path \in some /\ x.st = volume[x.path] /\ x = Stat(x.path) /\ x \in Stats
  BY <1>6, <1>10 DEF Stats, Stat
<1>14. \A p \in some : Stat(p) \in T /\ Stat(p).path = p
  BY <1>6 DEF Stat
<1>15. \A k \in 1 .. Len(order) : order[k] \in T
  BY <1>12
<1>16. \A k \in 1 .. Len(order) : order[k].path \in some /\ order[k].st = volume[order[k].path]
                                  /\ order[k] = Stat(order[k].path)
  BY <1>13, <1>15
<1>17. \A k, l \in 1 .. Len(order) : k # l => order[k].path # order[l].path
  <2>1. ASSUME NEW k \in 1 .. Len(order), NEW l \in 1 .. Len(order), order[k].path = order[l].path
        PROVE  order[k] = order[l]
    BY <2>1, <1>16
  <2>2. QED
    BY <2>1, <1>12
<1>18. ASSUME NEW p \in some PROVE \E k \in 1 .. Len(order) : order[k].path = p
  <2>1. PICK k \in 1 .. Len(order) : order[k] = Stat(p)
    BY <1>12, <1>14
  <2>2. QED
    BY <2>1, <1>14
<1>19. order \in Seq(Stats)
  <2>1. T \subseteq Stats
    BY <1>13
  <2>2. QED
    BY <1>12, <2>1
<1>20. some \subseteq left /\ (left \subseteq some \/ more)
  BY <1>9
<1>21. ListsSome(some, order, more)
  BY <1>2, <1>4, <1>9, <1>16, <1>17, <1>18, <1>19, <1>20 DEF ListsSome
<1>22. QED
  BY <1>1, <1>2, <1>8, <1>21

\* Entries are listed: all that was to come still is.
LEMMA ListWalk ==
    ASSUME WalkInv, ListMore
    PROVE  /\ WalkInv' /\ counts'.dirsFailed = counts.dirsFailed
           /\ \A p \in DOMAIN volume \ {<<>>} : Expected(p) => Expected(p)'
           /\ UNCHANGED <<before, list, volume, emitted, verdict>>
<1>1. /\ frames # <<>> /\ Top.batch = <<>> /\ Top.more
      /\ UNCHANGED <<before, owners, list, volume, pathBuf, emitted, verdict>>
      /\ counts' = [counts EXCEPT !.owner = @ \/ TypeFor(Top) = "owner"]
  BY TakesBatch
<1>2. PICK n, some, order, more, g :
         /\ n = Len(frames) /\ ListsSome(some, order, more) /\ g = Filled(Top, some, order, more)
         /\ frames' = [frames EXCEPT ![n] = g]
  BY TakesBatch
<1>3. /\ n \in Nat \ {0} /\ n \in 1 .. Len(frames) /\ Top = frames[n] /\ Top \in Frames
      /\ Top.base = n - 1 /\ At(n) \in Names /\ FrameInv(Top, At(n), emitted, before)
  BY <1>1, <1>2, TopFrame
<1>4. /\ some \subseteq Children(At(n)) \ Top.given
      /\ Children(At(n)) \ Top.given \subseteq some \/ more
      /\ \A k \in 1 .. Len(order) : order[k].path \in some /\ order[k].st = volume[order[k].path]
      /\ \A k, l \in 1 .. Len(order) : k # l => order[k].path # order[l].path
      /\ \A p \in some : \E k \in 1 .. Len(order) : order[k].path = p
      /\ order \in Seq(Stats) /\ more \in BOOLEAN
  BY <1>2 DEF ListsSome
<1>5. /\ DOMAIN volume \subseteq DOMAIN before /\ \A p \in DOMAIN volume : volume[p] = before[p]
      /\ before \in Volumes /\ owners \in BOOLEAN /\ frames \in Seq(Frames) /\ counts \in Counts
  BY DEF WalkInv, ScanTypes
<1>6. \A p \in some : p \in DOMAIN volume /\ p \in DOMAIN before /\ ChildOf(p, At(n)) /\ volume[p] = before[p]
  BY <1>4, <1>5 DEF Children, Inside, ChildOf
<1>7. /\ g.base = Top.base /\ g.more = more /\ g.given = Top.given \cup some /\ g.batch = order
      /\ g.type = TypeFor(Top) /\ g \in Frames
  <2>1. TypeFor(Top) \in {"owner", "comment"}
    BY <1>3, <1>5 DEF TypeFor, Frames
  <2>2. g = [Top EXCEPT !.more = more, !.given = @ \cup some, !.type = TypeFor(Top), !.batch = order]
    BY <1>2 DEF Filled, Batch
  <2>3. Top.given \cup some \subseteq DOMAIN before
    BY <1>3, <1>6 DEF Frames
  <2>4. QED
    BY <1>3, <1>4, <2>1, <2>2, <2>3 DEF Frames
<1>8. /\ frames' \in Seq(Frames) /\ Len(frames') = Len(frames) /\ frames'[n] = g
      /\ \A i \in 1 .. Len(frames) : i # n => frames'[i] = frames[i]
  BY <1>2, <1>3, <1>5, <1>7, OneFrame
<1>9. \A i : At(i)' = At(i)
  BY <1>1 DEF At
<1>10. /\ counts' \in Counts /\ counts'.dirsFailed = counts.dirsFailed
       /\ (owners => counts'.owner) /\ (~owners => counts'.owner = counts.owner)
  <2>1. owners => TypeFor(Top) = "owner"
    BY <1>3, <1>5 DEF WalkInv, OwnersInv, TypeFor
  <2>2. ~owners => TypeFor(Top) # "owner"
    BY DEF TypeFor
  <2>3. PICK b \in BOOLEAN : b <=> counts.owner \/ TypeFor(Top) = "owner"
    OBVIOUS
  <2>4. counts.owner \in BOOLEAN
    BY <1>5 DEF Counts
  <2>5. (counts.owner \/ TypeFor(Top) = "owner") = b
    BY <2>3, <2>4
  <2>6. counts' = [counts EXCEPT !.owner = b]
    BY <1>1, <2>5
  <2>7. counts' \in Counts /\ counts'.dirsFailed = counts.dirsFailed /\ counts'.owner = b
    BY <1>5, <2>6 DEF Counts
  <2>8. QED
    BY <2>1, <2>2, <2>3, <2>4, <2>7
<1>11. ScanTypes'
  <2>1. Frames' = Frames
    BY <1>1 DEF Frames, Stats
  <2>2. ASSUME NEW i \in 1 .. Len(frames') PROVE frames'[i].base = i - 1
    BY <1>3, <1>7, <1>8 DEF WalkInv, ScanTypes
  <2>3. QED
    BY <1>1, <1>8, <1>10, <2>1, <2>2 DEF WalkInv, ScanTypes
<1>12. FramesInv'
  <2>1. FrameInv(g, At(n), emitted, before)
    <3>1. GivenTo(emitted, At(n)) /\ (\A p \in Top.given : ChildOf(p, At(n)))
          /\ NotTwice(Top, At(n), emitted)
      BY <1>3 DEF FrameInv
    <3>2. \A p \in g.given : ChildOf(p, At(n))
      BY <3>1, <1>6, <1>7
    <3>3. Batched(g, before)
      BY <1>4, <1>6, <1>7 DEF Batched
    <3>4. ASSUME NEW k \in 1 .. Len(emitted), ChildOf(emitted[k].path, At(n))
          PROVE  /\ emitted[k].path \in g.given
                 /\ \A l \in 1 .. Len(g.batch) : g.batch[l].path # emitted[k].path
      <4>1. emitted[k].path \in Top.given
        BY <3>1, <3>4 DEF NotTwice
      <4>2. QED
        BY <4>1, <1>4, <1>7
    <3>5. NotTwice(g, At(n), emitted)
      BY <3>4 DEF NotTwice
    <3>6. QED
      BY <3>1, <3>2, <3>3, <3>5 DEF FrameInv
  <2>2. ASSUME NEW i \in 1 .. Len(frames') PROVE FrameInv(frames'[i], At(i)', emitted', before')
    <3>1. CASE i = n
      BY <3>1, <2>1, <1>1, <1>8, <1>9
    <3>2. CASE i # n
      <4>1. FrameInv(frames[i], At(i), emitted, before)
        BY <1>8 DEF WalkInv, FramesInv
      <4>2. QED
        BY <4>1, <3>2, <1>1, <1>8, <1>9
    <3>3. QED
      BY <3>1, <3>2
  <2>3. QED
    BY <2>2 DEF FramesInv
<1>13. OwnersInv'
  <2>1. counts'.owner => owners'
    BY <1>1, <1>5, <1>10 DEF WalkInv, OwnersInv
  <2>2. ASSUME owners', NEW i \in 1 .. Len(frames')
        PROVE  frames'[i].type = "owner" /\ (frames'[i].batch # <<>> => counts'.owner)
    <3>1. owners /\ counts'.owner
      BY <2>2, <1>1, <1>10
    <3>2. g.type = "owner"
      BY <3>1, <1>3, <1>7 DEF WalkInv, OwnersInv, TypeFor
    <3>3. i # n => frames[i].type = "owner"
      BY <3>1, <1>8 DEF WalkInv, OwnersInv
    <3>4. QED
      BY <3>1, <3>2, <3>3, <1>8
  <2>3. QED
    BY <2>1, <2>2 DEF OwnersInv
<1>14. GivenInOrder'
  BY <1>1, OrderSame DEF WalkInv
<1>15. ASSUME NEW p \in DOMAIN volume \ {<<>>}, Expected(p) PROVE Expected(p)'
  <2>1. PICK i \in 1 .. Len(frames) : Front(p) = At(i) /\ ToCome(p, frames[i])
    BY <1>15 DEF Expected
  <2>2. ToCome(p, frames'[i])
    <3>1. CASE i # n
      BY <3>1, <2>1, <1>8
    <3>2. CASE i = n
      <4>1. 1 .. Len(Top.batch) = {}
        BY <1>1
      <4>2. p \notin Top.given
        BY <3>2, <4>1, <2>1, <1>3 DEF ToCome
      <4>3. p \in Names
        BY <1>5, Sources
      <4>4. ChildOf(p, At(n))
        BY <3>2, <2>1, <4>3, FrontHasChild DEF Names
      <4>5. p \in Children(At(n))
        BY <4>4, <1>3, <4>3 DEF Children, ChildOf, Inside, Names
      <4>6. CASE p \in some
        BY <4>6, <3>2, <1>4, <1>7, <1>8 DEF ToCome
      <4>7. CASE p \notin some
        BY <4>7, <4>2, <4>5, <3>2, <1>4, <1>7, <1>8 DEF ToCome
      <4>8. QED
        BY <4>6, <4>7
    <3>3. QED
      BY <3>1, <3>2
  <2>3. i \in 1 .. Len(frames') /\ Front(p) = At(i)'
    BY <2>1, <1>8, <1>9
  <2>4. QED
    BY <2>2, <2>3 DEF Expected, ToCome
<1>16. QED
  BY <1>1, <1>10, <1>11, <1>12, <1>13, <1>14, <1>15 DEF WalkInv

\* What dealing with an entry has in common: the buffer holds its path, the
\* batch is without it, and the visitor was given it or not.
Dealt(e, em) ==
    /\ frames # <<>> /\ Top.batch # <<>> /\ e = Head(Top.batch)
    /\ UNCHANGED <<before, owners, list, volume, verdict>>
    /\ pathBuf' = e.path /\ emitted' = em
    /\ counts' \in Counts /\ counts'.owner = counts.owner
    /\ \/ em = emitted
       \/ /\ ~Out(e.path)
          /\ \E x \in Emitted : x.path = e.path /\ x.kind = EType(e.st) /\ x.owner = (Top.type = "owner" /\ counts.owner)
                                /\ em = Append(emitted, x)
    /\ \/ frames' = Rest
       \/ GivenTo(em, e.path) /\ em # emitted /\ frames' = Append(Rest, NewFrame(e.path, Top.type))

\* The frames before the new one.
LEMMA RestFrames ==
    ASSUME WalkInv, frames # <<>>, Top.batch # <<>>, NEW n, n = Len(frames)
    PROVE  /\ Rest \in Seq(Frames) /\ Len(Rest) = n /\ Rest[n] = AfterNext(Top) /\ AfterNext(Top) \in Frames
           /\ \A i \in 1 .. n : i # n => Rest[i] = frames[i]
           /\ \A i \in 1 .. n : /\ Rest[i].base = frames[i].base /\ Rest[i].type = frames[i].type
                                /\ Rest[i].more = frames[i].more /\ Rest[i].given = frames[i].given
           /\ \A i \in 1 .. n : Rest[i].batch # <<>> => frames[i].batch # <<>>
<1>1. n \in 1 .. Len(frames) /\ Top = frames[n] /\ Top \in Frames /\ n = Depth
  BY TopFrame DEF Depth
<1>2. PICK g : g = AfterNext(Top)
  OBVIOUS
<1>3. /\ g \in Frames /\ g.base = Top.base /\ g.more = Top.more /\ g.type = Top.type /\ g.given = Top.given
  BY <1>1, <1>2, TailOfBatch
<1>4. Rest = [frames EXCEPT ![n] = g]
  BY <1>1, <1>2 DEF Rest, AfterNext
<1>5. frames \in Seq(Frames)
  BY DEF WalkInv, ScanTypes
<1>6. /\ Rest \in Seq(Frames) /\ Len(Rest) = n /\ Rest[n] = g
      /\ \A i \in 1 .. n : i # n => Rest[i] = frames[i]
  <2>1. PICK r : r = Rest /\ r = [frames EXCEPT ![n] = g]
    BY <1>4
  <2>2. r \in Seq(Frames) /\ Len(r) = Len(frames) /\ r[n] = g
        /\ \A i \in 1 .. Len(frames) : i # n => r[i] = frames[i]
    BY ONLY <1>1, <1>3, <1>5, <2>1, OneFrame
  <2>3. QED
    BY ONLY <2>1, <2>2, n = Len(frames)
<1>7. ASSUME NEW i \in 1 .. n
      PROVE  /\ Rest[i].base = frames[i].base /\ Rest[i].type = frames[i].type
             /\ Rest[i].more = frames[i].more /\ Rest[i].given = frames[i].given
             /\ Rest[i].batch # <<>> => frames[i].batch # <<>>
  <2>1. CASE i = n
    BY <2>1, <1>1, <1>3, <1>6
  <2>2. CASE i # n
    BY <2>2, <1>6
  <2>3. QED
    BY <2>1, <2>2
<1>8. QED
  BY <1>2, <1>3, <1>6, <1>7

\* What is in the buffer then is a directory's path for each frame still, and
\* for the new one.
LEMMA DealtAt ==
    ASSUME WalkInv, NEW e, NEW em, Dealt(e, em), NEW n, n = Len(frames)
    PROVE  /\ \A i \in 1 .. n : At(i)' = At(i)
           /\ At(n + 1)' = e.path /\ e.path \in Names /\ Len(e.path) = n
<1>1. frames # <<>> /\ Top.batch # <<>> /\ e = Head(Top.batch) /\ pathBuf' = e.path
  BY DEF Dealt
<1>2. e.path \in Names /\ ChildOf(e.path, At(n)) /\ Len(e.path) = n
  BY <1>1, NextOfBatch
<1>3. \A i \in 1 .. n : At(i)' = At(i)
  BY <1>1, <1>2, AtKept
<1>4. n \in Nat
  BY <1>1, TopFrame
<1>5. (n + 1) - 1 = n /\ SubSeq(e.path, 1, Len(e.path)) = e.path
  BY <1>2, <1>4 DEF Names
<1>6. At(n + 1)' = e.path
  BY <1>1, <1>2, <1>5 DEF At
<1>7. QED
  BY <1>2, <1>3, <1>6

LEMMA DealtGiven ==
    ASSUME WalkInv, NEW e, NEW em, Dealt(e, em)
    PROVE  /\ em \in Seq(Emitted)
           /\ \A p : GivenTo(em, p) <=> GivenTo(emitted, p) \/ (em # emitted /\ p = e.path)
<1>1. emitted \in Seq(Emitted)
  BY DEF WalkInv, ScanTypes
<1>2. CASE em = emitted
  <2>1. ASSUME NEW p PROVE GivenTo(em, p) <=> GivenTo(emitted, p) \/ (em # emitted /\ p = e.path)
    BY ONLY <1>2
  <2>2. QED
    BY <1>1, <1>2, <2>1
<1>3. ASSUME em # emitted
      PROVE  em \in Seq(Emitted) /\ \A p : GivenTo(em, p) <=> GivenTo(emitted, p) \/ p = e.path
  <2>1. PICK x \in Emitted : x.path = e.path /\ em = Append(emitted, x)
    BY <1>3 DEF Dealt
  <2>2. \A p : GivenTo(em, p) <=> GivenTo(emitted, p) \/ p = x.path
    BY <1>1, <2>1, GivenMore
  <2>3. em \in Seq(Emitted)
    BY <1>1, <2>1
  <2>4. QED
    BY <2>1, <2>2, <2>3
<1>4. QED
  BY <1>2, <1>3

\* The frames then: n of them, and perhaps f, the one of the entry.
Grown(em, n, f) ==
    /\ frames' \in Seq(Frames) /\ n \in Nat \ {0} /\ Len(frames') \in {n, n + 1}
    /\ \A i \in 1 .. n : frames'[i] = Rest[i]
    /\ Len(frames') = n + 1 => em # emitted /\ frames'[n + 1] = f
    /\ f \in Frames /\ f.base = n /\ f.more = TRUE /\ f.batch = <<>> /\ f.type = Top.type /\ f.given = {}
    /\ frames' = Rest => Len(frames') = n
    /\ frames' # Rest => Len(frames') = n + 1

LEMMA DealtFrames ==
    ASSUME WalkInv, NEW e, NEW em, Dealt(e, em), NEW n, n = Len(frames), NEW f, f = NewFrame(e.path, Top.type)
    PROVE  Grown(em, n, f)
<1>1. frames # <<>> /\ Top.batch # <<>>
  BY DEF Dealt
<1>2. n \in Nat \ {0} /\ Top \in Frames
  BY <1>1, TopFrame
<1>3. Rest \in Seq(Frames) /\ Len(Rest) = n
  BY <1>1, RestFrames
<1>4. Len(e.path) = n
  BY DealtAt
<1>5. <<>> \in Seq(Stats)
  OBVIOUS
<1>6. f \in Frames /\ f.base = n /\ f.more = TRUE /\ f.batch = <<>> /\ f.type = Top.type /\ f.given = {}
  BY <1>2, <1>4, <1>5 DEF NewFrame, Frames
<1>7. PICK r : r = Rest
  OBVIOUS
<1>8. /\ Append(r, f) \in Seq(Frames) /\ Len(Append(r, f)) = n + 1 /\ Append(r, f)[n + 1] = f
      /\ \A i \in 1 .. n : Append(r, f)[i] = r[i]
  BY <1>2, <1>3, <1>6, <1>7
<1>9. frames' = r \/ (em # emitted /\ frames' = Append(r, f))
  BY <1>7 DEF Dealt
<1>10. n + 1 # n
  BY <1>2
<1>11. QED
  BY ONLY <1>2, <1>3, <1>6, <1>7, <1>8, <1>9, <1>10 DEF Grown

LEMMA DealtFramesInv ==
    ASSUME WalkInv, NEW e, NEW em, Dealt(e, em), NEW n, n = Len(frames), NEW f, f = NewFrame(e.path, Top.type)
    PROVE  FramesInv'
<1>1. n = Len(frames) /\ f = NewFrame(e.path, Top.type)
  OBVIOUS
<1>2. /\ frames # <<>> /\ Top.batch # <<>> /\ e = Head(Top.batch) /\ before' = before /\ emitted' = em
  BY DEF Dealt
<1>3. /\ n \in Nat \ {0} /\ Len(frames') \in {n, n + 1} /\ \A i \in 1 .. n : frames'[i] = Rest[i]
      /\ Len(frames') = n + 1 => em # emitted /\ frames'[n + 1] = f
      /\ f.batch = <<>> /\ f.given = {}
  <2>1. Grown(em, n, f)
    BY DealtFrames
  <2>2. QED
    BY <2>1 DEF Grown
<1>4. /\ \A i \in 1 .. n : At(i)' = At(i)
      /\ At(n + 1)' = e.path /\ e.path \in Names /\ Len(e.path) = n
  BY <1>1, DealtAt
<1>5. /\ Rest[n] = AfterNext(Top) /\ \A i \in 1 .. n : i # n => Rest[i] = frames[i]
  BY <1>1, <1>2, RestFrames
<1>6. em = emitted \/ \E x \in Emitted : x.path = e.path /\ em = Append(emitted, x)
  BY DEF Dealt
<1>7. emitted \in Seq(Emitted) /\ GivenInOrder
  BY DEF WalkInv, ScanTypes
<1>8. /\ ChildOf(e.path, At(n)) /\ e = Top.batch[1] /\ ~GivenTo(emitted, e.path) /\ e.path # <<>>
  BY <1>1, <1>2, NextOfBatch
<1>9. Top \in Frames /\ FrameInv(Top, At(n), emitted, before)
  BY <1>1, <1>2, TopFrame
<1>10. ASSUME NEW i \in 1 .. n, i # n PROVE FrameInv(frames'[i], At(i)', em, before)
  <2>1. FrameInv(frames[i], At(i), emitted, before) /\ Len(At(i)) = i - 1
    BY <1>1, AtType DEF WalkInv, FramesInv
  <2>2. ~ChildOf(e.path, At(i))
    BY <2>1, <1>3, <1>4, <1>10 DEF ChildOf
  <2>3. FrameInv(frames[i], At(i), em, before)
    BY <2>1, <2>2, <1>6, <1>7, FrameElsewhere
  <2>4. QED
    BY <2>3, <1>3, <1>4, <1>5, <1>10
<1>11. FrameInv(frames'[n], At(n)', em, before)
  <2>1. em = emitted \/ \E x \in Emitted : x.path = Top.batch[1].path /\ em = Append(emitted, x)
    BY <1>6, <1>8
  <2>2. FrameInv(AfterNext(Top), At(n), em, before)
    BY <2>1, <1>2, <1>7, <1>9, FrameAfterNext
  <2>3. n \in 1 .. n
    BY <1>3
  <2>4. QED
    BY <2>2, <2>3, <1>3, <1>4, <1>5
<1>12. ASSUME em # emitted PROVE FrameInv(f, e.path, em, before)
  <2>1. GivenTo(em, e.path)
    BY <1>12, DealtGiven
  <2>2. Batched(f, before)
    <3>1. 1 .. Len(f.batch) = {}
      BY <1>3
    <3>2. QED
      BY <3>1 DEF Batched
  <2>3. PICK x \in Emitted : x.path = e.path /\ em = Append(emitted, x)
    BY <1>6, <1>12
  <2>4. /\ Len(em) = Len(emitted) + 1 /\ em[Len(emitted) + 1] = x /\ Len(emitted) \in Nat
        /\ \A k \in 1 .. Len(emitted) : em[k] = emitted[k]
    BY <2>3, <1>7
  <2>5. ASSUME NEW k \in 1 .. Len(em) PROVE ~ChildOf(em[k].path, e.path)
    <3>1. CASE k = Len(emitted) + 1
      BY <3>1, <2>3, <2>4, <1>3, <1>4 DEF ChildOf
    <3>2. CASE k \in 1 .. Len(emitted)
      <4>0. emitted \in Seq(Emitted)
        BY <1>7
      <4>1. PICK y : y = emitted[k] /\ y = em[k]
        BY <3>2, <2>4
      <4>a. k \in DOMAIN emitted /\ y \in Emitted
        <5>1. DOMAIN emitted = 1 .. Len(emitted)
          BY ONLY <4>0
        <5>2. emitted[k] \in Emitted
          BY ONLY <4>0, <3>2
        <5>3. QED
          BY ONLY <5>1, <5>2, <4>1, <3>2
      <4>2. y.path # <<>> => \E j \in 1 .. k - 1 : emitted[j].path = Front(y.path)
        BY ONLY <4>1, <4>a, <1>7 DEF GivenInOrder
      <4>3. y.path \in Names
        BY <4>a DEF Emitted
      <4>4. ASSUME ChildOf(y.path, e.path) PROVE FALSE
        <5>1. y.path # <<>> /\ Front(y.path) = e.path
          BY <4>3, <4>4, <1>4, Children1 DEF Names
        <5>2. PICK j \in 1 .. k - 1 : emitted[j].path = e.path
          BY <4>2, <5>1
        <5>3. j \in 1 .. Len(emitted)
          BY <3>2, <2>4
        <5>4. QED
          BY <5>2, <5>3, <1>8 DEF GivenTo
      <4>5. QED
        BY <4>1, <4>4
    <3>3. QED
      BY <3>1, <3>2, <2>4
  <2>6. NotTwice(f, e.path, em)
    BY <2>5 DEF NotTwice
  <2>7. QED
    BY <2>1, <2>2, <2>6, <1>3 DEF FrameInv
<1>13. ASSUME NEW i \in 1 .. Len(frames') PROVE FrameInv(frames'[i], At(i)', emitted', before')
  <2>1. CASE i \in 1 .. n
    BY <2>1, <1>2, <1>10, <1>11
  <2>2. CASE i \notin 1 .. n
    <3>1. i = n + 1 /\ Len(frames') = n + 1
      BY <2>2, <1>3
    <3>2. QED
      BY <3>1, <1>2, <1>3, <1>4, <1>12
  <2>3. QED
    BY <2>1, <2>2
<1>14. QED
  BY <1>13 DEF FramesInv

LEMMA DealtTypes ==
    ASSUME WalkInv, NEW e, NEW em, Dealt(e, em), NEW n, n = Len(frames), NEW f, f = NewFrame(e.path, Top.type)
    PROVE  ScanTypes' /\ OwnersInv'
<1>1. /\ frames # <<>> /\ Top.batch # <<>>
      /\ UNCHANGED <<before, owners, list, volume, verdict>> /\ pathBuf' = e.path /\ emitted' = em
      /\ counts' \in Counts /\ counts'.owner = counts.owner
  BY DEF Dealt
<1>2. Grown(em, n, f)
  BY DealtFrames
<1>3. /\ frames' \in Seq(Frames) /\ n \in Nat \ {0} /\ Len(frames') \in {n, n + 1}
      /\ \A i \in 1 .. n : frames'[i] = Rest[i]
      /\ Len(frames') = n + 1 => frames'[n + 1] = f
      /\ f.base = n /\ f.batch = <<>> /\ f.type = Top.type
  BY <1>2 DEF Grown
<1>4. /\ \A i \in 1 .. n : Rest[i].base = frames[i].base /\ Rest[i].type = frames[i].type
      /\ \A i \in 1 .. n : Rest[i].batch # <<>> => frames[i].batch # <<>>
  BY <1>1, RestFrames
<1>5. e.path \in Names /\ Len(e.path) = n
  BY DealtAt
<1>6. em \in Seq(Emitted)
  BY DealtGiven
<1>7. \A i \in 1 .. Len(frames') : i \in 1 .. n \/ (i = n + 1 /\ Len(frames') = n + 1)
  BY <1>3
<1>8. ScanTypes'
  <2>1. Frames' = Frames
    BY <1>1 DEF Frames, Stats
  <2>2. ASSUME NEW i \in 1 .. Len(frames') PROVE frames'[i].base = i - 1
    <3>1. CASE i \in 1 .. n
      BY <3>1, <1>3, <1>4 DEF WalkInv, ScanTypes
    <3>2. CASE i = n + 1 /\ Len(frames') = n + 1
      BY <3>2, <1>3
    <3>3. QED
      BY <3>1, <3>2, <1>7
  <2>3. Len(frames') <= Len(pathBuf') + 1
    BY <1>1, <1>3, <1>5
  <2>4. /\ before' \in Volumes /\ owners' \in BOOLEAN
        /\ DOMAIN volume' \subseteq DOMAIN before' /\ \A p \in DOMAIN volume' : volume'[p] = before'[p]
    BY <1>1 DEF WalkInv, ScanTypes
  <2>5. QED
    BY <1>1, <1>3, <1>5, <1>6, <2>1, <2>2, <2>3, <2>4 DEF ScanTypes
<1>9. OwnersInv'
  <2>1. counts'.owner => owners'
    BY <1>1 DEF WalkInv, OwnersInv
  <2>2. ASSUME owners', NEW i \in 1 .. Len(frames')
        PROVE  frames'[i].type = "owner" /\ (frames'[i].batch # <<>> => counts'.owner)
    <3>1. \A j \in 1 .. n : frames[j].type = "owner" /\ (frames[j].batch # <<>> => counts.owner)
      BY <2>2, <1>1 DEF WalkInv, OwnersInv
    <3>2. CASE i \in 1 .. n
      BY <3>1, <3>2, <1>1, <1>3, <1>4
    <3>3. CASE i = n + 1 /\ Len(frames') = n + 1
      <4>1. Top.type = "owner"
        BY <3>1, <1>1, TopFrame
      <4>2. QED
        BY <3>3, <4>1, <1>3
    <3>4. QED
      BY <3>2, <3>3, <1>7
  <2>3. QED
    BY <2>1, <2>2 DEF OwnersInv
<1>10. QED
  BY <1>8, <1>9

\* What is kept in, with the entries above it.
LEMMA DealtKept ==
    ASSUME WalkInv, NEW e, NEW em, Dealt(e, em) PROVE KeptIn(e.path) <=> ~Out(e.path)
<1>1. PICK n : n = Len(frames)
  OBVIOUS
<1>2. /\ frames # <<>> /\ Top.batch # <<>> /\ e = Head(Top.batch)
  BY DEF Dealt
<1>3. e.path \in Names /\ ChildOf(e.path, At(n)) /\ GivenTo(emitted, At(n))
  BY <1>1, <1>2, NextOfBatch
<1>4. At(n) \in Names
  BY <1>1, <1>2, TopFrame
<1>5. KeptIn(At(n))
  <2>1. PICK k \in 1 .. Len(emitted) : emitted[k].path = At(n)
    BY <1>3 DEF GivenTo
  <2>2. emitted \in Seq(Emitted)
    BY DEF WalkInv, ScanTypes
  <2>3. k \in DOMAIN emitted
    BY ONLY <2>2
  <2>4. GivenInOrder
    BY DEF WalkInv
  <2>5. QED
    BY ONLY <2>1, <2>3, <2>4 DEF GivenInOrder
<1>6. QED
  BY <1>3, <1>4, <1>5, KeptChild

LEMMA DealtOrder == ASSUME WalkInv, NEW e, NEW em, Dealt(e, em) PROVE GivenInOrder'
<1>1. PICK n : n = Len(frames)
  OBVIOUS
<1>2. /\ frames # <<>> /\ Top.batch # <<>> /\ e = Head(Top.batch)
      /\ UNCHANGED <<before, owners, list>> /\ emitted' = em
  BY DEF Dealt
<1>3. GivenInOrder /\ emitted \in Seq(Emitted) /\ owners \in BOOLEAN /\ counts.owner \in BOOLEAN
  BY DEF WalkInv, ScanTypes, Counts
<1>4. CASE em = emitted
  BY <1>2, <1>3, <1>4, OrderSame
<1>5. ASSUME em # emitted PROVE GivenInOrder'
  <2>1. PICK x \in Emitted : /\ x.path = e.path /\ x.kind = EType(e.st)
                             /\ x.owner = (Top.type = "owner" /\ counts.owner) /\ em = Append(emitted, x)
    BY <1>5 DEF Dealt
  <2>2. /\ e.path \in DOMAIN before /\ e.st = before[e.path] /\ Front(e.path) = At(n)
        /\ ~GivenTo(emitted, e.path) /\ GivenTo(emitted, At(n))
    BY <1>1, <1>2, NextOfBatch
  <2>3. KeptIn(e.path)
    <3>1. ~Out(e.path)
      BY <1>5 DEF Dealt
    <3>2. QED
      BY <3>1, DealtKept
  <2>4. x.owner = owners
    <3>1. x.owner \in BOOLEAN
      BY DEF Emitted
    <3>2. n \in 1 .. Len(frames) /\ Top = frames[n]
      BY <1>1, <1>2, TopFrame
    <3>3. owners => Top.type = "owner" /\ counts.owner
      BY <3>2, <1>2 DEF WalkInv, OwnersInv
    <3>4. ~owners => ~counts.owner
      BY DEF WalkInv, OwnersInv
    <3>5. (Top.type = "owner" /\ counts.owner) <=> owners
      BY <3>3, <3>4
    <3>6. x.owner <=> owners
      BY <2>1, <3>5
    <3>7. QED
      BY ONLY <3>1, <3>6, <1>3
  <2>5. emitted' = Append(emitted, x) /\ x.path \in DOMAIN before /\ x.kind = EType(before[x.path])
        /\ KeptIn(x.path) /\ ~GivenTo(emitted, x.path)
        /\ (x.path # <<>> => GivenTo(emitted, Front(x.path)) /\ x.owner = owners)
    BY <1>2, <2>1, <2>2, <2>3, <2>4
  <2>6. QED
    BY ONLY <1>2, <1>3, <2>5, OrderKept
<1>6. QED
  BY <1>4, <1>5

LEMMA DealtWalk == ASSUME WalkInv, NEW e, NEW em, Dealt(e, em) PROVE WalkInv'
<1>1. PICK n, f : n = Len(frames) /\ f = NewFrame(e.path, Top.type)
  OBVIOUS
<1>2. n = Len(frames)
  BY <1>1
<1>3. f = NewFrame(e.path, Top.type)
  BY <1>1
<1>4. ScanTypes' /\ OwnersInv'
  BY <1>2, <1>3, DealtTypes
<1>5. FramesInv'
  BY <1>2, <1>3, DealtFramesInv
<1>6. GivenInOrder'
  BY DealtOrder
<1>7. QED
  BY <1>4, <1>5, <1>6 DEF WalkInv

\* What was to come still is, but for the entry dealt with.
LEMMA DealtExpected ==
    ASSUME WalkInv, NEW e, NEW em, Dealt(e, em), NEW p, Expected(p), p # e.path
    PROVE  Expected(p)'
<1>1. PICK n, f : n = Len(frames) /\ f = NewFrame(e.path, Top.type)
  OBVIOUS
<1>2. frames # <<>> /\ Top.batch # <<>> /\ e = Head(Top.batch)
  BY DEF Dealt
<1>3. /\ n \in Nat \ {0} /\ n <= Len(frames') /\ \A i \in 1 .. n : frames'[i] = Rest[i]
  <2>1. n = Len(frames) /\ f = NewFrame(e.path, Top.type)
    BY <1>1
  <2>2. Grown(em, n, f)
    BY <2>1, DealtFrames
  <2>3. QED
    BY <2>2 DEF Grown
<1>4. \A i \in 1 .. n : At(i)' = At(i)
  BY <1>1, DealtAt
<1>5. PICK i \in 1 .. n : Front(p) = At(i) /\ ToCome(p, frames[i])
  BY <1>1 DEF Expected
<1>6. /\ Rest[n] = AfterNext(Top) /\ \A j \in 1 .. n : j # n => Rest[j] = frames[j]
      /\ Rest[i].more = frames[i].more /\ Rest[i].given = frames[i].given
  BY <1>1, <1>2, RestFrames
<1>7. ToCome(p, Rest[i])
  <2>1. CASE frames[i].more /\ p \notin frames[i].given
    BY <2>1, <1>6 DEF ToCome
  <2>2. ASSUME NEW k \in 1 .. Len(frames[i].batch), frames[i].batch[k].path = p
        PROVE  \E l \in 1 .. Len(Rest[i].batch) : Rest[i].batch[l].path = p
    <3>1. CASE i # n
      BY <3>1, <2>2, <1>6
    <3>2. CASE i = n
      <4>1. Top \in Frames /\ Top = frames[n]
        BY <1>1, <1>2, TopFrame
      <4>2. PICK g : g = AfterNext(Top)
        OBVIOUS
      <4>3. /\ Len(Top.batch) \in Nat \ {0} /\ Len(g.batch) = Len(Top.batch) - 1
            /\ \A l \in 1 .. Len(g.batch) : g.batch[l] = Top.batch[l + 1]
        <5>1. Top \in Frames /\ Top.batch # <<>>
          BY ONLY <4>1, <1>2
        <5>2. QED
          BY ONLY <5>1, <4>2, TailOfBatch
      <4>4. e = Top.batch[1] /\ k \in 1 .. Len(Top.batch) /\ Top.batch[k].path = p
        BY <3>2, <2>2, <4>1, <1>1, <1>2, NextOfBatch
      <4>5. k # 1
        BY <4>4
      <4>6. k - 1 \in 1 .. Len(g.batch) /\ (k - 1) + 1 = k
        BY <4>3, <4>4, <4>5
      <4>7. g.batch[k - 1] = Top.batch[k]
        BY <4>3, <4>6
      <4>8. QED
        BY <4>2, <4>4, <4>6, <4>7, <3>2, <1>6
    <3>3. QED
      BY <3>1, <3>2
  <2>3. QED
    BY <1>5, <2>1, <2>2 DEF ToCome
<1>8. i \in 1 .. Len(frames') /\ frames'[i] = Rest[i] /\ Front(p) = At(i)'
  BY <1>3, <1>4, <1>5
<1>9. QED
  BY <1>7, <1>8 DEF Expected

\* An entry that was not given is out; one that was and holds others is walked
\* next, or failed.
LEMMA DealtCovers ==
    ASSUME WalkInv, NEW e, NEW em, Dealt(e, em), em = emitted => Out(e.path),
           NEW failed, Covers(failed), NEW now, failed \subseteq now,
           em # emitted => frames' # Rest \/ EType(e.st) # "dir" \/ e.path \in now
    PROVE  Covers(now)'
<1>1. PICK n, f : n = Len(frames) /\ f = NewFrame(e.path, Top.type)
  OBVIOUS
<1>2. /\ frames # <<>> /\ Top.batch # <<>> /\ e = Head(Top.batch)
      /\ UNCHANGED <<before, owners, list, volume>> /\ emitted' = em
  BY DEF Dealt
<1>3. SUFFICES ASSUME NEW p \in DOMAIN volume \ {<<>>}, Waiting(p)', ~Expected(p)'
               PROVE  Front(p) \in now
  BY <1>2 DEF Covers
<1>4. KeptIn(p) /\ GivenTo(em, Front(p)) /\ ~GivenTo(em, p)
  <2>1. KeptIn(p)' <=> KeptIn(p)
    BY <1>2, KeptStill
  <2>2. KeptIn(p)' /\ GivenTo(emitted', Front(p)) /\ ~GivenTo(emitted', p)
    BY <1>3 DEF Waiting
  <2>3. QED
    BY <1>2, <2>1, <2>2
<1>5. \A q : GivenTo(em, q) <=> GivenTo(emitted, q) \/ (em # emitted /\ q = e.path)
  BY DealtGiven
<1>6. CASE GivenTo(emitted, Front(p))
  <2>1. Waiting(p)
    BY <1>4, <1>5, <1>6 DEF Waiting
  <2>2. p # e.path
    <3>1. KeptIn(e.path) <=> ~Out(e.path)
      BY DealtKept
    <3>2. QED
      BY ONLY <3>1, <1>4, <1>5, em = emitted => Out(e.path)
  <2>3. ~Expected(p)
    BY <2>2, <1>3, DealtExpected
  <2>4. Front(p) \in failed
    BY <2>1, <2>3 DEF Covers
  <2>5. QED
    BY <2>4
<1>7. CASE em # emitted /\ Front(p) = e.path
  <2>1. EType(e.st) = "dir"
    <3>1. p \in DOMAIN before \ {<<>>} /\ before \in Volumes
      BY <1>3 DEF WalkInv, ScanTypes
    <3>2. before[e.path] \in {"root", "userdir"}
      BY <3>1, <1>7, Sources
    <3>3. e.st = before[e.path]
      BY <1>1, <1>2, NextOfBatch
    <3>4. QED
      BY <3>2, <3>3 DEF EType
  <2>2. CASE frames' # Rest
    <3>1. n = Len(frames) /\ f = NewFrame(e.path, Top.type)
      BY <1>1
    <3>2. Grown(em, n, f)
      BY <3>1, DealtFrames
    <3>3. /\ n + 1 \in 1 .. Len(frames') /\ frames'[n + 1] = f /\ f.more = TRUE /\ f.given = {}
      BY <3>2, <2>2 DEF Grown
    <3>4. At(n + 1)' = e.path
      BY <1>1, DealtAt
    <3>5. ToCome(p, f)
      BY <3>3 DEF ToCome
    <3>6. Expected(p)'
      BY <1>7, <3>3, <3>4, <3>5 DEF Expected
    <3>7. QED
      BY <3>6, <1>3
  <2>3. QED
    BY <2>1, <2>2, <1>7
<1>8. QED
  BY <1>4, <1>5, <1>6, <1>7

LEMMA SeenCounts ==
    ASSUME WalkInv, NEW e, Len(Last(e.path)) \in Nat
    PROVE  Seen(e) \in Counts /\ Seen(e).owner = counts.owner /\ Seen(e).dirsFailed = counts.dirsFailed
<1>1. counts \in Counts
  BY DEF WalkInv, ScanTypes
<1>2. PICK m \in Nat : m = IF Len(Last(e.path)) > counts.maxName THEN Len(Last(e.path)) ELSE counts.maxName
  BY <1>1 DEF Counts
<1>3. Seen(e) = [counts EXCEPT !.maxName = m]
  BY <1>2 DEF Seen
<1>4. QED
  BY <1>1, <1>2, <1>3 DEF Counts

\* The alternatives of Process.
LEMMA ProcessDealt ==
    ASSUME WalkInv, Process
    PROVE  \E e : /\ Dealt(e, emitted') /\ (emitted' = emitted => Out(e.path))
                  /\ counts'.dirsFailed \in {counts.dirsFailed, counts.dirsFailed + 1}
                  /\ (emitted' # emitted /\ EType(e.st) = "dir" /\ frames' = Rest)
                        => counts'.dirsFailed = counts.dirsFailed + 1
<1>1. PICK e, n : e = Head(Top.batch) /\ n = Len(frames)
  OBVIOUS
<1>2. frames # <<>> /\ Top.batch # <<>> /\ UNCHANGED <<before, owners, list, volume, verdict>>
  BY DEF Process, Source
<1>3. /\ e.path \in DOMAIN before /\ e.path \in Names /\ e.st = before[e.path]
      /\ Pushed(Last(e.path)) = e.path /\ Last(e.path) \in Seq(STRING)
  BY <1>1, <1>2, NextOfBatch
<1>4. /\ pathBuf' = e.path
      /\ IF KeepsOut(e.path, e.st) THEN LeaveOut(e)
         ELSE SkipLink(e) \/ EmitFile(e, e.path) \/ Descend(e, e.path)
  BY <1>1, <1>3 DEF Process
<1>5. Seen(e) \in Counts /\ Seen(e).owner = counts.owner /\ Seen(e).dirsFailed = counts.dirsFailed
  <2>1. Len(Last(e.path)) \in Nat
    BY <1>3
  <2>2. QED
    BY <2>1, SeenCounts
<1>6. PICK s : s = Seen(e) /\ s \in Counts /\ s.owner = counts.owner /\ s.dirsFailed = counts.dirsFailed
  BY <1>5
<1>7. emitted \in Seq(Emitted) /\ counts \in Counts
  BY DEF WalkInv, ScanTypes
<1>8. counts.dirsFailed \in Nat
  BY <1>7 DEF Counts
<1>9. PICK x : x = Entry(e.path, e)
  OBVIOUS
<1>10. /\ x \in Emitted /\ x.path = e.path /\ x.kind = EType(e.st)
       /\ x.owner = (Top.type = "owner" /\ counts.owner)
  <2>1. EType(e.st) \in Kinds
    BY DEF EType, Kinds
  <2>2. PICK b \in BOOLEAN : b = (Top.type = "owner" /\ counts.owner)
    OBVIOUS
  <2>3. x = [path |-> e.path, kind |-> EType(e.st), owner |-> b]
    BY <1>9, <2>2 DEF Entry
  <2>4. QED
    BY <1>3, <2>1, <2>2, <2>3 DEF Emitted
<1>11. /\ Append(emitted, x) # emitted /\ GivenTo(Append(emitted, x), e.path)
  <2>1. Len(Append(emitted, x)) = Len(emitted) + 1 /\ Len(emitted) \in Nat
    BY <1>7, <1>10
  <2>2. GivenTo(Append(emitted, x), e.path)
    BY <1>7, <1>10, GivenMore
  <2>3. QED
    BY <2>1, <2>2
<1>12. CASE KeepsOut(e.path, e.st)
  <2>1. LeaveOut(e)
    BY <1>4, <1>12
  <2>2. emitted' = emitted /\ frames' = Rest
    BY <2>1 DEF LeaveOut
  <2>3. counts' \in Counts /\ counts'.owner = counts.owner /\ counts'.dirsFailed = counts.dirsFailed
    <3>1. counts' = [s EXCEPT !.dirsExcluded = @ + 1] \/ counts' = [s EXCEPT !.filesExcluded = @ + 1]
      BY <2>1, <1>6 DEF LeaveOut
    <3>2. QED
      BY <3>1, <1>6 DEF Counts
  <2>4. Out(e.path)
    BY <1>3, <1>12 DEF Out
  <2>5. Dealt(e, emitted')
    BY <1>1, <1>2, <1>4, <2>2, <2>3 DEF Dealt
  <2>6. QED
    BY <2>2, <2>3, <2>4, <2>5
<1>13. CASE ~KeepsOut(e.path, e.st) /\ SkipLink(e)
  <2>1. emitted' = emitted /\ frames' = Rest /\ counts' = [s EXCEPT !.links = @ + 1]
    BY <1>6, <1>13 DEF SkipLink
  <2>2. counts' \in Counts /\ counts'.owner = counts.owner /\ counts'.dirsFailed = counts.dirsFailed
    BY <2>1, <1>6 DEF Counts
  <2>3. Out(e.path)
    BY <1>3, <1>13 DEF SkipLink, Out
  <2>4. Dealt(e, emitted')
    BY <1>1, <1>2, <1>4, <2>1, <2>2 DEF Dealt
  <2>5. QED
    BY <2>1, <2>2, <2>3, <2>4
<1>14. CASE ~KeepsOut(e.path, e.st) /\ EmitFile(e, e.path)
  <2>1. /\ EType(e.st) = "file" /\ emitted' = Append(emitted, x) /\ frames' = Rest
        /\ counts' = [s EXCEPT !.files = @ + 1]
    BY <1>6, <1>9, <1>14 DEF EmitFile
  <2>2. counts' \in Counts /\ counts'.owner = counts.owner /\ counts'.dirsFailed = counts.dirsFailed
    BY <2>1, <1>6 DEF Counts
  <2>3. ~Out(e.path)
    BY <1>3, <1>14, <2>1 DEF Out
  <2>4. Dealt(e, emitted')
    BY <1>1, <1>2, <1>4, <1>10, <2>1, <2>2, <2>3 DEF Dealt
  <2>5. emitted' # emitted
    BY <1>11, <2>1
  <2>6. QED
    BY <2>1, <2>2, <2>4, <2>5
<1>15. CASE ~KeepsOut(e.path, e.st) /\ Descend(e, e.path)
  <2>1. EType(e.st) = "dir" /\ emitted' = Append(emitted, x)
    BY <1>9, <1>15 DEF Descend
  <2>2. PICK locks : locks \in {FALSE, (e.path \in DOMAIN volume)}
        /\ counts' = [Seen(e) EXCEPT !.dirs = @ + 1, !.dirsFailed = IF locks THEN @ ELSE @ + 1]
        /\ frames' = IF locks THEN Append(Rest, NewFrame(e.path, Top.type)) ELSE Rest
    BY <1>15 DEF Descend
  <2>3. PICK d, c : d = (IF locks THEN counts.dirsFailed ELSE counts.dirsFailed + 1) /\ c = s.dirs + 1
    OBVIOUS
  <2>a. d \in Nat /\ c \in Nat
    BY <1>6, <1>8, <2>3 DEF Counts
  <2>b. counts' = [s EXCEPT !.dirs = @ + 1, !.dirsFailed = IF locks THEN @ ELSE @ + 1]
    BY <1>6, <2>2
  <2>c. (IF locks THEN s.dirsFailed ELSE s.dirsFailed + 1) = d
    BY <1>6, <2>3
  <2>d. /\ counts' = [s EXCEPT !.dirs = s.dirs + 1,
                             !.dirsFailed = IF locks THEN s.dirsFailed ELSE s.dirsFailed + 1]
    BY <1>6, <2>b DEF Counts
  <2>4. d \in Nat /\ counts' = [s EXCEPT !.dirs = c, !.dirsFailed = d]
    BY <2>3, <2>a, <2>c, <2>d
  <2>5. counts' \in Counts /\ counts'.owner = counts.owner /\ counts'.dirsFailed = d
    BY <2>4, <2>a, <1>6 DEF Counts
  <2>6. ~Out(e.path)
    BY <1>3, <1>15, <2>1 DEF Out
  <2>7. emitted' # emitted /\ GivenTo(emitted', e.path)
    BY <1>11, <2>1
  <2>8. Dealt(e, emitted')
    BY <1>1, <1>2, <1>4, <1>10, <2>1, <2>2, <2>5, <2>6, <2>7 DEF Dealt
  <2>9. frames' = Rest => ~locks
    <3>1. Rest \in Seq(Frames) /\ Len(Rest) \in Nat
      BY <1>1, <1>2, RestFrames
    <3>2. \A f : Append(Rest, f) # Rest
      <4>1. ASSUME NEW f, Append(Rest, f) = Rest PROVE FALSE
        <5>1. PICK r : r = Rest /\ r \in Seq(Frames \cup {f}) /\ Len(r) \in Nat
          BY <3>1
        <5>2. Len(Append(r, f)) = Len(r) + 1
          BY <5>1
        <5>3. QED
          BY <5>1, <5>2, <4>1
      <4>2. QED
        BY <4>1
    <3>3. QED
      BY <2>2, <3>2
  <2>10. frames' = Rest => counts'.dirsFailed = counts.dirsFailed + 1
    BY <2>3, <2>5, <2>9
  <2>11. counts'.dirsFailed \in {counts.dirsFailed, counts.dirsFailed + 1}
    BY <2>3, <2>5
  <2>12. QED
    BY <2>7, <2>8, <2>10, <2>11
<1>16. QED
  BY <1>4, <1>12, <1>13, <1>14, <1>15

\* A directory is done: nothing in it was to come.
LEMMA DoneWalk ==
    ASSUME WalkInv, DirDone
    PROVE  /\ WalkInv' /\ UNCHANGED <<before, list, volume, emitted, counts>>
           /\ \A p : Expected(p) => Expected(p)'
           /\ verdict' = verdict \/ (verdict' = "ok" /\ frames' = <<>>)
<1>1. frames # <<>> /\ Top.batch = <<>> /\ ~WantsMore(Top)
  BY DEF DirDone
<1>2. PICK n : n = Len(frames) /\ n = Depth
  BY DEF Depth
<1>3. n \in Nat \ {0} /\ Top = frames[n] /\ Top \in Frames
  BY <1>1, <1>2, TopFrame
<1>4. ASSUME NEW p PROVE ~ToCome(p, frames[n])
  <2>1. ~Top.more /\ 1 .. Len(Top.batch) = {}
    BY <1>1 DEF WantsMore
  <2>2. QED
    BY <2>1, <1>3 DEF ToCome
<1>5. CASE n = 1
  <2>1. Finish("ok")
    BY <1>2, <1>5 DEF DirDone
  <2>2. WalkInv' /\ frames' = <<>> /\ verdict' = "ok"
    BY <2>1, FinishWalk
  <2>3. UNCHANGED <<before, list, volume, emitted, counts>>
    BY <2>1 DEF Finish, Source
  <2>4. ASSUME NEW p, Expected(p) PROVE FALSE
    <3>1. PICK i \in 1 .. Len(frames) : ToCome(p, frames[i])
      BY <2>4 DEF Expected
    <3>2. i = n
      BY <1>2, <1>5
    <3>3. QED
      BY <3>1, <3>2, <1>4
  <2>5. QED
    BY <2>2, <2>3, <2>4
<1>6. CASE n # 1
  <2>1. /\ frames' = Front(frames)
        /\ UNCHANGED <<before, owners, list, volume, pathBuf, emitted, counts, verdict>>
    BY <1>2, <1>6 DEF DirDone, Source
  <2>2. PICK m \in Nat : m = n - 1
    BY <1>3
  <2>3. frames \in Seq(Frames)
    BY DEF WalkInv, ScanTypes
  <2>4. /\ frames' \in Seq(Frames) /\ Len(frames') = m /\ \A i \in 1 .. m : frames'[i] = frames[i]
    <3>1. frames' = SubSeq(frames, 1, m) /\ m <= Len(frames)
      <4>1. frames' = SubSeq(frames, 1, Len(frames) - 1)
        BY <2>1 DEF Front
      <4>2. Len(frames) - 1 = m /\ m <= Len(frames)
        BY <1>2, <1>3, <2>2
      <4>3. QED
        BY <4>1, <4>2
    <3>2. QED
      BY <3>1, <2>2, <2>3
  <2>5. 1 .. m \subseteq 1 .. Len(frames) /\ m <= Len(frames)
        /\ \A i \in 1 .. Len(frames) : i \in 1 .. m \/ i = n
    BY <1>2, <1>3, <2>2
  <2>6. \A i : At(i)' = At(i)
    BY <2>1 DEF At
  <2>7. ScanTypes'
    <3>1. Frames' = Frames
      BY <2>1 DEF Frames, Stats
    <3>2. Len(frames') <= Len(pathBuf') + 1
      <4>1. Len(frames) <= Len(pathBuf) + 1 /\ Len(pathBuf) \in Nat
        BY DEF WalkInv, ScanTypes, Names
      <4>2. m <= Len(pathBuf) + 1
        BY ONLY <4>1, <2>2, <1>2, <1>3
      <4>3. QED
        BY <4>2, <2>1, <2>4
    <3>3. \A i \in 1 .. Len(frames') : frames'[i].base = i - 1
      BY <2>4, <2>5 DEF WalkInv, ScanTypes
    <3>4. QED
      BY <2>1, <2>4, <3>1, <3>2, <3>3 DEF WalkInv, ScanTypes
  <2>8. FramesInv'
    <3>1. ASSUME NEW i \in 1 .. Len(frames') PROVE FrameInv(frames'[i], At(i)', emitted', before')
      <4>1. FrameInv(frames[i], At(i), emitted, before)
        BY <2>4, <2>5 DEF WalkInv, FramesInv
      <4>2. QED
        BY <4>1, <2>1, <2>4, <2>6
    <3>2. QED
      BY <3>1 DEF FramesInv
  <2>9. OwnersInv'
    BY <2>1, <2>4, <2>5 DEF WalkInv, OwnersInv
  <2>10. GivenInOrder'
    BY <2>1, OrderSame DEF WalkInv
  <2>11. ASSUME NEW p, Expected(p) PROVE Expected(p)'
    <3>1. PICK i \in 1 .. Len(frames) : Front(p) = At(i) /\ ToCome(p, frames[i])
      BY <2>11 DEF Expected
    <3>2. i \in 1 .. Len(frames') /\ frames'[i] = frames[i] /\ Front(p) = At(i)'
      BY <3>1, <1>4, <2>4, <2>5, <2>6
    <3>3. QED
      BY <3>1, <3>2 DEF Expected
  <2>12. QED
    BY <2>1, <2>7, <2>8, <2>9, <2>10, <2>11 DEF WalkInv
<1>7. QED
  BY <1>5, <1>6

-----------------------------------------------------------------------------
(* Nothing is forgotten.                                                   *)

LEMMA CoversStill ==
    ASSUME UNCHANGED <<before, list, emitted>>, DOMAIN volume' \subseteq DOMAIN volume,
           \A p \in DOMAIN volume \ {<<>>} : Expected(p) => Expected(p)', NEW failed, Covers(failed)
    PROVE  Covers(failed)'
<1>1. SUFFICES ASSUME NEW p \in DOMAIN volume' \ {<<>>}, Waiting(p)', ~Expected(p)'
               PROVE  Front(p) \in failed
  BY DEF Covers
<1>2. Waiting(p)
  BY <1>1, WaitingStill
<1>3. p \in DOMAIN volume \ {<<>>} /\ ~Expected(p)
  BY <1>1
<1>4. QED
  BY <1>2, <1>3 DEF Covers

LEMMA RootCovers == ASSUME WalkInv, ScanRoot PROVE Covers({})'
<1>1. /\ emitted' = <<[path |-> <<>>, kind |-> "dir", owner |-> FALSE]>>
      /\ frames' = <<NewFrame(<<>>, "owner")>> /\ pathBuf' = <<>>
  BY DEF ScanRoot
<1>2. SUFFICES ASSUME NEW p, Waiting(p)' PROVE Expected(p)'
  BY DEF Covers
<1>3. PICK k \in 1 .. Len(emitted') : emitted'[k].path = Front(p)
  BY <1>2 DEF Waiting, GivenTo
<1>4. Len(emitted') = 1 /\ emitted'[1].path = <<>>
  BY <1>1
<1>5. Front(p) = <<>>
  BY <1>3, <1>4
<1>6. At(1)' = <<>>
  BY <1>1 DEF At
<1>7. /\ 1 \in 1 .. Len(frames') /\ frames'[1].more = TRUE /\ frames'[1].given = {}
  BY <1>1 DEF NewFrame
<1>8. ToCome(p, frames'[1])
  BY <1>7 DEF ToCome
<1>9. QED
  BY <1>5, <1>6, <1>7, <1>8 DEF Expected

\* What the walk promises when it has returned, from the invariant.
LEMMA ScanInvGives == ScanInv => GivenInOrder /\ NothingPassedOver
<1> SUFFICES ASSUME ScanInv PROVE GivenInOrder /\ NothingPassedOver
  OBVIOUS
<1>1. GivenInOrder /\ emitted \in Seq(Emitted) /\ counts \in Counts
  BY DEF ScanInv, WalkInv, ScanTypes
<1> DEFINE Given(p) == \E i \in DOMAIN emitted : emitted[i].path = p
           missed == {p \in DOMAIN volume \ {<<>>} : KeptIn(p) /\ ~Given(p) /\ Given(Front(p))}
<1>2. ASSUME verdict = "ok" PROVE Cardinality({Front(p) : p \in missed}) <= counts.dirsFailed
  <2>1. PICK failed : IsFiniteSet(failed) /\ Cardinality(failed) <= counts.dirsFailed /\ Covers(failed)
    BY <1>2 DEF ScanInv, CompleteInv
  <2>2. DOMAIN emitted = 1 .. Len(emitted)
    BY <1>1
  <2>3. ASSUME NEW p \in missed PROVE Front(p) \in failed
    <3>1. Waiting(p) /\ p \in DOMAIN volume \ {<<>>}
      BY <2>2 DEF Waiting, GivenTo
    <3>2. ~Expected(p)
      <4>1. 1 .. Len(frames) = {}
        BY <1>2 DEF ScanInv
      <4>2. QED
        BY <4>1 DEF Expected
    <3>3. QED
      BY <3>1, <3>2, <2>1 DEF Covers
  <2>4. PICK F : F = {Front(p) : p \in missed} /\ F \subseteq failed
    BY <2>3
  <2>5. Cardinality(F) <= Cardinality(failed) /\ IsFiniteSet(F)
    BY <2>1, <2>4, FS_Subset
  <2>6. Cardinality(F) \in Nat /\ Cardinality(failed) \in Nat /\ counts.dirsFailed \in Nat
    BY <2>1, <2>5, <1>1, FS_CardinalityType DEF Counts
  <2>7. Cardinality(F) <= counts.dirsFailed
    BY <2>1, <2>5, <2>6
  <2>8. QED
    BY <2>4, <2>7
<1>3. QED
  BY <1>1, <1>2 DEF NothingPassedOver

\* Any step that does not end the walk otherwise keeps it complete.
LEMMA StepInv == ScanInv /\ [ScanNext]_scanVars => ScanInv'
<1> SUFFICES ASSUME ScanInv, [ScanNext]_scanVars PROVE ScanInv'
  OBVIOUS
<1>1. WalkInv /\ CompleteInv /\ (verdict = "ok" => frames = <<>>)
  BY DEF ScanInv
<1>2. counts.dirsFailed \in Nat
  BY <1>1 DEF WalkInv, ScanTypes, Counts
<1>3. ASSUME UNCHANGED <<before, list, emitted>>, DOMAIN volume' \subseteq DOMAIN volume,
             \A p \in DOMAIN volume \ {<<>>} : Expected(p) => Expected(p)',
             counts'.dirsFailed = counts.dirsFailed, verdict \in {"none", "ok"}
      PROVE  CompleteInv'
  <2>1. PICK failed : IsFiniteSet(failed) /\ Cardinality(failed) <= counts.dirsFailed /\ Covers(failed)
    BY <1>1, <1>3 DEF CompleteInv
  <2>2. Covers(failed)'
    BY ONLY <1>3, <2>1, CoversStill
  <2>3. QED
    BY <2>1, <2>2, <1>3 DEF CompleteInv
<1>4. CASE UNCHANGED scanVars
  <2>1. UNCHANGED <<before, volume, owners, list, frames, pathBuf, emitted, counts, verdict>>
    BY <1>4 DEF scanVars
  <2>2. \A i : At(i)' = At(i)
    BY <2>1 DEF At
  <2>3. \A p : Expected(p) => Expected(p)'
    BY <2>1, <2>2 DEF Expected
  <2>4. ScanTypes'
    <3>1. Frames' = Frames
      BY <2>1 DEF Frames, Stats
    <3>2. QED
      BY <1>1, <2>1, <3>1 DEF WalkInv, ScanTypes
  <2>5. FramesInv'
    BY <1>1, <2>1, <2>2 DEF WalkInv, FramesInv
  <2>6. OwnersInv'
    BY <1>1, <2>1 DEF WalkInv, OwnersInv
  <2>7. GivenInOrder'
    BY <1>1, <2>1, OrderSame DEF WalkInv
  <2>8. CompleteInv'
    <3>1. CASE verdict \in {"none", "ok"}
      BY <3>1, <2>1, <2>3, <1>3
    <3>2. CASE verdict \notin {"none", "ok"}
      BY <3>2, <2>1 DEF CompleteInv
    <3>3. QED
      BY <3>1, <3>2
  <2>9. QED
    BY <1>1, <2>1, <2>4, <2>5, <2>6, <2>7, <2>8 DEF ScanInv, WalkInv
<1>5. CASE ScanRoot
  <2>1. WalkInv' /\ Covers({})'
    BY <1>1, <1>5, RootWalk, RootCovers
  <2>2. verdict' = "none" /\ counts'.dirsFailed = counts.dirsFailed
    BY <1>1, <1>5 DEF ScanRoot, Scanning, WalkInv, ScanTypes, Counts
  <2>3. IsFiniteSet({}) /\ Cardinality({}) = 0
    BY FS_EmptySet
  <2>4. CompleteInv'
    BY <1>2, <2>1, <2>2, <2>3 DEF CompleteInv
  <2>5. QED
    BY <2>1, <2>2, <2>4 DEF ScanInv
<1>6. CASE ListMore
  <2>1. /\ WalkInv' /\ counts'.dirsFailed = counts.dirsFailed
        /\ \A p \in DOMAIN volume \ {<<>>} : Expected(p) => Expected(p)'
        /\ UNCHANGED <<before, list, volume, emitted, verdict>>
    BY <1>1, <1>6, ListWalk
  <2>2. verdict = "none"
    BY <1>6 DEF ListMore, Scanning
  <2>3. CompleteInv'
    BY <1>3, <2>1, <2>2
  <2>4. QED
    BY <2>1, <2>2, <2>3 DEF ScanInv
<1>7. CASE Process
  <2>1. verdict = "none" /\ verdict' = "none"
    BY <1>7 DEF Process, Scanning
  <2>2. PICK e : /\ Dealt(e, emitted') /\ (emitted' = emitted => Out(e.path))
                 /\ counts'.dirsFailed \in {counts.dirsFailed, counts.dirsFailed + 1}
                 /\ (emitted' # emitted /\ EType(e.st) = "dir" /\ frames' = Rest)
                       => counts'.dirsFailed = counts.dirsFailed + 1
    BY <1>1, <1>7, ProcessDealt
  <2>3. WalkInv'
    BY <1>1, <2>2, DealtWalk
  <2>4. PICK failed : IsFiniteSet(failed) /\ Cardinality(failed) <= counts.dirsFailed /\ Covers(failed)
    BY <1>1, <2>1 DEF CompleteInv
  <2>5. Cardinality(failed) \in Nat /\ IsFiniteSet(failed \cup {e.path})
        /\ Cardinality(failed \cup {e.path}) <= Cardinality(failed) + 1
    BY <2>4, FS_CardinalityType, FS_AddElement
  <2>6. Cardinality(failed \cup {e.path}) \in Nat
    BY <2>5, FS_CardinalityType
  <2>a. PICK em : em = emitted' /\ Dealt(e, em) /\ (em = emitted => Out(e.path))
    BY <2>2
  <2>7. ASSUME counts'.dirsFailed = counts.dirsFailed + 1 PROVE CompleteInv'
    <3>1. PICK now : now = failed \cup {e.path}
      OBVIOUS
    <3>2. failed \subseteq now /\ e.path \in now
      BY <3>1
    <3>3. em # emitted => frames' # Rest \/ EType(e.st) # "dir" \/ e.path \in now
      BY <3>2
    <3>4. Covers(now)'
      BY ONLY <1>1, <2>a, <2>4, <3>2, <3>3, DealtCovers
    <3>5. Cardinality(now) <= counts'.dirsFailed /\ IsFiniteSet(now)
      BY <1>2, <2>4, <2>5, <2>6, <2>7, <3>1
    <3>6. QED
      BY <3>4, <3>5 DEF CompleteInv
  <2>8. ASSUME counts'.dirsFailed = counts.dirsFailed PROVE CompleteInv'
    <3>1. em # emitted => frames' # Rest \/ EType(e.st) # "dir" \/ e.path \in failed
      <4>1. counts'.dirsFailed # counts.dirsFailed + 1
        BY <1>2, <2>8
      <4>2. QED
        BY ONLY <4>1, <2>2, <2>a
    <3>2. failed \subseteq failed
      OBVIOUS
    <3>3. Covers(failed)'
      BY ONLY <1>1, <2>a, <2>4, <3>1, <3>2, DealtCovers
    <3>4. QED
      BY <2>4, <2>8, <3>3 DEF CompleteInv
  <2>b. counts'.dirsFailed \in {counts.dirsFailed, counts.dirsFailed + 1}
    BY <2>2
  <2>9. CompleteInv'
    BY ONLY <2>b, <2>7, <2>8
  <2>10. QED
    BY <2>1, <2>3, <2>9 DEF ScanInv
<1>8. CASE PathTooLong
  <2>1. Finish("too_long")
    BY <1>8 DEF PathTooLong
  <2>2. WalkInv' /\ verdict' = "too_long"
    BY <1>1, <2>1, FinishWalk
  <2>3. QED
    BY <2>2 DEF ScanInv, CompleteInv
<1>9. CASE Abort
  <2>1. Finish("failed")
    BY <1>9 DEF Abort
  <2>2. WalkInv' /\ verdict' = "failed"
    BY <1>1, <2>1, FinishWalk
  <2>3. QED
    BY <2>2 DEF ScanInv, CompleteInv
<1>10. CASE DirDone
  <2>1. /\ WalkInv' /\ UNCHANGED <<before, list, volume, emitted, counts>>
        /\ \A p : Expected(p) => Expected(p)'
        /\ verdict' = verdict \/ (verdict' = "ok" /\ frames' = <<>>)
    BY <1>1, <1>10, DoneWalk
  <2>2. verdict = "none"
    BY <1>10 DEF DirDone, Scanning
  <2>3. CompleteInv'
    BY <1>3, <2>1, <2>2
  <2>4. QED
    BY <2>1, <2>2, <2>3 DEF ScanInv
<1>11. CASE Vanish
  <2>1. /\ WalkInv' /\ DOMAIN volume' \subseteq DOMAIN volume
        /\ UNCHANGED <<before, owners, list, frames, pathBuf, emitted, counts, verdict>>
    BY <1>1, <1>11, VanishWalk
  <2>2. verdict = "none"
    BY <1>11 DEF Vanish, Scanning
  <2>3. \A i : At(i)' = At(i)
    BY <2>1 DEF At
  <2>4. \A p : Expected(p) => Expected(p)'
    BY <2>1, <2>3 DEF Expected
  <2>5. CompleteInv'
    BY <1>3, <2>1, <2>2, <2>4
  <2>6. QED
    BY <2>1, <2>2, <2>5 DEF ScanInv
<1>12. QED
  BY <1>4, <1>5, <1>6, <1>7, <1>8, <1>9, <1>10, <1>11 DEF ScanNext, ScanStep

\* For every source, exclude list and batch size: the visitor is given what is
\* there and kept in, in order and once, whatever goes away meanwhile, and a
\* walk that returned AMISNAP_OK passed nothing over but in directories it
\* counts as failed (amisnap_scan_volume, scan_dir and process_entry).
THEOREM WalkGivesAll == ScanInit /\ [][ScanNext]_scanVars => []WalksWhatIsThere
<1>1. ScanInit => ScanInv
  BY InitScan
<1>2. ScanInv /\ [ScanNext]_scanVars => ScanInv'
  BY StepInv
<1>3. ScanInv => WalksWhatIsThere
  BY ScanInvGives DEF WalksWhatIsThere
<1>4. QED
  BY <1>1, <1>2, <1>3, PTL

-----------------------------------------------------------------------------
(* The sidecars: the calendar and the line.                                *)

\* Of the days before a year that begins in March.
YearDays(z) ==
    LET e == z \div 400
        r == z - e * 400
    IN  e * 146097 + r * 365 + r \div 4 - r \div 100

\* And of those before a month of it.
MonthDays(m) == (153 * (m + (IF m > 2 THEN -3 ELSE 9)) + 2) \div 5

LEMMA YearGrows ==
    ASSUME NEW y \in Nat
    PROVE  /\ YearDays(y) \in Int
           /\ YearDays(y + 1) = YearDays(y) + (IF Leap(y + 1) THEN 366 ELSE 365)
<1> DEFINE e == y \div 400
           r == y - e * 400
<1>1. e \in Nat /\ r \in 0 .. 399 /\ y = 400 * e + r
  BY SMT
<1>2. QED
  BY <1>1, SMT DEF Leap, YearDays

LEMMA DaysAreYears ==
    ASSUME NEW y \in Nat, y > 0, NEW m \in 1 .. 12, NEW d \in Nat
    PROVE  DaysFromCivil(y, m, d) =
               YearDays(IF m <= 2 THEN y - 1 ELSE y) + MonthDays(m) + d - 719469
<1> DEFINE z == IF m <= 2 THEN y - 1 ELSE y
<1>1. z \in Nat
  OBVIOUS
<1>2. MonthDays(m) \in Int
  BY DEF MonthDays
<1> DEFINE e == z \div 400
<1>3. e \in Int
  BY <1>1
<1>4. QED
  BY <1>1, <1>2, <1>3, SMT DEF DaysFromCivil, YearDays, MonthDays

\* The first of a month is a day after the last of the month before.
LEMMA MonthGrows ==
    ASSUME NEW y \in Nat, NEW m \in 1 .. 11, m # 2
    PROVE  MonthDays(m + 1) = MonthDays(m) + MonthLength(y, m)
<1>1. m \in {1, 3, 4, 5, 6, 7, 8, 9, 10, 11}
  OBVIOUS
<1>2. QED
  BY <1>1 DEF MonthDays, MonthLength

CalendarInv ==
    /\ day \in [y : Nat, m : 1 .. 12, d : Nat] /\ day.y >= 1978
    /\ day.d <= MonthLength(day.y, day.m) /\ count \in Nat
    /\ DaysAreCounted

LEMMA CalendarStep ==
    ASSUME CalendarInv, NewDay
    PROVE  CalendarInv'
<1> DEFINE y == day.y
           m == day.m
           d == day.d
           F(c) == DaysFromCivil(c.y, c.m, c.d)
<1>1. y \in Nat /\ y >= 1978 /\ m \in 1 .. 12 /\ d \in Nat /\ d <= MonthLength(y, m) /\ count \in Nat
  BY DEF CalendarInv
<1>2. MonthLength(y, m) \in {28, 29, 30, 31}
  BY DEF MonthLength
<1>3. /\ day' \in [y : Nat, m : 1 .. 12, d : Nat] /\ day'.y >= 1978
      /\ day'.d <= MonthLength(day'.y, day'.m) /\ count' = count + 1
  <2>1. day' = NextDay(day) /\ count' = count + 1
    BY DEF NewDay
  <2>2. CASE d < MonthLength(y, m)
    <3>1. day' = [day EXCEPT !.d = d + 1]
      BY <2>1, <2>2 DEF NextDay
    <3>2. QED
      BY <2>1, <2>2, <3>1, <1>1, <1>2 DEF CalendarInv
  <2>3. CASE ~(d < MonthLength(y, m)) /\ m < 12
    <3>1. day' = [day EXCEPT !.m = m + 1, !.d = 1]
      BY <2>1, <2>3 DEF NextDay
    <3>2. MonthLength(y, m + 1) \in {28, 29, 30, 31}
      BY DEF MonthLength
    <3>3. day'.y = y /\ day'.m = m + 1 /\ day'.d = 1
      BY <3>1, <1>1 DEF CalendarInv
    <3>4. m + 1 \in 1 .. 12 /\ MonthLength(y, m + 1) >= 1
      BY <3>2, <2>3, <1>1
    <3>5. day' \in [y : Nat, m : 1 .. 12, d : Nat]
      <4> DEFINE e == [day EXCEPT !.m = m + 1]
      <4>1. e \in [y : Nat, m : 1 .. 12, d : Nat] /\ day' = [e EXCEPT !.d = 1]
        BY <3>1, <3>4 DEF CalendarInv
      <4> HIDE DEF e
      <4> QED  BY <4>1
    <3>6. QED
      BY <2>1, <3>3, <3>4, <3>5, <1>1
  <2>4. CASE ~(d < MonthLength(y, m)) /\ ~(m < 12)
    <3>1. day' = [y |-> y + 1, m |-> 1, d |-> 1]
      BY <2>1, <2>4 DEF NextDay
    <3>2. MonthLength(y + 1, 1) = 31
      BY DEF MonthLength
    <3>3. QED
      BY <2>1, <3>1, <3>2, <1>1
  <2>5. QED
    BY <2>2, <2>3, <2>4
<1>4. F(day') = F(day) + 1
  <2>1. day' = NextDay(day)
    BY DEF NewDay
  <2>2. CASE d < MonthLength(y, m)
    <3>1. day'.y = y /\ day'.m = m /\ day'.d = d + 1
      BY <2>1, <2>2 DEF NextDay, CalendarInv
    <3>2. F(day') = YearDays(IF m <= 2 THEN y - 1 ELSE y) + MonthDays(m) + (d + 1) - 719469
      BY <3>1, <1>1, DaysAreYears
    <3>3. F(day) = YearDays(IF m <= 2 THEN y - 1 ELSE y) + MonthDays(m) + d - 719469
      BY <1>1, DaysAreYears
    <3>4. YearDays(IF m <= 2 THEN y - 1 ELSE y) \in Int /\ MonthDays(m) \in Int
      BY <1>1, YearGrows DEF MonthDays
    <3>5. QED
      BY <3>2, <3>3, <3>4, <1>1
  <2>3. CASE ~(d < MonthLength(y, m)) /\ m < 12
    <3>1. day'.y = y /\ day'.m = m + 1 /\ day'.d = 1 /\ d = MonthLength(y, m)
      <4>1. day' = [day EXCEPT !.m = m + 1, !.d = 1]
        BY <2>1, <2>3 DEF NextDay
      <4>2. QED
        BY <4>1, <1>1, <1>2, <2>3 DEF CalendarInv
    <3>2. F(day') = YearDays(IF m + 1 <= 2 THEN y - 1 ELSE y) + MonthDays(m + 1) + 1 - 719469
      BY <3>1, <1>1, <2>3, DaysAreYears
    <3>3. F(day) = YearDays(IF m <= 2 THEN y - 1 ELSE y) + MonthDays(m) + MonthLength(y, m) - 719469
      BY <3>1, <1>1, DaysAreYears
    <3>4. YearDays(y) \in Int /\ YearDays(y - 1) \in Int /\ MonthDays(m) \in Int
      BY <1>1, YearGrows DEF MonthDays
    <3>5. CASE m # 2
      <4>1. MonthDays(m + 1) = MonthDays(m) + MonthLength(y, m)
        BY <1>1, <2>3, <3>5, MonthGrows
      <4>2. (m + 1 <= 2) <=> (m <= 2)
        BY <1>1, <3>5
      <4>3. QED
        BY <3>2, <3>3, <3>4, <4>1, <4>2, <1>2, <1>1
    <3>6. CASE m = 2
      <4>1. MonthDays(2) = 337 /\ MonthDays(3) = 0
        BY DEF MonthDays
      <4>2. YearDays(y) = YearDays(y - 1) + (IF Leap(y) THEN 366 ELSE 365)
        <5>1. y - 1 \in Nat /\ (y - 1) + 1 = y
          BY <1>1
        <5>2. QED
          BY <5>1, YearGrows
      <4>3. MonthLength(y, m) = IF Leap(y) THEN 29 ELSE 28
        BY <3>6 DEF MonthLength
      <4>4. QED
        BY <3>2, <3>3, <3>4, <3>6, <4>1, <4>2, <4>3
    <3>7. QED
      BY <3>5, <3>6
  <2>4. CASE ~(d < MonthLength(y, m)) /\ ~(m < 12)
    <3>1. day'.y = y + 1 /\ day'.m = 1 /\ day'.d = 1 /\ m = 12 /\ d = 31
      <4>1. day' = [y |-> y + 1, m |-> 1, d |-> 1]
        BY <2>1, <2>4 DEF NextDay
      <4>2. m = 12
        BY <1>1, <2>4
      <4>3. MonthLength(y, 12) = 31
        BY DEF MonthLength
      <4>4. QED
        BY <4>1, <4>2, <4>3, <1>1, <2>4
    <3>2. F(day') = YearDays(y) + MonthDays(1) + 1 - 719469
      BY <3>1, <1>1, DaysAreYears
    <3>3. F(day) = YearDays(y) + MonthDays(12) + 31 - 719469
      BY <3>1, <1>1, DaysAreYears
    <3>4. YearDays(y) \in Int /\ MonthDays(1) = 306 /\ MonthDays(12) = 275
      BY <1>1, YearGrows DEF MonthDays
    <3>5. QED
      BY <3>2, <3>3, <3>4
  <2>5. QED
    BY <2>2, <2>3, <2>4
<1>5. F(day) \in Int /\ DaysFromCivil(1978, 1, 1) \in Int
  <2>1. YearDays(IF m <= 2 THEN y - 1 ELSE y) \in Int /\ MonthDays(m) \in Int
    BY <1>1, YearGrows DEF MonthDays
  <2>2. F(day) \in Int
    BY <2>1, <1>1, DaysAreYears
  <2>3. DaysFromCivil(1978, 1, 1) = YearDays(1977) + MonthDays(1) + 1 - 719469
    BY DaysAreYears
  <2>4. YearDays(1977) \in Int /\ MonthDays(1) \in Int
    BY YearGrows DEF MonthDays
  <2>5. QED
    BY <2>2, <2>3, <2>4
<1>6. DaysAreCounted'
  BY <1>3, <1>4, <1>5, <1>1 DEF CalendarInv, DaysAreCounted, AmigaDays
<1>7. QED
  BY <1>3, <1>6, <1>1 DEF CalendarInv

\* The eight letters of a line are the eight bits.
LEMMA FlagsAreBits ==
    ASSUME NEW p \in 0 .. 255
    PROVE  Prot(Flags(p)) = p
<1> DEFINE on == [i \in 1 .. 8 |-> IF (Flags(p)[i] = Letters[i]) = ShownWhenSet(i) THEN Masks[i] ELSE 0]
<1>1. \A i \in 1 .. 8 : Bit(p, i) \in {0, 1}
  BY DEF Bit, Masks
<1>2. ASSUME NEW i \in 1 .. 8 PROVE on[i] = Bit(p, i) * Masks[i]
  <2>1. Letters[i] # "-" /\ Masks[i] \in Nat
    BY DEF Letters, Masks
  <2>2. Flags(p)[i] = IF (Bit(p, i) = 1) = ShownWhenSet(i) THEN Letters[i] ELSE "-"
    BY DEF Flags
  <2>3. (Flags(p)[i] = Letters[i]) <=> ((Bit(p, i) = 1) <=> ShownWhenSet(i))
    BY <2>1, <2>2 DEF ShownWhenSet
  <2>4. ((Flags(p)[i] = Letters[i]) = ShownWhenSet(i)) <=> (Bit(p, i) = 1)
    BY <2>3 DEF ShownWhenSet
  <2>5. QED
    BY <2>1, <2>4, <1>1
<1>3. /\ on[1] = ((p \div 128) % 2) * 128 /\ on[2] = ((p \div 64) % 2) * 64
      /\ on[3] = ((p \div 32) % 2) * 32 /\ on[4] = ((p \div 16) % 2) * 16
      /\ on[5] = ((p \div 8) % 2) * 8 /\ on[6] = ((p \div 4) % 2) * 4
      /\ on[7] = ((p \div 2) % 2) * 2 /\ on[8] = (p \div 1) % 2
  BY <1>2 DEF Bit, Masks
<1>4. Prot(Flags(p)) = on[1] + on[2] + on[3] + on[4] + on[5] + on[6] + on[7] + on[8]
  BY DEF Prot, Sum8
<1> HIDE DEF on
<1>5. QED
  BY <1>3, <1>4, SMT

LEMMA LineIsRead ==
    ASSUME CalendarInv
    PROVE  SidecarRoundTrips
<1> DEFINE e == [prot |-> count % 256, mins |-> count % 1440, ticks |-> count % 3000]
           l == Written(day, e)
           p == count % 256
           n == count % 1440
           t == count % 3000
<1>1. p \in 0 .. 255 /\ n \in 0 .. 1439 /\ t \in 0 .. 2999 /\ p % 256 = p
  BY DEF CalendarInv
<1>2. Prot(l.flags) = p
  <2>1. l.flags = Flags(p % 256)
    BY DEF Written
  <2>2. Prot(Flags(p)) = p
    BY <1>1, FlagsAreBits
  <2> QED  BY ONLY <1>1, <2>1, <2>2
<1>3. AmigaDays(l.y, l.m, l.d) = count
  BY DEF CalendarInv, DaysAreCounted, Written
<1>4. l.hh * 60 + l.mm = n
  <2>1. l.hh = n \div 60 /\ l.mm = n % 60
    BY DEF Written
  <2> HIDE DEF n, l
  <2>2. QED
    BY <2>1, <1>1
<1>5. l.ss * 50 + l.cc \div 2 = t
  <2>1. l.ss = t \div 50 /\ l.cc = (t % 50) * 2
    BY DEF Written
  <2> HIDE DEF t, l
  <2>2. QED
    BY <2>1, <1>1
<1> HIDE DEF l
<1>6. Parsed(l) = [prot |-> p, days |-> count, mins |-> n, ticks |-> t]
  BY <1>2, <1>3, <1>4, <1>5 DEF Parsed
<1>7. QED
  BY <1>6 DEF SidecarRoundTrips, l

-----------------------------------------------------------------------------
(* The sidecars: the walk.                                                 *)

Under(q, s) == Len(q) <= Len(s) /\ SubSeq(s, 1, Len(q)) = q
Level == [dir : DOMAIN tree, left : SUBSET (DOMAIN tree \ {<<>>})]

\* Every call for a sidecar was made; the walk will still come to it.
Called(s) ==
    tree[s][2] # "unparsable" /\ \A f \in Calls(s) : <<s, f>> \in refused \/ Has(s, f)
Ahead(s) == \E k \in 1 .. Len(walk) : \E q \in walk[k].left : Under(q, s)
CalledOrAhead == \A s \in DOMAIN tree : OfSomething(s) => Called(s) \/ Ahead(s)

UaemTypes ==
    /\ tree \in Trees /\ DOMAIN settings = DOMAIN tree
    /\ walk \in Seq(Level) /\ tally \in [applied : Nat, failed : Nat]
    /\ outcome \in {"none", "ok", "warn", "fail"}

UaemInv ==
    /\ CalendarInv /\ UaemTypes /\ OnlyItsOwn /\ OkMeansCalled
    /\ Walking /\ walk # <<>> /\ tally.failed = 0 => CalledOrAhead

\* What a tree is, of the tree walked.
LEMMA TreeIs ==
    ASSUME UaemTypes
    PROVE  /\ DOMAIN tree \subseteq Seq(EntryNames) /\ <<>> \in DOMAIN tree
           /\ \A p \in DOMAIN tree : \A n \in 0 .. Len(p) - 1 :
                 SubSeq(p, 1, n) \in DOMAIN tree /\ IsDir(SubSeq(p, 1, n))
           /\ \A p \in DOMAIN tree :
                 \/ IsDir(p) /\ ~IsSidecar(p)
                 \/ tree[p] = <<"file">> /\ ~IsDir(p) /\ ~IsSidecar(p)
                 \/ p # <<>> /\ Last(Last(p)) = "uaem" /\ IsSidecar(p) /\ ~IsDir(p)
<1>1. tree \in Trees
  BY DEF UaemTypes
<1>2. /\ DOMAIN tree \subseteq Seq(EntryNames) /\ <<>> \in DOMAIN tree
      /\ \A p \in DOMAIN tree : \A n \in 0 .. Len(p) - 1 :
            SubSeq(p, 1, n) \in DOMAIN tree /\ tree[SubSeq(p, 1, n)] = <<"dir">>
      /\ \A p \in DOMAIN tree :
            \/ tree[p] \in {<<"dir">>, <<"file">>}
            \/ p # <<>> /\ Last(Last(p)) = "uaem" /\ tree[p] = <<"sidecar", tree[p][2], tree[p][3]>>
  BY <1>1, TreeAssumption, Zenon
<1>3. ASSUME NEW p \in DOMAIN tree
      PROVE  \/ IsDir(p) /\ ~IsSidecar(p)
             \/ tree[p] = <<"file">> /\ ~IsDir(p) /\ ~IsSidecar(p)
             \/ p # <<>> /\ Last(Last(p)) = "uaem" /\ IsSidecar(p) /\ ~IsDir(p)
  <2>1. CASE tree[p] = <<"dir">>
    BY <2>1 DEF IsDir, IsSidecar
  <2>2. CASE tree[p] = <<"file">>
    BY <2>2 DEF IsDir, IsSidecar
  <2>3. CASE p # <<>> /\ Last(Last(p)) = "uaem" /\ tree[p] = <<"sidecar", tree[p][2], tree[p][3]>>
    BY <2>3 DEF IsDir, IsSidecar
  <2>4. QED
    BY <1>2, <2>1, <2>2, <2>3
<1>4. \A p \in DOMAIN tree : \A n \in 0 .. Len(p) - 1 :
         SubSeq(p, 1, n) \in DOMAIN tree /\ IsDir(SubSeq(p, 1, n))
  BY <1>2 DEF IsDir
<1>5. QED
  BY <1>2, <1>3, <1>4

\* A sequence but for its last.
LEMMA FrontIs ==
    ASSUME NEW S, NEW q \in Seq(S), q # <<>>
    PROVE  /\ Len(q) \in Nat /\ Len(q) > 0 /\ Front(q) = SubSeq(q, 1, Len(q) - 1)
           /\ Front(q) \in Seq(S) /\ Len(Front(q)) = Len(q) - 1
           /\ \A i \in 1 .. Len(q) - 1 : Front(q)[i] = q[i]
<1>1. Len(q) \in Nat /\ Len(q) > 0
  OBVIOUS
<1> DEFINE n == Len(q) - 1
<1>2. n \in Nat /\ n <= Len(q) /\ Front(q) = SubSeq(q, 1, n)
  BY <1>1 DEF Front
<1>3. SubSeq(q, 1, n) \in Seq(S) /\ Len(SubSeq(q, 1, n)) = n
      /\ \A i \in 1 .. n : SubSeq(q, 1, n)[i] = q[i]
  <2>1. n \in Nat /\ n <= Len(q)
    BY <1>2
  <2> HIDE DEF n
  <2>2. SubSeq(q, 1, n) \in Seq(S) /\ Len(SubSeq(q, 1, n)) = n
    BY <2>1
  <2>3. \A i \in 1 .. n : SubSeq(q, 1, n)[i] = q[i]
    BY <2>1
  <2>4. QED
    BY <2>2, <2>3
<1>4. QED
  BY <1>1, <1>2, <1>3

\* A path is below itself, and what a path is above and is not, one of its
\* children is above.
LEMMA UnderSelf == ASSUME NEW s \in Seq(EntryNames) PROVE Under(s, s)
BY DEF Under

LEMMA ChildUnder ==
    ASSUME UaemTypes, NEW s \in DOMAIN tree, NEW d \in Seq(EntryNames), Under(d, s), d # s
    PROVE  \E q \in ChildrenOf(d) : Under(q, s)
<1> DEFINE n == Len(d)
           q == SubSeq(s, 1, n + 1)
<1>1. s \in Seq(EntryNames) /\ n \in Nat /\ Len(s) \in Nat /\ n <= Len(s) /\ SubSeq(s, 1, n) = d
  BY TreeIs DEF Under
<1>2. n < Len(s)
  <2>1. SubSeq(s, 1, Len(s)) = s
    BY <1>1
  <2>2. QED
    BY <1>1, <2>1
<1>3. q \in Seq(EntryNames) /\ Len(q) = n + 1 /\ \A i \in 1 .. n + 1 : q[i] = s[i]
  BY <1>1, <1>2
<1>4. q \in DOMAIN tree
  <2>1. CASE n + 1 = Len(s)
    <3>1. SubSeq(s, 1, Len(s)) = s
      BY <1>1
    <3>2. QED
      BY <3>1, <2>1
  <2>2. CASE n + 1 # Len(s)
    <3>1. n + 1 \in 0 .. Len(s) - 1
      BY <2>2, <1>1, <1>2
    <3>2. QED
      BY <3>1, TreeIs
  <2>3. QED
    BY <2>1, <2>2
<1>5. Under(q, s)
  BY <1>1, <1>2, <1>3 DEF Under
<1>6. Front(q) = d /\ q # <<>>
  <2>1. Front(q) = SubSeq(q, 1, n) /\ q # <<>>
    <3>1. q # <<>> /\ Len(q) - 1 = n
      BY <1>1, <1>3
    <3> HIDE DEF q, n
    <3>2. QED
      BY <3>1, <1>3, FrontIs
  <2>2. Len(SubSeq(q, 1, n)) = n /\ SubSeq(q, 1, n) \in Seq(EntryNames)
        /\ \A i \in 1 .. n : SubSeq(q, 1, n)[i] = q[i]
    BY <1>1, <1>3
  <2>3. Len(d) = n /\ d \in Seq(EntryNames) /\ \A i \in 1 .. n : d[i] = s[i]
    BY <1>1
  <2>4. SubSeq(q, 1, n) = d
    BY <1>3, <2>2, <2>3, <1>1
  <2>5. QED
    BY <2>1, <2>4
<1>7. QED
  BY <1>4, <1>5, <1>6 DEF ChildrenOf

\* Only directories have something below them.
LEMMA OnlyUnderDirs ==
    ASSUME UaemTypes, NEW s \in DOMAIN tree, NEW p \in DOMAIN tree, Under(p, s), ~IsDir(p)
    PROVE  s = p
<1>1. s \in Seq(EntryNames) /\ p \in Seq(EntryNames) /\ Len(p) \in Nat /\ Len(p) <= Len(s)
      /\ SubSeq(s, 1, Len(p)) = p
  BY TreeIs DEF Under
<1>2. ASSUME Len(p) # Len(s) PROVE FALSE
  <2>1. Len(p) \in 0 .. Len(s) - 1
    BY <1>1, <1>2
  <2>2. QED
    BY <2>1, <1>1, TreeIs
<1>3. QED
  BY <1>1, <1>2

\* No two sidecars tell of one entry.
LEMMA TargetsDiffer ==
    ASSUME UaemTypes, NEW p \in DOMAIN tree, NEW s \in DOMAIN tree, p # <<>>, s # <<>>,
           NamedUaem(p), NamedUaem(s), TargetOf(p) = TargetOf(s)
    PROVE  p = s
<1> DEFINE a == Last(p)
           b == Last(s)
<1>1. /\ p \in Seq(EntryNames) /\ s \in Seq(EntryNames) /\ Len(p) \in Nat \ {0} /\ Len(s) \in Nat \ {0}
      /\ a = p[Len(p)] /\ b = s[Len(s)]
  BY TreeIs DEF Last
<1>2. a \in EntryNames /\ b \in EntryNames
  BY <1>1
<1>3. /\ a \in Seq(STRING) /\ b \in Seq(STRING) /\ Len(a) > 1 /\ Len(b) > 1
      /\ Last(a) = "uaem" /\ Last(b) = "uaem"
  BY <1>2 DEF EntryNames, NamedUaem
<1>4. Append(Front(p), Front(a)) = Append(Front(s), Front(b))
  <2>1. Len(a) # 1 /\ Len(b) # 1
    <3>1. Len(a) \in Nat /\ Len(b) \in Nat
      BY <1>3
    <3>2. \A n \in Nat : n > 1 => n # 1
      OBVIOUS
    <3>3. QED
      BY <1>3, <3>1, <3>2, Zenon
  <2>2. QED
    BY <2>1 DEF TargetOf
<1> HIDE DEF a, b
<1>5. /\ Front(p) \in Seq(EntryNames) /\ Front(s) \in Seq(EntryNames)
      /\ Len(Front(p)) = Len(p) - 1 /\ Len(Front(s)) = Len(s) - 1
      /\ (\A i \in 1 .. Len(p) - 1 : Front(p)[i] = p[i]) /\ \A i \in 1 .. Len(s) - 1 : Front(s)[i] = s[i]
  BY <1>1, FrontIs
<1>6. Front(p) = Front(s) /\ Front(a) = Front(b)
  <2>1. Front(p) = SubSeq(Append(Front(p), Front(a)), 1, Len(Front(p)))
        /\ Len(Append(Front(p), Front(a))) = Len(Front(p)) + 1
        /\ Append(Front(p), Front(a))[Len(Front(p)) + 1] = Front(a)
    <3>1. Front(p) \in Seq(Seq(STRING)) /\ Front(a) \in Seq(STRING)
      <4>1. Front(p) \in Seq(Seq(STRING))
        BY <1>5 DEF EntryNames
      <4>2. Front(a) \in Seq(STRING)
        BY <1>3, FrontIs
      <4>3. QED
        BY <4>1, <4>2
    <3>2. QED
      BY <3>1
  <2>2. Front(s) = SubSeq(Append(Front(s), Front(b)), 1, Len(Front(s)))
        /\ Len(Append(Front(s), Front(b))) = Len(Front(s)) + 1
        /\ Append(Front(s), Front(b))[Len(Front(s)) + 1] = Front(b)
    <3>1. Front(s) \in Seq(Seq(STRING)) /\ Front(b) \in Seq(STRING)
      <4>1. Front(s) \in Seq(Seq(STRING))
        BY <1>5 DEF EntryNames
      <4>2. Front(b) \in Seq(STRING)
        BY <1>3, FrontIs
      <4>3. QED
        BY <4>1, <4>2
    <3>2. QED
      BY <3>1
  <2>3. Len(Front(p)) = Len(Front(s))
    BY <2>1, <2>2, <1>4, <1>5, <1>1
  <2>4. QED
    BY <2>1, <2>2, <2>3, <1>4
<1>7. a = b
  <2>1. Len(Front(a)) = Len(a) - 1 /\ Len(Front(b)) = Len(b) - 1
        /\ (\A i \in 1 .. Len(a) - 1 : Front(a)[i] = a[i])
        /\ \A i \in 1 .. Len(b) - 1 : Front(b)[i] = b[i]
    <3>1. a # <<>> /\ b # <<>>
      BY <1>3
    <3>2. QED
      BY <3>1, <1>3, FrontIs
  <2>2. a[Len(a)] = b[Len(b)]
    BY <1>3 DEF Last
  <2>3. Len(a) = Len(b)
    BY <2>1, <1>6, <1>3
  <2>4. \A i \in 1 .. Len(a) : a[i] = b[i]
    <3>1. ASSUME NEW i \in 1 .. Len(a) PROVE a[i] = b[i]
      <4>1. CASE i = Len(a)
        BY <4>1, <2>2, <2>3
      <4>2. CASE i # Len(a)
        BY <4>2, <2>1, <2>3, <1>6, <1>3
      <4>3. QED
        BY <4>1, <4>2
    <3>2. QED
      BY <3>1
  <2>5. QED
    BY <1>3, <2>3, <2>4
<1>8. QED
  <2>1. Len(p) = Len(s)
    BY <1>1, <1>5, <1>6
  <2>2. p[Len(p)] = s[Len(s)]
    BY <1>1, <1>7 DEF a, b
  <2>3. \A i \in 1 .. Len(p) : p[i] = s[i]
    <3>1. ASSUME NEW i \in 1 .. Len(p) PROVE p[i] = s[i]
      <4>1. CASE i = Len(p)
        BY <4>1, <2>1, <2>2
      <4>2. CASE i # Len(p)
        BY <4>2, <2>1, <1>1, <1>5, <1>6
      <4>3. QED
        BY <4>1, <4>2
    <3>2. QED
      BY <3>1
  <2>4. QED
    BY <1>1, <2>1, <2>3

\* What the walk does to its stack: the entry p is taken from the innermost.
LEMMA PassedIs ==
    ASSUME UaemTypes, walk # <<>>, NEW p \in Inner.left
    PROVE  /\ Len(walk) \in Nat /\ Len(walk) > 0
           /\ Passed(p) \in Seq(Level) /\ Len(Passed(p)) = Len(walk)
           /\ p \in DOMAIN tree /\ p # <<>> /\ p \in Seq(EntryNames)
           /\ \A k \in 1 .. Len(walk) : \A q \in walk[k].left : q # p => q \in Passed(p)[k].left
<1>1. walk \in Seq(Level) /\ Len(walk) \in Nat /\ Len(walk) > 0
  BY DEF UaemTypes
<1>2. PICK n : n = Len(walk)
  OBVIOUS
<1>3. n \in 1 .. Len(walk) /\ walk[n] \in Level /\ Inner = walk[n]
  BY <1>1, <1>2 DEF Inner
<1>4. p \in DOMAIN tree /\ p # <<>> /\ walk[n].left \ {p} \in SUBSET (DOMAIN tree \ {<<>>})
  BY <1>3 DEF Level
<1> DEFINE x == [walk[n] EXCEPT !.left = walk[n].left \ {p}]
<1>5. x \in Level /\ x.left = walk[n].left \ {p}
  BY <1>3, <1>4 DEF Level
<1>6. Passed(p) = [walk EXCEPT ![n] = x]
  BY <1>2 DEF Passed
<1> HIDE DEF x
<1>7. Passed(p) \in Seq(Level) /\ Len(Passed(p)) = Len(walk)
      /\ \A k \in 1 .. Len(walk) : Passed(p)[k] = IF k = n THEN x ELSE walk[k]
  BY <1>1, <1>3, <1>5, <1>6
<1>8. \A k \in 1 .. Len(walk) : \A q \in walk[k].left : q # p => q \in Passed(p)[k].left
  BY <1>5, <1>7
<1>9. p \in Seq(EntryNames)
  BY <1>4, TreeIs
<1>10. QED
  BY <1>1, <1>4, <1>7, <1>8, <1>9

\* What is ahead stays so when the innermost directory has lost p, but for
\* what is below p.
LEMMA StillAhead ==
    ASSUME UaemTypes, walk # <<>>, NEW p \in Inner.left, NEW s, Ahead(s), ~Under(p, s),
           \/ walk' = Passed(p)
           \/ \E x \in Level : walk' = Append(Passed(p), x)
    PROVE  Ahead(s)'
<1>1. PICK k \in 1 .. Len(walk) : \E q \in walk[k].left : Under(q, s)
  BY DEF Ahead
<1>2. PICK q \in walk[k].left : Under(q, s)
  BY <1>1
<1>3. q # p
  BY <1>2
<1>4. q \in Passed(p)[k].left /\ Len(Passed(p)) = Len(walk) /\ Passed(p) \in Seq(Level)
  BY <1>3, PassedIs
<1>5. k \in 1 .. Len(walk') /\ walk'[k] = Passed(p)[k]
  <2>1. CASE walk' = Passed(p)
    BY <1>4, <2>1
  <2>2. ASSUME NEW x \in Level, walk' = Append(Passed(p), x)
        PROVE  k \in 1 .. Len(walk') /\ walk'[k] = Passed(p)[k]
    BY <1>4, <2>2
  <2>3. QED
    BY <2>1, <2>2
<1>6. Under(q, s)'
  BY <1>2 DEF Under
<1>7. QED
  BY <1>4, <1>5, <1>6 DEF Ahead

LEMMA InitUaem == UaemInit => UaemInv
<1> SUFFICES ASSUME UaemInit PROVE UaemInv
  OBVIOUS
<1>1. CalendarInv
  <2>1. MonthLength(1978, 1) = 31
    BY DEF MonthLength
  <2>2. DaysFromCivil(1978, 1, 1) \in Int
    <3>1. DaysFromCivil(1978, 1, 1) = YearDays(1977) + MonthDays(1) + 1 - 719469
      BY DaysAreYears
    <3>2. YearDays(1977) \in Int /\ MonthDays(1) \in Int
      BY YearGrows DEF MonthDays
    <3>3. QED
      BY <3>1, <3>2
  <2>3. day = [y |-> 1978, m |-> 1, d |-> 1] /\ count = 0
    BY DEF UaemInit
  <2>4. DaysAreCounted
    BY <2>2, <2>3 DEF DaysAreCounted, AmigaDays
  <2>5. QED
    BY <2>1, <2>3, <2>4 DEF CalendarInv
<1>2. UaemTypes
  <2>1. walk = <<>> /\ <<>> \in Seq(Level)
    BY DEF UaemInit
  <2>2. tree \in Trees /\ DOMAIN settings = DOMAIN tree /\ tally \in [applied : Nat, failed : Nat]
        /\ outcome \in {"none", "ok", "warn", "fail"}
    BY DEF UaemInit
  <2>3. QED
    BY <2>1, <2>2 DEF UaemTypes
<1>3. OnlyItsOwn
  <2> SUFFICES ASSUME NEW p \in DOMAIN tree, NEW f \in Parts PROVE settings[p][f] = "old"
    BY Zenon DEF OnlyItsOwn
  <2>1. settings = [q \in DOMAIN tree |-> Untouched]
    BY Zenon DEF UaemInit
  <2>2. settings[p] = Untouched
    BY ONLY <2>1, p \in DOMAIN tree, Zenon
  <2>3. Untouched[f] = "old"
    BY ONLY f \in Parts, Zenon DEF Untouched
  <2>4. QED
    BY ONLY <2>2, <2>3, Zenon
<1>4. outcome = "none" /\ walk = <<>>
  BY DEF UaemInit
<1>5. QED
  BY <1>1, <1>2, <1>3, <1>4 DEF UaemInv, OkMeansCalled

\* The parts of the invariant about which a step of the walk says nothing.
LEMMA CalendarStays == ASSUME CalendarInv, UNCHANGED Calendar PROVE CalendarInv'
BY DEF CalendarInv, DaysAreCounted, Calendar

LEMMA OwnStays == ASSUME OnlyItsOwn, UNCHANGED <<tree, settings>> PROVE OnlyItsOwn'
BY DEF OnlyItsOwn, IsDir, TargetOf, Calls

LEMMA CalledStays == ASSUME NEW s, Called(s), UNCHANGED <<tree, settings, refused>> PROVE Called(s)'
BY DEF Called, Has, Calls, TargetOf

LEMMA OpenStep == ASSUME UaemInv, OpenRoot PROVE UaemInv'
<1>1. /\ CalendarInv /\ UaemTypes /\ OnlyItsOwn /\ outcome = "none"
      /\ UNCHANGED <<Calendar, tree, refused, settings, tally>>
  BY DEF UaemInv, OpenRoot, Settled, Calendar, Walking
<1>2. CalendarInv' /\ OnlyItsOwn'
  BY <1>1, CalendarStays, OwnStays
<1>3. CASE walk' = <<[dir |-> <<>>, left |-> ChildrenOf(<<>>)]>> /\ UNCHANGED outcome
  <2> DEFINE x == [dir |-> <<>>, left |-> ChildrenOf(<<>>)]
  <2>1. x \in Level
    BY <1>1, TreeIs DEF Level, ChildrenOf
  <2>2. x \in Level' /\ x.left = ChildrenOf(<<>>)
    BY <2>1, <1>1 DEF Level
  <2> HIDE DEF x
  <2>3. walk' = <<x>> /\ walk' \in Seq(Level')
    BY <1>3, <2>2 DEF x
  <2>4. UaemTypes'
    BY <1>1, <1>3, <2>3 DEF UaemTypes
  <2>5. CalledOrAhead'
    <3> SUFFICES ASSUME NEW s \in DOMAIN tree, OfSomething(s) PROVE Ahead(s)'
      BY <1>1 DEF CalledOrAhead, OfSomething, IsSidecar
    <3>1. s \in Seq(EntryNames) /\ <<>> \in Seq(EntryNames) /\ Under(<<>>, s)
      <4>1. s \in Seq(EntryNames)
        BY <1>1, TreeIs
      <4>2. Len(s) \in Nat /\ Len(<<>>) = 0 /\ SubSeq(s, 1, 0) = <<>>
        BY <4>1
      <4>3. QED
        BY <4>1, <4>2 DEF Under
    <3>2. s # <<>>
      <4>1. IsSidecar(s)
        BY DEF OfSomething
      <4>2. QED
        BY <4>1, <1>1, TreeIs
    <3>3. PICK q \in ChildrenOf(<<>>) : Under(q, s)
      BY <1>1, <3>1, <3>2, ChildUnder
    <3>4. 1 \in 1 .. Len(walk') /\ q \in walk'[1].left /\ Under(q, s)'
      BY <2>2, <2>3, <3>3 DEF Under
    <3>5. QED
      BY <3>4 DEF Ahead
  <2>6. OkMeansCalled'
    BY <1>1, <1>3 DEF OkMeansCalled
  <2>7. QED
    BY <1>2, <2>4, <2>5, <2>6 DEF UaemInv
<1>4. CASE outcome' = "fail" /\ UNCHANGED walk
  <2>1. UaemTypes'
    BY <1>1, <1>4 DEF UaemTypes, Level
  <2>2. OkMeansCalled' /\ ~Walking'
    BY <1>4 DEF OkMeansCalled, Walking
  <2>3. QED
    BY <1>2, <2>1, <2>2 DEF UaemInv
<1>5. QED
  BY <1>3, <1>4 DEF OpenRoot

\* An entry that needs nothing: what was applied or ahead stays so.
LEMMA CoverStays ==
    ASSUME UaemTypes, CalledOrAhead, walk # <<>>, NEW p \in Inner.left,
           UNCHANGED <<tree, settings, refused>>,
           \/ walk' = Passed(p) /\ \A s \in DOMAIN tree : OfSomething(s) => ~Under(p, s)
           \/ walk' = Append(Passed(p), [dir |-> p, left |-> ChildrenOf(p)]) /\ IsDir(p)
    PROVE  CalledOrAhead'
<1>1. p \in DOMAIN tree /\ p # <<>> /\ p \in Seq(EntryNames)
      /\ Passed(p) \in Seq(Level) /\ Len(Passed(p)) = Len(walk)
  BY PassedIs
<1> DEFINE x == [dir |-> p, left |-> ChildrenOf(p)]
<1>2. x \in Level /\ x.left = ChildrenOf(p)
  BY <1>1 DEF Level, ChildrenOf
<1> HIDE DEF x
<1> SUFFICES ASSUME NEW s \in DOMAIN tree, OfSomething(s) PROVE Called(s)' \/ Ahead(s)'
  BY DEF CalledOrAhead, OfSomething, IsSidecar
<1>3. Called(s) \/ Ahead(s)
  BY DEF CalledOrAhead
<1>4. CASE Called(s)
  BY <1>4, CalledStays
<1>5. CASE Ahead(s) /\ ~Under(p, s)
  BY <1>2, <1>5, StillAhead DEF x
<1>6. CASE Under(p, s)
  <2>1. walk' = Append(Passed(p), x) /\ IsDir(p)
    BY <1>6 DEF x
  <2>2. s # p
    <3>1. IsSidecar(s)
      BY DEF OfSomething
    <3>2. QED
      BY <2>1, <3>1, <1>1, TreeIs
  <2>3. PICK q \in ChildrenOf(p) : Under(q, s)
    BY <1>1, <1>6, <2>2, ChildUnder
  <2>4. Len(walk') \in 1 .. Len(walk') /\ walk'[Len(walk')] = x
    BY <1>1, <1>2, <2>1
  <2>5. q \in walk'[Len(walk')].left /\ Under(q, s)'
    BY <1>2, <2>3, <2>4 DEF Under
  <2>6. QED
    BY <2>4, <2>5 DEF Ahead
<1>7. QED
  BY <1>3, <1>4, <1>5, <1>6

\* What the rest of the invariant needs of a step on an entry.
LEMMA EntryKeeps ==
    ASSUME UaemInv, Walking, walk # <<>>, NEW p \in Inner.left,
           UNCHANGED <<Calendar, tree, outcome>>,
           walk' \in Seq(Level), DOMAIN settings' = DOMAIN settings,
           tally' \in [applied : Nat, failed : Nat],
           OnlyItsOwn',
           tally'.failed = 0 => CalledOrAhead'
    PROVE  UaemInv'
<1>1. CalendarInv'
  BY CalendarStays DEF UaemInv
<1>2. UaemTypes'
  BY DEF UaemInv, UaemTypes, Level
<1>3. OkMeansCalled'
  BY DEF OkMeansCalled, Walking
<1>4. QED
  BY <1>1, <1>2, <1>3 DEF UaemInv

LEMMA EnterStep ==
    ASSUME UaemInv, Walking, walk # <<>>, NEW p \in Inner.left, EnterDir(p),
           UNCHANGED <<Calendar, tree, outcome>>
    PROVE  UaemInv'
<1>1. /\ UaemTypes /\ IsDir(p) /\ UNCHANGED <<settings, refused>> /\ OnlyItsOwn
      /\ tally \in [applied : Nat, failed : Nat]
      /\ (tally.failed = 0 => CalledOrAhead)
  BY DEF UaemInv, UaemTypes, EnterDir
<1>2. OnlyItsOwn'
  BY <1>1, OwnStays
<1>3. /\ Passed(p) \in Seq(Level) /\ p \in DOMAIN tree
  BY <1>1, PassedIs
<1>4. CASE walk' = Append(Passed(p), [dir |-> p, left |-> ChildrenOf(p)]) /\ UNCHANGED tally
  <2>1. [dir |-> p, left |-> ChildrenOf(p)] \in Level
    BY <1>3 DEF Level, ChildrenOf
  <2>2. walk' \in Seq(Level)
    BY <1>3, <1>4, <2>1
  <2>3. tally'.failed = 0 => CalledOrAhead'
    <3> SUFFICES ASSUME tally'.failed = 0 PROVE CalledOrAhead'
      OBVIOUS
    <3>1. CalledOrAhead
      BY <1>1, <1>4
    <3>2. QED
      BY <1>1, <1>4, <3>1, CoverStays
  <2>4. QED
    BY <1>1, <1>2, <1>4, <2>2, <2>3, EntryKeeps
<1>5. CASE walk' = Passed(p) /\ tally' = [tally EXCEPT !.failed = @ + 1]
  <2>1. tally' \in [applied : Nat, failed : Nat] /\ tally'.failed # 0
    BY <1>1, <1>5
  <2>2. QED
    BY <1>1, <1>2, <1>3, <1>5, <2>1, EntryKeeps
<1>6. QED
  BY <1>4, <1>5 DEF EnterDir

LEMMA PassStep ==
    ASSUME UaemInv, Walking, walk # <<>>, NEW p \in Inner.left, PassBy(p),
           UNCHANGED <<Calendar, tree, outcome>>
    PROVE  UaemInv'
<1>1. /\ UaemTypes /\ ~IsDir(p) /\ ~NamedUaem(p) /\ UNCHANGED <<settings, refused, tally>> /\ OnlyItsOwn
      /\ tally \in [applied : Nat, failed : Nat]
      /\ (tally.failed = 0 => CalledOrAhead) /\ walk' = Passed(p)
  BY DEF UaemInv, UaemTypes, PassBy
<1>2. OnlyItsOwn'
  BY <1>1, OwnStays
<1>3. Passed(p) \in Seq(Level) /\ p \in DOMAIN tree
  BY <1>1, PassedIs
<1>4. \A s \in DOMAIN tree : OfSomething(s) => ~Under(p, s)
  <2> SUFFICES ASSUME NEW s \in DOMAIN tree, OfSomething(s), Under(p, s) PROVE FALSE
    OBVIOUS
  <2>1. s = p
    BY <1>1, <1>3, OnlyUnderDirs
  <2>2. IsSidecar(p) /\ Len(Last(p)) > 1
    BY <2>1 DEF OfSomething
  <2>3. Last(Last(p)) = "uaem"
    BY <1>1, <1>3, <2>2, TreeIs
  <2>4. QED
    BY <1>1, <2>2, <2>3 DEF NamedUaem
<1>5. tally'.failed = 0 => CalledOrAhead'
  <2> SUFFICES ASSUME tally'.failed = 0 PROVE CalledOrAhead'
    OBVIOUS
  <2>1. CalledOrAhead
    BY <1>1
  <2>2. QED
    BY <1>1, <1>4, <2>1, CoverStays
<1>6. QED
  BY <1>1, <1>2, <1>3, <1>5, EntryKeeps

LEMMA SkipStep ==
    ASSUME UaemInv, Walking, walk # <<>>, NEW p \in Inner.left, SkipOne(p),
           UNCHANGED <<Calendar, tree, outcome>>
    PROVE  UaemInv'
<1>1. /\ UaemTypes /\ UNCHANGED <<settings, refused>> /\ OnlyItsOwn
      /\ tally \in [applied : Nat, failed : Nat]
      /\ walk' = Passed(p) /\ tally' = [tally EXCEPT !.failed = @ + 1]
  BY DEF UaemInv, UaemTypes, SkipOne
<1>2. OnlyItsOwn'
  BY <1>1, OwnStays
<1>3. Passed(p) \in Seq(Level)
  BY <1>1, PassedIs
<1>4. tally' \in [applied : Nat, failed : Nat] /\ tally'.failed # 0
  BY <1>1
<1>5. QED
  BY <1>1, <1>2, <1>3, <1>4, EntryKeeps

\* A sidecar that was applied: to its own entry, and to no other's.
LEMMA ApplyStep ==
    ASSUME UaemInv, Walking, walk # <<>>, NEW p \in Inner.left, ApplyOne(p),
           UNCHANGED <<Calendar, tree, outcome>>
    PROVE  UaemInv'
<1>1. /\ UaemTypes /\ OnlyItsOwn /\ ~IsDir(p) /\ NamedUaem(p) /\ IsSidecar(p) /\ tree[p][2] # "unparsable"
      /\ tally \in [applied : Nat, failed : Nat] /\ UNCHANGED tree
      /\ (tally.failed = 0 => CalledOrAhead)
      /\ walk' = Passed(p) /\ tally' = [tally EXCEPT !.applied = @ + 1]
      /\ DOMAIN settings = DOMAIN tree
  BY DEF UaemInv, UaemTypes, ApplyOne
<1>2. PICK done \in SUBSET Calls(p) :
        /\ refused' = refused \cup {<<p, f>> : f \in Calls(p) \ done}
        /\ TargetOf(p) \in DOMAIN tree \/ done = {}
        /\ settings' = [q \in DOMAIN settings |->
                          IF q = TargetOf(p)
                          THEN [f \in Parts |-> IF f \in done THEN tree[p][2] ELSE settings[q][f]]
                          ELSE settings[q]]
  BY DEF ApplyOne
<1>3. Passed(p) \in Seq(Level) /\ p \in DOMAIN tree /\ p # <<>> /\ p \in Seq(EntryNames)
  BY <1>1, PassedIs
<1>4. DOMAIN settings' = DOMAIN settings /\ done \subseteq Parts
  BY <1>2 DEF Calls
<1>5. \A q \in DOMAIN tree : \A f \in Parts :
         settings'[q][f] = IF f \in done /\ q = TargetOf(p) THEN tree[p][2] ELSE settings[q][f]
  BY <1>1, <1>2
<1>6. OnlyItsOwn'
  <2> SUFFICES ASSUME NEW q \in DOMAIN tree, NEW f \in Parts, settings'[q][f] # "old"
               PROVE  \E s \in DOMAIN tree : /\ ~IsDir(s) /\ s # <<>> /\ Len(Last(s)) > 1 /\ TargetOf(s) = q
                                             /\ f \in Calls(s) /\ tree[s][2] = settings'[q][f]
    BY <1>1 DEF OnlyItsOwn, IsDir, TargetOf, Calls
  <2>1. CASE f \in done /\ q = TargetOf(p)
    BY <2>1, <1>1, <1>2, <1>3, <1>5 DEF NamedUaem
  <2>2. CASE ~(f \in done /\ q = TargetOf(p))
    BY <2>2, <1>1, <1>5 DEF OnlyItsOwn
  <2>3. QED
    BY <2>1, <2>2
<1>7. tally'.failed = 0 => CalledOrAhead'
  <2> SUFFICES ASSUME tally'.failed = 0, NEW s \in DOMAIN tree, OfSomething(s)
               PROVE  Called(s)' \/ Ahead(s)'
    BY <1>1 DEF CalledOrAhead, OfSomething, IsSidecar
  <2>1. CalledOrAhead
    BY <1>1
  <2>2. CASE s = p
    <3> SUFFICES ASSUME NEW f \in Calls(p) PROVE <<p, f>> \in refused' \/ Has(p, f)'
      BY <2>2, <1>1 DEF Called, Calls
    <3>1. CASE f \in done
      <4>1. TargetOf(p) \in DOMAIN tree /\ f \in Parts
        BY <3>1, <1>2, <1>4
      <4>2. settings'[TargetOf(p)][f] = tree[p][2]
        BY <3>1, <4>1, <1>5
      <4>3. QED
        BY <4>1, <4>2, <1>1 DEF Has, TargetOf
    <3>2. CASE f \notin done
      BY <3>2, <1>2
    <3>3. QED
      BY <3>1, <3>2
  <2>3. CASE s # p /\ Called(s)
    <3>1. s # <<>> /\ NamedUaem(s)
      <4>1. IsSidecar(s) /\ Len(Last(s)) > 1
        BY DEF OfSomething
      <4>2. s # <<>> /\ Last(Last(s)) = "uaem"
        BY <1>1, <4>1, TreeIs
      <4>3. QED
        BY <4>1, <4>2 DEF NamedUaem
    <3>2. TargetOf(s) # TargetOf(p)
      BY <3>1, <2>3, <1>1, <1>3, TargetsDiffer
    <3>3. \A f \in Calls(s) : Has(s, f) => Has(s, f)'
      BY <3>2, <1>1, <1>5 DEF Has, TargetOf, Calls
    <3>4. \A f : <<s, f>> \in refused => <<s, f>> \in refused'
      BY <1>2
    <3>5. QED
      BY <2>3, <3>3, <3>4, <1>1 DEF Called, Calls
  <2>4. CASE s # p /\ Ahead(s)
    <3>1. ~Under(p, s)
      BY <2>4, <1>1, <1>3, OnlyUnderDirs
    <3>2. QED
      BY <2>4, <3>1, <1>1, StillAhead
  <2>5. QED
    BY <2>1, <2>2, <2>3, <2>4 DEF CalledOrAhead
<1>8. tally' \in [applied : Nat, failed : Nat]
  BY <1>1
<1>9. QED
  BY <1>1, <1>3, <1>4, <1>6, <1>7, <1>8, EntryKeeps

LEMMA LeaveStep == ASSUME UaemInv, LeaveDir PROVE UaemInv'
<1>1. /\ CalendarInv /\ UaemTypes /\ OnlyItsOwn /\ Walking /\ walk # <<>>
      /\ UNCHANGED <<Calendar, tree, refused, settings>>
      /\ tally \in [applied : Nat, failed : Nat] /\ walk \in Seq(Level)
      /\ (tally.failed = 0 => CalledOrAhead)
  BY DEF UaemInv, UaemTypes, LeaveDir, Settled, Calendar
<1>2. CalendarInv' /\ OnlyItsOwn'
  BY <1>1, CalendarStays, OwnStays
<1>3. PICK broken \in BOOLEAN :
        /\ Inner.left = {} \/ broken
        /\ IF Len(walk) = 1
           THEN outcome' = ResultCode(tally, broken) /\ walk' = <<>> /\ UNCHANGED tally
           ELSE /\ walk' = Front(walk) /\ UNCHANGED outcome
                /\ tally' = [tally EXCEPT !.failed = IF broken THEN @ + 1 ELSE @]
  BY DEF LeaveDir
<1>4. Len(walk) \in Nat /\ Len(walk) > 0 /\ Inner = walk[Len(walk)]
  BY <1>1 DEF Inner
<1>5. \A s \in DOMAIN tree : Called(s) => Called(s)'
  BY <1>1, CalledStays
<1>6. CASE Len(walk) = 1
  <2>1. outcome' = ResultCode(tally, broken) /\ walk' = <<>> /\ UNCHANGED tally
    BY <1>3, <1>6
  <2>2. outcome' \in {"ok", "warn", "fail"} /\ (outcome' = "ok" => ~broken /\ tally.failed = 0)
    BY <2>1, <1>1 DEF ResultCode
  <2>3. UaemTypes'
    <3>1. <<>> \in Seq(Level')
      OBVIOUS
    <3>2. QED
      BY <1>1, <2>1, <2>2, <3>1 DEF UaemTypes
  <2>4. OkMeansCalled'
    <3> SUFFICES ASSUME outcome' = "ok", NEW s \in DOMAIN tree, OfSomething(s)
                 PROVE  Called(s)'
      BY <1>1 DEF OkMeansCalled, OfSomething, Called, IsSidecar, Has, Calls
    <3>1. CalledOrAhead /\ walk[1].left = {}
      BY <1>1, <1>3, <1>4, <1>6, <2>2
    <3>2. ~Ahead(s)
      BY <3>1, <1>6 DEF Ahead
    <3>3. QED
      BY <3>1, <3>2, <1>5 DEF CalledOrAhead
  <2>5. ~Walking'
    BY <2>2 DEF Walking
  <2>6. QED
    BY <1>2, <2>3, <2>4, <2>5 DEF UaemInv
<1>7. CASE Len(walk) # 1
  <2>1. /\ walk' = Front(walk) /\ UNCHANGED outcome
        /\ tally' = [tally EXCEPT !.failed = IF broken THEN @ + 1 ELSE @]
    BY <1>3, <1>7
  <2>2. /\ walk' \in Seq(Level) /\ Len(walk') = Len(walk) - 1
        /\ \A i \in 1 .. Len(walk) - 1 : walk'[i] = walk[i]
    BY <2>1, <1>1, FrontIs
  <2>3. tally' \in [applied : Nat, failed : Nat] /\ tally'.failed = IF broken THEN tally.failed + 1 ELSE tally.failed
    BY <2>1, <1>1
  <2>4. UaemTypes'
    BY <1>1, <2>1, <2>2, <2>3 DEF UaemTypes, Level
  <2>5. tally'.failed = 0 => CalledOrAhead'
    <3> SUFFICES ASSUME tally'.failed = 0, NEW s \in DOMAIN tree, OfSomething(s)
                 PROVE  Called(s)' \/ Ahead(s)'
      BY <1>1 DEF CalledOrAhead, OfSomething, IsSidecar
    <3>1. ~broken /\ tally.failed = 0
      BY <2>3, <1>1
    <3>2. Called(s) \/ Ahead(s)
      BY <1>1, <3>1 DEF CalledOrAhead
    <3>3. CASE Ahead(s)
      <4>1. PICK k \in 1 .. Len(walk) : \E q \in walk[k].left : Under(q, s)
        BY <3>3 DEF Ahead
      <4>2. k # Len(walk)
        BY <4>1, <3>1, <1>3, <1>4
      <4>3. k \in 1 .. Len(walk') /\ walk'[k] = walk[k]
        BY <4>2, <2>2, <1>4
      <4>4. QED
        BY <4>1, <4>3 DEF Ahead, Under
    <3>4. QED
      BY <3>2, <3>3, <1>5
  <2>6. OkMeansCalled'
    BY <2>1, <1>1 DEF OkMeansCalled, Walking
  <2>7. QED
    BY <1>2, <2>4, <2>5, <2>6 DEF UaemInv
<1>8. QED
  BY <1>6, <1>7

LEMMA DayStep == ASSUME UaemInv, NewDay PROVE UaemInv'
<1>1. UNCHANGED <<tree, settings, walk, tally, refused, outcome>>
  BY DEF NewDay
<1>2. CalendarInv' /\ OnlyItsOwn'
  BY <1>1, CalendarStep, OwnStays DEF UaemInv
<1>3. UaemTypes' /\ OkMeansCalled'
  BY <1>1 DEF UaemInv, UaemTypes, Level, OkMeansCalled, OfSomething, IsSidecar, Has, Calls, TargetOf
<1>4. CalledOrAhead => CalledOrAhead'
  BY <1>1 DEF CalledOrAhead, OfSomething, IsSidecar, Called, Has, Calls, Ahead, TargetOf, Under
<1>5. QED
  BY <1>1, <1>2, <1>3, <1>4 DEF UaemInv, Walking

LEMMA UaemStep == ASSUME UaemInv, [UaemNext]_uaemVars PROVE UaemInv'
<1>1. CASE NewDay
  BY <1>1, DayStep
<1>2. CASE OpenRoot
  BY <1>2, OpenStep
<1>3. CASE NextEntry
  <2>1. PICK p \in Inner.left : EnterDir(p) \/ PassBy(p) \/ ApplyOne(p) \/ SkipOne(p)
    BY <1>3 DEF NextEntry
  <2>2. Walking /\ walk # <<>> /\ UNCHANGED <<Calendar, tree, outcome>>
    BY <1>3 DEF NextEntry
  <2>3. QED
    BY <2>1, <2>2, EnterStep, PassStep, ApplyStep, SkipStep
<1>4. CASE LeaveDir
  BY <1>4, LeaveStep
<1>5. CASE UNCHANGED uaemVars
  <2>1. UNCHANGED <<tree, settings, walk, tally, refused, outcome>> /\ UNCHANGED Calendar
    BY <1>5 DEF uaemVars, Calendar
  <2>2. CalendarInv' /\ OnlyItsOwn'
    BY <2>1, CalendarStays, OwnStays DEF UaemInv
  <2>3. UaemTypes' /\ OkMeansCalled'
    BY <2>1 DEF UaemInv, UaemTypes, Level, OkMeansCalled, OfSomething, IsSidecar, Has, Calls, TargetOf
  <2>4. CalledOrAhead => CalledOrAhead'
    BY <2>1 DEF CalledOrAhead, OfSomething, IsSidecar, Called, Has, Calls, Ahead, TargetOf, Under
  <2>5. QED
    BY <2>1, <2>2, <2>3, <2>4 DEF UaemInv, Walking
<1>6. QED
  BY <1>1, <1>2, <1>3, <1>4, <1>5 DEF UaemNext, WalkNext

\* APPLYUAEM, on every tree and for every day: a sidecar's line is read back as
\* it was written, each part of an entry is what it was or what the entry's own
\* sidecar tells, and OK means that every sidecar parsed and that of its parts
\* the entry lacks none but those AmigaDOS refused, which nothing counts.
THEOREM SidecarsApplied ==
    UaemInit /\ [][UaemNext]_uaemVars => []SidecarsAsWritten
<1>1. UaemInit => UaemInv
  BY InitUaem
<1>2. UaemInv /\ [UaemNext]_uaemVars => UaemInv'
  BY UaemStep
<1>3. UaemInv => SidecarsAsWritten
  BY LineIsRead DEF UaemInv, CalendarInv, SidecarsAsWritten
<1>4. QED
  BY <1>1, <1>2, <1>3, PTL

-----------------------------------------------------------------------------
(* The exclude list: numbers.                                              *)

\* Upwards: a set of numbers with 0, and with the next of each, has all.
LEMMA SetInduction ==
    ASSUME NEW S, 0 \in S, \A n \in Nat : n \in S => n + 1 \in S
    PROVE  Nat \subseteq S
<1> DEFINE R == OpToRel(<, Nat)
           T == Nat \ S
<1>1. SUFFICES ASSUME T # {} PROVE FALSE
  OBVIOUS
<1>2. PICK x \in T : \A y \in T : <<y, x>> \notin R
  <2>1. IsWellFoundedOn(R, Nat) /\ T \subseteq Nat
    BY NatLessThanWellFounded
  <2> HIDE DEF R, T
  <2> QED  BY <1>1, <2>1, WFMin
<1>3. x \in Nat /\ x - 1 \in Nat /\ x - 1 < x /\ x = (x - 1) + 1
  <2>1. x \in Nat /\ x \notin S
    OBVIOUS
  <2>2. x # 0
    BY <2>1
  <2> HIDE DEF R, T
  <2> QED  BY ONLY <2>1, <2>2
<1>4. <<x - 1, x>> \in R
  <2> DEFINE y == x - 1
  <2>1. y \in Nat /\ x \in Nat /\ y < x
    BY <1>3
  <2> HIDE DEF y
  <2>2. <<y, x>> \in Nat \X Nat /\ <<y, x>>[1] < <<y, x>>[2]
    BY <2>1
  <2>3. <<y, x>> \in {ss \in Nat \X Nat : ss[1] < ss[2]}
    BY <2>2
  <2>4. <<y, x>> \in R
    BY <2>3, Zenon DEF OpToRel
  <2> QED  BY <2>4 DEF y
<1>5. x - 1 \in S
  BY <1>2, <1>3, <1>4
<1> QED  BY <1>2, <1>3, <1>5

\* Downwards: a set that has a number below n whenever it has all between has
\* every one.
LEMMA DownInduction ==
    ASSUME NEW n \in Nat, NEW S, \A i \in 1 .. n : (\A j \in i + 1 .. n : j \in S) => i \in S
    PROVE  \A i \in 1 .. n : i \in S
<1> DEFINE G == {k \in Nat : \A i \in 1 .. n : i > n - k => i \in S}
<1>1. 0 \in G
  OBVIOUS
<1>2. ASSUME NEW k \in Nat, k \in G PROVE k + 1 \in G
  <2> SUFFICES ASSUME NEW i \in 1 .. n, i > n - (k + 1) PROVE i \in S
    OBVIOUS
  <2>1. \A j \in i + 1 .. n : j \in 1 .. n /\ j > n - k
    OBVIOUS
  <2>2. \A j \in i + 1 .. n : j \in S
    BY <1>2, <2>1
  <2> QED  BY <2>2
<1>3. Nat \subseteq G
  <2> HIDE DEF G
  <2> QED  BY <1>1, <1>2, SetInduction
<1> QED  BY <1>3

\* A set of numbers that is not empty has a least one.
LEMMA Least ==
    ASSUME NEW S, S \subseteq Nat, S # {}
    PROVE  Min(S) \in S /\ \A x \in S : Min(S) <= x
<1>1. \E m \in S : \A x \in S : m <= x
  <2> SUFFICES ASSUME \A m \in S : \E x \in S : ~ (m <= x) PROVE FALSE
    OBVIOUS
  <2> DEFINE G == {n \in Nat : \A m \in S : m > n}
  <2>1. 0 \in G
    <3> SUFFICES ASSUME NEW m \in S PROVE m > 0
      OBVIOUS
    <3> QED  OBVIOUS
  <2>2. ASSUME NEW n \in Nat, n \in G PROVE n + 1 \in G
    <3> SUFFICES ASSUME NEW m \in S PROVE m > n + 1
      OBVIOUS
    <3>1. m > n /\ m \in Nat
      BY <2>2
    <3>2. PICK x \in S : ~ (m <= x)
      OBVIOUS
    <3>3. x > n /\ x \in Nat
      BY <2>2
    <3> QED  BY <3>1, <3>2, <3>3
  <2>3. Nat \subseteq G
    <3> HIDE DEF G
    <3> QED  BY <2>1, <2>2, SetInduction
  <2>4. PICK m \in S : TRUE
    OBVIOUS
  <2> QED  BY <2>3, <2>4
<1> QED  BY <1>1 DEF Min

-----------------------------------------------------------------------------
(* The exclude list: what a pattern stands for.                            *)

\* A character of a pattern and one of a name.
Likes(c, d) == c = "?" \/ SameLetter(c, d)

BeginsAt(f, p, s, i) ==
    IF i > Len(p) THEN {Len(s) + 1}
    ELSE IF p[i] = "*" THEN {j \in 1 .. Len(s) + 1 : \E k \in f[i + 1] : j <= k}
    ELSE {j \in 1 .. Len(s) : (p[i] = "?" \/ SameLetter(p[i], s[j])) /\ j + 1 \in f[i + 1]}
IsBegins(f, p, s) == f = [i \in 1 .. Len(p) + 1 |-> BeginsAt(f, p, s, i)]

\* Stands is the value at 1 of a function defined by itself.
LEMMA StandsChooses == \A p, s : Stands(p, s) <=> 1 \in (CHOOSE f : IsBegins(f, p, s))[1]
BY Zenon DEF Stands, IsBegins, BeginsAt

\* What is said of the places where the rest of a pattern may begin.
Fits(f, p, s) ==
    /\ f[Len(p) + 1] = {Len(s) + 1}
    /\ \A i \in 1 .. Len(p) :
          /\ p[i] = "*" => f[i] = {j \in 1 .. Len(s) + 1 : \E k \in f[i + 1] : j <= k}
          /\ p[i] # "*" => f[i] = {j \in 1 .. Len(s) : Likes(p[i], s[j]) /\ j + 1 \in f[i + 1]}

\* There is such a function: each of its values needs the one after it only.
LEMMA BeginsExists ==
    ASSUME NEW p, NEW s, Len(p) \in Nat
    PROVE  \E f : IsBegins(f, p, s)
<1> DEFINE n == Len(p) + 1
           To(f, k) == \A i \in 1 .. n : i > n - k => f[i] = BeginsAt(f, p, s, i)
           G == {k \in Nat : \E f : DOMAIN f = 1 .. n /\ f = [i \in 1 .. n |-> f[i]] /\ To(f, k)}
<1>1. 0 \in G
  <2> DEFINE f == [i \in 1 .. n |-> 0]
  <2>1. DOMAIN f = 1 .. n /\ f = [i \in 1 .. n |-> f[i]] /\ To(f, 0)
    OBVIOUS
  <2> QED  BY <2>1
<1>2. ASSUME NEW k \in Nat, k \in G PROVE k + 1 \in G
  <2>1. PICK g : DOMAIN g = 1 .. n /\ g = [i \in 1 .. n |-> g[i]] /\ To(g, k)
    BY <1>2
  <2> DEFINE f == [i \in 1 .. n |-> IF i = n - k THEN BeginsAt(g, p, s, i) ELSE g[i]]
  <2>2. DOMAIN f = 1 .. n /\ \A i \in 1 .. n : f[i] = IF i = n - k THEN BeginsAt(g, p, s, i) ELSE g[i]
    OBVIOUS
  <2>3. f = [i \in 1 .. n |-> f[i]]
    OBVIOUS
  <2> HIDE DEF f
  <2>4. ASSUME NEW i \in 1 .. n, i > n - (k + 1) PROVE f[i] = BeginsAt(f, p, s, i)
    <3>1. i <= Len(p) => f[i + 1] = g[i + 1]
      <4> SUFFICES ASSUME i <= Len(p) PROVE f[i + 1] = g[i + 1]
        OBVIOUS
      <4>1. i + 1 \in 1 .. n /\ i + 1 # n - k
        BY <2>4
      <4> QED  BY <2>2, <4>1
    <3>2. BeginsAt(f, p, s, i) = BeginsAt(g, p, s, i)
      <4>1. CASE i > Len(p)
        BY <4>1 DEF BeginsAt
      <4>2. CASE ~ (i > Len(p))
        <5>1. f[i + 1] = g[i + 1]
          BY <3>1, <4>2
        <5> QED  BY <5>1, Zenon DEF BeginsAt
      <4> QED  BY <4>1, <4>2
    <3>3. CASE i = n - k
      BY <2>2, <3>2, <3>3
    <3>4. CASE i # n - k
      <4>1. i > n - k
        BY <2>4, <3>4
      <4>2. g[i] = BeginsAt(g, p, s, i)
        BY <2>1, <4>1
      <4> QED  BY <2>2, <3>2, <3>4, <4>2
    <3> QED  BY <3>3, <3>4
  <2>5. To(f, k + 1)
    BY <2>4
  <2> QED  BY <2>2, <2>3, <2>5
<1>3. Nat \subseteq G
  <2> HIDE DEF G
  <2> QED  BY <1>1, <1>2, SetInduction
<1>4. n \in Nat
  OBVIOUS
<1>5. PICK f : f = [i \in 1 .. n |-> f[i]] /\ To(f, n)
  BY <1>3, <1>4
<1>6. \A i \in 1 .. n : f[i] = BeginsAt(f, p, s, i)
  BY <1>5
<1>7. f = [i \in 1 .. n |-> BeginsAt(f, p, s, i)]
  <2>1. [i \in 1 .. n |-> f[i]] = [i \in 1 .. n |-> BeginsAt(f, p, s, i)]
    BY <1>6, Zenon
  <2> QED  BY <1>5, <2>1, Zenon
<1> QED  BY <1>7, Zenon DEF IsBegins

\* So what Stands means can be said place by place.
LEMMA StandsIs ==
    ASSUME NEW p, NEW s, Len(p) \in Nat
    PROVE  \E f : Fits(f, p, s) /\ (Stands(p, s) <=> 1 \in f[1])
<1> DEFINE f == CHOOSE g : IsBegins(g, p, s)
           n == Len(p) + 1
<1>1. IsBegins(f, p, s)
  BY BeginsExists
<1>2. Stands(p, s) <=> 1 \in f[1]
  BY StandsChooses, Zenon
<1> HIDE DEF f
<1>3. f = [i \in 1 .. n |-> BeginsAt(f, p, s, i)]
  BY <1>1, Zenon DEF IsBegins
<1>4. \A i \in 1 .. n : f[i] = BeginsAt(f, p, s, i)
  BY <1>3, Zenon
<1>5. f[n] = {Len(s) + 1}
  <2>1. n \in 1 .. n /\ n > Len(p)
    OBVIOUS
  <2> QED  BY <1>4, <2>1 DEF BeginsAt
<1>6. ASSUME NEW i \in 1 .. Len(p)
      PROVE  /\ p[i] = "*" => f[i] = {j \in 1 .. Len(s) + 1 : \E k \in f[i + 1] : j <= k}
             /\ p[i] # "*" => f[i] = {j \in 1 .. Len(s) : Likes(p[i], s[j]) /\ j + 1 \in f[i + 1]}
  <2>1. i \in 1 .. n /\ ~ (i > Len(p))
    OBVIOUS
  <2>2. f[i] = BeginsAt(f, p, s, i)
    BY <1>4, <2>1
  <2> QED  BY <2>1, <2>2, Zenon DEF BeginsAt, Likes
<1> QED  BY <1>2, <1>5, <1>6 DEF Fits

-----------------------------------------------------------------------------
(* The exclude list: the one pass over a name.                             *)

\* More rows of m are more by m at least.
LEMMA TimesOver ==
    ASSUME NEW u \in Nat, NEW v \in Nat, NEW m \in Nat
    PROVE  /\ u * m \in Nat
           /\ u < v => u * m + m <= v * m
<1>1. u * m \in Nat
  OBVIOUS
<1>2. ASSUME u < v PROVE u * m + m <= v * m
  <2> DEFINE w == v - (u + 1)
  <2>1. w \in Nat /\ v = (u + 1) + w
    BY <1>2
  <2> HIDE DEF w
  <2>2. w * m \in Nat
    BY <2>1
  <2>3. v * m = (u * m + m) + w * m
    BY <2>1
  <2> QED  BY <1>1, <2>2, <2>3
<1> QED  BY <1>1, <1>2

\* Three numbers in order of weight.
Weighed(a, b, c, m) == (a * m + b) * m + c

\* Three numbers below m but the first: the first that differs decides.
LEMMA WeighsLess ==
    ASSUME NEW m \in Nat, NEW a \in Nat, NEW b \in Nat, NEW c \in Nat, NEW d \in Nat, NEW e \in Nat,
           NEW f \in Nat, b < m, c < m, e < m, f < m,
           d < a \/ (d = a /\ e < b) \/ (d = a /\ e = b /\ f < c)
    PROVE  Weighed(d, e, f, m) \in Nat /\ Weighed(d, e, f, m) < Weighed(a, b, c, m)
<1> DEFINE u == a * m + b
           v == d * m + e
<1>1. a * m \in Nat /\ d * m \in Nat
  BY TimesOver
<1>2. u \in Nat /\ v \in Nat
  BY <1>1
<1>3. v < u \/ (v = u /\ f < c)
  <2>1. CASE d < a
    <3>1. d * m + m <= a * m
      BY <2>1, TimesOver
    <3> QED  BY <1>1, <3>1
  <2>2. CASE d = a
    BY <1>1, <2>2
  <2> QED  BY <2>1, <2>2
<1> HIDE DEF u, v
<1>4. u * m \in Nat /\ v * m \in Nat
  BY <1>2, TimesOver
<1>5. v * m + f < u * m + c
  <2>1. CASE v < u
    <3>1. v * m + m <= u * m
      BY <1>2, <2>1, TimesOver
    <3> QED  BY <1>4, <3>1
  <2>2. CASE v = u /\ f < c
    BY <1>4, <2>2
  <2> QED  BY <1>3, <2>1, <2>2
<1>6. v * m + f \in Nat
  BY <1>4
<1> QED  BY <1>5, <1>6 DEF Weighed, u, v

Step(x) == <<x[1] + 1, x[2] + 1, x[3], x[4]>>
ToStar(x) == <<x[1] + 1, x[2], x[1], x[2]>>
Back(x) == <<x[3] + 1, x[4] + 1, x[3], x[4] + 1>>

PassWeight(k, l, c, d, b) == Weighed(k - c, l + 1 - d, l + 1 - b, l + 2)

\* The weight is the smaller the further on the star, its mark and the name.
LEMMA WeightFalls ==
    ASSUME NEW k \in Nat, NEW l \in Nat, NEW b \in Nat, NEW c \in Nat, NEW d \in Nat,
           NEW g \in Nat, NEW e \in Nat, NEW f \in Nat,
           c <= k, d <= l + 1, b <= l + 1, g <= k, e <= l + 1, f <= l + 1,
           c < g \/ (c = g /\ d < e) \/ (c = g /\ d = e /\ b < f)
    PROVE  PassWeight(k, l, g, e, f) \in Nat /\ PassWeight(k, l, g, e, f) < PassWeight(k, l, c, d, b)
<1>1. PICK u \in Nat, v \in Nat, w \in Nat, x \in Nat, y \in Nat, z \in Nat, m \in Nat :
          /\ u = k - c /\ v = l + 1 - d /\ w = l + 1 - b /\ x = k - g /\ y = l + 1 - e /\ z = l + 1 - f
          /\ m = l + 2
  OBVIOUS
<1>2. v < m /\ w < m /\ y < m /\ z < m /\ (x < u \/ (x = u /\ y < v) \/ (x = u /\ y = v /\ z < w))
  BY <1>1
<1>3. Weighed(x, y, z, m) \in Nat /\ Weighed(x, y, z, m) < Weighed(u, v, w, m)
  BY ONLY <1>2, WeighsLess
<1>4. PassWeight(k, l, g, e, f) = Weighed(x, y, z, m) /\ PassWeight(k, l, c, d, b) = Weighed(u, v, w, m)
  BY <1>1, Zenon DEF PassWeight
<1> QED  BY <1>3, <1>4

\* A weight is a number.
LEMMA WeightIsNat ==
    ASSUME NEW k \in Nat, NEW l \in Nat, NEW b \in Nat, NEW c \in Nat, NEW d \in Nat,
           c <= k, d <= l + 1, b <= l + 1
    PROVE  PassWeight(k, l, c, d, b) \in Nat
<1>1. PICK u \in Nat, v \in Nat, w \in Nat, m \in Nat :
          u = k - c /\ v = l + 1 - d /\ w = l + 1 - b /\ m = l + 2
  OBVIOUS
<1>2. u * m \in Nat
  BY TimesOver
<1>3. u * m + v \in Nat
  BY <1>2
<1>4. (u * m + v) * m \in Nat
  BY <1>3, TimesOver
<1>5. Weighed(u, v, w, m) \in Nat
  BY <1>4 DEF Weighed
<1> QED  BY <1>1, <1>5, Zenon DEF PassWeight

\* What is left to do, at most.
Left(p, s, x) == PassWeight(Len(p), Len(s), x[3], x[4], x[2])

\* A state of the pass.
LEMMA StatesAre ==
    ASSUME NEW p, NEW s
    PROVE  /\ \A x \in GlobStates(p, s) :
                 /\ x[1] \in 1 .. Len(p) + 1 /\ x[2] \in 1 .. Len(s) + 1
                 /\ x[3] \in 0 .. Len(p) /\ x[4] \in 0 .. Len(s) + 1 /\ x[3] < x[1] /\ x[4] <= x[2]
           /\ \A a \in 1 .. Len(p) + 1, b \in 1 .. Len(s) + 1, c \in 0 .. Len(p), d \in 0 .. Len(s) + 1 :
                 c < a /\ d <= b => <<a, b, c, d>> \in GlobStates(p, s)
BY DEF GlobStates

\* The numbers of a state.
Numbered(p, s, x) ==
    \E a \in Nat, b \in Nat, c \in Nat, d \in Nat, k \in Nat, l \in Nat :
        /\ a = x[1] /\ b = x[2] /\ c = x[3] /\ d = x[4] /\ k = Len(p) /\ l = Len(s)
        /\ a >= 1 /\ a <= k + 1 /\ b >= 1 /\ b <= l + 1 /\ c <= k /\ d <= l + 1 /\ c < a /\ d <= b

\* A state is four numbers, within the pattern and the name.
LEMMA StateNumbers ==
    ASSUME NEW p, NEW s, Len(p) \in Nat, Len(s) \in Nat, NEW x \in GlobStates(p, s)
    PROVE  Numbered(p, s, x)
<1> DEFINE a == x[1]
           b == x[2]
           c == x[3]
           d == x[4]
           k == Len(p)
           l == Len(s)
<1>1. /\ a \in 1 .. k + 1 /\ b \in 1 .. l + 1 /\ c \in 0 .. k /\ d \in 0 .. l + 1 /\ c < a /\ d <= b
      /\ k \in Nat /\ l \in Nat
  BY StatesAre
<1> HIDE DEF a, b, c, d, k, l
<1>2. /\ a \in Nat /\ b \in Nat /\ c \in Nat /\ d \in Nat
      /\ a >= 1 /\ a <= k + 1 /\ b >= 1 /\ b <= l + 1 /\ c <= k /\ d <= l + 1
  BY ONLY <1>1
<1> QED  BY <1>1, <1>2 DEF Numbered, a, b, c, d, k, l

\* Every step goes on, or back behind where it was.
LEMMA LeftFalls ==
    ASSUME NEW p, NEW s, Len(p) \in Nat, Len(s) \in Nat, NEW x \in GlobStates(p, s)
    PROVE  /\ Left(p, s, x) \in Nat
           /\ x[2] <= Len(s) =>
                 /\ x[1] <= Len(p) => Step(x) \in GlobStates(p, s) /\ Left(p, s, Step(x)) < Left(p, s, x)
                 /\ x[1] <= Len(p) => ToStar(x) \in GlobStates(p, s) /\ Left(p, s, ToStar(x)) < Left(p, s, x)
                 /\ x[3] # 0 => Back(x) \in GlobStates(p, s) /\ Left(p, s, Back(x)) < Left(p, s, x)
<1>0. Numbered(p, s, x)
  BY StateNumbers
<1>1. PICK a \in Nat, b \in Nat, c \in Nat, d \in Nat, k \in Nat, l \in Nat :
          /\ a = x[1] /\ b = x[2] /\ c = x[3] /\ d = x[4] /\ k = Len(p) /\ l = Len(s)
          /\ a >= 1 /\ a <= k + 1 /\ b >= 1 /\ b <= l + 1 /\ c <= k /\ d <= l + 1 /\ c < a /\ d <= b
  BY <1>0 DEF Numbered
<1>a. a >= 1 /\ a <= k + 1 /\ b >= 1 /\ b <= l + 1 /\ c <= k /\ d <= l + 1 /\ c < a /\ d <= b
  BY <1>1
<1>2. Left(p, s, x) = PassWeight(k, l, c, d, b)
  BY <1>1, Zenon DEF Left
<1>3. Left(p, s, x) \in Nat
  <2>1. PassWeight(k, l, c, d, b) \in Nat
    BY ONLY <1>a, WeightIsNat
  <2> QED  BY <1>2, <2>1
<1>4. ASSUME b <= l, a <= k
      PROVE  Step(x) \in GlobStates(p, s) /\ Left(p, s, Step(x)) < Left(p, s, x)
  <2>1. Step(x) = <<a + 1, b + 1, c, d>>
    BY <1>1, Zenon DEF Step
  <2>2. Step(x) \in GlobStates(p, s)
    <3>1. a + 1 \in 1 .. k + 1 /\ b + 1 \in 1 .. l + 1 /\ c \in 0 .. k
          /\ d \in 0 .. l + 1 /\ c < a + 1 /\ d <= b + 1
      BY ONLY <1>a, <1>4
    <3> QED  BY <1>1, <2>1, <3>1, StatesAre
  <2>3. Left(p, s, Step(x)) = PassWeight(k, l, c, d, b + 1)
    <3>1. Step(x)[3] = c /\ Step(x)[4] = d /\ Step(x)[2] = b + 1
      BY <2>1
    <3> QED  BY <1>1, <3>1, Zenon DEF Left
  <2>4. PassWeight(k, l, c, d, b + 1) < PassWeight(k, l, c, d, b)
    <3>1. b + 1 \in Nat /\ b + 1 <= l + 1 /\ b < b + 1
      BY ONLY <1>4
    <3> QED  BY ONLY <1>a, <3>1, WeightFalls
  <2> QED  BY <1>2, <2>2, <2>3, <2>4
<1>5. ASSUME b <= l, a <= k
      PROVE  ToStar(x) \in GlobStates(p, s) /\ Left(p, s, ToStar(x)) < Left(p, s, x)
  <2>1. ToStar(x) = <<a + 1, b, a, b>>
    BY <1>1, Zenon DEF ToStar
  <2>2. ToStar(x) \in GlobStates(p, s)
    <3>1. a + 1 \in 1 .. k + 1 /\ b \in 1 .. l + 1 /\ a \in 0 .. k
          /\ b \in 0 .. l + 1 /\ a < a + 1 /\ b <= b
      BY ONLY <1>a, <1>5
    <3> QED  BY <1>1, <2>1, <3>1, StatesAre
  <2>3. Left(p, s, ToStar(x)) = PassWeight(k, l, a, b, b)
    <3>1. ToStar(x)[3] = a /\ ToStar(x)[4] = b /\ ToStar(x)[2] = b
      BY <2>1
    <3> QED  BY <1>1, <3>1, Zenon DEF Left
  <2>4. PassWeight(k, l, a, b, b) < PassWeight(k, l, c, d, b)
    BY ONLY <1>a, <1>5, WeightFalls
  <2> QED  BY <1>2, <2>2, <2>3, <2>4
<1>6. ASSUME b <= l, c # 0
      PROVE  Back(x) \in GlobStates(p, s) /\ Left(p, s, Back(x)) < Left(p, s, x)
  <2>1. Back(x) = <<c + 1, d + 1, c, d + 1>>
    BY <1>1, Zenon DEF Back
  <2>a. d + 1 <= l + 1 /\ d + 1 \in Nat /\ d < d + 1
    BY ONLY <1>a, <1>6
  <2>2. Back(x) \in GlobStates(p, s)
    <3>1. c + 1 \in 1 .. k + 1 /\ d + 1 \in 1 .. l + 1 /\ c \in 0 .. k
          /\ d + 1 \in 0 .. l + 1 /\ c < c + 1 /\ d + 1 <= d + 1
      BY ONLY <1>a, <2>a
    <3> QED  BY <1>1, <2>1, <3>1, StatesAre
  <2>3. Left(p, s, Back(x)) = PassWeight(k, l, c, d + 1, d + 1)
    <3>1. Back(x)[3] = c /\ Back(x)[4] = d + 1 /\ Back(x)[2] = d + 1
      BY <2>1
    <3> QED  BY <1>1, <3>1, Zenon DEF Left
  <2>4. PassWeight(k, l, c, d + 1, d + 1) < PassWeight(k, l, c, d, b)
    BY ONLY <1>a, <2>a, WeightFalls
  <2> QED  BY <1>2, <2>2, <2>3, <2>4
<1> QED  BY <1>1, <1>3, <1>4, <1>5, <1>6

GlobGoes(f, p, s, x) ==
    IF x[2] > Len(s) THEN \A i \in x[1] .. Len(p) : p[i] = "*"
    ELSE IF x[1] <= Len(p) /\ (p[x[1]] = "?" \/ SameLetter(p[x[1]], s[x[2]])) THEN f[Step(x)]
    ELSE IF x[1] <= Len(p) /\ p[x[1]] = "*" THEN f[ToStar(x)]
    ELSE x[3] # 0 /\ f[Back(x)]
IsGlob(f, p, s) == f = [x \in GlobStates(p, s) |-> GlobGoes(f, p, s, x)]

\* The pass is the value at its first state of a function defined by itself.
LEMMA GlobChooses == \A p, s : GlobMatchOne(p, s) = (CHOOSE f : IsGlob(f, p, s))[<<1, 1, 0, 0>>]
BY Zenon DEF GlobMatchOne, IsGlob, GlobGoes, Step, ToStar, Back

AlsoStar(n, v) == n # 0 /\ v

\* What is done in a state rests on states with less left to do.
LEMMA GoesSame ==
    ASSUME NEW p, NEW s, Len(p) \in Nat, Len(s) \in Nat, NEW x \in GlobStates(p, s), NEW f, NEW g,
           \A y \in GlobStates(p, s) : Left(p, s, y) < Left(p, s, x) => f[y] = g[y]
    PROVE  GlobGoes(f, p, s, x) = GlobGoes(g, p, s, x)
<1>1. x[1] \in Nat /\ x[2] \in Nat /\ x[3] \in Nat
  BY StatesAre
<1>2. CASE x[2] > Len(s)
  BY <1>2, Zenon DEF GlobGoes
<1>3. CASE ~ (x[2] > Len(s))
  <2>1. x[2] <= Len(s)
    BY <1>1, <1>3
  <2>2. x[1] <= Len(p) => f[Step(x)] = g[Step(x)] /\ f[ToStar(x)] = g[ToStar(x)]
    BY <2>1, LeftFalls
  <2>3. x[3] # 0 => f[Back(x)] = g[Back(x)]
    BY <2>1, LeftFalls
  <2>4. CASE x[1] <= Len(p) /\ (p[x[1]] = "?" \/ SameLetter(p[x[1]], s[x[2]]))
    <3>1. GlobGoes(f, p, s, x) = f[Step(x)] /\ GlobGoes(g, p, s, x) = g[Step(x)]
      BY <1>3, <2>4, Zenon DEF GlobGoes
    <3> QED  BY <2>2, <2>4, <3>1
  <2>5. CASE ~ (x[1] <= Len(p) /\ (p[x[1]] = "?" \/ SameLetter(p[x[1]], s[x[2]])))
    <3>1. CASE x[1] <= Len(p) /\ p[x[1]] = "*"
      <4>1. GlobGoes(f, p, s, x) = f[ToStar(x)]
        BY <1>3, <2>5, <3>1, Zenon DEF GlobGoes
      <4>2. GlobGoes(g, p, s, x) = g[ToStar(x)]
        BY <1>3, <2>5, <3>1, Zenon DEF GlobGoes
      <4> QED  BY <2>2, <3>1, <4>1, <4>2
    <3>2. CASE ~ (x[1] <= Len(p) /\ p[x[1]] = "*")
      <4>1. GlobGoes(f, p, s, x) = AlsoStar(x[3], f[Back(x)])
        BY <1>3, <2>5, <3>2, Zenon DEF GlobGoes, AlsoStar
      <4>2. GlobGoes(g, p, s, x) = AlsoStar(x[3], g[Back(x)])
        BY <1>3, <2>5, <3>2, Zenon DEF GlobGoes, AlsoStar
      <4>3. CASE x[3] # 0
        <5>1. f[Back(x)] = g[Back(x)]
          BY <2>3, <4>3
        <5>2. GlobGoes(f, p, s, x) = AlsoStar(x[3], g[Back(x)])
          BY ONLY <4>1, <5>1, Zenon
        <5> QED  BY ONLY <4>2, <5>2, Zenon
      <4>4. CASE x[3] = 0
        BY <4>1, <4>2, <4>4, Zenon DEF AlsoStar
      <4> QED  BY <4>3, <4>4
    <3> QED  BY <3>1, <3>2
  <2> QED  BY <2>4, <2>5
<1> QED  BY <1>2, <1>3

\* There is a limit to what is left to do.
LEMMA LeftBounded ==
    ASSUME NEW p, NEW s, Len(p) \in Nat, Len(s) \in Nat
    PROVE  \E n \in Nat : \A x \in GlobStates(p, s) : Left(p, s, x) < n
<1>1. PICK k \in Nat, l \in Nat : k = Len(p) /\ l = Len(s)
  OBVIOUS
<1>0. 0 \in Nat /\ 0 <= k /\ 0 <= l + 1
  OBVIOUS
<1>2. PassWeight(k, l, 0, 0, 0) \in Nat
  BY ONLY <1>0, WeightIsNat
<1>3. ASSUME NEW x \in GlobStates(p, s) PROVE Left(p, s, x) < PassWeight(k, l, 0, 0, 0)
  <2>0. Numbered(p, s, x)
    BY StateNumbers
  <2>1. PICK a \in Nat, b \in Nat, c \in Nat, d \in Nat, m \in Nat, n \in Nat :
            /\ a = x[1] /\ b = x[2] /\ c = x[3] /\ d = x[4] /\ m = Len(p) /\ n = Len(s)
            /\ a >= 1 /\ a <= m + 1 /\ b >= 1 /\ b <= n + 1 /\ c <= m /\ d <= n + 1 /\ c < a /\ d <= b
    BY <2>0 DEF Numbered
  <2>2. Left(p, s, x) = PassWeight(k, l, c, d, b)
    BY <1>1, <2>1, Zenon DEF Left
  <2>3. /\ 0 \in Nat /\ 0 <= k /\ 0 <= l + 1 /\ c <= k /\ d <= l + 1 /\ b <= l + 1
        /\ (0 < c \/ (0 = c /\ 0 < d) \/ (0 = c /\ 0 = d /\ 0 < b))
    BY <1>1, <2>1
  <2>4. PassWeight(k, l, c, d, b) < PassWeight(k, l, 0, 0, 0)
    BY ONLY <2>3, WeightFalls
  <2> QED  BY <2>2, <2>4
<1> QED  BY <1>2, <1>3

\* So there is such a function.
LEMMA GlobExists ==
    ASSUME NEW p, NEW s, Len(p) \in Nat, Len(s) \in Nat
    PROVE  \E f : IsGlob(f, p, s)
<1> DEFINE D == GlobStates(p, s)
           To(f, k) == \A x \in D : Left(p, s, x) < k => f[x] = GlobGoes(f, p, s, x)
           G == {k \in Nat : \E f : DOMAIN f = D /\ f = [x \in D |-> f[x]] /\ To(f, k)}
<1>0. \A x \in D : Left(p, s, x) \in Nat
  BY LeftFalls
<1>1. 0 \in G
  <2> DEFINE f == [x \in D |-> 0]
  <2> HIDE DEF D
  <2>1. DOMAIN f = D /\ f = [x \in D |-> f[x]]
    OBVIOUS
  <2>2. To(f, 0)
    <3> SUFFICES ASSUME NEW x \in D, Left(p, s, x) < 0 PROVE FALSE
      OBVIOUS
    <3>1. Left(p, s, x) \in Nat
      BY <1>0
    <3> QED  BY <3>1
  <2> HIDE DEF f
  <2> QED  BY <2>1, <2>2
<1>2. ASSUME NEW k \in Nat, k \in G PROVE k + 1 \in G
  <2>1. PICK g : DOMAIN g = D /\ g = [x \in D |-> g[x]] /\ To(g, k)
    BY <1>2
  <2> DEFINE f == [x \in D |-> IF Left(p, s, x) = k THEN GlobGoes(g, p, s, x) ELSE g[x]]
  <2>2. DOMAIN f = D /\ \A x \in D : f[x] = IF Left(p, s, x) = k THEN GlobGoes(g, p, s, x) ELSE g[x]
    OBVIOUS
  <2>3. f = [x \in D |-> f[x]]
    OBVIOUS
  <2> HIDE DEF f
  <2>4. ASSUME NEW x \in D, Left(p, s, x) < k + 1 PROVE f[x] = GlobGoes(f, p, s, x)
    <3>1. \A y \in D : Left(p, s, y) < Left(p, s, x) => f[y] = g[y]
      <4> SUFFICES ASSUME NEW y \in D, Left(p, s, y) < Left(p, s, x) PROVE f[y] = g[y]
        OBVIOUS
      <4>1. Left(p, s, y) # k
        BY <1>0, <2>4
      <4> QED  BY <2>2, <4>1
    <3>2. GlobGoes(f, p, s, x) = GlobGoes(g, p, s, x)
      BY <3>1, GoesSame
    <3>3. CASE Left(p, s, x) = k
      BY <2>2, <3>2, <3>3
    <3>4. CASE Left(p, s, x) # k
      <4>1. Left(p, s, x) < k
        BY <1>0, <2>4, <3>4
      <4>2. g[x] = GlobGoes(g, p, s, x)
        BY <2>1, <4>1
      <4> QED  BY <2>2, <3>2, <3>4, <4>2
    <3> QED  BY <3>3, <3>4
  <2>5. To(f, k + 1)
    BY <2>4
  <2> QED  BY <2>2, <2>3, <2>5
<1>3. Nat \subseteq G
  <2> HIDE DEF G
  <2> QED  BY <1>1, <1>2, SetInduction
<1>4. PICK n \in Nat : \A x \in D : Left(p, s, x) < n
  BY LeftBounded
<1>5. PICK f : f = [x \in D |-> f[x]] /\ To(f, n)
  BY <1>3
<1>6. \A x \in D : f[x] = GlobGoes(f, p, s, x)
  BY <1>4, <1>5
<1>7. f = [x \in D |-> GlobGoes(f, p, s, x)]
  <2>1. [x \in D |-> f[x]] = [x \in D |-> GlobGoes(f, p, s, x)]
    BY <1>6, Zenon
  <2> QED  BY <1>5, <2>1, Zenon
<1> QED  BY <1>7, Zenon DEF IsGlob

\* What the pass is told to do in every state.
LEMMA GlobIs ==
    ASSUME NEW p, NEW s, Len(p) \in Nat, Len(s) \in Nat
    PROVE  \E f : /\ \A x \in GlobStates(p, s) : f[x] = GlobGoes(f, p, s, x)
                  /\ GlobMatchOne(p, s) = f[<<1, 1, 0, 0>>]
<1> DEFINE f == CHOOSE g : IsGlob(g, p, s)
<1>1. IsGlob(f, p, s)
  BY GlobExists
<1>2. GlobMatchOne(p, s) = f[<<1, 1, 0, 0>>]
  BY GlobChooses, Zenon
<1> HIDE DEF f
<1>3. f = [x \in GlobStates(p, s) |-> GlobGoes(f, p, s, x)]
  BY <1>1, Zenon DEF IsGlob
<1>4. \A x \in GlobStates(p, s) : f[x] = GlobGoes(f, p, s, x)
  BY <1>3, Zenon
<1> QED  BY <1>2, <1>4

-----------------------------------------------------------------------------
(* The exclude list: the pass finds what the pattern stands for.           *)

\* No character of a name is a star, so none of the pattern's stars is taken
\* for one.
LEMMA StarUnlike ==
    ASSUME NEW d, d # "*" PROVE ~ Likes("*", d)
<1>1. Folded("*") = "*"
  BY DEF Folded, Lower, Range
<1>2. Folded(d) # "*"
  <2>1. CASE d \in Range(Lower)
    <3>1. PICK i \in DOMAIN Lower : Lower[i] = d
      BY <2>1 DEF Range
    <3> DEFINE m == CHOOSE e \in DOMAIN Lower : Lower[e] = d
    <3>2. m \in DOMAIN Lower
      BY <3>1
    <3>3. Folded(d) = Upper[m]
      BY <2>1, Zenon DEF Folded
    <3> HIDE DEF m
    <3>4. m \in {1, 2}
      BY <3>2 DEF Lower
    <3>5. Upper[m] = "A" \/ Upper[m] = "B"
      BY <3>4 DEF Upper
    <3> QED  BY <3>3, <3>5
  <2>2. CASE d \notin Range(Lower)
    <3>1. Folded(d) = d
      BY <2>2, Zenon DEF Folded
    <3> QED  BY <3>1
  <2> QED  BY <2>1, <2>2
<1> QED  BY <1>1, <1>2 DEF Likes, SameLetter

\* A place of the rest of a pattern lies in the name, or at its end.
LEMMA FitsIn ==
    ASSUME NEW f, NEW p, NEW s, Len(p) \in Nat, Len(s) \in Nat, Fits(f, p, s), NEW i \in 1 .. Len(p) + 1
    PROVE  f[i] \subseteq 1 .. Len(s) + 1
<1>1. CASE i = Len(p) + 1
  BY <1>1 DEF Fits
<1>2. CASE i \in 1 .. Len(p)
  <2>1. CASE p[i] = "*"
    <3>1. f[i] = {j \in 1 .. Len(s) + 1 : \E k \in f[i + 1] : j <= k}
      BY <1>2, <2>1, Zenon DEF Fits
    <3> QED  BY ONLY <3>1, Zenon
  <2>2. CASE p[i] # "*"
    <3>1. f[i] = {j \in 1 .. Len(s) : Likes(p[i], s[j]) /\ j + 1 \in f[i + 1]}
      BY <1>2, <2>2, Zenon DEF Fits
    <3> QED  BY <3>1
  <2> QED  BY <2>1, <2>2
<1> QED  BY <1>1, <1>2

\* Only stars fit at the end of a name.
LEMMA FitsEnd ==
    ASSUME NEW f, NEW p, NEW s, Len(p) \in Nat, Len(s) \in Nat, Fits(f, p, s)
    PROVE  \A i \in 1 .. Len(p) + 1 : Len(s) + 1 \in f[i] <=> \A j \in i .. Len(p) : p[j] = "*"
<1> DEFINE n == Len(p) + 1
           P(i) == Len(s) + 1 \in f[i] <=> \A j \in i .. Len(p) : p[j] = "*"
           G == {i \in 1 .. n : P(i)}
<1>1. ASSUME NEW i \in 1 .. n, \A j \in i + 1 .. n : j \in G PROVE i \in G
  <2>1. CASE i = n
    BY <2>1 DEF Fits
  <2>2. CASE i # n
    <3>1. i \in 1 .. Len(p) /\ i + 1 \in i + 1 .. n /\ i + 1 \in 1 .. n
      BY <2>2
    <3>2. P(i + 1)
      BY <1>1, <3>1
    <3>3. (\A j \in i .. Len(p) : p[j] = "*") <=> p[i] = "*" /\ \A j \in i + 1 .. Len(p) : p[j] = "*"
      <4>1. \A j : j \in i .. Len(p) <=> j = i \/ j \in i + 1 .. Len(p)
        BY <3>1
      <4> QED  BY <4>1, Zenon
    <3>4. f[i + 1] \subseteq 1 .. Len(s) + 1
      BY <3>1, FitsIn
    <3>5. CASE p[i] = "*"
      <4>1. f[i] = {j \in 1 .. Len(s) + 1 : \E k \in f[i + 1] : j <= k}
        BY <3>1, <3>5, Zenon DEF Fits
      <4>2. Len(s) + 1 \in f[i] <=> Len(s) + 1 \in f[i + 1]
        BY <3>4, <4>1
      <4> QED  BY <3>2, <3>3, <3>5, <4>2
    <3>6. CASE p[i] # "*"
      <4>1. f[i] = {j \in 1 .. Len(s) : Likes(p[i], s[j]) /\ j + 1 \in f[i + 1]}
        BY <3>1, <3>6, Zenon DEF Fits
      <4>2. Len(s) + 1 \notin f[i]
        BY <4>1
      <4> QED  BY <3>3, <3>6, <4>2
    <3> QED  BY <3>5, <3>6
  <2> QED  BY <2>1, <2>2
<1>2. n \in Nat
  OBVIOUS
<1>3. \A i \in 1 .. n : i \in G
  <2> HIDE DEF G, n
  <2> QED  BY ONLY <1>1, <1>2, DownInduction
<1> QED  BY <1>3

\* Without a star a pattern and a name go on together.
LEMMA FitsOn ==
    ASSUME NEW f, NEW p, NEW s, Len(p) \in Nat, Len(s) \in Nat, Fits(f, p, s),
           NEW a \in 1 .. Len(p) + 1, NEW b \in a .. Len(p) + 1, \A i \in a .. b - 1 : p[i] # "*",
           NEW k \in f[a]
    PROVE  k \in Nat /\ k + (b - a) \in f[b]
<1> DEFINE G == {m \in Nat : a + m <= b => k + m \in f[a + m]}
<1>0. k \in 1 .. Len(s) + 1
  BY FitsIn
<1>1. 0 \in G
  BY <1>0
<1>2. ASSUME NEW m \in Nat, m \in G PROVE m + 1 \in G
  <2> SUFFICES ASSUME a + (m + 1) <= b PROVE k + (m + 1) \in f[a + (m + 1)]
    OBVIOUS
  <2> DEFINE i == a + m
  <2>1. k + m \in f[i] /\ i \in a .. b - 1 /\ i \in 1 .. Len(p) /\ i + 1 = a + (m + 1) /\ (k + m) + 1 = k + (m + 1)
    BY <1>0, <1>2
  <2> HIDE DEF i
  <2>2. f[i] = {j \in 1 .. Len(s) : Likes(p[i], s[j]) /\ j + 1 \in f[i + 1]}
    BY <2>1, Zenon DEF Fits
  <2>3. (k + m) + 1 \in f[i + 1]
    BY <2>1, <2>2, Zenon
  <2> QED  BY <2>1, <2>3
<1>3. Nat \subseteq G
  <2> HIDE DEF G
  <2> QED  BY <1>1, <1>2, SetInduction
<1>4. b - a \in Nat /\ a + (b - a) = b
  OBVIOUS
<1>5. b - a \in G
  <2> HIDE DEF G
  <2> QED  BY ONLY <1>3, <1>4
<1>6. a + (b - a) <= b => k + (b - a) \in f[a + (b - a)]
  BY <1>5, Zenon
<1>7. a + (b - a) <= b
  OBVIOUS
<1>8. k \in Nat
  BY <1>0
<1>9. k + (b - a) \in f[b]
  <2> DEFINE e == a + (b - a)
  <2>1. e = b /\ (e <= b => k + (b - a) \in f[e]) /\ e <= b
    BY <1>4, <1>6, <1>7, Zenon
  <2> HIDE DEF e
  <2> QED  BY <2>1, Zenon
<1> QED  BY <1>8, <1>9

\* Between the last star and where the pass is there is no other, and as much
\* of the pattern as of the name.
Tried(p, x) ==
    x[3] # 0 => /\ p[x[3]] = "*"
                /\ x[1] - x[3] - 1 = x[2] - x[4]
                /\ x[4] # 0
                /\ \A i \in x[3] + 1 .. x[1] - 1 : p[i] # "*"

\* What is left to try: on from here, or from the last star a character on.
Hopes(f, p, s, x) ==
    \/ x[2] \in f[x[1]]
    \/ x[3] # 0 /\ \E k \in x[4] + 1 .. Len(s) + 1 : k \in f[x[3] + 1]

\* Where the last star leads, this leads as well, further on.
LEMMA StarLeadsOn ==
    ASSUME NEW f, NEW p, NEW s, Len(p) \in Nat, Len(s) \in Nat, Fits(f, p, s),
           NEW x \in GlobStates(p, s), Tried(p, x), x[3] # 0,
           NEW k \in x[4] + 1 .. Len(s) + 1, k \in f[x[3] + 1]
    PROVE  \E e \in f[x[1]] : e \in Nat /\ e > x[2]
<1>0. Numbered(p, s, x)
  BY StateNumbers
<1>1. PICK a \in Nat, b \in Nat, c \in Nat, d \in Nat, n \in Nat, l \in Nat :
          /\ a = x[1] /\ b = x[2] /\ c = x[3] /\ d = x[4] /\ n = Len(p) /\ l = Len(s)
          /\ a >= 1 /\ a <= n + 1 /\ b >= 1 /\ b <= l + 1 /\ c <= n /\ d <= l + 1 /\ c < a /\ d <= b
  BY <1>0 DEF Numbered
<1>2. a - c - 1 = b - d /\ \A i \in c + 1 .. a - 1 : p[i] # "*"
  BY <1>1, Zenon DEF Tried
<1>3. k \in Nat /\ k > d /\ k \in f[c + 1]
  BY <1>1
<1>4. c + 1 \in 1 .. n + 1 /\ a \in c + 1 .. n + 1
  <2>1. a \in Nat /\ c \in Nat /\ n \in Nat /\ c < a /\ a <= n + 1 /\ c <= n
    BY <1>1, Zenon
  <2> QED  BY ONLY <2>1
<1>5. c + 1 \in 1 .. Len(p) + 1 /\ a \in c + 1 .. Len(p) + 1
  BY <1>1, <1>4
<1>6. k + (a - (c + 1)) \in f[a]
  BY ONLY <1>2, <1>3, <1>5, FitsOn, Fits(f, p, s), Len(p) \in Nat, Len(s) \in Nat
<1>7. k + (a - (c + 1)) \in Nat /\ k + (a - (c + 1)) > b
  <2>1. c < a /\ d <= b /\ a - c - 1 = b - d /\ k \in Nat /\ k > d
    BY <1>1, <1>2, <1>3, Zenon
  <2> QED  BY ONLY <2>1
<1> QED  BY <1>1, <1>6, <1>7

\* The name has ended: only stars may be left.
LEMMA PassEnds ==
    ASSUME NEW f, NEW p, NEW s, Len(p) \in Nat, Len(s) \in Nat, Fits(f, p, s),
           NEW x \in GlobStates(p, s), Tried(p, x), x[2] > Len(s)
    PROVE  Hopes(f, p, s, x) <=> \A i \in x[1] .. Len(p) : p[i] = "*"
<1>1. x[1] \in 1 .. Len(p) + 1 /\ x[2] = Len(s) + 1
  BY StatesAre
<1>2. x[2] \in f[x[1]] <=> \A i \in x[1] .. Len(p) : p[i] = "*"
  BY <1>1, FitsEnd
<1>3. ASSUME x[3] # 0, NEW k \in x[4] + 1 .. Len(s) + 1, k \in f[x[3] + 1] PROVE FALSE
  <2>1. PICK e \in f[x[1]] : e \in Nat /\ e > x[2]
    BY <1>3, StarLeadsOn
  <2>2. e \in 1 .. Len(s) + 1
    BY <1>1, FitsIn
  <2> QED  BY <1>1, <2>1, <2>2
<1> QED  BY <1>2, <1>3, Zenon DEF Hopes

\* A character is taken.
LEMMA PassSteps ==
    ASSUME NEW f, NEW p, NEW s, Len(p) \in Nat, Len(s) \in Nat, Fits(f, p, s),
           \A i \in 1 .. Len(s) : s[i] # "*",
           NEW x \in GlobStates(p, s), Tried(p, x), x[2] <= Len(s), x[1] <= Len(p), Likes(p[x[1]], s[x[2]])
    PROVE  Tried(p, Step(x)) /\ (Hopes(f, p, s, x) <=> Hopes(f, p, s, Step(x)))
<1>0. Numbered(p, s, x)
  BY StateNumbers
<1>1. PICK a \in Nat, b \in Nat, c \in Nat, d \in Nat, n \in Nat, l \in Nat :
          /\ a = x[1] /\ b = x[2] /\ c = x[3] /\ d = x[4] /\ n = Len(p) /\ l = Len(s)
          /\ a >= 1 /\ a <= n + 1 /\ b >= 1 /\ b <= l + 1 /\ c <= n /\ d <= l + 1 /\ c < a /\ d <= b
  BY <1>0 DEF Numbered
<1>2. a \in 1 .. Len(p) /\ b \in 1 .. Len(s) /\ Likes(p[a], s[b])
  BY <1>1
<1>3. p[a] # "*"
  BY <1>2, StarUnlike
<1>4. f[a] = {j \in 1 .. Len(s) : Likes(p[a], s[j]) /\ j + 1 \in f[a + 1]}
  BY <1>2, <1>3, Zenon DEF Fits
<1>5. b \in f[a] <=> b + 1 \in f[a + 1]
  BY <1>2, <1>4, Zenon
<1>6. Step(x)[1] = a + 1 /\ Step(x)[2] = b + 1 /\ Step(x)[3] = c /\ Step(x)[4] = d
  BY <1>1 DEF Step
<1>7. Hopes(f, p, s, x) <=> Hopes(f, p, s, Step(x))
  BY <1>1, <1>5, <1>6, Zenon DEF Hopes
<1>8. ASSUME c # 0
      PROVE  /\ p[c] = "*" /\ (a + 1) - c - 1 = (b + 1) - d /\ d # 0
             /\ \A i \in c + 1 .. (a + 1) - 1 : p[i] # "*"
  <2>1. p[c] = "*" /\ a - c - 1 = b - d /\ d # 0 /\ \A i \in c + 1 .. a - 1 : p[i] # "*"
    BY <1>1, <1>8, Zenon DEF Tried
  <2>2. (a + 1) - c - 1 = (b + 1) - d
    BY ONLY <2>1
  <2>3. \A i \in c + 1 .. (a + 1) - 1 : i \in c + 1 .. a - 1 \/ i = a
    OBVIOUS
  <2> QED  BY <1>3, <2>1, <2>2, <2>3
<1>9. Tried(p, Step(x))
  BY <1>6, <1>8, Zenon DEF Tried
<1> QED  BY <1>7, <1>9

\* A star is met.
LEMMA PassStars ==
    ASSUME NEW f, NEW p, NEW s, Len(p) \in Nat, Len(s) \in Nat, Fits(f, p, s),
           NEW x \in GlobStates(p, s), Tried(p, x), x[2] <= Len(s), x[1] <= Len(p), p[x[1]] = "*"
    PROVE  Tried(p, ToStar(x)) /\ (Hopes(f, p, s, x) <=> Hopes(f, p, s, ToStar(x)))
<1>0. Numbered(p, s, x)
  BY StateNumbers
<1>1. PICK a \in Nat, b \in Nat, c \in Nat, d \in Nat, n \in Nat, l \in Nat :
          /\ a = x[1] /\ b = x[2] /\ c = x[3] /\ d = x[4] /\ n = Len(p) /\ l = Len(s)
          /\ a >= 1 /\ a <= n + 1 /\ b >= 1 /\ b <= l + 1 /\ c <= n /\ d <= l + 1 /\ c < a /\ d <= b
  BY <1>0 DEF Numbered
<1>2. a \in 1 .. Len(p) /\ a + 1 \in 1 .. Len(p) + 1 /\ b \in 1 .. Len(s) + 1 /\ p[a] = "*"
  BY <1>1
<1>3. f[a] = {j \in 1 .. Len(s) + 1 : \E k \in f[a + 1] : j <= k}
  BY <1>2, Zenon DEF Fits
<1>4. f[a + 1] \subseteq 1 .. Len(s) + 1
  BY <1>2, FitsIn
<1>5. ToStar(x)[1] = a + 1 /\ ToStar(x)[2] = b /\ ToStar(x)[3] = a /\ ToStar(x)[4] = b
  BY <1>1 DEF ToStar
<1>6. Hopes(f, p, s, x) <=> b \in f[a]
  <2>1. ASSUME x[3] # 0, NEW k \in x[4] + 1 .. Len(s) + 1, k \in f[x[3] + 1] PROVE b \in f[a]
    <3>1. PICK e \in f[x[1]] : e \in Nat /\ e > x[2]
      BY <2>1, StarLeadsOn
    <3>2. e \in f[a] /\ e > b
      BY <1>1, <3>1
    <3>3. PICK k2 \in f[a + 1] : e <= k2
      BY <1>3, <3>2
    <3>4. b <= k2
      BY <1>4, <3>1, <3>2, <3>3
    <3> QED  BY <1>2, <1>3, <3>4
  <2> QED  BY <1>1, <2>1, Zenon DEF Hopes
<1>7. Hopes(f, p, s, ToStar(x)) <=> b \in f[a + 1] \/ \E k \in b + 1 .. Len(s) + 1 : k \in f[a + 1]
  <2>1. a # 0
    BY <1>1
  <2> QED  BY <1>5, <2>1, Zenon DEF Hopes
<1>8. b \in f[a] <=> b \in f[a + 1] \/ \E k \in b + 1 .. Len(s) + 1 : k \in f[a + 1]
  <2>1. ASSUME b \in f[a] PROVE b \in f[a + 1] \/ \E k \in b + 1 .. Len(s) + 1 : k \in f[a + 1]
    <3>1. PICK k \in f[a + 1] : b <= k
      BY <1>3, <2>1
    <3>2. k = b \/ k \in b + 1 .. Len(s) + 1
      BY <1>2, <1>4, <3>1
    <3> QED  BY <3>1, <3>2
  <2>2. ASSUME b \in f[a + 1] PROVE b \in f[a]
    BY <1>2, <1>3, <2>2
  <2>3. ASSUME NEW k \in b + 1 .. Len(s) + 1, k \in f[a + 1] PROVE b \in f[a]
    <3>1. b <= k
      BY <1>2
    <3> QED  BY <1>2, <1>3, <2>3, <3>1
  <2> QED  BY <2>1, <2>2, <2>3
<1>9. Tried(p, ToStar(x))
  <2>1. (a + 1) - a - 1 = b - b /\ b # 0 /\ a + 1 .. (a + 1) - 1 = {}
    <3>1. b # 0
      BY <1>1
    <3>2. (a + 1) - a - 1 = b - b /\ a + 1 .. (a + 1) - 1 = {}
      BY ONLY a \in Nat, b \in Nat
    <3> QED  BY ONLY <3>1, <3>2
  <2>2. \A i \in a + 1 .. (a + 1) - 1 : p[i] # "*"
    BY ONLY <2>1, Zenon
  <2> QED  BY <1>2, <1>5, <2>1, <2>2, Zenon DEF Tried
<1> QED  BY <1>6, <1>7, <1>8, <1>9

\* Nothing fits here: back to the last star, or no more.
LEMMA PassTurns ==
    ASSUME NEW f, NEW p, NEW s, Len(p) \in Nat, Len(s) \in Nat, Fits(f, p, s),
           NEW x \in GlobStates(p, s), Tried(p, x), x[2] <= Len(s),
           x[1] <= Len(p) => p[x[1]] # "*" /\ ~ Likes(p[x[1]], s[x[2]])
    PROVE  /\ x[3] = 0 => ~ Hopes(f, p, s, x)
           /\ x[3] # 0 => Tried(p, Back(x)) /\ (Hopes(f, p, s, x) <=> Hopes(f, p, s, Back(x)))
<1>0. Numbered(p, s, x)
  BY StateNumbers
<1>1. PICK a \in Nat, b \in Nat, c \in Nat, d \in Nat, n \in Nat, l \in Nat :
          /\ a = x[1] /\ b = x[2] /\ c = x[3] /\ d = x[4] /\ n = Len(p) /\ l = Len(s)
          /\ a >= 1 /\ a <= n + 1 /\ b >= 1 /\ b <= l + 1 /\ c <= n /\ d <= l + 1 /\ c < a /\ d <= b
  BY <1>0 DEF Numbered
<1>2. b \notin f[a]
  <2>1. CASE a <= n
    <3>1. a \in 1 .. Len(p) /\ p[a] # "*" /\ ~ Likes(p[a], s[b])
      BY <1>1, <2>1
    <3>2. f[a] = {j \in 1 .. Len(s) : Likes(p[a], s[j]) /\ j + 1 \in f[a + 1]}
      BY <3>1, Zenon DEF Fits
    <3> QED  BY <3>1, <3>2, Zenon
  <2>2. CASE a = n + 1
    <3>1. f[a] = {Len(s) + 1}
      BY <1>1, <2>2, Zenon DEF Fits
    <3>2. b <= Len(s)
      BY <1>1
    <3> QED  BY <3>1, <3>2
  <2> QED  BY <1>1, <2>1, <2>2
<1>3. Hopes(f, p, s, x) <=> c # 0 /\ \E k \in d + 1 .. Len(s) + 1 : k \in f[c + 1]
  BY <1>1, <1>2, Zenon DEF Hopes
<1>4. ASSUME c # 0 PROVE Tried(p, Back(x)) /\ (Hopes(f, p, s, x) <=> Hopes(f, p, s, Back(x)))
  <2>1. Back(x)[1] = c + 1 /\ Back(x)[2] = d + 1 /\ Back(x)[3] = c /\ Back(x)[4] = d + 1
    BY <1>1 DEF Back
  <2>2. p[c] = "*"
    BY <1>1, <1>4, Zenon DEF Tried
  <2>3. p[c] = "*" /\ (c + 1) - c - 1 = (d + 1) - (d + 1) /\ d + 1 # 0
        /\ \A i \in c + 1 .. (c + 1) - 1 : p[i] # "*"
    <3>1. (c + 1) - c - 1 = 0 /\ (d + 1) - (d + 1) = 0 /\ d + 1 # 0 /\ c + 1 .. (c + 1) - 1 = {}
      BY ONLY c \in Nat, d \in Nat
    <3> QED  BY ONLY <2>2, <3>1
  <2>4. Tried(p, Back(x))
    BY <2>1, <2>3, Zenon DEF Tried
  <2>5. Hopes(f, p, s, Back(x)) <=> d + 1 \in f[c + 1] \/ \E k \in (d + 1) + 1 .. Len(s) + 1 : k \in f[c + 1]
    BY <1>4, <2>1, Zenon DEF Hopes
  <2>6. \A k : k \in d + 1 .. Len(s) + 1 <=> k = d + 1 \/ k \in (d + 1) + 1 .. Len(s) + 1
    <3>1. d + 1 <= Len(s) + 1
      BY <1>1
    <3> QED  BY <3>1
  <2> QED  BY <1>3, <1>4, <2>4, <2>5, <2>6, Zenon
<1> QED  BY <1>1, <1>3, <1>4

\* The pass succeeds where there is hope.
LEMMA PassHopes ==
    ASSUME NEW f, NEW g, NEW p, NEW s, Len(p) \in Nat, Len(s) \in Nat, Fits(f, p, s),
           \A i \in 1 .. Len(s) : s[i] # "*",
           \A x \in GlobStates(p, s) : g[x] = GlobGoes(g, p, s, x)
    PROVE  \A x \in GlobStates(p, s) : Tried(p, x) => (g[x] <=> Hopes(f, p, s, x))
<1> DEFINE Judged(x) == Tried(p, x) => (g[x] <=> Hopes(f, p, s, x))
           G == {n \in Nat : \A x \in GlobStates(p, s) : Left(p, s, x) < n => Judged(x)}
<1>1. 0 \in G
  <2> SUFFICES ASSUME NEW x \in GlobStates(p, s), Left(p, s, x) < 0 PROVE FALSE
    OBVIOUS
  <2>1. Left(p, s, x) \in Nat
    BY LeftFalls
  <2> QED  BY <2>1
<1>2. ASSUME NEW n \in Nat, n \in G PROVE n + 1 \in G
  <2> SUFFICES ASSUME NEW x \in GlobStates(p, s), Left(p, s, x) < n + 1, Tried(p, x)
               PROVE  g[x] <=> Hopes(f, p, s, x)
    OBVIOUS
  <2>0. x[1] \in Nat /\ x[2] \in Nat /\ x[3] \in Nat /\ x[1] \in 1 .. Len(p) + 1 /\ x[2] \in 1 .. Len(s) + 1
    BY StatesAre
  <2>1. ASSUME NEW y \in GlobStates(p, s), Left(p, s, y) < Left(p, s, x), Tried(p, y)
        PROVE  g[y] <=> Hopes(f, p, s, y)
    <3>1. Left(p, s, y) \in Nat /\ Left(p, s, x) \in Nat
      BY LeftFalls
    <3>2. Left(p, s, y) < n
      BY <2>1, <3>1
    <3> QED  BY <1>2, <2>1, <3>2
  <2>2. g[x] = GlobGoes(g, p, s, x)
    OBVIOUS
  <2>3. CASE x[2] > Len(s)
    <3>1. g[x] <=> \A i \in x[1] .. Len(p) : p[i] = "*"
      BY <2>2, <2>3, Zenon DEF GlobGoes
    <3> QED  BY <2>3, <3>1, PassEnds
  <2>4. CASE ~ (x[2] > Len(s))
    <3>0. x[2] <= Len(s)
      BY <2>0, <2>4
    <3>1. CASE x[1] <= Len(p) /\ Likes(p[x[1]], s[x[2]])
      <4>1. g[x] = g[Step(x)]
        BY <2>2, <2>4, <3>1, Zenon DEF GlobGoes, Likes
      <4>2. Step(x) \in GlobStates(p, s) /\ Left(p, s, Step(x)) < Left(p, s, x)
        BY <3>0, <3>1, LeftFalls
      <4>3. Tried(p, Step(x)) /\ (Hopes(f, p, s, x) <=> Hopes(f, p, s, Step(x)))
        BY <3>0, <3>1, PassSteps
      <4>4. g[Step(x)] <=> Hopes(f, p, s, Step(x))
        BY <2>1, <4>2, <4>3
      <4> QED  BY <4>1, <4>3, <4>4, Zenon
    <3>2. CASE ~ (x[1] <= Len(p) /\ Likes(p[x[1]], s[x[2]])) /\ x[1] <= Len(p) /\ p[x[1]] = "*"
      <4>1. g[x] = g[ToStar(x)]
        BY <2>2, <2>4, <3>2, Zenon DEF GlobGoes, Likes
      <4>2. ToStar(x) \in GlobStates(p, s) /\ Left(p, s, ToStar(x)) < Left(p, s, x)
        BY <3>0, <3>2, LeftFalls
      <4>3. Tried(p, ToStar(x)) /\ (Hopes(f, p, s, x) <=> Hopes(f, p, s, ToStar(x)))
        BY <3>0, <3>2, PassStars
      <4>4. g[ToStar(x)] <=> Hopes(f, p, s, ToStar(x))
        BY <2>1, <4>2, <4>3
      <4> QED  BY <4>1, <4>3, <4>4, Zenon
    <3>3. CASE ~ (x[1] <= Len(p) /\ Likes(p[x[1]], s[x[2]])) /\ ~ (x[1] <= Len(p) /\ p[x[1]] = "*")
      <4>1. g[x] <=> x[3] # 0 /\ g[Back(x)]
        BY <2>2, <2>4, <3>3, Zenon DEF GlobGoes, Likes
      <4>2. /\ x[3] = 0 => ~ Hopes(f, p, s, x)
            /\ x[3] # 0 => Tried(p, Back(x)) /\ (Hopes(f, p, s, x) <=> Hopes(f, p, s, Back(x)))
        BY <3>0, <3>3, PassTurns
      <4>3. CASE x[3] = 0
        BY <4>1, <4>2, <4>3, Zenon
      <4>4. CASE x[3] # 0
        <5>1. Back(x) \in GlobStates(p, s) /\ Left(p, s, Back(x)) < Left(p, s, x)
          BY <3>0, <4>4, LeftFalls
        <5>2. g[Back(x)] <=> Hopes(f, p, s, Back(x))
          BY <2>1, <4>2, <4>4, <5>1
        <5> QED  BY <4>1, <4>2, <4>4, <5>2, Zenon
      <4> QED  BY <4>3, <4>4
    <3> QED  BY <3>1, <3>2, <3>3
  <2> QED  BY <2>3, <2>4
<1>3. Nat \subseteq G
  <2> HIDE DEF G
  <2> QED  BY <1>1, <1>2, SetInduction
<1>4. PICK n \in Nat : \A x \in GlobStates(p, s) : Left(p, s, x) < n
  BY LeftBounded
<1> QED  BY <1>3, <1>4

\* glob_match_one(): a pattern's component is matched by the names it stands for.
LEMMA GlobStands ==
    ASSUME NEW p, NEW s, Len(p) \in Nat, Len(s) \in Nat, \A i \in 1 .. Len(s) : s[i] # "*"
    PROVE  GlobMatchOne(p, s) <=> Stands(p, s)
<1> DEFINE x == <<1, 1, 0, 0>>
<1>1. PICK f : Fits(f, p, s) /\ (Stands(p, s) <=> 1 \in f[1])
  BY StandsIs
<1>2. PICK g : /\ \A y \in GlobStates(p, s) : g[y] = GlobGoes(g, p, s, y)
               /\ GlobMatchOne(p, s) = g[x]
  BY GlobIs
<1>3. x \in GlobStates(p, s)
  BY StatesAre
<1>4. x[1] = 1 /\ x[2] = 1 /\ x[3] = 0
  OBVIOUS
<1> HIDE DEF x
<1>5. Tried(p, x) /\ (Hopes(f, p, s, x) <=> 1 \in f[1])
  BY <1>4, Zenon DEF Tried, Hopes
<1>6. g[x] <=> Hopes(f, p, s, x)
  BY <1>1, <1>2, <1>3, <1>5, PassHopes
<1> QED  BY <1>1, <1>2, <1>5, <1>6, Zenon

-----------------------------------------------------------------------------
(* The exclude list: the components of a text.                             *)

\* next_component(): the next '/', or the end.
LEMMA CutsAt ==
    ASSUME NEW t, Len(t) \in Nat, NEW i \in 1 .. Len(t) + 1
    PROVE  /\ NextCut(t, i) \in i .. Len(t) + 1
           /\ \A j \in i .. NextCut(t, i) - 1 : t[j] # "/"
           /\ NextCut(t, i) <= Len(t) => t[NextCut(t, i)] = "/"
<1> DEFINE A == {j \in i .. Len(t) : t[j] = "/"} \cup {Len(t) + 1}
           c == NextCut(t, i)
<1>1. A \subseteq Nat /\ A # {}
  OBVIOUS
<1>2. c = Min(A)
  BY Zenon DEF NextCut
<1>3. c \in A /\ \A x \in A : c <= x
  <2> HIDE DEF A, c
  <2> QED  BY <1>1, <1>2, Least
<1> HIDE DEF c
<1>4. c \in i .. Len(t) + 1 /\ (c <= Len(t) => t[c] = "/")
  BY <1>3
<1>5. ASSUME NEW j \in i .. c - 1 PROVE t[j] # "/"
  <2>1. j \in i .. Len(t) /\ ~ (c <= j)
    BY <1>4
  <2> QED  BY <1>3, <2>1
<1> QED  BY <1>4, <1>5 DEF c

\* There is no other place like it.
LEMMA CutIs ==
    ASSUME NEW t, Len(t) \in Nat, NEW i \in 1 .. Len(t) + 1, NEW c \in i .. Len(t) + 1,
           \A j \in i .. c - 1 : t[j] # "/", c <= Len(t) => t[c] = "/"
    PROVE  NextCut(t, i) = c
<1>1. PICK d : d = NextCut(t, i)
  OBVIOUS
<1>2. d \in i .. Len(t) + 1 /\ (\A j \in i .. d - 1 : t[j] # "/") /\ (d <= Len(t) => t[d] = "/")
  BY <1>1, CutsAt
<1>3. ~ (c < d)
  <2>1. c < d => c \in i .. d - 1 /\ c <= Len(t)
    BY <1>2
  <2> QED  BY <1>2, <2>1
<1>4. ~ (d < c)
  <2>1. d < c => d \in i .. c - 1 /\ d <= Len(t)
    BY <1>2
  <2> QED  BY <1>2, <2>1
<1> QED  BY <1>1, <1>2, <1>3, <1>4

\* The characters of a component.
LEMMA RunIs ==
    ASSUME NEW S, NEW t \in Seq(S), NEW i \in 1 .. Len(t) + 1, NEW c \in i .. Len(t) + 1
    PROVE  /\ SubSeq(t, i, c - 1) \in Seq(S) /\ Len(SubSeq(t, i, c - 1)) = c - i
           /\ \A k \in 1 .. c - i : SubSeq(t, i, c - 1)[k] = t[i + k - 1]
OBVIOUS

\* Two sequences with the same items.
LEMMA SameRow ==
    ASSUME NEW S, NEW T, NEW u \in Seq(S), NEW v \in Seq(T), Len(u) = Len(v),
           \A k \in 1 .. Len(u) : u[k] = v[k]
    PROVE  u = v
<1>1. u = [k \in 1 .. Len(u) |-> u[k]] /\ v = [k \in 1 .. Len(v) |-> v[k]]
  OBVIOUS
<1> QED  BY <1>1

\* A sequence with an item put in front.
LEMMA PutFirst ==
    ASSUME NEW S, NEW a \in S, NEW m \in Seq(S)
    PROVE  /\ <<a>> \o m \in Seq(S) /\ Len(<<a>> \o m) = 1 + Len(m)
           /\ (<<a>> \o m)[1] = a
           /\ \A k \in 1 .. Len(m) : (<<a>> \o m)[k + 1] = m[k]
OBVIOUS

CompAt(f, t, i) ==
    <<SubSeq(t, i, NextCut(t, i) - 1)>> \o (IF NextCut(t, i) > Len(t) THEN <<>> ELSE f[NextCut(t, i) + 1])
IsComp(f, t) == f = [i \in 1 .. Len(t) + 1 |-> CompAt(f, t, i)]

\* The components are the value at 1 of a function defined by itself.
LEMMA CompChooses == \A t : Components(t) = (CHOOSE f : IsComp(f, t))[1]
BY Zenon DEF Components, IsComp, CompAt

\* The components from a place on rest on those from later places.
LEMMA CompSame ==
    ASSUME NEW t, Len(t) \in Nat, NEW i \in 1 .. Len(t) + 1, NEW f, NEW g,
           \A j \in i + 1 .. Len(t) + 1 : f[j] = g[j]
    PROVE  CompAt(f, t, i) = CompAt(g, t, i)
<1>1. CASE NextCut(t, i) > Len(t)
  BY <1>1, Zenon DEF CompAt
<1>2. CASE ~ (NextCut(t, i) > Len(t))
  <2>1. NextCut(t, i) + 1 \in i + 1 .. Len(t) + 1
    BY <1>2, CutsAt
  <2>2. f[NextCut(t, i) + 1] = g[NextCut(t, i) + 1]
    BY <2>1
  <2> QED  BY <1>2, <2>2, Zenon DEF CompAt
<1> QED  BY <1>1, <1>2

\* So there is such a function.
LEMMA CompExists ==
    ASSUME NEW t, Len(t) \in Nat
    PROVE  \E f : IsComp(f, t)
<1> DEFINE n == Len(t) + 1
           To(f, k) == \A i \in 1 .. n : i > n - k => f[i] = CompAt(f, t, i)
           G == {k \in Nat : \E f : DOMAIN f = 1 .. n /\ f = [i \in 1 .. n |-> f[i]] /\ To(f, k)}
<1>1. 0 \in G
  <2> DEFINE f == [i \in 1 .. n |-> 0]
  <2>1. DOMAIN f = 1 .. n /\ f = [i \in 1 .. n |-> f[i]] /\ To(f, 0)
    OBVIOUS
  <2> QED  BY <2>1
<1>2. ASSUME NEW k \in Nat, k \in G PROVE k + 1 \in G
  <2>1. PICK g : DOMAIN g = 1 .. n /\ g = [i \in 1 .. n |-> g[i]] /\ To(g, k)
    BY <1>2
  <2> DEFINE f == [i \in 1 .. n |-> IF i = n - k THEN CompAt(g, t, i) ELSE g[i]]
  <2>2. DOMAIN f = 1 .. n /\ \A i \in 1 .. n : f[i] = IF i = n - k THEN CompAt(g, t, i) ELSE g[i]
    OBVIOUS
  <2>3. f = [i \in 1 .. n |-> f[i]]
    OBVIOUS
  <2> HIDE DEF f
  <2>4. ASSUME NEW i \in 1 .. n, i > n - (k + 1) PROVE f[i] = CompAt(f, t, i)
    <3>1. \A j \in i + 1 .. n : f[j] = g[j]
      BY <2>2, <2>4
    <3>2. CompAt(f, t, i) = CompAt(g, t, i)
      BY <3>1, CompSame
    <3>3. CASE i = n - k
      BY <2>2, <3>2, <3>3
    <3>4. CASE i # n - k
      <4>1. i > n - k
        BY <2>4, <3>4
      <4>2. g[i] = CompAt(g, t, i)
        BY <2>1, <4>1
      <4> QED  BY <2>2, <3>2, <3>4, <4>2
    <3> QED  BY <3>3, <3>4
  <2>5. To(f, k + 1)
    BY <2>4
  <2> QED  BY <2>2, <2>3, <2>5
<1>3. Nat \subseteq G
  <2> HIDE DEF G
  <2> QED  BY <1>1, <1>2, SetInduction
<1>4. n \in Nat
  OBVIOUS
<1>5. PICK f : f = [i \in 1 .. n |-> f[i]] /\ To(f, n)
  BY <1>3, <1>4
<1>6. \A i \in 1 .. n : f[i] = CompAt(f, t, i)
  BY <1>5
<1>7. f = [i \in 1 .. n |-> CompAt(f, t, i)]
  <2>1. [i \in 1 .. n |-> f[i]] = [i \in 1 .. n |-> CompAt(f, t, i)]
    BY <1>6, Zenon
  <2> QED  BY <1>5, <2>1, Zenon
<1> QED  BY <1>7, Zenon DEF IsComp

\* The components from a place on.
CutsUp(f, t) ==
    \A i \in 1 .. Len(t) + 1 :
        /\ NextCut(t, i) > Len(t) => f[i] = <<SubSeq(t, i, Len(t))>>
        /\ NextCut(t, i) <= Len(t) => f[i] = <<SubSeq(t, i, NextCut(t, i) - 1)>> \o f[NextCut(t, i) + 1]

\* So what the components are can be said place by place.
LEMMA CompIs ==
    ASSUME NEW t, Len(t) \in Nat
    PROVE  \E f : CutsUp(f, t) /\ Components(t) = f[1]
<1> DEFINE f == CHOOSE g : IsComp(g, t)
<1>1. IsComp(f, t)
  BY CompExists
<1>2. Components(t) = f[1]
  BY CompChooses, Zenon
<1> HIDE DEF f
<1>3. f = [i \in 1 .. Len(t) + 1 |-> CompAt(f, t, i)]
  BY <1>1, Zenon DEF IsComp
<1>4. \A i \in 1 .. Len(t) + 1 : f[i] = CompAt(f, t, i)
  BY <1>3, Zenon
<1>5. ASSUME NEW i \in 1 .. Len(t) + 1, NextCut(t, i) > Len(t) PROVE f[i] = <<SubSeq(t, i, Len(t))>>
  <2>1. NextCut(t, i) - 1 = Len(t)
    BY <1>5, CutsAt
  <2>2. f[i] = <<SubSeq(t, i, Len(t))>> \o <<>>
    BY <1>4, <1>5, <2>1, Zenon DEF CompAt
  <2>3. ASSUME NEW u PROVE <<u>> \o <<>> = <<u>>
    OBVIOUS
  <2> QED  BY <2>2, <2>3, Zenon
<1>6. ASSUME NEW i \in 1 .. Len(t) + 1, NextCut(t, i) <= Len(t)
      PROVE  f[i] = <<SubSeq(t, i, NextCut(t, i) - 1)>> \o f[NextCut(t, i) + 1]
  <2>1. ~ (NextCut(t, i) > Len(t))
    BY <1>6, CutsAt
  <2> QED  BY <1>4, <2>1, Zenon DEF CompAt
<1> QED  BY <1>2, <1>5, <1>6, Zenon DEF CutsUp

\* Where a component begins, and the component.
Starts(t, i) == i = 1 \/ t[i - 1] = "/"
PartAt(t, i) == SubSeq(t, i, NextCut(t, i) - 1)

\* Where every component belongs to a set, they are a sequence over it: the
\* first is what goes to the next separator, and there are more if there is one.
LEMMA CompIn ==
    ASSUME NEW t, Len(t) \in Nat, NEW f, CutsUp(f, t), NEW Q,
           \A i \in 1 .. Len(t) + 1 : Starts(t, i) => PartAt(t, i) \in Q
    PROVE  \A i \in 1 .. Len(t) + 1 : Starts(t, i) =>
               /\ f[i] \in Seq(Q) /\ Len(f[i]) >= 1 /\ f[i][1] = PartAt(t, i)
               /\ Len(f[i]) > 1 <=> NextCut(t, i) <= Len(t)
<1> DEFINE n == Len(t) + 1
           P(i) == Starts(t, i) => /\ f[i] \in Seq(Q) /\ Len(f[i]) >= 1 /\ f[i][1] = PartAt(t, i)
                                   /\ Len(f[i]) > 1 <=> NextCut(t, i) <= Len(t)
           G == {i \in 1 .. n : P(i)}
<1>1. ASSUME NEW i \in 1 .. n, \A j \in i + 1 .. n : j \in G PROVE i \in G
  <2> SUFFICES ASSUME Starts(t, i)
               PROVE  /\ f[i] \in Seq(Q) /\ Len(f[i]) >= 1 /\ f[i][1] = PartAt(t, i)
                      /\ Len(f[i]) > 1 <=> NextCut(t, i) <= Len(t)
    OBVIOUS
  <2>1. PartAt(t, i) \in Q
    OBVIOUS
  <2>2. PICK c \in Nat : c = NextCut(t, i) /\ c \in i .. Len(t) + 1 /\ (c <= Len(t) => t[c] = "/")
    BY CutsAt
  <2>3. CASE c > Len(t)
    <3>1. c - 1 = Len(t)
      BY <2>2, <2>3
    <3>2. PartAt(t, i) = SubSeq(t, i, Len(t))
      BY <2>2, <3>1, Zenon DEF PartAt
    <3>3. f[i] = <<PartAt(t, i)>>
      BY <2>2, <2>3, <3>2, Zenon DEF CutsUp
    <3>4. ASSUME NEW u \in Q PROVE <<u>> \in Seq(Q) /\ Len(<<u>>) = 1 /\ <<u>>[1] = u
      OBVIOUS
    <3>5. f[i] \in Seq(Q) /\ Len(f[i]) = 1 /\ f[i][1] = PartAt(t, i)
      BY <2>1, <3>3, <3>4, Zenon
    <3> QED  BY <2>2, <2>3, <3>5
  <2>4. CASE c <= Len(t)
    <3>1. f[i] = <<PartAt(t, i)>> \o f[c + 1]
      BY <2>2, <2>4, Zenon DEF CutsUp, PartAt
    <3>2. c + 1 \in i + 1 .. n /\ c + 1 \in 1 .. n /\ (c + 1) - 1 = c
      BY <2>2, <2>4
    <3>3. Starts(t, c + 1)
      <4>1. t[c] = "/"
        BY <2>2, <2>4
      <4>2. t[(c + 1) - 1] = "/"
        BY ONLY <3>2, <4>1, Zenon
      <4> QED  BY ONLY <4>2, Zenon DEF Starts
    <3>4. f[c + 1] \in Seq(Q) /\ Len(f[c + 1]) >= 1
      BY <1>1, <3>2, <3>3
    <3>5. /\ <<PartAt(t, i)>> \o f[c + 1] \in Seq(Q)
          /\ Len(<<PartAt(t, i)>> \o f[c + 1]) = 1 + Len(f[c + 1])
          /\ (<<PartAt(t, i)>> \o f[c + 1])[1] = PartAt(t, i)
      BY ONLY <2>1, <3>4, PutFirst
    <3>6. f[i] \in Seq(Q) /\ Len(f[i]) = 1 + Len(f[c + 1]) /\ f[i][1] = PartAt(t, i)
      BY <3>1, <3>5, Zenon
    <3>7. Len(f[c + 1]) \in Nat
      BY <3>4
    <3> QED  BY <2>2, <2>4, <3>4, <3>6, <3>7
  <2> QED  BY <2>2, <2>3, <2>4
<1>2. n \in Nat
  OBVIOUS
<1>3. \A i \in 1 .. n : i \in G
  <2> HIDE DEF G, n
  <2> QED  BY ONLY <1>1, <1>2, DownInduction
<1> QED  BY <1>3

\* A text and its components.
LEMMA CompsAre ==
    ASSUME NEW S, NEW t \in Seq(S)
    PROVE  /\ Components(t) \in Seq(Seq(S)) /\ Len(Components(t)) \in Nat /\ Len(Components(t)) >= 1
           /\ Components(t)[1] = PartAt(t, 1)
           /\ Len(Components(t)) > 1 <=> NextCut(t, 1) <= Len(t)
           /\ NextCut(t, 1) <= Len(t) <=> \E i \in 1 .. Len(t) : t[i] = "/"
<1>0. Len(t) \in Nat /\ 1 \in 1 .. Len(t) + 1
  OBVIOUS
<1>1. PICK f : CutsUp(f, t) /\ Components(t) = f[1]
  BY <1>0, CompIs
<1>2. ASSUME NEW i \in 1 .. Len(t) + 1 PROVE PartAt(t, i) \in Seq(S)
  <2>1. NextCut(t, i) \in i .. Len(t) + 1
    BY <1>0, CutsAt
  <2> QED  BY <2>1, RunIs DEF PartAt
<1>3. /\ f[1] \in Seq(Seq(S)) /\ Len(f[1]) >= 1 /\ f[1][1] = PartAt(t, 1)
      /\ Len(f[1]) > 1 <=> NextCut(t, 1) <= Len(t)
  <2>1. Starts(t, 1)
    BY DEF Starts
  <2> DEFINE Q == Seq(S)
  <2>2. \A i \in 1 .. Len(t) + 1 : Starts(t, i) => PartAt(t, i) \in Q
    BY <1>2
  <2> HIDE DEF Q
  <2>3. /\ f[1] \in Seq(Q) /\ Len(f[1]) >= 1 /\ f[1][1] = PartAt(t, 1)
        /\ Len(f[1]) > 1 <=> NextCut(t, 1) <= Len(t)
    BY <1>0, <1>1, <2>1, <2>2, CompIn
  <2> QED  BY <2>3 DEF Q
<1>4. Len(f[1]) \in Nat
  BY <1>3
<1>5. NextCut(t, 1) <= Len(t) <=> \E i \in 1 .. Len(t) : t[i] = "/"
  <2>1. PICK c \in Nat : /\ c = NextCut(t, 1) /\ c \in 1 .. Len(t) + 1 /\ (\A j \in 1 .. c - 1 : t[j] # "/")
                         /\ c <= Len(t) => t[c] = "/"
    BY <1>0, CutsAt
  <2>2. c > Len(t) => \A i \in 1 .. Len(t) : i \in 1 .. c - 1
    BY <2>1
  <2> QED  BY <2>1, <2>2
<1> QED  BY <1>1, <1>3, <1>4, <1>5

\* A text without a separator is its only component.
LEMMA CompAlone ==
    ASSUME NEW S, NEW t \in Seq(S), \A i \in 1 .. Len(t) : t[i] # "/"
    PROVE  Components(t) = <<t>>
<1>0. Len(t) \in Nat /\ 1 \in 1 .. Len(t) + 1
  OBVIOUS
<1>1. PICK f : CutsUp(f, t) /\ Components(t) = f[1]
  BY <1>0, CompIs
<1>2. ~ (NextCut(t, 1) <= Len(t))
  BY CompsAre
<1>3. NextCut(t, 1) > Len(t)
  BY <1>0, <1>2, CutsAt
<1>4. f[1] = <<SubSeq(t, 1, Len(t))>>
  BY <1>0, <1>1, <1>3, Zenon DEF CutsUp
<1>5. SubSeq(t, 1, Len(t)) = t
  OBVIOUS
<1> QED  BY <1>1, <1>4, <1>5

\* A text that begins with a separator: an empty component and the rest.
LEMMA CompRooted ==
    ASSUME NEW S, NEW t \in Seq(S), t # <<>>, t[1] = "/"
    PROVE  Components(t) = <<(<<>>)>> \o Components(Tail(t))
<1> DEFINE u == Tail(t)
           n == Len(u) + 1
<1>1. /\ u \in Seq(S) /\ Len(t) \in Nat /\ Len(u) \in Nat /\ Len(t) = Len(u) + 1
      /\ \A i \in 1 .. Len(u) : u[i] = t[i + 1]
  OBVIOUS
<1> HIDE DEF u
<1>2. PICK f : CutsUp(f, t) /\ Components(t) = f[1]
  BY <1>1, CompIs
<1>3. PICK g : CutsUp(g, u) /\ Components(u) = g[1]
  BY <1>1, CompIs
<1> DEFINE G == {i \in 1 .. n : f[i + 1] = g[i]}
<1>4. ASSUME NEW i \in 1 .. n, \A j \in i + 1 .. n : j \in G PROVE i \in G
  <2>0. PICK c : c = NextCut(u, i)
    OBVIOUS
  <2>1. /\ c \in Nat /\ c = NextCut(u, i) /\ c \in i .. Len(u) + 1 /\ (\A j \in i .. c - 1 : u[j] # "/")
        /\ c <= Len(u) => u[c] = "/"
    <3>1. i \in 1 .. Len(u) + 1
      OBVIOUS
    <3>2. /\ c \in i .. Len(u) + 1 /\ (\A j \in i .. c - 1 : u[j] # "/")
          /\ c <= Len(u) => u[c] = "/"
      BY ONLY <1>1, <2>0, <3>1, CutsAt
    <3> QED  BY <1>1, <2>0, <3>2
  <2>2. i + 1 \in 1 .. Len(t) + 1 /\ c + 1 \in i + 1 .. Len(t) + 1
    BY <1>1, <2>1
  <2>3. NextCut(t, i + 1) = c + 1
    <3>1. ASSUME NEW j \in i + 1 .. (c + 1) - 1 PROVE t[j] # "/"
      <4>1. j - 1 \in i .. c - 1 /\ j - 1 \in 1 .. Len(u) /\ (j - 1) + 1 = j
        BY <1>1, <2>1
      <4> QED  BY <1>1, <2>1, <4>1
    <3>2. c + 1 <= Len(t) => t[c + 1] = "/"
      <4>1. c + 1 <= Len(t) => c <= Len(u) /\ c \in 1 .. Len(u)
        BY <1>1, <2>1
      <4> QED  BY <1>1, <2>1, <4>1
    <3> QED  BY <1>1, <2>2, <3>1, <3>2, CutIs
  <2>4. SubSeq(t, i + 1, (c + 1) - 1) = SubSeq(u, i, c - 1)
    <3>1. /\ SubSeq(t, i + 1, (c + 1) - 1) \in Seq(S) /\ Len(SubSeq(t, i + 1, (c + 1) - 1)) = (c + 1) - (i + 1)
          /\ \A k \in 1 .. (c + 1) - (i + 1) : SubSeq(t, i + 1, (c + 1) - 1)[k] = t[(i + 1) + k - 1]
      BY <2>2, RunIs
    <3>2. /\ SubSeq(u, i, c - 1) \in Seq(S) /\ Len(SubSeq(u, i, c - 1)) = c - i
          /\ \A k \in 1 .. c - i : SubSeq(u, i, c - 1)[k] = u[i + k - 1]
      BY <1>1, <2>1, RunIs
    <3>3. (c + 1) - (i + 1) = c - i
      BY <2>1
    <3>4. ASSUME NEW k \in 1 .. c - i PROVE t[(i + 1) + k - 1] = u[i + k - 1]
      <4>1. i + k - 1 \in 1 .. Len(u) /\ (i + k - 1) + 1 = (i + 1) + k - 1
        BY <1>1, <2>1
      <4> QED  BY <1>1, <4>1
    <3> DEFINE v == SubSeq(t, i + 1, (c + 1) - 1)
               w == SubSeq(u, i, c - 1)
    <3>5. v \in Seq(S) /\ w \in Seq(S) /\ Len(v) = c - i /\ Len(w) = c - i /\ \A k \in 1 .. c - i : v[k] = w[k]
      BY <3>1, <3>2, <3>3, <3>4
    <3> HIDE DEF v, w
    <3>6. v = w
      BY ONLY <3>5, SameRow
    <3> QED  BY <3>6 DEF v, w
  <2>5. CASE c > Len(u)
    <3>1. c = Len(u) + 1 /\ c + 1 > Len(t) /\ c - 1 = Len(u) /\ (c + 1) - 1 = Len(t)
      BY <1>1, <2>1, <2>5
    <3>2. f[i + 1] = <<SubSeq(t, i + 1, Len(t))>>
      BY <1>2, <2>2, <2>3, <3>1 DEF CutsUp
    <3>3. g[i] = <<SubSeq(u, i, Len(u))>>
      BY <1>3, <2>1, <2>5 DEF CutsUp
    <3> QED  BY <2>4, <3>1, <3>2, <3>3, Zenon
  <2>6. CASE c <= Len(u)
    <3>1. c + 1 <= Len(t) /\ c + 1 \in i + 1 .. n
      BY <1>1, <2>1, <2>6
    <3>2. f[i + 1] = <<SubSeq(t, i + 1, (c + 1) - 1)>> \o f[(c + 1) + 1]
      BY <1>2, <2>2, <2>3, <3>1, Zenon DEF CutsUp
    <3>3. g[i] = <<SubSeq(u, i, c - 1)>> \o g[c + 1]
      BY <1>3, <2>1, <2>6, Zenon DEF CutsUp
    <3>4. f[(c + 1) + 1] = g[c + 1]
      BY <1>4, <3>1
    <3> QED  BY <2>4, <3>2, <3>3, <3>4, Zenon
  <2> QED  BY <2>1, <2>5, <2>6
<1>5. n \in Nat /\ 1 \in 1 .. n
  BY <1>1
<1>6. \A i \in 1 .. n : i \in G
  <2> HIDE DEF G, n
  <2> QED  BY ONLY <1>4, <1>5, DownInduction
<1>7. f[2] = g[1]
  <2>1. f[1 + 1] = g[1]
    BY <1>5, <1>6
  <2> QED  BY <2>1
<1>8. NextCut(t, 1) = 1
  <2>1. 1 \in 1 .. Len(t) + 1 /\ \A j \in 1 .. 1 - 1 : t[j] # "/"
    BY <1>1
  <2> QED  BY <1>1, <2>1, CutIs
<1>9. f[1] = <<SubSeq(t, 1, 1 - 1)>> \o f[1 + 1]
  <2>1. 1 \in 1 .. Len(t) + 1 /\ 1 <= Len(t)
    BY <1>1
  <2> QED  BY <1>2, <1>8, <2>1, Zenon DEF CutsUp
<1>10. SubSeq(t, 1, 1 - 1) = <<>> /\ 1 + 1 = 2
  OBVIOUS
<1> QED  BY <1>2, <1>3, <1>7, <1>9, <1>10, Zenon DEF u

-----------------------------------------------------------------------------
(* The exclude list: a line's wildcards.                                   *)

NormAt(f, t, i) ==
    CASE i > Len(t) -> <<>>
      [] TokenAt(t, i) -> <<"*">> \o f[i + 2]
      [] OTHER -> <<t[i]>> \o f[i + 1]
IsNorm(f, t) == f = [i \in 1 .. Len(t) + 1 |-> NormAt(f, t, i)]
TokAt(f, t, i) ==
    IF i = Len(t) + 1 THEN <<>>
    ELSE IF i < Len(t) /\ SubSeq(t, i, i + 1) = <<"#", "?">> THEN <<"*">> \o f[i + 2]
    ELSE <<t[i]>> \o f[i + 1]
IsTok(f, t) == f = [i \in 1 .. Len(t) + 1 |-> TokAt(f, t, i)]

\* A normalised line is the value at 1 of a function defined by itself.
LEMMA NormChooses == \A t : Normal(t) = (CHOOSE f : IsNorm(f, t))[1]
BY Zenon DEF Normal, IsNorm, NormAt

\* And so are exclude.h's tokens.
LEMMA TokChooses == \A t : Tokens(t) = (CHOOSE f : IsTok(f, t))[1]
BY Zenon DEF Tokens, IsTok, TokAt

\* The end of a line, '#?', and any other character.
ReadAt(f, t, i, v) ==
    /\ i = Len(t) + 1 => v = <<>>
    /\ i <= Len(t) /\ TokenAt(t, i) => v = <<"*">> \o f[i + 2]
    /\ i <= Len(t) /\ ~ TokenAt(t, i) => v = <<t[i]>> \o f[i + 1]

\* What is read at a place, by cases.
LEMMA NormReads ==
    ASSUME NEW t, Len(t) \in Nat, NEW i \in 1 .. Len(t) + 1, NEW f
    PROVE  ReadAt(f, t, i, NormAt(f, t, i))
<1>1. CASE i = Len(t) + 1
  <2>1. i > Len(t) /\ ~ (i < Len(t)) /\ ~ (i <= Len(t))
    BY <1>1
  <2>2. NormAt(f, t, i) = <<>>
    BY <2>1 DEF NormAt, TokenAt
  <2> QED  BY <2>1, <2>2 DEF ReadAt
<1>2. CASE i <= Len(t) /\ TokenAt(t, i)
  <2>1. ~ (i > Len(t)) /\ i # Len(t) + 1
    BY <1>2
  <2>2. NormAt(f, t, i) = <<"*">> \o f[i + 2]
    BY <1>2, <2>1 DEF NormAt
  <2> QED  BY <1>2, <2>1, <2>2 DEF ReadAt
<1>3. CASE i <= Len(t) /\ ~ TokenAt(t, i)
  <2>1. ~ (i > Len(t)) /\ i # Len(t) + 1
    BY <1>3
  <2>2. NormAt(f, t, i) = <<t[i]>> \o f[i + 1]
    BY <1>3, <2>1 DEF NormAt
  <2> QED  BY <1>3, <2>1, <2>2 DEF ReadAt
<1>4. i = Len(t) + 1 \/ i <= Len(t)
  OBVIOUS
<1> QED  BY <1>1, <1>2, <1>3, <1>4

\* The code's two tests of '#?' are exclude.h's one.
LEMMA TokenPair ==
    ASSUME NEW S, NEW t \in Seq(S), NEW i \in 1 .. Len(t) + 1
    PROVE  i < Len(t) /\ SubSeq(t, i, i + 1) = <<"#", "?">> <=> TokenAt(t, i)
<1>1. ASSUME i < Len(t) PROVE SubSeq(t, i, i + 1) = <<"#", "?">> <=> t[i] = "#" /\ t[i + 1] = "?"
  <2>1. SubSeq(t, i, i + 1) = <<t[i], t[i + 1]>>
    <3>1. SubSeq(t, i, i + 1) \in Seq(S) /\ Len(SubSeq(t, i, i + 1)) = 2
          /\ SubSeq(t, i, i + 1)[1] = t[i] /\ SubSeq(t, i, i + 1)[2] = t[i + 1]
      BY <1>1
    <3>2. t[i] \in S /\ t[i + 1] \in S
      BY <1>1
    <3> DEFINE u == SubSeq(t, i, i + 1)
               v == <<t[i], t[i + 1]>>
    <3>3. v \in Seq(S) /\ Len(v) = 2 /\ v[1] = t[i] /\ v[2] = t[i + 1]
      BY <3>2
    <3>4. u \in Seq(S) /\ Len(u) = 2 /\ u[1] = t[i] /\ u[2] = t[i + 1]
      BY <3>1
    <3> HIDE DEF u, v
    <3>5. \A k \in 1 .. Len(u) : u[k] = v[k]
      BY <3>3, <3>4
    <3>6. u = v
      BY ONLY <3>3, <3>4, <3>5, SameRow
    <3> QED  BY <3>6 DEF u, v
  <2> QED  BY <2>1
<1> QED  BY <1>1 DEF TokenAt

\* At every place the same is read.
LEMMA NormTok ==
    ASSUME NEW S, NEW t \in Seq(S), NEW i \in 1 .. Len(t) + 1, NEW f
    PROVE  NormAt(f, t, i) = TokAt(f, t, i)
<1>1. ReadAt(f, t, i, NormAt(f, t, i))
  BY NormReads
<1>2. i < Len(t) /\ SubSeq(t, i, i + 1) = <<"#", "?">> <=> TokenAt(t, i)
  BY TokenPair
<1>3. i = Len(t) + 1 \/ (i <= Len(t) /\ i # Len(t) + 1)
  OBVIOUS
<1>4. CASE i = Len(t) + 1
  BY <1>1, <1>4, Zenon DEF ReadAt, TokAt
<1>5. CASE i <= Len(t) /\ i # Len(t) + 1 /\ TokenAt(t, i)
  BY <1>1, <1>2, <1>5, Zenon DEF ReadAt, TokAt
<1>6. CASE i <= Len(t) /\ i # Len(t) + 1 /\ ~ TokenAt(t, i)
  BY <1>1, <1>2, <1>6, Zenon DEF ReadAt, TokAt
<1> QED  BY <1>3, <1>4, <1>5, <1>6

\* What is read at a place rests on later places.
LEMMA NormSame ==
    ASSUME NEW t, Len(t) \in Nat, NEW i \in 1 .. Len(t) + 1, NEW f, NEW g,
           \A j \in i + 1 .. Len(t) + 1 : f[j] = g[j]
    PROVE  NormAt(f, t, i) = NormAt(g, t, i)
<1>1. ReadAt(f, t, i, NormAt(f, t, i)) /\ ReadAt(g, t, i, NormAt(g, t, i))
  BY NormReads
<1>2. CASE i = Len(t) + 1
  BY <1>1, <1>2, Zenon DEF ReadAt
<1>3. CASE i <= Len(t) /\ TokenAt(t, i)
  <2>1. f[i + 2] = g[i + 2]
    BY <1>3 DEF TokenAt
  <2> QED  BY <1>1, <1>3, <2>1, Zenon DEF ReadAt
<1>4. CASE i <= Len(t) /\ ~ TokenAt(t, i)
  <2>1. f[i + 1] = g[i + 1]
    BY <1>4
  <2> QED  BY <1>1, <1>4, <2>1, Zenon DEF ReadAt
<1> QED  BY <1>2, <1>3, <1>4

\* So there is such a function.
LEMMA NormExists ==
    ASSUME NEW t, Len(t) \in Nat
    PROVE  \E f : IsNorm(f, t)
<1> DEFINE n == Len(t) + 1
           To(f, k) == \A i \in 1 .. n : i > n - k => f[i] = NormAt(f, t, i)
           G == {k \in Nat : \E f : DOMAIN f = 1 .. n /\ f = [i \in 1 .. n |-> f[i]] /\ To(f, k)}
<1>1. 0 \in G
  <2> DEFINE f == [i \in 1 .. n |-> 0]
  <2>1. DOMAIN f = 1 .. n /\ f = [i \in 1 .. n |-> f[i]] /\ To(f, 0)
    OBVIOUS
  <2> QED  BY <2>1
<1>2. ASSUME NEW k \in Nat, k \in G PROVE k + 1 \in G
  <2>1. PICK g : DOMAIN g = 1 .. n /\ g = [i \in 1 .. n |-> g[i]] /\ To(g, k)
    BY <1>2
  <2> DEFINE f == [i \in 1 .. n |-> IF i = n - k THEN NormAt(g, t, i) ELSE g[i]]
  <2>2. DOMAIN f = 1 .. n /\ \A i \in 1 .. n : f[i] = IF i = n - k THEN NormAt(g, t, i) ELSE g[i]
    OBVIOUS
  <2>3. f = [i \in 1 .. n |-> f[i]]
    OBVIOUS
  <2> HIDE DEF f
  <2>4. ASSUME NEW i \in 1 .. n, i > n - (k + 1) PROVE f[i] = NormAt(f, t, i)
    <3>1. \A j \in i + 1 .. n : f[j] = g[j]
      BY <2>2, <2>4
    <3>2. NormAt(f, t, i) = NormAt(g, t, i)
      BY <3>1, NormSame
    <3>3. CASE i = n - k
      BY <2>2, <3>2, <3>3
    <3>4. CASE i # n - k
      <4>1. i > n - k
        BY <2>4, <3>4
      <4>2. g[i] = NormAt(g, t, i)
        BY <2>1, <4>1
      <4> QED  BY <2>2, <3>2, <3>4, <4>2
    <3> QED  BY <3>3, <3>4
  <2>5. To(f, k + 1)
    BY <2>4
  <2> QED  BY <2>2, <2>3, <2>5
<1>3. Nat \subseteq G
  <2> HIDE DEF G
  <2> QED  BY <1>1, <1>2, SetInduction
<1>4. n \in Nat
  OBVIOUS
<1>5. PICK f : f = [i \in 1 .. n |-> f[i]] /\ To(f, n)
  BY <1>3, <1>4
<1>6. \A i \in 1 .. n : f[i] = NormAt(f, t, i)
  BY <1>5
<1>7. f = [i \in 1 .. n |-> NormAt(f, t, i)]
  <2>1. [i \in 1 .. n |-> f[i]] = [i \in 1 .. n |-> NormAt(f, t, i)]
    BY <1>6, Zenon
  <2> QED  BY <1>5, <2>1, Zenon
<1> QED  BY <1>7, Zenon DEF IsNorm

Read(f, t) == \A i \in 1 .. Len(t) + 1 : ReadAt(f, t, i, f[i])

\* What the code reads.
LEMMA NormalIs ==
    ASSUME NEW t, Len(t) \in Nat
    PROVE  \E f : Read(f, t) /\ Normal(t) = f[1]
<1> DEFINE f == CHOOSE g : IsNorm(g, t)
<1>1. IsNorm(f, t)
  BY NormExists
<1>2. Normal(t) = f[1]
  BY NormChooses, Zenon
<1> HIDE DEF f
<1>3. f = [i \in 1 .. Len(t) + 1 |-> NormAt(f, t, i)]
  BY <1>1, Zenon DEF IsNorm
<1>4. \A i \in 1 .. Len(t) + 1 : f[i] = NormAt(f, t, i)
  BY <1>3, Zenon
<1>5. Read(f, t)
  BY <1>4, NormReads, Zenon DEF Read
<1> QED  BY <1>2, <1>5

\* What exclude.h reads.
LEMMA TokensIs ==
    ASSUME NEW S, NEW t \in Seq(S)
    PROVE  \E f : Read(f, t) /\ Tokens(t) = f[1]
<1> DEFINE f == CHOOSE g : IsTok(g, t)
<1>0. Len(t) \in Nat
  OBVIOUS
<1>1. IsTok(f, t)
  <2>1. PICK g : IsNorm(g, t)
    BY NormExists
  <2>2. [i \in 1 .. Len(t) + 1 |-> NormAt(g, t, i)] = [i \in 1 .. Len(t) + 1 |-> TokAt(g, t, i)]
    BY NormTok, Zenon
  <2>3. IsTok(g, t)
    BY <2>1, <2>2, Zenon DEF IsNorm, IsTok
  <2> QED  BY <2>3
<1>2. Tokens(t) = f[1]
  BY TokChooses, Zenon
<1> HIDE DEF f
<1>3. f = [i \in 1 .. Len(t) + 1 |-> TokAt(f, t, i)]
  BY <1>1, Zenon DEF IsTok
<1>4. \A i \in 1 .. Len(t) + 1 : f[i] = TokAt(f, t, i)
  BY <1>3, Zenon
<1>5. Read(f, t)
  <2> SUFFICES ASSUME NEW i \in 1 .. Len(t) + 1 PROVE ReadAt(f, t, i, f[i])
    BY DEF Read
  <2>1. f[i] = NormAt(f, t, i)
    BY <1>4, NormTok
  <2>2. ReadAt(f, t, i, NormAt(f, t, i))
    BY <1>0, NormReads
  <2> QED  BY <2>1, <2>2
<1> QED  BY <1>2, <1>5

\* There is one way to read a line, and it leaves a text.
LEMMA ReadOnce ==
    ASSUME NEW S, NEW t \in Seq(S), NEW f, NEW g, Read(f, t), Read(g, t)
    PROVE  \A i \in 1 .. Len(t) + 1 :
               /\ f[i] = g[i] /\ f[i] \in Seq(S \cup {"*"})
               /\ i <= Len(t) => f[i] # <<>>
<1> DEFINE n == Len(t) + 1
           G == {i \in 1 .. n : /\ f[i] = g[i] /\ f[i] \in Seq(S \cup {"*"})
                                /\ i <= Len(t) => f[i] # <<>>}
<1>0. Len(t) \in Nat
  OBVIOUS
<1>1. ASSUME NEW i \in 1 .. n, \A j \in i + 1 .. n : j \in G PROVE i \in G
  <2>0. ReadAt(f, t, i, f[i]) /\ ReadAt(g, t, i, g[i])
    BY DEF Read
  <2>a. ASSUME NEW c \in S \cup {"*"}, NEW m \in Seq(S \cup {"*"}), f[i] = <<c>> \o m, g[i] = <<c>> \o m
        PROVE  i \in G
    <3>1. <<c>> \o m \in Seq(S \cup {"*"}) /\ Len(<<c>> \o m) = 1 + Len(m) /\ Len(m) \in Nat
      BY ONLY PutFirst, c \in S \cup {"*"}, m \in Seq(S \cup {"*"})
    <3>2. <<c>> \o m # <<>>
      BY <3>1
    <3> QED  BY <2>a, <3>1, <3>2
  <2>1. CASE i = n
    <3>1. i = Len(t) + 1 /\ ~ (i <= Len(t))
      BY <2>1
    <3>2. f[i] = <<>> /\ g[i] = <<>>
      BY <2>0, <3>1, Zenon DEF ReadAt
    <3>3. f[i] = g[i] /\ f[i] \in Seq(S \cup {"*"})
      BY <3>2
    <3> QED  BY <3>1, <3>3
  <2>2. CASE i <= Len(t) /\ TokenAt(t, i)
    <3>1. i + 2 \in i + 1 .. n
      BY <2>2 DEF TokenAt
    <3>2. f[i + 2] = g[i + 2] /\ f[i + 2] \in Seq(S \cup {"*"})
      BY <1>1, <3>1
    <3>3. f[i] = <<"*">> \o f[i + 2] /\ g[i] = <<"*">> \o f[i + 2]
      BY <2>0, <2>2, <3>2, Zenon DEF ReadAt
    <3> QED  BY <2>a, <3>2, <3>3
  <2>3. CASE i <= Len(t) /\ ~ TokenAt(t, i)
    <3>1. i + 1 \in i + 1 .. n /\ t[i] \in S
      BY <2>3
    <3>2. f[i + 1] = g[i + 1] /\ f[i + 1] \in Seq(S \cup {"*"})
      BY <1>1, <3>1
    <3>3. f[i] = <<t[i]>> \o f[i + 1] /\ g[i] = <<t[i]>> \o f[i + 1]
      BY <2>0, <2>3, <3>2, Zenon DEF ReadAt
    <3> QED  BY <2>a, <3>1, <3>2, <3>3
  <2> QED  BY <2>1, <2>2, <2>3
<1>2. n \in Nat
  OBVIOUS
<1>3. \A i \in 1 .. n : i \in G
  <2> HIDE DEF G, n
  <2> QED  BY ONLY <1>1, <1>2, DownInduction
<1> QED  BY <1>3

\* The code and the documentation read a line's wildcards alike.
LEMMA NormalIsTokens ==
    ASSUME NEW S, NEW t \in Seq(S)
    PROVE  /\ Normal(t) = Tokens(t) /\ Normal(t) \in Seq(S \cup {"*"})
           /\ t # <<>> => Normal(t) # <<>>
<1>0. Len(t) \in Nat /\ (t # <<>> => 1 <= Len(t)) /\ 1 \in 1 .. Len(t) + 1
  OBVIOUS
<1>1. PICK f : Read(f, t) /\ Normal(t) = f[1]
  BY <1>0, NormalIs
<1>2. PICK g : Read(g, t) /\ Tokens(t) = g[1]
  BY TokensIs
<1>3. f[1] = g[1] /\ f[1] \in Seq(S \cup {"*"}) /\ (1 <= Len(t) => f[1] # <<>>)
  <2>1. \A i \in 1 .. Len(t) + 1 : /\ f[i] = g[i] /\ f[i] \in Seq(S \cup {"*"})
                                   /\ i <= Len(t) => f[i] # <<>>
    <3>1. Read(f, t) /\ Read(g, t) /\ t \in Seq(S)
      BY <1>1, <1>2
    <3> QED  BY ONLY <3>1, ReadOnce
  <2> QED  BY <1>0, <2>1
<1> QED  BY <1>0, <1>1, <1>2, <1>3

-----------------------------------------------------------------------------
(* The exclude list: a pattern and a path, component by component.         *)

\* An empty pattern stands for the empty name only.
LEMMA StandsEmpty ==
    ASSUME NEW s, Len(s) \in Nat, Stands(<<>>, s)
    PROVE  Len(s) = 0
<1> DEFINE p == <<>>
<1>1. Len(p) = 0 /\ Len(p) \in Nat /\ Len(p) + 1 = 1
  OBVIOUS
<1> HIDE DEF p
<1>2. PICK f : Fits(f, p, s) /\ (Stands(p, s) <=> 1 \in f[1])
  BY <1>1, StandsIs
<1>3. 1 \in f[1]
  BY <1>2 DEF p
<1>4. f[1] = {Len(s) + 1}
  BY <1>1, <1>2 DEF Fits
<1> QED  BY <1>3, <1>4

\* A name of the filesystem: not empty, and without a star.
Name(u) == u \in Seq(STRING) /\ u # <<>> /\ \A k \in 1 .. Len(u) : u[k] # "*"

\* The components of a path are names.
LEMMA PathComps ==
    ASSUME NEW path \in Paths, "*" \notin Range(path)
    PROVE  /\ path # <<>> /\ Len(Components(path)) \in Nat /\ Len(Components(path)) >= 1
           /\ DOMAIN Components(path) = 1 .. Len(Components(path))
           /\ \A i \in 1 .. Len(Components(path)) : Name(Components(path)[i])
<1>1. /\ path \in Seq(STRING) /\ Len(path) \in Nat
      /\ \A i \in 1 .. Len(path) + 1 :
            ~ ((i = 1 \/ path[i - 1] = "/") /\ (i = Len(path) + 1 \/ path[i] = "/"))
  BY PathsAssumption
<1>2. \A i \in 1 .. Len(path) : path[i] # "*"
  BY <1>1 DEF Range
<1>3. path # <<>>
  BY <1>1
<1> DEFINE Q == {u \in Seq(STRING) : Name(u)}
<1>4. ASSUME NEW i \in 1 .. Len(path) + 1, Starts(path, i) PROVE PartAt(path, i) \in Q
  <2>1. PICK c : c = NextCut(path, i)
    OBVIOUS
  <2>2. c \in i .. Len(path) + 1 /\ (c <= Len(path) => path[c] = "/")
    BY <1>1, <2>1, CutsAt
  <2>3. c # i
    <3>1. i = 1 \/ path[i - 1] = "/"
      BY <1>4, Zenon DEF Starts
    <3>2. i # Len(path) + 1 /\ path[i] # "/"
      BY <1>1, <3>1
    <3> QED  BY <2>2, <3>2
  <2>4. PICK u : u = SubSeq(path, i, c - 1)
    OBVIOUS
  <2>5. u \in Seq(STRING) /\ Len(u) = c - i /\ \A k \in 1 .. c - i : u[k] = path[i + k - 1]
    BY ONLY <1>1, <2>2, <2>4, i \in 1 .. Len(path) + 1, RunIs
  <2>6. u # <<>>
    BY <2>2, <2>3, <2>5
  <2>7. ASSUME NEW k \in 1 .. Len(u) PROVE u[k] # "*"
    <3>1. k \in 1 .. c - i /\ i + k - 1 \in 1 .. Len(path)
      BY <1>1, <2>2, <2>5
    <3> QED  BY <1>2, <2>5, <3>1
  <2>8. PartAt(path, i) = u
    BY <2>1, <2>4, Zenon DEF PartAt
  <2> QED  BY <2>5, <2>6, <2>7, <2>8 DEF Name
<1> HIDE DEF Q
<1>5. PICK f : CutsUp(f, path) /\ Components(path) = f[1]
  BY <1>1, CompIs
<1>6. 1 \in 1 .. Len(path) + 1 /\ Starts(path, 1)
  BY <1>1 DEF Starts
<1>7. f[1] \in Seq(Q) /\ Len(f[1]) >= 1
  BY <1>1, <1>4, <1>5, <1>6, CompIn
<1>8. Len(f[1]) \in Nat /\ DOMAIN f[1] = 1 .. Len(f[1]) /\ \A i \in 1 .. Len(f[1]) : f[1][i] \in Q
  BY <1>7
<1>9. \A i \in 1 .. Len(f[1]) : Name(f[1][i])
  BY <1>8 DEF Q
<1> QED  BY <1>3, <1>5, <1>7, <1>8, <1>9, Zenon

\* One component of a pattern.
LEMMA NameStands ==
    ASSUME NEW S, NEW p \in Seq(S), NEW u, Name(u)
    PROVE  (GlobMatchOne(p, u) <=> Stands(p, u)) /\ (Stands(p, u) => p # <<>>)
<1>1. Len(p) \in Nat /\ Len(u) \in Nat /\ (\A i \in 1 .. Len(u) : u[i] # "*") /\ Len(u) # 0
  BY DEF Name
<1>2. GlobMatchOne(p, u) <=> Stands(p, u)
  BY <1>1, GlobStands
<1>3. Stands(<<>>, u) => FALSE
  BY <1>1, StandsEmpty
<1> QED  BY <1>2, <1>3, Zenon

\* Component for component.
InStep(ps, sc) == Len(ps) = Len(sc) /\ \A k \in DOMAIN sc : Stands(ps[k], sc[k])

\* pattern_matches_anchored(): as many components, each standing for its own,
\* and then the pattern and its first component are not empty.
LEMMA AnchoredStands ==
    ASSUME NEW path \in Paths, "*" \notin Range(path), NEW S, NEW p \in Seq(S)
    PROVE  /\ MatchesAnchored(p, path) <=> InStep(Components(p), Components(path))
           /\ InStep(Components(p), Components(path)) => p # <<>> /\ Components(p)[1] # <<>>
<1>1. PICK pc, sc : pc = Components(p) /\ sc = Components(path)
  OBVIOUS
<1>2. /\ Len(sc) \in Nat /\ Len(sc) >= 1 /\ DOMAIN sc = 1 .. Len(sc)
      /\ \A i \in 1 .. Len(sc) : Name(sc[i])
  BY <1>1, PathComps
<1>3. pc \in Seq(Seq(S)) /\ Len(pc) \in Nat
  BY <1>1, CompsAre
<1>4. DOMAIN pc = 1 .. Len(pc) /\ \A i \in 1 .. Len(pc) : pc[i] \in Seq(S)
  BY <1>3
<1>5. MatchesAnchored(p, path) <=> Len(pc) = Len(sc) /\ \A i \in DOMAIN pc : GlobMatchOne(pc[i], sc[i])
  BY <1>1, Zenon DEF MatchesAnchored
<1>6. ASSUME Len(pc) = Len(sc), NEW i \in 1 .. Len(sc)
      PROVE  (GlobMatchOne(pc[i], sc[i]) <=> Stands(pc[i], sc[i])) /\ (Stands(pc[i], sc[i]) => pc[i] # <<>>)
  BY <1>2, <1>4, <1>6, NameStands
<1>7. MatchesAnchored(p, path) <=> InStep(pc, sc)
  BY <1>2, <1>4, <1>5, <1>6, Zenon DEF InStep
<1>8. InStep(pc, sc) => pc[1] # <<>>
  <2>1. 1 \in 1 .. Len(sc)
    BY <1>2
  <2> QED  BY <1>2, <1>6, <2>1, Zenon DEF InStep
<1>9. p = <<>> => pc[1] = <<>>
  <2> SUFFICES ASSUME p = <<>> PROVE pc[1] = <<>>
    OBVIOUS
  <2>1. \A i \in 1 .. Len(p) : p[i] # "/"
    OBVIOUS
  <2>2. Components(p) = <<p>>
    BY <2>1, CompAlone
  <2> QED  BY <1>1, <2>2
<1> QED  BY <1>1, <1>7, <1>8, <1>9, Zenon

-----------------------------------------------------------------------------
(* The exclude list: a pattern, and what exclude.h says of it.             *)

\* What is matched of a pattern, by the code and by exclude.h.
RootedAt(b) == b # <<>> /\ Head(b) = "/"
Unrooted(b) == IF RootedAt(b) THEN Tail(b) ELSE b
Takes(b, path) ==
    IF RootedAt(b) \/ "/" \in Range(Unrooted(b)) THEN MatchesAnchored(Unrooted(b), path)
                                               ELSE MatchesAnyComponent(Unrooted(b), path)
RootDoc(pc) == Len(pc) > 1 /\ pc[1] = <<>>
RestDoc(pc) == IF RootDoc(pc) THEN Tail(pc) ELSE pc
Means(b, path) ==
    /\ \E c \in Range(Components(b)) : c # <<>>
    /\ IF Len(Components(b)) > 1
       THEN Len(RestDoc(Components(b))) = Len(Components(path))
            /\ \A k \in DOMAIN Components(path) : Stands(RestDoc(Components(b))[k], Components(path)[k])
       ELSE \E c \in Range(Components(path)) : Stands(Components(b)[1], c)

\* What occurs in a sequence.
LEMMA RangeRow ==
    ASSUME NEW S, NEW q \in Seq(S), NEW x
    PROVE  x \in Range(q) <=> \E i \in 1 .. Len(q) : x = q[i]
BY DEF Range

\* Written from the root.
LEMMA RootedMeans ==
    ASSUME NEW path \in Paths, "*" \notin Range(path), NEW S, NEW b \in Seq(S), b # <<>>, Head(b) = "/"
    PROVE  (Unrooted(b) # <<>> /\ Takes(b, path)) <=> Means(b, path)
<1> DEFINE u == Tail(b)
           pc == Components(b)
           ct == Components(u)
           sc == Components(path)
<1>1. u \in Seq(S) /\ b[1] = "/"
  OBVIOUS
<1>2. pc = <<(<<>>)>> \o ct
  BY <1>1, CompRooted
<1>3. ct \in Seq(Seq(S)) /\ Len(ct) \in Nat /\ Len(ct) >= 1
  BY <1>1, CompsAre
<1>4. Unrooted(b) = u /\ RootedAt(b)
  BY Zenon DEF Unrooted, RootedAt
<1>5. Takes(b, path) <=> InStep(ct, sc)
  <2>1. Takes(b, path) <=> MatchesAnchored(u, path)
    BY <1>4, Zenon DEF Takes
  <2> QED  BY <1>1, <2>1, AnchoredStands
<1>6. InStep(ct, sc) => u # <<>> /\ ct[1] # <<>>
  BY <1>1, AnchoredStands
<1> HIDE DEF u, pc, ct, sc
<1>7. /\ pc \in Seq(Seq(S)) /\ Len(pc) = 1 + Len(ct) /\ pc[1] = <<>> /\ (\A k \in 1 .. Len(ct) : pc[k + 1] = ct[k])
      /\ Tail(pc) = ct
  <2>1. ASSUME NEW d, d = <<>> PROVE d \in Seq(S) /\ pc = <<d>> \o ct
    BY <1>2, <2>1
  <2>2. ASSUME NEW d, d \in Seq(S), NEW q, q = <<d>> \o ct
        PROVE  /\ q \in Seq(Seq(S)) /\ Len(q) = 1 + Len(ct) /\ q[1] = d /\ (\A k \in 1 .. Len(ct) : q[k + 1] = ct[k])
               /\ Tail(q) = ct
    <3>1. /\ q \in Seq(Seq(S)) /\ Len(q) = 1 + Len(ct) /\ q[1] = d
          /\ \A k \in 1 .. Len(ct) : q[k + 1] = ct[k]
      BY ONLY <1>3, <2>2, PutFirst
    <3>2. q # <<>>
      BY <1>3, <3>1
    <3>3. Tail(q) \in Seq(Seq(S)) /\ Len(Tail(q)) = Len(ct) /\ \A k \in 1 .. Len(ct) : Tail(q)[k] = q[k + 1]
      BY <1>3, <3>1, <3>2
    <3>4. \A k \in 1 .. Len(Tail(q)) : Tail(q)[k] = ct[k]
      BY <3>1, <3>3
    <3>5. Tail(q) = ct
      BY ONLY <1>3, <3>3, <3>4, SameRow
    <3> QED  BY <3>1, <3>5
  <2> QED  BY <2>1, <2>2
<1>8. RestDoc(pc) = ct /\ Len(pc) > 1
  <2>1. Len(pc) > 1
    BY <1>3, <1>7
  <2>2. RootDoc(pc)
    BY <1>7, <2>1 DEF RootDoc
  <2> QED  BY <1>7, <2>1, <2>2, Zenon DEF RestDoc
<1>9. Means(b, path) <=> (\E c \in Range(pc) : c # <<>>) /\ InStep(ct, sc)
  BY <1>8, Zenon DEF Means, InStep, pc, sc
<1>10. InStep(ct, sc) => \E c \in Range(pc) : c # <<>>
  <2> SUFFICES ASSUME InStep(ct, sc) PROVE \E c \in Range(pc) : c # <<>>
    OBVIOUS
  <2>1. ct[1] # <<>> /\ pc[1 + 1] = ct[1] /\ 1 + 1 \in 1 .. Len(pc)
    BY <1>3, <1>6, <1>7
  <2>2. pc[1 + 1] \in Range(pc)
    BY <1>7, <2>1, RangeRow
  <2> QED  BY <2>1, <2>2, Zenon
<1> QED  BY <1>4, <1>5, <1>6, <1>9, <1>10, Zenon

\* With a separator further on.
LEMMA InnerMeans ==
    ASSUME NEW path \in Paths, "*" \notin Range(path), NEW S, NEW b \in Seq(S), b # <<>>, Head(b) # "/",
           \E i \in 1 .. Len(b) : b[i] = "/"
    PROVE  (Unrooted(b) # <<>> /\ Takes(b, path)) <=> Means(b, path)
<1> DEFINE pc == Components(b)
           sc == Components(path)
<1>1. Unrooted(b) = b /\ ~ RootedAt(b)
  BY Zenon DEF Unrooted, RootedAt
<1>2. /\ pc \in Seq(Seq(S)) /\ Len(pc) \in Nat /\ Len(pc) > 1 /\ pc[1] = PartAt(b, 1)
      /\ NextCut(b, 1) <= Len(b)
  BY CompsAre
<1>3. pc[1] # <<>>
  <2>1. PICK c : c = NextCut(b, 1)
    OBVIOUS
  <2>2. Len(b) \in Nat /\ 1 \in 1 .. Len(b) + 1 /\ b[1] # "/"
    OBVIOUS
  <2>3. c \in 1 .. Len(b) + 1 /\ c <= Len(b) /\ (c <= Len(b) => b[c] = "/")
    BY ONLY <1>2, <2>1, <2>2, CutsAt
  <2>4. c # 1
    BY <2>2, <2>3
  <2>5. Len(SubSeq(b, 1, c - 1)) = c - 1
    BY <2>3
  <2>6. SubSeq(b, 1, c - 1) # <<>>
    BY <2>3, <2>4, <2>5
  <2> QED  BY <1>2, <2>1, <2>6, Zenon DEF PartAt
<1>4. RestDoc(pc) = pc
  <2>1. ~ RootDoc(pc)
    BY <1>3, Zenon DEF RootDoc
  <2> QED  BY <2>1, Zenon DEF RestDoc
<1>5. "/" \in Range(b)
  BY RangeRow
<1>6. Takes(b, path) <=> InStep(pc, sc)
  <2>1. Takes(b, path) <=> MatchesAnchored(b, path)
    BY <1>1, <1>5, Zenon DEF Takes
  <2> QED  BY <2>1, AnchoredStands
<1>7. pc[1] \in Range(pc)
  BY <1>2, RangeRow
<1>8. Means(b, path) <=> InStep(pc, sc)
  BY <1>2, <1>3, <1>4, <1>7, Zenon DEF Means, InStep
<1> QED  BY <1>1, <1>6, <1>8, Zenon

\* Without any.
LEMMA PlainMeans ==
    ASSUME NEW path \in Paths, "*" \notin Range(path), NEW S, NEW b \in Seq(S),
           \A i \in 1 .. Len(b) : b[i] # "/"
    PROVE  (Unrooted(b) # <<>> /\ Takes(b, path)) <=> Means(b, path)
<1> DEFINE pc == Components(b)
           sc == Components(path)
<1>1. ~ RootedAt(b)
  BY DEF RootedAt
<1>2. Unrooted(b) = b
  BY <1>1, Zenon DEF Unrooted
<1>3. pc = <<b>>
  BY CompAlone
<1>4. "/" \notin Range(b)
  BY RangeRow
<1>5. /\ path # <<>> /\ Len(sc) \in Nat /\ DOMAIN sc = 1 .. Len(sc)
      /\ \A i \in 1 .. Len(sc) : Name(sc[i])
  BY PathComps
<1>6. \A c \in Range(sc) : GlobMatchOne(b, c) <=> Stands(b, c)
  <2> SUFFICES ASSUME NEW c \in Range(sc) PROVE GlobMatchOne(b, c) <=> Stands(b, c)
    OBVIOUS
  <2>1. PICK i \in 1 .. Len(sc) : c = sc[i]
    BY <1>5 DEF Range
  <2>2. Name(c)
    BY <1>5, <2>1
  <2> QED  BY <2>2, NameStands
<1>7. Takes(b, path) <=> \E c \in Range(sc) : Stands(b, c)
  <2>1. Takes(b, path) <=> MatchesAnyComponent(b, path)
    BY <1>1, <1>2, <1>4, Zenon DEF Takes
  <2>2. MatchesAnyComponent(b, path) <=> path # <<>> /\ \E c \in Range(sc) : GlobMatchOne(b, c)
    BY Zenon DEF MatchesAnyComponent
  <2> QED  BY <1>5, <1>6, <2>1, <2>2, Zenon
<1>8. Len(pc) = 1 /\ pc[1] = b /\ Range(pc) = {b}
  BY <1>3 DEF Range
<1>9. ~ (Len(pc) > 1)
  BY <1>8
<1>10. Means(b, path) <=> b # <<>> /\ \E c \in Range(sc) : Stands(b, c)
  <2>1. (\E c \in Range(pc) : c # <<>>) <=> b # <<>>
    BY <1>8
  <2> QED  BY <1>8, <1>9, <2>1, Zenon DEF Means
<1> QED  BY <1>2, <1>7, <1>10, Zenon

\* Whatever the pattern.
LEMMA BodyMeans ==
    ASSUME NEW path \in Paths, "*" \notin Range(path), NEW S, NEW b \in Seq(S)
    PROVE  (Unrooted(b) # <<>> /\ Takes(b, path)) <=> Means(b, path)
<1>1. CASE b # <<>> /\ Head(b) = "/"
  BY <1>1, RootedMeans
<1>2. CASE \A i \in 1 .. Len(b) : b[i] # "/"
  BY <1>2, PlainMeans
<1>3. CASE b # <<>> /\ Head(b) # "/" /\ \E i \in 1 .. Len(b) : b[i] = "/"
  BY <1>3, InnerMeans
<1>4. b = <<>> => \A i \in 1 .. Len(b) : b[i] # "/"
  OBVIOUS
<1> QED  BY <1>1, <1>2, <1>3, <1>4, Zenon

-----------------------------------------------------------------------------
(* The exclude list: a line.                                               *)

\* A bounded set of numbers that is not empty has a greatest one.
LEMMA Greatest ==
    ASSUME NEW S, NEW n \in Nat, S \subseteq 0 .. n, S # {}
    PROVE  Max(S) \in S /\ \A x \in S : Max(S) >= x
<1> DEFINE T == {n - x : x \in S}
<1>1. T \subseteq Nat /\ T # {}
  <2>1. \A x \in S : n - x \in Nat
    OBVIOUS
  <2>2. PICK x \in S : TRUE
    OBVIOUS
  <2>3. n - x \in T
    BY <2>2
  <2> QED  BY <2>1, <2>3
<1>2. Min(T) \in T /\ \A y \in T : Min(T) <= y
  <2> HIDE DEF T
  <2> QED  BY <1>1, Least
<1>3. PICK m \in S : Min(T) = n - m
  BY <1>2
<1>4. ASSUME NEW x \in S PROVE m >= x
  <2>1. n - x \in T
    OBVIOUS
  <2>2. n - m <= n - x
    BY <1>2, <1>3, <2>1
  <2> QED  BY <2>2
<1> HIDE DEF T
<1>5. \E e \in S : \A x \in S : e >= x
  BY <1>4
<1> QED  BY <1>5 DEF Max

Inked(l) == {i \in DOMAIN l : l[i] # " "}

\* The first and the last character that is not a blank.
Ends(l, i, j) ==
    /\ \A k \in (1 .. i - 1) \cup (j + 1 .. Len(l)) : l[k] = " "
    /\ l[i] # " " /\ l[j] # " "

\* Nothing is left of a blank line.
LEMMA StrippedBlank ==
    ASSUME NEW S, NEW l \in Seq(S), Inked(l) = {}
    PROVE  Stripped(l) = <<>> /\ \A i \in 1 .. Len(l) : \A j \in i .. Len(l) : ~ Ends(l, i, j)
<1>1. Stripped(l) = <<>>
  BY Zenon DEF Stripped, Inked
<1>2. ASSUME NEW i \in 1 .. Len(l), NEW j \in i .. Len(l), Ends(l, i, j) PROVE FALSE
  <2>1. i \in DOMAIN l
    OBVIOUS
  <2>2. l[i] # " "
    BY <1>2, Zenon DEF Ends
  <2>3. i \in Inked(l)
    BY <2>1, <2>2, Zenon DEF Inked
  <2> QED  BY <2>3
<1> QED  BY <1>1, <1>2

\* Of any other line what lies between its first and its last character is.
LEMMA StrippedInk ==
    ASSUME NEW S, NEW l \in Seq(S), Inked(l) # {}
    PROVE  \E i \in 1 .. Len(l) : \E j \in i .. Len(l) :
              /\ Ends(l, i, j) /\ Stripped(l) = SubSeq(l, i, j)
              /\ \A a \in 1 .. Len(l) : \A b \in a .. Len(l) : Ends(l, a, b) => a = i /\ b = j
<1> DEFINE A == Inked(l)
<1>0. Len(l) \in Nat /\ DOMAIN l = 1 .. Len(l) /\ A # {}
  OBVIOUS
<1>1. A \subseteq 1 .. Len(l) /\ \A k \in 1 .. Len(l) : k \in A <=> l[k] # " "
  BY <1>0, Zenon DEF Inked
<1>2. Stripped(l) = SubSeq(l, Min(A), Max(A))
  BY Zenon DEF Stripped, Inked
<1> HIDE DEF A
<1>3. PICK i, j : i = Min(A) /\ j = Max(A)
  OBVIOUS
<1>4. i \in A /\ \A x \in A : i <= x
  <2>1. A \subseteq Nat /\ A # {}
    <3>1. \A x \in 1 .. Len(l) : x \in Nat
      BY <1>0
    <3>2. A \subseteq Nat
      BY <1>1, <3>1, Zenon
    <3> QED  BY <1>0, <3>2, Zenon
  <2> QED  BY <1>3, <2>1, Least
<1>5. j \in A /\ \A x \in A : j >= x
  <2>1. A \subseteq 0 .. Len(l) /\ A # {}
    <3>1. \A x \in 1 .. Len(l) : x \in 0 .. Len(l)
      BY <1>0
    <3>2. A \subseteq 0 .. Len(l)
      BY <1>1, <3>1, Zenon
    <3> QED  BY <1>0, <3>2, Zenon
  <2> QED  BY ONLY <1>0, <1>3, <2>1, Greatest
<1>6. i \in Nat /\ j \in Nat /\ i \in 1 .. Len(l) /\ j \in i .. Len(l)
  <2>1. i \in 1 .. Len(l) /\ j \in 1 .. Len(l)
    BY <1>1, <1>4, <1>5
  <2>2. i <= j
    BY <1>4, <1>5
  <2> QED  BY ONLY <1>0, <2>1, <2>2
<1>7. Ends(l, i, j)
  <2>1. ASSUME NEW k \in (1 .. i - 1) \cup (j + 1 .. Len(l)) PROVE l[k] = " "
    <3>1. k \in 1 .. Len(l) /\ (k < i \/ k > j)
      BY <1>6
    <3>2. k \notin A
      BY <1>4, <1>5, <1>6, <3>1
    <3> QED  BY <1>1, <3>1, <3>2
  <2>2. l[i] # " " /\ l[j] # " "
    BY <1>1, <1>4, <1>5
  <2> QED  BY <2>1, <2>2 DEF Ends
<1>8. ASSUME NEW a \in 1 .. Len(l), NEW b \in a .. Len(l), Ends(l, a, b) PROVE a = i /\ b = j
  <2>0. a \in 1 .. Len(l) /\ b \in 1 .. Len(l) /\ a \in Nat /\ b \in Nat
    BY <1>0
  <2>1. a \in A /\ b \in A
    BY <1>1, <1>8, <2>0 DEF Ends
  <2>2. ~ (i < a)
    <3>1. i < a => i \in 1 .. a - 1
      BY <1>6
    <3> QED  BY <1>1, <1>4, <1>8, <3>1 DEF Ends
  <2>3. ~ (j > b)
    <3>1. j > b => j \in b + 1 .. Len(l)
      BY <1>0, <1>6, <2>0
    <3> QED  BY <1>1, <1>5, <1>8, <3>1 DEF Ends
  <2>4. i <= a /\ b <= j
    BY <1>4, <1>5, <2>1
  <2> QED  BY ONLY <1>6, <2>0, <2>2, <2>3, <2>4
<1>9. Stripped(l) = SubSeq(l, i, j)
  BY <1>2, <1>3, Zenon
<1> QED  BY ONLY <1>6, <1>7, <1>8, <1>9, Zenon

\* What exclude.h says of a stripped line.
BodyOf(n) == IF Last(n) = "/" THEN Front(n) ELSE n
DocSays(t, path, isDir) == (Last(t) = "/" => isDir) /\ Means(BodyOf(t), path)
Marks(l, i, j) == l[i] = "#" => i < j /\ l[i + 1] = "?"

DocAt(l, path, isDir, i, j) ==
    /\ \A k \in (1 .. i - 1) \cup (j + 1 .. Len(l)) : l[k] = " "
    /\ l[i] # " " /\ l[j] # " "
    /\ l[i] = "#" => i < j /\ l[i + 1] = "?"
    /\ LET t == Tokens(SubSeq(l, i, j))
           forDirs == Last(t) = "/"
           pc == Components(IF forDirs THEN Front(t) ELSE t)
           sc == Components(path)
           rooted == Len(pc) > 1 /\ pc[1] = <<>>
           rest == IF rooted THEN Tail(pc) ELSE pc
       IN  /\ forDirs => isDir
           /\ \E c \in Range(pc) : c # <<>>
           /\ IF Len(pc) > 1
              THEN Len(rest) = Len(sc) /\ \A k \in DOMAIN sc : Stands(rest[k], sc[k])
              ELSE \E c \in Range(sc) : Stands(pc[1], c)

\* exclude.h's words, with what they say of a stripped line apart.
LEMMA DocumentedIs ==
    \A l, path, isDir :
        Documented(l, path, isDir)
        <=> \E i \in 1 .. Len(l) : \E j \in i .. Len(l) :
                Ends(l, i, j) /\ Marks(l, i, j) /\ DocSays(Tokens(SubSeq(l, i, j)), path, isDir)
<1>1. ASSUME NEW l, NEW path, NEW isDir
      PROVE  Documented(l, path, isDir) <=> \E i \in 1 .. Len(l) : \E j \in i .. Len(l) : DocAt(l, path, isDir, i, j)
  BY Zenon DEF Documented, DocAt
<1>2. ASSUME NEW l, NEW path, NEW isDir, NEW i, NEW j
      PROVE  DocAt(l, path, isDir, i, j)
             <=> Ends(l, i, j) /\ Marks(l, i, j) /\ DocSays(Tokens(SubSeq(l, i, j)), path, isDir)
  BY Zenon DEF DocAt, Ends, Marks, DocSays, BodyOf, Means, RestDoc, RootDoc
<1> QED  BY <1>1, <1>2, Zenon

\* What the code makes of one.
CodeBody(n) == IF n # <<>> /\ Last(n) = "/" THEN Front(n) ELSE n
Rule(n) == [text |-> Unrooted(CodeBody(n)), dirOnly |-> (n # <<>> /\ Last(n) = "/"),
            anchored |-> (RootedAt(CodeBody(n)) \/ "/" \in Range(Unrooted(CodeBody(n))))]

\* amisnap_exclude_parse(): a rule, or none for a comment and for a lone '/'.
LEMMA PatternIs ==
    \A l : /\ IsComment(Stripped(l)) \/ Unrooted(CodeBody(Normal(Stripped(l)))) = <<>> => Pattern(l) = {}
           /\ ~ (IsComment(Stripped(l)) \/ Unrooted(CodeBody(Normal(Stripped(l)))) = <<>>)
              => Pattern(l) = {Rule(Normal(Stripped(l)))}
BY Zenon DEF Pattern, Unrooted, CodeBody, RootedAt, Rule

\* The fields of a rule.
LEMMA RuleFields ==
    ASSUME NEW a, NEW b, NEW c, NEW r, r = [text |-> a, dirOnly |-> b, anchored |-> c]
    PROVE  r.text = a /\ r.dirOnly = b /\ r.anchored = c
OBVIOUS

\* amisnap_exclude_match() of a list of one rule.
LEMMA RuleTakes ==
    ASSUME NEW n, n # <<>>, NEW path, NEW isDir
    PROVE  Excluded({Rule(n)}, path, isDir) <=> (Last(n) = "/" => isDir) /\ Takes(CodeBody(n), path)
<1>1. PICK r : r = Rule(n)
  OBVIOUS
<1>2. /\ r.text = Unrooted(CodeBody(n))
      /\ r.dirOnly = (n # <<>> /\ Last(n) = "/")
      /\ r.anchored = (RootedAt(CodeBody(n)) \/ "/" \in Range(Unrooted(CodeBody(n))))
  BY <1>1, RuleFields DEF Rule
<1>3. Excluded({r}, path, isDir) <=>
          /\ r.dirOnly => isDir
          /\ IF r.anchored THEN MatchesAnchored(r.text, path) ELSE MatchesAnyComponent(r.text, path)
  BY Zenon DEF Excluded
<1>4. (r.dirOnly => isDir) <=> (Last(n) = "/" => isDir)
  BY <1>2, Zenon
<1>5. (IF r.anchored THEN MatchesAnchored(r.text, path) ELSE MatchesAnyComponent(r.text, path))
      <=> Takes(CodeBody(n), path)
  BY <1>2, Zenon DEF Takes
<1> QED  BY <1>1, <1>3, <1>4, <1>5, Zenon

\* One line of the exclude file.
LEMMA LineMeans ==
    ASSUME NEW S, NEW l \in Seq(S), NEW path \in Paths, "*" \notin Range(path), NEW isDir
    PROVE  Excluded(Pattern(l), path, isDir) <=> Documented(l, path, isDir)
<1>0. Excluded({}, path, isDir) <=> FALSE
  BY Zenon DEF Excluded
<1>1. CASE Inked(l) = {}
  <2>1. Stripped(l) = <<>> /\ \A i \in 1 .. Len(l) : \A j \in i .. Len(l) : ~ Ends(l, i, j)
    BY <1>1, StrippedBlank
  <2>2. IsComment(Stripped(l))
    BY <2>1, Zenon DEF IsComment
  <2>3. Pattern(l) = {}
    BY <2>2, PatternIs, Zenon
  <2>4. ~ Documented(l, path, isDir)
    BY <2>1, DocumentedIs, Zenon
  <2> QED  BY <1>0, <2>3, <2>4, Zenon
<1>2. CASE Inked(l) # {}
  <2>1. PICK i \in 1 .. Len(l) : \E j \in i .. Len(l) :
              /\ Ends(l, i, j) /\ Stripped(l) = SubSeq(l, i, j)
              /\ \A a \in 1 .. Len(l) : \A b \in a .. Len(l) : Ends(l, a, b) => a = i /\ b = j
    BY <1>2, StrippedInk
  <2>2. PICK j \in i .. Len(l) :
              /\ Ends(l, i, j) /\ Stripped(l) = SubSeq(l, i, j)
              /\ \A a \in 1 .. Len(l) : \A b \in a .. Len(l) : Ends(l, a, b) => a = i /\ b = j
    BY <2>1
  <2>3. PICK t : t = SubSeq(l, i, j)
    OBVIOUS
  <2>4. /\ t \in Seq(S) /\ t # <<>> /\ t[1] = l[i] /\ Len(t) = j - i + 1
        /\ i < j => t[1 + 1] = l[i + 1]
    BY <2>3
  <2>5. Documented(l, path, isDir) <=> Marks(l, i, j) /\ DocSays(Tokens(t), path, isDir)
    BY <2>2, <2>3, DocumentedIs, Zenon
  <2>6. IsComment(t) <=> ~ Marks(l, i, j)
    <3>1. 1 < Len(t) <=> i < j
      BY <2>4
    <3>2. TokenAt(t, 1) <=> i < j /\ l[i] = "#" /\ l[i + 1] = "?"
      BY <2>4, <3>1, Zenon DEF TokenAt
    <3> QED  BY <2>4, <3>2, Zenon DEF IsComment, Marks
  <2>7. PICK n : n = Normal(t)
    OBVIOUS
  <2>8. n = Tokens(t) /\ n \in Seq(S \cup {"*"}) /\ n # <<>>
    BY <2>4, <2>7, NormalIsTokens
  <2>9. CodeBody(n) = BodyOf(n)
    BY <2>8, Zenon DEF CodeBody, BodyOf
  <2>10. BodyOf(n) \in Seq(S \cup {"*"})
    <3>1. Front(n) \in Seq(S \cup {"*"})
      BY <2>8 DEF Front
    <3> QED  BY <2>8, <3>1 DEF BodyOf
  <2>11. (Unrooted(BodyOf(n)) # <<>> /\ Takes(BodyOf(n), path)) <=> Means(BodyOf(n), path)
    BY <2>10, BodyMeans
  <2>12. Excluded({Rule(n)}, path, isDir) <=> (Last(n) = "/" => isDir) /\ Takes(BodyOf(n), path)
    BY <2>8, <2>9, RuleTakes
  <2>13. DocSays(Tokens(t), path, isDir) <=> (Last(n) = "/" => isDir) /\ Means(BodyOf(n), path)
    BY <2>8, Zenon DEF DocSays
  <2>14. Stripped(l) = t
    BY <2>2, <2>3
  <2>15. CASE IsComment(t) \/ Unrooted(BodyOf(n)) = <<>>
    <3>1. Pattern(l) = {}
      BY <2>7, <2>9, <2>14, <2>15, PatternIs, Zenon
    <3> QED  BY <1>0, <2>5, <2>6, <2>11, <2>13, <2>15, <3>1, Zenon
  <2>16. CASE ~ (IsComment(t) \/ Unrooted(BodyOf(n)) = <<>>)
    <3>1. Pattern(l) = {Rule(n)}
      BY <2>7, <2>9, <2>14, <2>16, PatternIs, Zenon
    <3> QED  BY <2>5, <2>6, <2>11, <2>12, <2>13, <2>16, <3>1, Zenon
  <2> QED  BY <2>15, <2>16
<1> QED  BY <1>1, <1>2

\* Every line that can be typed keeps out, of every source's entries, what
\* exclude.h says it keeps out (amisnap_exclude_parse(), amisnap_exclude_match()).
THEOREM ExcludeFollows ==
    ExcludeInit /\ [][ExcludeNext]_line => []ExcludesAsDocumented
<1> DEFINE Typed == line \in Seq(LineChars)
<1>1. ExcludeInit => Typed
  BY DEF ExcludeInit
<1>2. Typed /\ [ExcludeNext]_line => Typed'
  BY DEF ExcludeNext
<1>3. Typed => ExcludesAsDocumented
  <2> SUFFICES ASSUME Typed, NEW path \in Paths, "*" \notin Range(path), NEW isDir \in BOOLEAN
               PROVE  Excluded(Pattern(line), path, isDir) <=> Documented(line, path, isDir)
    BY Zenon DEF ExcludesAsDocumented
  <2> QED  BY LineMeans
<1> QED  BY <1>1, <1>2, <1>3, PTL
=============================================================================
