----------------------------- MODULE StoredForm -----------------------------
(***************************************************************************)
(* What an object and a manifest look like at the destination, and how     *)
(* they are read back: the frame of a compressed object (compress.c),      *)
(* encryption with a nonce derived from what is encrypted, and the checks  *)
(* on the way back (repo.c, repo_crypto.c).  Snapshots choose their own    *)
(* compression, prune deletes, and storage alters, cuts and misplaces.     *)
(*                                                                         *)
(* Hashes and MACs are taken for injective.  What decompression makes of   *)
(* the wrong bytes is a failure or Junk.  Lengths count the cells of a     *)
(* header, a nonce and a MAC, and content in units.                        *)
(***************************************************************************)
EXTENDS Integers, Sequences, FiniteSets

CONSTANTS
    Content,     \* contents of files and chunks
    Size,        \* [Content -> length]
    Packed,      \* [Content -> [{"lz4", "zlib"} -> length compressed]]
    Junk,        \* none of them
    Ids,         \* snapshot ids, in the order of the clock
    Missing      \* nothing is stored there

ASSUME SizeAssumption ==
    /\ Junk \notin Content /\ Missing \notin Content
    /\ Size \in [Content -> Nat]
    /\ Packed \in [Content -> [{"lz4", "zlib"} -> Nat]]
    /\ Ids \subseteq Nat /\ Ids \cap Content = {}

VARIABLES
    kind,        \* the repository: [cipher, framed]
    objects,     \* what is under objects/, by content address
    snapshots,   \* what is under snapshots/, by id
    decayed,     \* has storage failed
    clock,       \* the least id not yet used
    sealed,      \* every nonce ever used, with what it encrypted
    result       \* what the last call gave, if it was a read: [of, rc, got]

storedVars == <<kind, objects, snapshots, decayed, clock, sealed, result>>

Algs == {"stored", "lz4", "zlib"}
NoResult == [of |-> Missing, rc |-> "none", got |-> Missing]

StoredInit ==
    /\ kind \in [cipher : BOOLEAN, framed : BOOLEAN]
    /\ objects = [x \in Content |-> Missing]
    /\ snapshots = [i \in Ids |-> Missing]
    /\ decayed = FALSE
    /\ clock = 0
    /\ sealed = {}
    /\ result = NoResult

-----------------------------------------------------------------------------
(* Frames.  A text is what is encrypted, or stored as it is.               *)

HeaderSize == 1
Raw(x) == [alg |-> "none", usize |-> 0, by |-> "stored", of |-> x, len |-> Size[x]]
Frame(alg, x, len) == [alg |-> alg, usize |-> Size[x], by |-> alg, of |-> x, len |-> len]
Shrinks(alg, x) == alg # "stored" /\ Size[x] > 0 /\ Packed[x][alg] < Size[x]
FrameEncode(alg, x) ==
    IF Shrinks(alg, x) THEN Frame(alg, x, Packed[x][alg]) ELSE Frame("stored", x, Size[x])

Length(t) == t.len + IF t.alg = "none" THEN 0 ELSE HeaderSize
Whole(t) == t.of # Junk /\ t.len = IF t.by = "stored" THEN Size[t.of] ELSE Packed[t.of][t.by]
Refused(rc) == [rc |-> rc, got |-> Missing]
Gives(x) == [rc |-> "ok", got |-> x]

\* The outcomes of LZ4_decompress_safe() and mz_uncompress()
Unpacked(t, size) ==
    IF t.by = t.alg /\ Whole(t)
    THEN IF Size[t.of] = size THEN {Gives(t.of)} ELSE {Refused("malformed")}
    ELSE {Refused("malformed"), Gives(Junk)}

FrameDecode(t, size) ==
    IF t.alg = "cut" \/ t.usize # size THEN {Refused("malformed")}
    ELSE IF t.alg = "stored" /\ t.len # size THEN {Refused("malformed")}
    ELSE IF t.alg = "stored" THEN {Gives(IF t.by = "stored" /\ Whole(t) THEN t.of ELSE Junk)}
    ELSE IF t.alg \in {"lz4", "zlib"} THEN Unpacked(t, size)
    ELSE {Refused("critical")}

-----------------------------------------------------------------------------
(* Encryption: the nonce, the ciphertext, and a MAC over both.             *)

Overhead == 2                \* a nonce and a MAC
ObjectNonceOfContent(x, t) == <<"object", x>>  \* mutant: of the content, not of the text
ObjectNonce(x, t) == <<"object", t>>
ManifestNonce(id) == <<"manifest", id>>

Seal(nonce, t) == [nonce |-> nonce, text |-> t, mac |-> <<nonce, t>>]
Plainly(t) == [nonce |-> <<"none">>, text |-> t, mac |-> <<"none">>]
Opens(f) == f.mac = <<f.nonce, f.text>>
FrameLength(f) == Length(f.text) + IF f.nonce = <<"none">> THEN 0 ELSE Overhead

-----------------------------------------------------------------------------
(* Objects: write_object() and amisnap_repo_fetch_object()                 *)

TextOf(x, alg) == IF kind.framed THEN FrameEncode(alg, x) ELSE Raw(x)

WriteObject ==
    /\ \E x \in Content, alg \in IF kind.framed THEN Algs ELSE {"stored"} :
          /\ objects[x] = Missing
          /\ \E t \in {TextOf(x, alg)} :
             \E n \in {ObjectNonce(x, t)} :
                /\ objects' = [objects EXCEPT ![x] = IF kind.cipher THEN Seal(n, t) ELSE Plainly(t)]
                /\ sealed' = IF kind.cipher THEN sealed \cup {<<n, t>>} ELSE sealed
    /\ result' = NoResult
    /\ UNCHANGED <<kind, snapshots, decayed, clock>>

PruneObject ==
    /\ \E x \in Content : objects[x] # Missing /\ objects' = [objects EXCEPT ![x] = Missing]
    /\ result' = NoResult
    /\ UNCHANGED <<kind, snapshots, decayed, clock, sealed>>

GoodLengthShort(f, x) ==     \* mutant: the frame's own header is forgotten
    IF kind.framed
    THEN FrameLength(f) >= Overhead + HeaderSize /\ FrameLength(f) <= Overhead + Size[x]
    ELSE FrameLength(f) = Overhead + Size[x]

\* The length an encrypted object may have
GoodLength(f, x) ==
    IF kind.framed
    THEN FrameLength(f) >= Overhead + HeaderSize
         /\ FrameLength(f) <= Overhead + HeaderSize + Size[x]
    ELSE FrameLength(f) = Overhead + Size[x]

\* The content of a text; it is Junk if anything happened to it.
Contents(t, x) ==
    IF kind.framed THEN FrameDecode(t, Size[x])
    ELSE IF t.alg = "none" /\ t.len = Size[x] THEN {Gives(IF Whole(t) THEN t.of ELSE Junk)}
    ELSE {Refused("malformed")}

HashedNever(r, x) == r       \* mutant: the content is not hashed
Hashed(r, x) == IF r.rc = "ok" /\ r.got # x THEN Refused("mismatch") ELSE r

Fetched(f, x) ==
    IF kind.cipher /\ ~GoodLength(f, x) THEN {Refused("malformed")}
    ELSE IF kind.cipher /\ ~Opens(f) THEN {Refused("mismatch")}
    ELSE {Hashed(r, x) : r \in Contents(f.text, x)}

FetchObject ==
    /\ \E x \in Content :
          /\ objects[x] # Missing
          /\ \E r \in Fetched(objects[x], x) : result' = [of |-> x, rc |-> r.rc, got |-> r.got]
    /\ UNCHANGED <<kind, objects, snapshots, decayed, clock, sealed>>

-----------------------------------------------------------------------------
(* Manifests: what finish() stores and amisnap_repo_open_manifest() opens. *)
(* The text of a manifest is a number of its own.                          *)

ManifestText(id) == [alg |-> "manifest", usize |-> 0, by |-> "manifest", of |-> id, len |-> 1]

Commit ==
    /\ clock \in Ids
    /\ LET t == ManifestText(clock)
           n == ManifestNonce(clock)
       IN  /\ snapshots' = [snapshots EXCEPT ![clock] = IF kind.cipher THEN Seal(n, t) ELSE Plainly(t)]
           /\ sealed' = IF kind.cipher THEN sealed \cup {<<n, t>>} ELSE sealed
    /\ clock' = clock + 1
    /\ result' = NoResult
    /\ UNCHANGED <<kind, objects, decayed>>

PruneSnapshot ==
    /\ \E i \in Ids : snapshots[i] # Missing /\ snapshots' = [snapshots EXCEPT ![i] = Missing]
    /\ result' = NoResult
    /\ UNCHANGED <<kind, objects, decayed, clock, sealed>>

OpenedAnyNonce(f, id) ==     \* mutant: the nonce is not compared with the id's
    IF kind.cipher /\ f.nonce = <<"none">> THEN Refused("missing")
    ELSE IF ~kind.cipher /\ f.nonce # <<"none">> THEN Refused("missing")
    ELSE IF kind.cipher /\ ~Opens(f) THEN Refused("mismatch")
    ELSE Gives(f.text.of)

\* A plain manifest is refused in an encrypted repository, and the other way.
Opened(f, id) ==
    IF kind.cipher /\ f.nonce = <<"none">> THEN Refused("missing")
    ELSE IF ~kind.cipher /\ f.nonce # <<"none">> THEN Refused("missing")
    ELSE IF kind.cipher /\ f.nonce # ManifestNonce(id) THEN Refused("malformed")
    ELSE IF kind.cipher /\ ~Opens(f) THEN Refused("mismatch")
    ELSE Gives(f.text.of)

OpenManifest ==
    /\ \E i \in Ids :
          /\ snapshots[i] # Missing
          /\ \E r \in {Opened(snapshots[i], i)} : result' = [of |-> i, rc |-> r.rc, got |-> r.got]
    /\ UNCHANGED <<kind, objects, snapshots, decayed, clock, sealed>>

-----------------------------------------------------------------------------
(* Storage, once: a field altered, a file cut or misplaced.                *)

Altered(f) ==
    {[f EXCEPT !.text.alg = a] : a \in Algs \cup {"other", "cut"}}
        \cup {[f EXCEPT !.text.usize = @ + 1], [f EXCEPT !.text.of = Junk],
              [f EXCEPT !.mac = <<"altered">>], [f EXCEPT !.text.len = @ - 1]}
        \cup IF kind.cipher THEN {[f EXCEPT !.nonce = <<"altered">>]} ELSE {}

StorageFails ==
    /\ ~decayed
    /\ decayed' = TRUE
    /\ \/ \E x, y \in Content :
             /\ objects[x] # Missing /\ objects[y] # Missing
             /\ objects' \in {[objects EXCEPT ![x] = g] : g \in Altered(objects[x])}
                               \cup {[objects EXCEPT ![x] = objects[y]]}
             /\ UNCHANGED snapshots
       \/ \E i, j \in Ids :
             /\ snapshots[i] # Missing /\ snapshots[j] # Missing
             /\ snapshots' \in {[snapshots EXCEPT ![i] = g] : g \in Altered(snapshots[i])}
                                 \cup {[snapshots EXCEPT ![i] = snapshots[j]],
                                       [snapshots EXCEPT ![i] = Plainly(ManifestText(j))]}
             /\ UNCHANGED objects
    /\ result' = NoResult
    /\ UNCHANGED <<kind, clock, sealed>>

StoredNext ==
    \/ WriteObject \/ PruneObject \/ FetchObject
    \/ Commit \/ PruneSnapshot \/ OpenManifest
    \/ StorageFails

-----------------------------------------------------------------------------
(* Properties.                                                             *)

\* amisnap_repo_fetch_object() gives the content that was asked for or an
\* error, whatever storage did to it, and whichever object it returned.
FetchedIsContent ==
    result.of \in Content /\ result.rc = "ok" => result.got = result.of

\* In an encrypted repository a manifest that opens is the one that was
\* committed under its id: neither another snapshot's nor a plain one.
ManifestIsItsOwn ==
    kind.cipher /\ result.of \in Ids /\ result.rc = "ok" => result.got = result.of

\* Until storage fails, everything stored is read back, however the snapshot
\* that stored it compressed it.
IntactIsRead == ~decayed => result.rc \in {"none", "ok"}

\* repo_crypto.h "a nonce can only repeat if the bytes it's protecting are
\* identical too": through prunes and later snapshots with another COMPRESS.
OneNonceOneText == \A p, q \in sealed : p[1] = q[1] => p[2] = q[2]

\* What is stored is read back as it was, or refused because of a fault; and
\* nothing two texts have in common is kept secret by the same nonce.
ReadsWhatWasStored ==
    FetchedIsContent /\ ManifestIsItsOwn /\ IntactIsRead /\ OneNonceOneText
=============================================================================
