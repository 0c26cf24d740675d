---------------------------- MODULE RemoteServer ----------------------------
(***************************************************************************)
(* The other end of webdav.c and s3.c: what a WebDAV server or an S3       *)
(* service does with one request.  None of this is code of AmiSnap; it is  *)
(* what its two backends count on, and what the servers of its tests do.   *)
(* Requests and answers are records; how they are spelled is left out.     *)
(***************************************************************************)
EXTENDS Integers, Sequences, SequencesExt, FiniteSets

CONSTANTS
    Key,        \* keys, as sequences of names
    Name,       \* the names keys are made of
    Chunk,      \* units of content, as restore.c appends them
    Content,    \* the contents callers write: sequences of chunks
    Upload,     \* ids of multipart uploads, as many as there may be at a time
    PartSize,   \* the smallest part but the last, in chunks (5 MiB)
    PageSize,   \* names per page of a listing
    HeadLength, \* a HEAD answer announces the length of the object
    Absent,     \* nothing is stored
    NoUpload    \* not the id or the record of an upload

ASSUME SizeAssumption == PartSize \in Nat \ {0} /\ PageSize \in Nat \ {0}
ASSUME KeyAssumption == Key \subseteq Seq(Name) \ {<<>>}
ASSUME ContentAssumption ==
    Content \subseteq Seq(Chunk) /\ Absent \notin Seq(Chunk)
ASSUME UploadAssumption ==
    NoUpload \notin Upload \cup [key : Key, parts : Seq(Seq(Chunk))]
ASSUME HeadAssumption == HeadLength \in BOOLEAN

VARIABLES
    proto,      \* "webdav" or "s3"
    store,      \* what is stored at each key
    cols,       \* WebDAV collections; <<>> is the base path of the repository
    uploads     \* S3 multipart uploads under way

serverVars == <<proto, store, cols, uploads>>

\* Collections that have to exist for p to be one, outermost first.
WalkTo(p) == [n \in 1 .. Len(p) + 1 |-> SubSeq(p, 1, n - 1)]

CanCreate(p) == p = <<>> \/ Front(p) \in cols

\* What is directly below p: objects, collections, common prefixes.
Below(p) ==
    {k[Len(p) + 1] : k \in {q \in {k \in Key : store[k] # Absent} \cup cols :
                                IsStrictPrefix(p, q)}}

\* One page of a listing that goes on after the names in tok.
Page(r) ==
    LET rest == Below(r.path) \ r.tok
        size == IF proto = "s3" /\ Cardinality(rest) > PageSize
                THEN PageSize ELSE Cardinality(rest)
    IN  CHOOSE S \in SUBSET rest : Cardinality(S) = size

FreeUploads == {u \in Upload : uploads[u] = NoUpload}
FreeUpload == CHOOSE u \in Upload : uploads[u] = NoUpload

\* CompleteMultipartUpload: the parts named are those that are there, and
\* all but the last are large enough.
Completes(r) ==
    /\ r.up \in Upload /\ uploads[r.up] # NoUpload
    /\ Len(r.etags) \in 1 .. Len(uploads[r.up].parts)
    /\ \A n \in 1 .. Len(r.etags) :
           /\ r.etags[n] = uploads[r.up].parts[n]
           /\ n < Len(r.etags) => Len(r.etags[n]) >= PartSize

StatusOf(r) ==
    CASE r.m = "MKCOL" -> IF CanCreate(r.path) /\ r.path \notin cols
                          THEN "ok" ELSE "exists"
      [] r.m \in {"PUT", "STREAM"} -> IF proto = "s3" \/ CanCreate(r.path)
                                      THEN "ok" ELSE "exists"
      [] r.m = "GET" -> IF store[r.path] = Absent THEN "missing" ELSE "ok"
      [] r.m = "EXISTS" -> IF store[r.path] = Absent THEN "missing"
                           ELSE IF proto = "s3" /\ HeadLength /\ store[r.path] # <<>>
                           THEN "unfinished" ELSE "ok"
      [] r.m = "DELETE" -> IF proto = "webdav" /\ store[r.path] = Absent
                           THEN "missing" ELSE "ok"
      [] r.m = "LIST" -> IF proto = "webdav" /\ r.path \notin cols
                         THEN "missing" ELSE "ok"
      [] r.m = "INITIATE" -> IF FreeUploads # {} THEN "ok" ELSE "error"
      [] r.m \in {"PART", "ABORT"} -> IF r.up \in Upload /\ uploads[r.up] # NoUpload
                                      THEN "ok" ELSE "missing"
      [] r.m = "COMPLETE" -> IF Completes(r) THEN "ok" ELSE "missing"

\* The answer to r: content or ETag, the new upload's id, a page of names.
AnswerTo(r) ==
    [st |-> StatusOf(r),
     data |-> IF r.m = "GET" /\ StatusOf(r) = "ok" THEN store[r.path] ELSE r.data,
     id |-> IF r.m = "INITIATE" /\ FreeUploads # {} THEN FreeUpload ELSE NoUpload,
     names |-> IF r.m = "LIST" THEN Page(r) ELSE {},
     more |-> r.m = "LIST" /\ Below(r.path) \ r.tok # Page(r),
     req |-> r]

\* r is carried out.
Execute(r) ==
    /\ store' = IF StatusOf(r) # "ok" THEN store
                ELSE CASE r.m \in {"PUT", "STREAM"} -> [store EXCEPT ![r.path] = r.data]
                       [] r.m = "DELETE" -> [store EXCEPT ![r.path] = Absent]
                       [] r.m = "COMPLETE" -> [store EXCEPT ![r.path] = FlattenSeq(r.etags)]
                       [] OTHER -> store
    /\ cols' = IF r.m = "MKCOL" /\ StatusOf(r) = "ok" THEN cols \cup {r.path} ELSE cols
    /\ uploads' = IF StatusOf(r) # "ok" THEN uploads
                  ELSE CASE r.m = "INITIATE" ->
                              [uploads EXCEPT ![FreeUpload] = [key |-> r.path, parts |-> <<>>]]
                         [] r.m = "PART" ->
                              [uploads EXCEPT ![r.up].parts =
                                  IF r.n \in DOMAIN @ THEN [@ EXCEPT ![r.n] = r.data]
                                  ELSE Append(@, r.data)]
                         [] r.m \in {"COMPLETE", "ABORT"} -> [uploads EXCEPT ![r.up] = NoUpload]
                         [] OTHER -> uploads
    /\ UNCHANGED proto

\* A WebDAV client may leave a request body unfinished: nothing is stored.
ServerInit ==
    /\ proto \in {"webdav", "s3"}
    /\ store = [k \in Key |-> Absent]
    /\ cols = {}
    /\ uploads = [u \in Upload |-> NoUpload]
=============================================================================
