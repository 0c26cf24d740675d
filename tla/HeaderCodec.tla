---------------------------- MODULE HeaderCodec ----------------------------
(***************************************************************************)
(* The file amisnap.repo: what INIT and REKEY write (repo_header.c), and   *)
(* how a command opens it: decode, ask for the passphrase, derive the      *)
(* wrapping key, unwrap.  It has no digest of its own; storage may change  *)
(* it.  When INIT and REKEY run, and beside what, is RepoFormat's subject. *)
(***************************************************************************)
EXTENDS Tlv

CONSTANTS
    Passphrases,   \* numbers
    Salts,         \* what calibrate_and_wrap() may draw, and how many
    Iterations,    \* iterations it may settle on
    SaltRoom,      \* the longest salt a reader has room for: 64 bytes
    HeaderDecay    \* what a decayed cell may hold

VARIABLES
    wanted,   \* what the repository is: [cipher, framed, pass]
    header,   \* amisnap.repo
    damaged,  \* has storage changed it
    opened    \* what the last command to open it found

headerVars == <<wanted, header, damaged, opened>>

RepoTag == 101
RepoLayout == <<Must(110, 1), Must(111, 1), May(116, 1), May(17, 1), May(12, 1),
                May(113, Kdf), May(114, 1), May(15, String)>>
RepoKey == "key"
NoKey == "none"
Unread == [rc |-> "unread", framed |-> FALSE, key |-> NoKey, typed |-> 0]

HeaderInit ==
    /\ wanted \in [cipher : BOOLEAN, framed : BOOLEAN, pass : Passphrases]
    /\ wanted.cipher \/ wanted.framed
    /\ header = <<>> /\ damaged = FALSE
    /\ opened = Unread

-----------------------------------------------------------------------------
(* WRAPPED_KEY: the repository key under what PBKDF2 makes of a            *)
(* passphrase, a salt and a number of iterations.                          *)

WrapKey(pass, salt, iters) == <<pass, salt, iters>>
Wrap(kwrap, key) == <<"wrapped", kwrap, key>>
Unwrap(kwrap, c) ==
    IF Len(c) = 3 /\ c[2] = kwrap THEN [rc |-> "ok", key |-> c[3]]
    ELSE [rc |-> "mismatch", key |-> NoKey]

-----------------------------------------------------------------------------
(* Writing.                                                                *)

Id == <<Num(3)>>
App == <<Num(60)>>

\* amisnap_repo_header_encode(), of fields that agree
HeaderFile(m) == FileHeader(1, 0) \o Field(RepoTag, Body(RepoLayout, m))

LockedShort(m, pass, salt, iters) ==  \* mutant: the last of the salt is not written
    With(With(With(m, 111, <<Num(1)>>), 113, <<Num(1), Num(iters)>> \o Front(salt)),
         114, <<Wrap(WrapKey(pass, salt, iters), RepoKey)>>)

\* CIPHER 1: a KDF and a wrapped key; else neither.
Locked(m, pass, salt, iters) ==
    With(With(With(m, 111, <<Num(1)>>), 113, <<Num(1), Num(iters)>> \o salt),
         114, <<Wrap(WrapKey(pass, salt, iters), RepoKey)>>)
Basic == With(With(With(With(Empty(RepoLayout), 110, Id), 111, <<Num(0)>>), 116, <<Num(0)>>),
              15, App)
Framed(m) == With(With(m, 116, <<Num(1)>>), 17, <<Num(2)>>)

InitWrites ==
    /\ header = <<>>
    /\ LET chunked == With(Basic, 12, <<Num(5)>>)
           m == IF wanted.framed THEN Framed(chunked) ELSE chunked
       IN  \/ ~wanted.cipher /\ header' = HeaderFile(m)
           \/ /\ wanted.cipher
              /\ \E s \in Salts, n \in Iterations :
                    header' = HeaderFile(Locked(m, wanted.pass, s, n))
    /\ UNCHANGED <<wanted, damaged, opened>>

-----------------------------------------------------------------------------
(* Storage changes a cell, or cuts or extends the file.                    *)

HeaderDecays ==
    /\ header # <<>> /\ ~damaged
    /\ header' \in {SubSeq(header, 1, n) : n \in 1 .. Len(header) - 1}
                     \cup {[header EXCEPT ![i] = Num(d)] : i \in DOMAIN header, d \in HeaderDecay}
                     \cup {header \o Field(t, <<>>) : t \in {9, 109}}
    /\ damaged' = TRUE
    /\ opened' = Unread
    /\ UNCHANGED wanted

-----------------------------------------------------------------------------
(* Reading.                                                                *)

Scalar(m, tag, default) == IF m[tag] = <<>> THEN default ELSE Number(m[tag][1][1])
Known(m) == Scalar(m, 111, 0) \in {0, 1} /\ Scalar(m, 116, 0) \in {0, 1}
AgreesLenient(m) ==          \* mutant: CIPHER 0 with a wrapped key is taken
    Scalar(m, 111, 0) # 0 => m[113] # <<>> /\ m[114] # <<>>
Agrees(m) ==
    IF Scalar(m, 111, 0) = 0 THEN m[113] = <<>> /\ m[114] = <<>>
    ELSE m[113] # <<>> /\ m[114] # <<>>

\* The file holds one record and nothing else.
ReadRepo(file) ==
    LET bad(rc) == [rc |-> rc, m |-> Empty(RepoLayout)] IN
    IF HeaderVerdict(file, 1) # "ok" THEN bad(HeaderVerdict(file, 1))
    ELSE The({IF f.rc = "truncated" THEN bad("truncated")
              ELSE IF f.rc = "end" \/ f.tag # RepoTag THEN bad("missing")
              ELSE IF CursorField(file, f.next).rc # "end" THEN bad("malformed")
              ELSE The({IF d.rc # "ok" THEN bad(d.rc)
                        ELSE IF ~Known(d.m) THEN bad("critical")
                        ELSE IF ~Agrees(d.m) THEN bad("malformed")
                        ELSE d :
                          d \in {Decode(RepoLayout, f.value, 1)}})
              : f \in {CursorField(file, 5)}})

\* open_repo_key() with the passphrase typed
Opening(m, typed) ==
    LET framed == Scalar(m, 116, 0) = 1
        salt == SubSeq(m[113][1], 3, Len(m[113][1]))
        iters == Number(m[113][1][2])
        u == Unwrap(WrapKey(typed, salt, iters), m[114][1][1])
        found(rc, key) == [rc |-> rc, framed |-> framed, key |-> key, typed |-> typed]
    IN  IF Scalar(m, 111, 0) = 0 THEN found("ok", NoKey)
        ELSE IF Len(salt) > SaltRoom THEN found("toolong", NoKey)
        ELSE found(u.rc, u.key)

OpenRepository ==
    /\ header # <<>> /\ opened = Unread
    /\ \E d \in {ReadRepo(header)}, typed \in Passphrases :
          opened' = IF d.rc # "ok" THEN [Unread EXCEPT !.rc = d.rc]
                    ELSE Opening(d.m, typed)
    /\ UNCHANGED <<wanted, header, damaged>>

\* cmd_rekey(): the key unwrapped with the current passphrase goes into a
\* new header, which keeps the chunk size but not OBJCOMP.
RekeyWrites ==
    /\ header # <<>>
    /\ \E d \in {ReadRepo(header)}, old, new \in Passphrases, s \in Salts, n \in Iterations :
          /\ d.rc = "ok" /\ Scalar(d.m, 111, 0) # 0
          /\ Opening(d.m, old).rc = "ok"
          /\ header' = HeaderFile(Locked([Basic EXCEPT ![12] = d.m[12], ![110] = d.m[110]],
                                         new, s, n))
          /\ wanted' = [wanted EXCEPT !.pass = new, !.framed = FALSE]
    /\ damaged' = FALSE
    /\ opened' = Unread

HeaderNext == InitWrites \/ HeaderDecays \/ OpenRepository \/ RekeyWrites

-----------------------------------------------------------------------------
(* Properties.                                                             *)

\* open_repo_key "never a silent fall-through to unencrypted access", with a
\* header one cell of which was changed, or which was cut or extended: a
\* repository INIT encrypted is refused or opened with its own key, and one
\* that is plain is never opened with a key.
OpensAsItIsOrNot ==
    opened.rc = "ok" => opened.key = IF wanted.cipher THEN RepoKey ELSE NoKey

\* A header storage left alone opens with the passphrase given to INIT or to
\* the last REKEY, with no other, and says how objects are encoded.
OpensWithItsPassphrase ==
    ~damaged /\ opened # Unread =>
        /\ opened.rc = "ok" <=> ~wanted.cipher \/ opened.typed = wanted.pass
        /\ opened.rc = "ok" => opened.framed = wanted.framed

\* amisnap_repo_header_decode(), open_repo_key(): a header storage left alone is
\* opened as what INIT and REKEY made it.  Of a damaged one only the key is sure,
\* that the repository's own is used or none: OBJCOMP and CHUNK_SIZE are read as
\* they now stand, for nothing in the header checks them, and an object read
\* under the wrong OBJCOMP fails at its frame or its digest.
OpensOnlyAsItIs == OpensAsItIsOrNot /\ OpensWithItsPassphrase
=============================================================================
