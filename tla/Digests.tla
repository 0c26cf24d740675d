------------------------------- MODULE Digests -------------------------------
(***************************************************************************)
(* The hashes a repository rests on, fed as repo.c, repo_crypto.c and      *)
(* sigv4.c feed them: a piece at a time, cut wherever a read or a buffer   *)
(* happened to end.  BLAKE2s with and without a key (blake2s.c), SHA-256   *)
(* (sha256.c), HMAC over it (hmac_sha256.c), XXH32 (xxhash32.c), and the   *)
(* key derivation built on HMAC (pbkdf2.c).                                *)
(*                                                                         *)
(* The compression functions are injective terms, one within the other;    *)
(* what is modelled is what surrounds them: the buffer of a partial block, *)
(* which block is the last, the counters and the padding.  A byte is <<n>>;*)
(* other cells are terms.                                                  *)
(***************************************************************************)
EXTENDS Integers, Sequences, FiniteSets

CONSTANTS
    Bytes,       \* what an input is made of: numbers
    Block,       \* bytes of a block: 64; a stripe of XXH32 has 16
    Word,        \* bytes of a word of XXH32: 4
    DigestLen,   \* bytes of a digest: 32
    MaxInput,    \* an input has at most so many
    Keys,        \* keys of a MAC
    Secrets,     \* passphrases of a derivation
    DeriveSalts  \* and its salts

Zero == <<0>>
Byte == [{1} -> 0 .. 255]

\* A key is not empty.  Two keys do not differ in zeros at the end of the longer
\* one alone: a passphrase is a string, and other keys are of one length.
ASSUME BlockAssumption ==
    /\ Block \in Nat \ {0} /\ Word \in 1 .. Block /\ DigestLen \in 1 .. Block
    /\ Bytes \subseteq 0 .. 255 /\ MaxInput \in Nat
    /\ \A k \in Keys : k \in Seq(Byte) /\ k # <<>>
    /\ \A k \in Secrets \cup DeriveSalts : k \in Seq(Byte)
    /\ \A S \in {Keys, Secrets} : \A k, l \in S : Len(k) < Len(l) =>
          \E i \in Len(k) + 1 .. Len(l) : l[i] # Zero

VARIABLES
    hasher,      \* the context of a hash: [alg, key, h, buf, count]
    fed,         \* all it was fed
    digest,      \* what it gave
    derived      \* keys derived: [pass, salt, iters, out]

digestVars == <<hasher, fed, digest, derived>>

Mark == <<128>>
Pad(d, n) == d \o [i \in 1 .. n - Len(d) |-> Zero]
Blocks(d) == Len(d) \div Block
BlockAt(d, i) == SubSeq(d, (i - 1) * Block + 1, i * Block)
Beyond(d, k) == SubSeq(d, k * Block + 1, Len(d))

\* A compression of x on top of h, and of one after the other.
Compress(h, x) == <<h, x>>
Over(h, xs) ==
    LET f[i \in 0 .. Len(xs)] == IF i = 0 THEN h ELSE Compress(f[i - 1], xs[i])
    IN  f[Len(xs)]

-----------------------------------------------------------------------------
(* BLAKE2s: the counter and the last block's flag go into every block, so  *)
(* a full block waits until more arrives.                                  *)

BlakeItem(b, t, last) == <<b, t, last>>
BlakeIV(key) == <<"blake2s", Len(key), DigestLen>>

BlakeUpdateEager(c, p) ==    \* mutant: a full block does not wait
    LET all == c.buf \o p
        k == Blocks(all)
    IN  [c EXCEPT !.h = Over(@, [i \in 1 .. k |->
                                    BlakeItem(BlockAt(all, i), c.count + i * Block, FALSE)]),
                  !.buf = Beyond(all, k), !.count = @ + k * Block]

BlakeUpdate(c, p) ==
    LET all == c.buf \o p
        k == IF all = <<>> THEN 0 ELSE (Len(all) - 1) \div Block
    IN  [c EXCEPT !.h = Over(@, [i \in 1 .. k |->
                                    BlakeItem(BlockAt(all, i), c.count + i * Block, FALSE)]),
                  !.buf = Beyond(all, k), !.count = @ + k * Block]

\* amisnap_blake2s_init() and amisnap_blake2s_init_key(): a key is a block.
BlakeInit(key) ==
    BlakeUpdate([alg |-> "blake2s", key |-> key, h |-> BlakeIV(key), buf |-> <<>>, count |-> 0],
                IF key = <<>> THEN <<>> ELSE Pad(key, Block))

BlakeFinalUncounted(c) ==    \* mutant: the last block is not counted
    Compress(c.h, BlakeItem(Pad(c.buf, Block), c.count, TRUE))
BlakeFinal(c) == Compress(c.h, BlakeItem(Pad(c.buf, Block), c.count + Len(c.buf), TRUE))

-----------------------------------------------------------------------------
(* SHA-256: whole blocks go as they come; the mark, zeroes and the length  *)
(* end the last one, or the one after it.                                  *)

LengthAt == Block - 1        \* the length takes the last of a block: 8 bytes of 64

ShaInit == [alg |-> "sha256", key |-> <<>>, h |-> <<"sha256">>, buf |-> <<>>, count |-> 0]
ShaUpdate(c, p) ==
    LET all == c.buf \o p
        k == Blocks(all)
    IN  [c EXCEPT !.h = Over(@, [i \in 1 .. k |-> BlockAt(all, i)]), !.buf = Beyond(all, k),
                  !.count = @ + Len(p)]
ShaFinal(c) ==
    LET marked == Append(c.buf, Mark)
        fits == Len(marked) <= LengthAt
        h == IF fits THEN c.h ELSE Compress(c.h, Pad(marked, Block))
    IN  Compress(h, Append(Pad(IF fits THEN marked ELSE <<>>, LengthAt), <<c.count>>))

\* The bytes of a digest
Spread(x) == [i \in 1 .. DigestLen |-> <<"digest", i, x>>]
Sha(m) == ShaFinal(ShaUpdate(ShaInit, m))

-----------------------------------------------------------------------------
(* HMAC: a key longer than a block is hashed, a shorter one padded.        *)

BlockKey(key) == Pad(IF Len(key) > Block THEN Spread(Sha(key)) ELSE key, Block)
Xored(key, with) == [i \in 1 .. Block |-> <<with, BlockKey(key)[i]>>]
HmacInit(key) ==
    [ShaUpdate(ShaInit, Xored(key, "ipad")) EXCEPT !.alg = "hmac", !.key = key]
HmacFinal(c) ==
    ShaFinal(ShaUpdate(ShaUpdate(ShaInit, Xored(c.key, "opad")), Spread(ShaFinal(c))))
Hmac(key, m) == HmacFinal(ShaUpdate(HmacInit(key), m))

-----------------------------------------------------------------------------
(* XXH32: stripes go into accumulators, what is left at the end by words   *)
(* and then by bytes; an input shorter than a stripe never used them.      *)

Words(d) == Len(d) \div Word
Avalanche(h, total, tail) ==
    <<h, total, [i \in 1 .. Words(tail) |-> SubSeq(tail, (i - 1) * Word + 1, i * Word)],
      SubSeq(tail, Words(tail) * Word + 1, Len(tail))>>

XxhInit == [alg |-> "xxh32", key |-> <<>>, h |-> <<"seed">>, buf |-> <<>>, count |-> 0]
XxhFilled(c, b) == [c EXCEPT !.h = Compress(@, b), !.buf = <<>>]
XxhStripes(c, p) ==
    [c EXCEPT !.h = Over(@, [i \in 1 .. Blocks(p) |-> BlockAt(p, i)]),
              !.buf = Beyond(p, Blocks(p))]
XxhUpdate(c, p) ==
    LET counted == [c EXCEPT !.count = @ + Len(p)]
        fill == Block - Len(c.buf)
    IN  IF Len(c.buf) + Len(p) < Block THEN [counted EXCEPT !.buf = @ \o p]
        ELSE IF c.buf # <<>> THEN XxhStripes(XxhFilled(counted, c.buf \o SubSeq(p, 1, fill)),
                                        SubSeq(p, fill + 1, Len(p)))
        ELSE XxhStripes(counted, p)
XxhFinal(c) ==
    Avalanche(IF c.count >= Block THEN <<"merged", c.h>> ELSE <<"seed">>, c.count, c.buf)

-----------------------------------------------------------------------------
(* PBKDF2: blocks of the key, each the exclusive or of a chain of HMACs,   *)
(* here the set of its links.                                              *)

Chain(pass, salt, iters, idx) ==
    LET u[n \in 1 .. iters] ==
            Spread(IF n = 1 THEN Hmac(pass, salt \o <<<<"index", idx>>>>)
                   ELSE Hmac(pass, u[n - 1]))
    IN  {u[n] : n \in 1 .. iters}
AtLeastOne(iters) == IF iters = 0 THEN 1 ELSE iters
DerivedSame(pass, salt, iters, blocks) ==  \* mutant: the block's number stands still
    [i \in 1 .. blocks |-> Chain(pass, salt, AtLeastOne(iters), 1)]
Derived(pass, salt, iters, blocks) ==
    [i \in 1 .. blocks |-> Chain(pass, salt, AtLeastOne(iters), i)]

-----------------------------------------------------------------------------
(* The machine: a hash is begun, fed and finished; or, instead, keys are   *)
(* derived.                                                                *)

NoDigest == <<>>
Starts == {BlakeInit(k) : k \in {x \in Keys \cup {<<>>} : Len(x) <= DigestLen}} \cup {ShaInit, XxhInit}
            \cup {HmacInit(k) : k \in Keys}

Updated(c, p) ==
    CASE c.alg = "blake2s" -> BlakeUpdate(c, p)
      [] c.alg = "xxh32" -> XxhUpdate(c, p)
      [] OTHER -> ShaUpdate(c, p)
Finalised(c) ==
    CASE c.alg = "blake2s" -> BlakeFinal(c)
      [] c.alg = "xxh32" -> XxhFinal(c)
      [] c.alg = "hmac" -> HmacFinal(c)
      [] OTHER -> ShaFinal(c)

Inputs(n) == UNION {[1 .. i -> {<<b>> : b \in Bytes}] : i \in 0 .. n}

DigestInit ==
    /\ hasher \in Starts
    /\ fed = <<>> /\ digest = NoDigest /\ derived = {}

HashUpdate ==
    /\ digest = NoDigest /\ derived = {}
    /\ \E p \in Inputs(MaxInput - Len(fed)) :
          /\ hasher' = Updated(hasher, p)
          /\ fed' = fed \o p
    /\ UNCHANGED <<digest, derived>>

HashFinal ==
    /\ digest = NoDigest /\ derived = {}
    /\ digest' = Finalised(hasher)
    /\ UNCHANGED <<hasher, fed, derived>>

\* calibrate_and_wrap(), open_repo_key(): of up to two of them
DeriveKey ==
    /\ hasher = ShaInit /\ digest = NoDigest /\ Cardinality(derived) < 2
    /\ \E pass \in Secrets, salt \in DeriveSalts, n \in 0 .. 3, blocks \in 1 .. 2 :
          derived' = derived \cup
              {[pass |-> pass, salt |-> salt, iters |-> n, out |-> Derived(pass, salt, n, blocks)]}
    /\ UNCHANGED <<hasher, fed, digest>>

DigestNext == HashUpdate \/ HashFinal \/ DeriveKey

-----------------------------------------------------------------------------
(* The functions the standards define, of the whole input at once.         *)

\* RFC 7693, 3.3
RefBlake(key, m) ==
    LET d == (IF key = <<>> THEN <<>> ELSE Pad(key, Block)) \o m
        n == IF d = <<>> THEN 1 ELSE (Len(d) + Block - 1) \div Block
    IN  Over(BlakeIV(key), [i \in 1 .. n |->
                               BlakeItem(BlockAt(Pad(d, n * Block), i),
                                         IF i = n THEN Len(d) ELSE i * Block, i = n)])

\* FIPS 180-4, 5.1.1 and 6.2
RefSha(m) ==
    LET n == (Len(m) + 1 + (Block - LengthAt) + Block - 1) \div Block
        d == Append(Pad(Append(m, Mark), n * Block - 1), <<Len(m)>>)
    IN  Over(<<"sha256">>, [i \in 1 .. n |-> BlockAt(d, i)])

\* RFC 2104
RefHmac(key, m) ==
    RefSha(Xored(key, "opad") \o Spread(RefSha(Xored(key, "ipad") \o m)))

\* amisnap_xxh32(), over the whole input
RefXxh(m) ==
    LET acc == Over(<<"seed">>, [i \in 1 .. Blocks(m) |-> BlockAt(m, i)])
    IN  Avalanche(IF Blocks(m) > 0 THEN <<"merged", acc>> ELSE <<"seed">>,
                  Len(m), Beyond(m, Blocks(m)))

Reference(c, m) ==
    CASE c.alg = "blake2s" -> RefBlake(c.key, m)
      [] c.alg = "xxh32" -> RefXxh(m)
      [] c.alg = "hmac" -> RefHmac(c.key, m)
      [] OTHER -> RefSha(m)

OneShots == [c \in Starts |-> [m \in Inputs(MaxInput) |-> Finalised(Updated(c, m))]]

-----------------------------------------------------------------------------
(* Properties.                                                             *)

\* xxhash32.h, blake2s.h: however the input is cut into updates, the digest
\* is that of the whole, as the standards define it.  An object's address,
\* its MAC and a record's digest are compared across different cuts.
DigestOfWhole == digest # NoDigest => digest = Reference(hasher, fed)

\* Neither where a block ends, nor the padding, nor a key makes two inputs of
\* a cryptographic hash one.
DigestsDiffer ==
    digest # NoDigest /\ hasher.alg # "xxh32" =>
        \A c \in Starts : c.alg = hasher.alg =>
            \A m \in Inputs(MaxInput) :
                OneShots[c][m] = digest => m = fed /\ c.key = hasher.key

\* No part of a derived key occurs in another place or another key: pass,
\* salt, iterations and the block's number all count (0 iterations are 1).
DerivedKeysDiffer ==
    \A d, e \in derived : \A i \in DOMAIN d.out, j \in DOMAIN e.out :
        d.out[i] = e.out[j] =>
            /\ i = j /\ d.pass = e.pass /\ d.salt = e.salt
            /\ AtLeastOne(d.iters) = AtLeastOne(e.iters)

\* The digests and keys computed in pieces are those of the standards, and as
\* different as those are.
DigestsOfWholes == DigestOfWhole /\ DigestsDiffer /\ DerivedKeysDiffer
=============================================================================
