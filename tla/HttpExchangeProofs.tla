------------------------- MODULE HttpExchangeProofs -------------------------
(***************************************************************************)
(* An exchange over the wire, for every request, every answer and every    *)
(* way its bytes are cut, any sizes of the buffers and any settings and    *)
(* server: what transport.h promises of a connection (ByteStream), and     *)
(* what http.h and the backends promise of an exchange.                    *)
(*                                                                         *)
(* The parser first: it does turn by turn what it does, so bytes that are  *)
(* cut in two give what they give in one piece (ParseConcat).              *)
(*                                                                         *)
(* Then the connection (TransportInv): what send() was given is with the   *)
(* server or on its way (Delivered), what the server has said has been     *)
(* handed out or is coming (Received), whole records come and an alert is  *)
(* the last of them (Records), and messages of the handshake come in turn  *)
(* (Shaking); Alerted says besides that an alert is not missed.            *)
(*                                                                         *)
(* Then the exchange (HttpInv): the server has been asked what it has      *)
(* served and one request at most (Requests), what the parser has been fed *)
(* is what has been heard of the last answer (Reads), and what goes wrong  *)
(* has a cause (Blames).                                                   *)
(***************************************************************************)
EXTENDS HttpExchange, SequenceTheorems, FiniteSetTheorems, WellFoundedInduction, TLAPS


\* Induction: a set that has 0 and is closed under successor has every number.
LEMMA SetInduction ==
    ASSUME NEW S, 0 \in S, \A n \in Nat : n \in S => n + 1 \in S
    PROVE  Nat \subseteq S
<1> DEFINE R == OpToRel(<, Nat)
           T == Nat \ S
<1>1. SUFFICES ASSUME T # {} PROVE FALSE
  OBVIOUS
<1>2. PICK x \in T : \A y \in T : <<y, x>> \notin R
  <2>1. IsWellFoundedOn(R, Nat) /\ T \subseteq Nat
    BY NatLessThanWellFounded
  <2> HIDE DEF R, T
  <2> QED  BY <1>1, <2>1, WFMin
<1>3. x \in Nat /\ x - 1 \in Nat /\ x - 1 < x /\ x = (x - 1) + 1
  <2>1. x \in Nat /\ x \notin S
    OBVIOUS
  <2>2. x # 0
    BY <2>1
  <2> HIDE DEF R, T
  <2> QED  BY ONLY <2>1, <2>2
<1>4. <<x - 1, x>> \in R
  <2> DEFINE y == x - 1
  <2>1. y \in Nat /\ x \in Nat /\ y < x
    BY <1>3
  <2> HIDE DEF y
  <2>2. <<y, x>> \in Nat \X Nat /\ <<y, x>>[1] < <<y, x>>[2]
    BY <2>1
  <2>3. <<y, x>> \in {ss \in Nat \X Nat : ss[1] < ss[2]}
    BY <2>2
  <2>4. <<y, x>> \in R
    BY <2>3, Zenon DEF OpToRel
  <2> QED  BY <2>4 DEF y
<1>5. x - 1 \in S
  BY <1>2, <1>3, <1>4
<1> QED  BY <1>2, <1>3, <1>5

\* f[i] is the first i of the sequences s, joined.
IsFlat(f, s) == f = [i \in 1 .. Len(s) |-> IF i = 1 THEN s[i] ELSE f[i - 1] \o s[i]]

\* FlattenSeq takes the last of these.
LEMMA FlatIs == \A s : FlattenSeq(s) = IF Len(s) = 0 THEN s ELSE (CHOOSE f : IsFlat(f, s))[Len(s)]
BY Zenon DEF FlattenSeq, IsFlat

\* There is such a function for every sequence of sequences, and one only.
LEMMA FlatExists ==
    ASSUME NEW C, NEW s \in Seq(Seq(C))
    PROVE  \E f \in [1 .. Len(s) -> Seq(C)] : IsFlat(f, s)
<1> DEFINE Good(n) == \A t \in Seq(Seq(C)) :
                          Len(t) = n => \E f \in [1 .. n -> Seq(C)] : IsFlat(f, t)
           G == {n \in Nat : Good(n)}
<1>1. 0 \in G
  <2> SUFFICES ASSUME NEW t \in Seq(Seq(C)), Len(t) = 0
               PROVE  \E f \in [1 .. 0 -> Seq(C)] : IsFlat(f, t)
    OBVIOUS
  <2> DEFINE f == [i \in 1 .. 0 |-> <<>>]
  <2>1. f \in [1 .. 0 -> Seq(C)] /\ f = [i \in 1 .. Len(t) |-> IF i = 1 THEN t[i] ELSE f[i - 1] \o t[i]]
    OBVIOUS
  <2> HIDE DEF f
  <2> QED  BY <2>1 DEF IsFlat
<1>2. ASSUME NEW n \in Nat, n \in G PROVE n + 1 \in G
  <2> SUFFICES ASSUME NEW t \in Seq(Seq(C)), Len(t) = n + 1
               PROVE  \E f \in [1 .. n + 1 -> Seq(C)] : IsFlat(f, t)
    OBVIOUS
  <2> DEFINE u == SubSeq(t, 1, n)
  <2>0. \A i \in 1 .. n + 1 : t[i] \in Seq(C)
    OBVIOUS
  <2>1. u \in Seq(Seq(C)) /\ Len(u) = n /\ \A i \in 1 .. n : u[i] = t[i]
    BY <2>0, SubSeqProperties
  <2> HIDE DEF u
  <2>2. PICK g \in [1 .. n -> Seq(C)] : IsFlat(g, u)
    BY <1>2, <2>1
  <2>3. \A i \in 1 .. n : g[i] = IF i = 1 THEN t[i] ELSE g[i - 1] \o t[i]
    BY <2>1, <2>2 DEF IsFlat
  <2> DEFINE f == [i \in 1 .. n + 1 |-> IF i = n + 1 THEN IF i = 1 THEN t[i] ELSE g[n] \o t[i]
                                        ELSE g[i]]
  <2>4. \A i \in 1 .. n + 1 : f[i] \in Seq(C)
    <3>1. n # 0 => n \in 1 .. n
      OBVIOUS
    <3> QED  BY <2>0, <3>1
  <2>5. ASSUME NEW i \in 1 .. n + 1
        PROVE  f[i] = IF i = 1 THEN t[i] ELSE f[i - 1] \o t[i]
    <3>1. CASE i = n + 1
      <4>1. i # 1 => f[i - 1] = g[n]
        BY <3>1
      <4> QED  BY <3>1, <4>1
    <3>2. CASE i # n + 1
      <4>1. i \in 1 .. n /\ f[i] = g[i]
        BY <3>2
      <4>2. i # 1 => f[i - 1] = g[i - 1]
        BY <4>1
      <4> QED  BY <2>3, <4>1, <4>2
    <3> QED  BY <3>1, <3>2
  <2>6. f \in [1 .. n + 1 -> Seq(C)]
    BY <2>4
  <2>7. f = [i \in 1 .. Len(t) |-> IF i = 1 THEN t[i] ELSE f[i - 1] \o t[i]]
    <3> DEFINE e == [i \in 1 .. n + 1 |-> IF i = 1 THEN t[i] ELSE f[i - 1] \o t[i]]
    <3>1. f = e
      BY <2>5
    <3> QED  BY <3>1
  <2> HIDE DEF f
  <2> QED  BY <2>6, <2>7 DEF IsFlat
<1>3. Nat \subseteq G
  <2> HIDE DEF G
  <2> QED  BY <1>1, <1>2, SetInduction
<1>4. Len(s) \in G
  BY <1>3
<1> QED  BY <1>4

\* Two functions that join the same sequences are one.
LEMMA FlatUnique ==
    ASSUME NEW s, Len(s) \in Nat, NEW f, NEW g, IsFlat(f, s), IsFlat(g, s)
    PROVE  f = g
<1> DEFINE G == {n \in Nat : n \in 1 .. Len(s) => f[n] = g[n]}
<1>1. 0 \in G
  OBVIOUS
<1>2. \A i \in 1 .. Len(s) : /\ f[i] = IF i = 1 THEN s[i] ELSE f[i - 1] \o s[i]
                             /\ g[i] = IF i = 1 THEN s[i] ELSE g[i - 1] \o s[i]
  BY DEF IsFlat
<1>3. ASSUME NEW n \in Nat, n \in G PROVE n + 1 \in G
  <2> SUFFICES ASSUME n + 1 \in 1 .. Len(s) PROVE f[n + 1] = g[n + 1]
    OBVIOUS
  <2>1. CASE n = 0
    BY <1>2, <2>1
  <2>2. CASE n # 0
    <3>1. n \in 1 .. Len(s) /\ f[n] = g[n]
      BY <1>3, <2>2
    <3>2. n + 1 # 1 /\ (n + 1) - 1 = n
      BY <2>2
    <3>3. f[n + 1] = f[n] \o s[n + 1] /\ g[n + 1] = g[n] \o s[n + 1]
      BY <1>2, <3>2
    <3> QED  BY <3>1, <3>3
  <2> QED  BY <2>1, <2>2
<1>4. Nat \subseteq G
  <2> HIDE DEF G
  <2> QED  BY <1>1, <1>3, SetInduction
<1>5. \A i \in 1 .. Len(s) : f[i] = g[i]
  BY <1>4
<1>6. /\ f = [i \in 1 .. Len(s) |-> f[i]]
      /\ g = [i \in 1 .. Len(s) |-> g[i]]
  BY DEF IsFlat
<1> QED  BY <1>5, <1>6

\* Parts joined are content, and one more part comes after the others.
LEMMA FlatType ==
    ASSUME NEW C, NEW s \in Seq(Seq(C))
    PROVE  FlattenSeq(s) \in Seq(C)
<1>1. CASE Len(s) = 0
  <2>1. s = <<>>
    BY <1>1
  <2>2. FlattenSeq(s) = <<>>
    BY <1>1, <2>1, FlatIs
  <2> QED  BY <2>2
<1>2. CASE Len(s) # 0
  <2>1. PICK f \in [1 .. Len(s) -> Seq(C)] : IsFlat(f, s)
    BY FlatExists
  <2>2. FlattenSeq(s) = f[Len(s)]
    <3>1. (CHOOSE g : IsFlat(g, s)) = f
      BY <2>1, FlatUnique
    <3> QED  BY <1>2, <3>1, FlatIs
  <2>3. Len(s) \in 1 .. Len(s)
    <3>1. Len(s) \in Nat
      OBVIOUS
    <3> QED  BY <1>2, <3>1
  <2>4. f[Len(s)] \in Seq(C)
    BY <2>3, Zenon
  <2> QED  BY <2>2, <2>4
<1> QED  BY <1>1, <1>2

\* One sequence more is joined at the end.
LEMMA FlatAppend ==
    ASSUME NEW C, NEW s \in Seq(Seq(C)), NEW x \in Seq(C)
    PROVE  FlattenSeq(Append(s, x)) = FlattenSeq(s) \o x
<1> DEFINE t == Append(s, x)
           n == Len(s)
<1>1. /\ t \in Seq(Seq(C)) /\ Len(t) = n + 1 /\ t[n + 1] = x /\ n \in Nat
      /\ \A i \in 1 .. n : t[i] = s[i]
  OBVIOUS
<1>2. PICK f \in [1 .. n + 1 -> Seq(C)] : IsFlat(f, t)
  <2> HIDE DEF t, n
  <2> QED  BY <1>1, FlatExists
<1>3. FlattenSeq(t) = f[n + 1]
  <2> HIDE DEF t, n
  <2>1. (CHOOSE g : IsFlat(g, t)) = f
    BY <1>1, <1>2, FlatUnique
  <2>2. Len(t) # 0
    BY <1>1
  <2> QED  BY <1>1, <2>1, <2>2, FlatIs
<1>4. \A i \in 1 .. n + 1 : f[i] = IF i = 1 THEN t[i] ELSE f[i - 1] \o t[i]
  <2> HIDE DEF t, n
  <2> QED  BY <1>1, <1>2 DEF IsFlat
<1>5. CASE n = 0
  <2>1. s = <<>>
    BY <1>5
  <2>2. FlattenSeq(s) = <<>>
    BY <1>5, <2>1, FlatIs
  <2> QED  BY <1>1, <1>3, <1>4, <1>5, <2>2
<1>6. CASE n # 0
  <2> DEFINE g == [i \in 1 .. n |-> f[i]]
  <2>1. g = [i \in 1 .. n |-> IF i = 1 THEN s[i] ELSE g[i - 1] \o s[i]]
    <3>1. \A i \in 1 .. n : g[i] = IF i = 1 THEN s[i] ELSE g[i - 1] \o s[i]
      <4>1. ASSUME NEW i \in 1 .. n PROVE g[i] = IF i = 1 THEN s[i] ELSE g[i - 1] \o s[i]
        <5> HIDE DEF t, n
        <5>1. i \in 1 .. n + 1 /\ (i # 1 => i - 1 \in 1 .. n)
          BY <1>1
        <5> QED  BY <1>1, <1>4, <5>1
      <4> QED  BY <4>1
    <3> QED  BY <3>1
  <2>2. IsFlat(g, s)
    <3> HIDE DEF g
    <3> QED  BY <2>1 DEF IsFlat
  <2>3. FlattenSeq(s) = g[n]
    <3> HIDE DEF g
    <3>1. (CHOOSE k : IsFlat(k, s)) = g
      BY <1>1, <2>2, FlatUnique
    <3> QED  BY <1>6, <3>1, FlatIs
  <2>4. n \in 1 .. n /\ g[n] = f[n] /\ f[n + 1] = f[n] \o t[n + 1]
    <3>1. n \in 1 .. n /\ n + 1 \in 1 .. n + 1 /\ n + 1 # 1
      BY <1>1, <1>6
    <3>2. (n + 1) - 1 = n
      BY <1>1
    <3> HIDE DEF t, n
    <3> QED  BY <1>4, <3>1, <3>2
  <2> QED  BY <1>1, <1>3, <2>3, <2>4
<1> QED  BY <1>5, <1>6

-----------------------------------------------------------------------------
(* Sequences: joining and prefixes.                                        *)

\* Two rows of sequences are joined one after the other.
LEMMA FlatConcat ==
    ASSUME NEW C, NEW s \in Seq(Seq(C)), NEW t \in Seq(Seq(C))
    PROVE  FlattenSeq(s \o t) = FlattenSeq(s) \o FlattenSeq(t)
<1> DEFINE G == {n \in Nat : \A u \in Seq(Seq(C)) :
                    Len(u) = n => FlattenSeq(s \o u) = FlattenSeq(s) \o FlattenSeq(u)}
<1>0. FlattenSeq(s) \in Seq(C)
  BY FlatType
<1>1. 0 \in G
  <2> SUFFICES ASSUME NEW u \in Seq(Seq(C)), Len(u) = 0
               PROVE  FlattenSeq(s \o u) = FlattenSeq(s) \o FlattenSeq(u)
    OBVIOUS
  <2>1. u = <<>>
    OBVIOUS
  <2>2. FlattenSeq(u) = <<>>
    BY <2>1, FlatIs
  <2>3. s \o u = s
    BY <2>1
  <2>4. FlattenSeq(s) \o <<>> = FlattenSeq(s)
    BY <1>0
  <2> QED  BY <2>2, <2>3, <2>4
<1>2. ASSUME NEW n \in Nat, n \in G PROVE n + 1 \in G
  <2> SUFFICES ASSUME NEW u \in Seq(Seq(C)), Len(u) = n + 1
               PROVE  FlattenSeq(s \o u) = FlattenSeq(s) \o FlattenSeq(u)
    OBVIOUS
  <2> DEFINE v == SubSeq(u, 1, n)
             x == u[n + 1]
  <2>1. v \in Seq(Seq(C)) /\ Len(v) = n /\ x \in Seq(C) /\ u = Append(v, x)
    OBVIOUS
  <2> HIDE DEF v, x
  <2>2. s \o u = Append(s \o v, x) /\ s \o v \in Seq(Seq(C))
    BY <2>1
  <2>3. FlattenSeq(s \o u) = FlattenSeq(s \o v) \o x
    BY <2>1, <2>2, FlatAppend
  <2>4. FlattenSeq(u) = FlattenSeq(v) \o x
    BY <2>1, FlatAppend
  <2>5. FlattenSeq(s \o v) = FlattenSeq(s) \o FlattenSeq(v)
    BY <1>2, <2>1
  <2>6. FlattenSeq(v) \in Seq(C)
    BY <2>1, FlatType
  <2>7. (FlattenSeq(s) \o FlattenSeq(v)) \o x = FlattenSeq(s) \o (FlattenSeq(v) \o x)
    <3> DEFINE a == FlattenSeq(s)
               b == FlattenSeq(v)
    <3>1. a \in Seq(C) /\ b \in Seq(C) /\ x \in Seq(C)
      BY <1>0, <2>1, <2>6
    <3> HIDE DEF a, b
    <3>2. (a \o b) \o x = a \o (b \o x)
      BY ONLY <3>1, ConcatAssociative
    <3> QED  BY <3>2 DEF a, b
  <2> QED  BY <2>3, <2>4, <2>5, <2>7
<1>3. Nat \subseteq G
  <2> HIDE DEF G
  <2> QED  BY <1>1, <1>2, SetInduction
<1>4. Len(t) \in G
  BY <1>3
<1> QED  BY <1>4

\* Nothing joined is nothing.
LEMMA FlatEmpty == FlattenSeq(<<>>) = <<>>
BY FlatIs

\* One sequence joined is that sequence.
LEMMA FlatOne ==
    ASSUME NEW C, NEW x \in Seq(C)
    PROVE  FlattenSeq(<<x>>) = x
<1>1. <<x>> = Append(<<>>, x) /\ <<>> \in Seq(Seq(C))
  OBVIOUS
<1>2. FlattenSeq(<<x>>) = FlattenSeq(<<>>) \o x
  BY <1>1, FlatAppend
<1> QED  BY <1>2, FlatEmpty

\* One by one: what Only() joins.
Singly(s, K) == [i \in DOMAIN s |-> IF s[i] \in K THEN <<s[i]>> ELSE <<>>]

\* What Only joins: each element alone, or nothing in its place.
LEMMA SinglyType ==
    ASSUME NEW S, NEW s \in Seq(S), NEW K
    PROVE  Singly(s, K) \in Seq(Seq(S \cap K)) /\ Len(Singly(s, K)) = Len(s)
<1>1. ASSUME NEW i \in 1 .. Len(s)
      PROVE  (IF s[i] \in K THEN <<s[i]>> ELSE <<>>) \in Seq(S \cap K)
  <2> DEFINE Z == S \cap K
             u == s[i]
  <2>1. u \in S /\ (u \in K => u \in Z)
    OBVIOUS
  <2> HIDE DEF Z, u
  <2>2. (IF u \in K THEN <<u>> ELSE <<>>) \in Seq(Z)
    BY <2>1
  <2> QED  BY <2>2 DEF Z, u
<1>2. DOMAIN s = 1 .. Len(s) /\ Len(s) \in Nat
  OBVIOUS
<1> DEFINE f == [i \in 1 .. Len(s) |-> IF s[i] \in K THEN <<s[i]>> ELSE <<>>]
<1>3. f \in [1 .. Len(s) -> Seq(S \cap K)]
  BY <1>1
<1>4. Singly(s, K) = f
  BY <1>2 DEF Singly
<1> HIDE DEF f
<1>5. f \in Seq(Seq(S \cap K)) /\ Len(f) = Len(s)
  BY <1>2, <1>3, SeqDef
<1> QED  BY <1>4, <1>5

\* What is kept of a sequence is in it and is of the kind kept.
LEMMA OnlyType ==
    ASSUME NEW S, NEW s \in Seq(S), NEW K
    PROVE  Only(s, K) \in Seq(S \cap K) /\ Only(s, K) \in Seq(S) /\ Only(s, K) \in Seq(K)
<1>1. Only(s, K) = FlattenSeq(Singly(s, K))
  BY DEF Only, Singly
<1>2. Only(s, K) \in Seq(S \cap K)
  BY <1>1, SinglyType, FlatType
<1> QED  BY <1>2, SeqMonotonic

\* Keeping is a matter of each element: it may be done before joining or after.
LEMMA OnlyConcat ==
    ASSUME NEW S, NEW s \in Seq(S), NEW t \in Seq(S), NEW K
    PROVE  Only(s \o t, K) = Only(s, K) \o Only(t, K)
<1>1. \A u : Only(u, K) = FlattenSeq(Singly(u, K))
  BY DEF Only, Singly
<1>2. s \o t \in Seq(S)
  OBVIOUS
<1>3. /\ Singly(s, K) \in Seq(Seq(S \cap K)) /\ Len(Singly(s, K)) = Len(s)
      /\ Singly(t, K) \in Seq(Seq(S \cap K)) /\ Len(Singly(t, K)) = Len(t)
      /\ Singly(s \o t, K) \in Seq(Seq(S \cap K)) /\ Len(Singly(s \o t, K)) = Len(s \o t)
  BY <1>2, SinglyType
<1>4. Singly(s \o t, K) = Singly(s, K) \o Singly(t, K)
  <2>1. Len(s \o t) = Len(s) + Len(t)
    OBVIOUS
  <2> DEFINE Z == S \cap K
             p == Singly(s, K)
             q == Singly(t, K)
  <2>0. p \in Seq(Seq(Z)) /\ Len(p) = Len(s) /\ q \in Seq(Seq(Z)) /\ Len(q) = Len(t)
    BY <1>3
  <2>4. /\ \A i \in 1 .. Len(s) + Len(t) : (p \o q)[i] = IF i <= Len(s) THEN p[i] ELSE q[i - Len(s)]
        /\ Len(p \o q) = Len(s) + Len(t) /\ p \o q \in Seq(Seq(Z))
    <3> DEFINE Y == Seq(Z)
    <3>1. p \in Seq(Y) /\ q \in Seq(Y)
      BY <2>0
    <3> HIDE DEF p, q, Y
    <3>2. /\ \A i \in 1 .. Len(p) + Len(q) : (p \o q)[i] = IF i <= Len(p) THEN p[i] ELSE q[i - Len(p)]
          /\ Len(p \o q) = Len(p) + Len(q) /\ p \o q \in Seq(Y)
      BY <3>1, ConcatProperties
    <3> QED  BY <2>0, <3>2 DEF Y
  <2>2. ASSUME NEW i \in 1 .. Len(s) + Len(t)
        PROVE  Singly(s \o t, K)[i] = (Singly(s, K) \o Singly(t, K))[i]
    <3>1. CASE i <= Len(s)
      <4>1. (s \o t)[i] = s[i] /\ i \in DOMAIN s /\ i \in DOMAIN (s \o t)
        BY <3>1
      <4>2. (Singly(s, K) \o Singly(t, K))[i] = Singly(s, K)[i]
        BY <2>4, <3>1
      <4> QED  BY <4>1, <4>2 DEF Singly
    <3>2. CASE i > Len(s)
      <4>1. (s \o t)[i] = t[i - Len(s)] /\ i - Len(s) \in DOMAIN t /\ i \in DOMAIN (s \o t)
        BY <3>2, ConcatProperties
      <4>2. (Singly(s, K) \o Singly(t, K))[i] = Singly(t, K)[i - Len(s)]
        BY <2>4, <3>2
      <4>3. Singly(s \o t, K)[i] = IF (s \o t)[i] \in K THEN <<(s \o t)[i]>> ELSE <<>>
        BY <4>1 DEF Singly
      <4>4. Singly(t, K)[i - Len(s)]
               = IF t[i - Len(s)] \in K THEN <<t[i - Len(s)]>> ELSE <<>>
        BY <4>1 DEF Singly
      <4> QED  BY <4>1, <4>2, <4>3, <4>4
    <3>3. i <= Len(s) \/ i > Len(s)
      OBVIOUS
    <3> QED  BY <3>1, <3>2, <3>3, Zenon
  <2>5. Singly(s \o t, K) \in Seq(Seq(Z)) /\ Len(Singly(s \o t, K)) = Len(s) + Len(t)
    BY <1>3, <2>1
  <2> QED
    <3>1. \A i \in 1 .. Len(s) + Len(t) : Singly(s \o t, K)[i] = (p \o q)[i]
      BY <2>2
    <3>2. Singly(s \o t, K) = p \o q
      <4> HIDE DEF p, q, Z
      <4> QED  BY <2>4, <2>5, <3>1, SeqEqual
    <3> QED  BY <3>2
<1> DEFINE Z == S \cap K
           p == Singly(s, K)
           q == Singly(t, K)
<1>5. p \in Seq(Seq(Z)) /\ q \in Seq(Seq(Z))
  BY <1>3
<1>6. FlattenSeq(p \o q) = FlattenSeq(p) \o FlattenSeq(q)
  <2> HIDE DEF p, q, Z
  <2> QED  BY <1>5, FlatConcat
<1>7. /\ Only(s \o t, K) = FlattenSeq(p \o q)
      /\ Only(s, K) = FlattenSeq(p) /\ Only(t, K) = FlattenSeq(q)
  BY <1>1, <1>4
<1> QED
  <2> HIDE DEF p, q
  <2> QED  BY <1>6, <1>7

LEMMA OnlyEmpty == \A K : Only(<<>>, K) = <<>>
<1> SUFFICES ASSUME NEW K PROVE Only(<<>>, K) = <<>>
  OBVIOUS
<1>1. [i \in DOMAIN <<>> |-> IF <<>>[i] \in K THEN <<<<>>[i]>> ELSE <<>>] = <<>>
  OBVIOUS
<1> QED  BY <1>1, FlatEmpty DEF Only

LEMMA OnlyOne ==
    ASSUME NEW u, NEW K
    PROVE  Only(<<u>>, K) = IF u \in K THEN <<u>> ELSE <<>>
<1> DEFINE x == IF u \in K THEN <<u>> ELSE <<>>
<1>1. [i \in DOMAIN <<u>> |-> IF <<u>>[i] \in K THEN <<<<u>>[i]>> ELSE <<>>] = <<x>>
  OBVIOUS
<1>2. x \in Seq({u})
  <2>1. CASE u \in K
    BY <2>1
  <2>2. CASE u \notin K
    BY <2>2
  <2> QED  BY <2>1, <2>2
<1> HIDE DEF x
<1>3. FlattenSeq(<<x>>) = x
  BY <1>2, FlatOne
<1> QED  BY <1>1, <1>3 DEF Only, x

LEMMA OnlyAppend ==
    ASSUME NEW S, NEW s \in Seq(S), NEW u \in S, NEW K
    PROVE  Only(Append(s, u), K) = IF u \in K THEN Append(Only(s, K), u) ELSE Only(s, K)
<1> DEFINE w == <<u>>
           o == Only(s, K)
<1>1. Append(s, u) = s \o w /\ w \in Seq(S)
  OBVIOUS
<1>2. Only(Append(s, u), K) = Only(s, K) \o Only(w, K)
  <2> HIDE DEF w
  <2> QED  BY <1>1, OnlyConcat
<1>3. o \in Seq(S)
  BY OnlyType
<1>4. Only(w, K) = IF u \in K THEN <<u>> ELSE <<>>
  BY OnlyOne
<1>5. o \o <<u>> = Append(o, u) /\ o \o <<>> = o
  <2> HIDE DEF o
  <2> QED  BY <1>3
<1> QED
  <2> HIDE DEF w
  <2>1. CASE u \in K
    BY <1>2, <1>4, <1>5, <2>1
  <2>2. CASE u \notin K
    BY <1>2, <1>4, <1>5, <2>2
  <2> QED  BY <2>1, <2>2

\* The first element is kept or not, and then the rest.
LEMMA OnlyHead ==
    ASSUME NEW S, NEW s \in Seq(S), s # <<>>, NEW K
    PROVE  Only(s, K) = IF Head(s) \in K THEN <<Head(s)>> \o Only(Tail(s), K) ELSE Only(Tail(s), K)
<1> DEFINE u == Head(s)
           w == <<u>>
           t == Tail(s)
           o == Only(t, K)
<1>1. s = w \o t /\ w \in Seq(S) /\ t \in Seq(S)
  OBVIOUS
<1>2. Only(s, K) = Only(w, K) \o Only(t, K)
  <2> HIDE DEF w, t
  <2> QED  BY <1>1, OnlyConcat
<1>3. o \in Seq(S)
  <2> HIDE DEF t
  <2> QED  BY <1>1, OnlyType
<1>4. Only(w, K) = IF u \in K THEN <<u>> ELSE <<>>
  <2> HIDE DEF u
  <2> QED  BY OnlyOne
<1>5. <<>> \o o = o
  <2> HIDE DEF o
  <2> QED  BY <1>3
<1> QED
  <2> HIDE DEF u, w, t
  <2>3. Only(s, K) = IF u \in K THEN <<u>> \o Only(t, K) ELSE Only(t, K)
    <3>1. CASE u \in K
      BY <1>2, <1>4, <3>1
    <3>2. CASE u \notin K
      BY <1>2, <1>4, <1>5, <3>2
    <3> QED  BY <3>1, <3>2
  <2> QED  BY <2>3 DEF u, t

\* All are chosen, or none.
LEMMA OnlySame ==
    ASSUME NEW K, NEW s \in Seq(K)
    PROVE  Only(s, K) = s
<1> DEFINE G == {n \in Nat : \A u \in Seq(K) : Len(u) = n => Only(u, K) = u}
<1>1. 0 \in G
  <2>1. \A u \in Seq(K) : Len(u) = 0 => u = <<>>
    OBVIOUS
  <2> QED  BY <2>1, OnlyEmpty
<1>2. ASSUME NEW n \in Nat, n \in G PROVE n + 1 \in G
  <2> SUFFICES ASSUME NEW u \in Seq(K), Len(u) = n + 1 PROVE Only(u, K) = u
    OBVIOUS
  <2> DEFINE v == SubSeq(u, 1, n)
             x == u[n + 1]
  <2>1. v \in Seq(K) /\ Len(v) = n /\ x \in K /\ u = Append(v, x)
    OBVIOUS
  <2> HIDE DEF v, x
  <2>2. Only(v, K) = v
    BY <1>2, <2>1
  <2> QED  BY <2>1, <2>2, OnlyAppend
<1>3. Nat \subseteq G
  <2> HIDE DEF G
  <2> QED  BY <1>1, <1>2, SetInduction
<1>4. Len(s) \in G
  BY <1>3
<1> QED  BY <1>4

\* Nothing is kept where nothing is of the kind.
LEMMA OnlyNone ==
    ASSUME NEW S, NEW s \in Seq(S), NEW K, S \cap K = {}
    PROVE  Only(s, K) = <<>>
<1>1. Only(s, K) \in Seq({})
  BY OnlyType
<1> QED  BY <1>1

\* A prefix is what something can be added to.
LEMMA PrefixIs ==
    ASSUME NEW S, NEW s \in Seq(S), NEW t \in Seq(S)
    PROVE  IsPrefix(s, t) <=> \E u \in Seq(S) : t = s \o u
<1>1. ASSUME IsPrefix(s, t) PROVE \E u \in Seq(S) : t = s \o u
  <2> DEFINE u == SubSeq(t, Len(s) + 1, Len(t))
  <2>1. Len(s) <= Len(t) /\ SubSeq(s, 1, Len(s)) = SubSeq(t, 1, Len(s))
    BY <1>1 DEF IsPrefix
  <2>2. SubSeq(s, 1, Len(s)) = s
    OBVIOUS
  <2>3. t = SubSeq(t, 1, Len(s)) \o u /\ u \in Seq(S)
    <3>1. Len(s) \in Nat /\ Len(t) \in Nat /\ Len(s) <= Len(t)
      BY <2>1
    <3>2. SubSeq(t, 1, Len(s)) \in Seq(S) /\ Len(SubSeq(t, 1, Len(s))) = Len(s)
          /\ \A i \in 1 .. Len(s) : SubSeq(t, 1, Len(s))[i] = t[i]
      BY <3>1
    <3>3. u \in Seq(S) /\ Len(u) = Len(t) - Len(s) /\ \A i \in 1 .. Len(u) : u[i] = t[Len(s) + i]
      BY <3>1
    <3> DEFINE v == SubSeq(t, 1, Len(s))
    <3> HIDE DEF u, v
    <3>4. v \o u \in Seq(S) /\ Len(v \o u) = Len(t)
          /\ \A i \in 1 .. Len(t) : (v \o u)[i] = IF i <= Len(s) THEN v[i] ELSE u[i - Len(s)]
      BY <3>1, <3>2, <3>3, ConcatProperties DEF v
    <3>5. \A i \in 1 .. Len(t) : (v \o u)[i] = t[i]
      <4> SUFFICES ASSUME NEW i \in 1 .. Len(t) PROVE (v \o u)[i] = t[i]
        OBVIOUS
      <4>1. CASE i <= Len(s)
        BY <3>1, <3>2, <3>4, <4>1 DEF v
      <4>2. CASE i > Len(s)
        <5>1. i - Len(s) \in 1 .. Len(u) /\ Len(s) + (i - Len(s)) = i
          BY <3>1, <3>3, <4>2
        <5> QED  BY <3>3, <3>4, <4>2, <5>1
      <4>3. i <= Len(s) \/ i > Len(s)
        BY <3>1
      <4> QED  BY <4>1, <4>2, <4>3, Zenon
    <3>6. t = v \o u
      BY <3>4, <3>5, SeqEqual
    <3> QED  BY <3>3, <3>6 DEF v
  <2> QED  BY <2>1, <2>2, <2>3
<1>2. ASSUME NEW u \in Seq(S), t = s \o u PROVE IsPrefix(s, t)
  <2>1. Len(t) = Len(s) + Len(u) /\ Len(s) \in Nat /\ Len(u) \in Nat
    BY <1>2
  <2>2. SubSeq(t, 1, Len(s)) = s /\ SubSeq(s, 1, Len(s)) = s
    BY <1>2
  <2> QED  BY <2>1, <2>2 DEF IsPrefix
<1> QED  BY <1>1, <1>2

\* What was joined to the same beginning and is the same was the same.
LEMMA ConcatCancel ==
    ASSUME NEW S, NEW s \in Seq(S), NEW t \in Seq(S), NEW u \in Seq(S), s \o t = s \o u
    PROVE  t = u
<1>1. Len(s \o t) = Len(s) + Len(t) /\ Len(s \o u) = Len(s) + Len(u)
  OBVIOUS
<1>2. Len(t) = Len(u)
  BY <1>1
<1>3. ASSUME NEW i \in 1 .. Len(t) PROVE t[i] = u[i]
  <2>1. (s \o t)[Len(s) + i] = t[i] /\ (s \o u)[Len(s) + i] = u[i]
    BY <1>2
  <2> QED  BY <2>1
<1> QED  BY <1>2, <1>3, SeqEqual

\* A set of numbers has a least.
LEMMA LeastNat ==
    ASSUME NEW S, S \subseteq Nat, S # {}
    PROVE  \E m \in S : \A k \in S : m <= k
<1> SUFFICES ASSUME \A m \in S : \E x \in S : ~ (m <= x) PROVE FALSE
  OBVIOUS
<1> DEFINE G == {n \in Nat : \A m \in S : m > n}
<1>1. 0 \in G
  <2> SUFFICES ASSUME NEW m \in S PROVE m > 0
    OBVIOUS
  <2> QED  OBVIOUS
<1>2. ASSUME NEW n \in Nat, n \in G PROVE n + 1 \in G
  <2> SUFFICES ASSUME NEW m \in S PROVE m > n + 1
    OBVIOUS
  <2>1. m > n /\ m \in Nat
    BY <1>2
  <2>2. PICK x \in S : ~ (m <= x)
    OBVIOUS
  <2>3. x > n /\ x \in Nat
    BY <1>2
  <2> QED  BY <2>1, <2>2, <2>3
<1>3. Nat \subseteq G
  <2> HIDE DEF G
  <2> QED  BY <1>1, <1>2, SetInduction
<1>4. PICK m \in S : TRUE
  OBVIOUS
<1>5. m \in Nat /\ m \in G
  BY <1>3, <1>4
<1> QED  BY <1>4, <1>5

States == {"status", "headers", "size", "crlf", "trailer", "body", "data", "done", "bad"}
Row == Seq(Byte)
Response == [st : States, code : Nat, lines : Seq(Row), length : Int, chunked : BOOLEAN,
             left : Nat, body : Row, unframed : BOOLEAN, line : Row]

\* What feed() has made of some bytes.
Good(r) ==
    /\ r \in Response /\ "lf" \notin Range(r.line)
    /\ r.st \in {"body", "data"} => r.left > 0 /\ r.line = <<>>

\* memchr(): the first of them, and there is no other first.
LEMMA FirstAtIs ==
    ASSUME NEW s \in Row, NEW t
    PROVE  /\ FirstAt(s, t) = 0 <=> t \notin Range(s)
           /\ FirstAt(s, t) \in 0 .. Len(s)
           /\ FirstAt(s, t) # 0 => /\ s[FirstAt(s, t)] = t
                                   /\ \A j \in 1 .. FirstAt(s, t) - 1 : s[j] # t
<1>0. Range(s) = {s[i] : i \in 1 .. Len(s)} /\ Len(s) \in Nat
  BY DEF Range
<1>1. CASE t \notin Range(s)
  BY <1>0, <1>1 DEF FirstAt
<1>2. CASE t \in Range(s)
  <2> DEFINE S == {i \in 1 .. Len(s) : s[i] = t}
             P(i) == s[i] = t /\ \A j \in 1 .. i - 1 : s[j] # t
  <2>1. S \subseteq Nat /\ S # {}
    BY <1>0, <1>2
  <2>2. PICK m \in S : \A k \in S : m <= k
    <3> HIDE DEF S
    <3> QED  BY <2>1, LeastNat
  <2>3. m \in 1 .. Len(s) /\ P(m)
    <3>1. m \in 1 .. Len(s) /\ s[m] = t /\ \A k \in 1 .. Len(s) : s[k] = t => m <= k
      BY <2>2
    <3>2. ASSUME NEW j \in 1 .. m - 1 PROVE s[j] # t
      <4>1. j \in 1 .. Len(s) /\ ~ (m <= j)
        BY <1>0, <3>1
      <4> QED  BY <3>1, <4>1
    <3> QED  BY <3>1, <3>2
  <2>4. FirstAt(s, t) = CHOOSE i \in 1 .. Len(s) : P(i)
    BY <1>2 DEF FirstAt
  <2> DEFINE c == CHOOSE i \in 1 .. Len(s) : P(i)
  <2>5. c \in 1 .. Len(s) /\ P(c)
    BY <2>3, Zenon
  <2> HIDE DEF c
  <2> QED  BY <1>0, <1>2, <2>4, <2>5 DEF c
<1> QED  BY <1>1, <1>2

\* The place where a token is and before which it is not is the first.
LEMMA FirstAtUnique ==
    ASSUME NEW s \in Row, NEW t, NEW i \in 1 .. Len(s),
           s[i] = t, \A j \in 1 .. i - 1 : s[j] # t
    PROVE  FirstAt(s, t) = i
<1>1. t \in Range(s)
  BY DEF Range
<1>0. Len(s) \in Nat
  BY DEF Row
<1> DEFINE c == FirstAt(s, t)
<1>2. /\ c = 0 <=> t \notin Range(s)
      /\ c \in 0 .. Len(s)
      /\ c # 0 => s[c] = t /\ \A j \in 1 .. c - 1 : s[j] # t
  BY FirstAtIs
<1> HIDE DEF c
<1>3. c \in 1 .. Len(s) /\ s[c] = t /\ \A j \in 1 .. c - 1 : s[j] # t
  <2>1. c # 0
    BY <1>1, <1>2
  <2>2. c \in 1 .. Len(s)
    BY ONLY <1>0, <1>2, <2>1
  <2> QED  BY <1>2, <2>1, <2>2
<1>4. ~ (c < i) /\ ~ (i < c)
  <2>1. i \in Nat /\ c \in Nat /\ i >= 1 /\ c >= 1
    BY <1>0, <1>3
  <2>2. c < i => c \in 1 .. i - 1
    BY ONLY <2>1
  <2>3. i < c => i \in 1 .. c - 1
    BY ONLY <2>1
  <2> QED  BY <1>3, <2>2, <2>3
<1>5. c = i
  BY <1>0, <1>3, <1>4
<1> QED  BY <1>5 DEF c

\* The digits a line begins with make a number.
LEMMA RunIs ==
    ASSUME NEW s \in Row, NEW base \in {10, 16}
    PROVE  Run(s, base) \in Row /\ \A i \in 1 .. Len(Run(s, base)) : IsDigit(Run(s, base)[i], base)
<1> DEFINE S == {k \in 1 .. Len(s) : ~ IsDigit(s[k], base)}
           P(k) == /\ \A i \in 1 .. k : IsDigit(s[i], base)
                   /\ k < Len(s) => ~ IsDigit(s[k + 1], base)
<1>1. \E k \in 0 .. Len(s) : P(k)
  <2>1. CASE S = {}
    <3>1. Len(s) \in 0 .. Len(s) /\ P(Len(s))
      BY <2>1
    <3> QED  BY <3>1
  <2>2. CASE S # {}
    <3>1. S \subseteq Nat
      OBVIOUS
    <3>2. PICK m \in S : \A k \in S : m <= k
      <4> HIDE DEF S
      <4> QED  BY <2>2, <3>1, LeastNat
    <3>3. m \in 1 .. Len(s) /\ ~ IsDigit(s[m], base)
          /\ \A k \in 1 .. Len(s) : ~ IsDigit(s[k], base) => m <= k
      BY <3>2
    <3> DEFINE k == m - 1
    <3>4. k \in 0 .. Len(s) /\ k + 1 = m
      BY <3>3
    <3>5. \A i \in 1 .. k : IsDigit(s[i], base)
      <4> SUFFICES ASSUME NEW i \in 1 .. k PROVE IsDigit(s[i], base)
        OBVIOUS
      <4>1. i \in 1 .. Len(s) /\ ~ (m <= i)
        BY <3>3
      <4> QED  BY <3>3, <4>1
    <3> HIDE DEF k
    <3>6. P(k)
      BY <3>3, <3>4, <3>5
    <3> QED  BY <3>4, <3>6
  <2> QED  BY <2>1, <2>2
<1> DEFINE n == CHOOSE k \in 0 .. Len(s) : P(k)
<1>2. n \in 0 .. Len(s) /\ P(n)
  <2> HIDE DEF P
  <2> QED  BY <1>1
<1>3. Run(s, base) = SubSeq(s, 1, n)
  BY DEF Run
<1> HIDE DEF n
<1>4. SubSeq(s, 1, n) \in Row /\ Len(SubSeq(s, 1, n)) = n
      /\ \A i \in 1 .. n : SubSeq(s, 1, n)[i] = s[i]
  BY <1>2 DEF Row
<1> QED  BY <1>2, <1>3, <1>4

\* A digit has a value.
LEMMA DigitNat ==
    ASSUME NEW t, NEW base \in {10, 16}, IsDigit(t, base)
    PROVE  DigitValue(t) \in Nat
<1>1. \E i \in 1 .. 16 : Digits[i] = t
  BY DEF IsDigit
<1> DEFINE c == CHOOSE i \in 1 .. 16 : Digits[i] = t
<1>2. c \in 1 .. 16
  BY <1>1
<1>3. DigitValue(t) = c - 1
  BY DEF DigitValue
<1> HIDE DEF c
<1> QED  BY <1>2, <1>3

\* The numbers on the way through a row of digits.
IsCount(f, d, base) ==
    f = [n \in 0 .. Len(d) |-> IF n = 0 THEN 0 ELSE f[n - 1] * base + DigitValue(d[n])]

CountTo(f, d, base, m) ==
    f = [n \in 0 .. m |-> IF n = 0 THEN 0 ELSE f[n - 1] * base + DigitValue(d[n])]

\* The function that Number chooses.
LEMMA NumberIs ==
    \A s, base : Number(s, base) = (CHOOSE f : IsCount(f, Run(s, base), base))[Len(Run(s, base))]
BY Zenon DEF Number, IsCount

\* A number is a natural number.
LEMMA NumberNat ==
    ASSUME NEW s \in Row, NEW base \in {10, 16}
    PROVE  Number(s, base) \in Nat
<1> DEFINE d == Run(s, base)
<1>1. Len(d) \in Nat /\ \A i \in 1 .. Len(d) : DigitValue(d[i]) \in Nat
  <2>1. d \in Row /\ \A i \in 1 .. Len(d) : IsDigit(d[i], base)
    BY RunIs
  <2> HIDE DEF d
  <2>2. Len(d) \in Nat
    BY <2>1 DEF Row
  <2> QED  BY <2>1, <2>2, DigitNat
<1>2. Number(s, base) = (CHOOSE f : IsCount(f, d, base))[Len(d)]
  BY NumberIs
<1> HIDE DEF d
<1> DEFINE G == {m \in Nat : m <= Len(d) => \E f \in [0 .. m -> Nat] : CountTo(f, d, base, m)}
<1>3. 0 \in G
  <2> DEFINE f == [i \in 0 .. 0 |-> 0]
  <2>1. f \in [0 .. 0 -> Nat] /\ f = [n \in 0 .. 0 |-> IF n = 0 THEN 0 ELSE f[n - 1] * base + DigitValue(d[n])]
    OBVIOUS
  <2> HIDE DEF f
  <2>2. CountTo(f, d, base, 0)
    BY <2>1 DEF CountTo
  <2> QED  BY <2>1, <2>2
<1>4. ASSUME NEW m \in Nat, m \in G PROVE m + 1 \in G
  <2> SUFFICES ASSUME m + 1 <= Len(d) PROVE \E f \in [0 .. m + 1 -> Nat] : CountTo(f, d, base, m + 1)
    OBVIOUS
  <2>1. PICK g \in [0 .. m -> Nat] : CountTo(g, d, base, m)
    BY <1>1, <1>4
  <2>2. \A i \in 0 .. m : g[i] \in Nat /\ g[i] = IF i = 0 THEN 0 ELSE g[i - 1] * base + DigitValue(d[i])
    BY <2>1 DEF CountTo
  <2> DEFINE last == g[m] * base + DigitValue(d[m + 1])
             f == [i \in 0 .. m + 1 |-> IF i = m + 1 THEN last ELSE g[i]]
  <2>3. last \in Nat
    <3>1. g[m] \in Nat /\ DigitValue(d[m + 1]) \in Nat
      BY <1>1, <2>2
    <3>2. base = 10 \/ base = 16
      OBVIOUS
    <3> DEFINE a == g[m]
               b == DigitValue(d[m + 1])
    <3> HIDE DEF a, b
    <3>3. a \in Nat /\ b \in Nat => a * 10 + b \in Nat /\ a * 16 + b \in Nat
      OBVIOUS
    <3> QED  BY <3>1, <3>2, <3>3 DEF a, b
  <2>4. ASSUME NEW i \in 0 .. m + 1
        PROVE  f[i] \in Nat /\ f[i] = IF i = 0 THEN 0 ELSE f[i - 1] * base + DigitValue(d[i])
    <3>1. CASE i = m + 1
      <4>1. f[i - 1] = g[m] /\ i # 0 /\ f[i] = last
        BY <3>1
      <4> QED  BY <2>3, <3>1, <4>1
    <3>2. CASE i # m + 1
      <4>1. i \in 0 .. m /\ f[i] = g[i] /\ (i # 0 => f[i - 1] = g[i - 1])
        BY <3>2
      <4> QED  BY <2>2, <4>1
    <3> QED  BY <3>1, <3>2
  <2>5. f \in [0 .. m + 1 -> Nat]
    BY <2>4
  <2>6. f = [n \in 0 .. m + 1 |-> IF n = 0 THEN 0 ELSE f[n - 1] * base + DigitValue(d[n])]
    <3> DEFINE e == [n \in 0 .. m + 1 |-> IF n = 0 THEN 0 ELSE f[n - 1] * base + DigitValue(d[n])]
    <3>1. f = e
      BY <2>4
    <3> QED  BY <3>1
  <2> HIDE DEF f
  <2>7. CountTo(f, d, base, m + 1)
    BY <2>6 DEF CountTo
  <2> QED  BY <2>5, <2>7
<1>5. Nat \subseteq G
  <2> HIDE DEF G
  <2> QED  BY <1>3, <1>4, SetInduction
<1>6. \E f : IsCount(f, d, base)
  <2>1. Len(d) \in G
    BY <1>1, <1>5
  <2> QED  BY <2>1 DEF IsCount, CountTo
<1> DEFINE f == CHOOSE g : IsCount(g, d, base)
<1>7. IsCount(f, d, base)
  BY <1>6
<1> HIDE DEF f
<1>8. \A n \in 0 .. Len(d) : f[n] = IF n = 0 THEN 0 ELSE f[n - 1] * base + DigitValue(d[n])
  <2>1. f = [n \in 0 .. Len(d) |-> IF n = 0 THEN 0 ELSE f[n - 1] * base + DigitValue(d[n])]
    BY <1>7, Zenon DEF IsCount
  <2> QED  BY <2>1, Zenon
<1> DEFINE H == {m \in Nat : m <= Len(d) => f[m] \in Nat}
<1>9. 0 \in H
  BY <1>1, <1>8
<1>10. ASSUME NEW m \in Nat, m \in H PROVE m + 1 \in H
  <2> SUFFICES ASSUME m + 1 <= Len(d) PROVE f[m + 1] \in Nat
    OBVIOUS
  <2>1. f[m] \in Nat /\ m + 1 \in 0 .. Len(d) /\ m + 1 # 0 /\ (m + 1) - 1 = m
        /\ DigitValue(d[m + 1]) \in Nat
    BY <1>1, <1>10
  <2>2. f[m + 1] = f[m] * base + DigitValue(d[m + 1])
    BY <1>8, <2>1
  <2>3. base = 10 \/ base = 16
    OBVIOUS
  <2> DEFINE a == f[m]
             b == DigitValue(d[m + 1])
  <2>4. a \in Nat /\ b \in Nat
    BY <2>1
  <2> HIDE DEF a, b
  <2>5. a * 10 + b \in Nat /\ a * 16 + b \in Nat
    BY <2>4
  <2> QED  BY <2>2, <2>3, <2>5 DEF a, b
<1>11. Nat \subseteq H
  <2> HIDE DEF H
  <2> QED  BY <1>9, <1>10, SetInduction
<1>12. f[Len(d)] \in Nat
  BY <1>1, <1>11
<1> QED  BY <1>2, <1>12 DEF f

-----------------------------------------------------------------------------
(* The parser: one line.                                                   *)

\* What the steps below leave alone.
Beside(r, q) == q \in Response /\ q.line = r.line /\ q.st \in {r.st, "bad"} /\ q.body = r.body

\* A part of a row of bytes is one.
LEMMA SomeOf ==
    ASSUME NEW s \in Row, NEW i \in Nat, NEW j \in Nat, i >= 1, j <= Len(s)
    PROVE  SubSeq(s, i, j) \in Row
BY DEF Row

\* None of these touches what the parser keeps of the bytes: a refusal,
LEMMA BadBeside ==
    ASSUME NEW r \in Response
    PROVE  Beside(r, Bad(r)) /\ Bad(r).st = "bad"
BY DEF Response, States, Bad, Beside

\* a header that is known,
LEMMA FieldBeside ==
    ASSUME NEW r \in Response, NEW name, NEW v \in Row
    PROVE  Beside(r, Field(r, name, v))
<1> DEFINE n == Number(v, 10)
<1>1. n \in Nat
  BY NumberNat
<1> HIDE DEF n
<1>2. CASE name = <<"Content-Length">>
  <2>1. CASE GoodLength(v)
    <3>1. Field(r, name, v) = [r EXCEPT !.length = n]
      BY <1>2, <2>1 DEF Field, n
    <3> QED  BY <1>1, <3>1 DEF Response, Beside
  <2>2. CASE ~ GoodLength(v)
    <3>1. Field(r, name, v) = Bad(r)
      BY <1>2, <2>2 DEF Field
    <3> QED  BY <3>1, BadBeside
  <2> QED  BY <2>1, <2>2
<1>3. CASE name # <<"Content-Length">> /\ name = <<"Transfer-Encoding">>
  <2> DEFINE b == r.chunked \/ "chunked" \in Range(v)
  <2>1. Field(r, name, v) = [r EXCEPT !.chunked = b]
    BY <1>3 DEF Field
  <2>2. b \in BOOLEAN
    OBVIOUS
  <2> HIDE DEF b
  <2> QED  BY <2>1, <2>2 DEF Response, Beside
<1>4. CASE name # <<"Content-Length">> /\ name # <<"Transfer-Encoding">>
  <2>1. Field(r, name, v) = r
    BY <1>4 DEF Field
  <2> QED  BY <2>1 DEF Beside
<1> QED  BY <1>2, <1>3, <1>4

\* A value without the blanks around it is a row of bytes.
LEMMA StrippedRow ==
    ASSUME NEW v \in Row
    PROVE  Stripped(v) \in Row
<1> DEFINE S == {i \in 1 .. Len(v) : \A j \in 1 .. i : v[j] = "sp"}
           n == Cardinality(S)
<1>1. n \in Nat
  <2>1. IsFiniteSet(1 .. Len(v)) /\ S \subseteq 1 .. Len(v)
    BY FS_Interval DEF Row
  <2> HIDE DEF S
  <2> QED  BY <2>1, FS_Subset, FS_CardinalityType
<1>2. Stripped(v) = SubSeq(v, 1 + n, Len(v))
  BY DEF Stripped
<1> HIDE DEF n
<1>3. Len(v) \in Nat
  BY DEF Row
<1>4. SubSeq(v, 1 + n, Len(v)) \in Row
  BY <1>1, <1>3, SomeOf
<1> QED  BY <1>2, <1>4

\* any header,
LEMMA HeaderBeside ==
    ASSUME NEW r \in Response, NEW l \in Row
    PROVE  Beside(r, Header(r, l))
<1> DEFINE i == FirstAt(l, ":")
<1>1. i \in 0 .. Len(l) /\ Len(l) \in Nat
  <2>3. i \in 0 .. Len(l)
    BY FirstAtIs
  <2>2. Len(l) \in Nat
    BY DEF Row
  <2> QED  BY <2>3, <2>2
<1>2. CASE r.st = "bad" \/ i = 0
  <2>1. Header(r, l) = r
    BY <1>2 DEF Header
  <2> QED  BY <2>1 DEF Beside
<1>3. CASE ~ (r.st = "bad" \/ i = 0)
  <2> DEFINE w == Stripped(SubSeq(l, i + 1, Len(l)))
             name == SubSeq(l, 1, i - 1)
  <2>1. w \in Row
    <3> HIDE DEF i
    <3>1. SubSeq(l, i + 1, Len(l)) \in Row
      BY <1>1, SomeOf
    <3> QED  BY <3>1, StrippedRow
  <2>2. Header(r, l) = The({Field(r, name, v) : v \in {w}})
    BY <1>3 DEF Header
  <2> HIDE DEF w, name
  <2>3. {Field(r, name, v) : v \in {w}} = {Field(r, name, w)}
    OBVIOUS
  <2>4. Header(r, l) = Field(r, name, w)
    BY <2>2, <2>3 DEF The
  <2> QED  BY <2>1, <2>4, FieldBeside
<1> QED  BY <1>2, <1>3

\* The header lines, one after the other.
IsHeaders(f, r) ==
    f = [n \in 0 .. Len(r.lines) |->
            IF n = 0 THEN r ELSE The({Header(q, r.lines[n]) : q \in {f[n - 1]}})]
HeadersTo(f, r, m) ==
    f = [n \in 0 .. m |-> IF n = 0 THEN r ELSE The({Header(q, r.lines[n]) : q \in {f[n - 1]}})]

\* The function that Headers chooses.
LEMMA HeadersIs == \A r : Headers(r) = (CHOOSE f : IsHeaders(f, r))[Len(r.lines)]
BY Zenon DEF Headers, IsHeaders

LEMMA TheOne == \A a, b : The({Header(q, a) : q \in {b}}) = Header(b, a)
<1> SUFFICES ASSUME NEW a, NEW b PROVE The({Header(q, a) : q \in {b}}) = Header(b, a)
  OBVIOUS
<1>1. {Header(q, a) : q \in {b}} = {Header(b, a)}
  OBVIOUS
<1> QED  BY <1>1 DEF The

\* all of them.
LEMMA HeadersBeside ==
    ASSUME NEW r \in Response
    PROVE  Beside(r, Headers(r))
<1>1. Len(r.lines) \in Nat /\ \A i \in 1 .. Len(r.lines) : r.lines[i] \in Row
  BY DEF Response
<1> DEFINE K == Len(r.lines)
           G == {m \in Nat : m <= K => \E f : HeadersTo(f, r, m)}
<1>3. 0 \in G
  <2> DEFINE f == [i \in 0 .. 0 |-> r]
  <2>1. f = [n \in 0 .. 0 |-> IF n = 0 THEN r ELSE The({Header(q, r.lines[n]) : q \in {f[n - 1]}})]
    OBVIOUS
  <2> HIDE DEF f
  <2>2. HeadersTo(f, r, 0)
    BY <2>1 DEF HeadersTo
  <2> QED  BY <2>2
<1>4. ASSUME NEW m \in Nat, m \in G PROVE m + 1 \in G
  <2> SUFFICES ASSUME m + 1 <= K PROVE \E f : HeadersTo(f, r, m + 1)
    OBVIOUS
  <2>1. PICK g : HeadersTo(g, r, m)
    BY <1>1, <1>4
  <2>2. \A i \in 0 .. m : g[i] = IF i = 0 THEN r ELSE The({Header(q, r.lines[i]) : q \in {g[i - 1]}})
    <3>1. g = [n \in 0 .. m |-> IF n = 0 THEN r ELSE The({Header(q, r.lines[n]) : q \in {g[n - 1]}})]
      BY <2>1, Zenon DEF HeadersTo
    <3> QED  BY <3>1, Zenon
  <2> DEFINE last == The({Header(q, r.lines[m + 1]) : q \in {g[m]}})
             f == [i \in 0 .. m + 1 |-> IF i = m + 1 THEN last ELSE g[i]]
  <2>4. ASSUME NEW i \in 0 .. m + 1
        PROVE  f[i] = IF i = 0 THEN r ELSE The({Header(q, r.lines[i]) : q \in {f[i - 1]}})
    <3>1. CASE i = m + 1
      <4>1. f[i - 1] = g[m] /\ i # 0 /\ f[i] = last
        BY <3>1
      <4> QED  BY <3>1, <4>1
    <3>2. CASE i # m + 1
      <4>1. i \in 0 .. m /\ f[i] = g[i] /\ (i # 0 => f[i - 1] = g[i - 1])
        BY <3>2
      <4> QED  BY <2>2, <4>1
    <3> QED  BY <3>1, <3>2
  <2>6. f = [n \in 0 .. m + 1 |-> IF n = 0 THEN r ELSE The({Header(q, r.lines[n]) : q \in {f[n - 1]}})]
    <3> DEFINE e == [n \in 0 .. m + 1 |-> IF n = 0 THEN r ELSE The({Header(q, r.lines[n]) : q \in {f[n - 1]}})]
    <3>1. f = e
      BY <2>4
    <3> QED  BY <3>1
  <2> HIDE DEF f
  <2>7. HeadersTo(f, r, m + 1)
    BY <2>6 DEF HeadersTo
  <2> QED  BY <2>7
<1>5. Nat \subseteq G
  <2> HIDE DEF G
  <2> QED  BY <1>3, <1>4, SetInduction
<1>6. \E f : IsHeaders(f, r)
  <2>1. K \in G
    BY <1>1, <1>5
  <2>2. PICK g : HeadersTo(g, r, K)
    BY <1>1, <2>1
  <2>3. IsHeaders(g, r)
    BY <2>2, Zenon DEF IsHeaders, HeadersTo
  <2> QED  BY <2>3
<1> DEFINE f == CHOOSE g : IsHeaders(g, r)
<1>7. IsHeaders(f, r)
  BY <1>6
<1>2. Headers(r) = f[K]
  BY HeadersIs
<1> HIDE DEF f
<1>8. \A n \in 0 .. K : f[n] = IF n = 0 THEN r ELSE Header(f[n - 1], r.lines[n])
  <2>1. f = [n \in 0 .. K |-> IF n = 0 THEN r ELSE The({Header(q, r.lines[n]) : q \in {f[n - 1]}})]
    BY <1>7, Zenon DEF IsHeaders
  <2>2. \A n \in 0 .. K : f[n] = IF n = 0 THEN r ELSE The({Header(q, r.lines[n]) : q \in {f[n - 1]}})
    BY <2>1, Zenon
  <2> QED  BY <2>2, TheOne
<1> DEFINE H == {m \in Nat : m <= K => Beside(r, f[m])}
<1>9. 0 \in H
  <2>1. f[0] = r
    BY <1>1, <1>8
  <2> QED  BY <2>1 DEF Beside
<1>10. ASSUME NEW m \in Nat, m \in H PROVE m + 1 \in H
  <2> SUFFICES ASSUME m + 1 <= K PROVE Beside(r, f[m + 1])
    OBVIOUS
  <2>1. Beside(r, f[m]) /\ m + 1 \in 0 .. K /\ m + 1 # 0 /\ (m + 1) - 1 = m /\ r.lines[m + 1] \in Row
    BY <1>1, <1>10
  <2>2. f[m + 1] = Header(f[m], r.lines[m + 1])
    BY <1>8, <2>1
  <2>3. f[m] \in Response
    BY <2>1 DEF Beside
  <2>4. Beside(f[m], f[m + 1])
    BY <2>1, <2>2, <2>3, HeaderBeside
  <2> QED  BY <2>1, <2>4 DEF Beside
<1>11. Nat \subseteq H
  <2> HIDE DEF H
  <2> QED  BY <1>9, <1>10, SetInduction
<1>12. Beside(r, f[K])
  BY <1>1, <1>11
<1> QED  BY <1>2, <1>12

\* Lines, stretches of a body, and whole turns leave a good response.
Live(r) == r.st \notin {"done", "bad"}

LEMMA EmptyRow == <<>> \in Row /\ Range(<<>>) = {} /\ Len(<<>>) = 0
BY DEF Row, Range

\* What becomes of a response at the end of its headers.
LEMMA TheHeaders ==
    \A r : EndHeaders(r) =
        LET q == Headers(r) IN
        CASE q.st = "bad" -> q
          [] q.st # "bad" /\ q.chunked -> [q EXCEPT !.st = "size"]
          [] q.st # "bad" /\ ~q.chunked /\ q.length > 0 ->
                [q EXCEPT !.st = "body", !.left = q.length]
          [] OTHER -> [q EXCEPT !.st = "done", !.unframed = q.length = NoLength]
BY DEF EndHeaders, The

\* The end of the headers leaves a response that is well formed,
LEMMA EndHeadersGood ==
    ASSUME NEW r \in Response, r.line = <<>>, r.st = "headers"
    PROVE  Good(EndHeaders(r))
<1> DEFINE q == Headers(r)
           b == (q.length = NoLength)
           x == EndHeaders(r)
<1>1. q \in Response /\ q.line = <<>> /\ q.st \in {"headers", "bad"}
  BY HeadersBeside DEF Beside
<1>2. x = CASE q.st = "bad" -> q
           [] q.st # "bad" /\ q.chunked -> [q EXCEPT !.st = "size"]
           [] q.st # "bad" /\ ~q.chunked /\ q.length > 0 ->
                [q EXCEPT !.st = "body", !.left = q.length]
           [] OTHER -> [q EXCEPT !.st = "done", !.unframed = b]
  BY TheHeaders
<1>3. b \in BOOLEAN
  OBVIOUS
<1> HIDE DEF q, b, x
<1>4. CASE q.st = "bad"
  <2>1. x = q
    BY <1>2, <1>4
  <2> QED  BY <1>1, <1>4, <2>1, EmptyRow DEF Good, x
<1>5. CASE q.st # "bad" /\ q.chunked
  <2>1. x = [q EXCEPT !.st = "size"]
    BY <1>2, <1>5
  <2>2. x \in Response /\ x.line = <<>> /\ x.st = "size"
    BY <1>1, <2>1 DEF Response, States
  <2> QED  BY <2>2, EmptyRow DEF Good, x
<1>6. CASE q.st # "bad" /\ ~q.chunked /\ q.length > 0
  <2>1. x = [q EXCEPT !.st = "body", !.left = q.length]
    BY <1>2, <1>6
  <2>0. q.length \in Nat
    BY <1>1, <1>6 DEF Response
  <2>2. x \in Response /\ x.line = <<>> /\ x.left > 0
    BY <1>1, <1>6, <2>0, <2>1 DEF Response, States
  <2> QED  BY <2>2, EmptyRow DEF Good, x
<1>7. CASE q.st # "bad" /\ ~q.chunked /\ ~ (q.length > 0)
  <2>1. x = [q EXCEPT !.st = "done", !.unframed = b]
    BY <1>2, <1>7
  <2>2. x \in Response /\ x.line = <<>> /\ x.st = "done"
    BY <1>1, <1>3, <2>1 DEF Response, States
  <2> QED  BY <2>2, EmptyRow DEF Good, x
<1> QED  BY <1>4, <1>5, <1>6, <1>7

LEMMA BadGood ==
    ASSUME NEW r \in Response, r.line = <<>>
    PROVE  Good(Bad(r))
BY BadBeside, EmptyRow DEF Good, Beside

\* and so does every line,
LEMMA LineGood ==
    ASSUME NEW r \in Response, r.line = <<>>, r.st \notin {"body", "data", "done", "bad"},
           NEW l \in Row
    PROVE  Good(Line(r, l))
<1>0. r.st \in {"status", "headers", "size", "crlf", "trailer"}
  BY DEF Response, States
<1>1. CASE r.st = "status"
  <2>1. Line(r, l) = StatusLine(r, l)
    BY <1>1 DEF Line
  <2> DEFINE i == FirstAt(l, "sp")
             n == Number(SubSeq(l, i + 1, i + 3), 10)
  <2>2. i \in 0 .. Len(l) /\ Len(l) \in Nat
    <3>1. Len(l) \in Nat
      BY DEF Row
    <3> QED  BY <3>1, FirstAtIs
  <2>3. CASE i = 0 \/ Len(l) - i < 3
    <3>1. StatusLine(r, l) = Bad(r)
      BY <2>3 DEF StatusLine
    <3> QED  BY <2>1, <3>1, BadGood
  <2>4. CASE ~ (i = 0 \/ Len(l) - i < 3)
    <3>1. StatusLine(r, l) = [r EXCEPT !.code = n, !.st = "headers"]
      BY <2>4 DEF StatusLine
    <3>2. n \in Nat
      <4> DEFINE v == SubSeq(l, i + 1, i + 3)
      <4>1. v \in Row
        <5> HIDE DEF i
        <5> QED  BY <2>2, <2>4, SomeOf
      <4> HIDE DEF i, v
      <4>2. Number(v, 10) \in Nat
        BY <4>1, NumberNat
      <4> QED  BY <4>2 DEF v
    <3> DEFINE x == [r EXCEPT !.code = n, !.st = "headers"]
    <3>3. x \in Response /\ x.line = <<>> /\ x.st = "headers"
      <4> HIDE DEF n
      <4> QED  BY <3>2 DEF Response, States
    <3> HIDE DEF x
    <3>4. Good(x)
      BY <3>3, EmptyRow DEF Good
    <3> QED  BY <2>1, <3>1, <3>4 DEF x
  <2> QED  BY <2>3, <2>4
<1>2. CASE r.st = "headers"
  <2>1. CASE l = <<>>
    <3>1. Line(r, l) = EndHeaders(r)
      BY <1>2, <2>1 DEF Line
    <3> QED  BY <1>2, <3>1, EndHeadersGood
  <2>2. CASE l # <<>>
    <3> DEFINE x == [r EXCEPT !.lines = Append(r.lines, l)]
    <3>1. Line(r, l) = x
      BY <1>2, <2>2 DEF Line
    <3>2. Append(r.lines, l) \in Seq(Row)
      BY DEF Response
    <3>3. x \in Response /\ x.line = <<>> /\ x.st = "headers"
      BY <1>2, <3>2 DEF Response
    <3> HIDE DEF x
    <3> QED  BY <3>1, <3>3, EmptyRow DEF Good
  <2> QED  BY <2>1, <2>2
<1>3. CASE r.st = "size"
  <2> DEFINE n == Number(l, 16)
             x == [r EXCEPT !.left = n, !.st = IF n = 0 THEN "trailer" ELSE "data"]
  <2>1. Line(r, l) = SizeLine(r, l)
    BY <1>3 DEF Line
  <2>2. n \in Nat
    BY NumberNat
  <2>3. CASE n > U64Max
    <3>1. SizeLine(r, l) = Bad(r)
      BY <2>3 DEF SizeLine
    <3> QED  BY <2>1, <3>1, BadGood
  <2>4. CASE ~ (n > U64Max)
    <3>1. SizeLine(r, l) = x
      BY <2>4 DEF SizeLine
    <3>2. x \in Response /\ x.line = <<>> /\ (x.st = "data" => x.left > 0)
          /\ x.st \in {"trailer", "data"}
      <4> HIDE DEF n
      <4>1. CASE n = 0
        <5>1. x = [r EXCEPT !.left = n, !.st = "trailer"]
          BY <4>1
        <5> HIDE DEF x
        <5> QED  BY <2>2, <5>1 DEF Response, States
      <4>2. CASE n # 0
        <5>1. x = [r EXCEPT !.left = n, !.st = "data"]
          BY <4>2
        <5>2. n > 0
          BY <2>2, <4>2
        <5> HIDE DEF x
        <5> QED  BY <2>2, <5>1, <5>2 DEF Response, States
      <4> QED  BY <4>1, <4>2
    <3> HIDE DEF x
    <3> QED  BY <2>1, <3>1, <3>2, EmptyRow DEF Good
  <2> QED  BY <2>3, <2>4
<1>4. CASE r.st = "crlf"
  <2>1. Line(r, l) = AfterChunk(r, l)
    BY <1>4 DEF Line
  <2>2. CASE l = <<>>
    <3> DEFINE x == [r EXCEPT !.st = "size"]
    <3>1. AfterChunk(r, l) = x
      BY <2>2 DEF AfterChunk
    <3>2. x \in Response /\ x.line = <<>> /\ x.st = "size"
      BY DEF Response, States
    <3> HIDE DEF x
    <3> QED  BY <2>1, <3>1, <3>2, EmptyRow DEF Good
  <2>3. CASE l # <<>>
    <3>1. AfterChunk(r, l) = Bad(r)
      BY <2>3 DEF AfterChunk
    <3> QED  BY <2>1, <3>1, BadGood
  <2> QED  BY <2>2, <2>3
<1>5. CASE r.st = "trailer"
  <2>1. CASE l = <<>>
    <3> DEFINE x == [r EXCEPT !.st = "done"]
    <3>1. Line(r, l) = x
      BY <1>5, <2>1 DEF Line
    <3>2. x \in Response /\ x.line = <<>> /\ x.st = "done"
      BY DEF Response, States
    <3> HIDE DEF x
    <3> QED  BY <3>1, <3>2, EmptyRow DEF Good
  <2>2. CASE l # <<>>
    <3>1. Line(r, l) = r
      BY <1>5, <2>2 DEF Line
    <3> QED  BY <1>5, <3>1, EmptyRow DEF Good
  <2> QED  BY <2>1, <2>2
<1> QED  BY <1>0, <1>1, <1>2, <1>3, <1>4, <1>5

LEMMA ChompRow ==
    ASSUME NEW l \in Row
    PROVE  Chomp(l) \in Row
<1>1. CASE l # <<>> /\ l[Len(l)] = "cr"
  <2>1. Len(l) - 1 \in Nat /\ Len(l) - 1 <= Len(l)
    BY <1>1 DEF Row
  <2>2. SubSeq(l, 1, Len(l) - 1) \in Row
    BY <2>1, SomeOf
  <2> QED  BY <1>1, <2>2 DEF Chomp
<1>2. CASE ~ (l # <<>> /\ l[Len(l)] = "cr")
  BY <1>2 DEF Chomp
<1> QED  BY <1>1, <1>2

\* A whole line is what was kept of it and what has come.
LEMMA TheLine ==
    \A r, d : WholeLine(r, d)
        = Line([r EXCEPT !.line = <<>>], Chomp(r.line \o SubSeq(d, 1, FirstAt(d, "lf") - 1)))
<1> SUFFICES ASSUME NEW r, NEW d
             PROVE  WholeLine(r, d)
               = Line([r EXCEPT !.line = <<>>], Chomp(r.line \o SubSeq(d, 1, FirstAt(d, "lf") - 1)))
  OBVIOUS
<1> DEFINE w == r.line \o SubSeq(d, 1, FirstAt(d, "lf") - 1)
           q == [r EXCEPT !.line = <<>>]
<1>1. WholeLine(r, d) = The({Line(q, Chomp(l)) : l \in {w}})
  BY DEF WholeLine
<1> HIDE DEF w, q
<1>2. {Line(q, Chomp(l)) : l \in {w}} = {Line(q, Chomp(w))}
  OBVIOUS
<1>3. WholeLine(r, d) = Line(q, Chomp(w))
  BY <1>1, <1>2 DEF The
<1> QED  BY <1>3 DEF w, q

\* Where a line ends in d: what comes before, and the rest.
LEMMA CutRow ==
    ASSUME NEW d \in Row, FirstAt(d, "lf") # 0
    PROVE  /\ FirstAt(d, "lf") \in 1 .. Len(d) /\ Len(d) \in Nat
           /\ SubSeq(d, 1, FirstAt(d, "lf") - 1) \in Row
           /\ SubSeq(d, FirstAt(d, "lf") + 1, Len(d)) \in Row
           /\ Len(SubSeq(d, FirstAt(d, "lf") + 1, Len(d))) = Len(d) - FirstAt(d, "lf")
<1> DEFINE i == FirstAt(d, "lf")
<1>1. Len(d) \in Nat
  BY DEF Row
<1>2. i \in 0 .. Len(d)
  BY FirstAtIs
<1> HIDE DEF i
<1>3. i \in 1 .. Len(d)
  BY <1>1, <1>2 DEF i
<1>4. SubSeq(d, 1, i - 1) \in Row
  BY <1>1, <1>3, SomeOf
<1>5. SubSeq(d, i + 1, Len(d)) \in Row
  BY <1>1, <1>3, SomeOf
<1>6. Len(SubSeq(d, i + 1, Len(d))) = Len(d) - i
  BY <1>1, <1>3 DEF Row
<1> QED  BY <1>1, <1>3, <1>4, <1>5, <1>6 DEF i

\* however it was cut,
LEMMA WholeLineGood ==
    ASSUME NEW r, Good(r), r.st \notin {"body", "data", "done", "bad"},
           NEW d \in Row, FirstAt(d, "lf") # 0
    PROVE  Good(WholeLine(r, d))
<1> DEFINE w == r.line \o SubSeq(d, 1, FirstAt(d, "lf") - 1)
           q == [r EXCEPT !.line = <<>>]
<1>1. r.line \in Row /\ SubSeq(d, 1, FirstAt(d, "lf") - 1) \in Row
  BY CutRow DEF Good, Response
<1>2. w \in Row
  BY <1>1 DEF Row
<1>3. q \in Response /\ q.line = <<>> /\ q.st = r.st
  BY EmptyRow DEF Good, Response
<1>4. WholeLine(r, d) = Line(q, Chomp(w))
  BY TheLine
<1> HIDE DEF w, q
<1>5. Chomp(w) \in Row
  BY <1>2, ChompRow
<1>6. Good(Line(q, Chomp(w)))
  BY <1>3, <1>5, LineGood
<1> QED  BY <1>4, <1>6

\* A stretch of a body takes up what there is of it.
Taken(r, d) == IF r.left < Len(d) THEN r.left ELSE Len(d)

LEMMA StretchIs ==
    \A r, d : Stretch(r, d) =
        [r EXCEPT !.body = @ \o SubSeq(d, 1, Taken(r, d)), !.left = @ - Taken(r, d),
                  !.st = IF r.left > Taken(r, d) THEN @ ELSE IF @ = "body" THEN "done" ELSE "crlf"]
BY DEF Stretch, Taken

\* A stretch takes a byte at least and no more than there is or is wanted.
LEMMA TakenIs ==
    ASSUME NEW r \in Response, r.left > 0, NEW d \in Row, d # <<>>
    PROVE  /\ Taken(r, d) \in 1 .. Len(d) /\ Len(d) \in Nat /\ Taken(r, d) <= r.left
           /\ r.left \in Nat
           /\ SubSeq(d, 1, Taken(r, d)) \in Row
           /\ SubSeq(d, Taken(r, d) + 1, Len(d)) \in Row
           /\ Len(SubSeq(d, Taken(r, d) + 1, Len(d))) = Len(d) - Taken(r, d)
<1> DEFINE n == Taken(r, d)
<1>1. Len(d) \in Nat /\ Len(d) # 0 /\ r.left \in Nat
  BY DEF Row, Response
<1>2. n \in 1 .. Len(d) /\ n <= r.left
  BY <1>1 DEF Taken
<1> HIDE DEF n
<1>3. SubSeq(d, 1, n) \in Row /\ SubSeq(d, n + 1, Len(d)) \in Row
  BY <1>1, <1>2, SomeOf
<1>4. Len(SubSeq(d, n + 1, Len(d))) = Len(d) - n
  BY <1>1, <1>2 DEF Row
<1> QED  BY <1>1, <1>2, <1>3, <1>4 DEF n

\* and every stretch of a body,
LEMMA StretchGood ==
    ASSUME NEW r, Good(r), r.st \in {"body", "data"}, NEW d \in Row, d # <<>>
    PROVE  Good(Stretch(r, d))
<1> DEFINE n == Taken(r, d)
           b == r.body \o SubSeq(d, 1, n)
           s == IF r.left > n THEN r.st ELSE IF r.st = "body" THEN "done" ELSE "crlf"
           x == [r EXCEPT !.body = b, !.left = r.left - n, !.st = s]
<1>1. r \in Response /\ r.left > 0 /\ r.line = <<>>
  BY DEF Good
<1>2. n \in Nat /\ n <= r.left /\ r.left \in Nat /\ SubSeq(d, 1, n) \in Row
  BY <1>1, TakenIs
<1>3. b \in Row
  <2>1. r.body \in Row
    BY <1>1 DEF Response
  <2> HIDE DEF n
  <2> QED  BY <1>2, <2>1 DEF Row
<1>4. Stretch(r, d) = x
  BY StretchIs
<1>5. s \in States /\ (s \in {"body", "data"} => r.left > n)
  BY DEF States
<1> HIDE DEF n, b, s
<1>6. r.left - n \in Nat /\ (r.left > n => r.left - n > 0)
  BY <1>2
<1>7. x \in Response /\ x.line = <<>> /\ x.st = s /\ x.left = r.left - n
  BY <1>1, <1>3, <1>5, <1>6 DEF Response
<1> HIDE DEF x
<1> QED  BY <1>4, <1>5, <1>6, <1>7, EmptyRow DEF Good

\* One turn.
LEMMA TurnIdle ==
    ASSUME NEW r, NEW d, d = <<>> \/ ~ Live(r)
    PROVE  Turn(r, d) = <<r, d>>
BY DEF Turn, Live

\* Which turn it is.
LEMMA TurnIs ==
    ASSUME NEW r, Good(r), Live(r), NEW d \in Row, d # <<>>
    PROVE  /\ r.st \in {"body", "data"} =>
                Turn(r, d) = <<Stretch(r, d), SubSeq(d, Taken(r, d) + 1, Len(d))>>
           /\ r.st \notin {"body", "data"} /\ FirstAt(d, "lf") = 0 => Turn(r, d) = <<PartLine(r, d), <<>>>>
           /\ r.st \notin {"body", "data"} /\ FirstAt(d, "lf") # 0 =>
                Turn(r, d) = <<WholeLine(r, d), SubSeq(d, FirstAt(d, "lf") + 1, Len(d))>>
<1>1. ASSUME r.st \in {"body", "data"}
      PROVE  Turn(r, d) = <<Stretch(r, d), SubSeq(d, Taken(r, d) + 1, Len(d))>>
  BY <1>1 DEF Turn, Live, Taken
<1>2. ASSUME r.st \notin {"body", "data"}, FirstAt(d, "lf") = 0
      PROVE  Turn(r, d) = <<PartLine(r, d), <<>>>>
  BY <1>2 DEF Turn, Live
<1>3. ASSUME r.st \notin {"body", "data"}, FirstAt(d, "lf") # 0
      PROVE  Turn(r, d) = <<WholeLine(r, d), SubSeq(d, FirstAt(d, "lf") + 1, Len(d))>>
  BY <1>3 DEF Turn, Live
<1> QED  BY <1>1, <1>2, <1>3

\* and a line that has not ended yet,
LEMMA PartLineGood ==
    ASSUME NEW r, Good(r), r.st \notin {"body", "data"}, NEW d \in Row, FirstAt(d, "lf") = 0
    PROVE  Good(PartLine(r, d))
<1> DEFINE w == r.line \o d
           x == [r EXCEPT !.line = w]
<1>1. PartLine(r, d) = x
  BY DEF PartLine
<1>2. "lf" \notin Range(d)
  BY FirstAtIs
<1>3. r.line \in Row /\ "lf" \notin Range(r.line)
  BY DEF Good, Response
<1>4. w \in Row /\ Len(r.line) \in Nat /\ Len(d) \in Nat /\ Len(w) = Len(r.line) + Len(d)
      /\ \A i \in 1 .. Len(w) : w[i] = IF i <= Len(r.line) THEN r.line[i] ELSE d[i - Len(r.line)]
  BY <1>3, ConcatProperties DEF Row
<1>5. "lf" \notin Range(w)
  <2>1. /\ \A i \in 1 .. Len(r.line) : r.line[i] # "lf"
        /\ \A i \in 1 .. Len(d) : d[i] # "lf"
    BY <1>2, <1>3 DEF Range, Row
  <2>2. ASSUME NEW i \in 1 .. Len(w) PROVE w[i] # "lf"
    <3>1. CASE i <= Len(r.line)
      BY <1>4, <2>1, <3>1
    <3>2. CASE i > Len(r.line)
      <4>1. i - Len(r.line) \in 1 .. Len(d)
        BY <1>4, <3>2
      <4> QED  BY <1>4, <2>1, <3>2, <4>1
    <3>3. i <= Len(r.line) \/ i > Len(r.line)
      BY <1>4
    <3> QED  BY <3>1, <3>2, <3>3, Zenon
  <2>3. DOMAIN w = 1 .. Len(w)
    BY <1>4 DEF Row
  <2> HIDE DEF w
  <2> QED  BY <2>2, <2>3 DEF Range
<1> HIDE DEF w
<1>6. x \in Response /\ x.line = w /\ x.st = r.st
  BY <1>4 DEF Good, Response
<1> QED  BY <1>1, <1>5, <1>6 DEF Good

\* so every turn does, and uses up a byte at least.
LEMMA TurnGood ==
    ASSUME NEW r, Good(r), Live(r), NEW d \in Row, d # <<>>
    PROVE  /\ Good(Turn(r, d)[1]) /\ Turn(r, d)[2] \in Row
           /\ Len(Turn(r, d)[2]) \in Nat /\ Len(Turn(r, d)[2]) < Len(d)
<1>0. Len(d) \in Nat /\ Len(d) > 0
  BY DEF Row
<1>1. CASE r.st \in {"body", "data"}
  <2>1. Turn(r, d) = <<Stretch(r, d), SubSeq(d, Taken(r, d) + 1, Len(d))>>
    BY <1>1, TurnIs
  <2>2. Good(Stretch(r, d))
    BY <1>1, StretchGood
  <2>3. /\ SubSeq(d, Taken(r, d) + 1, Len(d)) \in Row /\ Taken(r, d) \in 1 .. Len(d)
        /\ Len(SubSeq(d, Taken(r, d) + 1, Len(d))) = Len(d) - Taken(r, d)
    BY <1>1, TakenIs DEF Good
  <2>4. Len(d) - Taken(r, d) \in Nat /\ Len(d) - Taken(r, d) < Len(d)
    BY ONLY <1>0, <2>3
  <2> QED  BY <2>1, <2>2, <2>3, <2>4
<1>2. CASE r.st \notin {"body", "data"} /\ FirstAt(d, "lf") = 0
  <2>1. Turn(r, d) = <<PartLine(r, d), <<>>>>
    BY <1>2, TurnIs
  <2>2. Good(PartLine(r, d))
    BY <1>2, PartLineGood
  <2> QED  BY <1>0, <2>1, <2>2, EmptyRow
<1>3. CASE r.st \notin {"body", "data"} /\ FirstAt(d, "lf") # 0
  <2>1. Turn(r, d) = <<WholeLine(r, d), SubSeq(d, FirstAt(d, "lf") + 1, Len(d))>>
    BY <1>3, TurnIs
  <2>2. Good(WholeLine(r, d))
    BY <1>3, WholeLineGood DEF Live
  <2>3. /\ SubSeq(d, FirstAt(d, "lf") + 1, Len(d)) \in Row /\ FirstAt(d, "lf") \in 1 .. Len(d)
        /\ Len(SubSeq(d, FirstAt(d, "lf") + 1, Len(d))) = Len(d) - FirstAt(d, "lf")
    BY <1>3, CutRow
  <2>4. Len(d) - FirstAt(d, "lf") \in Nat /\ Len(d) - FirstAt(d, "lf") < Len(d)
    BY ONLY <1>0, <2>3
  <2> QED  BY <2>1, <2>2, <2>3, <2>4
<1> QED  BY <1>1, <1>2, <1>3

-----------------------------------------------------------------------------
(* The parser: turn by turn.                                               *)

IsTurns(f, r, d) ==
    f = [n \in 0 .. Len(d) |->
            IF n = 0 THEN <<r, d>> ELSE The({Turn(p[1], p[2]) : p \in {f[n - 1]}})]
TurnsTo(f, r, d, m) ==
    f = [n \in 0 .. m |-> IF n = 0 THEN <<r, d>> ELSE The({Turn(p[1], p[2]) : p \in {f[n - 1]}})]

\* The function that Parse chooses.
LEMMA ParseTakes == \A r, d : Parse(r, d) = (CHOOSE f : IsTurns(f, r, d))[Len(d)][1]
BY Zenon DEF Parse, IsTurns

LEMMA TheTurn == \A b : The({Turn(p[1], p[2]) : p \in {b}}) = Turn(b[1], b[2])
<1> SUFFICES ASSUME NEW b PROVE The({Turn(p[1], p[2]) : p \in {b}}) = Turn(b[1], b[2])
  OBVIOUS
<1>1. {Turn(p[1], p[2]) : p \in {b}} = {Turn(b[1], b[2])}
  OBVIOUS
<1> QED  BY <1>1 DEF The

\* f takes m turns from r and d.
Turns(f, r, d, m) == f[0] = <<r, d>> /\ \A n \in 1 .. m : f[n] = Turn(f[n - 1][1], f[n - 1][2])

\* Parse is as many turns as there are bytes.
LEMMA ParseTurns ==
    ASSUME NEW r, NEW d, Len(d) \in Nat
    PROVE  \E f : Turns(f, r, d, Len(d)) /\ Parse(r, d) = f[Len(d)][1]
<1> DEFINE G == {m \in Nat : \E f : TurnsTo(f, r, d, m)}
<1>1. 0 \in G
  <2> DEFINE f == [i \in 0 .. 0 |-> <<r, d>>]
  <2>1. f = [n \in 0 .. 0 |-> IF n = 0 THEN <<r, d>> ELSE The({Turn(p[1], p[2]) : p \in {f[n - 1]}})]
    OBVIOUS
  <2> HIDE DEF f
  <2>2. TurnsTo(f, r, d, 0)
    BY <2>1 DEF TurnsTo
  <2> QED  BY <2>2
<1>2. ASSUME NEW m \in Nat, m \in G PROVE m + 1 \in G
  <2>1. PICK g : TurnsTo(g, r, d, m)
    BY <1>2
  <2>2. \A i \in 0 .. m : g[i] = IF i = 0 THEN <<r, d>> ELSE The({Turn(p[1], p[2]) : p \in {g[i - 1]}})
    <3>1. g = [n \in 0 .. m |-> IF n = 0 THEN <<r, d>> ELSE The({Turn(p[1], p[2]) : p \in {g[n - 1]}})]
      BY <2>1, Zenon DEF TurnsTo
    <3> QED  BY <3>1, Zenon
  <2> DEFINE last == The({Turn(p[1], p[2]) : p \in {g[m]}})
             f == [i \in 0 .. m + 1 |-> IF i = m + 1 THEN last ELSE g[i]]
  <2>4. ASSUME NEW i \in 0 .. m + 1
        PROVE  f[i] = IF i = 0 THEN <<r, d>> ELSE The({Turn(p[1], p[2]) : p \in {f[i - 1]}})
    <3>1. CASE i = m + 1
      <4>1. f[i - 1] = g[m] /\ i # 0 /\ f[i] = last
        BY <3>1
      <4> QED  BY <3>1, <4>1
    <3>2. CASE i # m + 1
      <4>1. i \in 0 .. m /\ f[i] = g[i] /\ (i # 0 => f[i - 1] = g[i - 1])
        BY <3>2
      <4> QED  BY <2>2, <4>1
    <3> QED  BY <3>1, <3>2
  <2>6. f = [n \in 0 .. m + 1 |-> IF n = 0 THEN <<r, d>> ELSE The({Turn(p[1], p[2]) : p \in {f[n - 1]}})]
    <3> DEFINE e == [n \in 0 .. m + 1 |-> IF n = 0 THEN <<r, d>> ELSE The({Turn(p[1], p[2]) : p \in {f[n - 1]}})]
    <3>1. f = e
      BY <2>4
    <3> QED  BY <3>1
  <2> HIDE DEF f
  <2>7. TurnsTo(f, r, d, m + 1)
    BY <2>6 DEF TurnsTo
  <2> QED  BY <2>7
<1>3. Nat \subseteq G
  <2> HIDE DEF G
  <2> QED  BY <1>1, <1>2, SetInduction
<1>4. \E f : IsTurns(f, r, d)
  <2>1. PICK g : TurnsTo(g, r, d, Len(d))
    BY <1>3
  <2>2. IsTurns(g, r, d)
    BY <2>1, Zenon DEF IsTurns, TurnsTo
  <2> QED  BY <2>2
<1> DEFINE f == CHOOSE g : IsTurns(g, r, d)
<1>5. IsTurns(f, r, d)
  BY <1>4
<1>6. Parse(r, d) = f[Len(d)][1]
  BY ParseTakes
<1> HIDE DEF f
<1>7. \A n \in 0 .. Len(d) : f[n] = IF n = 0 THEN <<r, d>> ELSE Turn(f[n - 1][1], f[n - 1][2])
  <2>1. f = [n \in 0 .. Len(d) |-> IF n = 0 THEN <<r, d>> ELSE The({Turn(p[1], p[2]) : p \in {f[n - 1]}})]
    BY <1>5, Zenon DEF IsTurns
  <2>2. \A n \in 0 .. Len(d) : f[n] = IF n = 0 THEN <<r, d>> ELSE The({Turn(p[1], p[2]) : p \in {f[n - 1]}})
    BY <2>1, Zenon
  <2> QED  BY <2>2, TheTurn
<1>8. 0 \in 0 .. Len(d) /\ \A n \in 1 .. Len(d) : n # 0 /\ n \in 0 .. Len(d)
  OBVIOUS
<1>9. f[0] = <<r, d>>
  BY <1>7, <1>8, Zenon
<1>10. \A n \in 1 .. Len(d) : f[n] = Turn(f[n - 1][1], f[n - 1][2])
  BY <1>7, <1>8, Zenon
<1>11. Turns(f, r, d, Len(d))
  BY <1>9, <1>10 DEF Turns
<1> QED  BY <1>6, <1>11

\* Nothing left to do.
Idle(p) == p[2] = <<>> \/ ~ Live(p[1])

\* After as many turns as there are bytes nothing is left to do.
LEMMA TurnsSettle ==
    ASSUME NEW r, Good(r), NEW d \in Row, NEW m \in Nat, NEW f, Turns(f, r, d, m)
    PROVE  \A n \in 0 .. m : /\ Good(f[n][1]) /\ f[n][2] \in Row
                             /\ Idle(f[n]) \/ Len(f[n][2]) + n <= Len(d)
<1> DEFINE P(n) == /\ Good(f[n][1]) /\ f[n][2] \in Row
                   /\ Idle(f[n]) \/ Len(f[n][2]) + n <= Len(d)
           G == {n \in Nat : n <= m => P(n)}
<1>0. Len(d) \in Nat
  BY DEF Row
<1>1. 0 \in G
  BY <1>0 DEF Turns
<1>2. ASSUME NEW n \in Nat, n \in G PROVE n + 1 \in G
  <2> SUFFICES ASSUME n + 1 <= m PROVE P(n + 1)
    OBVIOUS
  <2>1. P(n) /\ n + 1 \in 1 .. m /\ (n + 1) - 1 = n
    BY <1>2
  <2> DEFINE q == f[n][1]
             e == f[n][2]
  <2>2. f[n + 1] = Turn(q, e)
    BY <2>1 DEF Turns
  <2>3. CASE Idle(f[n])
    <3>1. Turn(q, e) = <<q, e>>
      <4>1. e = <<>> \/ ~ Live(q)
        BY <2>3 DEF Idle
      <4> HIDE DEF q, e
      <4> QED  BY <4>1, TurnIdle
    <3>2. f[n + 1][1] = q /\ f[n + 1][2] = e
      BY <2>2, <3>1
    <3>3. Idle(f[n + 1])
      BY <2>3, <3>2 DEF Idle
    <3> QED  BY <2>1, <3>2, <3>3
  <2>4. CASE ~ Idle(f[n])
    <3>1. Good(q) /\ Live(q) /\ e \in Row /\ e # <<>> /\ Len(e) + n <= Len(d)
      BY <2>1, <2>4 DEF Idle
    <3> HIDE DEF q, e
    <3>2. /\ Good(Turn(q, e)[1]) /\ Turn(q, e)[2] \in Row
          /\ Len(Turn(q, e)[2]) \in Nat /\ Len(Turn(q, e)[2]) < Len(e)
      BY <3>1, TurnGood
    <3>3. Len(e) \in Nat
      BY <3>1 DEF Row
    <3> DEFINE k == Len(Turn(q, e)[2])
    <3>4. k + (n + 1) <= Len(d)
      <4>1. k \in Nat /\ k < Len(e)
        BY <3>2
      <4> HIDE DEF k
      <4> QED  BY ONLY <1>0, <3>1, <3>3, <4>1, n \in Nat
    <3> QED  BY <2>2, <3>2, <3>4
  <2> QED  BY <2>3, <2>4
<1>3. Nat \subseteq G
  <2> HIDE DEF G
  <2> QED  BY <1>1, <1>2, SetInduction
<1>4. \A n \in 0 .. m : P(n)
  BY <1>3
<1> QED  BY <1>4

\* Two that start alike go on alike.
LEMMA TurnsAlike ==
    ASSUME NEW m \in Nat, NEW f, NEW g, f[0] = g[0],
           \A n \in 1 .. m : f[n] = Turn(f[n - 1][1], f[n - 1][2]),
           \A n \in 1 .. m : g[n] = Turn(g[n - 1][1], g[n - 1][2])
    PROVE  f[m] = g[m]
<1> DEFINE G == {n \in Nat : n <= m => f[n] = g[n]}
<1>1. 0 \in G
  OBVIOUS
<1>2. ASSUME NEW n \in Nat, n \in G PROVE n + 1 \in G
  <2> SUFFICES ASSUME n + 1 <= m PROVE f[n + 1] = g[n + 1]
    OBVIOUS
  <2>1. f[n] = g[n] /\ n + 1 \in 1 .. m /\ (n + 1) - 1 = n
    BY <1>2
  <2>2. f[n + 1] = Turn(f[n][1], f[n][2]) /\ g[n + 1] = Turn(g[n][1], g[n][2])
    BY <2>1
  <2> QED  BY <2>1, <2>2
<1>3. Nat \subseteq G
  <2> HIDE DEF G
  <2> QED  BY <1>1, <1>2, SetInduction
<1>4. m \in G
  BY <1>3
<1> QED  BY <1>4

\* Once idle, always.
LEMMA TurnsRest ==
    ASSUME NEW k \in Nat, NEW m \in Nat, k <= m, NEW f, Idle(f[k]), f[k] = <<f[k][1], f[k][2]>>,
           \A n \in k + 1 .. m : f[n] = Turn(f[n - 1][1], f[n - 1][2])
    PROVE  f[m] = f[k]
<1> DEFINE G == {n \in Nat : n >= k /\ n <= m => f[n] = f[k]}
<1>1. 0 \in G
  OBVIOUS
<1>2. ASSUME NEW n \in Nat, n \in G PROVE n + 1 \in G
  <2> SUFFICES ASSUME n + 1 >= k, n + 1 <= m PROVE f[n + 1] = f[k]
    OBVIOUS
  <2>1. CASE n + 1 = k
    BY <2>1
  <2>2. CASE n + 1 # k
    <3>1. f[n] = f[k] /\ n + 1 \in k + 1 .. m /\ (n + 1) - 1 = n
      BY <1>2, <2>2
    <3>2. f[n + 1] = Turn(f[k][1], f[k][2])
      BY <3>1
    <3>3. Turn(f[k][1], f[k][2]) = <<f[k][1], f[k][2]>>
      BY TurnIdle DEF Idle
    <3> QED  BY <3>2, <3>3
  <2> QED  BY <2>1, <2>2
<1>3. Nat \subseteq G
  <2> HIDE DEF G
  <2> QED  BY <1>1, <1>2, SetInduction
<1>4. m \in G
  BY <1>3
<1> QED  BY <1>4

LEMMA TurnIsPair ==
    \A r, d : Turn(r, d) = <<Turn(r, d)[1], Turn(r, d)[2]>>
<1> SUFFICES ASSUME NEW r, NEW d PROVE Turn(r, d) = <<Turn(r, d)[1], Turn(r, d)[2]>>
  OBVIOUS
<1>1. \E x, y : Turn(r, d) = <<x, y>>
  <2>1. CASE d = <<>> \/ r.st \in {"done", "bad"}
    BY <2>1, ZenonT(40) DEF Turn
  <2>2. CASE d # <<>> /\ r.st \in {"body", "data"}
    BY <2>2, ZenonT(40) DEF Turn
  <2>3. CASE d # <<>> /\ r.st \notin {"body", "data", "done", "bad"} /\ FirstAt(d, "lf") = 0
    BY <2>3, ZenonT(40) DEF Turn
  <2>4. CASE d # <<>> /\ r.st \notin {"body", "data", "done", "bad"} /\ FirstAt(d, "lf") # 0
    BY <2>4, ZenonT(40) DEF Turn
  <2> QED  BY <2>1, <2>2, <2>3, <2>4
<1> QED  BY <1>1

\* A response that is complete or refused takes nothing, and nothing changes nothing.
LEMMA ParseIdle ==
    ASSUME NEW r, NEW d \in Row, d = <<>> \/ ~ Live(r)
    PROVE  Parse(r, d) = r
<1>0. Len(d) \in Nat
  BY DEF Row
<1>1. PICK f : Turns(f, r, d, Len(d)) /\ Parse(r, d) = f[Len(d)][1]
  BY <1>0, ParseTurns
<1>2. f[0] = <<r, d>> /\ \A n \in 1 .. Len(d) : f[n] = Turn(f[n - 1][1], f[n - 1][2])
  BY <1>1 DEF Turns
<1>3. Idle(f[0]) /\ f[0] = <<f[0][1], f[0][2]>>
  BY <1>2 DEF Idle
<1> DEFINE m == Len(d)
<1>4. f[m] = f[0]
  <2>1. \A n \in 0 + 1 .. m : f[n] = Turn(f[n - 1][1], f[n - 1][2])
    BY <1>2
  <2>2. 0 \in Nat /\ m \in Nat /\ 0 <= m
    BY <1>0
  <2> HIDE DEF m
  <2> QED  BY <1>3, <2>1, <2>2, TurnsRest
<1> QED  BY <1>1, <1>2, <1>4

\* feed(): a turn, and then what the rest of the piece asks for.
LEMMA ParseTurn ==
    ASSUME NEW r, Good(r), Live(r), NEW d \in Row, d # <<>>
    PROVE  Parse(r, d) = Parse(Turn(r, d)[1], Turn(r, d)[2])
<1> DEFINE q == Turn(r, d)[1]
           e == Turn(r, d)[2]
           k == Len(e)
           m == Len(d) - 1
<1>1. Len(d) \in Nat /\ Len(d) # 0
  BY DEF Row
<1>2. Good(q) /\ e \in Row /\ k \in Nat /\ k < Len(d) /\ Turn(r, d) = <<q, e>>
  BY TurnGood, TurnIsPair
<1>3. PICK f : Turns(f, r, d, Len(d)) /\ Parse(r, d) = f[Len(d)][1]
  BY <1>1, ParseTurns
<1>4. PICK g : Turns(g, q, e, k) /\ Parse(q, e) = g[k][1]
  <2> HIDE DEF q, e
  <2> QED  BY <1>2, ParseTurns
<1>5. f[0] = <<r, d>> /\ \A n \in 1 .. Len(d) : f[n] = Turn(f[n - 1][1], f[n - 1][2])
  BY <1>3 DEF Turns
<1>6. g[0] = <<q, e>> /\ \A n \in 1 .. k : g[n] = Turn(g[n - 1][1], g[n - 1][2])
  <2> HIDE DEF q, e, k
  <2> QED  BY <1>4 DEF Turns
<1> HIDE DEF q, e, k
<1> DEFINE h == [n \in 0 .. m |-> f[n + 1]]
<1>7. m \in Nat /\ k <= m /\ m + 1 = Len(d)
  BY <1>1, <1>2
<1> HIDE DEF m
<1>8. h[0] = g[0]
  <2>1. f[1] = Turn(f[0][1], f[0][2])
    <3>1. 1 \in 1 .. Len(d) /\ 1 - 1 = 0
      BY <1>1
    <3> QED  BY <1>5, <3>1
  <2>2. h[0] = f[1]
    BY <1>7
  <2> HIDE DEF h
  <2>3. f[0][1] = r /\ f[0][2] = d
    BY <1>5
  <2>4. f[1] = Turn(r, d)
    BY <2>1, <2>3
  <2> QED  BY <1>2, <1>6, <2>2, <2>4
<1>9. \A n \in 1 .. m : h[n] = Turn(h[n - 1][1], h[n - 1][2])
  <2> SUFFICES ASSUME NEW n \in 1 .. m PROVE h[n] = Turn(h[n - 1][1], h[n - 1][2])
    OBVIOUS
  <2>1. n + 1 \in 1 .. Len(d) /\ (n + 1) - 1 = n /\ n \in 0 .. m /\ n - 1 \in 0 .. m /\ (n - 1) + 1 = n
    BY <1>7
  <2>2. h[n] = f[n + 1] /\ h[n - 1] = f[n]
    BY <2>1
  <2>3. f[n + 1] = Turn(f[n][1], f[n][2])
    BY <1>5, <2>1
  <2> QED  BY <2>2, <2>3
<1>10. h[m] = f[Len(d)]
  BY <1>7
<1> HIDE DEF h
<1>11. h[k] = g[k]
  <2>1. \A n \in 1 .. k : h[n] = Turn(h[n - 1][1], h[n - 1][2])
    BY <1>2, <1>7, <1>9
  <2> QED  BY <1>2, <1>6, <1>8, <2>1, TurnsAlike
<1>12. Idle(g[k])
  <2>1. /\ Good(g[k][1]) /\ g[k][2] \in Row
        /\ Idle(g[k]) \/ Len(g[k][2]) + k <= Len(e)
    <3>1. k \in 0 .. k
      BY <1>2
    <3> QED  BY <1>2, <1>4, <3>1, TurnsSettle
  <2>2. CASE Len(g[k][2]) + k <= Len(e)
    <3>1. Len(g[k][2]) \in Nat
      BY <2>1 DEF Row
    <3>2. Len(g[k][2]) = 0
      BY <1>2, <2>2, <3>1 DEF k
    <3>3. g[k][2] = <<>>
      BY <2>1, <3>2 DEF Row
    <3> QED  BY <3>3 DEF Idle
  <2> QED  BY <2>1, <2>2
<1>13. h[k] = <<h[k][1], h[k][2]>>
  <2>1. CASE k = 0
    BY <1>6, <1>11, <2>1
  <2>2. CASE k # 0
    <3>1. k \in 1 .. m
      BY <1>2, <1>7, <2>2
    <3>2. h[k] = Turn(h[k - 1][1], h[k - 1][2])
      BY <1>9, <3>1
    <3> QED  BY <3>2, TurnIsPair
  <2> QED  BY <2>1, <2>2
<1>14. h[m] = h[k]
  <2>1. \A n \in k + 1 .. m : h[n] = Turn(h[n - 1][1], h[n - 1][2])
    BY <1>2, <1>7, <1>9
  <2> QED  BY <1>2, <1>7, <1>11, <1>12, <1>13, <2>1, TurnsRest
<1>15. Parse(r, d) = Parse(q, e)
  BY <1>3, <1>4, <1>10, <1>11, <1>14
<1> QED  BY <1>15 DEF q, e

\* Rows of bytes, joined: lengths and places.
LEMMA RowFacts ==
    ASSUME NEW a \in Row, NEW b \in Row
    PROVE  /\ a \o b \in Row /\ Len(a) \in Nat /\ Len(b) \in Nat /\ Len(a \o b) = Len(a) + Len(b)
           /\ \A i \in 1 .. Len(a) : (a \o b)[i] = a[i]
           /\ \A i \in 1 .. Len(b) : (a \o b)[Len(a) + i] = b[i]
<1>1. a \o b \in Row /\ Len(a) \in Nat /\ Len(b) \in Nat /\ Len(a \o b) = Len(a) + Len(b)
  BY DEF Row
<1>2. \A i \in 1 .. Len(a) : (a \o b)[i] = a[i]
  BY DEF Row
<1>3. \A i \in 1 .. Len(b) : (a \o b)[Len(a) + i] = b[i]
  BY DEF Row
<1> QED  BY <1>1, <1>2, <1>3

\* Rows that agree at every place are the same.
LEMMA RowSame ==
    ASSUME NEW a \in Row, NEW b \in Row, Len(a) = Len(b), \A i \in 1 .. Len(a) : a[i] = b[i]
    PROVE  a = b
BY SeqEqual DEF Row

\* A part of a row: length and places.
LEMMA PieceFacts ==
    ASSUME NEW s \in Row, NEW i \in Nat, NEW j \in Nat, i >= 1, i <= j + 1, j <= Len(s)
    PROVE  /\ SubSeq(s, i, j) \in Row /\ Len(SubSeq(s, i, j)) = (j - i) + 1
           /\ \A k \in 1 .. (j - i) + 1 : SubSeq(s, i, j)[k] = s[(i + k) - 1]
<1>1. SubSeq(s, i, j) \in Row
  BY SomeOf
<1>2. Len(SubSeq(s, i, j)) = (j - i) + 1
  <2>1. CASE i <= j
    BY <2>1 DEF Row
  <2>2. CASE i = j + 1
    BY <2>2 DEF Row
  <2> QED  BY <2>1, <2>2
<1>3. \A k \in 1 .. (j - i) + 1 : SubSeq(s, i, j)[k] = s[(i + k) - 1]
  BY DEF Row
<1> QED  BY <1>1, <1>2, <1>3

\* A piece that ends before the cut, and what goes on behind it.
LEMMA CutBefore ==
    ASSUME NEW a \in Row, NEW b \in Row, NEW n \in Nat, n <= Len(a)
    PROVE  SubSeq(a \o b, 1, n) = SubSeq(a, 1, n)
<1>0. /\ a \o b \in Row /\ Len(a) \in Nat /\ Len(b) \in Nat /\ Len(a \o b) = Len(a) + Len(b)
      /\ \A i \in 1 .. Len(a) : (a \o b)[i] = a[i]
  BY RowFacts
<1> DEFINE x == SubSeq(a \o b, 1, n)
           y == SubSeq(a, 1, n)
<1>1. x \in Row /\ Len(x) = n /\ \A k \in 1 .. n : x[k] = (a \o b)[k]
  <2>1. 1 \in Nat /\ 1 >= 1 /\ 1 <= n + 1 /\ n <= Len(a \o b) /\ (n - 1) + 1 = n
    BY <1>0
  <2>2. /\ x \in Row /\ Len(x) = (n - 1) + 1
        /\ \A k \in 1 .. (n - 1) + 1 : x[k] = (a \o b)[(1 + k) - 1]
    BY <1>0, <2>1, PieceFacts
  <2>3. \A k \in 1 .. n : (1 + k) - 1 = k
    OBVIOUS
  <2> HIDE DEF x
  <2> QED  BY <2>1, <2>2, <2>3
<1>2. y \in Row /\ Len(y) = n /\ \A k \in 1 .. n : y[k] = a[k]
  <2>1. 1 \in Nat /\ 1 >= 1 /\ 1 <= n + 1 /\ n <= Len(a) /\ (n - 1) + 1 = n
    OBVIOUS
  <2>2. /\ y \in Row /\ Len(y) = (n - 1) + 1
        /\ \A k \in 1 .. (n - 1) + 1 : y[k] = a[(1 + k) - 1]
    BY <2>1, PieceFacts
  <2>3. \A k \in 1 .. n : (1 + k) - 1 = k
    OBVIOUS
  <2> HIDE DEF y
  <2> QED  BY <2>1, <2>2, <2>3
<1> HIDE DEF x, y
<1>3. \A k \in 1 .. n : k \in 1 .. Len(a)
  BY <1>0
<1>4. x = y
  BY <1>0, <1>1, <1>2, <1>3, RowSame
<1> QED  BY <1>4 DEF x, y

\* What is left when less than the first row is taken from two.
LEMMA RestBefore ==
    ASSUME NEW a \in Row, NEW b \in Row, NEW n \in Nat, n <= Len(a)
    PROVE  SubSeq(a \o b, n + 1, Len(a \o b)) = SubSeq(a, n + 1, Len(a)) \o b
<1>0. /\ a \o b \in Row /\ Len(a) \in Nat /\ Len(b) \in Nat /\ Len(a \o b) = Len(a) + Len(b)
      /\ \A i \in 1 .. Len(a) : (a \o b)[i] = a[i]
      /\ \A i \in 1 .. Len(b) : (a \o b)[Len(a) + i] = b[i]
  BY RowFacts
<1> DEFINE c == a \o b
           x == SubSeq(c, n + 1, Len(c))
           y == SubSeq(a, n + 1, Len(a))
           k == Len(a) - n
<1>1. x \in Row /\ Len(x) = k + Len(b) /\ \A i \in 1 .. k + Len(b) : x[i] = c[n + i]
  <2> HIDE DEF c
  <2>1. n + 1 \in Nat /\ Len(c) \in Nat /\ n + 1 >= 1 /\ n + 1 <= Len(c) + 1
        /\ Len(c) <= Len(c) /\ (Len(c) - (n + 1)) + 1 = k + Len(b)
    BY <1>0 DEF c
  <2>2. /\ x \in Row /\ Len(x) = (Len(c) - (n + 1)) + 1
        /\ \A i \in 1 .. (Len(c) - (n + 1)) + 1 : x[i] = c[((n + 1) + i) - 1]
    BY <1>0, <2>1, PieceFacts DEF c
  <2>3. \A i \in 1 .. k + Len(b) : ((n + 1) + i) - 1 = n + i
    BY <1>0
  <2> HIDE DEF x, k
  <2> QED  BY <2>1, <2>2, <2>3
<1>2. y \in Row /\ Len(y) = k /\ \A i \in 1 .. k : y[i] = a[n + i]
  <2>1. n + 1 \in Nat /\ Len(a) \in Nat /\ n + 1 >= 1 /\ n + 1 <= Len(a) + 1
        /\ Len(a) <= Len(a) /\ (Len(a) - (n + 1)) + 1 = k
    BY <1>0
  <2>2. /\ y \in Row /\ Len(y) = (Len(a) - (n + 1)) + 1
        /\ \A i \in 1 .. (Len(a) - (n + 1)) + 1 : y[i] = a[((n + 1) + i) - 1]
    BY <1>0, <2>1, PieceFacts
  <2>3. \A i \in 1 .. k : ((n + 1) + i) - 1 = n + i
    BY <1>0
  <2> HIDE DEF y, k
  <2> QED  BY <2>1, <2>2, <2>3
<1>k. k \in Nat /\ Len(a) = n + k
  BY <1>0
<1> HIDE DEF x, y, k
<1>3. /\ y \o b \in Row /\ Len(y \o b) = k + Len(b)
      /\ \A i \in 1 .. k : (y \o b)[i] = y[i]
      /\ \A i \in 1 .. Len(b) : (y \o b)[k + i] = b[i]
  BY <1>2, RowFacts
<1>4. ASSUME NEW i \in 1 .. k + Len(b) PROVE x[i] = (y \o b)[i]
  <2>1. CASE i <= k
    <3>1. i \in 1 .. k /\ n + i \in 1 .. Len(a)
      BY <1>k, <2>1
    <3>2. c[n + i] = a[n + i]
      BY <1>0, <3>1
    <3> HIDE DEF c
    <3> QED  BY <1>1, <1>2, <1>3, <3>1, <3>2
  <2>2. CASE i > k
    <3> DEFINE j == i - k
    <3>1. j \in 1 .. Len(b) /\ k + j = i /\ Len(a) + j = n + i
      BY <1>0, <1>k, <2>2
    <3> HIDE DEF j
    <3>2. c[n + i] = b[j]
      BY <1>0, <3>1
    <3>3. (y \o b)[i] = b[j]
      BY <1>3, <3>1
    <3> HIDE DEF c
    <3> QED  BY <1>1, <3>2, <3>3
  <2>3. i <= k \/ i > k
    BY <1>k
  <2> QED  BY <2>1, <2>2, <2>3, Zenon
<1>5. x = y \o b
  <2>1. Len(x) = Len(y \o b) /\ Len(x) = k + Len(b)
    BY <1>1, <1>3
  <2> QED  BY <1>1, <1>3, <1>4, <2>1, RowSame
<1> QED  BY <1>5 DEF x, y, c


\* A cut that falls behind a.
LEMMA CutAfter ==
    ASSUME NEW a \in Row, NEW b \in Row, NEW k \in Nat, k <= Len(b),
           NEW m \in Nat, m = Len(a) + k
    PROVE  /\ SubSeq(a \o b, 1, m) = a \o SubSeq(b, 1, k) /\ SubSeq(b, 1, k) \in Row
           /\ SubSeq(a \o b, m + 1, Len(a \o b)) = SubSeq(b, k + 1, Len(b))
<1> DEFINE c == a \o b
<1>0. /\ c \in Row /\ Len(a) \in Nat /\ Len(b) \in Nat /\ Len(c) = Len(a) + Len(b) /\ m \in Nat
      /\ k \in Nat /\ k <= Len(b) /\ m = Len(a) + k
  <2>1. c \in Row /\ Len(a) \in Nat /\ Len(b) \in Nat /\ Len(c) = Len(a) + Len(b)
    BY RowFacts
  <2> QED  BY <2>1
<1>1. \A i \in 1 .. Len(b) : c[Len(a) + i] = b[i]
  BY RowFacts
<1>2. \A i \in 1 .. Len(a) : c[i] = a[i]
  BY RowFacts
<1> HIDE DEF c
<1> DEFINE x == SubSeq(c, 1, m)
           y == SubSeq(b, 1, k)
           u == SubSeq(c, m + 1, Len(c))
           v == SubSeq(b, k + 1, Len(b))
<1>3. x \in Row /\ Len(x) = m /\ \A i \in 1 .. m : x[i] = c[i]
  <2>1. 1 \in Nat /\ m \in Nat /\ 1 >= 1 /\ 1 <= m + 1 /\ m <= Len(c) /\ (m - 1) + 1 = m
    BY <1>0
  <2>2. x \in Row /\ Len(x) = (m - 1) + 1 /\ \A i \in 1 .. (m - 1) + 1 : x[i] = c[(1 + i) - 1]
    BY <1>0, <2>1, PieceFacts
  <2>3. \A i \in 1 .. m : (1 + i) - 1 = i
    BY <2>1
  <2> HIDE DEF x
  <2> QED  BY <2>1, <2>2, <2>3
<1>4. y \in Row /\ Len(y) = k /\ \A i \in 1 .. k : y[i] = b[i]
  <2>1. 1 \in Nat /\ k \in Nat /\ 1 >= 1 /\ 1 <= k + 1 /\ k <= Len(b) /\ (k - 1) + 1 = k
    BY <1>0
  <2>2. y \in Row /\ Len(y) = (k - 1) + 1 /\ \A i \in 1 .. (k - 1) + 1 : y[i] = b[(1 + i) - 1]
    BY <1>0, <2>1, PieceFacts
  <2>3. \A i \in 1 .. k : (1 + i) - 1 = i
    BY <2>1
  <2> HIDE DEF y
  <2> QED  BY <2>1, <2>2, <2>3
<1>5. u \in Row /\ Len(u) = Len(b) - k /\ \A i \in 1 .. Len(b) - k : u[i] = c[m + i]
  <2>1. m + 1 \in Nat /\ Len(c) \in Nat /\ m + 1 >= 1 /\ m + 1 <= Len(c) + 1 /\ Len(c) <= Len(c)
        /\ (Len(c) - (m + 1)) + 1 = Len(b) - k
    BY <1>0
  <2>2. /\ u \in Row /\ Len(u) = (Len(c) - (m + 1)) + 1
        /\ \A i \in 1 .. (Len(c) - (m + 1)) + 1 : u[i] = c[((m + 1) + i) - 1]
    BY <1>0, <2>1, PieceFacts
  <2>3. \A i \in 1 .. Len(b) - k : ((m + 1) + i) - 1 = m + i
    BY <1>0
  <2> HIDE DEF u
  <2> QED  BY <2>1, <2>2, <2>3
<1>6. v \in Row /\ Len(v) = Len(b) - k /\ \A i \in 1 .. Len(b) - k : v[i] = b[k + i]
  <2>1. k + 1 \in Nat /\ Len(b) \in Nat /\ k + 1 >= 1 /\ k + 1 <= Len(b) + 1 /\ Len(b) <= Len(b)
        /\ (Len(b) - (k + 1)) + 1 = Len(b) - k
    BY <1>0
  <2>2. /\ v \in Row /\ Len(v) = (Len(b) - (k + 1)) + 1
        /\ \A i \in 1 .. (Len(b) - (k + 1)) + 1 : v[i] = b[((k + 1) + i) - 1]
    BY <1>0, <2>1, PieceFacts
  <2>3. \A i \in 1 .. Len(b) - k : ((k + 1) + i) - 1 = k + i
    BY <1>0
  <2> HIDE DEF v
  <2> QED  BY <2>1, <2>2, <2>3
<1> HIDE DEF x, y, u, v<1>7. u = v
  <2>1. ASSUME NEW i \in 1 .. Len(u) PROVE u[i] = v[i]
    <3>1. i \in 1 .. Len(b) - k /\ k + i \in 1 .. Len(b) /\ Len(a) + (k + i) = m + i
      BY <1>0, <1>5
    <3> QED  BY <1>1, <1>5, <1>6, <3>1
  <2> QED  BY <1>5, <1>6, <2>1, RowSame
<1>8. x = a \o y
  <2>1. /\ a \o y \in Row /\ Len(a \o y) = Len(a) + k
        /\ \A i \in 1 .. Len(a) : (a \o y)[i] = a[i]
        /\ \A i \in 1 .. k : (a \o y)[Len(a) + i] = y[i]
    BY <1>4, RowFacts
  <2>2. ASSUME NEW i \in 1 .. Len(x) PROVE x[i] = (a \o y)[i]
    <3>1. CASE i <= Len(a)
      <4>1. i \in 1 .. Len(a) /\ i \in 1 .. m
        BY <1>0, <1>3, <3>1
      <4> QED  BY <1>2, <1>3, <2>1, <4>1
    <3>2. CASE i > Len(a)
      <4> DEFINE j == i - Len(a)
      <4>1. j \in 1 .. k /\ j \in 1 .. Len(b) /\ Len(a) + j = i /\ i \in 1 .. m
        BY <1>0, <1>3, <3>2
      <4> HIDE DEF j
      <4>2. c[i] = b[j] /\ (a \o y)[i] = y[j] /\ y[j] = b[j] /\ x[i] = c[i]
        BY <1>1, <1>3, <1>4, <2>1, <4>1
      <4> QED  BY <4>2
    <3>3. i <= Len(a) \/ i > Len(a)
      BY <1>0, <1>3
    <3> QED  BY <3>1, <3>2, <3>3, Zenon
  <2>3. Len(x) = Len(a \o y)
    BY <1>0, <1>3, <2>1
  <2> QED  BY <1>3, <2>1, <2>2, <2>3, RowSame
<1> QED  BY <1>4, <1>7, <1>8 DEF x, y, u, v, c

\* A turn over a piece, and over the same piece with more behind it: the turn
\* ends inside the piece, or uses it up and goes on.
Within(r, a, b) == Turn(r, a \o b) = <<Turn(r, a)[1], Turn(r, a)[2] \o b>>
Beyond(r, a, b) ==
    /\ b # <<>> /\ Turn(r, a)[2] = <<>> /\ Live(Turn(r, a)[1])
    /\ Turn(r, a \o b) = Turn(Turn(r, a)[1], b)

\* A turn takes of two pieces what it takes of the first, or all of that and more.
LEMMA StretchConcat ==
    ASSUME NEW r, Good(r), r.st \in {"body", "data"}, NEW a \in Row, NEW b \in Row,
           a # <<>>, b # <<>>
    PROVE  Within(r, a, b) \/ Beyond(r, a, b)
<1> DEFINE n == Taken(r, a)
           c == a \o b
           m == Taken(r, c)
<1>0. /\ c \in Row /\ Len(a) \in Nat /\ Len(b) \in Nat /\ Len(c) = Len(a) + Len(b)
      /\ Len(a) > 0 /\ Len(b) > 0 /\ c # <<>>
  <2>1. c \in Row /\ Len(a) \in Nat /\ Len(b) \in Nat /\ Len(c) = Len(a) + Len(b)
    BY RowFacts
  <2>2. Len(a) > 0 /\ Len(b) > 0
    BY DEF Row
  <2>3. Len(c) # 0
    BY <2>1, <2>2
  <2> HIDE DEF c
  <2> QED  BY <2>1, <2>2, <2>3, EmptyRow
<1>1. r \in Response /\ r.left > 0 /\ r.left \in Nat /\ Live(r) /\ r.line = <<>>
  BY DEF Good, Response, Live
<1>2. /\ Turn(r, a) = <<Stretch(r, a), SubSeq(a, n + 1, Len(a))>>
      /\ Turn(r, c) = <<Stretch(r, c), SubSeq(c, m + 1, Len(c))>>
  <2>1. Turn(r, a) = <<Stretch(r, a), SubSeq(a, n + 1, Len(a))>>
    BY <1>1, TurnIs
  <2>2. Turn(r, c) = <<Stretch(r, c), SubSeq(c, m + 1, Len(c))>>
    <3> HIDE DEF c
    <3> QED  BY <1>0, <1>1, TurnIs
  <2> QED  BY <2>1, <2>2
<1>3. CASE r.left <= Len(a)
  <2>1. n = r.left /\ m = n /\ n <= Len(a) /\ n \in Nat
    <3> HIDE DEF c
    <3> QED  BY <1>0, <1>1, <1>3 DEF Taken
  <2> HIDE DEF n, m
  <2>2. SubSeq(c, 1, n) = SubSeq(a, 1, n) /\ SubSeq(c, n + 1, Len(c)) = SubSeq(a, n + 1, Len(a)) \o b
    BY <2>1, CutBefore, RestBefore
  <2> HIDE DEF c
  <2>3. Stretch(r, c) = Stretch(r, a)
    BY <2>1, <2>2, StretchIs DEF n, m
  <2>4. Turn(r, c) = <<Turn(r, a)[1], Turn(r, a)[2] \o b>>
    <3> DEFINE u == SubSeq(a, n + 1, Len(a))
    <3>1. Turn(r, a)[1] = Stretch(r, a) /\ Turn(r, a)[2] = u
      <4>1. Turn(r, a) = <<Stretch(r, a), u>>
        BY <1>2
      <4> HIDE DEF u
      <4> QED  BY ONLY <4>1
    <3>2. Turn(r, c) = <<Stretch(r, c), u \o b>>
      <4>1. SubSeq(c, m + 1, Len(c)) = u \o b
        BY <2>1, <2>2
      <4> HIDE DEF u
      <4> QED  BY <1>2, <4>1
    <3> HIDE DEF u
    <3> QED  BY <2>3, <3>1, <3>2
  <2> QED  BY <2>4 DEF Within, c
<1>4. CASE r.left > Len(a)
  <2> DEFINE q == Stretch(r, a)
             k == Taken(q, b)
  <2>1. n = Len(a)
    BY <1>0, <1>1, <1>4 DEF Taken
  <2>2. SubSeq(a, 1, n) = a /\ SubSeq(a, n + 1, Len(a)) = <<>>
    BY <2>1 DEF Row
  <2> HIDE DEF n
  <2>3. q = [r EXCEPT !.body = r.body \o a, !.left = r.left - Len(a), !.st = r.st]
    BY <1>4, <2>1, <2>2, StretchIs DEF n
  <2> HIDE DEF q
  <2>4. /\ q.st = r.st /\ q.left = r.left - Len(a) /\ q.body = r.body \o a /\ q.line = <<>>
        /\ Good(q) /\ Live(q)
    <3>1. q.st = r.st /\ q.left = r.left - Len(a) /\ q.body = r.body \o a /\ q.line = <<>>
      BY <1>1, <2>3 DEF Response
    <3>2. Good(q)
      BY StretchGood DEF q
    <3> QED  BY <1>1, <3>1, <3>2 DEF Live
  <2>5. m = Len(a) + k /\ k \in 1 .. Len(b)
    <3>1. k = IF r.left - Len(a) < Len(b) THEN r.left - Len(a) ELSE Len(b)
      BY <2>4 DEF Taken
    <3>2. m = IF r.left < Len(a) + Len(b) THEN r.left ELSE Len(a) + Len(b)
      <4> HIDE DEF c
      <4> QED  BY <1>0 DEF Taken
    <3> HIDE DEF k, m
    <3> QED  BY <1>0, <1>1, <1>4, <3>1, <3>2
  <2> HIDE DEF k, m
  <2>6. SubSeq(c, 1, m) = a \o SubSeq(b, 1, k) /\ SubSeq(b, 1, k) \in Row
        /\ SubSeq(c, m + 1, Len(c)) = SubSeq(b, k + 1, Len(b))
    <3>1. k \in Nat /\ k <= Len(b) /\ m = Len(a) + k /\ m \in Nat /\ a \in Row /\ b \in Row
      BY <1>0, <2>5
    <3>2. /\ SubSeq(a \o b, 1, m) = a \o SubSeq(b, 1, k) /\ SubSeq(b, 1, k) \in Row
          /\ SubSeq(a \o b, m + 1, Len(a \o b)) = SubSeq(b, k + 1, Len(b))
      BY ONLY <3>1, CutAfter, SMTT(30)
    <3> QED  BY <3>2 DEF c
  <2>7. Stretch(r, c) = Stretch(q, b)
    <3> DEFINE y == SubSeq(b, 1, k)
    <3>1. y \in Row /\ r.body \in Row
      BY <1>1, <2>6 DEF Response
    <3>2. r.body \o (a \o y) = (r.body \o a) \o y
      <4> DEFINE p == r.body
      <4>1. p \in Seq(Byte) /\ a \in Seq(Byte) /\ y \in Seq(Byte)
        BY <3>1 DEF Row
      <4> HIDE DEF p, y
      <4>2. (p \o a) \o y = p \o (a \o y)
        BY ONLY <4>1, ConcatAssociative
      <4> QED  BY <4>2 DEF p
    <3>3. r.left - m = (r.left - Len(a)) - k /\ (r.left > m <=> r.left - Len(a) > k)
      BY <1>0, <1>1, <2>5
    <3>4. Stretch(r, c) = [r EXCEPT !.body = r.body \o (a \o y), !.left = r.left - m,
                             !.st = IF r.left > m THEN r.st ELSE IF r.st = "body" THEN "done" ELSE "crlf"]
      BY <2>6, StretchIs DEF m
    <3>5. Stretch(q, b) = [q EXCEPT !.body = q.body \o y, !.left = q.left - k,
                             !.st = IF q.left > k THEN q.st ELSE IF q.st = "body" THEN "done" ELSE "crlf"]
      BY StretchIs DEF k
    <3> HIDE DEF y
    <3> DEFINE s == IF r.left > m THEN r.st ELSE IF r.st = "body" THEN "done" ELSE "crlf"
               w == (r.body \o a) \o y
               l == r.left - m
    <3>6. Stretch(r, c) = [r EXCEPT !.body = w, !.left = l, !.st = s]
      BY <3>2, <3>4
    <3>7. Stretch(q, b) = [q EXCEPT !.body = w, !.left = l, !.st = s]
      <4>1. q.body \o y = w /\ q.left - k = l
        BY <2>4, <3>3
      <4>2. s = IF q.left > k THEN q.st ELSE IF q.st = "body" THEN "done" ELSE "crlf"
        BY <2>4, <3>3
      <4> HIDE DEF w, l, s
      <4> QED  BY <3>5, <4>1, <4>2
    <3> HIDE DEF w, l, s
    <3>8. [q EXCEPT !.body = w, !.left = l, !.st = s] = [r EXCEPT !.body = w, !.left = l, !.st = s]
      BY <1>1, <2>3 DEF Response
    <3> QED  BY <3>6, <3>7, <3>8
  <2>8. Turn(q, b) = <<Stretch(q, b), SubSeq(b, k + 1, Len(b))>>
    BY <2>4, TurnIs DEF k
  <2>9. Turn(r, a)[1] = q /\ Turn(r, a)[2] = <<>>
    BY <1>2, <2>2 DEF q, n
  <2>10. Turn(r, c) = Turn(q, b)
    BY <1>2, <2>6, <2>7, <2>8 DEF m
  <2> QED  BY <2>4, <2>9, <2>10 DEF Beyond, c
<1>5. r.left <= Len(a) \/ r.left > Len(a)
  BY <1>0, <1>1
<1> QED  BY <1>3, <1>4, <1>5

LEMMA LineConcat ==
    ASSUME NEW r, Good(r), Live(r), r.st \notin {"body", "data"}, NEW a \in Row, NEW b \in Row,
           a # <<>>, b # <<>>
    PROVE  Within(r, a, b) \/ Beyond(r, a, b)
<1> DEFINE c == a \o b
           i == FirstAt(a, "lf")
           p == FirstAt(c, "lf")
<1>0. /\ c \in Row /\ Len(a) \in Nat /\ Len(b) \in Nat /\ Len(c) = Len(a) + Len(b)
      /\ Len(a) > 0 /\ Len(b) > 0 /\ c # <<>>
  <2>1. c \in Row /\ Len(a) \in Nat /\ Len(b) \in Nat /\ Len(c) = Len(a) + Len(b)
    BY RowFacts
  <2>2. Len(a) > 0 /\ Len(b) > 0
    BY DEF Row
  <2>3. Len(c) # 0
    BY <2>1, <2>2
  <2> HIDE DEF c
  <2> QED  BY <2>1, <2>2, <2>3, EmptyRow
<1>1. /\ \A x \in 1 .. Len(a) : c[x] = a[x]
      /\ \A x \in 1 .. Len(b) : c[Len(a) + x] = b[x]
  BY RowFacts
<1>2. r \in Response /\ r.body \in Row /\ r.line \in Row
  BY DEF Good, Response
<1> HIDE DEF c
<1>3. /\ i \in 0 .. Len(a)
      /\ i # 0 => a[i] = "lf" /\ \A j \in 1 .. i - 1 : a[j] # "lf"
      /\ i = 0 <=> "lf" \notin Range(a)
  BY FirstAtIs
<1>4. CASE i # 0
  <2>1. p = i
    <3>1. i \in 1 .. Len(c) /\ c[i] = "lf"
      BY <1>0, <1>1, <1>3, <1>4
    <3>2. ASSUME NEW j \in 1 .. i - 1 PROVE c[j] # "lf"
      <4>1. j \in 1 .. Len(a)
        BY <1>0, <1>3
      <4> QED  BY <1>1, <1>3, <1>4, <4>1
    <3> HIDE DEF i
    <3> QED  BY <1>0, <3>1, <3>2, FirstAtUnique
  <2>2. i \in Nat /\ i - 1 \in Nat /\ i <= Len(a) /\ i - 1 <= Len(a)
    BY <1>0, <1>3, <1>4
  <2> DEFINE z == SubSeq(a, 1, i - 1)
             u == SubSeq(a, i + 1, Len(a))
  <2>3. SubSeq(c, 1, p - 1) = z /\ SubSeq(c, p + 1, Len(c)) = u \o b
    <3> HIDE DEF i, p
    <3>1. SubSeq(a \o b, 1, i - 1) = SubSeq(a, 1, i - 1)
      BY ONLY <2>2, CutBefore, a \in Row, b \in Row
    <3>2. SubSeq(a \o b, i + 1, Len(a \o b)) = SubSeq(a, i + 1, Len(a)) \o b
      BY ONLY <2>2, RestBefore, a \in Row, b \in Row
    <3> QED  BY <2>1, <3>1, <3>2 DEF c
  <2>4. Turn(r, a) = <<WholeLine(r, a), u>>
    BY <1>4, TurnIs
  <2>5. Turn(r, c) = <<WholeLine(r, c), u \o b>>
    <3>1. Turn(r, c) = <<WholeLine(r, c), SubSeq(c, p + 1, Len(c))>>
      <4>1. p # 0
        BY <1>4, <2>1
      <4> QED  BY <1>0, <4>1, TurnIs
    <3> QED  BY <2>3, <3>1
  <2>6. WholeLine(r, c) = WholeLine(r, a)
    <3>1. SubSeq(c, 1, p - 1) = SubSeq(a, 1, i - 1)
      BY <2>3
    <3> QED  BY <3>1, TheLine
  <2> HIDE DEF u
  <2>7. Turn(r, a)[1] = WholeLine(r, a) /\ Turn(r, a)[2] = u
    BY ONLY <2>4
  <2>8. Turn(r, c) = <<Turn(r, a)[1], Turn(r, a)[2] \o b>>
    BY ONLY <2>5, <2>6, <2>7
  <2> QED  BY <2>8 DEF Within, c
<1>5. CASE i = 0
  <2> DEFINE q == PartLine(r, a)
             v == r.line \o a
             j == FirstAt(b, "lf")
  <2>1. Turn(r, a)[1] = q /\ Turn(r, a)[2] = <<>>
    <3>1. Turn(r, a) = <<q, <<>>>>
      BY <1>5, TurnIs
    <3> HIDE DEF q
    <3> QED  BY ONLY <3>1
  <2>2. q = [r EXCEPT !.line = v]
    BY DEF PartLine
  <2>3. Good(q)
    BY <1>5, PartLineGood
  <2>4. v \in Row
    BY <1>2, RowFacts
  <2> HIDE DEF q, v
  <2>5. q.st = r.st /\ q.line = v /\ Live(q) /\ q.st \notin {"body", "data"}
    BY <1>2, <2>2 DEF Response, Live
  <2>6. /\ j \in 0 .. Len(b)
        /\ j # 0 => b[j] = "lf" /\ \A x \in 1 .. j - 1 : b[x] # "lf"
        /\ j = 0 <=> "lf" \notin Range(b)
    BY FirstAtIs
  <2>7. \A x \in 1 .. Len(a) : a[x] # "lf"
    BY <1>3, <1>5 DEF Range
  <2>8. ASSUME NEW y \in Row
        PROVE  v \o y = r.line \o (a \o y)
    <3> DEFINE l == r.line
    <3>1. l \in Seq(Byte) /\ a \in Seq(Byte) /\ y \in Seq(Byte)
      BY <1>2 DEF Row
    <3> HIDE DEF l
    <3>2. (l \o a) \o y = l \o (a \o y)
      BY ONLY <3>1, ConcatAssociative
    <3> QED  BY <3>2 DEF l, v
  <2>9. Turn(r, c) = Turn(q, b)
    <3>1. CASE j = 0
      <4>1. p = 0
        <5>1. ASSUME NEW x \in 1 .. Len(c) PROVE c[x] # "lf"
          <6>1. CASE x <= Len(a)
            <7>1. x \in 1 .. Len(a)
              BY <1>0, <6>1
            <7> QED  BY <1>1, <2>7, <7>1
          <6>2. CASE x > Len(a)
            <7> DEFINE y == x - Len(a)
            <7>1. y \in 1 .. Len(b) /\ Len(a) + y = x
              BY <1>0, <6>2
            <7> HIDE DEF y
            <7>2. c[x] = b[y] /\ b[y] # "lf"
              BY <1>1, <2>6, <3>1, <7>1 DEF Range
            <7> QED  BY <7>2
          <6>3. x <= Len(a) \/ x > Len(a)
            BY <1>0
          <6> QED  BY <6>1, <6>2, <6>3
        <5>2. "lf" \notin Range(c)
          BY <5>1 DEF Range
        <5> QED  BY <1>0, <5>2, FirstAtIs
      <4>2. Turn(r, c) = <<PartLine(r, c), <<>>>>
        BY <1>0, <4>1, TurnIs
      <4>3. Turn(q, b) = <<PartLine(q, b), <<>>>>
        BY <2>3, <2>5, <3>1, TurnIs
      <4>4. PartLine(r, c) = PartLine(q, b)
        <5> DEFINE w == v \o b
        <5>1. r.line \o c = w
          BY <2>8 DEF c
        <5>2. PartLine(r, c) = [r EXCEPT !.line = w]
          BY <5>1 DEF PartLine
        <5>3. PartLine(q, b) = [q EXCEPT !.line = w]
          BY <2>5 DEF PartLine
        <5> HIDE DEF w
        <5> QED  BY <1>2, <2>2, <5>2, <5>3 DEF Response
      <4> QED  BY ONLY <4>2, <4>3, <4>4
    <3>2. CASE j # 0
      <4> DEFINE y == SubSeq(b, 1, j - 1)
                 u == SubSeq(b, j + 1, Len(b))
      <4>0. j \in Nat /\ j - 1 \in Nat /\ j - 1 <= Len(b) /\ j <= Len(b) /\ j >= 1
        BY <1>0, <2>6, <3>2
      <4>1. p = Len(a) + j
        <5> DEFINE m == Len(a) + j
        <5>1. m \in 1 .. Len(c) /\ c[m] = "lf"
          BY <1>0, <1>1, <2>6, <3>2, <4>0
        <5>2. ASSUME NEW x \in 1 .. m - 1 PROVE c[x] # "lf"
          <6>1. CASE x <= Len(a)
            <7>1. x \in 1 .. Len(a)
              BY <1>0, <6>1
            <7> QED  BY <1>1, <2>7, <7>1
          <6>2. CASE x > Len(a)
            <7> DEFINE z == x - Len(a)
            <7>1. z \in 1 .. Len(b) /\ Len(a) + z = x /\ z \in 1 .. j - 1
              BY <1>0, <4>0, <6>2
            <7> HIDE DEF z
            <7>2. c[x] = b[z] /\ b[z] # "lf"
              BY <1>1, <2>6, <3>2, <7>1
            <7> QED  BY <7>2
          <6>3. x <= Len(a) \/ x > Len(a)
            BY <1>0
          <6> QED  BY <6>1, <6>2, <6>3
        <5> HIDE DEF m, j
        <5>3. p = m
          BY <1>0, <5>1, <5>2, FirstAtUnique
        <5> QED  BY <5>3 DEF m
      <4>2. p - 1 = Len(a) + (j - 1)
        BY <1>0, <4>0, <4>1
      <4>8. p \in Nat /\ p - 1 \in Nat /\ j \in Nat /\ j - 1 \in Nat /\ j - 1 <= Len(b) /\ j <= Len(b)
        BY <1>0, <4>0, <4>1
      <4> HIDE DEF p, j
      <4>3. SubSeq(c, 1, p - 1) = a \o y /\ y \in Row
        <5>1. /\ SubSeq(a \o b, 1, p - 1) = a \o SubSeq(b, 1, j - 1) /\ SubSeq(b, 1, j - 1) \in Row
          <6> DEFINE k == j - 1
                     m == p - 1
          <6>1. k \in Nat /\ k <= Len(b) /\ m \in Nat /\ m = Len(a) + k /\ a \in Row /\ b \in Row
            BY <4>2, <4>8
          <6> HIDE DEF k, m
          <6>2. SubSeq(a \o b, 1, m) = a \o SubSeq(b, 1, k) /\ SubSeq(b, 1, k) \in Row
            BY ONLY <6>1, CutAfter
          <6> QED  BY <6>2 DEF k, m
        <5> QED  BY <5>1 DEF c
      <4>4. SubSeq(c, p + 1, Len(c)) = u
        <5>1. SubSeq(a \o b, p + 1, Len(a \o b)) = SubSeq(b, j + 1, Len(b))
          BY ONLY <4>8, <4>1, CutAfter, a \in Row, b \in Row
        <5> QED  BY <5>1 DEF c
      <4>5. Turn(r, c) = <<WholeLine(r, c), u>>
        <5>1. p # 0
          BY <1>0, <4>0, <4>1
        <5>2. Turn(r, c) = <<WholeLine(r, c), SubSeq(c, p + 1, Len(c))>>
          BY <1>0, <5>1, TurnIs DEF p
        <5> QED  BY <4>4, <5>2
      <4>6. Turn(q, b) = <<WholeLine(q, b), u>>
        BY <2>3, <2>5, <3>2, TurnIs DEF j
      <4>7. WholeLine(r, c) = WholeLine(q, b)
        <5> DEFINE w == v \o y
                   e == [r EXCEPT !.line = <<>>]
        <5>1. r.line \o SubSeq(c, 1, p - 1) = w
          BY <2>8, <4>3
        <5>2. WholeLine(r, c) = Line(e, Chomp(w))
          BY <5>1, TheLine DEF p
        <5>3. WholeLine(q, b) = Line([q EXCEPT !.line = <<>>], Chomp(w))
          BY <2>5, TheLine DEF j
        <5>4. [q EXCEPT !.line = <<>>] = e
          BY <1>2, <2>2 DEF Response
        <5> HIDE DEF w, e
        <5> QED  BY <5>2, <5>3, <5>4
      <4> HIDE DEF u
      <4> QED  BY ONLY <4>5, <4>6, <4>7
    <3> QED  BY <3>1, <3>2
  <2> QED  BY <2>1, <2>5, <2>9 DEF Beyond, c
<1> QED  BY <1>4, <1>5

LEMMA TurnConcat ==
    ASSUME NEW r, Good(r), Live(r), NEW a \in Row, NEW b \in Row, a # <<>>
    PROVE  Within(r, a, b) \/ Beyond(r, a, b)
<1>1. CASE b = <<>>
  <2>1. a \o b = a
    BY <1>1, ConcatEmptySeq DEF Row
  <2>2. Turn(r, a)[2] \in Row
    BY TurnGood
  <2> DEFINE u == Turn(r, a)[2]
  <2>3. u \in Seq(Byte)
    BY <2>2 DEF Row
  <2> HIDE DEF u
  <2>4. u \o b = u
    BY <1>1, <2>3, ConcatEmptySeq
  <2>5. Turn(r, a) = <<Turn(r, a)[1], u>>
    BY TurnIsPair DEF u
  <2> QED  BY <2>1, <2>4, <2>5 DEF Within, u
<1>2. CASE b # <<>>
  BY <1>2, StretchConcat, LineConcat DEF Good, Response
<1> QED  BY <1>1, <1>2

\* However a response is cut into pieces, feed() makes the same of it.
LEMMA ParseConcat ==
    ASSUME NEW b \in Row
    PROVE  \A r, a : Good(r) /\ a \in Row => Parse(r, a \o b) = Parse(Parse(r, a), b)
<1> DEFINE P(n) == \A r, a : Good(r) /\ a \in Row /\ Len(a) <= n =>
                                Parse(r, a \o b) = Parse(Parse(r, a), b)
           G == {n \in Nat : P(n)}
<1>1. ASSUME NEW r, Good(r), NEW a \in Row, a = <<>> \/ ~ Live(r)
      PROVE  Parse(r, a \o b) = Parse(Parse(r, a), b)
  <2>1. Parse(r, a) = r
    BY <1>1, ParseIdle
  <2>2. CASE a = <<>>
    <3>1. a \o b = b
      BY <2>2, ConcatEmptySeq DEF Row
    <3> QED  BY <2>1, <3>1
  <2>3. CASE ~ Live(r)
    <3>1. a \o b \in Row
      BY RowFacts
    <3> DEFINE c == a \o b
    <3> HIDE DEF c
    <3>2. c \in Row
      BY <3>1 DEF c
    <3>3. Parse(r, c) = r /\ Parse(r, b) = r
      BY <2>3, <3>2, ParseIdle
    <3> QED  BY <2>1, <3>3 DEF c
  <2> QED  BY <1>1, <2>2, <2>3
<1>2. 0 \in G
  <2>1. ASSUME NEW r, Good(r), NEW a \in Row, Len(a) <= 0
        PROVE  Parse(r, a \o b) = Parse(Parse(r, a), b)
    <3>1. a = <<>>
      BY <2>1 DEF Row
    <3> QED  BY <1>1, <2>1, <3>1
  <2> QED  BY <2>1
<1>3. ASSUME NEW n \in G PROVE n + 1 \in G
  <2>0. n \in Nat /\ P(n)
    OBVIOUS
  <2>1. ASSUME NEW r, Good(r), NEW a \in Row, Len(a) <= n + 1
        PROVE  Parse(r, a \o b) = Parse(Parse(r, a), b)
    <3>1. CASE a = <<>> \/ ~ Live(r)
      BY <1>1, <2>1, <3>1
    <3>2. CASE a # <<>> /\ Live(r)
      <4> DEFINE c == a \o b
                 x == Turn(r, a)[1]
                 u == Turn(r, a)[2]
      <4>1. c \in Row /\ c # <<>>
        <5>1. c \in Row /\ Len(c) = Len(a) + Len(b) /\ Len(b) \in Nat /\ Len(a) \in Nat
          BY RowFacts
        <5>2. Len(a) # 0
          BY <3>2 DEF Row
        <5>3. Len(c) # 0
          BY <5>1, <5>2
        <5> HIDE DEF c
        <5> QED  BY <5>1, <5>3, EmptyRow
      <4>2. Good(x) /\ u \in Row /\ Len(u) \in Nat /\ Len(u) < Len(a)
        BY <2>1, <3>2, TurnGood
      <4>3. Parse(r, a) = Parse(x, u)
        BY <2>1, <3>2, ParseTurn
      <4>4. Parse(r, c) = Parse(Turn(r, c)[1], Turn(r, c)[2])
        <5> HIDE DEF c
        <5> QED  BY <2>1, <3>2, <4>1, ParseTurn
      <4>5. Within(r, a, b) \/ Beyond(r, a, b)
        BY <2>1, <3>2, TurnConcat
      <4>6. CASE Within(r, a, b)
        <5> DEFINE y == u \o b
        <5>1. Turn(r, c) = <<x, y>>
          BY <4>6 DEF Within
        <5>2. Parse(x, y) = Parse(Parse(x, u), b)
          <6>1. Len(u) <= n
            <7>1. Len(a) \in Nat
              BY DEF Row
            <7> HIDE DEF u
            <7> QED  BY ONLY <2>0, <2>1, <4>2, <7>1
          <6> HIDE DEF x, u
          <6> QED  BY <2>0, <4>2, <6>1
        <5> HIDE DEF x, y, c
        <5>3. Turn(r, c)[1] = x /\ Turn(r, c)[2] = y
          BY ONLY <5>1
        <5> QED  BY <4>3, <4>4, <5>2, <5>3 DEF c
      <4>7. CASE Beyond(r, a, b)
        <5>1. b # <<>> /\ u = <<>> /\ Live(x) /\ Turn(r, c) = Turn(x, b)
          BY <4>7 DEF Beyond
        <5> HIDE DEF x, u, c
        <5>2. Parse(x, u) = x
          BY <4>2, <5>1, ParseIdle
        <5>3. Parse(x, b) = Parse(Turn(x, b)[1], Turn(x, b)[2])
          BY <4>2, <5>1, ParseTurn
        <5> QED  BY <4>3, <4>4, <5>1, <5>2, <5>3 DEF c
      <4> QED  BY <4>5, <4>6, <4>7
    <3> QED  BY <3>1, <3>2
  <2>2. P(n + 1)
    BY <2>1
  <2> HIDE DEF P
  <2> QED  BY <2>0, <2>2
<1>4. G = Nat
  <2>1. G \subseteq Nat
    OBVIOUS
  <2> HIDE DEF G
  <2> QED  BY <1>2, <1>3, <2>1, SetInduction
<1>5. ASSUME NEW r, Good(r), NEW a \in Row
      PROVE  Parse(r, a \o b) = Parse(Parse(r, a), b)
  <2>1. Len(a) \in Nat /\ Len(a) <= Len(a)
    BY DEF Row
  <2>2. P(Len(a))
    BY <1>4, <2>1
  <2> QED  BY <1>5, <2>1, <2>2
<1> QED  BY <1>5

\* A new response is well formed.
LEMMA FreshGood == Good(Fresh)
<1>1. <<>> \in Row /\ Range(<<>>) = {} /\ <<>> \in Seq(Row)
  BY EmptyRow
<1> QED  BY <1>1 DEF Good, Response, Fresh, NoLength, States

-----------------------------------------------------------------------------
(* The connection.                                                         *)

Texts == Seq(Byte \cup Marks)
Inward == in \o pend \o wire           \* on its way to the library
Sealing == tls.rec \o Inward           \* and the record it is part of
Coming == tls.plain \o tls.rec \o App(Inward)

BufTypeOK ==
    /\ conf \in Settings
    /\ wire \in Texts /\ got \in Texts /\ out \in Texts /\ in \in Texts /\ pend \in Texts
    /\ tls \in [step : 1 .. 6, rec : Row, plain : Row, shut : BOOLEAN]
    /\ todo \in Texts /\ gave \in 0 .. 2 /\ bye \in BOOLEAN
    /\ asked \in Row /\ said \in Row /\ heard \in Row
    /\ reply \in [rc : {"pending", "none", "ok", "error"}] \cup [rc : {"ok"}, data : Row]

PlainOK == ~conf.tls =>
    /\ out = <<>> /\ in = <<>> /\ pend = <<>> /\ tls = Fresh0
    /\ wire \in Row /\ got \in Row /\ todo \in Row

\* Which call can be where, and what is empty there.
Places ==
    /\ at \in {"op", "pump", "tail", "bye", "fill"} => conf.tls
    /\ at \in {"up", "write"} => ~conf.tls
    /\ at \in {"op", "pump", "fill"} => job \in {"connect", "send", "recv"}
    /\ at \in {"tail", "write"} => job = "send"
    /\ at \in {"bye", "gone"} => job = "close"
    /\ at = "up" => job = "connect"
    /\ at = "read" => job \in {"connect", "recv"} /\ (job = "connect" => conf.tls)
    /\ at \in {"pump", "fill"} /\ want => job # "send"
    /\ at \in {"fill", "read"} => out = <<>>
    /\ at = "read" \/ (at \in {"pump", "fill"} /\ want) => in = <<>>
    /\ at = "tail" => todo = <<>>
    /\ pend # <<>> => at = "fill" /\ ~want /\ in = <<>>

\* What the last call has left behind.
Results ==
    /\ todo # <<>> => \/ job = "send" /\ (at # "idle" \/ reply = Said("error"))
                      \/ job = "close" /\ sock # "none"
    /\ job = "close" /\ at = "idle" => sock = "none"
    /\ job = "connect" /\ at = "idle" /\ sock # "none" => reply = Said("ok")
    /\ job = "send" /\ at = "idle" => reply \in {Said("ok"), Said("error")}
    /\ job = "recv" /\ at = "idle" => reply \notin {Said("ok"), Said("none")}
    /\ job \in {"send", "recv", "none", "connect", "close"}
    /\ job \in {"send", "recv"} => sock # "none"
    /\ job = "none" => sock = "none"

Shape == TransportTypeOK /\ BufTypeOK /\ PlainOK /\ Places /\ Results

\* What send() was given is with the server, in the pair or still to be sealed.
Delivered == sock # "none" =>
    /\ IsPrefix(App(got), asked)
    /\ sock # "cut" => App(got) \o App(out) \o App(todo) = asked

\* What the server has said has been handed out or is coming.
Received == sock # "none" =>
    /\ IsPrefix(heard \o Coming, said)
    /\ sock = "up" \/ bye => heard \o Coming = said
    /\ bye => sock = "fin"

\* Every byte has the end of its record behind it, and an alert comes last.
Whole(x) == \A i \in DOMAIN x : x[i] \in Byte => \E j \in i + 1 .. Len(x) : x[j] = "mac"
Ending(x, b) == \A i \in DOMAIN x : x[i] = "bye" => i = Len(x) /\ b /\ Whole(x)
Records == conf.tls /\ sock # "none" =>
    /\ sock = "up" => Whole(Sealing)
    /\ Ending(Sealing, bye)
    /\ tls.shut => bye /\ Sealing = <<>> /\ tls.plain = <<>>

\* Nothing is sent before a connection is made.
Connecting == sock # "none" /\ job = "connect" /\ reply # Said("ok") =>
    asked = <<>> /\ said = <<>> /\ heard = <<>> /\ ~bye
Asks == asked # <<>> => sock # "none" /\ (conf.tls => tls.step = 6)

\* The messages of the handshake that have still to come, and how far both are.
Hand(s) == Only(s, Handshakes)
Due == CASE gave = 1 /\ tls.step <= 2 -> <<"sh", "cert">>
         [] gave = 1 /\ tls.step = 3 -> <<"cert">>
         [] gave = 2 /\ tls.step = 5 -> <<"sfin">>
         [] OTHER -> <<>>
Sent(u) == u \in Range(got) \/ u \in Range(out)
Shaking == conf.tls /\ sock # "none" =>
    /\ IsPrefix(Hand(Inward), Due)
    /\ gave = 0 => tls.step <= 2
    /\ gave = 1 => tls.step \in 2 .. 5
    /\ gave = 2 => tls.step \in 5 .. 6
    /\ Sent("hello") => tls.step >= 2
    /\ Sent("fin") => tls.step >= 5
    /\ "hello" \notin Range(todo) /\ "fin" \notin Range(todo)
    /\ tls.step > 2 => Agrees(conf)
    /\ tls.step > 3 => Accepts(conf)
    /\ job = "connect" /\ reply = Said("ok") => tls.step = 6

TransportInv ==
    Shape /\ Delivered /\ Received /\ Records /\ Connecting /\ Asks /\ Shaking

\* What recv() hands out is told from every other answer.
LEMMA DataApart ==
    \A d, rc : Data(d) # Said(rc) /\ Data(d) # Pending /\ Data(d).data = d /\ Data(d).rc = "ok"
<1> SUFFICES ASSUME NEW d, NEW rc
             PROVE  Data(d) # Said(rc) /\ Data(d) # Pending /\ Data(d).data = d /\ Data(d).rc = "ok"
  OBVIOUS
<1>1. DOMAIN Data(d) = {"rc", "data"} /\ DOMAIN Said(rc) = {"rc"} /\ DOMAIN Pending = {"rc"}
  BY DEF Data, Said, Pending
<1> QED  BY <1>1 DEF Data

\* A sequence cut in two.
LEMMA CutInTwo ==
    ASSUME NEW S, NEW s \in Seq(S), NEW n \in Nat, n <= Len(s)
    PROVE  /\ SubSeq(s, 1, n) \in Seq(S) /\ SubSeq(s, n + 1, Len(s)) \in Seq(S)
           /\ Len(SubSeq(s, 1, n)) = n /\ Len(SubSeq(s, n + 1, Len(s))) = Len(s) - n
           /\ SubSeq(s, 1, n) \o SubSeq(s, n + 1, Len(s)) = s
<1> DEFINE x == SubSeq(s, 1, n)
           y == SubSeq(s, n + 1, Len(s))
           m == Len(s) - n
<1>0. Len(s) \in Nat /\ m \in Nat /\ n + m = Len(s)
  OBVIOUS
<1>1. /\ x \in Seq(S) /\ Len(x) = n /\ \A i \in 1 .. n : x[i] = s[i]
  OBVIOUS
<1>2. y \in Seq(S) /\ Len(y) = m /\ \A i \in 1 .. m : y[i] = s[n + i]
  OBVIOUS
<1> HIDE DEF x, y, m
<1> DEFINE w == x \o y
<1>3. /\ w \in Seq(S) /\ Len(w) = n + m
      /\ \A i \in 1 .. n + m : w[i] = IF i <= n THEN x[i] ELSE y[i - n]
  <2>1. /\ x \o y \in Seq(S) /\ Len(x \o y) = Len(x) + Len(y)
        /\ \A i \in 1 .. Len(x) + Len(y) : (x \o y)[i] = IF i <= Len(x) THEN x[i] ELSE y[i - Len(x)]
    BY <1>1, <1>2, ConcatProperties
  <2> HIDE DEF w
  <2> QED  BY <1>1, <1>2, <2>1 DEF w
<1> HIDE DEF w
<1>4. ASSUME NEW i \in 1 .. Len(w) PROVE w[i] = s[i]
  <2>1. CASE i <= n
    <3>1. i \in 1 .. n /\ i \in 1 .. n + m
      BY <1>0, <1>3, <2>1
    <3> QED  BY <1>1, <1>3, <2>1, <3>1
  <2>2. CASE i > n
    <3>1. i - n \in 1 .. m /\ n + (i - n) = i /\ i \in 1 .. n + m /\ ~(i <= n)
      BY <1>0, <1>3, <2>2
    <3> QED  BY <1>2, <1>3, <3>1
  <2>3. i <= n \/ i > n
    BY <1>0, <1>3
  <2> QED  BY <2>1, <2>2, <2>3
<1>5. w = s
  BY <1>0, <1>3, <1>4, SeqEqual
<1> QED  BY <1>0, <1>1, <1>2, <1>5 DEF x, y, m, w

LEMMA TlsBoolean == Shape => conf.tls \in BOOLEAN
BY SettingsAssumption DEF Shape, BufTypeOK

\* What the library writes: a byte or the end of a record, or its turn of the handshake.
LEMMA OutgoingIs ==
    ASSUME Shape, Outgoing # <<>>
    PROVE  \/ job = "send" /\ todo # <<>> /\ Outgoing = <<Head(todo)>>
           \/ /\ job = "connect" /\ tls.step \in {1, 4}
              /\ Outgoing = <<Script[tls.step]>> /\ Script[tls.step] \in {"hello", "fin"}
<1>1. tls.step \in 1 .. 6
  BY DEF Shape, BufTypeOK
<1>2. CASE job = "connect" /\ tls.step <= Len(Script) /\ Sends(Script[tls.step])
  <2>1. Outgoing = <<Script[tls.step]>>
    BY <1>2 DEF Outgoing
  <2>2. tls.step \in {1, 4}
    BY <1>1, <1>2 DEF Script, Sends
  <2> QED  BY <1>2, <2>1, <2>2 DEF Sends
<1>3. CASE ~(job = "connect" /\ tls.step <= Len(Script) /\ Sends(Script[tls.step])) /\ job = "send" /\ todo # <<>>
  <2>1. Outgoing = <<Head(todo)>>
    BY <1>3 DEF Outgoing
  <2> QED  BY <1>3, <2>1
<1> QED  BY <1>2, <1>3 DEF Outgoing

LEMMA ScriptIs ==
    /\ Len(Script) = 5 /\ Script[1] = "hello" /\ Script[2] = "sh" /\ Script[3] = "cert"
    /\ Script[4] = "fin" /\ Script[5] = "sfin"
BY DEF Script

\* A sequence and its first member.
LEMMA HeadFirst ==
    ASSUME NEW S, NEW s \in Seq(S), s # <<>>
    PROVE  /\ Head(s) \in S /\ Tail(s) \in Seq(S) /\ s = <<Head(s)>> \o Tail(s)
           /\ Len(Tail(s)) = Len(s) - 1 /\ Len(s) \in Nat \ {0} /\ Head(s) = s[1]
<1>1. /\ Head(s) \in S /\ Tail(s) \in Seq(S)
      /\ Len(Tail(s)) = Len(s) - 1 /\ Len(s) \in Nat \ {0} /\ Head(s) = s[1]
  OBVIOUS
<1>2. s = <<Head(s)>> \o Tail(s)
  OBVIOUS
<1> QED  BY <1>1, <1>2

\* On the wire: bytes and the marks of the library, joined.
LEMMA TextsConcat ==
    ASSUME NEW s \in Texts, NEW t \in Texts
    PROVE  s \o t \in Texts
BY DEF Texts

\* A message of the handshake comes only when it is due.
LEMMA HandHead ==
    ASSUME TransportInv, conf.tls, sock # "none", in # <<>>, Head(in) \in Handshakes
    PROVE  \/ gave = 1 /\ tls.step <= 2 /\ Head(in) = "sh"
           \/ gave = 1 /\ tls.step = 3 /\ Head(in) = "cert"
           \/ gave = 2 /\ tls.step = 5 /\ Head(in) = "sfin"
<1> DEFINE u == Head(in)
           rest == Tail(in) \o pend \o wire
<1>1. in \in Texts /\ pend \in Texts /\ wire \in Texts
  BY DEF TransportInv, Shape, BufTypeOK
<1>2. Tail(in) \in Texts /\ u \in Byte \cup Marks /\ in = <<u>> \o Tail(in)
  BY <1>1, HeadFirst DEF Texts
<1>3. rest \in Texts /\ Inward \in Texts
  BY <1>1, <1>2, TextsConcat DEF Inward
<1>4. Inward # <<>> /\ Head(Inward) = u /\ Tail(Inward) \in Texts
  <2>1. Len(Inward) > 0 /\ Inward[1] = in[1]
    BY <1>1 DEF Inward, Texts
  <2>2. Inward # <<>>
    BY <2>1
  <2> QED  BY <1>1, <1>3, <2>1, <2>2, HeadFirst DEF Texts
<1>5. Hand(Inward) = <<u>> \o Hand(Tail(Inward)) /\ Hand(Tail(Inward)) \in Seq(Handshakes)
  <2>1. Inward \in Seq(Byte \cup Marks) /\ Tail(Inward) \in Seq(Byte \cup Marks)
    BY <1>3, <1>4 DEF Texts
  <2>2. Hand(Inward) = <<u>> \o Hand(Tail(Inward))
    BY <1>4, <2>1, OnlyHead DEF Hand
  <2>3. Hand(Tail(Inward)) \in Seq(Handshakes)
    BY <2>1, OnlyType DEF Hand
  <2> QED  BY <2>2, <2>3
<1>6. IsPrefix(Hand(Inward), Due)
  BY DEF TransportInv, Shaking
<1>7. Due \in Seq(Handshakes)
  <2>1. \A x \in Handshakes, y \in Handshakes : <<x, y>> \in Seq(Handshakes) /\ <<x>> \in Seq(Handshakes)
    OBVIOUS
  <2>2. "sh" \in Handshakes /\ "cert" \in Handshakes /\ "sfin" \in Handshakes
    BY DEF Handshakes
  <2> HIDE DEF Handshakes
  <2>3. <<>> \in Seq(Handshakes)
    OBVIOUS
  <2> QED  BY <2>1, <2>2, <2>3 DEF Due
<1> DEFINE h == Hand(Inward)
           t == Hand(Tail(Inward))
<1>8. Due # <<>> /\ Due[1] = u
  <2>1. h \in Seq(Handshakes) /\ h = <<u>> \o t /\ t \in Seq(Handshakes) /\ u \in Handshakes
    <3>1. \A x \in Handshakes : <<x>> \in Seq(Handshakes)
      OBVIOUS
    <3> QED  BY <1>5, <3>1
  <2>2. IsPrefix(h, Due)
    BY <1>6
  <2> HIDE DEF h, t, u
  <2>3. PICK e \in Seq(Handshakes) : Due = h \o e
    <3> DEFINE d == Due
    <3>1. d \in Seq(Handshakes) /\ h \in Seq(Handshakes) /\ IsPrefix(h, d)
      BY <1>7, <2>1, <2>2
    <3> HIDE DEF d
    <3>2. \E e \in Seq(Handshakes) : d = h \o e
      BY ONLY <3>1, PrefixIs
    <3> QED  BY <3>2 DEF d
  <2>4. Len(h) > 0 /\ h[1] = u
    BY <2>1
  <2>5. Len(h \o e) > 0 /\ (h \o e)[1] = u
    BY <2>1, <2>4
  <2> DEFINE w == h \o e
  <2>6. Len(w) > 0 /\ w[1] = u /\ Due = w
    BY <2>3, <2>5
  <2> HIDE DEF w
  <2> QED  BY <2>6 DEF u
<1> HIDE DEF h, t, rest
<1> QED  BY <1>8 DEF Due

\* What the library does with the next byte from the network.
LEMMA TakeIs ==
    ASSUME TransportInv, Take
    PROVE  /\ at = "op" /\ conf.tls /\ sock # "none" /\ in' \in Texts
           /\ Head(in) \in Byte \cup Marks /\ in = <<Head(in)>> \o in' /\ Len(in') <= Len(in)
           /\ \/ /\ job = "recv" /\ tls.step = 6 /\ tls.plain = <<>> /\ ~tls.shut
                 /\ \/ Head(in) = "mac" /\ tls' = [tls EXCEPT !.plain = tls.rec, !.rec = <<>>]
                    \/ Head(in) = "bye" /\ tls' = [tls EXCEPT !.shut = TRUE]
                    \/ Head(in) = "ticket" /\ tls' = tls
                    \/ /\ Head(in) \in Byte /\ Head(in) \notin Marks
                       /\ tls' = [tls EXCEPT !.rec = Append(tls.rec, Head(in))]
              \/ /\ job = "connect" /\ tls' = [tls EXCEPT !.step = tls.step + 1]
                 /\ \/ gave = 1 /\ tls.step = 2 /\ Head(in) = "sh" /\ Agrees(conf)
                    \/ gave = 1 /\ tls.step = 3 /\ Head(in) = "cert" /\ Accepts(conf)
                    \/ gave = 2 /\ tls.step = 5 /\ Head(in) = "sfin"
<1> DEFINE u == Head(in)
<1>1. at = "op" /\ conf.tls /\ sock # "none"
  BY DEF Take, TransportInv, Shape, Places, TransportTypeOK
<1>2. in \in Texts /\ in # <<>>
  BY DEF TransportInv, Shape, BufTypeOK, Take
<1>3. /\ in' \in Texts /\ u \in Byte \cup Marks /\ in = <<u>> \o in' /\ Len(in') <= Len(in)
  BY <1>2, HeadFirst DEF Texts, Take
<1>4. Reading /\ ~Refuses(u) /\ tls' = Opened(u)
  BY DEF Take
<1>5. u \in Handshakes => \/ gave = 1 /\ tls.step <= 2 /\ u = "sh"
                          \/ gave = 1 /\ tls.step = 3 /\ u = "cert"
                          \/ gave = 2 /\ tls.step = 5 /\ u = "sfin"
  BY <1>1, <1>2, HandHead
<1>6. tls.step \in 1 .. 6
  BY DEF TransportInv, Shape, BufTypeOK
<1> HIDE DEF u
<1>7. CASE job = "recv"
  <2>1. tls.step = 6
    BY <1>1, <1>6, <1>7, ScriptIs DEF TransportInv, Shape, TransportTypeOK
  <2>2. tls.plain = <<>> /\ ~tls.shut
    BY <1>4, <1>7 DEF Reading
  <2>3. u \notin Handshakes
    BY <1>5, <2>1
  <2>4. u \in Byte \/ u \in {"mac", "bye", "ticket"}
    BY <1>3, <2>3 DEF Marks
  <2>5. CASE u = "mac"
    <3>1. tls' = [tls EXCEPT !.plain = tls.rec, !.rec = <<>>]
      BY <1>4, <2>3, <2>5 DEF Opened
    <3> QED  BY <1>1, <1>3, <1>7, <2>1, <2>2, <2>5, <3>1 DEF u
  <2>6. CASE u = "bye"
    <3>1. tls' = [tls EXCEPT !.shut = TRUE]
      BY <1>4, <2>3, <2>6 DEF Opened
    <3> QED  BY <1>1, <1>3, <1>7, <2>1, <2>2, <2>6, <3>1 DEF u
  <2>7. CASE u = "ticket"
    <3>1. tls' = tls
      BY <1>4, <2>3, <2>7 DEF Opened
    <3> QED  BY <1>1, <1>3, <1>7, <2>1, <2>2, <2>7, <3>1 DEF u
  <2>8. CASE u \in Byte
    <3>1. u \notin Marks
      BY <2>8, MarkAssumption
    <3>2. Opened(u) = [tls EXCEPT !.rec = Append(tls.rec, u)]
      BY <2>3, <3>1 DEF Opened, Marks
    <3> QED  BY <1>1, <1>3, <1>4, <1>7, <2>1, <2>2, <2>8, <3>1, <3>2 DEF u
  <2> QED  BY <2>4, <2>5, <2>6, <2>7, <2>8
<1>8. CASE job # "recv"
  <2>1. job = "connect" /\ tls.step <= 5 /\ ~Sends(Script[tls.step])
    BY <1>4, <1>8, ScriptIs DEF Reading
  <2>2. tls.step \in {2, 3, 5}
    BY <1>6, <2>1, ScriptIs DEF Sends
  <2>3. u = Script[tls.step]
    BY <1>4, <2>1 DEF Refuses, Needs
  <2>4. u \in {"sh", "cert", "sfin"}
    BY <2>2, <2>3, ScriptIs
  <2>5. Opened(u) = [tls EXCEPT !.step = tls.step + 1]
    BY <2>4 DEF Opened, Handshakes
  <2>6. (u = "sh" => Agrees(conf)) /\ (u = "cert" => Accepts(conf))
    BY <1>4 DEF Refuses
  <2>7. u \in Handshakes
    BY <2>4 DEF Handshakes
  <2>8. \/ gave = 1 /\ tls.step = 2 /\ u = "sh" /\ Agrees(conf)
        \/ gave = 1 /\ tls.step = 3 /\ u = "cert" /\ Accepts(conf)
        \/ gave = 2 /\ tls.step = 5 /\ u = "sfin"
    BY <1>5, <2>2, <2>3, <2>6, <2>7, ScriptIs
  <2> QED  BY <1>1, <1>3, <1>4, <2>1, <2>5, <2>8 DEF u
<1> QED  BY <1>7, <1>8

\* Every step of a call keeps types, places and results.
LEMMA QueueShape ==
    ASSUME Shape, Queue
    PROVE  Shape'
<1>0. Outgoing # <<>> /\ out \in Texts /\ todo \in Texts /\ Len(out) < Pair /\ out' = out \o Outgoing
  BY DEF Queue, Shape, BufTypeOK
<1>1. \/ job = "send" /\ todo # <<>> /\ Outgoing = <<Head(todo)>>
      \/ /\ job = "connect" /\ tls.step \in {1, 4}
         /\ Outgoing = <<Script[tls.step]>> /\ Script[tls.step] \in {"hello", "fin"}
  BY <1>0, OutgoingIs
<1>2. out' \in Texts /\ Len(out') <= Pair /\ todo' \in Texts
  <2>1. \E u \in Byte \cup Marks : out' = Append(out, u)
    BY <1>0, <1>1 DEF Texts, Marks, Handshakes
  <2>2. todo' \in Texts
    <3>1. todo # <<>> => Tail(todo) \in Texts
      BY <1>0, HeadFirst DEF Texts
    <3>2. todo' = todo \/ (todo # <<>> /\ todo' = Tail(todo))
      BY <1>1 DEF Queue
    <3> QED  BY <1>0, <3>1, <3>2
  <2> QED  BY <1>0, <2>1, <2>2, RoomAssumption DEF Texts
<1>3. \/ job = "send" /\ tls' = tls
      \/ job = "connect" /\ tls.step \in {1, 4} /\ tls' = [tls EXCEPT !.step = tls.step + 1]
  BY <1>1 DEF Queue
<1>4. tls' \in [step : 1 .. 6, rec : Row, plain : Row, shut : BOOLEAN]
  BY <1>3 DEF Shape, BufTypeOK
<1>5. TransportTypeOK'
  BY <1>2, <1>3, <1>4 DEF Shape, Queue, TransportTypeOK, Script
<1>6. BufTypeOK'
  BY <1>2, <1>4 DEF Shape, Queue, BufTypeOK, streamHist
<1>7. PlainOK'
  BY DEF Shape, Queue, PlainOK, Places
<1>8. Places'
  BY DEF Shape, Queue, Places
<1>9. Results'
  BY DEF Shape, Queue, Results
<1> QED  BY <1>5, <1>6, <1>7, <1>8, <1>9 DEF Shape

LEMMA TakeShape ==
    ASSUME TransportInv, Take
    PROVE  Shape'
<1>0. Shape /\ in' \in Texts /\ Len(in') <= Len(in) /\ Len(in') \in Nat
  BY TakeIs DEF TransportInv, Texts
<1>1. tls' \in [step : 1 .. 6, rec : Row, plain : Row, shut : BOOLEAN] /\ tls'.step >= tls.step
  <2>1. tls \in [step : 1 .. 6, rec : Row, plain : Row, shut : BOOLEAN]
    BY <1>0 DEF Shape, BufTypeOK
  <2>2. <<>> \in Row
    BY EmptyRow
  <2>3. Head(in) \in Byte => Append(tls.rec, Head(in)) \in Row
    BY <2>1 DEF Row
  <2>4. CASE /\ tls.step = 6
             /\ \/ tls' = [tls EXCEPT !.plain = tls.rec, !.rec = <<>>]
                \/ tls' = [tls EXCEPT !.shut = TRUE]
                \/ tls' = tls
                \/ /\ Head(in) \in Byte
                   /\ tls' = [tls EXCEPT !.rec = Append(tls.rec, Head(in))]
    <3> DEFINE x == Append(tls.rec, Head(in))
    <3>1. Head(in) \in Byte => x \in Row
      BY <2>3
    <3> HIDE DEF x
    <3>2. \/ tls' = [tls EXCEPT !.plain = tls.rec, !.rec = <<>>]
          \/ tls' = [tls EXCEPT !.shut = TRUE]
          \/ tls' = tls
          \/ Head(in) \in Byte /\ tls' = [tls EXCEPT !.rec = x]
      BY <2>4 DEF x
    <3>3. CASE tls' = [tls EXCEPT !.plain = tls.rec, !.rec = <<>>]
      <4>1. tls'.step = tls.step /\ tls.step \in 1 .. 6
        BY ONLY <2>1, <3>3
      <4>2. tls' \in [step : 1 .. 6, rec : Row, plain : Row, shut : BOOLEAN]
        BY ONLY <2>1, <2>2, <3>3
      <4> QED  BY ONLY <4>1, <4>2
    <3>4. CASE tls' = [tls EXCEPT !.shut = TRUE]
      <4>1. tls'.step = tls.step /\ tls.step \in 1 .. 6
        BY ONLY <2>1, <3>4
      <4>2. tls' \in [step : 1 .. 6, rec : Row, plain : Row, shut : BOOLEAN]
        BY ONLY <2>1, <2>2, <3>4
      <4> QED  BY ONLY <4>1, <4>2
    <3>5. CASE tls' = tls
      BY ONLY <2>1, <3>5
    <3>6. CASE x \in Row /\ tls' = [tls EXCEPT !.rec = x]
      BY ONLY <2>1, <3>6
    <3> QED  BY <3>1, <3>2, <3>3, <3>4, <3>5, <3>6
  <2>5. CASE tls' = [tls EXCEPT !.step = tls.step + 1] /\ tls.step \in {2, 3, 5}
    BY <2>1, <2>5
  <2> QED  BY <2>4, <2>5, TakeIs
<1>2. TransportTypeOK'
  BY <1>0, <1>1, RoomAssumption DEF Shape, Take, TransportTypeOK, Script, BufTypeOK, Texts
<1>3. BufTypeOK'
  BY <1>0, <1>1 DEF Shape, Take, BufTypeOK, streamHist
<1>4. PlainOK'
  BY <1>0 DEF Shape, Take, PlainOK, Places
<1>5. Places'
  BY <1>0 DEF Shape, Take, Places
<1>6. Results'
  BY <1>0 DEF Shape, Take, Results
<1> QED  BY <1>2, <1>3, <1>4, <1>5, <1>6 DEF Shape

LEMMA WantsShape ==
    ASSUME Shape, Wants
    PROVE  Shape'
<1>1. TransportTypeOK'
  BY DEF Shape, Wants, TransportTypeOK, bufVars, streamHist
<1>2. BufTypeOK'
  BY DEF Shape, Wants, BufTypeOK, bufVars, streamHist
<1>3. PlainOK'
  BY DEF Shape, Wants, PlainOK, bufVars
<1>4. Places'
  BY DEF Shape, Wants, Places, bufVars, Reading
<1>5. Results'
  BY DEF Shape, Wants, Results
<1> QED  BY <1>1, <1>2, <1>3, <1>4, <1>5 DEF Shape

LEMMA SaidIs ==
    /\ Said("ok").rc = "ok" /\ Said("error").rc = "error"
    /\ Said("ok") # Pending /\ Said("error") # Pending /\ Said("ok") # Said("error")
    /\ Said("none") # Pending /\ Said("error") # Said("none") /\ Said("ok") # Said("none")
BY DEF Said, Pending

LEMMA EmptyTexts == <<>> \in Texts /\ Len(<<>>) = 0 /\ <<>> \in Row
BY EmptyRow DEF Texts

\* What a call may answer.
Replies == [rc : {"pending", "none", "ok", "error"}] \cup [rc : {"ok"}, data : Row]

\* The answers of a call.
LEMMA RepliesAre ==
    /\ Pending \in Replies /\ Said("ok") \in Replies /\ Said("error") \in Replies
    /\ Said("none") \in Replies /\ \A d \in Row : Data(d) \in Replies
BY DEF Replies, Pending, Said, Data

\* A failed call: where it leaves the connection.
LEMMA FailsIs ==
    ASSUME Fails
    PROVE  /\ at' = "idle" /\ job' = job /\ sock' = (IF job = "connect" THEN "none" ELSE sock)
           /\ \/ reply' = Said("error")
              \/ job = "recv" /\ tls.shut /\ reply' = Data(<<>>)
<1>1. CASE job = "connect"
  BY <1>1 DEF Fails, Answer
<1>2. CASE job # "connect"
  BY <1>2 DEF Fails, Answer
<1> QED  BY <1>1, <1>2

\* A call that fails says so, or that the connection has ended.
LEMMA FailsReply ==
    ASSUME Fails
    PROVE  /\ reply' \in Replies /\ reply' # Pending /\ reply' # Said("ok") /\ reply' # Said("none")
           /\ job # "recv" => reply' = Said("error")
BY FailsIs, EmptyTexts, RepliesAre, SaidIs, DataApart

\* A call that fails leaves the buffers as they are, or fewer bytes in them.
LEMMA FailsShape ==
    ASSUME Shape, Fails, sock # "none", job \in {"connect", "send", "recv"}, pend = <<>>,
           UNCHANGED <<conf, wire, got, gave, in, pend, tls, todo, want, trouble, streamHist>>,
           out' \in Texts, Len(out') <= Pair, ~conf.tls => out' = <<>>, blame' \in BOOLEAN
    PROVE  Shape'
<1>1. TransportTypeOK'
  BY FailsIs, FailsReply DEF Shape, TransportTypeOK
<1>2. BufTypeOK'
  BY FailsReply DEF Shape, BufTypeOK, streamHist, Replies
<1>3. PlainOK'
  BY DEF Shape, PlainOK
<1>4. Places'
  BY FailsIs DEF Shape, Places
<1>5. Results'
  BY FailsIs, FailsReply DEF Shape, Results
<1> QED  BY <1>1, <1>2, <1>3, <1>4, <1>5 DEF Shape

LEMMA RefusedShape ==
    ASSUME Shape, Refused
    PROVE  Shape'
<1>1. /\ Fails /\ UNCHANGED <<conf, wire, got, gave, in, pend, tls, todo, want, trouble, streamHist>>
      /\ out' = out /\ blame' = TRUE /\ at = "op"
  BY DEF Refused, bufVars
<1>2. /\ sock # "none" /\ job \in {"connect", "send", "recv"} /\ pend = <<>> /\ out \in Texts
      /\ Len(out) <= Pair /\ (~conf.tls => out = <<>>)
  BY <1>1 DEF Shape, TransportTypeOK, BufTypeOK, PlainOK, Places
<1> QED  BY <1>1, <1>2, FailsShape

LEMMA FinShape ==
    ASSUME Shape, Fin
    PROVE  Shape'
<1>0. /\ at = "read" /\ sock = "fin" /\ wire = <<>>
      /\ UNCHANGED <<conf, wire, got, gave, bufVars, todo, want, trouble, streamHist, blame>>
  BY DEF Fin
<1>1. CASE conf.tls
  <2>1. /\ Fails /\ UNCHANGED <<conf, wire, got, gave, in, pend, tls, todo, want, trouble, streamHist>>
        /\ out' = out /\ blame' = blame
    BY <1>0, <1>1 DEF Fin, bufVars
  <2>2. /\ sock # "none" /\ job \in {"connect", "send", "recv"} /\ pend = <<>> /\ out \in Texts
        /\ Len(out) <= Pair /\ (~conf.tls => out = <<>>) /\ blame \in BOOLEAN
    BY <1>0 DEF Shape, TransportTypeOK, BufTypeOK, PlainOK, Places
  <2> QED  BY <2>1, <2>2, FailsShape
<1>2. CASE ~conf.tls
  <2>0. at' = "idle" /\ reply' = Data(<<>>) /\ UNCHANGED <<job, sock>> /\ job = "recv"
    BY <1>0, <1>2 DEF Fin, Answer, Shape, Places
  <2>1. TransportTypeOK'
    BY <1>0, <2>0, DataApart DEF Shape, TransportTypeOK, bufVars
  <2>2. BufTypeOK'
    BY <1>0, <2>0, RepliesAre, EmptyTexts DEF Shape, BufTypeOK, bufVars, streamHist, Replies
  <2>3. PlainOK'
    BY <1>0, <2>0 DEF Shape, PlainOK, bufVars
  <2>4. Places'
    BY <1>0, <2>0 DEF Shape, Places, bufVars
  <2>5. Results'
    BY <1>0, <2>0, DataApart DEF Shape, Results
  <2> QED  BY <2>1, <2>2, <2>3, <2>4, <2>5 DEF Shape
<1> QED  BY <1>1, <1>2

LEMMA ReadFailsShape ==
    ASSUME Shape, ReadFails
    PROVE  Shape'
<1>1. /\ Fails /\ UNCHANGED <<conf, wire, got, gave, in, pend, tls, todo, want, trouble, streamHist>>
      /\ out' = out /\ at = "read" /\ blame' \in BOOLEAN
  BY DEF ReadFails, bufVars, Shape, TransportTypeOK
<1>2. /\ sock # "none" /\ job \in {"connect", "send", "recv"} /\ pend = <<>> /\ out \in Texts
      /\ Len(out) <= Pair /\ (~conf.tls => out = <<>>)
  BY <1>1 DEF Shape, TransportTypeOK, BufTypeOK, PlainOK, Places
<1> QED  BY <1>1, <1>2, FailsShape

LEMMA DoneShape ==
    ASSUME Shape, Done
    PROVE  Shape'
<1>0. /\ at = "op" /\ conf.tls /\ sock # "none" /\ job \in {"connect", "send", "recv"}
      /\ UNCHANGED <<conf, sock, wire, got, gave, out, in, pend, job, todo, want, trouble, asked, said,
                     bye, blame>>
      /\ tls \in [step : 1 .. 6, rec : Row, plain : Row, shut : BOOLEAN] /\ heard \in Row
  BY DEF Done, Shape, Places, TransportTypeOK, BufTypeOK
<1>1. CASE job = "send"
  <2>0. /\ at' = "tail" /\ UNCHANGED <<tls, heard, reply>>
        /\ todo = <<>>
    BY <1>1 DEF Done, Outgoing
  <2>1. TransportTypeOK'
    BY <1>0, <2>0 DEF Shape, TransportTypeOK
  <2>2. BufTypeOK'
    BY <1>0, <2>0 DEF Shape, BufTypeOK
  <2>3. PlainOK'
    BY <1>0 DEF Shape, PlainOK
  <2>4. Places'
    BY <1>0, <1>1, <2>0 DEF Shape, Places
  <2>5. Results'
    BY <1>0, <2>0 DEF Shape, Results
  <2> QED  BY <2>1, <2>2, <2>3, <2>4, <2>5 DEF Shape
<1>2. CASE job = "connect"
  <2>0. at' = "idle" /\ reply' = Said("ok") /\ UNCHANGED <<tls, heard>>
    BY <1>2 DEF Done, Answer
  <2>1. TransportTypeOK'
    BY <1>0, <2>0, SaidIs DEF Shape, TransportTypeOK
  <2>2. BufTypeOK'
    BY <1>0, <2>0, RepliesAre DEF Shape, BufTypeOK, Replies
  <2>3. PlainOK'
    BY <1>0 DEF Shape, PlainOK
  <2>4. Places'
    BY <1>0, <1>2, <2>0 DEF Shape, Places
  <2>5. Results'
    BY <1>0, <1>2, <2>0 DEF Shape, Results
  <2> QED  BY <2>1, <2>2, <2>3, <2>4, <2>5 DEF Shape
<1>3. CASE job = "recv"
  <2> DEFINE n == IF BufLen < Len(tls.plain) THEN BufLen ELSE Len(tls.plain)
             x == SubSeq(tls.plain, 1, n)
             y == SubSeq(tls.plain, n + 1, Len(tls.plain))
  <2>1. n \in Nat /\ n <= Len(tls.plain) /\ tls.plain \in Row
    BY <1>0, RoomAssumption DEF Row
  <2>2. at' = "idle" /\ reply' = Data(x) /\ heard' = heard \o x /\ tls' = [tls EXCEPT !.plain = y]
    BY <1>3 DEF Done, Answer
  <2> HIDE DEF n
  <2>3. x \in Row /\ y \in Row
    BY <2>1, CutInTwo DEF Row
  <2> HIDE DEF x, y
  <2>4. tls' \in [step : 1 .. 6, rec : Row, plain : Row, shut : BOOLEAN] /\ tls'.step = tls.step
    BY <1>0, <2>2, <2>3
  <2>5. heard' \in Row
    BY <1>0, <2>2, <2>3, RowFacts
  <2>6. TransportTypeOK'
    BY <1>0, <2>2, <2>4, DataApart DEF Shape, TransportTypeOK
  <2>7. BufTypeOK'
    BY <1>0, <2>2, <2>3, <2>4, <2>5, RepliesAre DEF Shape, BufTypeOK, Replies
  <2>8. PlainOK'
    BY <1>0 DEF Shape, PlainOK
  <2>9. Places'
    BY <1>0, <1>3, <2>2 DEF Shape, Places
  <2>10. Results'
    BY <1>0, <1>3, <2>2, DataApart DEF Shape, Results
  <2> QED  BY <2>6, <2>7, <2>8, <2>9, <2>10 DEF Shape
<1> QED  BY <1>0, <1>1, <1>2, <1>3

\* What one call of tls_flush_out() writes.
LEMMA FlushIs ==
    ASSUME Shape, FlushOut, out # <<>>
    PROVE  /\ UNCHANGED <<at, reply>> /\ sock # "cut" /\ conf.tls
           /\ \E x \in Texts : /\ x # <<>> /\ got' = got \o x /\ out = x \o out' /\ out' \in Texts
                               /\ Len(out') <= Len(out) /\ got' \in Texts
<1> DEFINE n == IF Chunk < Len(out) THEN Chunk ELSE Len(out)
           x == SubSeq(out, 1, n)
           y == SubSeq(out, n + 1, Len(out))
<1>1. out \in Texts /\ got \in Texts /\ conf.tls
  BY DEF Shape, BufTypeOK, FlushOut, Places
<1>2. Len(out) \in Nat /\ Len(out) > 0
  BY <1>1 DEF Texts
<1>3. n \in Nat /\ n <= Len(out) /\ n > 0
  BY <1>2, RoomAssumption
<1>4. got' = got \o x /\ out' = y /\ UNCHANGED <<at, reply>> /\ sock # "cut"
  BY DEF FlushOut
<1> HIDE DEF n
<1>5. x \in Texts /\ y \in Texts /\ Len(x) = n /\ Len(y) = Len(out) - n /\ x \o y = out
  BY <1>1, <1>3, CutInTwo DEF Texts
<1> HIDE DEF x, y
<1>6. x # <<>> /\ Len(y) <= Len(out)
  BY <1>2, <1>3, <1>5, EmptyTexts
<1>7. got \o x \in Texts
  BY <1>1, <1>5, TextsConcat
<1> QED  BY <1>1, <1>4, <1>5, <1>6, <1>7

LEMMA FlushOutShape ==
    ASSUME Shape, FlushOut
    PROVE  Shape'
<1>0. /\ at \in {"pump", "tail", "bye"} /\ conf.tls /\ sock # "none" /\ got \in Texts /\ out \in Texts
      /\ UNCHANGED <<conf, sock, wire, gave, in, pend, tls, job, todo, want, trouble, streamHist, blame>>
  BY DEF FlushOut, Shape, Places, TransportTypeOK, BufTypeOK
<1>1. CASE out # <<>>
  <2>1. /\ UNCHANGED <<at, reply>> /\ got' \in Texts /\ out' \in Texts /\ Len(out') <= Len(out)
        /\ Len(out) \in Nat /\ Len(out') \in Nat
    BY <1>0, <1>1, FlushIs DEF Texts
  <2>2. TransportTypeOK'
    BY <1>0, <2>1, RoomAssumption DEF Shape, TransportTypeOK
  <2>3. BufTypeOK'
    BY <1>0, <2>1 DEF Shape, BufTypeOK, streamHist
  <2>4. PlainOK'
    BY <1>0 DEF Shape, PlainOK
  <2>5. Places'
    BY <1>0, <2>1 DEF Shape, Places
  <2>6. Results'
    BY <1>0, <2>1 DEF Shape, Results
  <2> QED  BY <2>2, <2>3, <2>4, <2>5, <2>6 DEF Shape
<1>2. CASE out = <<>>
  <2>1. /\ UNCHANGED <<out, got>>
        /\ \/ at = "pump" /\ at' = "fill" /\ UNCHANGED reply
           \/ at = "tail" /\ at' = "idle" /\ reply' = Said("ok")
           \/ at = "bye" /\ at' = "gone" /\ UNCHANGED reply
    BY <1>0, <1>2 DEF FlushOut, Answer
  <2>2. TransportTypeOK'
    BY <1>0, <2>1, SaidIs DEF Shape, TransportTypeOK
  <2>3. BufTypeOK'
    BY <1>0, <2>1, RepliesAre DEF Shape, BufTypeOK, streamHist, Replies
  <2>4. PlainOK'
    BY <1>0 DEF Shape, PlainOK
  <2>5. Places'
    BY <1>0, <1>2, <2>1 DEF Shape, Places
  <2>6. Results'
    BY <1>0, <2>1 DEF Shape, Results, Places
  <2> QED  BY <2>2, <2>3, <2>4, <2>5, <2>6 DEF Shape
<1> QED  BY <1>1, <1>2

LEMMA FlushFailsShape ==
    ASSUME Shape, FlushFails
    PROVE  Shape'
<1>0. /\ at \in {"pump", "tail", "bye"} /\ conf.tls /\ sock = "cut" /\ out \in Texts /\ pend = <<>>
      /\ out # <<>> /\ out' = SubSeq(out, Chunk + 1, Len(out)) /\ Len(out) <= Pair
      /\ UNCHANGED <<conf, wire, got, gave, in, pend, tls, todo, want, trouble, streamHist, blame>>
      /\ blame \in BOOLEAN
  BY DEF FlushFails, Shape, Places, TransportTypeOK, BufTypeOK
<1>1. out' \in Texts /\ Len(out') <= Pair
  <2>1. Len(out) \in Nat /\ Chunk \in Nat /\ Chunk >= 1 /\ Pair \in Nat /\ Len(out) <= Pair
    BY <1>0, RoomAssumption DEF Texts
  <2>2. CASE Chunk <= Len(out)
    <3> DEFINE y == SubSeq(out, Chunk + 1, Len(out))
    <3>1. y \in Texts /\ Len(y) = Len(out) - Chunk
      BY <1>0, <2>1, <2>2, CutInTwo DEF Texts
    <3> HIDE DEF y
    <3>2. out' = y
      BY <1>0 DEF y
    <3> QED  BY ONLY <2>1, <3>1, <3>2
  <2>3. CASE Chunk > Len(out)
    <3>1. SubSeq(out, Chunk + 1, Len(out)) = <<>>
      BY <1>0, <2>1, <2>3 DEF Texts
    <3>2. out' = <<>>
      BY <1>0, <3>1
    <3> QED  BY ONLY <2>1, <3>2, EmptyTexts
  <2> QED  BY <2>1, <2>2, <2>3
<1>2. CASE at = "bye"
  <2>1. at' = "gone" /\ UNCHANGED <<sock, reply, job>>
    BY <1>2 DEF FlushFails
  <2>2. TransportTypeOK'
    BY <1>0, <1>1, <1>2, <2>1 DEF Shape, TransportTypeOK
  <2>3. BufTypeOK'
    BY <1>0, <1>1, <2>1 DEF Shape, BufTypeOK, streamHist
  <2>4. PlainOK'
    BY <1>0 DEF Shape, PlainOK
  <2>5. Places'
    BY <1>0, <1>2, <2>1 DEF Shape, Places
  <2>6. Results'
    BY <1>0, <1>2, <2>1 DEF Shape, Results, Places
  <2> QED  BY <2>2, <2>3, <2>4, <2>5, <2>6 DEF Shape
<1>3. CASE at # "bye"
  <2>1. Fails /\ job \in {"connect", "send", "recv"}
    BY <1>0, <1>3 DEF FlushFails, Shape, Places
  <2> QED  BY <1>0, <1>1, <2>1, FailsShape
<1> QED  BY <1>2, <1>3

\* What tls_flush_in() does: pending_in fits, since it is filled only when the
\* pair is empty, and then all of it goes in.
LEMMA FillIs ==
    ASSUME Shape, Fill
    PROVE  /\ in' = in \o pend /\ pend' = <<>> /\ in' \in Texts /\ Len(in') <= Pair /\ conf.tls
           /\ want => pend = <<>>
           /\ at' = (IF want THEN "read" ELSE "op")
<1> DEFINE n == IF Pair - Len(in) < Len(pend) THEN Pair - Len(in) ELSE Len(pend)
<1>1. /\ in \in Texts /\ pend \in Texts /\ Len(in) <= Pair /\ Len(pend) <= Chunk /\ at = "fill"
      /\ conf.tls /\ (pend # <<>> => ~want /\ in = <<>>)
  BY DEF Shape, BufTypeOK, TransportTypeOK, Places, Fill
<1>2. /\ Len(in) \in Nat /\ Len(pend) \in Nat /\ Pair \in Nat /\ Chunk \in Nat /\ Chunk <= Pair
  BY <1>1, RoomAssumption DEF Texts
<1>3. n = Len(pend)
  <2>1. CASE pend = <<>>
    BY <1>1, <1>2, <2>1
  <2>2. CASE pend # <<>>
    <3>1. Len(in) = 0
      BY <1>1, <2>2
    <3> QED  BY <1>1, <1>2, <3>1
  <2> QED  BY <2>1, <2>2
<1>4. in' = in \o SubSeq(pend, 1, n) /\ pend' = SubSeq(pend, n + 1, Len(pend))
      /\ at' = (IF want /\ pend' = <<>> THEN "read" ELSE "op")
  BY DEF Fill
<1> HIDE DEF n
<1>5. SubSeq(pend, 1, Len(pend)) = pend /\ SubSeq(pend, Len(pend) + 1, Len(pend)) = <<>>
  BY <1>1, <1>2 DEF Texts
<1>6. in' = in \o pend /\ pend' = <<>>
  BY <1>3, <1>4, <1>5
<1>7. in \o pend \in Texts /\ Len(in \o pend) = Len(in) + Len(pend)
  BY <1>1 DEF Texts
<1>8. Len(in \o pend) <= Pair
  <2>1. CASE pend = <<>>
    <3>1. Len(pend) = 0
      BY <2>1
    <3> DEFINE w == in \o pend
    <3> HIDE DEF w
    <3>2. Len(w) = Len(in) + Len(pend)
      BY <1>7 DEF w
    <3>3. Len(w) <= Pair
      BY <1>1, <1>2, <3>1, <3>2
    <3> QED  BY <3>3 DEF w
  <2>2. CASE pend # <<>>
    <3>1. Len(in) = 0
      BY <1>1, <2>2
    <3> DEFINE w == in \o pend
    <3> HIDE DEF w
    <3>2. Len(w) = Len(in) + Len(pend)
      BY <1>7 DEF w
    <3>3. Len(w) <= Pair
      BY <1>1, <1>2, <3>1, <3>2
    <3> QED  BY <3>3 DEF w
  <2> QED  BY <2>1, <2>2
<1> QED  BY <1>1, <1>4, <1>6, <1>7, <1>8

LEMMA FillShape ==
    ASSUME Shape, Fill
    PROVE  Shape'
<1>0. /\ in' \in Texts /\ Len(in') <= Pair /\ conf.tls /\ at = "fill" /\ pend' = <<>>
      /\ at' = (IF want THEN "read" ELSE "op") /\ sock # "none"
      /\ UNCHANGED <<conf, sock, wire, got, gave, out, tls, job, todo, want, reply, trouble,
                     streamHist, blame>>
  BY FillIs DEF Fill, Shape, TransportTypeOK
<1>1. TransportTypeOK'
  BY <1>0, EmptyTexts, RoomAssumption DEF Shape, TransportTypeOK
<1>2. BufTypeOK'
  BY <1>0, EmptyTexts DEF Shape, BufTypeOK, streamHist
<1>3. PlainOK'
  BY <1>0 DEF Shape, PlainOK
<1>6. want => in' = <<>>
  <2>1. want => in = <<>> /\ pend = <<>>
    BY <1>0, FillIs DEF Shape, Places
  <2>2. <<>> \o <<>> = <<>>
    OBVIOUS
  <2> QED  BY <2>1, <2>2, FillIs
<1>4. Places'
  BY <1>0, <1>6 DEF Shape, Places
<1>5. Results'
  BY <1>0 DEF Shape, Results, Places
<1> QED  BY <1>1, <1>2, <1>3, <1>4, <1>5 DEF Shape

\* What recv() of the socket takes from the wire.
LEMMA ReadIs ==
    ASSUME Shape, Read
    PROVE  \E x \in Texts :
              /\ x # <<>> /\ wire = x \o wire' /\ wire' \in Texts
              /\ IF conf.tls
                 THEN pend' = x /\ Len(x) <= Chunk /\ want' = FALSE /\ at' = "fill" /\ UNCHANGED <<heard, reply>>
                 ELSE /\ x \in Row /\ wire' \in Row /\ at' = "idle" /\ reply' = Data(x)
                      /\ heard' = heard \o x /\ UNCHANGED <<pend, want>>
<1> DEFINE N == IF conf.tls THEN Chunk ELSE BufLen
<1>1. wire \in Texts /\ (~conf.tls => wire \in Row) /\ conf.tls \in BOOLEAN
  BY TlsBoolean DEF Shape, BufTypeOK, PlainOK
<1>2. N \in Nat /\ (conf.tls => N = Chunk) /\ Len(wire) \in Nat
  BY <1>1, RoomAssumption DEF Texts
<1>3. PICK n \in 1 .. N :
          /\ n <= Len(wire)
          /\ wire' = SubSeq(wire, n + 1, Len(wire))
          /\ IF conf.tls
             THEN /\ pend' = SubSeq(wire, 1, n) /\ want' = FALSE /\ at' = "fill"
                  /\ UNCHANGED <<heard, reply>>
             ELSE /\ Answer(Data(SubSeq(wire, 1, n)))
                  /\ heard' = heard \o SubSeq(wire, 1, n)
                  /\ UNCHANGED <<pend, want>>
  BY DEF Read
<1> HIDE DEF N
<1> DEFINE x == SubSeq(wire, 1, n)
           y == SubSeq(wire, n + 1, Len(wire))
<1>4. n \in Nat /\ n > 0 /\ n <= N
  BY <1>2
<1>5. x \in Texts /\ y \in Texts /\ Len(x) = n /\ wire = x \o y
  BY <1>1, <1>3, <1>4, CutInTwo DEF Texts
<1>6. ~conf.tls => x \in Row /\ y \in Row
  BY <1>1, <1>3, <1>4, CutInTwo DEF Row
<1>7. /\ wire' = y
      /\ IF conf.tls
         THEN pend' = x /\ want' = FALSE /\ at' = "fill" /\ UNCHANGED <<heard, reply>>
         ELSE /\ at' = "idle" /\ reply' = Data(x) /\ heard' = heard \o x /\ UNCHANGED <<pend, want>>
  BY <1>3 DEF Answer
<1> HIDE DEF x, y
<1>8. x # <<>> /\ (conf.tls => Len(x) <= Chunk)
  BY <1>2, <1>4, <1>5, EmptyTexts
<1>9. CASE conf.tls
  BY <1>5, <1>7, <1>8, <1>9
<1>10. CASE ~conf.tls
  BY <1>5, <1>6, <1>7, <1>8, <1>10
<1> QED  BY <1>9, <1>10

LEMMA ReadShape ==
    ASSUME Shape, Read
    PROVE  Shape'
<1>0. /\ at = "read" /\ sock # "none" /\ heard \in Row
      /\ UNCHANGED <<conf, sock, got, gave, out, in, tls, job, todo, trouble, asked, said, bye, blame>>
  BY DEF Read, Shape, TransportTypeOK, BufTypeOK
<1>1. PICK x \in Texts :
              /\ x # <<>> /\ wire = x \o wire' /\ wire' \in Texts
              /\ IF conf.tls
                 THEN pend' = x /\ Len(x) <= Chunk /\ want' = FALSE /\ at' = "fill" /\ UNCHANGED <<heard, reply>>
                 ELSE /\ x \in Row /\ wire' \in Row /\ at' = "idle" /\ reply' = Data(x)
                      /\ heard' = heard \o x /\ UNCHANGED <<pend, want>>
  BY ReadIs
<1>2. CASE conf.tls
  <2>0. pend' = x /\ Len(x) <= Chunk /\ want' = FALSE /\ at' = "fill" /\ UNCHANGED <<heard, reply>>
    BY <1>1, <1>2
  <2>1. TransportTypeOK'
    BY <1>0, <2>0 DEF Shape, TransportTypeOK
  <2>2. BufTypeOK'
    BY <1>0, <1>1, <2>0 DEF Shape, BufTypeOK
  <2>3. PlainOK'
    BY <1>0, <1>2 DEF Shape, PlainOK
  <2>4. Places'
    BY <1>0, <1>2, <2>0 DEF Shape, Places
  <2>5. Results'
    BY <1>0, <2>0 DEF Shape, Results
  <2> QED  BY <2>1, <2>2, <2>3, <2>4, <2>5 DEF Shape
<1>3. CASE ~conf.tls
  <2>0. /\ x \in Row /\ wire' \in Row /\ at' = "idle" /\ reply' = Data(x)
        /\ heard' = heard \o x /\ UNCHANGED <<pend, want>> /\ job = "recv"
    BY <1>0, <1>1, <1>3 DEF Shape, Places
  <2>6. heard' \in Row
    BY <1>0, <2>0, RowFacts
  <2>1. TransportTypeOK'
    BY <1>0, <2>0, DataApart DEF Shape, TransportTypeOK
  <2>2. BufTypeOK'
    BY <1>0, <1>1, <2>0, <2>6, RepliesAre DEF Shape, BufTypeOK, Replies
  <2>3. PlainOK'
    BY <1>0, <2>0 DEF Shape, PlainOK
  <2>4. Places'
    BY <1>0, <1>3, <2>0 DEF Shape, Places
  <2>5. Results'
    BY <1>0, <2>0, DataApart DEF Shape, Results
  <2> QED  BY <2>1, <2>2, <2>3, <2>4, <2>5 DEF Shape
<1> QED  BY <1>2, <1>3

\* What the plain socket's send() takes of the rest of the request.
LEMMA WriteIs ==
    ASSUME Shape, NEW n \in 0 .. Len(todo), n = 0 <=> todo = <<>>, ~conf.tls,
           got' = got \o SubSeq(todo, 1, n), todo' = SubSeq(todo, n + 1, Len(todo))
    PROVE  \E x \in Row : /\ got' = got \o x /\ todo = x \o todo' /\ got' \in Row /\ todo' \in Row
                          /\ n = 0 => x = <<>> /\ todo' = <<>>
                          /\ n # 0 => x # <<>>
<1> DEFINE x == SubSeq(todo, 1, n)
           y == SubSeq(todo, n + 1, Len(todo))
<1>1. todo \in Row /\ got \in Row /\ Len(todo) \in Nat
  BY DEF Shape, PlainOK, Row
<1>2. n \in Nat /\ n <= Len(todo)
  BY <1>1
<1>3. x \in Row /\ y \in Row /\ Len(x) = n /\ Len(y) = Len(todo) - n /\ x \o y = todo
  <2>1. todo \in Seq(Byte) /\ n \in Nat /\ n <= Len(todo)
    BY <1>1, <1>2 DEF Row
  <2>2. x \in Seq(Byte) /\ y \in Seq(Byte) /\ Len(x) = n /\ Len(y) = Len(todo) - n /\ x \o y = todo
    BY ONLY <2>1, CutInTwo
  <2> QED  BY <2>2 DEF Row
<1>4. got' = got \o x /\ todo' = y
  OBVIOUS
<1> HIDE DEF x, y
<1>5. n = 0 => x = <<>> /\ y = <<>>
  <2>1. n = 0 => Len(x) = 0 /\ Len(y) = 0
    BY <1>1, <1>3
  <2> QED  BY <1>3, <2>1, EmptyRow DEF Row
<1>6. n # 0 => x # <<>>
  BY <1>3, EmptyRow
<1>7. got \o x \in Row
  BY <1>1, <1>3, RowFacts
<1> QED  BY <1>3, <1>4, <1>5, <1>6, <1>7

LEMMA RowsAreTexts == Row \subseteq Texts
<1>1. Byte \subseteq Byte \cup Marks
  OBVIOUS
<1> DEFINE Z == Byte \cup Marks
<1> HIDE DEF Z
<1>2. ASSUME NEW s \in Seq(Byte) PROVE s \in Seq(Z)
  BY <1>1 DEF Z
<1> QED  BY <1>2 DEF Row, Texts, Z

LEMMA FreshTls ==
    /\ Fresh0 \in [step : 1 .. 6, rec : Row, plain : Row, shut : BOOLEAN]
    /\ Fresh0.step = 1 /\ Fresh0.rec = <<>> /\ Fresh0.plain = <<>> /\ ~Fresh0.shut
<1>1. <<>> \in Row /\ FALSE \in BOOLEAN /\ 1 \in 1 .. 6
  BY EmptyRow
<1> QED  BY <1>1 DEF Fresh0

LEMMA PlainShape ==
    ASSUME Shape, Plain
    PROVE  Shape'
<1>0. conf.tls \in BOOLEAN
  BY TlsBoolean
<1>1. CASE /\ at = "up" /\ Answer(Said("ok"))
           /\ UNCHANGED <<conf, sock, wire, got, gave, bufVars, job, todo, want, trouble, streamHist, blame>>
  <2>1. TransportTypeOK'
    BY <1>1, SaidIs DEF Shape, TransportTypeOK, Answer, bufVars
  <2>2. BufTypeOK'
    BY <1>1, RepliesAre DEF Shape, BufTypeOK, Answer, bufVars, streamHist, Replies
  <2>3. PlainOK'
    BY <1>1 DEF Shape, PlainOK, bufVars
  <2>4. Places'
    BY <1>1 DEF Shape, Places, Answer, bufVars
  <2>5. Results'
    BY <1>1 DEF Shape, Results, Places, Answer
  <2> QED  BY <2>1, <2>2, <2>3, <2>4, <2>5 DEF Shape
<1>2. CASE /\ at = "write" /\ sock # "cut"
           /\ \E n \in 0 .. Len(todo) :
                /\ n = 0 <=> todo = <<>>
                /\ got' = got \o SubSeq(todo, 1, n) /\ todo' = SubSeq(todo, n + 1, Len(todo))
                /\ IF n = 0 THEN Answer(Said("ok")) ELSE UNCHANGED <<at, reply>>
           /\ UNCHANGED <<conf, sock, wire, gave, bufVars, job, want, trouble, streamHist, blame>>
  <2>0. job = "send" /\ ~conf.tls
    BY <1>2 DEF Shape, Places
  <2>1. PICK n \in 0 .. Len(todo) :
                /\ n = 0 <=> todo = <<>>
                /\ got' = got \o SubSeq(todo, 1, n) /\ todo' = SubSeq(todo, n + 1, Len(todo))
                /\ IF n = 0 THEN Answer(Said("ok")) ELSE UNCHANGED <<at, reply>>
    BY <1>2
  <2>2. /\ got' \in Row /\ todo' \in Row /\ (n = 0 => todo' = <<>>)
        /\ \/ n = 0 /\ at' = "idle" /\ reply' = Said("ok")
           \/ n # 0 /\ UNCHANGED <<at, reply>>
    BY <2>0, <2>1, WriteIs DEF Answer
  <2>3. TransportTypeOK'
    BY <1>2, <2>2, SaidIs DEF Shape, TransportTypeOK, bufVars
  <2>4. BufTypeOK'
    BY <1>2, <2>2, RepliesAre, RowsAreTexts DEF Shape, BufTypeOK, bufVars, streamHist, Replies
  <2>5. PlainOK'
    BY <1>2, <2>2 DEF Shape, PlainOK, bufVars
  <2>6. Places'
    BY <1>2, <2>2 DEF Shape, Places, bufVars
  <2>7. Results'
    BY <1>2, <2>0, <2>2 DEF Shape, Results
  <2> QED  BY <2>3, <2>4, <2>5, <2>6, <2>7 DEF Shape
<1>3. CASE /\ at = "write" /\ sock = "cut" /\ Fails
           /\ UNCHANGED <<conf, wire, got, gave, bufVars, todo, want, trouble, streamHist, blame>>
  <2>1. /\ sock # "none" /\ job \in {"connect", "send", "recv"} /\ pend = <<>>
        /\ UNCHANGED <<conf, wire, got, gave, in, pend, tls, todo, want, trouble, streamHist>>
        /\ out' \in Texts /\ Len(out') <= Pair /\ (~conf.tls => out' = <<>>) /\ blame' \in BOOLEAN
    BY <1>3 DEF Shape, TransportTypeOK, BufTypeOK, PlainOK, Places, bufVars
  <2> QED  BY <1>3, <2>1, FailsShape
<1>4. CASE /\ at = "gone" /\ Answer(Said("ok")) /\ sock' = "none"
           /\ wire' = <<>> /\ got' = <<>> /\ asked' = <<>> /\ said' = <<>> /\ bye' = FALSE
           /\ heard' = <<>> /\ out' = <<>> /\ in' = <<>> /\ pend' = <<>> /\ tls' = Fresh0
           /\ todo' = <<>>
           /\ UNCHANGED <<conf, gave, job, want, trouble, blame>>
  <2>0. at' = "idle" /\ reply' = Said("ok") /\ job = "close"
    BY <1>4 DEF Answer, Shape, Places
  <2>1. TransportTypeOK'
    BY <1>4, <2>0, SaidIs, EmptyTexts, RoomAssumption, ScriptIs DEF Shape, TransportTypeOK, Fresh0
  <2>2. BufTypeOK'
    BY <1>4, <2>0, RepliesAre, EmptyTexts, FreshTls DEF Shape, BufTypeOK, Replies
  <2>3. PlainOK'
    BY <1>4, EmptyTexts DEF Shape, PlainOK
  <2>4. Places'
    BY <1>4, <2>0 DEF Shape, Places
  <2>5. Results'
    BY <1>4, <2>0 DEF Shape, Results
  <2> QED  BY <2>1, <2>2, <2>3, <2>4, <2>5 DEF Shape
<1> QED  BY <1>1, <1>2, <1>3, <1>4 DEF Plain

\* So does the beginning of every call,
LEMMA ConnectShape ==
    ASSUME Shape, Connect
    PROVE  Shape'
<1>0. /\ at = "idle" /\ at' = (IF conf.tls THEN "op" ELSE "up") /\ job' = "connect" /\ reply' = Pending
      /\ sock = "none" /\ todo = <<>> /\ conf.tls \in BOOLEAN
  BY TlsBoolean DEF Connect, Start, Shape, Results
<1>1. TransportTypeOK'
  BY <1>0, EmptyTexts, RoomAssumption, ScriptIs DEF Shape, TransportTypeOK, Connect, Fresh0
<1>6. /\ wire' = <<>> /\ got' = <<>> /\ gave' = 0 /\ out' = <<>> /\ in' = <<>> /\ pend' = <<>>
      /\ tls' = Fresh0 /\ asked' = <<>> /\ said' = <<>> /\ bye' = FALSE /\ heard' = <<>>
      /\ conf' = conf /\ todo' = todo /\ conf \in Settings /\ todo \in Texts
  BY DEF Connect, Shape, BufTypeOK
<1>2. BufTypeOK'
  <2>1. reply' \in Replies
    BY <1>0, RepliesAre
  <2>2. gave' \in 0 .. 2 /\ bye' \in BOOLEAN /\ conf' \in Settings /\ todo' \in Texts
    <3>1. gave' = 0 /\ bye' = FALSE /\ conf' \in Settings /\ todo' \in Texts
      BY <1>6
    <3>2. 0 \in 0 .. 2
      OBVIOUS
    <3>3. FALSE \in BOOLEAN
      OBVIOUS
    <3>4. gave' \in 0 .. 2
      BY ONLY <3>1, <3>2
    <3>5. bye' \in BOOLEAN
      BY ONLY <3>1, <3>3, Zenon
    <3> QED  BY <3>1, <3>4, <3>5
  <2>3. tls' \in [step : 1 .. 6, rec : Row, plain : Row, shut : BOOLEAN]
    BY <1>6, FreshTls
  <2>4. /\ wire' \in Texts /\ got' \in Texts /\ out' \in Texts /\ in' \in Texts /\ pend' \in Texts
        /\ asked' \in Row /\ said' \in Row /\ heard' \in Row
    BY <1>6, EmptyTexts
  <2> QED  BY <2>1, <2>2, <2>3, <2>4 DEF BufTypeOK, Replies
<1>3. PlainOK'
  BY <1>0, EmptyTexts DEF Shape, PlainOK, Connect
<1>4. Places'
  BY <1>0 DEF Shape, Places, Connect
<1>5. Results'
  BY <1>0 DEF Shape, Results, Connect
<1> QED  BY <1>1, <1>2, <1>3, <1>4, <1>5 DEF Shape

LEMMA ConnectFailsShape ==
    ASSUME Shape, ConnectFails
    PROVE  Shape'
<1>0. /\ at' = "idle" /\ job' = "connect" /\ reply' = Said("error") /\ at = "idle"
      /\ sock = "none" /\ todo = <<>> /\ sock' = "none"
  BY DEF ConnectFails, Answer, Shape, Results
<1>1. TransportTypeOK'
  BY <1>0, SaidIs DEF Shape, TransportTypeOK, ConnectFails, bufVars
<1>2. BufTypeOK'
  BY <1>0, RepliesAre DEF Shape, BufTypeOK, ConnectFails, Replies, bufVars, streamHist
<1>3. PlainOK'
  BY <1>0 DEF Shape, PlainOK, ConnectFails, bufVars
<1>4. Places'
  BY <1>0 DEF Shape, Places, ConnectFails, bufVars
<1>5. Results'
  BY <1>0 DEF Shape, Results, ConnectFails
<1> QED  BY <1>1, <1>2, <1>3, <1>4, <1>5 DEF Shape

LEMMA SendShape ==
    ASSUME TransportInv, NEW d \in Row, Send(d), sock # "none", job \in {"connect", "recv"}
    PROVE  Shape'
<1>0. /\ at = "idle" /\ at' = (IF conf.tls THEN "op" ELSE "write") /\ job' = "send" /\ reply' = Pending
      /\ conf.tls \in BOOLEAN /\ Shape /\ asked \in Row /\ pend = <<>>
      /\ todo' = IF conf.tls THEN Append(d, "mac") ELSE d
  BY TlsBoolean DEF Send, Start, TransportInv, Shape, BufTypeOK, Places
<1>1. conf.tls => tls.step = 6
  BY <1>0, ScriptIs DEF TransportInv, Shape, BufTypeOK, Results, Shaking, TransportTypeOK
<1>2. todo' \in Texts /\ (~conf.tls => todo' \in Row) /\ asked \o d \in Row
  <2>1. d \in Texts /\ "mac" \in Byte \cup Marks
    BY RowsAreTexts DEF Marks
  <2>2. asked \o d \in Row
    BY <1>0, RowFacts
  <2> QED  BY <1>0, <2>1, <2>2 DEF Texts
<1>3. TransportTypeOK'
  BY <1>0, <1>1, ScriptIs DEF Shape, TransportTypeOK, Send, bufVars
<1>4. BufTypeOK'
  BY <1>0, <1>2, RepliesAre DEF Shape, BufTypeOK, Send, Replies, bufVars
<1>5. PlainOK'
  BY <1>0, <1>2 DEF Shape, PlainOK, Send, bufVars
<1>6. Places'
  BY <1>0 DEF Shape, Places, Send, bufVars
<1>7. Results'
  BY <1>0 DEF Shape, Results, Send
<1> QED  BY <1>3, <1>4, <1>5, <1>6, <1>7 DEF Shape

LEMMA RecvShape ==
    ASSUME Shape, Recv, job \in {"send", "recv"}, reply # Said("error")
    PROVE  Shape'
<1>0. /\ at = "idle" /\ at' = (IF conf.tls THEN "op" ELSE "read") /\ job' = "recv" /\ reply' = Pending
      /\ conf.tls \in BOOLEAN /\ sock # "none" /\ todo = <<>> /\ pend = <<>>
  BY TlsBoolean DEF Recv, Start, Shape, Results, Places
<1>1. TransportTypeOK'
  BY <1>0, ScriptIs DEF Shape, TransportTypeOK, Recv, bufVars
<1>2. BufTypeOK'
  BY <1>0, RepliesAre DEF Shape, BufTypeOK, Recv, Replies, bufVars, streamHist
<1>3. PlainOK'
  BY <1>0 DEF Shape, PlainOK, Recv, bufVars
<1>4. Places'
  BY <1>0 DEF Shape, Places, PlainOK, Recv, bufVars
<1>5. Results'
  BY <1>0 DEF Shape, Results, Recv
<1> QED  BY <1>1, <1>2, <1>3, <1>4, <1>5 DEF Shape

LEMMA CloseShape ==
    ASSUME Shape, Close, job \in {"send", "recv"}
    PROVE  Shape'
<1>0. /\ at = "idle" /\ at' = (IF conf.tls THEN "bye" ELSE "gone") /\ job' = "close" /\ reply' = Pending
      /\ conf.tls \in BOOLEAN /\ sock # "none" /\ pend = <<>> /\ out \in Texts /\ Len(out) <= Pair
      /\ out' = IF conf.tls /\ Len(out) < Pair THEN Append(out, "bye") ELSE out
  BY TlsBoolean DEF Close, Start, Shape, Results, Places, BufTypeOK, TransportTypeOK
<1>1. out' \in Texts /\ Len(out') <= Pair /\ (~conf.tls => out' = out)
  <2>1. "bye" \in Byte \cup Marks
    BY DEF Marks
  <2>2. Append(out, "bye") \in Texts /\ Len(Append(out, "bye")) = Len(out) + 1 /\ Len(out) \in Nat
    BY <1>0, <2>1 DEF Texts
  <2>3. Pair \in Nat
    BY RoomAssumption
  <2> DEFINE x == Append(out, "bye")
  <2> HIDE DEF x
  <2>4. /\ out' = IF conf.tls /\ Len(out) < Pair THEN x ELSE out
        /\ x \in Texts /\ Len(x) = Len(out) + 1 /\ Len(out) \in Nat
    BY <1>0, <2>2 DEF x
  <2>5. CASE conf.tls /\ Len(out) < Pair
    <3>1. out' = x
      BY <2>4, <2>5
    <3> QED  BY ONLY <2>3, <2>4, <2>5, <3>1
  <2>6. CASE ~(conf.tls /\ Len(out) < Pair)
    BY <1>0, <2>6
  <2> QED  BY <2>5, <2>6
<1>2. TransportTypeOK'
  BY <1>0, <1>1 DEF Shape, TransportTypeOK, Close
<1>3. BufTypeOK'
  BY <1>0, <1>1, RepliesAre DEF Shape, BufTypeOK, Close, Replies, streamHist
<1>4. PlainOK'
  BY <1>0, <1>1 DEF Shape, PlainOK, Close
<1>5. Places'
  BY <1>0 DEF Shape, Places, Close
<1>6. Results'
  BY <1>0 DEF Shape, Results, Close
<1> QED  BY <1>2, <1>3, <1>4, <1>5, <1>6 DEF Shape

\* A flight of the handshake: no byte of the application's in it.
LEMMA FlightsAre ==
    ASSUME NEW c, NEW n \in {1, 2}
    PROVE  /\ Flights(c)[n] \in Seq({"sh", "cert", "sfin", "ticket"})
           /\ n = 1 => Flights(c)[n] = <<"sh", "cert">>
           /\ n = 2 => Flights(c)[n] \in {<<"sfin", "ticket">>, <<"sfin">>}
<1> DEFINE x == IF 13 \in c.speaks \cap Versions(c) THEN <<"sfin", "ticket">> ELSE <<"sfin">>
<1>1. Flights(c) = <<<<"sh", "cert">>, x>>
  BY DEF Flights
<1>2. x \in {<<"sfin", "ticket">>, <<"sfin">>}
  OBVIOUS
<1> HIDE DEF x
<1>3. Flights(c)[1] = <<"sh", "cert">> /\ Flights(c)[2] = x
  BY ONLY <1>1
<1>4. /\ <<"sh", "cert">> \in Seq({"sh", "cert", "sfin", "ticket"})
      /\ <<"sfin", "ticket">> \in Seq({"sh", "cert", "sfin", "ticket"})
      /\ <<"sfin">> \in Seq({"sh", "cert", "sfin", "ticket"})
  OBVIOUS
<1>5. CASE n = 1
  <2> DEFINE f == Flights(c)[n]
             g == <<"sh", "cert">>
  <2>1. f = g /\ n # 2
    BY <1>3, <1>5
  <2>2. g \in Seq({"sh", "cert", "sfin", "ticket"})
    BY <1>4
  <2>3. n = 1 => f = <<"sh", "cert">>
    BY <2>1
  <2> HIDE DEF f, g
  <2> QED  BY <2>1, <2>2, <2>3 DEF f
<1>6. CASE n = 2
  BY <1>2, <1>3, <1>4, <1>6
<1> QED  BY <1>5, <1>6

LEMMA FlightTexts ==
    ASSUME NEW c, NEW n \in {1, 2}
    PROVE  Flights(c)[n] \in Texts
<1> DEFINE Q == {"sh", "cert", "sfin", "ticket"}
           Z == Byte \cup Marks
           f == Flights(c)[n]
<1>1. f \in Seq(Q)
  BY FlightsAre
<1>2. Q \subseteq Z
  BY DEF Marks, Handshakes
<1> HIDE DEF Q, Z, f
<1>3. f \in Seq(Z)
  BY <1>1, <1>2
<1> QED  BY <1>3 DEF Z, f, Texts

\* Records hold the application's bytes, in order, and each ends in a mac.
LEMMA SealedIs ==
    ASSUME NEW d \in Row, d # <<>>, NEW n \in Nat
    PROVE  \E x \in Row, y \in Row :
              /\ d = x \o y
              /\ \/ Sealed(d, n) = Append(d, "mac") /\ x = d /\ y = <<>>
                 \/ Sealed(d, n) = Append(x, "mac") \o Append(y, "mac")
<1>1. CASE n >= Len(d)
  <2>1. Sealed(d, n) = Append(d, "mac") /\ d \o <<>> = d
    BY <1>1, ConcatEmptySeq DEF Sealed, Row
  <2> QED  BY <2>1, EmptyRow
<1>2. CASE ~(n >= Len(d))
  <2> DEFINE x == SubSeq(d, 1, n)
             y == SubSeq(d, n + 1, Len(d))
  <2>1. n <= Len(d)
    BY <1>2 DEF Row
  <2>2. x \in Row /\ y \in Row /\ x \o y = d
    BY <2>1, CutInTwo DEF Row
  <2>3. Sealed(d, n) = Append(x, "mac") \o Append(y, "mac")
    BY <1>2 DEF Sealed
  <2> QED  BY <2>2, <2>3
<1> QED  BY <1>1, <1>2

LEMMA SealedTexts ==
    ASSUME NEW d \in Row, d # <<>>, NEW n \in Nat
    PROVE  Sealed(d, n) \in Texts
<1>1. PICK x \in Row, y \in Row :
              /\ d = x \o y
              /\ \/ Sealed(d, n) = Append(d, "mac") /\ x = d /\ y = <<>>
                 \/ Sealed(d, n) = Append(x, "mac") \o Append(y, "mac")
  BY SealedIs
<1>2. "mac" \in Byte \cup Marks
  BY DEF Marks
<1>3. \A z \in Row : Append(z, "mac") \in Texts
  BY <1>2, RowsAreTexts DEF Texts
<1> QED  BY <1>1, <1>3, TextsConcat

\* A step of the server's or the network's: more on the wire, or less.
LEMMA WireShape ==
    ASSUME Shape, sock = "up", sock' \in {"up", "cut", "fin"},
           wire' \in Texts, ~conf.tls => wire' \in Row, gave' \in 0 .. 2, said' \in Row, bye' \in BOOLEAN,
           trouble' \in 0 .. Troubles, blame' \in BOOLEAN,
           UNCHANGED <<conf, got, bufVars, at, job, todo, want, reply, asked, heard>>
    PROVE  Shape'
<1>1. TransportTypeOK'
  BY DEF Shape, TransportTypeOK, bufVars
<1>2. BufTypeOK'
  BY DEF Shape, BufTypeOK, bufVars
<1>3. PlainOK'
  BY DEF Shape, PlainOK, bufVars
<1>4. Places'
  BY DEF Shape, Places, bufVars
<1>5. Results'
  BY DEF Shape, Results
<1> QED  BY <1>1, <1>2, <1>3, <1>4, <1>5 DEF Shape

LEMMA ShapeParts ==
    Shape => /\ wire \in Texts /\ (~conf.tls => wire \in Row) /\ gave \in 0 .. 2 /\ said \in Row
             /\ bye \in BOOLEAN /\ trouble \in 0 .. Troubles /\ blame \in BOOLEAN
             /\ conf.tls \in BOOLEAN /\ conf \in Settings
BY TlsBoolean DEF Shape, BufTypeOK, PlainOK, TransportTypeOK

\* and whatever the other end does.
LEMMA GreetShape ==
    ASSUME Shape, Greet
    PROVE  Shape'
<1>1. PICK n \in {1, 2} : gave = n - 1 /\ gave' = n /\ wire' = wire \o Flights(conf)[n]
  BY DEF Greet
<1>2. sock = "up" /\ conf.tls
      /\ UNCHANGED <<conf, sock, got, bufVars, at, job, todo, want, reply, trouble, streamHist, blame>>
  BY DEF Greet
<1>3. wire' \in Texts
  BY <1>1, FlightTexts, ShapeParts, TextsConcat
<1>4. gave' \in 0 .. 2
  BY <1>1
<1> QED  BY <1>2, <1>3, <1>4, ShapeParts, WireShape DEF streamHist

LEMMA SpeakShape ==
    ASSUME Shape, NEW d \in Row, d # <<>>, Speak(d)
    PROVE  Shape'
<1>1. /\ sock = "up" /\ said' = said \o d
      /\ UNCHANGED <<conf, sock, got, gave, bufVars, at, job, todo, want, reply, trouble, asked, bye,
                    heard, blame>>
  BY DEF Speak
<1>2. wire' \in Texts /\ (~conf.tls => wire' \in Row)
  <2>1. CASE conf.tls
    <3>1. PICK n \in conf.records : wire' = wire \o Sealed(d, n)
      BY <2>1 DEF Speak
    <3>2. n \in Nat
      BY <2>1, ShapeParts, SettingsAssumption
    <3> QED  BY <2>1, <3>1, <3>2, SealedTexts, ShapeParts, TextsConcat
  <2>2. CASE ~conf.tls
    <3>1. wire' = wire \o d
      BY <2>2 DEF Speak
    <3>2. wire \o d \in Row
      BY <2>2, ShapeParts, RowFacts
    <3> QED  BY <3>1, <3>2, RowsAreTexts
  <2> QED  BY <2>1, <2>2
<1>3. said' \in Row
  BY <1>1, ShapeParts, RowFacts
<1> QED  BY <1>1, <1>2, <1>3, ShapeParts, WireShape

LEMMA LeaveShape ==
    ASSUME Shape, Leave
    PROVE  Shape'
<1>1. /\ sock = "up" /\ sock' = "fin" /\ bye' = TRUE /\ wire' = IF conf.tls THEN Append(wire, "bye") ELSE wire
      /\ UNCHANGED <<conf, got, gave, bufVars, at, job, todo, want, reply, trouble, asked, said, heard,
                     blame>>
  BY DEF Leave
<1>2. wire' \in Texts /\ (~conf.tls => wire' \in Row)
  <2>1. "bye" \in Byte \cup Marks
    BY DEF Marks
  <2> QED  BY <1>1, <2>1, ShapeParts DEF Texts
<1> QED  BY <1>1, <1>2, ShapeParts, WireShape

LEMMA NetFailsShape ==
    ASSUME Shape, NetFails
    PROVE  Shape'
<1>1. /\ sock = "up" /\ trouble' = trouble + 1 /\ trouble < Troubles /\ blame' = TRUE
      /\ UNCHANGED <<conf, got, gave, bufVars, at, job, todo, want, reply, streamHist>>
      /\ \/ sock' = "cut" /\ wire' = wire
         \/ sock' = "fin" /\ \E n \in 0 .. Len(wire) : wire' = SubSeq(wire, 1, n)
  BY DEF NetFails
<1>2. wire' \in Texts /\ (~conf.tls => wire' \in Row)
  <2>1. CASE wire' = wire
    BY <2>1, ShapeParts
  <2>2. CASE \E n \in 0 .. Len(wire) : wire' = SubSeq(wire, 1, n)
    <3>1. PICK n \in 0 .. Len(wire) : wire' = SubSeq(wire, 1, n)
      BY <2>2
    <3>2. n \in Nat /\ n <= Len(wire)
      BY ShapeParts DEF Texts
    <3>3. wire' \in Texts
      BY <3>1, <3>2, ShapeParts, CutInTwo DEF Texts
    <3>4. ~conf.tls => wire' \in Row
      BY <3>1, <3>2, ShapeParts, CutInTwo DEF Row
    <3> QED  BY <3>3, <3>4
  <2> QED  BY <1>1, <2>1, <2>2
<1>3. trouble' \in 0 .. Troubles
  BY <1>1, ShapeParts, RoomAssumption
<1> QED  BY <1>1, <1>2, <1>3, ShapeParts, WireShape DEF streamHist

-----------------------------------------------------------------------------
(* What the server is sent.                                                *)

\* What is kept for the application are its bytes.
LEMMA AppRow ==
    ASSUME NEW s \in Texts
    PROVE  App(s) \in Row
BY OnlyType DEF Texts, App, Row

\* They may be picked before joining or after.
LEMMA AppConcat ==
    ASSUME NEW s \in Texts, NEW t \in Texts
    PROVE  App(s \o t) = App(s) \o App(t)
BY OnlyConcat DEF Texts, App

LEMMA AppEmpty == App(<<>>) = <<>>
BY OnlyEmpty DEF App

\* Of bytes alone all are kept.
LEMMA AppSame ==
    ASSUME NEW s \in Row
    PROVE  App(s) = s
BY OnlySame DEF App, Row

\* A byte is kept and a mark is not.
LEMMA AppByte ==
    ASSUME NEW u
    PROVE  App(<<u>>) = IF u \in Byte THEN <<u>> ELSE <<>>
BY OnlyOne DEF App

LEMMA MarkNoByte == \A u \in Marks : u \notin Byte
BY MarkAssumption

LEMMA OneText ==
    ASSUME NEW u \in Byte \cup Marks
    PROVE  <<u>> \in Texts /\ (u \in Byte => <<u>> \in Row)
BY DEF Texts, Row

LEMMA AppAppend ==
    ASSUME NEW s \in Texts, NEW u \in Marks
    PROVE  App(Append(s, u)) = App(s)
<1> DEFINE o == <<u>>
           a == App(s)
<1>1. o \in Texts /\ App(o) = <<>>
  BY OneText, AppByte, MarkNoByte
<1>2. Append(s, u) = s \o o
  BY DEF Texts
<1>3. a \in Seq(Byte)
  BY AppRow DEF Row
<1> HIDE DEF o, a
<1>4. App(s \o o) = a \o <<>>
  BY <1>1, AppConcat DEF a
<1>5. a \o <<>> = a
  BY <1>3, ConcatEmptySeq
<1> QED  BY <1>2, <1>4, <1>5 DEF a

\* A record holds what was sealed in it.
LEMMA AppSealed ==
    ASSUME NEW d \in Row, d # <<>>, NEW n \in Nat
    PROVE  App(Sealed(d, n)) = d
<1>1. PICK x \in Row, y \in Row :
              /\ d = x \o y
              /\ \/ Sealed(d, n) = Append(d, "mac") /\ x = d /\ y = <<>>
                 \/ Sealed(d, n) = Append(x, "mac") \o Append(y, "mac")
  BY SealedIs
<1>2. "mac" \in Marks /\ "mac" \in Byte \cup Marks
  BY DEF Marks
<1>3. ASSUME NEW z \in Row PROVE App(Append(z, "mac")) = z /\ Append(z, "mac") \in Texts
  <2>1. z \in Texts /\ App(z) = z
    BY RowsAreTexts, AppSame
  <2>2. App(Append(z, "mac")) = z
    BY <1>2, <2>1, AppAppend
  <2>3. Append(z, "mac") \in Texts
    BY <1>2, <2>1 DEF Texts
  <2> QED  BY <2>2, <2>3
<1>4. CASE Sealed(d, n) = Append(d, "mac")
  BY <1>3, <1>4
<1>5. CASE Sealed(d, n) = Append(x, "mac") \o Append(y, "mac")
  <2> DEFINE p == Append(x, "mac")
             q == Append(y, "mac")
  <2>1. p \in Texts /\ q \in Texts /\ App(p) = x /\ App(q) = y
    BY <1>3
  <2> HIDE DEF p, q
  <2>2. App(p \o q) = x \o y
    BY <2>1, AppConcat
  <2> QED  BY <1>1, <1>5, <2>2 DEF p, q
<1> QED  BY <1>1, <1>4, <1>5

\* A prefix among rows of bytes.
LEMMA PrefixOf ==
    ASSUME NEW s \in Row, NEW t \in Row
    PROVE  IsPrefix(s, t) <=> \E u \in Row : t = s \o u
BY PrefixIs DEF Row

\* Three rows put together either way.
Joins(s, t, u) == (s \o t) \o u = s \o (t \o u)

LEMMA RowAssoc ==
    ASSUME NEW s \in Row, NEW t \in Row, NEW u \in Row
    PROVE  (s \o t) \o u = s \o (t \o u) /\ s \o t \in Row /\ t \o u \in Row
BY ConcatAssociative, ConcatProperties DEF Row

LEMMA RowAssociates ==
    ASSUME NEW s \in Row, NEW t \in Row, NEW u \in Row
    PROVE  (s \o t) \o u = s \o (t \o u)
BY RowAssoc

LEMMA RowJoined ==
    ASSUME NEW s \in Row, NEW t \in Row, NEW u \in Row
    PROVE  Joins(s, t, u)
BY RowAssociates DEF Joins

LEMMA RowEmpty ==
    ASSUME NEW s \in Row
    PROVE  s \o <<>> = s /\ <<>> \o s = s
BY ConcatEmptySeq DEF Row

LEMMA PrefixRefl ==
    ASSUME NEW s \in Row
    PROVE  IsPrefix(s, s)
BY PrefixOf, RowEmpty, EmptyRow

\* A prefix stays one when more is added,
LEMMA PrefixGrow ==
    ASSUME NEW s \in Row, NEW t \in Row, NEW u \in Row, IsPrefix(s, t)
    PROVE  IsPrefix(s, t \o u)
<1>1. PICK e \in Row : t = s \o e
  BY PrefixOf
<1>2. t \o u = s \o (e \o u) /\ e \o u \in Row /\ t \o u \in Row
  <2>1. (s \o e) \o u = s \o (e \o u)
    BY RowAssociates
  <2>2. e \o u \in Row /\ t \o u \in Row
    BY RowFacts
  <2> QED  BY <1>1, <2>1, <2>2
<1> QED  BY <1>2, PrefixOf

\* and when less of it is taken.
LEMMA PrefixCut ==
    ASSUME NEW s \in Row, NEW t \in Row, NEW u \in Row, IsPrefix(s \o t, u)
    PROVE  IsPrefix(s, u)
<1>1. s \o t \in Row
  BY RowAssoc
<1> DEFINE w == s \o t
<1>2. w \in Row /\ IsPrefix(w, u)
  BY <1>1
<1> HIDE DEF w
<1>3. PICK e \in Row : u = w \o e
  BY <1>2, PrefixOf
<1>4. u = s \o (t \o e) /\ t \o e \in Row
  <2>1. (s \o t) \o e = s \o (t \o e)
    BY RowAssociates
  <2>2. t \o e \in Row
    BY RowFacts
  <2> QED  BY <1>3, <2>1, <2>2 DEF w
<1> QED  BY <1>4, PrefixOf

\* The three parts of what send() was given.

\* The types of what is on its way to the server.
LEMMA SentParts ==
    Shape => /\ App(got) \in Row /\ App(out) \in Row /\ App(todo) \in Row /\ asked \in Row
             /\ got \in Texts /\ out \in Texts /\ todo \in Texts
BY AppRow DEF Shape, BufTypeOK

\* What keeps what is on its way keeps that it arrives in order.
LEMMA DeliveredKept ==
    ASSUME Shape, Delivered, sock' # "none" => sock # "none" /\ (sock = "cut" => sock' = "cut"),
           UNCHANGED <<got, asked>>, sock' \notin {"none", "cut"} => UNCHANGED <<out, todo>>
    PROVE  Delivered'
BY DEF Delivered

LEMMA DeliveredQueue ==
    ASSUME Shape, Shape', Delivered, Queue
    PROVE  Delivered'
<1>1. UNCHANGED <<sock, got, asked>> /\ Outgoing # <<>> /\ out' = out \o Outgoing
  BY DEF Queue, streamHist
<1>2. App(out') \o App(todo') = App(out) \o App(todo)
  <2>1. CASE job = "send"
    <3>1. todo # <<>> /\ out' = out \o <<Head(todo)>> /\ todo' = Tail(todo)
      BY <1>1, <2>1, OutgoingIs DEF Queue
    <3> DEFINE u == <<Head(todo)>>
               a == App(out)
               b == App(u)
               t == App(todo')
    <3>2. u \in Texts /\ todo = u \o todo' /\ todo' \in Texts /\ out \in Texts
      BY <3>1, SentParts, HeadFirst, OneText DEF Texts
    <3> HIDE DEF u
    <3>3. a \in Row /\ b \in Row /\ t \in Row /\ App(todo) = b \o t /\ App(out') = a \o b
      BY <3>1, <3>2, AppRow, AppConcat DEF u
    <3> HIDE DEF a, b, t
    <3>4. (a \o b) \o t = a \o (b \o t)
      BY <3>3, RowAssoc
    <3> QED  BY <3>3, <3>4 DEF a, t
  <2>2. CASE job # "send"
    <3>1. todo' = todo /\ \E u \in {"hello", "fin"} : out' = out \o <<u>>
      BY <1>1, <2>2, OutgoingIs DEF Queue
    <3>2. PICK u \in {"hello", "fin"} : out' = out \o <<u>>
      BY <3>1
    <3>3. u \in Marks
      BY DEF Marks, Handshakes
    <3>4. out' = Append(out, u) /\ out \in Texts
      BY <3>2, SentParts DEF Texts
    <3> QED  BY <3>1, <3>3, <3>4, AppAppend
  <2> QED  BY <2>1, <2>2
<1>3. App(got) \o App(out') \o App(todo') = App(got) \o App(out) \o App(todo)
  <2> DEFINE a == App(got)
             b == App(out)
             c == App(todo)
             d == App(out')
             e == App(todo')
  <2>1. a \in Row /\ b \in Row /\ c \in Row /\ d \in Row /\ e \in Row /\ d \o e = b \o c
    BY <1>2, SentParts, AppRow DEF Shape, BufTypeOK
  <2> HIDE DEF a, b, c, d, e
  <2>2. (a \o d) \o e = a \o (d \o e)
    <3>1. a \in Row /\ d \in Row /\ e \in Row
      BY <2>1
    <3>9. Joins(a, d, e)
      BY ONLY <3>1, RowJoined, Zenon
    <3> QED  BY ONLY <3>9 DEF Joins
  <2>3. (a \o b) \o c = a \o (b \o c)
    <3>1. a \in Row /\ b \in Row /\ c \in Row
      BY <2>1
    <3>9. Joins(a, b, c)
      BY ONLY <3>1, RowJoined, Zenon
    <3> QED  BY ONLY <3>9 DEF Joins
  <2> QED  BY <2>1, <2>2, <2>3 DEF a, b, c, d, e
<1> QED  BY <1>1, <1>3 DEF Delivered

LEMMA DeliveredSend ==
    ASSUME Shape, Delivered, NEW d \in Row, Send(d), todo = <<>>
    PROVE  Delivered'
<1>1. UNCHANGED <<sock, got, out>> /\ asked' = asked \o d /\ conf.tls \in BOOLEAN
      /\ todo' = IF conf.tls THEN Append(d, "mac") ELSE d
  BY TlsBoolean DEF Send, bufVars
<1>2. App(todo') = d
  <2>1. App(d) = d /\ d \in Texts /\ "mac" \in Marks
    BY AppSame, RowsAreTexts DEF Marks
  <2> QED  BY <1>1, <2>1, AppAppend
<1> DEFINE a == App(got)
           b == App(out)
<1>3. a \in Row /\ b \in Row /\ asked \in Row /\ a \o b \in Row
  BY SentParts, RowAssoc
<1>4. ASSUME sock # "none" PROVE IsPrefix(a, asked \o d)
  <2>1. IsPrefix(a, asked)
    BY <1>4 DEF Delivered
  <2> HIDE DEF a
  <2> QED  BY <1>3, <2>1, PrefixGrow
<1>5. ASSUME sock # "none", sock # "cut" PROVE (a \o b) \o d = asked \o d
  <2>1. (a \o b) \o <<>> = asked
    BY <1>5, AppEmpty DEF Delivered
  <2> HIDE DEF a, b
  <2>2. a \o b = asked
    BY <1>3, <2>1, RowEmpty
  <2> QED  BY <2>2
<1> QED  BY <1>1, <1>2, <1>4, <1>5 DEF Delivered

LEMMA DeliveredClose ==
    ASSUME Shape, Delivered, Close
    PROVE  Delivered'
<1>1. App(out') = App(out)
  <2>1. "bye" \in Marks /\ out \in Texts /\ (out' = out \/ out' = Append(out, "bye"))
    BY SentParts DEF Marks, Close
  <2> QED  BY <2>1, AppAppend
<1>2. UNCHANGED <<sock, got, todo, asked>>
  BY DEF Close, streamHist
<1> QED  BY <1>1, <1>2 DEF Delivered

\* The parts make up the whole, and some of it moves on.
Adds(g, o, t, a) == App(g) \o App(o) \o App(t) = a
Moves(g, o, t, x, h, p, u) == h = g \o x /\ o \o t = x \o (p \o u)

\* Moving bytes from one part of the way to the next keeps what all of them are.
LEMMA Through ==
    ASSUME NEW g \in Texts, NEW o \in Texts, NEW t \in Texts, NEW a \in Row,
           Adds(g, o, t, a),
           NEW x \in Texts, NEW h \in Texts, NEW p \in Texts, NEW u \in Texts,
           Moves(g, o, t, x, h, p, u)
    PROVE  /\ Adds(h, p, u, a) /\ IsPrefix(App(h), a)
           /\ App(h) = App(g) \o App(x)
<1> DEFINE G == App(g)
           O == App(o)
           T == App(t)
           X == App(x)
           P == App(p)
           U == App(u)
<1>1. G \in Row /\ O \in Row /\ T \in Row /\ X \in Row /\ P \in Row /\ U \in Row
  BY AppRow
<1>0. h = g \o x /\ o \o t = x \o (p \o u)
  BY DEF Moves
<1>2. App(h) = G \o X
  BY <1>0, AppConcat
<1>3. O \o T = X \o (P \o U)
  <2>1. App(o \o t) = O \o T
    BY AppConcat
  <2>2. p \o u \in Texts /\ App(p \o u) = P \o U
    BY AppConcat, TextsConcat
  <2> DEFINE v == p \o u
  <2>3. v \in Texts /\ App(v) = P \o U /\ o \o t = x \o v
    BY <1>0, <2>2
  <2> HIDE DEF v
  <2>4. App(x \o v) = X \o App(v)
    BY <2>3, AppConcat
  <2> QED  BY <2>1, <2>3, <2>4
<1>4. (G \o O) \o T = a
  BY DEF Adds
<1> HIDE DEF G, O, T, X, P, U
<1>5. G \o X \in Row /\ P \o U \in Row
  BY ONLY <1>1, RowFacts
<1>6. a = (G \o X) \o (P \o U)
  <2>1. (G \o O) \o T = G \o (O \o T)
    <3>1. G \in Row /\ O \in Row /\ T \in Row
      BY <1>1
    <3>9. Joins(G, O, T)
      BY ONLY <3>1, RowJoined, Zenon
    <3> QED  BY ONLY <3>9 DEF Joins
  <2> DEFINE v == P \o U
  <2>2. v \in Row
    BY <1>5
  <2> HIDE DEF v
  <2>3. (G \o X) \o v = G \o (X \o v)
    <3>1. G \in Row /\ X \in Row /\ v \in Row
      BY <1>1, <2>2
    <3>9. Joins(G, X, v)
      BY ONLY <3>1, RowJoined, Zenon
    <3> QED  BY ONLY <3>9 DEF Joins
  <2>4. a = G \o (O \o T) /\ O \o T = X \o v
    BY <1>3, <1>4, <2>1 DEF v
  <2> QED  BY <2>3, <2>4 DEF v
<1>8. ((G \o X) \o P) \o U = a
  <2> DEFINE w == G \o X
  <2>1. w \in Row
    BY <1>5
  <2> HIDE DEF w
  <2>2. (w \o P) \o U = w \o (P \o U)
    <3>1. w \in Row /\ P \in Row /\ U \in Row
      BY <1>1, <2>1
    <3>9. Joins(w, P, U)
      BY ONLY <3>1, RowJoined, Zenon
    <3> QED  BY ONLY <3>9 DEF Joins
  <2> QED  BY <1>6, <2>2 DEF w
<1>9. IsPrefix(G \o X, a)
  <2> DEFINE y == G \o X
             z == P \o U
  <2> HIDE DEF y, z
  <2>1. y \in Row /\ z \in Row /\ a = y \o z
    BY <1>5, <1>6 DEF y, z
  <2>2. IsPrefix(y, a)
    BY <2>1, PrefixOf
  <2> QED  BY <2>2 DEF y
<1>10. (App(h) \o P) \o U = a /\ IsPrefix(App(h), a) /\ App(h) = G \o X
  BY <1>2, <1>8, <1>9
<1> QED  BY <1>10 DEF Adds, G, P, U, X

LEMMA DeliveredFlush ==
    ASSUME Shape, Shape', Delivered, FlushOut
    PROVE  Delivered'
<1>1. UNCHANGED <<sock, todo, asked>>
  BY DEF FlushOut, streamHist
<1>2. CASE out = <<>>
  <2>1. UNCHANGED <<out, got>>
    BY <1>2 DEF FlushOut
  <2> QED  BY <1>1, <2>1 DEF Delivered
<1>3. CASE out # <<>>
  <2>1. sock # "cut"
    BY <1>3, FlushIs
  <2>2. PICK x \in Texts : got' = got \o x /\ out = x \o out' /\ out' \in Texts /\ got' \in Texts
    BY <1>3, FlushIs
  <2>3. ASSUME sock # "none"
        PROVE  App(got') \o App(out') \o App(todo) = asked /\ IsPrefix(App(got'), asked)
    <3>1. App(got) \o App(out) \o App(todo) = asked
      BY <2>1, <2>3 DEF Delivered
    <3>2. out \o todo = x \o (out' \o todo)
      BY <2>2, SentParts, ConcatAssociative DEF Texts
    <3>4. Adds(got, out, todo, asked) /\ Moves(got, out, todo, x, got', out', todo)
      BY <2>2, <3>1, <3>2 DEF Adds, Moves
    <3>3. /\ got \in Texts /\ out \in Texts /\ todo \in Texts /\ asked \in Row
          /\ x \in Texts /\ got' \in Texts /\ out' \in Texts /\ got' = got \o x
      BY <2>2, SentParts
    <3>5. Adds(got', out', todo, asked) /\ IsPrefix(App(got'), asked)
      BY ONLY <3>3, <3>4, Through
    <3> QED  BY <3>5 DEF Adds
  <2> QED  BY <1>1, <2>1, <2>3 DEF Delivered
<1> QED  BY <1>2, <1>3

LEMMA DeliveredWrite ==
    ASSUME Shape, Shape', Delivered, NEW n \in 0 .. Len(todo), n = 0 <=> todo = <<>>, ~conf.tls,
           got' = got \o SubSeq(todo, 1, n), todo' = SubSeq(todo, n + 1, Len(todo)),
           sock # "cut", UNCHANGED <<sock, out, asked>>
    PROVE  Delivered'
<1>1. PICK x \in Row : got' = got \o x /\ todo = x \o todo'
  BY WriteIs
<1>2. ASSUME sock # "none"
      PROVE  App(got') \o App(out) \o App(todo') = asked /\ IsPrefix(App(got'), asked)
  <2>1. App(got) \o App(out) \o App(todo) = asked
    BY <1>2 DEF Delivered
  <2>2. out = <<>> /\ x \in Texts /\ got' \in Texts /\ todo' \in Texts
    BY RowsAreTexts DEF Shape, PlainOK, BufTypeOK
  <2>3. out \o todo = x \o (out \o todo')
    BY <1>1, <2>2, SentParts, ConcatEmptySeq DEF Texts
  <2>5. Adds(got, out, todo, asked) /\ Moves(got, out, todo, x, got', out, todo')
    BY <1>1, <2>1, <2>3 DEF Adds, Moves
  <2>4. /\ got \in Texts /\ out \in Texts /\ todo \in Texts /\ asked \in Row
        /\ x \in Texts /\ got' \in Texts /\ todo' \in Texts /\ got' = got \o x
    BY <1>1, <2>2, SentParts
  <2>6. Adds(got', out, todo', asked) /\ IsPrefix(App(got'), asked)
    BY ONLY <2>4, <2>5, Through
  <2> QED  BY <2>6 DEF Adds
<1> QED  BY <1>2 DEF Delivered

-----------------------------------------------------------------------------
(* What the server has said.                                               *)

Inside(i, p, w) == i \o p \o w
ComesFrom(b, r, i, p, w) == b \o r \o App(Inside(i, p, w))

\* What is coming, as a function of the parts of the way.
LEMMA ComingIs ==
    /\ Coming = ComesFrom(tls.plain, tls.rec, in, pend, wire) /\ Inward = Inside(in, pend, wire)
    /\ Coming' = ComesFrom(tls'.plain, tls'.rec, in', pend', wire') /\ Inward' = Inside(in', pend', wire')
BY DEF Coming, ComesFrom, Inward, Inside

LEMMA TextAssoc ==
    ASSUME NEW s \in Texts, NEW t \in Texts, NEW u \in Texts
    PROVE  (s \o t) \o u = s \o (t \o u) /\ s \o t \in Texts /\ t \o u \in Texts
BY ConcatAssociative, ConcatProperties DEF Texts

LEMMA TextAssociates ==
    ASSUME NEW s \in Texts, NEW t \in Texts, NEW u \in Texts
    PROVE  (s \o t) \o u = s \o (t \o u)
BY TextAssoc

LEMMA TextJoined ==
    ASSUME NEW s \in Texts, NEW t \in Texts, NEW u \in Texts
    PROVE  Joins(s, t, u)
BY TextAssociates DEF Joins

LEMMA TextEmpty ==
    ASSUME NEW s \in Texts
    PROVE  s \o <<>> = s /\ <<>> \o s = s
BY ConcatEmptySeq DEF Texts

LEMMA InsideIs ==
    ASSUME NEW i \in Texts, NEW p \in Texts, NEW w \in Texts
    PROVE  /\ Inside(i, p, w) \in Texts
           /\ Inside(i, p, w) = i \o (p \o w)
           /\ Inside(i \o p, <<>>, w) = Inside(i, p, w)
<1> DEFINE x == i \o p
<1>1. x \in Texts
  BY TextAssoc
<1>2. x \o w = i \o (p \o w) /\ x \o w \in Texts
  <2>1. (i \o p) \o w = i \o (p \o w)
    BY TextAssoc
  <2> HIDE DEF x
  <2>2. x \o w \in Texts
    BY <1>1, TextAssoc
  <2> QED  BY <2>1, <2>2 DEF x
<1> HIDE DEF x
<1>3. x \o <<>> = x
  BY <1>1, TextEmpty
<1>4. (x \o <<>>) \o w = x \o w
  BY <1>3
<1> QED  BY <1>2, <1>4 DEF x, Inside

\* What is added at the far end is added to what is coming.
LEMMA AppMore ==
    ASSUME NEW h \in Row, NEW x \in Texts, NEW z \in Texts
    PROVE  h \o App(x \o z) = (h \o App(x)) \o App(z)
<1> DEFINE a == App(x)
           y == App(z)
<1>1. a \in Row /\ y \in Row
  BY AppRow
<1>2. App(x \o z) = a \o y
  BY AppConcat
<1> HIDE DEF a, y
<1>3. (h \o a) \o y = h \o (a \o y)
  BY <1>1, RowAssoc
<1> QED  BY <1>2, <1>3 DEF a, y

LEMMA ComesRow ==
    ASSUME NEW b \in Row, NEW r \in Row,
           NEW i \in Texts, NEW p \in Texts, NEW w \in Texts
    PROVE  ComesFrom(b, r, i, p, w) \in Row
<1> DEFINE h == b \o r
           a == App(Inside(i, p, w))
<1>1. h \in Row /\ a \in Row
  BY RowAssoc, InsideIs, AppRow
<1>2. ComesFrom(b, r, i, p, w) = h \o a
  BY DEF ComesFrom
<1> HIDE DEF h, a
<1> QED  BY <1>1, <1>2, RowAssoc

\* The types of what is on its way to the client.
LEMMA ComingParts ==
    Shape => /\ tls.plain \in Row /\ tls.rec \in Row /\ heard \in Row /\ said \in Row /\ bye \in BOOLEAN
             /\ in \in Texts /\ pend \in Texts /\ wire \in Texts /\ Inward \in Texts
             /\ Coming \in Row /\ heard \o Coming \in Row
<1> SUFFICES ASSUME Shape
             PROVE  /\ tls.plain \in Row /\ tls.rec \in Row /\ heard \in Row /\ said \in Row /\ bye \in BOOLEAN
                    /\ in \in Texts /\ pend \in Texts /\ wire \in Texts /\ Inward \in Texts
                    /\ Coming \in Row /\ heard \o Coming \in Row
  OBVIOUS
<1>1. /\ tls.plain \in Row /\ tls.rec \in Row /\ heard \in Row /\ said \in Row /\ bye \in BOOLEAN
      /\ in \in Texts /\ pend \in Texts /\ wire \in Texts
  BY DEF Shape, BufTypeOK
<1>2. Inward \in Texts /\ Coming \in Row
  BY <1>1, ComingIs, ComesRow, InsideIs
<1>3. heard \o Coming \in Row
  BY <1>1, <1>2, RowAssoc
<1> QED  BY <1>1, <1>2, <1>3

\* What keeps what has been handed out and is coming keeps that nothing is lost.
LEMMA ReceivedSame ==
    ASSUME Received, heard' \o Coming' = heard \o Coming, UNCHANGED <<said, bye>>,
           sock' # "none" => sock # "none",
           sock' # "none" => sock' = sock \/ (sock = "up" /\ sock' # "up")
    PROVE  Received'
BY DEF Received

LEMMA ReceivedKept ==
    ASSUME Received, UNCHANGED <<heard, tls, in, pend, wire, said, bye>>,
           sock' # "none" => sock' = sock \/ (sock = "up" /\ sock' # "up")
    PROVE  Received'
<1>1. Coming' = Coming
  BY DEF Coming, Inward
<1>2. sock' # "none" => sock # "none"
  OBVIOUS
<1> QED  BY <1>1, <1>2, ReceivedSame

LEMMA ReceivedTake ==
    ASSUME TransportInv, Take
    PROVE  Received'
<1> DEFINE u == Head(in)
           o == <<u>>
           r == tls.rec
           x == Inside(in', pend, wire)
           a == App(x)
<1>1. /\ UNCHANGED <<sock, wire, pend, heard, said, bye>> /\ Shape /\ Received
  BY DEF Take, TransportInv, streamHist
<1>2. in' \in Texts /\ u \in Byte \cup Marks /\ in = o \o in' /\ pend \in Texts /\ wire \in Texts
      /\ r \in Row /\ tls.plain \in Row
  BY <1>1, TakeIs, ComingParts
<1>3. o \in Texts /\ App(o) = (IF u \in Byte THEN o ELSE <<>>) /\ (u \in Byte => o \in Row)
  BY <1>2, OneText, AppByte
<1>4. x \in Texts /\ a \in Row
  BY <1>2, InsideIs, AppRow
<1>5. Inward = o \o x
  <2>1. Inward = (o \o in') \o (pend \o wire) /\ x = in' \o (pend \o wire)
    <3>1. Inward = in \o (pend \o wire)
      BY <1>1, ComingParts, ComingIs, InsideIs
    <3>2. x = in' \o (pend \o wire)
      BY <1>2, InsideIs
    <3> HIDE DEF o, x
    <3> QED  BY <1>2, <3>1, <3>2
  <2> DEFINE k == pend \o wire
  <2>2. k \in Texts
    BY <1>2, TextAssoc
  <2> HIDE DEF k, o, x
  <2>3. (o \o in') \o k = o \o (in' \o k)
    <3>1. Joins(o, in', k)
      BY ONLY <1>2, <1>3, <2>2, TextJoined, Zenon
    <3> QED  BY ONLY <3>1 DEF Joins
  <2> QED  BY <2>1, <2>3 DEF k
<1>6. App(Inward) = App(o) \o a
  <2> HIDE DEF o, x
  <2> QED  BY <1>3, <1>4, <1>5, AppConcat
<1>7. Coming = (tls.plain \o r) \o (App(o) \o a)
  BY <1>6 DEF Coming
<1>8. Coming' = (tls'.plain \o tls'.rec) \o a
  BY <1>1, ComingIs DEF ComesFrom
<1> HIDE DEF o, u, x, a, r
<1>9. <<>> \o a = a
  BY <1>4, RowEmpty
<1>10. CASE u \notin Byte /\ tls'.plain = tls.plain /\ tls'.rec = r
  <2>1. Coming = (tls.plain \o r) \o a
    BY <1>3, <1>7, <1>9, <1>10
  <2>2. Coming' = Coming
    BY <1>8, <1>10, <2>1
  <2> QED  BY <1>1, <2>2, ReceivedSame
<1>11. CASE u \notin Byte /\ tls.plain = <<>> /\ tls'.plain = r /\ tls'.rec = <<>>
  <2>1. Coming = (<<>> \o r) \o a
    BY <1>3, <1>7, <1>9, <1>11
  <2>2. Coming' = (r \o <<>>) \o a
    BY <1>8, <1>11
  <2>3. <<>> \o r = r /\ r \o <<>> = r
    BY <1>2, RowEmpty
  <2> QED  BY <1>1, <2>1, <2>2, <2>3, ReceivedSame
<1>12. CASE u \in Byte /\ tls'.plain = tls.plain /\ tls'.rec = Append(r, u)
  <2> DEFINE p == tls.plain
  <2>1. tls'.rec = r \o o
    <3>1. r \in Seq(Byte)
      BY <1>2 DEF Row
    <3>2. Append(r, u) = r \o <<u>>
      BY ONLY <3>1
    <3> QED  BY <1>12, <3>2 DEF o
  <2>2. o \in Row /\ p \in Row /\ r \in Row /\ a \in Row /\ p \o r \in Row /\ p \o (r \o o) = (p \o r) \o o
    BY <1>2, <1>3, <1>4, <1>12, RowAssoc
  <2> DEFINE m == p \o r
  <2>3. Coming = m \o (o \o a)
    BY <1>3, <1>7, <1>12
  <2>4. Coming' = (m \o o) \o a
    BY <1>8, <1>12, <2>1, <2>2
  <2>5. m \in Row
    BY <2>2
  <2> HIDE DEF m
  <2>6. (m \o o) \o a = m \o (o \o a)
    BY <2>2, <2>5, RowAssoc
  <2> QED  BY <1>1, <2>3, <2>4, <2>6, ReceivedSame
<1>13. tls \in [step : 1 .. 6, rec : Row, plain : Row, shut : BOOLEAN]
  BY <1>1 DEF Shape, BufTypeOK
<1>14. \A s \in {"sh", "cert", "sfin", "mac", "bye", "ticket"} : s \notin Byte
  BY MarkNoByte DEF Marks, Handshakes
<1>15. \/ u \notin Byte /\ tls'.plain = tls.plain /\ tls'.rec = r
       \/ u \notin Byte /\ tls.plain = <<>> /\ tls'.plain = r /\ tls'.rec = <<>>
       \/ u \in Byte /\ tls'.plain = tls.plain /\ tls'.rec = Append(r, u)
  <2>1. \/ /\ tls.plain = <<>>
           /\ \/ u = "mac" /\ tls' = [tls EXCEPT !.plain = r, !.rec = <<>>]
              \/ u = "bye" /\ tls' = [tls EXCEPT !.shut = TRUE]
              \/ u = "ticket" /\ tls' = tls
              \/ u \in Byte /\ tls' = [tls EXCEPT !.rec = Append(r, u)]
        \/ tls' = [tls EXCEPT !.step = tls.step + 1] /\ u \in {"sh", "cert", "sfin"}
    BY TakeIs DEF u, r
  <2>2. CASE tls.plain = <<>> /\ u = "mac" /\ tls' = [tls EXCEPT !.plain = r, !.rec = <<>>]
    BY <1>13, <1>14, <2>2
  <2>3. CASE u = "bye" /\ tls' = [tls EXCEPT !.shut = TRUE]
    BY <1>13, <1>14, <2>3 DEF r
  <2>4. CASE u = "ticket" /\ tls' = tls
    BY <1>14, <2>4 DEF r
  <2>5. CASE u \in Byte /\ tls' = [tls EXCEPT !.rec = Append(r, u)]
    BY <1>13, <2>5
  <2>6. CASE tls' = [tls EXCEPT !.step = tls.step + 1] /\ u \in {"sh", "cert", "sfin"}
    BY <1>13, <1>14, <2>6 DEF r
  <2> QED  BY <2>1, <2>2, <2>3, <2>4, <2>5, <2>6
<1> QED  BY <1>10, <1>11, <1>12, <1>15

\* What the server says is added to what is coming;
LEMMA ComingGrows ==
    ASSUME Shape, NEW z \in Texts, wire' = wire \o z, UNCHANGED <<tls, in, pend>>
    PROVE  Coming' = Coming \o App(z) /\ Inward' = Inward \o z
<1> DEFINE h == tls.plain \o tls.rec
           x == Inward
<1>1. in \in Texts /\ pend \in Texts /\ wire \in Texts /\ x \in Texts /\ h \in Row
  BY ComingParts, RowAssoc
<1> DEFINE y == in \o pend
<1>6. y \in Texts
  BY <1>1, TextAssoc
<1>2. Inside(in, pend, wire \o z) = Inside(in, pend, wire) \o z
  <2> HIDE DEF y
  <2>1. y \o (wire \o z) = (y \o wire) \o z
    <3>1. Joins(y, wire, z)
      BY ONLY <1>1, <1>6, z \in Texts, TextJoined, Zenon
    <3> QED  BY ONLY <3>1 DEF Joins
  <2> QED  BY <2>1 DEF y, Inside
<1> HIDE DEF y
<1>3. Inward' = x \o z
  BY <1>2, ComingIs
<1>4. Coming' = h \o App(x \o z) /\ Coming = h \o App(x)
  BY <1>3 DEF Coming
<1> HIDE DEF h, x
<1>5. h \o App(x \o z) = (h \o App(x)) \o App(z)
  BY <1>1, AppMore
<1> QED  BY <1>3, <1>4, <1>5 DEF x

\* what is lost is lost at its end.
LEMMA ComingShrinks ==
    ASSUME Shape, NEW z \in Texts, wire = wire' \o z, wire' \in Texts, UNCHANGED <<tls, in, pend>>
    PROVE  Coming = Coming' \o App(z) /\ Inward = Inward' \o z
<1> DEFINE h == tls.plain \o tls.rec
           x == Inward'
           w == wire'
<1>1. in \in Texts /\ pend \in Texts /\ w \in Texts /\ h \in Row /\ wire = w \o z
  BY ComingParts, RowAssoc
<1>2. x = Inside(in, pend, w)
  BY ComingIs
<1>6. Coming' = h \o App(x)
  BY DEF Coming
<1> HIDE DEF w, x
<1> DEFINE y == in \o pend
<1>8. y \in Texts
  BY <1>1, TextAssoc
<1>9. x \in Texts
  BY <1>1, <1>2, InsideIs
<1>3. Inside(in, pend, w \o z) = x \o z
  <2> HIDE DEF y
  <2>1. y \o (w \o z) = (y \o w) \o z
    <3>1. Joins(y, w, z)
      BY ONLY <1>1, <1>8, z \in Texts, TextJoined, Zenon
    <3> QED  BY ONLY <3>1 DEF Joins
  <2> QED  BY <1>2, <2>1 DEF y, Inside
<1> HIDE DEF y
<1>4. Inward = x \o z
  BY <1>1, <1>3, ComingIs
<1>7. Coming = h \o App(x \o z)
  BY <1>4 DEF Coming
<1> HIDE DEF h
<1>5. h \o App(x \o z) = (h \o App(x)) \o App(z)
  BY <1>1, <1>9, AppMore
<1> QED  BY <1>4, <1>5, <1>6, <1>7 DEF x

\* recv() hands out the first bytes of what the library has opened.
LEMMA DoneIs ==
    ASSUME Shape, Done, job = "recv"
    PROVE  \E x \in Row, y \in Row :
              /\ tls.plain = x \o y /\ tls' = [tls EXCEPT !.plain = y] /\ heard' = heard \o x
              /\ at' = "idle" /\ reply' = Data(x)
              /\ tls.plain # <<>> => x # <<>>
<1> DEFINE n == IF BufLen < Len(tls.plain) THEN BufLen ELSE Len(tls.plain)
           x == SubSeq(tls.plain, 1, n)
           y == SubSeq(tls.plain, n + 1, Len(tls.plain))
<1>1. n \in Nat /\ n <= Len(tls.plain) /\ tls.plain \in Row /\ (Len(tls.plain) # 0 => n # 0) /\ Len(tls.plain) \in Nat
  BY RoomAssumption DEF Row, Shape, BufTypeOK
<1>2. at' = "idle" /\ reply' = Data(x) /\ heard' = heard \o x /\ tls' = [tls EXCEPT !.plain = y]
  BY DEF Done, Answer
<1> HIDE DEF n
<1>3. x \in Row /\ y \in Row /\ tls.plain = x \o y /\ Len(x) = n
  BY <1>1, CutInTwo DEF Row
<1> HIDE DEF x, y
<1>4. tls.plain # <<>> => x # <<>>
  <2>1. tls.plain # <<>> => Len(tls.plain) # 0
    BY <1>1 DEF Row
  <2> QED  BY <1>1, <1>3, <2>1, EmptyRow
<1> QED  BY <1>2, <1>3, <1>4

LEMMA ReceivedDone ==
    ASSUME Shape, Received, Done
    PROVE  Received'
<1>1. UNCHANGED <<sock, wire, in, pend, said, bye>>
  BY DEF Done
<1>2. CASE job # "recv"
  <2>1. job \in {"connect", "send"} /\ UNCHANGED <<tls, heard>>
    BY <1>2 DEF Done, Shape, Places
  <2> QED  BY <1>1, <2>1, ReceivedKept
<1>3. CASE job = "recv"
  <2>1. PICK x \in Row, y \in Row :
           tls.plain = x \o y /\ tls' = [tls EXCEPT !.plain = y] /\ heard' = heard \o x
    BY <1>3, DoneIs
  <2> DEFINE a == App(Inward)
             r == tls.rec
             h == heard
  <2>2. a \in Row /\ r \in Row /\ h \in Row
    BY ComingParts, AppRow
  <2>3. tls'.plain = y /\ tls'.rec = r
    BY <2>1 DEF Shape, BufTypeOK
  <2>4. Coming = ((x \o y) \o r) \o a /\ Coming' = (y \o r) \o a
    BY <1>1, <2>1, <2>3 DEF Coming, Inward
  <2> HIDE DEF a, r, h
  <2>5. ((x \o y) \o r) \o a = x \o ((y \o r) \o a) /\ (y \o r) \o a \in Row
    <3>1. (x \o y) \o r = x \o (y \o r) /\ y \o r \in Row
      BY <2>2, RowAssoc
    <3> DEFINE m == y \o r
    <3>2. m \in Row
      BY <3>1
    <3> HIDE DEF m
    <3>3. (x \o m) \o a = x \o (m \o a) /\ m \o a \in Row
      <4>1. x \in Row /\ m \in Row /\ a \in Row
        BY <2>2, <3>2
      <4>2. (x \o m) \o a = x \o (m \o a)
        <5>1. Joins(x, m, a)
          BY ONLY <4>1, RowJoined, Zenon
        <5> QED  BY ONLY <5>1 DEF Joins
      <4>3. m \o a \in Row
        BY ONLY <4>1, RowFacts
      <4> QED  BY ONLY <4>2, <4>3
    <3> QED  BY <3>1, <3>3 DEF m
  <2> DEFINE c == Coming'
  <2>6. c \in Row /\ Coming = x \o c
    BY <2>4, <2>5
  <2> HIDE DEF c
  <2>7. (h \o x) \o c = h \o (x \o c)
    <3>1. Joins(h, x, c)
      BY ONLY <2>2, <2>6, RowJoined, Zenon
    <3> QED  BY ONLY <3>1 DEF Joins
  <2>8. heard' \o Coming' = heard \o Coming
    BY <2>1, <2>6, <2>7 DEF h, c
  <2> QED  BY <1>1, <2>8, ReceivedSame
<1> QED  BY <1>2, <1>3

LEMMA ReceivedFill ==
    ASSUME Shape, Received, Fill
    PROVE  Received' /\ Inward' = Inward
<1>1. UNCHANGED <<sock, wire, tls, heard, said, bye>> /\ in' = in \o pend /\ pend' = <<>>
  BY FillIs DEF Fill, streamHist
<1>2. Inward' = Inward
  BY <1>1, ComingParts, ComingIs, InsideIs
<1>3. Coming' = Coming
  BY <1>1, <1>2 DEF Coming
<1> QED  BY <1>1, <1>2, <1>3, ReceivedSame

LEMMA ReceivedRead ==
    ASSUME Shape, Received, Read
    PROVE  Received' /\ (conf.tls => Inward' = Inward)
<1>1. UNCHANGED <<conf, sock, in, tls, said, bye>> /\ conf.tls \in BOOLEAN /\ pend = <<>>
      /\ (~conf.tls => in = <<>> /\ tls = Fresh0 /\ wire \in Row)
  BY TlsBoolean DEF Read, Shape, Places, PlainOK
<1>2. PICK x \in Texts :
          /\ x # <<>> /\ wire = x \o wire' /\ wire' \in Texts
          /\ IF conf.tls
             THEN pend' = x /\ Len(x) <= Chunk /\ want' = FALSE /\ at' = "fill" /\ UNCHANGED <<heard, reply>>
             ELSE /\ x \in Row /\ wire' \in Row /\ at' = "idle" /\ reply' = Data(x)
                  /\ heard' = heard \o x /\ UNCHANGED <<pend, want>>
  BY ReadIs
<1>3. CASE conf.tls
  <2>1. pend' = x /\ heard' = heard
    BY <1>2, <1>3
  <2>2. Inward = in \o (<<>> \o wire) /\ Inward' = in \o (x \o wire')
    <3>1. in \in Texts /\ wire \in Texts /\ <<>> \in Texts
      BY ComingParts, EmptyTexts
    <3>2. Inside(in, <<>>, wire) = in \o (<<>> \o wire)
      BY ONLY <3>1, InsideIs
    <3>3. Inside(in, x, wire') = in \o (x \o wire')
      <4>1. in \in Texts /\ x \in Texts /\ wire' \in Texts
        BY <1>2, <3>1
      <4> QED  BY ONLY <4>1, InsideIs
    <3> QED  BY <1>1, <2>1, <3>2, <3>3, ComingIs
  <2>3. <<>> \o wire = wire
    BY ComingParts, TextEmpty
  <2>4. Inward' = Inward
    BY <1>2, <2>2, <2>3
  <2>5. Coming' = Coming
    BY <1>1, <2>4 DEF Coming
  <2> QED  BY <1>1, <2>1, <2>4, <2>5, ReceivedSame
<1>4. CASE ~conf.tls
  <2>1. x \in Row /\ wire' \in Row /\ heard' = heard \o x /\ pend' = pend
    BY <1>2, <1>4
  <2>2. ASSUME NEW w \in Row PROVE ComesFrom(<<>>, <<>>, <<>>, <<>>, w) = w
    <3>1. Inside(<<>>, <<>>, w) = w
      BY RowEmpty, ConcatEmptySeq DEF Inside, Row
    <3>2. App(w) = w
      BY AppSame
    <3>3. ComesFrom(<<>>, <<>>, <<>>, <<>>, w) = (<<>> \o <<>>) \o w
      BY <3>1, <3>2, FreshTls DEF ComesFrom
    <3>4. (<<>> \o <<>>) \o w = w
      BY RowEmpty, EmptyRow
    <3> QED  BY <3>3, <3>4
  <2>3. Coming = wire /\ Coming' = wire'
    BY <1>1, <1>4, <2>1, <2>2, ComingIs, FreshTls
  <2> DEFINE h == heard
             v == wire'
  <2>4. h \in Row /\ v \in Row
    BY <2>1, ComingParts
  <2> HIDE DEF h, v
  <2>5. (h \o x) \o v = h \o (x \o v)
    BY <2>1, <2>4, RowAssoc
  <2>6. heard' \o Coming' = heard \o Coming
    BY <1>2, <2>1, <2>3, <2>5 DEF h, v
  <2> QED  BY <1>1, <1>4, <2>6, ReceivedSame
<1> QED  BY <1>1, <1>3, <1>4

LEMMA ReceivedGreet ==
    ASSUME Shape, Received, Greet
    PROVE  Received'
<1>1. PICK n \in {1, 2} : wire' = wire \o Flights(conf)[n]
  BY DEF Greet
<1>2. UNCHANGED <<sock, tls, in, pend, heard, said, bye>>
  BY DEF Greet, bufVars, streamHist
<1> DEFINE f == Flights(conf)[n]
           Q == {"sh", "cert", "sfin", "ticket"}
<1>3. f \in Texts
  BY FlightTexts
<1>4. App(f) = <<>>
  <2>1. f \in Seq(Q)
    BY FlightsAre
  <2>2. Q \cap Byte = {}
    BY MarkNoByte DEF Marks, Handshakes
  <2> HIDE DEF f, Q
  <2> QED  BY <2>1, <2>2, OnlyNone DEF App
<1> HIDE DEF f
<1>5. Coming' = Coming \o <<>>
  BY <1>1, <1>2, <1>3, <1>4, ComingGrows DEF f
<1>6. Coming' = Coming
  BY <1>5, ComingParts, RowEmpty
<1> QED  BY <1>2, <1>6, ReceivedSame

LEMMA ReceivedSpeak ==
    ASSUME Shape, Received, NEW d \in Row, d # <<>>, Speak(d)
    PROVE  Received'
<1>1. /\ sock = "up" /\ said' = said \o d /\ UNCHANGED <<sock, tls, in, pend, heard, bye>>
  BY DEF Speak, bufVars
<1>2. \E z \in Texts : wire' = wire \o z /\ App(z) = d
  <2>1. CASE conf.tls
    <3>1. PICK n \in conf.records : wire' = wire \o Sealed(d, n)
      BY <2>1 DEF Speak
    <3>2. n \in Nat
      BY <2>1, <3>1, ShapeParts, SettingsAssumption
    <3> QED  BY <3>1, <3>2, SealedTexts, AppSealed
  <2>2. CASE ~conf.tls
    BY <2>2, RowsAreTexts, AppSame DEF Speak
  <2> QED  BY <2>1, <2>2
<1>3. PICK z \in Texts : wire' = wire \o z /\ App(z) = d
  BY <1>2
<1>4. Coming' = Coming \o d
  BY <1>1, <1>3, ComingGrows
<1> DEFINE h == heard
           c == Coming
<1>5. h \in Row /\ c \in Row /\ h \o c = said /\ ~bye
  BY <1>1, ComingParts DEF Received
<1> HIDE DEF h, c
<1>6. h \o (c \o d) = said \o d /\ said \o d \in Row
  <2>1. (h \o c) \o d = h \o (c \o d)
    <3>1. Joins(h, c, d)
      BY ONLY <1>5, d \in Row, RowJoined, Zenon
    <3> QED  BY ONLY <3>1 DEF Joins
  <2>2. said \o d \in Row
    BY ComingParts, RowAssoc
  <2> QED  BY <1>5, <2>1, <2>2
<1>7. heard' \o Coming' = said'
  BY <1>1, <1>4, <1>6 DEF h, c
<1>8. IsPrefix(heard' \o Coming', said')
  BY <1>1, <1>6, <1>7, PrefixRefl
<1> QED  BY <1>1, <1>5, <1>7, <1>8 DEF Received

LEMMA ReceivedLeave ==
    ASSUME Shape, Received, Leave
    PROVE  Received'
<1>1. /\ sock = "up" /\ sock' = "fin" /\ bye' = TRUE /\ UNCHANGED <<tls, in, pend, said, heard>>
      /\ (wire' = wire \/ wire' = Append(wire, "bye"))
  BY DEF Leave, bufVars
<1>2. CASE wire' = wire
  <2>1. Coming' = Coming
    BY <1>1, <1>2 DEF Coming, Inward
  <2> QED  BY <1>1, <2>1 DEF Received
<1>3. CASE wire' = Append(wire, "bye")
  <2> DEFINE z == <<"bye">>
  <2>1. wire' = wire \o z
    BY <1>3, ComingParts DEF Texts
  <2>2. z \in Texts /\ App(z) = <<>>
    BY OneText, AppByte, MarkNoByte DEF Marks
  <2> HIDE DEF z
  <2>3. Coming' = Coming \o <<>>
    BY <1>1, <2>1, <2>2, ComingGrows
  <2>4. Coming' = Coming
    BY <2>3, ComingParts, RowEmpty
  <2> QED  BY <1>1, <2>4 DEF Received
<1> QED  BY <1>1, <1>2, <1>3

LEMMA ReceivedNet ==
    ASSUME Shape, Received, NetFails
    PROVE  Received'
<1>1. sock = "up" /\ UNCHANGED <<tls, in, pend, said, heard, bye>>
  BY DEF NetFails, bufVars, streamHist
<1>2. CASE wire' = wire /\ sock' = "cut"
  BY <1>1, <1>2, ReceivedKept
<1>3. CASE sock' = "fin" /\ \E n \in 0 .. Len(wire) : wire' = SubSeq(wire, 1, n)
  <2>1. PICK n \in 0 .. Len(wire) : wire' = SubSeq(wire, 1, n)
    BY <1>3
  <2>2. n \in Nat /\ n <= Len(wire) /\ wire \in Texts
    BY ComingParts DEF Texts
  <2> DEFINE z == SubSeq(wire, n + 1, Len(wire))
  <2>3. wire' \in Texts /\ z \in Texts /\ wire = wire' \o z
    BY <2>1, <2>2, CutInTwo DEF Texts
  <2> HIDE DEF z
  <2>4. Coming = Coming' \o App(z)
    BY <1>1, <2>3, ComingShrinks
  <2> DEFINE h == heard
             c == Coming'
             a == App(z)
  <2>5. h \in Row /\ c \in Row /\ a \in Row /\ h \o Coming = said /\ ~bye /\ said \in Row
    BY <1>1, <2>3, ComingParts, ComingIs, ComesRow, AppRow DEF Received
  <2>6. said = h \o (c \o a)
    BY <2>4, <2>5
  <2> HIDE DEF h, c, a
  <2>7. said = (h \o c) \o a /\ h \o c \in Row
    <3>1. h \in Row /\ c \in Row /\ a \in Row
      BY <2>5
    <3>2. (h \o c) \o a = h \o (c \o a) /\ h \o c \in Row
      <4>1. Joins(h, c, a)
        BY ONLY <3>1, RowJoined, Zenon
      <4>2. h \o c \in Row
        BY ONLY <3>1, RowFacts
      <4> QED  BY ONLY <4>1, <4>2, Zenon DEF Joins
    <3> QED  BY <2>6, <3>2
  <2> DEFINE p == h \o c
  <2>8. p \in Row /\ said = p \o a
    BY <2>7
  <2> HIDE DEF p
  <2>9. IsPrefix(p, said)
    BY <2>5, <2>8, PrefixOf
  <2>10. p = heard' \o Coming'
    BY <1>1 DEF p, h, c
  <2> QED  BY <1>1, <1>3, <2>5, <2>9, <2>10 DEF Received
<1> QED  BY <1>2, <1>3 DEF NetFails

-----------------------------------------------------------------------------
(* Records.                                                                *)

\* Texts, joined: lengths and places.
LEMMA TextFacts ==
    ASSUME NEW a \in Texts, NEW b \in Texts
    PROVE  /\ a \o b \in Texts /\ Len(a) \in Nat /\ Len(b) \in Nat /\ Len(a \o b) = Len(a) + Len(b)
           /\ \A i \in 1 .. Len(a) : (a \o b)[i] = a[i]
           /\ \A i \in 1 .. Len(b) : (a \o b)[Len(a) + i] = b[i]
           /\ DOMAIN (a \o b) = 1 .. Len(a) + Len(b)
           /\ DOMAIN a = 1 .. Len(a) /\ DOMAIN b = 1 .. Len(b)
<1>1. a \in Seq(Byte \cup Marks) /\ b \in Seq(Byte \cup Marks)
  BY DEF Texts
<1>2. /\ a \o b \in Seq(Byte \cup Marks) /\ Len(a \o b) = Len(a) + Len(b)
      /\ \A i \in 1 .. Len(a) + Len(b) : (a \o b)[i] = IF i <= Len(a) THEN a[i] ELSE b[i - Len(a)]
      /\ Len(a) \in Nat /\ Len(b) \in Nat /\ DOMAIN a = 1 .. Len(a) /\ DOMAIN b = 1 .. Len(b)
  BY <1>1, ConcatProperties
<1> DEFINE w == a \o b
<1>3. DOMAIN w = 1 .. Len(w)
  BY <1>2
<1> HIDE DEF w
<1>4. ASSUME NEW i \in 1 .. Len(a) PROVE w[i] = a[i]
  <2>1. i \in 1 .. Len(a) + Len(b) /\ i <= Len(a)
    BY <1>2
  <2> QED  BY <1>2, <2>1 DEF w
<1>5. ASSUME NEW i \in 1 .. Len(b) PROVE w[Len(a) + i] = b[i]
  <2>1. Len(a) + i \in 1 .. Len(a) + Len(b) /\ ~(Len(a) + i <= Len(a)) /\ (Len(a) + i) - Len(a) = i
    BY <1>2
  <2> QED  BY <1>2, <2>1 DEF w
<1> QED  BY <1>2, <1>3, <1>4, <1>5 DEF w, Texts

\* A place in one of two that are joined.
LEMMA TextPlace ==
    ASSUME NEW a \in Texts, NEW b \in Texts, NEW i \in DOMAIN (a \o b)
    PROVE  \/ i \in DOMAIN a /\ (a \o b)[i] = a[i]
           \/ \E k \in DOMAIN b : i = Len(a) + k /\ (a \o b)[i] = b[k]
<1> DEFINE w == a \o b
<1>1. /\ Len(a) \in Nat /\ Len(b) \in Nat /\ i \in 1 .. Len(a) + Len(b)
      /\ DOMAIN a = 1 .. Len(a) /\ DOMAIN b = 1 .. Len(b)
      /\ \A k \in 1 .. Len(a) : w[k] = a[k]
      /\ \A k \in 1 .. Len(b) : w[Len(a) + k] = b[k]
  BY TextFacts
<1> HIDE DEF w
<1>2. CASE i <= Len(a)
  <2>1. i \in 1 .. Len(a)
    BY <1>1, <1>2
  <2> QED  BY <1>1, <2>1 DEF w
<1>3. CASE i > Len(a)
  <2>1. i - Len(a) \in 1 .. Len(b) /\ i = Len(a) + (i - Len(a))
    BY <1>1, <1>3
  <2> QED  BY <1>1, <2>1 DEF w
<1>4. i <= Len(a) \/ i > Len(a)
  BY <1>1
<1> QED  BY <1>2, <1>3, <1>4

\* Whole records, joined, are whole records,
LEMMA WholeConcat ==
    ASSUME NEW x \in Texts, NEW y \in Texts, Whole(x), Whole(y)
    PROVE  Whole(x \o y)
<1> DEFINE w == x \o y
<1>1. /\ Len(x) \in Nat /\ Len(y) \in Nat /\ Len(w) = Len(x) + Len(y)
      /\ DOMAIN x = 1 .. Len(x) /\ DOMAIN y = 1 .. Len(y)
      /\ \A k \in 1 .. Len(x) : w[k] = x[k]
      /\ \A k \in 1 .. Len(y) : w[Len(x) + k] = y[k]
  BY TextFacts
<1>2. ASSUME NEW i \in DOMAIN w, w[i] \in Byte
      PROVE  \E j \in i + 1 .. Len(w) : w[j] = "mac"
  <2>1. \/ i \in DOMAIN x /\ w[i] = x[i]
        \/ \E k \in DOMAIN y : i = Len(x) + k /\ w[i] = y[k]
    BY TextPlace
  <2> HIDE DEF w
  <2>2. CASE i \in DOMAIN x /\ w[i] = x[i]
    <3>1. PICK j \in i + 1 .. Len(x) : x[j] = "mac"
      BY <1>2, <2>2 DEF Whole
    <3>2. j \in 1 .. Len(x) /\ j \in i + 1 .. Len(w)
      BY <1>1, <2>2
    <3> QED  BY <1>1, <3>1, <3>2
  <2>3. ASSUME NEW k \in DOMAIN y, i = Len(x) + k, w[i] = y[k]
        PROVE  \E j \in i + 1 .. Len(w) : w[j] = "mac"
    <3>1. PICK j \in k + 1 .. Len(y) : y[j] = "mac"
      BY <1>2, <2>3 DEF Whole
    <3>2. j \in 1 .. Len(y) /\ Len(x) + j \in i + 1 .. Len(w)
      BY <1>1, <2>3
    <3> QED  BY <1>1, <3>1, <3>2
  <2> QED  BY <2>1, <2>2, <2>3
<1> QED  BY <1>2 DEF Whole

\* and so is the rest behind some of them.
LEMMA WholeRest ==
    ASSUME NEW x \in Texts, NEW y \in Texts, Whole(x \o y)
    PROVE  Whole(y)
<1> DEFINE w == x \o y
<1>1. /\ Len(x) \in Nat /\ Len(y) \in Nat /\ Len(w) = Len(x) + Len(y)
      /\ DOMAIN y = 1 .. Len(y) /\ DOMAIN w = 1 .. Len(x) + Len(y)
      /\ \A k \in 1 .. Len(y) : w[Len(x) + k] = y[k]
  BY TextFacts
<1>0. Whole(w)
  OBVIOUS
<1> HIDE DEF w
<1>2. ASSUME NEW i \in DOMAIN y, y[i] \in Byte
      PROVE  \E j \in i + 1 .. Len(y) : y[j] = "mac"
  <2>1. Len(x) + i \in DOMAIN w /\ w[Len(x) + i] = y[i]
    BY <1>1
  <2>2. PICK j \in (Len(x) + i) + 1 .. Len(w) : w[j] = "mac"
    BY <1>0, <1>2, <2>1 DEF Whole
  <2>3. j - Len(x) \in i + 1 .. Len(y) /\ j - Len(x) \in 1 .. Len(y) /\ j = Len(x) + (j - Len(x))
    BY <1>1
  <2>4. y[j - Len(x)] = "mac"
    BY <1>1, <2>2, <2>3
  <2> QED  BY <2>3, <2>4
<1> QED  BY <1>2 DEF Whole

\* Messages that carry no data, and none of the application's bytes.
Byeless(x) == \A i \in DOMAIN x : x[i] # "bye"
\* An alert is in one part or the other.
LEMMA ByelessConcat ==
    ASSUME NEW x \in Texts, NEW y \in Texts
    PROVE  Byeless(x \o y) <=> Byeless(x) /\ Byeless(y)
<1> DEFINE w == x \o y
<1>1. /\ Len(x) \in Nat /\ Len(y) \in Nat /\ DOMAIN w = 1 .. Len(x) + Len(y)
      /\ DOMAIN x = 1 .. Len(x) /\ DOMAIN y = 1 .. Len(y)
      /\ \A k \in 1 .. Len(x) : w[k] = x[k]
      /\ \A k \in 1 .. Len(y) : w[Len(x) + k] = y[k]
  BY TextFacts
<1>2. ASSUME Byeless(x), Byeless(y) PROVE Byeless(w)
  <2>1. ASSUME NEW i \in DOMAIN w PROVE w[i] # "bye"
    <3>1. \/ i \in DOMAIN x /\ w[i] = x[i]
          \/ \E k \in DOMAIN y : i = Len(x) + k /\ w[i] = y[k]
      BY TextPlace
    <3> HIDE DEF w
    <3> QED  BY <1>2, <3>1 DEF Byeless
  <2> QED  BY <2>1 DEF Byeless
<1> HIDE DEF w
<1>3. ASSUME Byeless(w) PROVE Byeless(x)
  <2>1. ASSUME NEW i \in DOMAIN x PROVE x[i] # "bye"
    <3>1. i \in DOMAIN w /\ w[i] = x[i]
      BY <1>1
    <3> QED  BY <1>3, <3>1 DEF Byeless
  <2> QED  BY <2>1 DEF Byeless
<1>4. ASSUME Byeless(w) PROVE Byeless(y)
  <2>1. ASSUME NEW i \in DOMAIN y PROVE y[i] # "bye"
    <3>1. Len(x) + i \in DOMAIN w /\ w[Len(x) + i] = y[i]
      BY <1>1
    <3> QED  BY <1>4, <3>1 DEF Byeless
  <2> QED  BY <2>1 DEF Byeless
<1> QED  BY <1>2, <1>3, <1>4 DEF w

LEMMA EmptyWhole == Whole(<<>>) /\ Byeless(<<>>) /\ \A b : Ending(<<>>, b)
BY DEF Whole, Byeless, Ending

LEMMA ByelessEnding ==
    ASSUME NEW x, Byeless(x), NEW b
    PROVE  Ending(x, b)
BY DEF Byeless, Ending

\* One record.
LEMMA RecordWhole ==
    ASSUME NEW d \in Row
    PROVE  Append(d, "mac") \in Texts /\ Whole(Append(d, "mac")) /\ Byeless(Append(d, "mac"))
<1> DEFINE w == Append(d, "mac")
<1>1. /\ d \in Texts /\ "mac" \in Marks
      /\ Len(d) \in Nat /\ \A i \in 1 .. Len(d) : d[i] \in Byte
  BY RowsAreTexts DEF Marks, Row
<1>2. /\ w \in Texts /\ Len(w) = Len(d) + 1 /\ DOMAIN w = 1 .. Len(d) + 1
      /\ \A i \in 1 .. Len(d) : w[i] = d[i]
      /\ w[Len(d) + 1] = "mac"
  BY <1>1 DEF Texts
<1> HIDE DEF w
<1>3. "mac" \notin Byte /\ "bye" \notin Byte
  BY MarkNoByte DEF Marks
<1>4. ASSUME NEW i \in DOMAIN w
      PROVE  w[i] # "bye" /\ (w[i] \in Byte => \E j \in i + 1 .. Len(w) : w[j] = "mac")
  <2>1. CASE i = Len(d) + 1
    BY <1>2, <1>3, <2>1
  <2>2. CASE i # Len(d) + 1
    <3>1. i \in 1 .. Len(d) /\ Len(d) + 1 \in i + 1 .. Len(w)
      BY <1>1, <1>2, <2>2
    <3> QED  BY <1>1, <1>2, <1>3, <3>1
  <2> QED  BY <2>1, <2>2
<1>5. Whole(w) /\ Byeless(w)
  BY <1>4 DEF Whole, Byeless
<1> QED  BY <1>2, <1>5 DEF w

\* What is sealed are whole records, and no alert.
LEMMA SealedWhole ==
    ASSUME NEW d \in Row, d # <<>>, NEW n \in Nat
    PROVE  Whole(Sealed(d, n)) /\ Byeless(Sealed(d, n))
<1>1. PICK x \in Row, y \in Row :
              /\ d = x \o y
              /\ \/ Sealed(d, n) = Append(d, "mac") /\ x = d /\ y = <<>>
                 \/ Sealed(d, n) = Append(x, "mac") \o Append(y, "mac")
  BY SealedIs
<1>2. CASE Sealed(d, n) = Append(d, "mac")
  BY <1>2, RecordWhole
<1>3. CASE Sealed(d, n) = Append(x, "mac") \o Append(y, "mac")
  <2> DEFINE p == Append(x, "mac")
             q == Append(y, "mac")
  <2>1. p \in Texts /\ Whole(p) /\ Byeless(p) /\ q \in Texts /\ Whole(q) /\ Byeless(q)
    BY RecordWhole
  <2>2. Sealed(d, n) = p \o q
    BY <1>3
  <2> HIDE DEF p, q
  <2> QED  BY <2>1, <2>2, WholeConcat, ByelessConcat
<1> QED  BY <1>1, <1>2, <1>3

LEMMA SealingIs ==
    Shape => Sealing \in Texts /\ Sealing = tls.rec \o Inward /\ tls.rec \in Texts /\ Inward \in Texts
<1> SUFFICES ASSUME Shape
             PROVE  Sealing \in Texts /\ Sealing = tls.rec \o Inward /\ tls.rec \in Texts /\ Inward \in Texts
  OBVIOUS
<1>1. tls.rec \in Texts /\ Inward \in Texts
  BY ComingParts, RowsAreTexts
<1>2. Sealing = tls.rec \o Inward
  BY DEF Sealing
<1> QED  BY <1>1, <1>2, TextsConcat

\* What keeps the bytes under way keeps the records whole.
LEMMA RecordsSame ==
    ASSUME Records, Sealing' = Sealing, tls'.shut = tls.shut, tls.plain = <<>> => tls'.plain = <<>>,
           UNCHANGED <<conf, bye>>, sock' # "none" => sock # "none", sock' = "up" => sock = "up"
    PROVE  Records'
BY DEF Records

LEMMA RecordsKept ==
    ASSUME Records, UNCHANGED <<conf, bye, tls, in, pend, wire>>,
           sock' # "none" => sock # "none", sock' = "up" => sock = "up"
    PROVE  Records'
<1>1. Sealing' = Sealing
  BY DEF Sealing, Inward
<1> QED  BY <1>1, RecordsSame

\* Before the server has closed the connection there is no alert.
LEMMA NoAlert ==
    ASSUME Shape, Records, Received, sock = "up", conf.tls
    PROVE  ~bye /\ Byeless(Sealing) /\ Whole(Sealing) /\ ~tls.shut
<1>1. ~bye
  BY DEF Received
<1> QED  BY <1>1 DEF Records, Ending, Byeless

\* What the server adds are whole records.
LEMMA RecordsGrow ==
    ASSUME Shape, Records, Received, sock = "up", NEW z \in Texts, Inward' = Inward \o z,
           Whole(z), Byeless(z), UNCHANGED <<conf, tls, bye>>
    PROVE  Records'
<1> SUFFICES ASSUME conf.tls PROVE Records'
  BY DEF Records
<1> DEFINE r == tls.rec
           i == Inward
           s == Sealing
<1>1. ~bye /\ Byeless(s) /\ Whole(s) /\ ~tls.shut
  BY NoAlert
<1>2. s \in Texts /\ s = r \o i /\ r \in Texts /\ i \in Texts
  BY SealingIs
<1>3. Sealing' = r \o (i \o z)
  BY DEF Sealing
<1> HIDE DEF r, i, s
<1>4. (r \o i) \o z = r \o (i \o z)
  <2>1. r \in Texts /\ i \in Texts /\ z \in Texts
    BY <1>2
  <2>9. Joins(r, i, z)
    BY ONLY <2>1, TextJoined, Zenon
  <2> QED  BY ONLY <2>9 DEF Joins
<1>5. Sealing' = s \o z
  BY <1>2, <1>3, <1>4
<1>6. Whole(s \o z) /\ Byeless(s \o z)
  BY <1>1, <1>2, WholeConcat, ByelessConcat
<1>7. Ending(s \o z, bye)
  BY <1>6, ByelessEnding
<1> QED  BY <1>1, <1>5, <1>6, <1>7 DEF Records

LEMMA TakeInward ==
    ASSUME TransportInv, Take
    PROVE  Inward = <<Head(in)>> \o Inward' /\ Inward' \in Texts /\ <<Head(in)>> \in Texts
<1> DEFINE u == Head(in)
           o == <<u>>
           x == Inside(in', pend, wire)
<1>1. UNCHANGED <<wire, pend>> /\ Shape
  BY DEF Take, TransportInv
<1>2. in' \in Texts /\ u \in Byte \cup Marks /\ in = o \o in' /\ pend \in Texts /\ wire \in Texts
  BY <1>1, TakeIs, ComingParts
<1>3. o \in Texts
  BY <1>2, OneText
<1>4. x \in Texts /\ Inward' = x
  BY <1>1, <1>2, InsideIs, ComingIs
<1>5. Inward = (o \o in') \o (pend \o wire) /\ x = in' \o (pend \o wire)
  <2>1. Inward = in \o (pend \o wire)
    BY <1>1, ComingParts, ComingIs, InsideIs
  <2>2. x = in' \o (pend \o wire)
    BY <1>2, InsideIs
  <2> HIDE DEF o, x
  <2> QED  BY <1>2, <2>1, <2>2
<1> DEFINE k == pend \o wire
<1>6. k \in Texts
  BY <1>2, TextAssoc
<1> HIDE DEF k, o, x
<1>7. (o \o in') \o k = o \o (in' \o k)
  <2>1. Joins(o, in', k)
    BY ONLY <1>2, <1>3, <1>6, TextJoined, Zenon
  <2> QED  BY ONLY <2>1 DEF Joins
<1> QED  BY <1>3, <1>4, <1>5, <1>7 DEF k, o, u

\* A message of the library's own is taken from between what has been read
\* of a record and what follows.
Around3(r, u, x) == r \o (<<u>> \o x)
LEMMA MiddleFacts ==
    ASSUME NEW r \in Texts, NEW u \in Byte \cup Marks, NEW x \in Texts
    PROVE  /\ Len(Around3(r, u, x)) = (Len(r) + 1) + Len(x) /\ Len(r) \in Nat /\ Len(x) \in Nat
           /\ DOMAIN Around3(r, u, x) = 1 .. (Len(r) + 1) + Len(x)
           /\ \A i \in 1 .. Len(r) : Around3(r, u, x)[i] = r[i]
           /\ Around3(r, u, x)[Len(r) + 1] = u
           /\ \A i \in 1 .. Len(x) : Around3(r, u, x)[(Len(r) + 1) + i] = x[i]
<1> DEFINE o == <<u>>
           p == o \o x
           w == r \o p
<1>1. o \in Texts /\ Len(o) = 1 /\ o[1] = u
  BY OneText
<1> HIDE DEF o
<1>2. /\ p \in Texts /\ Len(x) \in Nat /\ Len(p) = 1 + Len(x) /\ p[1] = u
      /\ \A i \in 1 .. Len(x) : p[1 + i] = x[i]
  <2>1. /\ o \o x \in Texts /\ Len(x) \in Nat /\ Len(o \o x) = Len(o) + Len(x)
        /\ \A i \in 1 .. Len(o) : (o \o x)[i] = o[i]
        /\ \A i \in 1 .. Len(x) : (o \o x)[Len(o) + i] = x[i]
    BY <1>1, TextFacts
  <2> HIDE DEF p
  <2> QED  BY <1>1, <2>1 DEF p
<1> HIDE DEF p
<1>3. /\ Len(r) \in Nat /\ Len(w) = Len(r) + Len(p)
      /\ \A i \in 1 .. Len(r) : w[i] = r[i]
      /\ \A i \in 1 .. Len(p) : w[Len(r) + i] = p[i]
      /\ DOMAIN w = 1 .. Len(r) + Len(p)
  BY <1>2, TextFacts
<1> HIDE DEF w
<1>4. w[Len(r) + 1] = u
  <2>1. 1 \in 1 .. Len(p)
    BY <1>2
  <2> QED  BY <1>2, <1>3, <2>1
<1>5. ASSUME NEW i \in 1 .. Len(x) PROVE w[(Len(r) + 1) + i] = x[i]
  <2>1. 1 + i \in 1 .. Len(p) /\ Len(r) + (1 + i) = (Len(r) + 1) + i
    BY <1>2, <1>3
  <2> QED  BY <1>2, <1>3, <2>1
<1>6. w = Around3(r, u, x)
  BY DEF w, p, o, Around3
<1>7. Len(w) = (Len(r) + 1) + Len(x) /\ DOMAIN w = 1 .. (Len(r) + 1) + Len(x)
  BY <1>2, <1>3
<1> HIDE DEF w
<1> QED  BY <1>2, <1>3, <1>4, <1>5, <1>6, <1>7

LEMMA DropWhole ==
    ASSUME NEW r \in Texts, NEW u \in Byte \cup Marks, NEW x \in Texts, u # "mac",
           Whole(Around3(r, u, x))
    PROVE  Whole(r \o x)
<1> DEFINE s == Around3(r, u, x)
           t == r \o x
           a == Len(r)
<1>1. /\ Len(s) = (a + 1) + Len(x) /\ a \in Nat /\ Len(x) \in Nat
      /\ DOMAIN s = 1 .. (a + 1) + Len(x)
      /\ \A i \in 1 .. a : s[i] = r[i]
      /\ s[a + 1] = u
      /\ \A i \in 1 .. Len(x) : s[(a + 1) + i] = x[i]
  BY MiddleFacts
<1>2. /\ Len(t) = a + Len(x) /\ DOMAIN r = 1 .. a /\ DOMAIN x = 1 .. Len(x)
      /\ \A i \in 1 .. a : t[i] = r[i]
      /\ \A i \in 1 .. Len(x) : t[a + i] = x[i]
  BY TextFacts
<1>3. ASSUME NEW i \in DOMAIN t PROVE i \in 1 .. a \/ \E k \in 1 .. Len(x) : i = a + k
  BY <1>2, TextPlace
<1> HIDE DEF s, t, a
<1>4. Whole(s)
  BY DEF s
<1>5. ASSUME NEW i \in DOMAIN t, t[i] \in Byte
      PROVE  \E j \in i + 1 .. Len(t) : t[j] = "mac"
  <2>1. CASE i \in 1 .. a
    <3>1. i \in DOMAIN s /\ s[i] \in Byte
      BY <1>1, <1>2, <1>5, <2>1
    <3>2. PICK j \in i + 1 .. Len(s) : s[j] = "mac"
      BY <1>4, <3>1 DEF Whole
    <3>3. CASE j <= a
      <4>1. j \in 1 .. a /\ j \in i + 1 .. Len(t)
        BY <1>1, <1>2, <2>1, <3>3
      <4> QED  BY <1>1, <1>2, <3>2, <4>1
    <3>4. CASE j > a
      <4>1. j # a + 1
        BY <1>1, <3>2
      <4>2. (j - a) - 1 \in 1 .. Len(x) /\ j = (a + 1) + ((j - a) - 1)
        BY <1>1, <2>1, <3>4, <4>1
      <4>3. a + ((j - a) - 1) \in i + 1 .. Len(t)
        BY <1>1, <1>2, <2>1, <4>2
      <4>4. t[a + ((j - a) - 1)] = "mac"
        BY <1>1, <1>2, <3>2, <4>2
      <4> QED  BY <4>3, <4>4
    <3>5. j <= a \/ j > a
      BY <1>1, <2>1
    <3> QED  BY <3>3, <3>4, <3>5
  <2>2. ASSUME NEW k \in 1 .. Len(x), i = a + k
        PROVE  \E j \in i + 1 .. Len(t) : t[j] = "mac"
    <3>1. (a + 1) + k \in DOMAIN s /\ s[(a + 1) + k] \in Byte
      BY <1>1, <1>2, <1>5, <2>2
    <3>2. PICK j \in ((a + 1) + k) + 1 .. Len(s) : s[j] = "mac"
      BY <1>4, <3>1 DEF Whole
    <3>3. (j - a) - 1 \in 1 .. Len(x) /\ j = (a + 1) + ((j - a) - 1)
      BY <1>1
    <3>4. a + ((j - a) - 1) \in i + 1 .. Len(t)
      BY <1>1, <1>2, <2>2, <3>3
    <3>5. t[a + ((j - a) - 1)] = "mac"
      BY <1>1, <1>2, <3>2, <3>3
    <3> QED  BY <3>4, <3>5
  <2> QED  BY <1>3, <2>1, <2>2
<1> QED  BY <1>5 DEF Whole, t

LEMMA DropEnding ==
    ASSUME NEW r \in Row, NEW u \in Byte \cup Marks, NEW x \in Texts, u # "mac", NEW b,
           Ending(Around3(r, u, x), b)
    PROVE  Ending(r \o x, b)
<1> DEFINE s == Around3(r, u, x)
           t == r \o x
           a == Len(r)
<1>0. r \in Texts /\ "bye" \notin Byte
  BY RowsAreTexts, MarkNoByte DEF Marks
<1>1. /\ Len(s) = (a + 1) + Len(x) /\ a \in Nat /\ Len(x) \in Nat
      /\ DOMAIN s = 1 .. (a + 1) + Len(x)
      /\ \A i \in 1 .. Len(x) : s[(a + 1) + i] = x[i]
  BY <1>0, MiddleFacts
<1>2. /\ Len(t) = a + Len(x) /\ DOMAIN r = 1 .. a /\ DOMAIN x = 1 .. Len(x)
      /\ \A i \in 1 .. a : t[i] = r[i]
      /\ \A i \in 1 .. Len(x) : t[a + i] = x[i]
  BY <1>0, TextFacts
<1>3. ASSUME NEW i \in DOMAIN t PROVE i \in 1 .. a \/ \E k \in 1 .. Len(x) : i = a + k
  BY <1>0, <1>2, TextPlace
<1>4. Whole(s) => Whole(t)
  BY <1>0, DropWhole
<1> HIDE DEF s, t, a
<1>5. ASSUME NEW i \in DOMAIN t, t[i] = "bye" PROVE i = Len(t) /\ b /\ Whole(t)
  <2>1. i \notin 1 .. a
    <3>2. \A j \in DOMAIN r : r[j] \in Byte
      BY DEF Row
    <3>1. \A j \in 1 .. a : t[j] \in Byte
      BY <1>2, <3>2
    <3> QED  BY <1>0, <1>5, <3>1
  <2>2. PICK k \in 1 .. Len(x) : i = a + k
    BY <1>3, <2>1
  <2>3. (a + 1) + k \in DOMAIN s /\ s[(a + 1) + k] = "bye"
    BY <1>1, <1>2, <1>5, <2>2
  <2>4. (a + 1) + k = Len(s) /\ b /\ Whole(s)
    BY <2>3 DEF Ending, s
  <2>5. i = Len(t)
    <3>1. Len(s) = (a + 1) + Len(x) /\ a \in Nat /\ Len(x) \in Nat /\ Len(t) = a + Len(x)
      BY <1>1, <1>2
    <3> QED  BY ONLY <2>2, <2>4, <3>1, k \in 1 .. Len(x)
  <2> QED  BY <1>4, <2>4, <2>5
<1> QED  BY <1>5 DEF Ending, t

LEMMA RestEnding ==
    ASSUME NEW x \in Texts, NEW y \in Texts, NEW b, Ending(x \o y, b)
    PROVE  Ending(y, b)
<1> DEFINE w == x \o y
<1>1. /\ Len(x) \in Nat /\ Len(y) \in Nat /\ Len(w) = Len(x) + Len(y)
      /\ DOMAIN y = 1 .. Len(y) /\ DOMAIN w = 1 .. Len(x) + Len(y)
      /\ \A k \in 1 .. Len(y) : w[Len(x) + k] = y[k]
  BY TextFacts
<1>2. Whole(w) => Whole(y)
  BY WholeRest
<1>3. Ending(w, b)
  OBVIOUS
<1> HIDE DEF w
<1>4. ASSUME NEW i \in DOMAIN y, y[i] = "bye" PROVE i = Len(y) /\ b /\ Whole(y)
  <2>1. Len(x) + i \in DOMAIN w /\ w[Len(x) + i] = "bye"
    BY <1>1, <1>4
  <2>2. Len(x) + i = Len(w) /\ b /\ Whole(w)
    BY <1>3, <2>1 DEF Ending
  <2> QED  BY <1>1, <1>2, <2>2
<1> QED  BY <1>4 DEF Ending

\* The alert has nothing before it that is not sealed, and nothing after it.
LEMMA AlertLast ==
    ASSUME NEW r \in Row, NEW x \in Texts, NEW b, Ending(Around3(r, "bye", x), b)
    PROVE  b /\ r = <<>> /\ x = <<>>
<1> DEFINE s == Around3(r, "bye", x)
           a == Len(r)
<1>0. r \in Texts /\ "bye" \in Marks
  BY RowsAreTexts DEF Marks
<1>1. /\ Len(s) = (a + 1) + Len(x) /\ a \in Nat /\ Len(x) \in Nat
      /\ DOMAIN s = 1 .. (a + 1) + Len(x)
      /\ \A i \in 1 .. a : s[i] = r[i]
      /\ s[a + 1] = "bye"
  BY <1>0, MiddleFacts
<1>5. \A i \in 1 .. a : r[i] \in Byte
  BY DEF Row
<1>6. (a = 0 => r = <<>>) /\ (Len(x) = 0 => x = <<>>)
  BY EmptyRow, EmptySeq DEF Row, Texts
<1>7. Ending(s, b)
  OBVIOUS
<1> HIDE DEF s, a
<1>2. a + 1 = Len(s) /\ b /\ Whole(s)
  <2>1. a + 1 \in DOMAIN s
    BY <1>1
  <2> QED  BY <1>1, <1>7, <2>1 DEF Ending
<1>3. Len(x) = 0
  BY <1>1, <1>2
<1>4. ASSUME a # 0 PROVE FALSE
  <2>1. a \in DOMAIN s /\ s[a] \in Byte
    BY <1>1, <1>4, <1>5
  <2>2. PICK j \in a + 1 .. Len(s) : s[j] = "mac"
    BY <1>2, <2>1 DEF Whole
  <2>3. j = a + 1
    BY <1>1, <1>2
  <2> QED  BY <1>1, <2>2, <2>3
<1> QED  BY <1>2, <1>3, <1>4, <1>6

LEMMA RecordsTake ==
    ASSUME TransportInv, Take
    PROVE  Records'
<1> DEFINE u == Head(in)
           r == tls.rec
           x == Inward'
           s == Sealing
<1>1. /\ UNCHANGED <<conf, sock, bye>> /\ Shape /\ Records /\ conf.tls /\ sock # "none"
  BY TakeIs DEF Take, TransportInv, streamHist
<1>2. /\ Inward = <<u>> \o x /\ x \in Texts /\ u \in Byte \cup Marks /\ r \in Row /\ r \in Texts
      /\ s \in Texts /\ <<u>> \in Texts
  BY <1>1, TakeInward, TakeIs, ComingParts, SealingIs, RowsAreTexts
<1>3. s = Around3(r, u, x) /\ Sealing' = tls'.rec \o x
  BY <1>2 DEF Sealing, Around3
<1>4. (sock = "up" => Whole(s)) /\ Ending(s, bye) /\ (tls.shut => s = <<>> /\ bye /\ tls.plain = <<>>)
  BY <1>1 DEF Records
<1>5. s # <<>> /\ ~tls.shut
  <2> HIDE DEF u, r, x, s
  <2>1. Len(s) = (Len(r) + 1) + Len(x) /\ Len(r) \in Nat /\ Len(x) \in Nat
    BY <1>2, <1>3, MiddleFacts
  <2>2. Len(s) # 0
    BY <2>1
  <2> QED  BY <1>4, <2>2, EmptyRow DEF s
<1>6. tls \in [step : 1 .. 6, rec : Row, plain : Row, shut : BOOLEAN]
  BY <1>1 DEF Shape, BufTypeOK
<1>7. /\ u = "bye" => tls' = [tls EXCEPT !.shut = TRUE] /\ tls.plain = <<>>
      /\ u = "mac" => tls' = [tls EXCEPT !.plain = r, !.rec = <<>>]
      /\ u \in Byte => tls' = [tls EXCEPT !.rec = Append(r, u)]
      /\ u \notin Byte \cup {"mac", "bye"} => tls' = tls \/ tls' = [tls EXCEPT !.step = tls.step + 1]
  <2>1. \A y \in {"sh", "cert", "sfin", "mac", "bye", "ticket"} : y \notin Byte
    BY MarkNoByte DEF Marks, Handshakes
  <2>2. \/ /\ tls.plain = <<>>
           /\ \/ u = "mac" /\ tls' = [tls EXCEPT !.plain = r, !.rec = <<>>]
              \/ u = "bye" /\ tls' = [tls EXCEPT !.shut = TRUE]
              \/ u = "ticket" /\ tls' = tls
              \/ u \in Byte /\ tls' = [tls EXCEPT !.rec = Append(r, u)]
        \/ tls' = [tls EXCEPT !.step = tls.step + 1] /\ u \in {"sh", "cert", "sfin"}
    BY TakeIs
  <2> HIDE DEF u, r
  <2> QED  BY ONLY <2>1, <2>2
<1>8. tls'.shut = (u = "bye")
  <2>1. "bye" \notin Byte /\ "mac" # "bye" /\ tls.shut = FALSE
    BY <1>5, <1>6, MarkNoByte DEF Marks
  <2> HIDE DEF u, r
  <2>2. CASE u = "bye"
    <3>1. tls'.shut = TRUE
      BY <1>6, <1>7, <2>2
    <3> QED  BY <2>2, <3>1
  <2>3. CASE u # "bye"
    <3>1. tls'.shut = tls.shut
      BY <1>6, <1>7, <2>3
    <3> QED  BY <2>1, <2>3, <3>1
  <2> QED  BY <2>2, <2>3
<1> HIDE DEF u, r, x, s
<1>9. CASE u = "bye"
  <2>1. bye /\ r = <<>> /\ x = <<>>
    BY <1>2, <1>3, <1>4, <1>9, AlertLast
  <2>2. tls'.rec = r /\ tls'.plain = <<>>
    BY <1>6, <1>7, <1>9 DEF r
  <2>3. Sealing' = <<>>
    BY <1>3, <2>1, <2>2, EmptyRow, RowEmpty
  <2> QED  BY <1>1, <2>1, <2>2, <2>3, EmptyWhole DEF Records
<1>10. CASE u = "mac"
  <2>1. tls'.rec = <<>>
    BY <1>6, <1>7, <1>10
  <2>2. Sealing' = x
    BY <1>2, <1>3, <2>1, TextEmpty
  <2> DEFINE k == r \o <<u>>
  <2>3. s = k \o x /\ k \in Texts
    <3>1. (r \o <<u>>) \o x = r \o (<<u>> \o x) /\ r \o <<u>> \in Texts
      <4> DEFINE o == <<u>>
      <4>1. r \in Texts /\ o \in Texts /\ x \in Texts
        BY <1>2
      <4> HIDE DEF o
      <4>2. (r \o o) \o x = r \o (o \o x)
        <5>1. Joins(r, o, x)
          BY ONLY <4>1, TextJoined, Zenon
        <5> QED  BY ONLY <5>1 DEF Joins
      <4>3. r \o o \in Texts
        BY ONLY <4>1, TextAssoc
      <4> QED  BY <4>2, <4>3 DEF o
    <3> QED  BY <1>3, <3>1 DEF Around3
  <2> HIDE DEF k
  <2>4. Ending(x, bye) /\ (Whole(s) => Whole(x))
    BY <1>2, <1>4, <2>3, RestEnding, WholeRest
  <2>5. ~tls'.shut
    BY <1>8, <1>10
  <2> QED  BY <1>1, <1>4, <2>2, <2>4, <2>5 DEF Records
<1>11. CASE u \in Byte
  <2>1. tls'.rec = Append(r, u)
    BY <1>6, <1>7, <1>11
  <2>2. Append(r, u) = r \o <<u>>
    BY <1>2, <1>11 DEF Row
  <2>3. Sealing' = s
    <3>1. (r \o <<u>>) \o x = r \o (<<u>> \o x)
      BY <1>2, TextAssoc
    <3> QED  BY <1>3, <2>1, <2>2, <3>1 DEF Around3
  <2>4. ~tls'.shut
    BY <1>8, <1>11, MarkNoByte DEF Marks
  <2> QED  BY <1>1, <1>4, <2>3, <2>4 DEF Records
<1>12. CASE u \notin Byte \cup {"mac", "bye"}
  <2>1. tls'.rec = r /\ ~tls'.shut
    BY <1>6, <1>7, <1>8, <1>12 DEF r
  <2>2. Sealing' = r \o x
    BY <1>3, <2>1
  <2>3. Ending(r \o x, bye) /\ (Whole(s) => Whole(r \o x))
    BY <1>2, <1>3, <1>4, <1>12, DropEnding, DropWhole
  <2> QED  BY <1>1, <1>4, <2>1, <2>2, <2>3 DEF Records
<1> QED  BY <1>9, <1>10, <1>11, <1>12

LEMMA RecordsFill ==
    ASSUME Shape, Received, Records, Fill
    PROVE  Records'
<1>1. UNCHANGED <<conf, sock, tls, bye>> /\ Inward' = Inward
  BY ReceivedFill DEF Fill, streamHist
<1>2. Sealing' = Sealing
  BY <1>1 DEF Sealing
<1> QED  BY <1>1, <1>2, RecordsSame

LEMMA RecordsRead ==
    ASSUME Shape, Received, Records, Read
    PROVE  Records'
<1>1. UNCHANGED <<conf, sock, tls, bye>> /\ (conf.tls => Inward' = Inward)
  BY ReceivedRead DEF Read
<1>2. CASE conf.tls
  <2>2. Sealing' = Sealing
    BY <1>1, <1>2 DEF Sealing
  <2> QED  BY <1>1, <2>2, RecordsSame
<1>3. CASE ~conf.tls
  BY <1>1, <1>3 DEF Records
<1> QED  BY <1>2, <1>3

LEMMA RecordsDone ==
    ASSUME Shape, Records, Done
    PROVE  Records'
<1>1. UNCHANGED <<conf, sock, in, pend, wire, bye>>
  BY DEF Done
<1>2. CASE job # "recv"
  <2>1. tls' = tls
    BY <1>2 DEF Done, Shape, Places
  <2> QED  BY <1>1, <2>1, RecordsKept
<1>3. CASE job = "recv"
  <2>1. PICK x \in Row, y \in Row :
           tls.plain = x \o y /\ tls' = [tls EXCEPT !.plain = y]
    BY <1>3, DoneIs
  <2>2. tls'.shut = tls.shut /\ tls'.rec = tls.rec /\ tls'.plain = y
    BY <2>1 DEF Shape, BufTypeOK
  <2>3. tls.plain = <<>> => y = <<>>
    <3>1. Len(x \o y) = Len(x) + Len(y) /\ Len(x) \in Nat /\ Len(y) \in Nat
      BY RowFacts
    <3>2. x \o y = <<>> => Len(y) = 0
      BY <3>1, EmptyRow
    <3> QED  BY <2>1, <3>2, EmptySeq DEF Row
  <2>4. Sealing' = Sealing
    BY <1>1, <2>2 DEF Sealing, Inward
  <2> QED  BY <1>1, <2>2, <2>3, <2>4, RecordsSame
<1> QED  BY <1>2, <1>3

LEMMA RecordsGreet ==
    ASSUME Shape, Received, Records, Greet
    PROVE  Records'
<1>1. PICK n \in {1, 2} : wire' = wire \o Flights(conf)[n]
  BY DEF Greet
<1>2. sock = "up" /\ UNCHANGED <<conf, sock, tls, in, pend, bye>>
  BY DEF Greet, bufVars, streamHist
<1> DEFINE f == Flights(conf)[n]
           Q == {"sh", "cert", "sfin", "ticket"}
<1>3. f \in Texts /\ f \in Seq(Q)
  BY FlightTexts, FlightsAre
<1>4. Whole(f) /\ Byeless(f)
  <2>1. \A u \in Q : u \notin Byte /\ u # "bye"
    BY MarkNoByte DEF Marks, Handshakes
  <2> HIDE DEF f, Q
  <2>2. \A i \in DOMAIN f : f[i] \in Q
    BY <1>3
  <2> QED  BY <2>1, <2>2 DEF Whole, Byeless
<1>5. Inward' = Inward \o f
  <2> HIDE DEF f
  <2> QED  BY <1>1, <1>2, <1>3, ComingGrows DEF f
<1> HIDE DEF f
<1> QED  BY <1>2, <1>3, <1>4, <1>5, RecordsGrow

LEMMA RecordsSpeak ==
    ASSUME Shape, Received, Records, NEW d \in Row, d # <<>>, Speak(d)
    PROVE  Records'
<1>1. sock = "up" /\ UNCHANGED <<conf, sock, tls, in, pend, bye>>
  BY DEF Speak, bufVars
<1>2. CASE ~conf.tls
  BY <1>1, <1>2 DEF Records
<1>3. CASE conf.tls
  <2>1. PICK n \in conf.records : wire' = wire \o Sealed(d, n)
    BY <1>3 DEF Speak
  <2>2. n \in Nat
    BY <1>3, <2>1, ShapeParts, SettingsAssumption
  <2> DEFINE z == Sealed(d, n)
  <2>3. z \in Texts /\ Whole(z) /\ Byeless(z)
    BY <2>2, SealedTexts, SealedWhole
  <2>4. wire' = wire \o z
    BY <2>1
  <2> HIDE DEF z
  <2>5. Inward' = Inward \o z
    BY <1>1, <2>3, <2>4, ComingGrows
  <2> QED  BY <1>1, <2>3, <2>5, RecordsGrow
<1> QED  BY <1>2, <1>3

LEMMA RecordsLeave ==
    ASSUME Shape, Received, Records, Leave
    PROVE  Records'
<1>1. sock = "up" /\ sock' = "fin" /\ bye' = TRUE /\ UNCHANGED <<conf, tls, in, pend>>
  BY DEF Leave, bufVars
<1>2. CASE ~conf.tls
  BY <1>1, <1>2 DEF Records
<1>3. CASE conf.tls
  <2> DEFINE z == <<"bye">>
             r == tls.rec
             i == Inward
             s == Sealing
  <2>1. wire' = wire \o z
    BY <1>3, ComingParts DEF Texts, Leave
  <2>2. z \in Texts /\ Len(z) = 1 /\ z[1] = "bye"
    BY OneText DEF Marks
  <2>3. s \in Texts /\ s = r \o i /\ r \in Texts /\ i \in Texts
    BY SealingIs
  <2>4. Byeless(s) /\ Whole(s) /\ ~tls.shut
    BY <1>1, <1>3, NoAlert
  <2> HIDE DEF z
  <2>5. Inward' = i \o z
    BY <1>1, <2>1, <2>2, ComingGrows
  <2>6. Sealing' = r \o (i \o z)
    BY <1>1, <2>5 DEF Sealing
  <2> HIDE DEF r, i, s
  <2>7. Sealing' = s \o z
    <3>1. (r \o i) \o z = r \o (i \o z)
      <4>1. Joins(r, i, z)
        BY ONLY <2>2, <2>3, TextJoined, Zenon
      <4> QED  BY ONLY <4>1 DEF Joins
    <3> QED  BY ONLY <2>3, <2>6, <3>1
  <2>8. Whole(s \o z)
    <3>1. Whole(z)
      <4>1. "bye" \notin Byte /\ \A j \in DOMAIN z : z[j] = "bye"
        BY MarkNoByte DEF Marks, z
      <4> QED  BY <4>1 DEF Whole
    <3> QED  BY <2>2, <2>3, <2>4, <3>1, WholeConcat
  <2>9. Ending(s \o z, TRUE)
    <3>1. ASSUME NEW j \in DOMAIN (s \o z), (s \o z)[j] = "bye" PROVE j = Len(s \o z)
      <4>1. \/ j \in DOMAIN s /\ (s \o z)[j] = s[j]
            \/ \E k \in DOMAIN z : j = Len(s) + k /\ (s \o z)[j] = z[k]
        BY <2>2, <2>3, TextPlace
      <4>2. j \notin DOMAIN s \/ (s \o z)[j] # s[j]
        BY <2>4, <3>1 DEF Byeless
      <4>3. Len(s \o z) = Len(s) + Len(z) /\ DOMAIN z = 1 .. Len(z)
        BY <2>2, <2>3, TextFacts
      <4> QED  BY <2>2, <4>1, <4>2, <4>3
    <3> QED  BY <2>8, <3>1 DEF Ending
  <2> QED  BY <1>1, <2>4, <2>7, <2>8, <2>9 DEF Records
<1>4. conf.tls \in BOOLEAN
  BY TlsBoolean
<1> QED  BY <1>2, <1>3

LEMMA RecordsNet ==
    ASSUME Shape, Received, Records, NetFails
    PROVE  Records'
<1>1. sock = "up" /\ UNCHANGED <<conf, tls, in, pend, bye>> /\ sock' # "up"
  BY DEF NetFails, bufVars, streamHist
<1>2. CASE ~conf.tls
  BY <1>1, <1>2 DEF Records
<1>3. CASE wire' = wire /\ sock' = "cut"
  BY <1>1, <1>3, RecordsKept
<1>4. CASE conf.tls /\ \E n \in 0 .. Len(wire) : wire' = SubSeq(wire, 1, n)
  <2>1. PICK n \in 0 .. Len(wire) : wire' = SubSeq(wire, 1, n)
    BY <1>4
  <2>2. n \in Nat /\ n <= Len(wire) /\ wire \in Texts
    BY ComingParts DEF Texts
  <2> DEFINE z == SubSeq(wire, n + 1, Len(wire))
             r == tls.rec
             x == Inward'
             s == Sealing
  <2>3. wire' \in Texts /\ z \in Texts /\ wire = wire' \o z
    BY <2>1, <2>2, CutInTwo DEF Texts
  <2>4. Byeless(s) /\ ~tls.shut
    BY <1>1, <1>4, NoAlert
  <2>5. r \in Texts /\ s = r \o Inward
    BY SealingIs
  <2>6. x \in Texts
    <3>1. Inside(in, pend, wire') \in Texts
      BY <2>3, ComingParts, InsideIs
    <3> QED  BY <1>1, <3>1, ComingIs
  <2> HIDE DEF z
  <2>7. Inward = x \o z
    BY <1>1, <2>3, ComingShrinks
  <2>8. Sealing' = r \o x
    BY <1>1 DEF Sealing
  <2> HIDE DEF r, x, s
  <2>9. (r \o x) \o z = r \o (x \o z) /\ r \o x \in Texts
    <3>1. r \in Texts /\ x \in Texts /\ z \in Texts
      BY <2>3, <2>5, <2>6
    <3>2. (r \o x) \o z = r \o (x \o z)
      <4>1. Joins(r, x, z)
        BY ONLY <3>1, TextJoined, Zenon
      <4> QED  BY ONLY <4>1 DEF Joins
    <3>3. r \o x \in Texts
      BY ONLY <3>1, TextAssoc
    <3> QED  BY ONLY <3>2, <3>3
  <2> DEFINE p == r \o x
  <2>10. s = p \o z /\ p \in Texts
    BY <2>5, <2>7, <2>9
  <2>11. Sealing' = p
    BY <2>8
  <2> HIDE DEF p
  <2>12. Byeless(p)
    BY <2>3, <2>4, <2>10, ByelessConcat
  <2> QED  BY <1>1, <2>4, <2>11, <2>12, ByelessEnding DEF Records
<1> QED  BY <1>1, <1>2, <1>3, <1>4 DEF NetFails

-----------------------------------------------------------------------------
(* The handshake, and what was sent before it was over.                    *)

LEMMA ConnectingKept ==
    ASSUME Connecting, UNCHANGED <<asked, said, heard, bye>>, job' = "connect" => job = "connect",
           sock' # "none" => sock # "none", reply' # Said("ok") => reply # Said("ok")
    PROVE  Connecting'
BY DEF Connecting

\* Nothing is sent before the handshake is over.
LEMMA AsksKept ==
    ASSUME Asks, UNCHANGED <<asked, conf>>, sock' = "none" => sock = "none" \/ asked = <<>>,
           tls'.step = tls.step \/ asked = <<>>
    PROVE  Asks'
BY DEF Asks

\* A call under way has returned nothing, and one that connects has sent nothing.
LEMMA UnderWay ==
    ASSUME Shape, Connecting, at # "idle"
    PROVE  reply = Pending /\ reply # Said("ok") /\ sock # "none" /\ (job = "connect" => asked = <<>>)
<1>1. reply = Pending /\ sock # "none"
  BY DEF Shape, TransportTypeOK
<1> QED  BY <1>1, SaidIs DEF Connecting

\* The messages of the handshake may be picked before joining or after.
LEMMA HandConcat ==
    ASSUME NEW x \in Texts, NEW y \in Texts
    PROVE  Hand(x \o y) = Hand(x) \o Hand(y) /\ Hand(x) \in Texts /\ Hand(y) \in Texts
<1>1. x \in Seq(Byte \cup Marks) /\ y \in Seq(Byte \cup Marks)
  BY DEF Texts
<1>2. Only(x \o y, Handshakes) = Only(x, Handshakes) \o Only(y, Handshakes)
  BY <1>1, OnlyConcat
<1>3. Only(x, Handshakes) \in Seq(Byte \cup Marks) /\ Only(y, Handshakes) \in Seq(Byte \cup Marks)
  BY <1>1, OnlyType
<1> QED  BY <1>2, <1>3 DEF Hand, Texts

\* The application's bytes are none,
LEMMA HandRow ==
    ASSUME NEW x \in Row
    PROVE  Hand(x) = <<>>
<1>1. Byte \cap Handshakes = {}
  BY MarkNoByte DEF Marks
<1> QED  BY <1>1, OnlyNone DEF Hand, Row

LEMMA HandOne ==
    ASSUME NEW u
    PROVE  Hand(<<u>>) = IF u \in Handshakes THEN <<u>> ELSE <<>>
BY OnlyOne DEF Hand

\* nor are the records they are in.
LEMMA HandSealed ==
    ASSUME NEW d \in Row, d # <<>>, NEW n \in Nat
    PROVE  Hand(Sealed(d, n)) = <<>>
<1>1. ASSUME NEW x \in Row PROVE Append(x, "mac") \in Texts /\ Hand(Append(x, "mac")) = <<>>
  <2> DEFINE m == <<"mac">>
  <2>1. x \in Texts /\ m \in Texts /\ Hand(x) = <<>> /\ Hand(m) = <<>>
    BY RowsAreTexts, OneText, HandRow, HandOne DEF Marks, Handshakes
  <2>2. Append(x, "mac") = x \o m
    BY DEF Row
  <2> HIDE DEF m
  <2>3. Hand(x \o m) = <<>> \o <<>> /\ x \o m \in Texts
    BY <2>1, HandConcat, TextsConcat
  <2> QED  BY <2>2, <2>3, EmptyTexts, TextEmpty
<1>2. PICK x \in Row, y \in Row :
              /\ d = x \o y
              /\ \/ Sealed(d, n) = Append(d, "mac") /\ x = d /\ y = <<>>
                 \/ Sealed(d, n) = Append(x, "mac") \o Append(y, "mac")
  BY SealedIs
<1>3. CASE Sealed(d, n) = Append(d, "mac")
  BY <1>1, <1>3
<1>4. CASE Sealed(d, n) = Append(x, "mac") \o Append(y, "mac")
  <2> DEFINE p == Append(x, "mac")
             q == Append(y, "mac")
  <2>1. p \in Texts /\ Hand(p) = <<>> /\ q \in Texts /\ Hand(q) = <<>>
    BY <1>1
  <2>2. Sealed(d, n) = p \o q
    BY <1>4
  <2> HIDE DEF p, q
  <2>3. Hand(p \o q) = <<>> \o <<>>
    BY <2>1, HandConcat
  <2> QED  BY <2>2, <2>3, EmptyTexts, TextEmpty
<1> QED  BY <1>2, <1>3, <1>4

\* What keeps the messages of the handshake in order.
LEMMA ShakingKept ==
    ASSUME Shaking, UNCHANGED <<conf, gave>>, tls'.step = tls.step, sock' # "none" => sock # "none",
           conf.tls /\ sock' # "none" => Hand(Inward') = Hand(Inward),
           \A u \in {"hello", "fin"} : /\ Sent(u)' => Sent(u)
                                       /\ u \in Range(todo') => u \in Range(todo),
           job' = "connect" /\ reply' = Said("ok") => job = "connect" /\ reply = Said("ok")
    PROVE  Shaking'
<1> SUFFICES ASSUME conf.tls, sock' # "none" PROVE Shaking'
  BY DEF Shaking
<1>1. Due' = Due
  BY DEF Due
<1> QED  BY <1>1 DEF Shaking, Agrees, Accepts, Versions

LEMMA ShakingStill ==
    ASSUME Shaking, UNCHANGED <<conf, gave, in, pend, wire, got, out>>, tls'.step = tls.step,
           sock' # "none" => sock # "none", todo' = todo,
           job' = "connect" /\ reply' = Said("ok") => job = "connect" /\ reply = Said("ok")
    PROVE  Shaking'
<1>1. Inward' = Inward
  BY DEF Inward
<1>2. \A u : Sent(u)' <=> Sent(u)
  BY DEF Sent
<1>3. Hand(Inward') = Hand(Inward) /\ Range(todo') = Range(todo)
  BY <1>1
<1> QED  BY <1>1, <1>2, <1>3, ShakingKept

\* The members of two that are joined.
LEMMA RangeConcat ==
    ASSUME NEW x \in Texts, NEW y \in Texts
    PROVE  Range(x \o y) = Range(x) \cup Range(y)
<1> DEFINE w == x \o y
<1>1. /\ Len(x) \in Nat /\ Len(y) \in Nat /\ DOMAIN w = 1 .. Len(x) + Len(y)
      /\ DOMAIN x = 1 .. Len(x) /\ DOMAIN y = 1 .. Len(y)
      /\ \A k \in 1 .. Len(x) : w[k] = x[k]
      /\ \A k \in 1 .. Len(y) : w[Len(x) + k] = y[k]
  BY TextFacts
<1>2. ASSUME NEW i \in DOMAIN w PROVE w[i] \in Range(x) \cup Range(y)
  <2>1. \/ i \in DOMAIN x /\ w[i] = x[i]
        \/ \E k \in DOMAIN y : i = Len(x) + k /\ w[i] = y[k]
    BY TextPlace
  <2> HIDE DEF w
  <2> QED  BY <2>1 DEF Range
<1> HIDE DEF w
<1>3. ASSUME NEW i \in DOMAIN x PROVE x[i] \in Range(w)
  <2>1. i \in DOMAIN w /\ w[i] = x[i]
    BY <1>1
  <2> QED  BY <2>1 DEF Range
<1>4. ASSUME NEW i \in DOMAIN y PROVE y[i] \in Range(w)
  <2>1. Len(x) + i \in DOMAIN w /\ w[Len(x) + i] = y[i]
    BY <1>1
  <2> QED  BY <2>1 DEF Range
<1>5. Range(w) \subseteq Range(x) \cup Range(y)
  BY <1>2 DEF Range
<1>6. Range(x) \subseteq Range(w) /\ Range(y) \subseteq Range(w)
  BY <1>3, <1>4 DEF Range
<1> QED  BY <1>5, <1>6 DEF w

LEMMA RangeOne == \A u : Range(<<u>>) = {u}
BY DEF Range

\* Step by step: the library sends its turn of the handshake,
LEMMA ShakingQueue ==
    ASSUME TransportInv, Queue
    PROVE  Shaking'
<1>1. /\ at = "op" /\ Outgoing # <<>> /\ out' = out \o Outgoing
      /\ UNCHANGED <<conf, sock, wire, got, gave, in, pend, job, reply>>
      /\ Shape /\ Shaking /\ Connecting
  BY DEF Queue, TransportInv
<1>2. conf.tls /\ sock # "none" /\ reply # Said("ok")
  BY <1>1, UnderWay DEF Shape, Places
<1>3. Inward' = Inward
  BY <1>1 DEF Inward
<1>4. CASE job = "send"
  <2>1. todo # <<>> /\ Outgoing = <<Head(todo)>> /\ todo' = Tail(todo) /\ tls' = tls
    BY <1>1, <1>4, OutgoingIs DEF Queue
  <2> DEFINE o == <<Head(todo)>>
  <2>2. Head(todo) \in Byte \cup Marks /\ Tail(todo) \in Texts /\ todo = o \o Tail(todo) /\ todo \in Texts
    BY <1>1, <2>1, HeadFirst DEF Shape, BufTypeOK, Texts
  <2>3. o \in Texts /\ Range(o) = {Head(todo)}
    BY <2>2, OneText, RangeOne
  <2>4. out \in Texts /\ out' = out \o o
    BY <1>1, <2>1 DEF Shape, BufTypeOK
  <2> HIDE DEF o
  <2>5. Range(out') = Range(out) \cup Range(o) /\ Range(todo) = Range(o) \cup Range(todo')
    BY <2>1, <2>2, <2>3, <2>4, RangeConcat
  <2>6. ASSUME NEW u \in {"hello", "fin"} PROVE u \notin Range(todo)
    BY <1>1, <1>2 DEF Shaking
  <2>7. \A u \in {"hello", "fin"} : (Sent(u)' => Sent(u)) /\ (u \in Range(todo') => u \in Range(todo))
    BY <1>1, <2>5, <2>6 DEF Sent
  <2> QED  BY <1>1, <1>2, <1>3, <1>4, <2>1, <2>7, ShakingKept
<1>5. CASE job = "connect"
  <2>1. /\ tls.step \in {1, 4} /\ Outgoing = <<Script[tls.step]>>
        /\ tls' = [tls EXCEPT !.step = tls.step + 1] /\ todo' = todo
    BY <1>1, <1>5, OutgoingIs DEF Queue
  <2>2. tls'.step = tls.step + 1
    BY <1>1, <2>1 DEF Shape, BufTypeOK
  <2> DEFINE o == <<Script[tls.step]>>
  <2>3. out \in Texts /\ out' = out \o o /\ Script[tls.step] \in {"hello", "fin"}
        /\ (Script[tls.step] = "fin" => tls.step = 4)
    BY <1>1, <2>1, OutgoingIs, ScriptIs DEF Shape, BufTypeOK
  <2>4. o \in Texts /\ Range(o) = {Script[tls.step]}
    BY <2>3, OneText, RangeOne DEF Marks, Handshakes
  <2> HIDE DEF o
  <2>5. Range(out') = Range(out) \cup {Script[tls.step]}
    BY <2>3, <2>4, RangeConcat
  <2>6. /\ IsPrefix(Hand(Inward), Due)
        /\ gave = 0 => tls.step <= 2
        /\ gave = 1 => tls.step \in 2 .. 5
        /\ gave = 2 => tls.step \in 5 .. 6
        /\ gave \in 0 .. 2
    BY <1>1, <1>2 DEF Shaking, Shape, BufTypeOK
  <2>7. Due' = Due
    <3>1. Due = <<>>
      BY <2>1, <2>6 DEF Due
    <3>2. Due' = <<>>
      BY <1>1, <2>1, <2>2, <2>6 DEF Due
    <3> QED  BY <3>1, <3>2
  <2>8. (Sent("hello")' => tls'.step >= 2) /\ (Sent("fin")' => tls'.step >= 5)
    <3>1. Sent("fin")' => Sent("fin") \/ tls.step = 4
      BY <1>1, <2>3, <2>5 DEF Sent
    <3>2. tls'.step >= 2
      BY <2>1, <2>2
    <3>3. Sent("fin") => tls.step >= 5
      BY <1>1, <1>2 DEF Shaking
    <3> QED  BY <2>1, <2>2, <3>1, <3>2, <3>3
  <2>9. (tls'.step > 2 => Agrees(conf)) /\ (tls'.step > 3 => Accepts(conf))
    <3>1. tls'.step > 2 => tls.step = 4
      BY <2>1, <2>2
    <3>2. tls.step = 4 => Agrees(conf) /\ Accepts(conf)
      BY <1>1, <1>2 DEF Shaking
    <3> QED  BY <2>1, <2>2, <3>1, <3>2
  <2>10. /\ gave' = 0 => tls'.step <= 2
         /\ gave' = 1 => tls'.step \in 2 .. 5
         /\ gave' = 2 => tls'.step \in 5 .. 6
    BY <1>1, <2>1, <2>2, <2>6
  <2>11. Agrees(conf)' = Agrees(conf) /\ Accepts(conf)' = Accepts(conf)
    BY <1>1 DEF Agrees, Accepts, Versions
  <2>12. "hello" \notin Range(todo') /\ "fin" \notin Range(todo')
    BY <1>1, <1>2, <2>1 DEF Shaking
  <2> QED  BY <1>1, <1>2, <1>3, <2>6, <2>7, <2>8, <2>9, <2>10, <2>11, <2>12 DEF Shaking
<1> QED  BY <1>1, <1>4, <1>5, OutgoingIs

LEMMA PrefixTail ==
    ASSUME NEW u, NEW x \in Texts, NEW t \in Texts, u \in Byte \cup Marks, IsPrefix(<<u>> \o x, <<u>> \o t)
    PROVE  IsPrefix(x, t)
<1> DEFINE S == Byte \cup Marks
           o == <<u>>
           p == o \o x
           q == o \o t
<1>1. o \in Seq(S) /\ x \in Seq(S) /\ t \in Seq(S)
  BY DEF Texts
<1>2. p \in Seq(S) /\ q \in Seq(S)
  BY <1>1
<1>3. IsPrefix(p, q)
  OBVIOUS
<1> HIDE DEF S, o, p, q
<1>4. PICK v \in Seq(S) : q = p \o v
  BY <1>2, <1>3, PrefixIs
<1>5. o \o t = o \o (x \o v) /\ x \o v \in Seq(S)
  <2>1. (o \o x) \o v = o \o (x \o v)
    BY ONLY <1>1, v \in Seq(S), ConcatAssociative, SMTT(30)
  <2>2. x \o v \in Seq(S)
    BY ONLY <1>1, v \in Seq(S), ConcatProperties
  <2> QED  BY <1>4, <2>1, <2>2 DEF p, q
<1>6. t = x \o v
  BY <1>1, <1>5, ConcatCancel
<1> QED  BY <1>1, <1>6, PrefixIs

LEMMA PrefixTexts ==
    ASSUME NEW s \in Texts, NEW t \in Texts
    PROVE  IsPrefix(s, t) <=> \E u \in Texts : t = s \o u
BY PrefixIs DEF Texts

LEMMA EmptyPrefix ==
    ASSUME NEW s \in Texts
    PROVE  IsPrefix(<<>>, s) /\ IsPrefix(s, s) /\ (IsPrefix(s, <<>>) => s = <<>>)
<1>1. IsPrefix(<<>>, s) /\ IsPrefix(s, s)
  BY PrefixTexts, EmptyTexts, TextEmpty
<1>2. ASSUME IsPrefix(s, <<>>) PROVE s = <<>>
  <2>1. PICK u \in Texts : <<>> = s \o u
    BY <1>2, PrefixTexts, EmptyTexts
  <2>2. Len(s \o u) = Len(s) + Len(u) /\ Len(s) \in Nat /\ Len(u) \in Nat
    BY TextFacts
  <2> DEFINE w == s \o u
  <2>3. w = <<>> /\ Len(w) = Len(s) + Len(u)
    BY <2>1, <2>2
  <2> HIDE DEF w
  <2>4. Len(w) = 0
    BY <2>3
  <2>5. Len(s) = 0
    BY <2>2, <2>3, <2>4
  <2> QED  BY <2>5 DEF Texts
<1> QED  BY <1>1, <1>2

\* or takes the next message.
LEMMA ShakingTake ==
    ASSUME TransportInv, Take
    PROVE  Shaking'
<1> DEFINE u == Head(in)
           o == <<u>>
           x == Inward'
<1>1. /\ UNCHANGED <<conf, sock, gave, got, out, job, reply, todo>> /\ Shape /\ Shaking /\ Connecting
      /\ conf.tls /\ sock # "none" /\ at = "op"
  BY TakeIs DEF Take, TransportInv
<1>2. /\ Inward = o \o x /\ x \in Texts /\ o \in Texts /\ u \in Byte \cup Marks
  BY TakeInward, TakeIs
<1>3. reply # Said("ok")
  BY <1>1, UnderWay
<1>4. tls \in [step : 1 .. 6, rec : Row, plain : Row, shut : BOOLEAN]
  BY <1>1 DEF Shape, BufTypeOK
<1>5. Hand(o) = (IF u \in Handshakes THEN o ELSE <<>>) /\ Hand(x) \in Texts
  BY <1>2, HandOne, HandConcat
<1> HIDE DEF u, o, x
<1>6. Hand(Inward) = Hand(o) \o Hand(x)
  BY <1>2, HandConcat
<1>7. \A v : Sent(v)' <=> Sent(v)
  BY <1>1 DEF Sent
<1>8. CASE job = "recv"
  <2>1. u \notin Handshakes /\ tls'.step = tls.step
    <3>1. \/ u = "mac" /\ tls' = [tls EXCEPT !.plain = tls.rec, !.rec = <<>>]
          \/ u = "bye" /\ tls' = [tls EXCEPT !.shut = TRUE]
          \/ u = "ticket" /\ tls' = tls
          \/ u \in Byte /\ u \notin Marks /\ tls' = [tls EXCEPT !.rec = Append(tls.rec, u)]
      BY <1>8, TakeIs DEF u
    <3> QED  BY <1>4, <3>1 DEF Handshakes, Marks
  <2>2. Hand(Inward) = Hand(x)
    BY <1>5, <1>6, <2>1, TextEmpty
  <2> QED  BY <1>1, <1>3, <1>7, <2>1, <2>2, ShakingKept DEF x
<1>9. CASE job = "connect"
  <2>1. /\ tls' = [tls EXCEPT !.step = tls.step + 1]
        /\ \/ gave = 1 /\ tls.step = 2 /\ u = "sh" /\ Agrees(conf)
           \/ gave = 1 /\ tls.step = 3 /\ u = "cert" /\ Accepts(conf)
           \/ gave = 2 /\ tls.step = 5 /\ u = "sfin"
    BY <1>9, TakeIs DEF u
  <2>2. tls'.step = tls.step + 1
    BY <1>4, <2>1
  <2>3. u \in Handshakes
    BY <2>1 DEF Handshakes
  <2>4. Hand(Inward) = o \o Hand(x) /\ IsPrefix(o \o Hand(x), Due)
    BY <1>1, <1>5, <1>6, <2>3 DEF Shaking
  <2>5. Due = o \o Due' /\ Due' \in Texts
    <3>1. CASE gave = 1 /\ tls.step = 2 /\ u = "sh"
      <4>1. Due = <<"sh", "cert">> /\ Due' = <<"cert">>
        BY <1>1, <2>2, <3>1 DEF Due
      <4> QED  BY <3>1, <4>1, OneText DEF o, Marks, Handshakes
    <3>2. CASE gave = 1 /\ tls.step = 3 /\ u = "cert"
      <4>1. Due = <<"cert">> /\ Due' = <<>>
        BY <1>1, <2>2, <3>2 DEF Due
      <4> QED  BY <3>2, <4>1, EmptyTexts DEF o
    <3>3. CASE gave = 2 /\ tls.step = 5 /\ u = "sfin"
      <4>1. Due = <<"sfin">> /\ Due' = <<>>
        BY <1>1, <2>2, <3>3 DEF Due
      <4> QED  BY <3>3, <4>1, EmptyTexts DEF o
    <3> QED  BY <2>1, <3>1, <3>2, <3>3
  <2>6. IsPrefix(Hand(x), Due')
    <3> DEFINE e == Due'
               h == Hand(x)
    <3>1. IsPrefix(<<u>> \o h, <<u>> \o e) /\ e \in Texts /\ h \in Texts
      BY <1>5, <2>4, <2>5 DEF o
    <3> HIDE DEF e, h
    <3>2. IsPrefix(h, e)
      BY <1>2, <3>1, PrefixTail
    <3> QED  BY <3>2 DEF e, h
  <2>7. /\ Sent("hello") => tls.step >= 2
        /\ Sent("fin") => tls.step >= 5
        /\ "hello" \notin Range(todo') /\ "fin" \notin Range(todo')
        /\ tls.step > 2 => Agrees(conf)
        /\ tls.step > 3 => Accepts(conf)
    BY <1>1 DEF Shaking
  <2>8. Agrees(conf)' = Agrees(conf) /\ Accepts(conf)' = Accepts(conf)
    BY <1>1 DEF Agrees, Accepts, Versions
  <2>9. /\ tls'.step > 2 => Agrees(conf)
        /\ tls'.step > 3 => Accepts(conf)
    BY <2>1, <2>2, <2>7
  <2>10. /\ gave' = 0 => tls'.step <= 2
         /\ gave' = 1 => tls'.step \in 2 .. 5
         /\ gave' = 2 => tls'.step \in 5 .. 6
    BY <1>1, <2>1, <2>2
  <2>11. (Sent("hello")' => tls'.step >= 2) /\ (Sent("fin")' => tls'.step >= 5)
    BY <1>7, <2>1, <2>2, <2>7
  <2> QED  BY <1>1, <1>3, <2>6, <2>7, <2>8, <2>9, <2>10, <2>11 DEF Shaking, x
<1> QED  BY <1>8, <1>9, TakeIs

LEMMA ShakingDone ==
    ASSUME Shape, Shaking, Done
    PROVE  Shaking'
<1>1. UNCHANGED <<conf, sock, gave, in, pend, wire, got, out, todo, job>> /\ at = "op" /\ ~Reading /\ Outgoing = <<>>
  BY DEF Done
<1>2. job \in {"connect", "send", "recv"} /\ conf.tls /\ tls.step \in 1 .. 6
  BY <1>1 DEF Shape, Places, BufTypeOK
<1>3. CASE job # "connect"
  <2>1. tls'.step = tls.step
    <3>1. CASE job = "send"
      BY <3>1 DEF Done
    <3>2. CASE job = "recv"
      <4>1. PICK y \in Row : tls' = [tls EXCEPT !.plain = y]
        BY <3>2, DoneIs
      <4> QED  BY <4>1 DEF Shape, BufTypeOK
    <3> QED  BY <1>2, <1>3, <3>1, <3>2
  <2> QED  BY <1>1, <1>3, <2>1, ShakingStill
<1>4. CASE job = "connect"
  <2>1. tls' = tls
    BY <1>4 DEF Done
  <2>2. tls.step = 6
    <3>1. ASSUME tls.step # 6 PROVE FALSE
      <4>1. tls.step \in 1 .. 5
        BY <1>2, <3>1
      <4>2. CASE Sends(Script[tls.step])
        <5>1. Outgoing = <<Script[tls.step]>>
          BY <1>4, <4>1, <4>2, ScriptIs DEF Outgoing
        <5> QED  BY <1>1, <5>1
      <4>3. CASE ~Sends(Script[tls.step])
        BY <1>1, <1>4, <4>1, <4>3, ScriptIs DEF Reading
      <4> QED  BY <4>2, <4>3
    <3> QED  BY <3>1
  <2>3. Due' = Due /\ Inward' = Inward /\ \A v : Sent(v)' <=> Sent(v)
    BY <1>1, <2>1 DEF Due, Inward, Sent
  <2>4. Range(todo') = Range(todo) /\ Agrees(conf)' = Agrees(conf) /\ Accepts(conf)' = Accepts(conf)
    BY <1>1 DEF Agrees, Accepts, Versions
  <2> QED  BY <1>1, <2>1, <2>2, <2>3, <2>4 DEF Shaking
<1> QED  BY <1>3, <1>4

\* What is with the server or on its way there only moves on.
LEMMA SentMoves ==
    ASSUME NEW g \in Texts, NEW a \in Texts, NEW b \in Texts
    PROVE  Range(g \o a) \cup Range(b) = Range(g) \cup Range(a \o b)
BY RangeConcat

LEMMA ShakingFlush ==
    ASSUME Shape, Shaking, Connecting, FlushOut
    PROVE  Shaking'
<1>1. UNCHANGED <<conf, sock, wire, gave, in, pend, tls, job, todo>> /\ at # "idle" /\ conf.tls
      /\ at \in {"pump", "tail", "bye"}
  BY DEF FlushOut, Shape, Places
<1>2. Inward' = Inward /\ Range(todo') = Range(todo) /\ reply # Said("ok")
  BY <1>1, UnderWay DEF Inward
<1>3. CASE out # <<>>
  <2>1. PICK x \in Texts : got' = got \o x /\ out = x \o out' /\ out' \in Texts /\ UNCHANGED reply
    BY <1>3, FlushIs
  <2>2. got \in Texts
    BY DEF Shape, BufTypeOK
  <2> DEFINE o == out'
  <2>3. Range(got \o x) \cup Range(o) = Range(got) \cup Range(x \o o)
    BY <2>1, <2>2, SentMoves
  <2>4. \A v : Sent(v)' <=> Sent(v)
    BY <2>1, <2>3 DEF Sent
  <2> QED  BY <1>1, <1>2, <2>1, <2>4, ShakingKept
<1>4. CASE out = <<>>
  <2>1. UNCHANGED <<out, got>>
    BY <1>4 DEF FlushOut
  <2>2. job = "connect" => reply' # Said("ok")
    <3>1. CASE at = "tail"
      BY <3>1 DEF Shape, Places
    <3>2. CASE at # "tail"
      <4>1. reply' = reply
        BY <1>1, <1>4, <3>2 DEF FlushOut
      <4> QED  BY <1>2, <4>1
    <3> QED  BY <3>1, <3>2
  <2> QED  BY <1>1, <2>1, <2>2, ShakingStill
<1> QED  BY <1>3, <1>4

LEMMA ShakingFlushFails ==
    ASSUME Shape, Shaking, Connecting, FlushFails
    PROVE  Shaking'
<1>1. UNCHANGED <<conf, wire, gave, got, in, pend, tls, todo>> /\ at # "idle" /\ at \in {"pump", "tail", "bye"}
      /\ out' = SubSeq(out, Chunk + 1, Len(out)) /\ out # <<>>
  BY DEF FlushFails
<1>2. Inward' = Inward /\ Range(todo') = Range(todo) /\ reply # Said("ok") /\ sock # "none"
  BY <1>1, UnderWay DEF Inward
<1>3. Range(out') \subseteq Range(out)
  <2>1. Chunk \in Nat /\ out \in Seq(Byte \cup Marks) /\ Len(out) \in Nat
    BY RoomAssumption DEF Shape, BufTypeOK, Texts
  <2>2. \A i \in DOMAIN out' : i + Chunk \in DOMAIN out /\ out'[i] = out[i + Chunk]
    BY <1>1, <2>1
  <2> QED  BY <2>2 DEF Range
<1>4. \A v : Sent(v)' => Sent(v)
  BY <1>1, <1>3 DEF Sent
<1>5. job' = job /\ reply' # Said("ok")
  <2>1. CASE at = "bye"
    BY <1>2, <2>1 DEF FlushFails
  <2>2. CASE at # "bye"
    BY <2>2, FailsIs, FailsReply DEF FlushFails
  <2> QED  BY <2>1, <2>2
<1> QED  BY <1>1, <1>2, <1>4, <1>5, ShakingKept

\* What is no message of the handshake does not disturb it.
LEMMA ShakingGrow ==
    ASSUME Shape, Shaking, NEW z \in Texts, Inward' = Inward \o z, Hand(z) = <<>>,
           UNCHANGED <<conf, gave, tls, got, out, todo, job, reply>>, sock # "none"
    PROVE  Shaking'
<1> DEFINE i == Inward
<1>1. i \in Texts /\ Inward' = i \o z
  BY ComingParts
<1> HIDE DEF i
<1>2. Hand(i \o z) = Hand(i) \o <<>> /\ Hand(i) \in Texts
  BY <1>1, HandConcat
<1>3. Hand(Inward') = Hand(i)
  BY <1>1, <1>2, TextEmpty
<1>4. \A v : Sent(v)' <=> Sent(v)
  BY DEF Sent
<1>5. Hand(Inward') = Hand(Inward)
  BY <1>3 DEF i
<1> QED  BY <1>4, <1>5, ShakingKept

LEMMA ShakingSpeak ==
    ASSUME Shape, Shaking, NEW d \in Row, d # <<>>, Speak(d)
    PROVE  Shaking'
<1>1. sock = "up" /\ UNCHANGED <<conf, sock, gave, tls, in, pend, got, out, todo, job, reply>>
  BY DEF Speak, bufVars
<1>2. CASE ~conf.tls
  BY <1>1, <1>2 DEF Shaking
<1>3. CASE conf.tls
  <2>1. PICK n \in conf.records : wire' = wire \o Sealed(d, n)
    BY <1>3 DEF Speak
  <2>2. n \in Nat
    BY <1>3, <2>1, ShapeParts, SettingsAssumption
  <2> DEFINE z == Sealed(d, n)
  <2>3. z \in Texts /\ Hand(z) = <<>>
    BY <2>2, SealedTexts, HandSealed
  <2>4. wire' = wire \o z
    BY <2>1
  <2> HIDE DEF z
  <2>5. Inward' = Inward \o z
    BY <1>1, <2>3, <2>4, ComingGrows
  <2> QED  BY <1>1, <2>3, <2>5, ShakingGrow
<1> QED  BY <1>2, <1>3

LEMMA ShakingLeave ==
    ASSUME Shape, Shaking, Leave
    PROVE  Shaking'
<1>1. sock = "up" /\ sock' = "fin" /\ UNCHANGED <<conf, gave, tls, in, pend, got, out, todo, job, reply>>
  BY DEF Leave, bufVars
<1>2. CASE ~conf.tls
  BY <1>1, <1>2 DEF Shaking
<1>3. CASE conf.tls
  <2> DEFINE z == <<"bye">>
  <2>0. wire' = Append(wire, "bye")
    BY <1>3 DEF Leave
  <2>1. wire' = wire \o z
    BY <2>0, ComingParts DEF Texts
  <2>2. z \in Texts /\ Hand(z) = <<>>
    BY OneText, HandOne DEF Marks, Handshakes
  <2> HIDE DEF z
  <2>3. Inward' = Inward \o z
    BY <1>1, <2>1, <2>2, ComingGrows
  <2> QED  BY <1>1, <2>2, <2>3, ShakingGrow
<1> QED  BY <1>2, <1>3

\* The messages that have still to come are a text.
LEMMA HandDue ==
    ASSUME Shape
    PROVE  Due \in Texts
<1>1. <<"sh", "cert">> \in Texts /\ <<"cert">> \in Texts /\ <<"sfin">> \in Texts /\ <<>> \in Texts
  BY OneText, EmptyTexts DEF Texts, Marks, Handshakes
<1> QED  BY <1>1 DEF Due

LEMMA ShakingNet ==
    ASSUME Shape, Shaking, NetFails
    PROVE  Shaking'
<1>1. sock = "up" /\ UNCHANGED <<conf, gave, tls, in, pend, got, out, todo, job, reply>>
  BY DEF NetFails, bufVars, streamHist
<1>2. CASE ~conf.tls
  BY <1>1, <1>2 DEF Shaking
<1>3. CASE wire' = wire
  BY <1>1, <1>3, ShakingStill
<1>4. CASE conf.tls /\ \E n \in 0 .. Len(wire) : wire' = SubSeq(wire, 1, n)
  <2>1. PICK n \in 0 .. Len(wire) : wire' = SubSeq(wire, 1, n)
    BY <1>4
  <2>2. n \in Nat /\ n <= Len(wire) /\ wire \in Texts
    BY ComingParts DEF Texts
  <2> DEFINE z == SubSeq(wire, n + 1, Len(wire))
             x == Inward'
             e == Due
  <2>3. wire' \in Texts /\ z \in Texts /\ wire = wire' \o z
    BY <2>1, <2>2, CutInTwo DEF Texts
  <2>4. x \in Texts
    <3>1. Inside(in, pend, wire') \in Texts
      BY <2>3, ComingParts, InsideIs
    <3> QED  BY <1>1, <3>1, ComingIs
  <2> HIDE DEF z
  <2>5. Inward = x \o z
    BY <1>1, <2>3, ComingShrinks
  <2>6. e \in Texts /\ Due' = e /\ IsPrefix(Hand(Inward), e)
    BY <1>1, <1>4, HandDue DEF Shaking, Due
  <2> HIDE DEF x, e
  <2>7. Hand(Inward) = Hand(x) \o Hand(z) /\ Hand(x) \in Texts /\ Hand(z) \in Texts
    BY <2>3, <2>4, <2>5, HandConcat
  <2>8. IsPrefix(Hand(x), e)
    <3> DEFINE h == Hand(x)
               k == Hand(z)
    <3>1. h \in Texts /\ k \in Texts /\ IsPrefix(h \o k, e)
      BY <2>6, <2>7
    <3> HIDE DEF h, k
    <3>0. h \o k \in Texts
      BY <3>1, TextsConcat
    <3>2. PICK v \in Texts : e = (h \o k) \o v
      BY <2>6, <3>0, <3>1, PrefixTexts
    <3>3. e = h \o (k \o v) /\ k \o v \in Texts
      <4>1. (h \o k) \o v = h \o (k \o v) /\ k \o v \in Texts
        <5>1. Joins(h, k, v)
          BY ONLY <3>1, v \in Texts, TextJoined, Zenon
        <5>2. k \in Texts
          BY <3>1
        <5>3. k \o v \in Texts
          BY ONLY <5>2, v \in Texts, TextsConcat
        <5> QED  BY ONLY <5>1, <5>3, Zenon DEF Joins
      <4> QED  BY <3>2, <4>1
    <3>4. IsPrefix(h, e)
      <4> DEFINE m == k \o v
      <4>1. m \in Texts /\ e = h \o m
        BY <3>3
      <4> HIDE DEF m
      <4> QED  BY <2>6, <3>1, <4>1, PrefixTexts
    <3> QED  BY <3>4 DEF h
  <2>9. IsPrefix(Hand(Inward'), Due')
    BY <2>6, <2>8 DEF x
  <2>10. \A v : Sent(v)' <=> Sent(v)
    BY <1>1 DEF Sent
  <2>11. Agrees(conf)' = Agrees(conf) /\ Accepts(conf)' = Accepts(conf) /\ Range(todo') = Range(todo)
    BY <1>1 DEF Agrees, Accepts, Versions
  <2> QED  BY <1>1, <1>4, <2>9, <2>10, <2>11 DEF Shaking
<1> QED  BY <1>1, <1>2, <1>3, <1>4 DEF NetFails

LEMMA ShakingGreet ==
    ASSUME Shape, Shaking, Greet
    PROVE  Shaking'
<1>1. PICK n \in {1, 2} : /\ gave = n - 1 /\ (IF n = 1 THEN "hello" ELSE "fin") \in Range(got)
                          /\ gave' = n /\ wire' = wire \o Flights(conf)[n]
  BY DEF Greet
<1>2. sock = "up" /\ conf.tls /\ UNCHANGED <<conf, sock, tls, in, pend, got, out, todo, job, reply>>
  BY DEF Greet, bufVars, streamHist
<1> DEFINE f == Flights(conf)[n]
           i == Inward
<1>3. /\ IsPrefix(Hand(i), Due) /\ (gave = 0 => tls.step <= 2) /\ (gave = 1 => tls.step \in 2 .. 5)
      /\ (Sent("hello") => tls.step >= 2) /\ (Sent("fin") => tls.step >= 5) /\ tls.step \in 1 .. 6
  BY <1>2 DEF Shaking, Shape, BufTypeOK
<1>4. tls.step = (IF n = 1 THEN 2 ELSE 5)
  <2>1. CASE n = 1
    <3>1. Sent("hello")
      BY <1>1, <2>1 DEF Sent
    <3> QED  BY <1>1, <1>3, <2>1, <3>1
  <2>2. CASE n = 2
    <3>1. Sent("fin")
      BY <1>1, <2>2 DEF Sent
    <3> QED  BY <1>1, <1>3, <2>2, <3>1
  <2> QED  BY <2>1, <2>2
<1>5. Due = <<>>
  BY <1>1, <1>4 DEF Due
<1>6. f \in Texts /\ i \in Texts
  BY FlightTexts, ComingParts
<1>7. Hand(f) = Due'
  <2>1. CASE n = 1
    <3>1. f = <<"sh", "cert">> /\ Due' = <<"sh", "cert">>
      BY <1>1, <1>2, <1>4, <2>1, FlightsAre DEF Due
    <3>2. f \in Seq(Handshakes)
      BY <3>1 DEF Handshakes
    <3> QED  BY <3>1, <3>2, OnlySame DEF Hand
  <2>2. CASE n = 2
    <3>1. f \in {<<"sfin", "ticket">>, <<"sfin">>} /\ Due' = <<"sfin">>
      BY <1>1, <1>2, <1>4, <2>2, FlightsAre DEF Due
    <3>2. Hand(<<"sfin">>) = <<"sfin">> /\ Hand(<<"ticket">>) = <<>>
      BY HandOne DEF Handshakes
    <3>3. <<"sfin">> \in Texts /\ <<"ticket">> \in Texts
      BY OneText DEF Marks, Handshakes
    <3>4. <<"sfin", "ticket">> = <<"sfin">> \o <<"ticket">>
      OBVIOUS
    <3>5. Hand(<<"sfin">> \o <<"ticket">>) = <<"sfin">> \o <<>>
      BY <3>2, <3>3, HandConcat
    <3>6. Hand(<<"sfin", "ticket">>) = <<"sfin">>
      BY <3>3, <3>4, <3>5, TextEmpty
    <3> QED  BY <3>1, <3>2, <3>6
  <2> QED  BY <2>1, <2>2
<1>8. Inward' = i \o f
  <2> HIDE DEF f
  <2> QED  BY <1>1, <1>2, <1>6, ComingGrows DEF f
<1> HIDE DEF f, i
<1>9. Hand(i \o f) = Hand(i) \o Due' /\ Hand(i) \in Texts /\ Hand(f) \in Texts
  BY <1>6, <1>7, HandConcat
<1>10. Hand(i) = <<>>
  BY <1>3, <1>5, <1>9, EmptyPrefix
<1>11. Hand(Inward') = Due' /\ Due' \in Texts
  BY <1>7, <1>8, <1>9, <1>10, TextEmpty
<1>12. IsPrefix(Hand(Inward'), Due')
  <2> DEFINE e == Due'
             h == Hand(Inward')
  <2>1. e \in Texts /\ h = e
    BY <1>11
  <2> HIDE DEF e, h
  <2>2. IsPrefix(h, e)
    BY <2>1, EmptyPrefix
  <2> QED  BY <2>2 DEF e, h
<1>13. \A v : Sent(v)' <=> Sent(v)
  BY <1>2 DEF Sent
<1>14. Agrees(conf)' = Agrees(conf) /\ Accepts(conf)' = Accepts(conf) /\ Range(todo') = Range(todo)
  BY <1>2 DEF Agrees, Accepts, Versions
<1>15. /\ gave' = 0 => tls'.step <= 2
       /\ gave' = 1 => tls'.step \in 2 .. 5
       /\ gave' = 2 => tls'.step \in 5 .. 6
  BY <1>1, <1>2, <1>4
<1> QED  BY <1>2, <1>12, <1>13, <1>14, <1>15 DEF Shaking

LEMMA ShakingSend ==
    ASSUME Shape, Shaking, NEW d \in Row, Send(d)
    PROVE  Shaking'
<1>1. UNCHANGED <<conf, sock, wire, gave, tls, in, pend, got, out>> /\ job' = "send"
      /\ (conf.tls => todo' = Append(d, "mac"))
  BY DEF Send, Start, bufVars
<1>2. CASE ~conf.tls
  BY <1>1, <1>2 DEF Shaking
<1>3. CASE conf.tls
  <2>1. Inward' = Inward /\ \A v : Sent(v)' <=> Sent(v)
    BY <1>1 DEF Inward, Sent
  <2>2. \A u \in {"hello", "fin"} : u \notin Range(todo')
    <3>1. \A u \in {"hello", "fin"} : u \notin Byte
      BY MarkNoByte DEF Marks, Handshakes
    <3>2. d \in Seq(Byte)
      BY DEF Row
    <3>3. \A i \in DOMAIN Append(d, "mac") : Append(d, "mac")[i] \in Byte \/ Append(d, "mac")[i] = "mac"
      <4>1. Len(d) \in Nat /\ \A i \in 1 .. Len(d) : d[i] \in Byte
        BY <3>2
      <4> DEFINE w == Append(d, "mac")
      <4>2. /\ DOMAIN w = 1 .. Len(d) + 1
            /\ \A i \in 1 .. Len(d) : w[i] = d[i]
            /\ w[Len(d) + 1] = "mac"
        BY <3>2
      <4> HIDE DEF w
      <4>3. \A i \in DOMAIN w : w[i] \in Byte \/ w[i] = "mac"
        BY <4>1, <4>2
      <4> QED  BY <4>3 DEF w
    <3> QED  BY <1>1, <1>3, <3>1, <3>3 DEF Range
  <2> QED  BY <1>1, <1>3, <2>1, <2>2, ShakingKept
<1>4. conf.tls \in BOOLEAN
  BY TlsBoolean
<1> QED  BY <1>2, <1>3

LEMMA ShakingClose ==
    ASSUME Shape, Shaking, Close
    PROVE  Shaking'
<1>1. UNCHANGED <<conf, sock, wire, gave, tls, in, pend, got, todo>> /\ job' = "close"
      /\ (out' = out \/ out' = Append(out, "bye"))
  BY DEF Close, Start
<1>2. Inward' = Inward /\ Range(todo') = Range(todo)
  BY <1>1 DEF Inward
<1>3. Range(out') \subseteq Range(out) \cup {"bye"}
  <2>1. CASE out' = Append(out, "bye")
    <3> DEFINE z == <<"bye">>
    <3>1. out' = out \o z /\ out \in Texts
      BY <2>1 DEF Shape, BufTypeOK, Texts
    <3>2. z \in Texts /\ Range(z) = {"bye"}
      BY OneText, RangeOne DEF Marks
    <3> HIDE DEF z
    <3> QED  BY <3>1, <3>2, RangeConcat
  <2> QED  BY <1>1, <2>1
<1>4. \A v \in {"hello", "fin"} : Sent(v)' => Sent(v)
  BY <1>1, <1>3 DEF Sent
<1> QED  BY <1>1, <1>2, <1>4, ShakingKept

LEMMA ShakingConnect ==
    ASSUME Shape, Connect
    PROVE  Shaking'
<1>1. /\ wire' = <<>> /\ in' = <<>> /\ pend' = <<>> /\ got' = <<>> /\ out' = <<>> /\ gave' = 0 /\ tls' = Fresh0
      /\ todo' = todo /\ reply' = Pending
  BY DEF Connect, Start
<1>2. Inward' = <<>>
  BY <1>1, EmptyTexts, TextEmpty DEF Inward
<1>3. Hand(Inward') = <<>> /\ Due' = <<>> /\ tls'.step = 1
  BY <1>1, <1>2, OnlyEmpty, FreshTls DEF Hand, Due
<1>4. IsPrefix(Hand(Inward'), Due')
  BY <1>3, EmptyTexts, EmptyPrefix
<1>5. \A v : ~Sent(v)'
  BY <1>1, EmptyRow DEF Sent
<1>6. reply' # Said("ok")
  BY <1>1, SaidIs
<1>7. Range(todo') = {}
  <2>1. todo = <<>>
    BY DEF Shape, Results, Connect, Start
  <2> QED  BY <1>1, <2>1, EmptyRow
<1> QED  BY <1>1, <1>3, <1>4, <1>5, <1>6, <1>7 DEF Shaking

-----------------------------------------------------------------------------
(* Every step of the connection keeps all of this.                         *)

\* The parts of the invariant.
LEMMA InvParts ==
    TransportInv <=> /\ Shape /\ Delivered /\ Received /\ Records /\ Connecting /\ Asks /\ Shaking
BY DEF TransportInv

\* A step that changes where the call is, and no more.
LEMMA StillKeeps ==
    ASSUME TransportInv, Shape', UNCHANGED <<conf, sock, wire, got, gave, bufVars, todo, streamHist>>,
           job' = "connect" => job = "connect",
           job' = "connect" => (reply' = Said("ok") <=> reply = Said("ok")) \/ ~conf.tls,
           reply' # Said("ok") => reply # Said("ok")
    PROVE  TransportInv'
<1>1. Shape /\ Delivered /\ Received /\ Records /\ Connecting /\ Asks /\ Shaking
  BY InvParts
<1>2. Delivered'
  BY <1>1, DeliveredKept DEF bufVars, streamHist
<1>3. Received'
  BY <1>1, ReceivedKept DEF bufVars, streamHist
<1>4. Records'
  BY <1>1, RecordsKept DEF bufVars, streamHist
<1>5. Connecting' /\ Asks'
  BY <1>1, ConnectingKept, AsksKept DEF bufVars, streamHist
<1>6. Shaking'
  <2>1. CASE ~conf.tls
    BY <2>1 DEF Shaking
  <2>2. CASE ~(job' = "connect" /\ reply' = Said("ok") /\ ~(job = "connect" /\ reply = Said("ok")))
    BY <1>1, <2>2, ShakingStill DEF bufVars
  <2> QED  BY <2>1, <2>2
<1> QED  BY <1>2, <1>3, <1>4, <1>5, <1>6 DEF TransportInv

\* Every step of a call keeps the invariant.
LEMMA QueueKeeps ==
    ASSUME TransportInv, Queue
    PROVE  TransportInv'
<1>1. Shape /\ Delivered /\ Received /\ Records /\ Connecting /\ Asks /\ Shaking
  BY InvParts
<1>2. Shape' /\ Delivered' /\ Shaking'
  BY <1>1, QueueShape, DeliveredQueue, ShakingQueue
<1>3. UNCHANGED <<conf, sock, wire, in, pend, job, reply, asked, said, bye, heard>> /\ at = "op"
  BY DEF Queue, streamHist
<1>4. /\ tls'.plain = tls.plain /\ tls'.rec = tls.rec /\ tls'.shut = tls.shut
      /\ tls' = tls \/ (job = "connect" /\ Outgoing # <<>>)
  <2>1. tls' = tls \/ (job # "send" /\ tls' = [tls EXCEPT !.step = tls.step + 1] /\ Outgoing # <<>>)
    BY DEF Queue
  <2>2. job # "send" /\ Outgoing # <<>> => job = "connect"
    BY <1>1, OutgoingIs
  <2> QED  BY <1>1, <2>1, <2>2 DEF Shape, BufTypeOK
<1>5. Coming' = Coming /\ Sealing' = Sealing
  BY <1>3, <1>4 DEF Coming, Sealing, Inward
<1>6. Received' /\ Records'
  BY <1>1, <1>3, <1>4, <1>5, ReceivedSame, RecordsSame
<1>7. Connecting'
  BY <1>1, <1>3, ConnectingKept
<1>8. Asks'
  <2>1. job = "connect" => asked = <<>>
    BY <1>1, <1>3, UnderWay
  <2> QED  BY <1>1, <1>3, <1>4, <2>1, AsksKept
<1> QED  BY <1>2, <1>6, <1>7, <1>8 DEF TransportInv

LEMMA TakeKeeps ==
    ASSUME TransportInv, Take
    PROVE  TransportInv'
<1>1. Shape /\ Delivered /\ Received /\ Records /\ Connecting /\ Asks /\ Shaking
  BY InvParts
<1>2. Shape' /\ Received' /\ Records' /\ Shaking'
  BY TakeShape, ReceivedTake, RecordsTake, ShakingTake
<1>3. UNCHANGED <<conf, sock, got, out, todo, job, reply, asked, said, bye, heard>> /\ at = "op"
  BY DEF Take, streamHist
<1>4. Delivered' /\ Connecting'
  BY <1>1, <1>3, DeliveredKept, ConnectingKept
<1>5. Asks'
  <2>1. job = "connect" => asked = <<>>
    BY <1>1, <1>3, UnderWay
  <2>2. job # "connect" => tls'.step = tls.step
    <3>1. \/ job = "connect"
          \/ tls' = [tls EXCEPT !.plain = tls.rec, !.rec = <<>>]
          \/ tls' = [tls EXCEPT !.shut = TRUE]
          \/ tls' = tls
          \/ tls' = [tls EXCEPT !.rec = Append(tls.rec, Head(in))]
      BY TakeIs
    <3> QED  BY <1>1, <3>1 DEF Shape, BufTypeOK
  <2> QED  BY <1>1, <1>3, <2>1, <2>2, AsksKept
<1> QED  BY <1>2, <1>4, <1>5 DEF TransportInv

LEMMA WantsKeeps ==
    ASSUME TransportInv, Wants
    PROVE  TransportInv'
<1>1. Shape
  BY InvParts
<1>2. Shape'
  BY <1>1, WantsShape
<1> QED  BY <1>2, StillKeeps DEF Wants

LEMMA DoneKeeps ==
    ASSUME TransportInv, Done
    PROVE  TransportInv'
<1>1. Shape /\ Delivered /\ Received /\ Records /\ Connecting /\ Asks /\ Shaking
  BY InvParts
<1>2. Shape' /\ Received' /\ Records' /\ Shaking'
  BY <1>1, DoneShape, ReceivedDone, RecordsDone, ShakingDone
<1>3. UNCHANGED <<conf, sock, got, out, todo, job, asked, said, bye>> /\ at = "op"
  BY DEF Done
<1>4. Delivered'
  BY <1>1, <1>3, DeliveredKept
<1>5. Connecting'
  BY DEF Done, Answer, Connecting
<1>6. Asks'
  <2>1. tls'.step = tls.step
    <3>1. CASE job # "recv"
      <4>1. tls' = tls
        BY <1>1, <3>1 DEF Done, Shape, Places
      <4> QED  BY <4>1
    <3>2. CASE job = "recv"
      <4>1. PICK y \in Row : tls' = [tls EXCEPT !.plain = y]
        BY <1>1, <3>2, DoneIs
      <4> QED  BY <1>1, <4>1 DEF Shape, BufTypeOK
    <3> QED  BY <3>1, <3>2
  <2> QED  BY <1>1, <1>3, <2>1, AsksKept
<1> QED  BY <1>2, <1>4, <1>5, <1>6 DEF TransportInv

\* What a call that fails leaves of the parts.
LEMMA FailsRest ==
    ASSUME TransportInv, Fails, at # "idle", UNCHANGED <<conf, wire, got, in, pend, tls, todo, streamHist>>,
           out' = out \/ sock = "cut"
    PROVE  Delivered' /\ Received' /\ Records' /\ Connecting' /\ Asks'
<1>1. Shape /\ Delivered /\ Received /\ Records /\ Connecting /\ Asks
  BY InvParts
<1>2. /\ job' = job /\ sock' = (IF job = "connect" THEN "none" ELSE sock) /\ sock # "none"
      /\ reply # Said("ok") /\ (job = "connect" => asked = <<>>)
  BY <1>1, FailsIs, UnderWay
<1>3. UNCHANGED <<asked, said, bye, heard>>
  BY DEF streamHist
<1>4. Delivered'
  BY <1>1, <1>2, <1>3, DeliveredKept
<1>5. Received'
  BY <1>1, <1>2, <1>3, ReceivedKept
<1>6. Records'
  BY <1>1, <1>2, <1>3, RecordsKept
<1>7. Connecting' /\ Asks'
  BY <1>1, <1>2, <1>3, ConnectingKept, AsksKept
<1> QED  BY <1>4, <1>5, <1>6, <1>7

\* A call that fails keeps the invariant.
LEMMA FailsKeeps ==
    ASSUME TransportInv, Fails, Shape', at # "idle",
           UNCHANGED <<conf, wire, got, gave, bufVars, todo, streamHist>>
    PROVE  TransportInv'
<1>1. Shape /\ Shaking /\ Connecting
  BY InvParts
<1>2. Delivered' /\ Received' /\ Records' /\ Connecting' /\ Asks'
  BY FailsRest DEF bufVars
<1>3. reply' # Said("ok") /\ (sock' # "none" => sock # "none")
  BY <1>1, FailsReply, FailsIs
<1>4. Shaking'
  BY <1>1, <1>3, ShakingStill DEF bufVars
<1> QED  BY <1>2, <1>4 DEF TransportInv

LEMMA RefusedKeeps ==
    ASSUME TransportInv, Refused
    PROVE  TransportInv'
<1>1. Shape
  BY InvParts
<1>2. Shape' /\ at # "idle"
  BY <1>1, RefusedShape DEF Refused
<1> QED  BY <1>2, FailsKeeps DEF Refused

LEMMA FlushOutKeeps ==
    ASSUME TransportInv, FlushOut
    PROVE  TransportInv'
<1>1. Shape /\ Delivered /\ Received /\ Records /\ Connecting /\ Asks /\ Shaking
  BY InvParts
<1>2. Shape' /\ Delivered' /\ Shaking'
  BY <1>1, FlushOutShape, DeliveredFlush, ShakingFlush
<1>3. UNCHANGED <<conf, sock, wire, in, pend, tls, job, asked, said, bye, heard>> /\ at # "idle"
  BY DEF FlushOut, streamHist
<1>4. reply # Said("ok")
  BY <1>1, <1>3, UnderWay
<1>5. Received' /\ Records' /\ Connecting' /\ Asks'
  BY <1>1, <1>3, <1>4, ReceivedKept, RecordsKept, ConnectingKept, AsksKept
<1> QED  BY <1>2, <1>5 DEF TransportInv

LEMMA FlushFailsKeeps ==
    ASSUME TransportInv, FlushFails
    PROVE  TransportInv'
<1>1. Shape /\ Delivered /\ Received /\ Records /\ Connecting /\ Asks /\ Shaking
  BY InvParts
<1>2. Shape' /\ Shaking'
  BY <1>1, FlushFailsShape, ShakingFlushFails
<1>3. UNCHANGED <<conf, wire, got, in, pend, tls, todo, streamHist>> /\ at # "idle" /\ sock = "cut"
  BY DEF FlushFails
<1>4. CASE at = "bye"
  <2>1. UNCHANGED <<sock, reply, job, asked, said, bye, heard>>
    BY <1>3, <1>4 DEF FlushFails, streamHist
  <2>2. Delivered'
    BY <1>1, <1>3, <2>1, DeliveredKept
  <2>3. Received' /\ Records' /\ Connecting' /\ Asks'
    BY <1>1, <1>3, <2>1, ReceivedKept, RecordsKept, ConnectingKept, AsksKept
  <2> QED  BY <1>2, <2>2, <2>3 DEF TransportInv
<1>5. CASE at # "bye"
  <2>1. Fails
    BY <1>5 DEF FlushFails
  <2>2. Delivered' /\ Received' /\ Records' /\ Connecting' /\ Asks'
    BY <1>3, <2>1, FailsRest
  <2> QED  BY <1>2, <2>2 DEF TransportInv
<1> QED  BY <1>4, <1>5

LEMMA FillKeeps ==
    ASSUME TransportInv, Fill
    PROVE  TransportInv'
<1>1. Shape /\ Delivered /\ Received /\ Records /\ Connecting /\ Asks /\ Shaking
  BY InvParts
<1>2. Shape' /\ Received' /\ Records' /\ Inward' = Inward
  BY <1>1, FillShape, ReceivedFill, RecordsFill
<1>3. UNCHANGED <<conf, sock, got, gave, out, tls, job, todo, reply, asked, said, bye, heard>>
  BY DEF Fill, streamHist
<1>4. Delivered' /\ Connecting' /\ Asks'
  BY <1>1, <1>3, DeliveredKept, ConnectingKept, AsksKept
<1>5. Shaking'
  <2>1. \A v : Sent(v)' <=> Sent(v)
    BY <1>3 DEF Sent
  <2> QED  BY <1>1, <1>2, <1>3, <2>1, ShakingKept
<1> QED  BY <1>2, <1>4, <1>5 DEF TransportInv

LEMMA ReadKeeps ==
    ASSUME TransportInv, Read
    PROVE  TransportInv'
<1>1. Shape /\ Delivered /\ Received /\ Records /\ Connecting /\ Asks /\ Shaking
  BY InvParts
<1>2. Shape' /\ Received' /\ Records' /\ (conf.tls => Inward' = Inward)
  BY <1>1, ReadShape, ReceivedRead, RecordsRead
<1>3. UNCHANGED <<conf, sock, got, gave, out, tls, job, todo, asked, said, bye>> /\ at = "read"
  BY DEF Read
<1>4. Delivered' /\ Asks'
  BY <1>1, <1>3, DeliveredKept, AsksKept
<1>5. conf.tls => UNCHANGED <<heard, reply>>
  BY DEF Read
<1>6. job = "connect" => conf.tls
  BY <1>1, <1>3 DEF Shape, Places
<1>7. Connecting'
  <2>1. CASE job = "connect"
    BY <1>1, <1>3, <1>5, <1>6, <2>1, ConnectingKept
  <2>2. CASE job # "connect"
    BY <1>3, <2>2 DEF Connecting
  <2> QED  BY <2>1, <2>2
<1>8. Shaking'
  <2>1. CASE ~conf.tls
    BY <1>3, <2>1 DEF Shaking
  <2>2. CASE conf.tls
    <3>1. \A v : Sent(v)' <=> Sent(v)
      BY <1>3 DEF Sent
    <3> QED  BY <1>1, <1>2, <1>3, <1>5, <2>2, <3>1, ShakingKept
  <2> QED  BY <2>1, <2>2
<1> QED  BY <1>2, <1>4, <1>7, <1>8 DEF TransportInv

LEMMA FinKeeps ==
    ASSUME TransportInv, Fin
    PROVE  TransportInv'
<1>1. Shape
  BY InvParts
<1>2. Shape' /\ at = "read"
  BY <1>1, FinShape DEF Fin
<1>3. CASE conf.tls
  BY <1>2, <1>3, FailsKeeps DEF Fin
<1>4. CASE ~conf.tls
  <2>1. job = "recv"
    BY <1>1, <1>2, <1>4 DEF Shape, Places
  <2>2. UNCHANGED <<conf, sock, wire, got, gave, bufVars, todo, streamHist, job>>
    BY <1>4 DEF Fin
  <2>3. reply # Said("ok")
    BY <1>1, <1>2, InvParts, UnderWay
  <2> QED  BY <1>2, <2>1, <2>2, <2>3, StillKeeps
<1> QED  BY <1>3, <1>4

LEMMA ReadFailsKeeps ==
    ASSUME TransportInv, ReadFails
    PROVE  TransportInv'
<1>1. Shape
  BY InvParts
<1>2. Shape' /\ at # "idle"
  BY <1>1, ReadFailsShape DEF ReadFails
<1>3. Fails /\ UNCHANGED <<conf, wire, got, gave, bufVars, todo, streamHist>>
  BY DEF ReadFails
<1> QED  BY <1>2, <1>3, FailsKeeps

\* Once it is closed nothing is left of a connection.
LEMMA NoneKeeps ==
    ASSUME Shape', sock' = "none", asked' = <<>>
    PROVE  TransportInv'
BY DEF TransportInv, Delivered, Received, Records, Connecting, Asks, Shaking

LEMMA PlainKeeps ==
    ASSUME TransportInv, Plain
    PROVE  TransportInv'
<1>1. Shape /\ Delivered /\ Received /\ Records /\ Connecting /\ Asks /\ Shaking
  BY InvParts
<1>2. Shape'
  BY <1>1, PlainShape
<1>3. CASE at = "up" /\ Answer(Said("ok"))
           /\ UNCHANGED <<conf, sock, wire, got, gave, bufVars, job, todo, want, trouble, streamHist, blame>>
  <2>1. ~conf.tls /\ reply # Said("ok")
    BY <1>1, <1>3, UnderWay DEF Shape, Places
  <2> QED  BY <1>2, <1>3, <2>1, StillKeeps
<1>4. CASE /\ at = "write" /\ sock # "cut"
           /\ \E n \in 0 .. Len(todo) :
                 /\ n = 0 <=> todo = <<>>
                 /\ got' = got \o SubSeq(todo, 1, n) /\ todo' = SubSeq(todo, n + 1, Len(todo))
                 /\ IF n = 0 THEN Answer(Said("ok")) ELSE UNCHANGED <<at, reply>>
           /\ UNCHANGED <<conf, sock, wire, gave, bufVars, job, want, trouble, streamHist, blame>>
  <2>1. ~conf.tls /\ reply # Said("ok") /\ job = "send"
    BY <1>1, <1>4, UnderWay DEF Shape, Places
  <2>2. UNCHANGED <<conf, sock, wire, gave, out, in, pend, tls, job, asked, said, bye, heard>>
    BY <1>4 DEF bufVars, streamHist
  <2>3. Delivered'
    BY <1>1, <1>2, <1>4, <2>1, <2>2, DeliveredWrite
  <2>4. Received' /\ Records' /\ Connecting' /\ Asks'
    BY <1>1, <2>1, <2>2, ReceivedKept, RecordsKept, ConnectingKept, AsksKept
  <2>5. Shaking'
    BY <2>1, <2>2 DEF Shaking
  <2> QED  BY <1>2, <2>3, <2>4, <2>5 DEF TransportInv
<1>5. CASE /\ at = "write" /\ sock = "cut" /\ Fails
           /\ UNCHANGED <<conf, wire, got, gave, bufVars, todo, want, trouble, streamHist, blame>>
  BY <1>2, <1>5, FailsKeeps
<1>6. CASE sock' = "none" /\ asked' = <<>>
  BY <1>2, <1>6, NoneKeeps
<1> QED  BY <1>3, <1>4, <1>5, <1>6 DEF Plain

\* So any step of any call does.
LEMMA PumpKeeps ==
    ASSUME TransportInv, Pump
    PROVE  TransportInv'
BY QueueKeeps, TakeKeeps, WantsKeeps, DoneKeeps, RefusedKeeps, FlushOutKeeps, FlushFailsKeeps, FillKeeps,
   ReadKeeps, FinKeeps, ReadFailsKeeps, PlainKeeps DEF Pump

\* The beginning of every call keeps it as well,
LEMMA ConnectKeeps ==
    ASSUME TransportInv, Connect
    PROVE  TransportInv'
<1>1. Shape
  BY InvParts
<1>2. Shape' /\ Shaking'
  BY <1>1, ConnectShape, ShakingConnect
<1>3. /\ wire' = <<>> /\ in' = <<>> /\ pend' = <<>> /\ got' = <<>> /\ out' = <<>> /\ tls' = Fresh0
      /\ todo' = todo /\ reply' = Pending /\ sock' = "up"
      /\ asked' = <<>> /\ said' = <<>> /\ bye' = FALSE /\ heard' = <<>>
  BY DEF Connect, Start
<1>4. todo = <<>>
  BY <1>1 DEF Shape, Results, Connect, Start
<1>5. App(<<>>) = <<>> /\ <<>> \o <<>> = <<>> /\ IsPrefix(<<>>, <<>>)
  BY EmptyTexts, TextEmpty, EmptyPrefix, OnlyEmpty DEF App
<1>6. Delivered'
  <2>1. App(got') = <<>> /\ App(out') = <<>> /\ App(todo') = <<>>
    BY <1>3, <1>4, <1>5
  <2> QED  BY <1>3, <1>5, <2>1 DEF Delivered
<1>7. Inward' = <<>> /\ tls'.rec = <<>> /\ tls'.plain = <<>> /\ ~tls'.shut
  BY <1>3, <1>5, FreshTls DEF Inward
<1>8. Coming' = <<>> /\ Sealing' = <<>>
  BY <1>5, <1>7 DEF Coming, Sealing
<1>9. Received'
  BY <1>3, <1>5, <1>8 DEF Received
<1>10. Records'
  BY <1>3, <1>7, <1>8, EmptyWhole DEF Records
<1>11. Connecting' /\ Asks'
  BY <1>3 DEF Connecting, Asks
<1> QED  BY <1>2, <1>6, <1>9, <1>10, <1>11 DEF TransportInv

LEMMA ConnectFailsKeeps ==
    ASSUME TransportInv, ConnectFails
    PROVE  TransportInv'
<1>1. Shape /\ Asks
  BY InvParts
<1>2. Shape'
  BY <1>1, ConnectFailsShape
<1>3. sock' = "none" /\ asked' = <<>>
  BY <1>1 DEF ConnectFails, Asks, streamHist
<1> QED  BY <1>2, <1>3, NoneKeeps

LEMMA SendKeeps ==
    ASSUME TransportInv, NEW d \in Row, Send(d), sock # "none", job \in {"connect", "recv"}
    PROVE  TransportInv'
<1>1. Shape /\ Delivered /\ Received /\ Records /\ Connecting /\ Asks /\ Shaking
  BY InvParts
<1>2. Shape' /\ Shaking'
  BY <1>1, SendShape, ShakingSend
<1>3. /\ UNCHANGED <<conf, sock, wire, got, gave, out, in, pend, tls, said, bye, heard>>
      /\ job' = "send" /\ at = "idle"
  BY DEF Send, Start, bufVars
<1>4. todo = <<>>
  BY <1>1, <1>3 DEF Shape, Results
<1>5. Delivered'
  BY <1>1, <1>4, DeliveredSend
<1>6. Received' /\ Records'
  BY <1>1, <1>3, ReceivedKept, RecordsKept
<1>7. Connecting'
  BY <1>3 DEF Connecting
<1>8. Asks'
  <2>1. conf.tls => tls.step = 6
    <3>1. CASE job = "connect"
      BY <1>1, <1>3, <3>1 DEF Shape, Results, Shaking
    <3>2. CASE job = "recv"
      <4>1. conf.tls => tls.step > 5 /\ tls.step \in 1 .. 6
        BY <1>1, <3>2, ScriptIs DEF Shape, TransportTypeOK, BufTypeOK
      <4> QED  BY <4>1
    <3> QED  BY <3>1, <3>2
  <2> QED  BY <1>3, <2>1 DEF Asks
<1> QED  BY <1>2, <1>5, <1>6, <1>7, <1>8 DEF TransportInv

LEMMA RecvKeeps ==
    ASSUME TransportInv, Recv, job \in {"send", "recv"}, reply # Said("error")
    PROVE  TransportInv'
<1>1. Shape
  BY InvParts
<1>2. Shape'
  BY <1>1, RecvShape
<1>3. UNCHANGED <<conf, sock, wire, got, gave, bufVars, todo, streamHist>> /\ job' = "recv"
  BY DEF Recv, Start
<1>4. Shape /\ Delivered /\ Received /\ Records /\ Connecting /\ Asks /\ Shaking
  BY InvParts
<1>5. Delivered'
  BY <1>3, <1>4, DeliveredKept DEF bufVars, streamHist
<1>6. Received' /\ Records' /\ Asks'
  BY <1>3, <1>4, ReceivedKept, RecordsKept, AsksKept DEF bufVars, streamHist
<1>7. Connecting'
  BY <1>3 DEF Connecting
<1>8. Shaking'
  BY <1>3, <1>4, ShakingStill DEF bufVars
<1> QED  BY <1>2, <1>5, <1>6, <1>7, <1>8 DEF TransportInv

LEMMA CloseKeeps ==
    ASSUME TransportInv, Close, job \in {"send", "recv"}
    PROVE  TransportInv'
<1>1. Shape /\ Delivered /\ Received /\ Records /\ Connecting /\ Asks /\ Shaking
  BY InvParts
<1>2. Shape' /\ Delivered' /\ Shaking'
  BY <1>1, CloseShape, DeliveredClose, ShakingClose
<1>3. UNCHANGED <<conf, sock, wire, in, pend, tls, asked, said, bye, heard>> /\ job' = "close"
  BY DEF Close, Start, streamHist
<1>4. Received' /\ Records' /\ Asks'
  BY <1>1, <1>3, ReceivedKept, RecordsKept, AsksKept
<1>5. Connecting'
  BY <1>3 DEF Connecting
<1> QED  BY <1>2, <1>4, <1>5 DEF TransportInv

\* and so does all that the other end does.
LEMMA GreetKeeps ==
    ASSUME TransportInv, Greet
    PROVE  TransportInv'
<1>1. Shape /\ Delivered /\ Received /\ Records /\ Connecting /\ Asks /\ Shaking
  BY InvParts
<1>2. Shape' /\ Received' /\ Records' /\ Shaking'
  BY <1>1, GreetShape, ReceivedGreet, RecordsGreet, ShakingGreet
<1>3. UNCHANGED <<conf, sock, got, out, todo, tls, job, reply, asked, said, bye, heard>>
  BY DEF Greet, bufVars, streamHist
<1>4. Delivered' /\ Connecting' /\ Asks'
  BY <1>1, <1>3, DeliveredKept, ConnectingKept, AsksKept
<1> QED  BY <1>2, <1>4 DEF TransportInv

LEMMA SpeakKeeps ==
    ASSUME TransportInv, NEW d \in Row, d # <<>>, Speak(d), ~(job = "connect" /\ reply # Said("ok"))
    PROVE  TransportInv'
<1>1. Shape /\ Delivered /\ Received /\ Records /\ Connecting /\ Asks /\ Shaking
  BY InvParts
<1>2. Shape' /\ Received' /\ Records' /\ Shaking'
  BY <1>1, SpeakShape, ReceivedSpeak, RecordsSpeak, ShakingSpeak
<1>3. UNCHANGED <<conf, sock, got, out, todo, tls, job, reply, asked, bye, heard>> /\ sock = "up"
  BY DEF Speak, bufVars
<1>4. Delivered' /\ Asks'
  BY <1>1, <1>3, DeliveredKept, AsksKept
<1>5. Connecting'
  BY <1>1, <1>3 DEF Connecting
<1> QED  BY <1>2, <1>4, <1>5 DEF TransportInv

LEMMA LeaveKeeps ==
    ASSUME TransportInv, Leave, ~(job = "connect" /\ reply # Said("ok"))
    PROVE  TransportInv'
<1>1. Shape /\ Delivered /\ Received /\ Records /\ Connecting /\ Asks /\ Shaking
  BY InvParts
<1>2. Shape' /\ Received' /\ Records' /\ Shaking'
  BY <1>1, LeaveShape, ReceivedLeave, RecordsLeave, ShakingLeave
<1>3. UNCHANGED <<conf, got, out, todo, tls, job, reply, asked, said, heard>> /\ sock = "up" /\ sock' = "fin"
  BY DEF Leave, bufVars
<1>4. Delivered' /\ Asks'
  BY <1>1, <1>3, DeliveredKept, AsksKept
<1>5. Connecting'
  BY <1>1, <1>3 DEF Connecting
<1> QED  BY <1>2, <1>4, <1>5 DEF TransportInv

LEMMA NetKeeps ==
    ASSUME TransportInv, NetFails
    PROVE  TransportInv'
<1>1. Shape /\ Delivered /\ Received /\ Records /\ Connecting /\ Asks /\ Shaking
  BY InvParts
<1>2. Shape' /\ Received' /\ Records' /\ Shaking'
  BY <1>1, NetFailsShape, ReceivedNet, RecordsNet, ShakingNet
<1>3. UNCHANGED <<conf, got, out, todo, tls, job, reply, asked, said, bye, heard>> /\ sock = "up" /\ sock' \in {"cut", "fin"}
  BY DEF NetFails, bufVars, streamHist
<1>4. Delivered' /\ Connecting' /\ Asks'
  BY <1>1, <1>3, DeliveredKept, ConnectingKept, AsksKept
<1> QED  BY <1>2, <1>4 DEF TransportInv

\* It holds where everything begins.
LEMMA TransportStarts == TransportInit => TransportInv
<1> SUFFICES ASSUME TransportInit PROVE TransportInv
  OBVIOUS
<1>1. TransportTypeOK
  <2>1. /\ sock = "none" /\ at = "idle" /\ job = "none" /\ out = <<>> /\ in = <<>> /\ pend = <<>>
        /\ reply = Said("none") /\ tls = Fresh0 /\ want = FALSE /\ blame = FALSE /\ trouble = 0
    BY DEF TransportInit
  <2>2. Len(out) = 0 /\ Len(in) = 0 /\ Len(pend) = 0
    BY <2>1, EmptyRow
  <2>3. reply # Pending
    BY <2>1, SaidIs
  <2>4. tls.step = 1
    BY <2>1, FreshTls
  <2>5. Len(out) <= Pair /\ Len(in) <= Pair /\ Len(pend) <= Chunk /\ trouble \in 0 .. Troubles
    BY <2>1, <2>2, RoomAssumption
  <2>6. tls.step \in 1 .. Len(Script) + 1
    BY <2>4, ScriptIs
  <2> QED  BY <2>1, <2>3, <2>5, <2>6 DEF TransportTypeOK
<1>2. BufTypeOK
  <2>1. /\ conf \in Settings /\ wire = <<>> /\ got = <<>> /\ out = <<>> /\ in = <<>> /\ pend = <<>>
        /\ reply = Said("none") /\ tls = Fresh0 /\ gave = 0 /\ todo = <<>>
        /\ asked = <<>> /\ said = <<>> /\ bye = FALSE /\ heard = <<>>
    BY DEF TransportInit
  <2>2. <<>> \in Texts /\ <<>> \in Row
    BY EmptyTexts, EmptyRow
  <2>3. tls \in [step : 1 .. 6, rec : Row, plain : Row, shut : BOOLEAN]
    BY <2>1, FreshTls
  <2>4. reply \in Replies
    BY <2>1, RepliesAre
  <2>5. gave \in 0 .. 2
    BY <2>1
  <2>6. bye \in BOOLEAN
    BY <2>1
  <2>7. /\ wire \in Texts /\ got \in Texts /\ out \in Texts /\ in \in Texts /\ pend \in Texts
        /\ todo \in Texts /\ asked \in Row /\ said \in Row /\ heard \in Row
    BY <2>1, <2>2
  <2> QED  BY <2>1, <2>3, <2>4, <2>5, <2>6, <2>7, Zenon DEF BufTypeOK, Replies
<1>3. PlainOK
  BY EmptyRow DEF TransportInit, PlainOK
<1>4. Places
  BY DEF TransportInit, Places
<1>5. Results
  BY DEF TransportInit, Results
<1>6. sock = "none" /\ asked = <<>>
  BY DEF TransportInit
<1> QED  BY <1>1, <1>2, <1>3, <1>4, <1>5, <1>6 DEF TransportInv, Shape, Delivered, Received, Records, Connecting, Asks, Shaking

-----------------------------------------------------------------------------
(* The server's alert is not missed: until it is seen it is on its way.    *)

Alerted == conf.tls /\ sock # "none" =>
    /\ bye /\ ~tls.shut => "bye" \in Range(Inward)
    /\ job = "recv" /\ at \in {"pump", "fill", "read"} => ~tls.shut

\* What keeps that the alert is on its way or has been seen.
LEMMA AlertedKept ==
    ASSUME Alerted, UNCHANGED <<conf, bye>>, sock' # "none" => sock # "none",
           conf.tls => tls'.shut = tls.shut /\ Inward' = Inward,
           conf.tls /\ job' = "recv" /\ at' \in {"pump", "fill", "read"} =>
               ~tls.shut \/ (job = "recv" /\ at \in {"pump", "fill", "read"})
    PROVE  Alerted'
BY DEF Alerted

LEMMA AlertedGrows ==
    ASSUME Alerted, UNCHANGED <<conf, bye, tls, job, at>>, sock # "none",
           conf.tls => Range(Inward) \subseteq Range(Inward')
    PROVE  Alerted'
BY DEF Alerted

\* Every step of a call keeps it,
LEMMA AlertedPump ==
    ASSUME TransportInv, Alerted, Pump
    PROVE  Alerted'
<1>0. Shape /\ Received
  BY InvParts
<1>1. CASE Queue
  <2>1. UNCHANGED <<conf, bye, sock, wire, in, pend, at, job>> /\ tls'.shut = tls.shut
    <3>1. tls' = tls \/ tls' = [tls EXCEPT !.step = tls.step + 1]
      BY <1>1 DEF Queue
    <3>2. tls'.shut = tls.shut
      BY <1>0, <3>1 DEF Shape, BufTypeOK
    <3> QED  BY <1>1, <3>2 DEF Queue, streamHist
  <2>2. Inward' = Inward
    BY <2>1 DEF Inward
  <2> QED  BY <2>1, <2>2, AlertedKept
<1>2. CASE Take
  <2> DEFINE u == Head(in)
             o == <<u>>
             x == Inward'
  <2>1. Inward = o \o x /\ x \in Texts /\ o \in Texts /\ UNCHANGED <<conf, bye, sock, at, job>> /\ at = "op"
    BY <1>2, TakeInward DEF Take, streamHist
  <2>2. Range(o) = {u}
    BY RangeOne
  <2>3. IF u = "bye" THEN tls'.shut = TRUE ELSE tls'.shut = tls.shut
    <3>1. \/ u = "mac" /\ tls' = [tls EXCEPT !.plain = tls.rec, !.rec = <<>>]
          \/ u = "bye" /\ tls' = [tls EXCEPT !.shut = TRUE]
          \/ u = "ticket" /\ tls' = tls
          \/ u \in Byte /\ tls' = [tls EXCEPT !.rec = Append(tls.rec, u)]
          \/ u \in {"sh", "cert", "sfin"} /\ tls' = [tls EXCEPT !.step = tls.step + 1]
      BY <1>2, TakeIs
    <3>2. "bye" \notin Byte
      BY MarkNoByte DEF Marks
    <3>3. tls \in [step : 1 .. 6, rec : Row, plain : Row, shut : BOOLEAN]
      BY <1>0 DEF Shape, BufTypeOK
    <3> HIDE DEF u
    <3> QED  BY <3>1, <3>2, <3>3
  <2> HIDE DEF u, o, x
  <2>4. Range(Inward) = {u} \cup Range(x)
    BY <2>1, <2>2, RangeConcat
  <2> QED  BY <2>1, <2>3, <2>4 DEF Alerted, x
<1>3. CASE Wants
  <2>1. UNCHANGED <<conf, bye, sock, wire, in, pend, tls, job>>
    BY <1>3 DEF Wants, bufVars, streamHist
  <2>2. job = "recv" => ~tls.shut
    <3>1. Outgoing # <<>> => job # "recv"
      BY <1>0, OutgoingIs
    <3> QED  BY <1>3, <3>1 DEF Wants, Reading
  <2>3. Inward' = Inward
    BY <2>1 DEF Inward
  <2> QED  BY <2>1, <2>2, <2>3, AlertedKept
<1>4. CASE Done
  <2>1. UNCHANGED <<conf, bye, sock, wire, in, pend, job>> /\ at' \in {"idle", "tail"}
    BY <1>4 DEF Done, Answer
  <2>2. tls'.shut = tls.shut
    <3>1. CASE job # "recv"
      <4>1. tls' = tls
        BY <1>0, <1>4, <3>1 DEF Done, Shape, Places
      <4> QED  BY <4>1
    <3>2. CASE job = "recv"
      <4>1. PICK y \in Row : tls' = [tls EXCEPT !.plain = y]
        BY <1>0, <1>4, <3>2, DoneIs
      <4> QED  BY <1>0, <4>1 DEF Shape, BufTypeOK
    <3> QED  BY <3>1, <3>2
  <2>3. Inward' = Inward
    BY <2>1 DEF Inward
  <2> QED  BY <2>1, <2>2, <2>3, AlertedKept
<1>5. ASSUME UNCHANGED <<conf, bye, wire, in, pend, tls, job>>, sock' # "none" => sock # "none",
             job' = "recv" /\ at' \in {"pump", "fill", "read"} =>
                 job = "recv" /\ at \in {"pump", "fill", "read"}
      PROVE  Alerted'
  <2>1. Inward' = Inward
    BY <1>5 DEF Inward
  <2> QED  BY <1>5, <2>1, AlertedKept
<1>6. CASE Refused
  <2>1. UNCHANGED <<conf, bye, wire, in, pend, tls>> /\ at # "idle" /\ Fails
    BY <1>6 DEF Refused, bufVars, streamHist
  <2> QED  BY <1>0, <1>5, <2>1, FailsIs DEF Shape, TransportTypeOK
<1>7. CASE FlushOut
  <2>1. UNCHANGED <<conf, bye, wire, in, pend, tls, job, sock>>
    BY <1>7 DEF FlushOut, streamHist
  <2>2. at' \in {"pump", "fill", "read"} => at = "pump"
    BY <1>7 DEF FlushOut, Answer
  <2> QED  BY <1>5, <2>1, <2>2
<1>8. CASE FlushFails
  <2>1. UNCHANGED <<conf, bye, wire, in, pend, tls>> /\ at # "idle"
        /\ (Fails \/ (at' = "gone" /\ UNCHANGED <<job, sock>>))
    BY <1>8 DEF FlushFails, streamHist
  <2> QED  BY <1>0, <1>5, <2>1, FailsIs DEF Shape, TransportTypeOK
<1>9. CASE Fill
  <2>1. Inward' = Inward /\ UNCHANGED <<conf, bye, tls, job, sock>> /\ at = "fill"
    BY <1>0, <1>9, ReceivedFill DEF Fill, streamHist
  <2> QED  BY <2>1, AlertedKept
<1>10. CASE Read
  <2>1. (conf.tls => Inward' = Inward) /\ UNCHANGED <<conf, bye, tls, job, sock>> /\ at = "read"
    BY <1>0, <1>10, ReceivedRead DEF Read
  <2> QED  BY <2>1, AlertedKept
<1>11. CASE Fin
  <2>1. UNCHANGED <<conf, bye, wire, in, pend, tls>> /\ at # "idle"
        /\ (Fails \/ (at' = "idle" /\ UNCHANGED <<job, sock>>))
    BY <1>11 DEF Fin, Answer, bufVars, streamHist
  <2> QED  BY <1>0, <1>5, <2>1, FailsIs DEF Shape, TransportTypeOK
<1>12. CASE ReadFails
  <2>1. UNCHANGED <<conf, bye, wire, in, pend, tls>> /\ at # "idle" /\ Fails
    BY <1>12 DEF ReadFails, bufVars, streamHist
  <2> QED  BY <1>0, <1>5, <2>1, FailsIs DEF Shape, TransportTypeOK
<1>13. CASE Plain
  <2>1. ~conf.tls \/ sock' = "none"
    BY <1>0, <1>13 DEF Plain, Shape, Places
  <2>2. conf' = conf
    BY <1>13 DEF Plain
  <2> QED  BY <2>1, <2>2 DEF Alerted
<1> QED  BY <1>1, <1>2, <1>3, <1>4, <1>6, <1>7, <1>8, <1>9, <1>10, <1>11, <1>12, <1>13 DEF Pump

LEMMA AlertedStill ==
    ASSUME Alerted, UNCHANGED <<conf, sock, wire, in, pend, tls, bye>>,
           conf.tls /\ job' = "recv" /\ at' \in {"pump", "fill", "read"} =>
               job = "recv" /\ at \in {"pump", "fill", "read"}
    PROVE  Alerted'
<1>1. Inward' = Inward
  BY DEF Inward
<1> QED  BY <1>1, AlertedKept

\* and so does the other end.
LEMMA AlertedGreet ==
    ASSUME Shape, Alerted, Greet
    PROVE  Alerted'
<1>1. PICK n \in {1, 2} : wire' = wire \o Flights(conf)[n]
  BY DEF Greet
<1>2. sock = "up" /\ UNCHANGED <<conf, bye, tls, in, pend, job, at>>
  BY DEF Greet, bufVars, streamHist
<1> DEFINE f == Flights(conf)[n]
           i == Inward
<1>3. f \in Texts /\ i \in Texts
  BY FlightTexts, ComingParts
<1>4. wire' = wire \o f
  BY <1>1
<1> HIDE DEF f
<1>5. Inward' = i \o f
  BY <1>2, <1>3, <1>4, ComingGrows
<1> HIDE DEF i
<1>6. Range(i) \subseteq Range(Inward')
  BY <1>3, <1>5, RangeConcat
<1> QED  BY <1>2, <1>6, AlertedGrows DEF i

LEMMA AlertedSpeak ==
    ASSUME Shape, Alerted, Received, NEW d, Speak(d)
    PROVE  Alerted'
<1>1. sock = "up" /\ UNCHANGED <<conf, bye, tls, job, at>> /\ ~bye
  BY DEF Speak, bufVars, Received
<1> QED  BY <1>1 DEF Alerted

LEMMA AlertedNet ==
    ASSUME Shape, Alerted, Received, NetFails
    PROVE  Alerted'
<1>1. sock = "up" /\ UNCHANGED <<conf, bye, tls, job, at>> /\ ~bye
  BY DEF NetFails, bufVars, streamHist, Received
<1> QED  BY <1>1 DEF Alerted

LEMMA AlertedLeave ==
    ASSUME Shape, Alerted, Leave
    PROVE  Alerted'
<1>1. UNCHANGED <<conf, tls, in, pend, job, at>> /\ sock = "up"
  BY DEF Leave, bufVars
<1>2. ASSUME conf.tls PROVE "bye" \in Range(Inward')
  <2> DEFINE z == <<"bye">>
             i == Inward
  <2>0. wire' = Append(wire, "bye")
    BY <1>2 DEF Leave
  <2>1. wire' = wire \o z
    BY <2>0, ComingParts DEF Texts
  <2>2. z \in Texts /\ Range(z) = {"bye"} /\ i \in Texts
    BY OneText, RangeOne, ComingParts DEF Marks
  <2> HIDE DEF z
  <2>3. Inward' = i \o z
    BY <1>1, <2>1, <2>2, ComingGrows
  <2> HIDE DEF i
  <2> QED  BY <2>2, <2>3, RangeConcat
<1> QED  BY <1>1, <1>2 DEF Alerted

-----------------------------------------------------------------------------
(* What a step of a call under way does, as the caller sees it.            *)

LineInv == TransportInv /\ Alerted

Caused == blame' \/ sock = "cut" \/ (sock = "fin" /\ ~bye)
AllHeard == sock # "up" /\ (bye => heard = said) /\ (conf.tls => bye)

GoesOn == at' # "idle" /\ UNCHANGED <<sock, reply, heard>>
MoreReached == \E g \in Row : App(got') = App(got) \o g
Succeeds ==
    at' = "idle" /\ job \in {"connect", "send"} /\ reply' = Said("ok") /\ UNCHANGED <<sock, heard>>
Errs ==
    /\ at' = "idle" /\ job # "close" /\ reply' = Said("error") /\ heard' = heard /\ Caused
    /\ sock' = IF job = "connect" THEN "none" ELSE sock
HandsOut ==
    /\ at' = "idle" /\ job = "recv" /\ sock' = sock
    /\ \E d \in Row : reply' = Data(d) /\ heard' = heard \o d /\ (d = <<>> => AllHeard)
Gone == job = "close" /\ at' = "idle" /\ sock' = "none" /\ asked' = <<>> /\ reply' = Said("ok")

CallStep ==
    /\ at # "idle" /\ UNCHANGED <<job, conf>> /\ (blame => blame')
    /\ \/ Gone
       \/ /\ UNCHANGED <<asked, said, bye>>
          /\ \/ GoesOn /\ MoreReached
             \/ (Succeeds \/ Errs \/ HandsOut) /\ App(got') = App(got)

LEMMA SameReached ==
    ASSUME Shape, got' = got
    PROVE  MoreReached /\ App(got') = App(got)
<1>1. App(got) \in Row
  BY SentParts
<1>2. App(got) \o <<>> = App(got)
  BY <1>1, RowEmpty
<1> QED  BY <1>2, EmptyRow DEF MoreReached

\* A call that fails without an alert seen is an error.
LEMMA FailsErrs ==
    ASSUME Fails, job \in {"connect", "send", "recv"}, job = "recv" => ~tls.shut, heard' = heard, Caused
    PROVE  Errs
BY FailsIs DEF Errs

\* When nothing is coming all has been heard that was said.
LEMMA NothingComing ==
    ASSUME Shape, tls.plain = <<>>, tls.rec = <<>>, Inward = <<>>
    PROVE  Coming = <<>> /\ heard \o Coming = heard
<1>1. App(<<>>) = <<>>
  BY OnlyEmpty DEF App
<1>2. Coming = <<>> \o <<>> \o <<>>
  BY <1>1 DEF Coming
<1>3. Coming = <<>>
  BY <1>2, EmptyRow, RowEmpty
<1> QED  BY <1>3, ComingParts, RowEmpty

\* What each step does to the call under way.
LEMMA DoneGoes ==
    ASSUME LineInv, Done
    PROVE  CallStep
<1>1. Shape /\ Received /\ Records /\ sock # "none"
  BY InvParts DEF LineInv, Shape, TransportTypeOK, Done
<1>2. UNCHANGED <<conf, sock, got, job, asked, said, bye, blame>> /\ at = "op" /\ ~Reading
  BY DEF Done
<1>3. job \in {"connect", "send", "recv"} /\ conf.tls
  BY <1>1, <1>2 DEF Shape, Places
<1>4. MoreReached /\ App(got') = App(got)
  BY <1>1, <1>2, SameReached
<1>5. CASE job = "send"
  <2>1. GoesOn
    BY <1>2, <1>5 DEF GoesOn, Done
  <2> QED  BY <1>2, <1>4, <2>1 DEF CallStep
<1>6. CASE job = "connect"
  <2>1. Succeeds
    BY <1>2, <1>6 DEF Succeeds, Done, Answer
  <2> QED  BY <1>2, <1>4, <2>1 DEF CallStep
<1>7. CASE job = "recv"
  <2>1. PICK x \in Row, y \in Row :
              /\ tls.plain = x \o y /\ tls' = [tls EXCEPT !.plain = y] /\ heard' = heard \o x
              /\ at' = "idle" /\ reply' = Data(x)
              /\ tls.plain # <<>> => x # <<>>
    BY <1>1, <1>7, DoneIs
  <2>2. ASSUME x = <<>> PROVE AllHeard
    <3>1. tls.plain = <<>>
      BY <2>1, <2>2
    <3>2. tls.shut
      BY <1>2, <1>7, <3>1 DEF Reading
    <3>3. bye /\ Sealing = <<>>
      BY <1>1, <1>3, <3>2 DEF Records
    <3>4. tls.rec = <<>> /\ Inward = <<>>
      <4> DEFINE r == tls.rec
                 i == Inward
                 s == Sealing
      <4>1. r \in Texts /\ i \in Texts /\ s = r \o i /\ s = <<>>
        BY <1>1, <3>3, SealingIs
      <4> HIDE DEF r, i, s
      <4>2. Len(r) \in Nat /\ Len(i) \in Nat /\ Len(s) = Len(r) + Len(i)
        BY <4>1, TextFacts
      <4>3. Len(s) = 0
        BY <4>1, EmptyRow
      <4>4. Len(r) = 0 /\ Len(i) = 0
        <5> DEFINE a == Len(r)
                   b == Len(i)
                   c == Len(s)
        <5>1. a \in Nat /\ b \in Nat /\ c = a + b /\ c = 0
          BY <4>2, <4>3
        <5> HIDE DEF a, b, c
        <5>2. a = 0 /\ b = 0
          BY ONLY <5>1
        <5> QED  BY <5>2 DEF a, b
      <4>5. r = <<>> /\ i = <<>>
        BY <4>1, <4>4, EmptySeq DEF Texts
      <4> QED  BY <4>5 DEF r, i
    <3>5. heard \o Coming = heard
      BY <1>1, <3>1, <3>4, NothingComing
    <3> QED  BY <1>1, <3>3, <3>5 DEF AllHeard, Received
  <2>3. HandsOut
    BY <1>2, <1>7, <2>1, <2>2 DEF HandsOut
  <2> QED  BY <1>2, <1>4, <2>3 DEF CallStep
<1> QED  BY <1>3, <1>5, <1>6, <1>7

LEMMA FinGoes ==
    ASSUME LineInv, Fin
    PROVE  CallStep
<1>1. Shape /\ Received /\ Connecting /\ Alerted
  BY InvParts DEF LineInv
<1>2. UNCHANGED <<conf, got, job, asked, said, bye, blame, heard>> /\ at = "read" /\ sock = "fin" /\ wire = <<>>
  BY FailsIs DEF Fin, Fails, streamHist
<1>3. job \in {"connect", "recv"} /\ (job = "connect" => conf.tls) /\ in = <<>> /\ pend = <<>>
  BY <1>1, <1>2 DEF Shape, Places
<1>4. MoreReached /\ App(got') = App(got)
  BY <1>1, <1>2, SameReached
<1>5. Inward = <<>>
  BY <1>2, <1>3, EmptyTexts, TextEmpty DEF Inward
<1>6. CASE conf.tls
  <2>1. Fails
    BY <1>6 DEF Fin
  <2>2. job = "recv" => ~tls.shut
    BY <1>1, <1>2, <1>6 DEF Alerted
  <2>3. ~bye
    <3>1. CASE job = "connect"
      <4>1. reply # Said("ok")
        BY <1>1, <1>2, UnderWay
      <4> QED  BY <1>1, <1>2, <3>1, <4>1 DEF Connecting
    <3>2. CASE job = "recv"
      <4>1. "bye" \notin Range(Inward)
        BY <1>5, EmptyRow
      <4> QED  BY <1>1, <1>2, <1>6, <2>2, <3>2, <4>1 DEF Alerted
    <3> QED  BY <1>3, <3>1, <3>2
  <2>4. Caused
    BY <1>2, <2>3 DEF Caused
  <2>5. Errs
    BY <1>2, <1>3, <2>1, <2>2, <2>4, FailsErrs
  <2> QED  BY <1>2, <1>4, <2>5 DEF CallStep
<1>7. CASE ~conf.tls
  <2>1. at' = "idle" /\ reply' = Data(<<>>) /\ sock' = sock /\ job = "recv"
    BY <1>3, <1>7 DEF Fin, Answer
  <2>2. tls.plain = <<>> /\ tls.rec = <<>>
    BY <1>1, <1>7, FreshTls DEF Shape, PlainOK
  <2>3. heard \o Coming = heard
    BY <1>1, <1>5, <2>2, NothingComing
  <2>4. AllHeard
    BY <1>1, <1>2, <1>7, <2>3 DEF AllHeard, Received
  <2>5. heard' = heard \o <<>>
    BY <1>1, <1>2, ComingParts, RowEmpty
  <2>6. HandsOut
    BY <2>1, <2>4, <2>5, EmptyRow DEF HandsOut
  <2> QED  BY <1>2, <1>4, <2>6 DEF CallStep
<1> QED  BY <1>6, <1>7

LEMMA FlushGoes ==
    ASSUME LineInv, FlushOut
    PROVE  CallStep
<1>1. Shape
  BY InvParts DEF LineInv
<1>2. UNCHANGED <<conf, sock, job, asked, said, bye, blame, heard>> /\ at \in {"pump", "tail", "bye"}
  BY DEF FlushOut, streamHist
<1>3. CASE out # <<>>
  <2>1. UNCHANGED <<at, reply>> /\ \E x \in Texts : got' = got \o x
    BY <1>1, <1>3, FlushIs
  <2>2. PICK x \in Texts : got' = got \o x
    BY <2>1
  <2>3. got \in Texts /\ App(x) \in Row
    BY <1>1, SentParts, AppRow
  <2>4. App(got') = App(got) \o App(x)
    BY <2>2, <2>3, AppConcat
  <2>5. MoreReached
    BY <2>3, <2>4 DEF MoreReached
  <2>6. GoesOn
    BY <1>2, <2>1 DEF GoesOn
  <2> QED  BY <1>2, <2>5, <2>6 DEF CallStep
<1>4. CASE out = <<>>
  <2>1. got' = got
    BY <1>4 DEF FlushOut
  <2>2. MoreReached /\ App(got') = App(got)
    BY <1>1, <2>1, SameReached
  <2>3. CASE at = "tail"
    <3>1. job = "send"
      BY <1>1, <2>3 DEF Shape, Places
    <3>2. Succeeds
      BY <1>2, <1>4, <2>3, <3>1 DEF Succeeds, FlushOut, Answer
    <3> QED  BY <1>2, <2>2, <3>2 DEF CallStep
  <2>4. CASE at # "tail"
    <3>1. GoesOn
      BY <1>2, <1>4, <2>4 DEF GoesOn, FlushOut
    <3> QED  BY <1>2, <2>2, <3>1 DEF CallStep
  <2> QED  BY <2>3, <2>4
<1> QED  BY <1>3, <1>4

LEMMA ReadGoes ==
    ASSUME LineInv, Read
    PROVE  CallStep
<1>1. Shape
  BY InvParts DEF LineInv
<1>2. UNCHANGED <<conf, sock, got, job, asked, said, bye, blame>> /\ at = "read"
  BY DEF Read
<1>3. MoreReached /\ App(got') = App(got)
  BY <1>1, <1>2, SameReached
<1>4. PICK x \in Texts :
              /\ x # <<>> /\ wire = x \o wire' /\ wire' \in Texts
              /\ IF conf.tls
                 THEN pend' = x /\ Len(x) <= Chunk /\ want' = FALSE /\ at' = "fill" /\ UNCHANGED <<heard, reply>>
                 ELSE /\ x \in Row /\ wire' \in Row /\ at' = "idle" /\ reply' = Data(x)
                      /\ heard' = heard \o x /\ UNCHANGED <<pend, want>>
  BY <1>1, ReadIs
<1>5. CASE conf.tls
  <2>1. GoesOn
    BY <1>2, <1>4, <1>5 DEF GoesOn
  <2> QED  BY <1>2, <1>3, <2>1 DEF CallStep
<1>6. CASE ~conf.tls
  <2>1. job = "recv"
    BY <1>1, <1>2, <1>6 DEF Shape, Places
  <2>2. HandsOut
    BY <1>2, <1>4, <1>6, <2>1 DEF HandsOut
  <2> QED  BY <1>2, <1>3, <2>2 DEF CallStep
<1> QED  BY <1>5, <1>6

LEMMA ReadFailsGoes ==
    ASSUME LineInv, ReadFails
    PROVE  CallStep
<1>1. Shape /\ Alerted
  BY InvParts DEF LineInv
<1>2. UNCHANGED <<conf, got, asked, said, bye, heard>> /\ at = "read" /\ Fails /\ (blame => blame')
  <2>1. UNCHANGED <<conf, got, asked, said, bye, heard>> /\ at = "read" /\ Fails
    BY DEF ReadFails, streamHist
  <2>2. blame => blame'
    BY Zenon DEF ReadFails
  <2> QED  BY <2>1, <2>2
<1>3. job \in {"connect", "recv"} /\ job' = job /\ out = <<>> /\ sock # "none"
  BY <1>1, <1>2, FailsIs DEF Shape, Places, TransportTypeOK
<1>4. App(got') = App(got)
  BY <1>1, <1>2, SameReached
<1>5. job = "recv" => ~tls.shut
  <2>1. CASE conf.tls
    BY <1>1, <1>2, <1>3, <2>1 DEF Alerted
  <2>2. CASE ~conf.tls
    BY <1>1, <2>2, FreshTls DEF Shape, PlainOK
  <2> QED  BY <2>1, <2>2
<1>6. Caused
  BY <1>3 DEF ReadFails, Caused
<1>7. Errs
  BY <1>2, <1>3, <1>5, <1>6, FailsErrs
<1> QED  BY <1>2, <1>3, <1>4, <1>7 DEF CallStep

LEMMA FlushFailsGoes ==
    ASSUME LineInv, FlushFails
    PROVE  CallStep
<1>1. Shape /\ Alerted
  BY InvParts DEF LineInv
<1>2. UNCHANGED <<conf, got, asked, said, bye, heard, blame>> /\ at \in {"pump", "tail", "bye"} /\ sock = "cut"
  BY DEF FlushFails, streamHist
<1>3. MoreReached /\ App(got') = App(got)
  BY <1>1, <1>2, SameReached
<1>4. CASE at = "bye"
  <2>1. UNCHANGED <<sock, reply, job>> /\ at' = "gone"
    BY <1>4 DEF FlushFails
  <2>2. GoesOn
    BY <1>2, <2>1 DEF GoesOn
  <2> QED  BY <1>2, <1>3, <2>1, <2>2 DEF CallStep
<1>5. CASE at # "bye"
  <2>1. Fails
    BY <1>5 DEF FlushFails
  <2>2. job \in {"connect", "send", "recv"} /\ conf.tls /\ (job = "recv" => at = "pump")
    BY <1>1, <1>2, <1>5 DEF Shape, Places
  <2>3. job = "recv" => ~tls.shut
    BY <1>1, <1>2, <2>2 DEF Alerted
  <2>4. Caused
    BY <1>2 DEF Caused
  <2>5. Errs /\ job' = job
    BY <1>2, <2>1, <2>2, <2>3, <2>4, FailsErrs, FailsIs
  <2> QED  BY <1>2, <1>3, <2>5 DEF CallStep
<1> QED  BY <1>4, <1>5

LEMMA RefusedGoes ==
    ASSUME LineInv, Refused
    PROVE  CallStep
<1>1. Shape
  BY InvParts DEF LineInv
<1>2. UNCHANGED <<conf, got, asked, said, bye, heard>> /\ at = "op" /\ Fails /\ blame' /\ Reading
  BY DEF Refused, streamHist
<1>3. job \in {"connect", "recv"} /\ job' = job /\ (job = "recv" => ~tls.shut)
  BY <1>2, FailsIs DEF Reading
<1>4. App(got') = App(got)
  BY <1>1, <1>2, SameReached
<1>5. Errs
  BY <1>2, <1>3, FailsErrs DEF Caused
<1> QED  BY <1>2, <1>3, <1>4, <1>5 DEF CallStep

LEMMA PlainGoes ==
    ASSUME LineInv, Plain
    PROVE  CallStep
<1>1. Shape
  BY InvParts DEF LineInv
<1>2. UNCHANGED <<conf, job, blame>> /\ at # "idle"
  BY FailsIs DEF Plain
<1>3. CASE at = "up" /\ Answer(Said("ok")) /\ UNCHANGED <<sock, got, streamHist>>
  <2>1. job = "connect"
    BY <1>1, <1>3 DEF Shape, Places
  <2>2. Succeeds /\ App(got') = App(got) /\ UNCHANGED <<asked, said, bye>>
    BY <1>3, <2>1 DEF Succeeds, Answer, streamHist
  <2> QED  BY <1>2, <2>2 DEF CallStep
<1>4. CASE /\ at = "write" /\ sock # "cut"
           /\ \E n \in 0 .. Len(todo) :
                 /\ n = 0 <=> todo = <<>>
                 /\ got' = got \o SubSeq(todo, 1, n) /\ todo' = SubSeq(todo, n + 1, Len(todo))
                 /\ IF n = 0 THEN Answer(Said("ok")) ELSE UNCHANGED <<at, reply>>
           /\ UNCHANGED <<sock, streamHist>>
  <2>1. job = "send" /\ ~conf.tls /\ UNCHANGED <<asked, said, bye, heard>>
    BY <1>1, <1>4 DEF Shape, Places, streamHist
  <2>2. PICK n \in 0 .. Len(todo) :
                 /\ n = 0 <=> todo = <<>>
                 /\ got' = got \o SubSeq(todo, 1, n) /\ todo' = SubSeq(todo, n + 1, Len(todo))
                 /\ IF n = 0 THEN Answer(Said("ok")) ELSE UNCHANGED <<at, reply>>
    BY <1>4
  <2>3. PICK x \in Row : got' = got \o x /\ (n = 0 => x = <<>>)
    BY <1>1, <2>1, <2>2, WriteIs
  <2>4. got \in Texts /\ App(got) \in Row
    BY <1>1, SentParts
  <2>5. x \in Texts /\ App(x) = x
    BY RowsAreTexts, AppSame
  <2>6. App(got') = App(got) \o x
    BY <2>3, <2>4, <2>5, AppConcat
  <2>7. CASE n = 0
    <3>1. App(got') = App(got)
      BY <2>3, <2>4, <2>6, <2>7, RowEmpty
    <3>2. Succeeds
      BY <1>4, <2>1, <2>2, <2>7 DEF Succeeds, Answer
    <3> QED  BY <1>2, <2>1, <3>1, <3>2 DEF CallStep
  <2>8. CASE n # 0
    <3>1. GoesOn
      BY <1>2, <1>4, <2>1, <2>2, <2>8 DEF GoesOn
    <3> QED  BY <1>2, <2>1, <2>6, <3>1 DEF CallStep, MoreReached
  <2> QED  BY <2>7, <2>8
<1>5. CASE at = "write" /\ sock = "cut" /\ Fails /\ UNCHANGED <<got, streamHist>>
  <2>1. job = "send" /\ UNCHANGED <<asked, said, bye, heard>>
    BY <1>1, <1>5 DEF Shape, Places, streamHist
  <2>2. Caused
    BY <1>5 DEF Caused
  <2>3. Errs
    BY <1>5, <2>1, <2>2, FailsErrs
  <2>4. App(got') = App(got)
    BY <1>1, <1>5, SameReached
  <2> QED  BY <1>2, <2>1, <2>3, <2>4 DEF CallStep
<1>6. CASE at = "gone" /\ Answer(Said("ok")) /\ sock' = "none" /\ asked' = <<>>
  <2>1. job = "close"
    BY <1>1, <1>6 DEF Shape, Places
  <2>2. Gone
    BY <1>6, <2>1 DEF Gone, Answer
  <2> QED  BY <1>2, <2>2 DEF CallStep
<1> QED  BY <1>3, <1>4, <1>5, <1>6 DEF Plain

\* A step of a call goes on with it, or returns what the caller may rely on.
LEMMA PumpGoes ==
    ASSUME LineInv, Pump
    PROVE  CallStep
<1>1. Shape
  BY InvParts DEF LineInv
<1>2. ASSUME UNCHANGED <<conf, sock, got, job, reply, asked, said, bye, heard, blame>>, at # "idle", at' # "idle"
      PROVE  CallStep
  <2>1. MoreReached
    BY <1>1, <1>2, SameReached
  <2> QED  BY <1>2, <2>1 DEF CallStep, GoesOn
<1>3. Queue => CallStep
  BY <1>2 DEF Queue, streamHist
<1>4. Take => CallStep
  BY <1>2 DEF Take, streamHist
<1>5. Wants => CallStep
  BY <1>2 DEF Wants, streamHist
<1>6. Fill => CallStep
  BY <1>2 DEF Fill, streamHist
<1> QED  BY <1>3, <1>4, <1>5, <1>6, DoneGoes, RefusedGoes, FlushGoes, FlushFailsGoes, ReadGoes, FinGoes,
            ReadFailsGoes, PlainGoes DEF Pump

\* Any step of a call keeps all that is known of the connection.
LEMMA LinePump ==
    ASSUME LineInv, Pump
    PROVE  LineInv'
BY PumpKeeps, AlertedPump DEF LineInv

-----------------------------------------------------------------------------
(* A request says where it ends.                                           *)

\* Words are bytes, and so are the marks of a request's framing.
LEMMA WordBytes == Word \subseteq Byte /\ "eoh" \in Byte /\ "Content-Length" \in Byte
BY ByteAssumption DEF Word

\* The words that every request has are no framing.
LEMMA PlainWords ==
    /\ "Host" \in Word /\ "keep-alive" \in Word /\ "eol" \in Word
    /\ "eoh" \notin Word /\ "Content-Length" \notin Word
BY ByteAssumption DEF Word

\* Sixteen digits, all different.
LEMMA DigitsAre ==
    /\ Len(Digits) = 16 /\ \A i \in 1 .. 16 : Digits[i] \in Word
    /\ \A i \in 1 .. 16 : \A j \in 1 .. 16 : Digits[i] = Digits[j] => i = j
<1>1. Len(Digits) = 16
  BY DEF Digits
<1>2. ASSUME NEW i \in 1 .. 16 PROVE Digits[i] \in Word
  <2>1. Digits[i] \in Range(Digits)
    BY <1>1 DEF Range, Digits
  <2>2. Digits[i] # "eoh" /\ Digits[i] # "Content-Length"
    BY DEF Digits
  <2> QED  BY <2>1, <2>2, ByteAssumption DEF Word
<1>3. \A i \in 1 .. 16 : \A j \in 1 .. 16 : Digits[i] = Digits[j] => i = j
  BY DEF Digits
<1> QED  BY <1>1, <1>2, <1>3

\* A digit has the value it was chosen for.
LEMMA DigitBack ==
    ASSUME NEW n \in 0 .. 15
    PROVE  DigitValue(Digits[n + 1]) = n
<1> DEFINE m == n + 1
           t == Digits[m]
           c == CHOOSE i \in 1 .. 16 : Digits[i] = t
<1>1. m \in 1 .. 16
  OBVIOUS
<1>2. c \in 1 .. 16 /\ Digits[c] = t
  <2>1. \E i \in 1 .. 16 : Digits[i] = t
    BY <1>1
  <2> HIDE DEF t
  <2> QED  BY <2>1
<1>3. DigitValue(Digits[n + 1]) = c - 1
  BY DEF DigitValue
<1> HIDE DEF c
<1>4. c = m
  <2> HIDE DEF m
  <2> QED  BY <1>1, <1>2, DigitsAre
<1> QED  BY <1>3, <1>4

\* In a part of a row a byte is found where the row has it, or not at all.
LEMMA FirstPlace ==
    ASSUME NEW x \in Row, NEW t \in Byte, NEW w \in Row, t \notin Range(x),
           NEW p \in Row, NEW r \in Row, p \o r = x \o (<<t>> \o w)
    PROVE  IF FirstAt(p, t) = 0 THEN Len(p) <= Len(x)
           ELSE FirstAt(p, t) = Len(x) + 1 /\ Len(p) > Len(x)
<1> DEFINE s == p \o r
           y == <<t>> \o w
           k == Len(x) + 1
<1>0. <<t>> \in Row /\ <<t>>[1] = t /\ Len(<<t>>) = 1
  BY DEF Row
<1>1. y \in Row /\ Len(y) \in Nat /\ Len(y) >= 1 /\ y[1] = t
  <2> DEFINE u == <<t>>
  <2> HIDE DEF u
  <2>1. u \in Row /\ u[1] = t /\ Len(u) = 1
    BY <1>0 DEF u
  <2>2. /\ u \o w \in Row /\ Len(w) \in Nat /\ Len(u \o w) = Len(u) + Len(w)
        /\ \A i \in 1 .. Len(u) : (u \o w)[i] = u[i]
    BY <2>1, RowFacts
  <2>3. y = u \o w
    BY DEF u
  <2>4. 1 \in 1 .. Len(u)
    BY <2>1
  <2> HIDE DEF y
  <2> QED  BY <2>1, <2>2, <2>3, <2>4
<1> HIDE DEF y
<1>2. /\ Len(x) \in Nat /\ \A i \in 1 .. Len(x) : (x \o y)[i] = x[i]
      /\ \A i \in 1 .. Len(y) : (x \o y)[Len(x) + i] = y[i]
  BY <1>1, RowFacts
<1>3. Len(p) \in Nat /\ \A i \in 1 .. Len(p) : s[i] = p[i]
  BY RowFacts
<1>4. s = x \o y
  BY DEF y
<1> HIDE DEF s
<1>5. s[k] = t
  <2>1. 1 \in 1 .. Len(y)
    BY <1>1
  <2>2. (x \o y)[Len(x) + 1] = y[1]
    BY <1>2, <2>1
  <2> QED  BY <1>1, <1>4, <2>2
<1>6. ASSUME NEW i \in 1 .. Len(x) PROVE s[i] # t
  <2>1. s[i] = x[i]
    BY <1>2, <1>4
  <2> QED  BY <1>2, <2>1 DEF Range
<1>7. CASE Len(p) <= Len(x)
  <2>1. ASSUME NEW i \in 1 .. Len(p) PROVE p[i] # t
    <3>1. i \in 1 .. Len(x)
      BY <1>2, <1>3, <1>7
    <3> QED  BY <1>3, <1>6, <3>1
  <2>2. t \notin Range(p)
    BY <1>3, <2>1 DEF Range
  <2>3. FirstAt(p, t) = 0
    BY <2>2, FirstAtIs
  <2> QED  BY <1>7, <2>3
<1>8. CASE Len(p) > Len(x)
  <2>1. k \in 1 .. Len(p)
    BY <1>2, <1>3, <1>8
  <2>2. p[k] = t
    BY <1>3, <1>5, <2>1
  <2>3. ASSUME NEW j \in 1 .. k - 1 PROVE p[j] # t
    <3>1. j \in 1 .. Len(x) /\ j \in 1 .. Len(p)
      BY <1>2, <1>3, <1>8
    <3> QED  BY <1>3, <1>6, <3>1
  <2>4. FirstAt(p, t) = k
    <3> HIDE DEF k
    <3> QED  BY <2>1, <2>2, <2>3, FirstAtUnique
  <2> QED  BY <1>2, <1>8, <2>4
<1> QED  BY <1>2, <1>3, <1>7, <1>8

\* The header lines of a request but the last, and the request.
Lines(q) == <<<<q.m>> \o q.path \o <<"eol">>, <<"Host", "eol">>>>
Sized(q) == <<"Content-Length", Digits[Len(q.body) + 1], "eol">>
LastLine == <<"keep-alive", "eol", "eoh">>

\* The parts of a request.
LEMMA AskedFor ==
    ASSUME NEW q \in Ask
    PROVE  /\ Lines(q) \in Seq(Seq(Word)) /\ q.extra \in Seq(Seq(Word)) /\ q.body \in Row
           /\ Len(q.body) \in 0 .. 15
<1>1. q \in [m : Word, path : Seq(Word), extra : Seq(Seq(Word)), body : Row] /\ Len(q.body) < Len(Digits)
  BY AskAssumption DEF Row
<1>2. q.m \in Word /\ q.path \in Seq(Word) /\ q.extra \in Seq(Seq(Word)) /\ q.body \in Row
  BY <1>1
<1>3. <<q.m>> \in Seq(Word) /\ <<"eol">> \in Seq(Word) /\ <<"Host", "eol">> \in Seq(Word)
  BY <1>2, PlainWords
<1>4. <<q.m>> \o q.path \o <<"eol">> \in Seq(Word)
  BY <1>2, <1>3, ConcatProperties
<1> DEFINE a == <<q.m>> \o q.path \o <<"eol">>
           b == <<"Host", "eol">>
<1>5. Lines(q) = <<a, b>>
  BY DEF Lines
<1> HIDE DEF a, b
<1>6. <<a, b>> \in Seq(Seq(Word))
  BY <1>3, <1>4 DEF a, b
<1>7. Len(q.body) \in Nat
  BY <1>2 DEF Row
<1>8. Len(q.body) \in 0 .. 15
  <2> DEFINE n == Len(q.body)
  <2>1. n \in Nat /\ n < 16
    BY <1>1, <1>7, DigitsAre
  <2> HIDE DEF n
  <2>2. n \in 0 .. 15
    BY <2>1
  <2> QED  BY <2>2 DEF n
<1> QED  BY <1>2, <1>5, <1>6, <1>8

LEMMA WordRows == Seq(Word) \subseteq Row /\ Seq(Seq(Word)) \subseteq Seq(Row)
<1>1. ASSUME NEW s \in Seq(Word) PROVE s \in Row
  BY WordBytes DEF Row
<1>2. ASSUME NEW s \in Seq(Seq(Word)) PROVE s \in Seq(Row)
  <2>1. Len(s) \in Nat /\ s \in [1 .. Len(s) -> Seq(Word)]
    OBVIOUS
  <2>2. s \in [1 .. Len(s) -> Row]
    BY <1>1, <2>1
  <2> QED  BY <2>1, <2>2
<1> QED  BY <1>1, <1>2

\* Its last line.
LEMMA LastIs ==
    /\ LastLine \in Row /\ <<LastLine>> \in Seq(Row) /\ FlattenSeq(<<LastLine>>) = LastLine
    /\ <<"keep-alive", "eol">> \in Seq(Word) /\ <<"eoh">> \in Row
    /\ LastLine = <<"keep-alive", "eol">> \o <<"eoh">>
<1>1. LastLine \in Row
  BY PlainWords, WordBytes DEF LastLine, Row
<1>2. FlattenSeq(<<LastLine>>) = LastLine /\ <<LastLine>> \in Seq(Row)
  <2> HIDE DEF LastLine
  <2> QED  BY <1>1, FlatOne DEF Row
<1>3. <<"keep-alive", "eol">> \in Seq(Word) /\ <<"eoh">> \in Row
  BY PlainWords, WordBytes DEF Row
<1>4. LastLine = <<"keep-alive", "eol">> \o <<"eoh">>
  BY DEF LastLine
<1> QED  BY <1>1, <1>2, <1>3, <1>4

\* Lines of words, joined, are words.
LEMMA FlatWords ==
    ASSUME NEW s \in Seq(Seq(Word)), NEW t \in Seq(Seq(Word))
    PROVE  /\ FlattenSeq(s) \in Seq(Word) /\ FlattenSeq(t) \in Seq(Word) /\ s \o t \in Seq(Seq(Word))
           /\ FlattenSeq(s) \in Row /\ FlattenSeq(t) \in Row
<1>1. FlattenSeq(s) \in Seq(Word) /\ FlattenSeq(t) \in Seq(Word)
  BY FlatType
<1> QED  BY <1>1, WordRows, ConcatProperties

\* Joining may be done in two parts.
LEMMA FlatRows ==
    ASSUME NEW s \in Seq(Row), NEW t \in Seq(Row)
    PROVE  /\ FlattenSeq(s \o t) = FlattenSeq(s) \o FlattenSeq(t) /\ s \o t \in Seq(Row)
           /\ FlattenSeq(s) \in Row /\ FlattenSeq(t) \in Row
<1>1. FlattenSeq(s \o t) = FlattenSeq(s) \o FlattenSeq(t)
  BY FlatConcat DEF Row
<1>2. FlattenSeq(s) \in Row /\ FlattenSeq(t) \in Row
  BY FlatType DEF Row
<1> QED  BY <1>1, <1>2, ConcatProperties

LEMMA WordConcat ==
    ASSUME NEW s \in Seq(Word), NEW t \in Seq(Word)
    PROVE  s \o t \in Seq(Word)
BY ConcatProperties

\* The text without a body: words and the end of the header.
LEMMA BareText ==
    ASSUME NEW q \in Ask, q.body = <<>>
    PROVE  \E x \in Seq(Word) : Text(q) = x \o <<"eoh">>
<1> DEFINE l == Lines(q)
           e == q.extra
           k == <<"keep-alive", "eol">>
           h == <<"eoh">>
           f == FlattenSeq(l \o e)
<1>1. HeadLines(q) = ((l \o <<>>) \o e) \o <<LastLine>>
  BY DEF HeadLines, Lines, LastLine
<1>2. l \in Seq(Seq(Word)) /\ e \in Seq(Seq(Word))
  BY AskedFor
<1>3. k \in Seq(Word) /\ h \in Row /\ LastLine = k \o h /\ LastLine \in Row /\ <<LastLine>> \in Seq(Row)
      /\ FlattenSeq(<<LastLine>>) = LastLine
  BY LastIs
<1>4. Text(q) = FlattenSeq(HeadLines(q)) \o <<>>
  BY DEF Text
<1> HIDE DEF l, e, k, h
<1>5. l \o <<>> = l
  BY <1>2, ConcatEmptySeq
<1>6. l \o e \in Seq(Seq(Word)) /\ l \o e \in Seq(Row)
  BY <1>2, FlatWords, WordRows
<1>7. f \in Seq(Word) /\ f \in Row /\ k \in Row
  BY <1>3, <1>6, FlatType, WordRows
<1>8. FlattenSeq((l \o e) \o <<LastLine>>) = f \o LastLine
  <2> DEFINE s == l \o e
             t == <<LastLine>>
  <2>1. s \in Seq(Row) /\ t \in Seq(Row) /\ FlattenSeq(t) = LastLine
    BY <1>3, <1>6
  <2> HIDE DEF s, t
  <2>2. FlattenSeq(s \o t) = FlattenSeq(s) \o FlattenSeq(t)
    BY <2>1, FlatRows
  <2> QED  BY <2>1, <2>2 DEF s, t
<1> HIDE DEF f
<1>9. f \o (k \o h) = (f \o k) \o h /\ f \o k \in Seq(Word)
  <2>1. f \in Row /\ k \in Row /\ h \in Row
    BY <1>3, <1>7
  <2>2. f \o (k \o h) = (f \o k) \o h
    <3>1. Joins(f, k, h)
      BY ONLY <2>1, RowJoined, Zenon
    <3> QED  BY ONLY <3>1 DEF Joins
  <2>3. f \o k \in Seq(Word)
    BY <1>3, <1>7, WordConcat
  <2> QED  BY <2>2, <2>3
<1>10. f \o LastLine \in Row
  BY <1>3, <1>7, RowFacts
<1>11. Text(q) = f \o LastLine
  BY <1>1, <1>4, <1>5, <1>8, <1>10, RowEmpty
<1> QED  BY <1>3, <1>9, <1>11 DEF h

\* With a body: its length stands among the words.
LEMMA FullText ==
    ASSUME NEW q \in Ask, q.body # <<>>
    PROVE  \E x \in Seq(Word), z \in Seq(Word) :
               Text(q) = x \o (<<"Content-Length", Digits[Len(q.body) + 1]>> \o (z \o (<<"eoh">> \o q.body)))
<1> DEFINE l == Lines(q)
           e == q.extra
           k == <<"keep-alive", "eol">>
           h == <<"eoh">>
           c == <<"Content-Length", Digits[Len(q.body) + 1]>>
           n == <<"eol">>
           b == q.body
           x == FlattenSeq(l)
           y == FlattenSeq(e)
<1>1. HeadLines(q) = ((l \o <<Sized(q)>>) \o e) \o <<LastLine>>
  BY DEF HeadLines, Lines, LastLine, Sized
<1>2. l \in Seq(Seq(Word)) /\ e \in Seq(Seq(Word)) /\ b \in Row
  BY AskedFor
<1>3. k \in Seq(Word) /\ h \in Row /\ LastLine = k \o h /\ LastLine \in Row /\ <<LastLine>> \in Seq(Row)
      /\ FlattenSeq(<<LastLine>>) = LastLine
  BY LastIs
<1>4. Text(q) = FlattenSeq(HeadLines(q)) \o b
  BY DEF Text
<1>5. c \in Row /\ n \in Seq(Word) /\ Sized(q) = c \o n
  <2> DEFINE i == Len(q.body) + 1
  <2>1. i \in 1 .. 16
    <3> DEFINE o == Len(q.body)
    <3>1. o \in 0 .. 15
      BY AskedFor
    <3> HIDE DEF o
    <3>2. o + 1 \in 1 .. 16
      BY <3>1
    <3> QED  BY <3>2 DEF o
  <2>2. Sized(q) = <<"Content-Length", Digits[i], "eol">> /\ c = <<"Content-Length", Digits[i]>>
    BY DEF Sized
  <2> HIDE DEF i, c
  <2>3. Digits[i] \in Byte /\ "Content-Length" \in Byte
    BY <2>1, DigitsAre, WordBytes
  <2>4. c \in Row
    BY <2>2, <2>3 DEF Row
  <2>5. n \in Seq(Word)
    BY PlainWords
  <2> QED  BY <2>2, <2>4, <2>5
<1> HIDE DEF l, e, k, h, c, n, b
<1>6. x \in Seq(Word) /\ y \in Seq(Word) /\ x \in Row /\ y \in Row /\ k \in Row /\ n \in Row
  BY <1>2, <1>3, <1>5, FlatWords, WordRows
<1>7. l \in Seq(Row) /\ e \in Seq(Row)
  BY <1>2, WordRows
<1>8. FlattenSeq(HeadLines(q)) = ((x \o Sized(q)) \o y) \o LastLine
  <2> DEFINE s == Sized(q)
             t == <<s>>
             u == l \o t
             v == u \o e
             w == <<LastLine>>
  <2>1. s \in Row
    BY <1>5, <1>6, RowFacts
  <2> HIDE DEF s
  <2>2. t \in Seq(Row) /\ FlattenSeq(t) = s
    BY <2>1, FlatOne DEF Row
  <2> HIDE DEF t
  <2>3. u \in Seq(Row) /\ FlattenSeq(u) = x \o s
    BY <1>7, <2>2, FlatRows
  <2> HIDE DEF u
  <2>4. v \in Seq(Row) /\ FlattenSeq(v) = FlattenSeq(u) \o y
    BY <1>7, <2>3, FlatRows
  <2> HIDE DEF v
  <2>5. w \in Seq(Row) /\ FlattenSeq(w) = LastLine
    BY <1>3
  <2> HIDE DEF w
  <2>6. FlattenSeq(v \o w) = FlattenSeq(v) \o FlattenSeq(w)
    BY <2>4, <2>5, FlatRows
  <2>7. HeadLines(q) = v \o w
    BY <1>1 DEF v, w, u, t, s
  <2> QED  BY <2>3, <2>4, <2>5, <2>6, <2>7 DEF s
<1> HIDE DEF x, y
<1> DEFINE z == (n \o y) \o k
           j == h \o b
<1>9. z \in Seq(Word) /\ z \in Row /\ j \in Row /\ n \o y \in Row
  BY <1>2, <1>3, <1>5, <1>6, WordConcat, WordRows, RowFacts
<1>10. (((x \o (c \o n)) \o y) \o (k \o h)) \o b = x \o (c \o (z \o j))
  <2>1. x \o (c \o n) = (x \o c) \o n /\ x \o c \in Row /\ (x \o c) \o n \in Row
    <3>1. x \in Row /\ c \in Row /\ n \in Row
      BY <1>5, <1>6
    <3>2. x \o (c \o n) = (x \o c) \o n /\ x \o c \in Row
      <4>1. (x \o c) \o n = x \o (c \o n)
        <5>1. Joins(x, c, n)
          BY ONLY <3>1, RowJoined, Zenon
        <5> QED  BY ONLY <5>1 DEF Joins
      <4>2. x \o c \in Row
        BY ONLY <3>1, RowFacts
      <4> QED  BY <4>1, <4>2, Zenon
    <3> DEFINE o == x \o c
    <3> HIDE DEF o
    <3>3. o \o n \in Row
      BY <3>1, <3>2, RowFacts DEF o
    <3> QED  BY <3>2, <3>3 DEF o
  <2> DEFINE a == x \o c
  <2>2. a \in Row
    BY <2>1
  <2> HIDE DEF a
  <2>3. (a \o n) \o y = a \o (n \o y) /\ a \o (n \o y) \in Row
    <3>1. a \in Row /\ n \in Row /\ y \in Row /\ n \o y \in Row
      BY <1>6, <1>9, <2>2
    <3>2. (a \o n) \o y = a \o (n \o y)
      <4>1. Joins(a, n, y)
        BY ONLY <3>1, RowJoined, Zenon
      <4> QED  BY ONLY <4>1 DEF Joins
    <3> DEFINE o == n \o y
    <3> HIDE DEF o
    <3>3. a \o o \in Row
      BY <3>1, RowFacts DEF o
    <3> QED  BY <3>2, <3>3 DEF o
  <2> DEFINE m == n \o y
  <2>4. m \in Row
    BY <1>9
  <2> HIDE DEF m
  <2>5. (a \o m) \o (k \o h) = ((a \o m) \o k) \o h /\ (a \o m) \o k = a \o (m \o k) /\ m \o k \in Row
    <3>1. a \in Row /\ m \in Row /\ k \in Row /\ h \in Row
      BY <1>3, <1>6, <2>2, <2>4
    <3>2. (a \o m) \o k = a \o (m \o k) /\ m \o k \in Row /\ a \o m \in Row
      <4>1. a \in Row /\ m \in Row /\ k \in Row
        BY <3>1
      <4>2. (a \o m) \o k = a \o (m \o k)
        <5>1. Joins(a, m, k)
          BY ONLY <4>1, RowJoined, Zenon
        <5> QED  BY ONLY <5>1 DEF Joins
      <4>3. m \o k \in Row
        BY ONLY <4>1, RowFacts
      <4>4. a \o m \in Row
        BY ONLY <4>1, RowFacts
      <4> QED  BY <4>2, <4>3, <4>4
    <3> DEFINE o == a \o m
    <3> HIDE DEF o
    <3>3. o \in Row
      BY <3>2 DEF o
    <3>4. o \o (k \o h) = (o \o k) \o h
      <4>1. Joins(o, k, h)
        BY ONLY <3>1, <3>3, RowJoined, Zenon
      <4> QED  BY ONLY <4>1 DEF Joins
    <3> QED  BY <3>2, <3>4 DEF o
  <2> DEFINE g == m \o k
  <2>6. g \in Row
    BY <2>5
  <2> HIDE DEF g
  <2>7. ((a \o g) \o h) \o b = (a \o g) \o (h \o b) /\ (a \o g) \o j = a \o (g \o j) /\ g \o j \in Row
    <3>1. a \o g \in Row
      BY <2>2, <2>6, RowAssoc
    <3> DEFINE o == a \o g
    <3> HIDE DEF o
    <3>2. (o \o h) \o b = o \o (h \o b)
      BY <1>2, <1>3, <3>1, RowAssoc DEF o
    <3> HIDE DEF j
    <3>3. (a \o g) \o j = a \o (g \o j) /\ g \o j \in Row
      <4>1. a \in Row /\ g \in Row /\ j \in Row
        BY <1>9, <2>2, <2>6
      <4>2. Joins(a, g, j)
        BY ONLY <4>1, RowJoined, Zenon
      <4>3. g \o j \in Row
        BY ONLY <4>1, RowFacts
      <4> QED  BY ONLY <4>2, <4>3, Zenon DEF Joins
    <3> QED  BY <3>2, <3>3 DEF o
  <2>8. a \o (g \o j) = x \o (c \o (g \o j))
    <3> HIDE DEF j
    <3> DEFINE o == g \o j
    <3> HIDE DEF o
    <3>1. o \in Row
      BY <2>7 DEF o
    <3>2. (x \o c) \o o = x \o (c \o o)
      <4>1. x \in Row /\ c \in Row /\ o \in Row
        BY <1>5, <1>6, <3>1
      <4>2. Joins(x, c, o)
        BY ONLY <4>1, RowJoined, Zenon
      <4> QED  BY ONLY <4>2 DEF Joins
    <3> QED  BY <3>2 DEF a, o
  <2>9. g = z
    BY DEF g, m
  <2>10. (((x \o (c \o n)) \o y) \o (k \o h)) \o b = ((a \o g) \o h) \o b
    BY <2>1, <2>3, <2>5 DEF a, m, g
  <2> QED  BY <2>7, <2>8, <2>9, <2>10
<1>11. Text(q) = x \o (c \o (z \o j))
  BY <1>3, <1>4, <1>5, <1>8, <1>10
<1> QED  BY <1>6, <1>9, <1>11 DEF c, h, b

\* Words are no framing.
LEMMA WordsLack ==
    ASSUME NEW s \in Seq(Word)
    PROVE  "eoh" \notin Range(s) /\ "Content-Length" \notin Range(s) /\ s \in Row
<1>1. \A i \in 1 .. Len(s) : s[i] \in Word
  OBVIOUS
<1>2. Range(s) = {s[i] : i \in 1 .. Len(s)}
  BY DEF Range
<1> QED  BY <1>1, <1>2, PlainWords, WordRows

\* Whatever has arrived of a request: its end is known once the header is
\* complete, and only all of it reaches that far.
LEMMA BareFrame ==
    ASSUME NEW q \in Ask, q.body = <<>>, NEW p \in Row, NEW r \in Row, p \o r = Text(q),
           FirstAt(p, "eoh") # 0
    PROVE  /\ BodyLength(p) = 0 /\ Len(Text(q)) = FirstAt(p, "eoh")
           /\ Text(q) \in Row /\ Text(q) # <<>>
<1>1. PICK x \in Seq(Word) : Text(q) = x \o <<"eoh">>
  BY BareText
<1> DEFINE h == <<"eoh">>
           c == "Content-Length"
<1>2. x \in Row /\ "eoh" \notin Range(x) /\ c \notin Range(x)
  BY WordsLack
<1>3. h \in Row /\ Len(h) = 1 /\ "eoh" \in Byte /\ h \o <<>> = h /\ h[1] = "eoh"
  <2>1. Len(h) = 1 /\ h[1] = "eoh"
    OBVIOUS
  <2>2. h \in Row /\ "eoh" \in Byte
    BY LastIs, WordBytes
  <2> HIDE DEF h
  <2>3. h \o <<>> = h
    BY <2>2, RowEmpty
  <2> QED  BY <2>1, <2>2, <2>3
<1> DEFINE s == Text(q)
<1>4. s \in Row /\ Len(x) \in Nat /\ Len(s) = Len(x) + 1 /\ s = x \o h
  <2> HIDE DEF h
  <2> QED  BY <1>1, <1>2, <1>3, RowFacts DEF h
<1>5. FirstAt(p, "eoh") = Len(x) + 1
  <2> DEFINE u == "eoh"
             w == <<>>
  <2>1. p \o r = x \o (<<u>> \o w)
    BY <1>3, <1>4
  <2>2. x \in Row /\ u \notin Range(x) /\ u \in Byte /\ w \in Row /\ p \in Row /\ r \in Row
    BY <1>2, <1>3, EmptyRow
  <2>3. FirstAt(p, u) # 0
    OBVIOUS
  <2> HIDE DEF u, w
  <2>4. FirstAt(p, u) = Len(x) + 1
    <3>1. IF FirstAt(p, u) = 0 THEN Len(p) <= Len(x)
          ELSE FirstAt(p, u) = Len(x) + 1 /\ Len(p) > Len(x)
      BY ONLY <2>1, <2>2, FirstPlace, ZenonT(40)
    <3> QED  BY <2>3, <3>1
  <2> QED  BY <2>4 DEF u
<1> HIDE DEF h, s
<1>6. ASSUME NEW i \in 1 .. Len(s) PROVE s[i] # c
  <2>1. CASE i <= Len(x)
    <3>1. i \in 1 .. Len(x)
      BY <1>4, <2>1
    <3>2. s[i] = x[i]
      <4>1. x \in Row /\ h \in Row
        BY <1>2, <1>3
      <4>2. (x \o h)[i] = x[i]
        BY ONLY <3>1, <4>1, RowFacts
      <4> QED  BY <1>4, <4>2
    <3> QED  BY <1>2, <3>1, <3>2 DEF Range
  <2>2. CASE i > Len(x)
    <3>1. i = Len(x) + 1 /\ 1 \in 1 .. Len(h)
      BY <1>3, <1>4, <2>2
    <3>2. (x \o h)[Len(x) + 1] = h[1]
      <4>1. x \in Row /\ h \in Row /\ 1 \in 1 .. Len(h)
        BY <1>2, <1>3, <3>1
      <4>2. \A k \in 1 .. Len(h) : (x \o h)[Len(x) + k] = h[k]
        BY ONLY <4>1, RowFacts
      <4> QED  BY ONLY <4>1, <4>2
    <3>3. s[i] = "eoh"
      BY <1>3, <1>4, <3>1, <3>2
    <3> QED  BY <3>3
  <2>3. i <= Len(x) \/ i > Len(x)
    BY <1>4
  <2> QED  BY <2>1, <2>2, <2>3
<1>7. ASSUME NEW i \in 1 .. Len(p) PROVE p[i] # c
  <2>1. p \o r = s
    BY DEF s
  <2>2. Len(p) \in Nat /\ Len(r) \in Nat /\ Len(s) = Len(p) + Len(r) /\ \A j \in 1 .. Len(p) : s[j] = p[j]
    BY <2>1, RowFacts
  <2>3. i \in 1 .. Len(s)
    BY <2>2
  <2> QED  BY <1>6, <2>2, <2>3
<1>8. c \notin Range(p)
  BY <1>7 DEF Range
<1>9. FirstAt(p, c) = 0
  BY <1>8, FirstAtIs
<1>10. BodyLength(p) = 0
  BY <1>9 DEF BodyLength
<1>11. s # <<>>
  BY <1>4, EmptyRow
<1> QED  BY <1>4, <1>5, <1>10, <1>11 DEF s

\* A request with a body says its length, wherever it has been cut behind the headers.
LEMMA FullFrame ==
    ASSUME NEW q \in Ask, q.body # <<>>, NEW p \in Row, NEW r \in Row, p \o r = Text(q),
           FirstAt(p, "eoh") # 0
    PROVE  /\ BodyLength(p) = Len(q.body) /\ Len(Text(q)) = FirstAt(p, "eoh") + Len(q.body)
           /\ Text(q) \in Row
<1> DEFINE c == "Content-Length"
           n == Len(q.body)
           g == Digits[n + 1]
           b == q.body
<1>0. n \in 0 .. 15 /\ n + 1 \in 1 .. 16 /\ b \in Row
  <2>1. n \in 0 .. 15 /\ b \in Row
    BY AskedFor
  <2> HIDE DEF n, b
  <2> QED  BY <2>1
<1>1. PICK x \in Seq(Word), z \in Seq(Word) : Text(q) = x \o (<<c, g>> \o (z \o (<<"eoh">> \o b)))
  BY FullText
<1>2. g \in Word /\ DigitValue(g) = n
  <2>1. DigitValue(Digits[n + 1]) = n
    <3> HIDE DEF n
    <3> QED  BY <1>0, DigitBack
  <2>2. Digits[n + 1] \in Word
    <3> DEFINE m == n + 1
    <3> HIDE DEF m
    <3>1. Digits[m] \in Word
      BY <1>0, DigitsAre DEF m
    <3> QED  BY <3>1 DEF m
  <2> QED  BY <2>1, <2>2
<1> HIDE DEF n, g, b
<1>3. x \in Row /\ z \in Row /\ "eoh" \notin Range(x) /\ c \notin Range(x) /\ "eoh" \notin Range(z)
  BY WordsLack
<1> DEFINE d == <<c, g>>
           h == <<"eoh">>
           e == h \o b
           w == z \o e
           y == x \o (d \o z)
<1>4. d \in Row /\ h \in Row /\ Len(d) = 2 /\ d[1] = c /\ d[2] = g /\ d = <<c>> \o <<g>>
      /\ <<c>> \in Row /\ <<g>> \in Row /\ Len(h) = 1
  <2>1. c \in Byte /\ g \in Byte /\ "eoh" \in Byte
    BY <1>2, WordBytes
  <2> HIDE DEF c
  <2> QED  BY <2>1 DEF Row
<1>5. Text(q) = x \o (d \o w)
  BY <1>1
<1> HIDE DEF d, h
<1>6. e \in Row /\ Len(e) = 1 + n
  <2>1. h \o b \in Row /\ Len(h \o b) = Len(h) + Len(b)
    BY <1>0, <1>4, RowFacts
  <2>2. Len(b) = n
    BY DEF b, n
  <2> QED  BY <1>4, <2>1, <2>2
<1> HIDE DEF e
<1>7. w \in Row /\ Len(w) = Len(z) + Len(e) /\ Len(z) \in Nat
  BY <1>3, <1>6, RowFacts
<1> DEFINE f == d \o z
<1>8. f \in Row /\ Len(f) = 2 + Len(z) /\ (d \o z) \o e = d \o (z \o e)
  <2>1. f \in Row /\ Len(f) = Len(d) + Len(z)
    BY <1>3, <1>4, RowFacts
  <2>2. d \in Row /\ z \in Row /\ e \in Row
    BY <1>3, <1>4, <1>6
  <2>3. (d \o z) \o e = d \o (z \o e)
    <3>1. Joins(d, z, e)
      BY ONLY <2>2, RowJoined, Zenon
    <3> QED  BY ONLY <3>1 DEF Joins
  <2> QED  BY <1>4, <2>1, <2>3
<1> HIDE DEF f
<1>9. y \in Row /\ Len(y) = Len(x) + (2 + Len(z)) /\ Len(x) \in Nat /\ Text(q) = y \o e
  <2>1. y = x \o f
    BY DEF f
  <2>2. y \in Row /\ Len(y) = Len(x) + Len(f) /\ Len(x) \in Nat
    <3>1. x \o f \in Row /\ Len(x \o f) = Len(x) + Len(f) /\ Len(x) \in Nat
      BY <1>3, <1>8, RowFacts
    <3> HIDE DEF y
    <3> QED  BY <2>1, <3>1
  <2>3. x \in Row /\ f \in Row /\ e \in Row
    BY <1>3, <1>6, <1>8
  <2>4. (x \o f) \o e = x \o (f \o e)
    <3>1. Joins(x, f, e)
      BY ONLY <2>3, RowJoined, Zenon
    <3> QED  BY ONLY <3>1 DEF Joins
  <2>5. f \o e = d \o w
    BY <1>8 DEF f
  <2> QED  BY <1>5, <1>8, <2>1, <2>2, <2>4, <2>5
<1>10. "eoh" \notin Range(y)
  <2> DEFINE v == Range(d)
  <2>1. Range(y) = Range(x) \cup Range(f) /\ Range(f) = Range(d) \cup Range(z)
    <3>1. y = x \o f
      BY DEF f
    <3>2. Range(x \o f) = Range(x) \cup Range(f)
      BY <1>3, <1>8, RowsAreTexts, RangeConcat
    <3>3. Range(d \o z) = Range(d) \cup Range(z)
      BY <1>3, <1>4, RowsAreTexts, RangeConcat
    <3> QED  BY <3>1, <3>2, <3>3 DEF f
  <2>2. ASSUME NEW i \in 1 .. 2 PROVE d[i] # "eoh"
    BY <1>2, <1>4, PlainWords
  <2>3. "eoh" \notin Range(d)
    BY <1>4, <2>2 DEF Range
  <2> QED  BY <1>3, <2>1, <2>3
<1> HIDE DEF y
<1>11. FirstAt(p, "eoh") = Len(y) + 1 /\ Len(p) > Len(y)
  <2>1. "eoh" \in Byte /\ p \o r = y \o (<<"eoh">> \o b)
    BY <1>9, WordBytes DEF e, h
  <2>2. y \in Row /\ "eoh" \notin Range(y) /\ b \in Row /\ p \in Row /\ r \in Row
    BY <1>0, <1>9, <1>10
  <2> DEFINE u == "eoh"
  <2>3. u \in Byte /\ p \o r = y \o (<<u>> \o b) /\ u \notin Range(y)
    BY <2>1, <2>2
  <2> HIDE DEF u
  <2>4. IF FirstAt(p, u) = 0 THEN Len(p) <= Len(y)
        ELSE FirstAt(p, u) = Len(y) + 1 /\ Len(p) > Len(y)
    BY ONLY <2>2, <2>3, FirstPlace, ZenonT(40)
  <2>5. FirstAt(p, u) # 0
    BY <1>0 DEF u
  <2> QED  BY <2>4, <2>5 DEF u
<1>12. Len(Text(q)) = Len(y) + (1 + n) /\ Text(q) \in Row
  <2>1. y \o e \in Row /\ Len(y \o e) = Len(y) + Len(e)
    BY <1>6, <1>9, RowFacts
  <2> QED  BY <1>6, <1>9, <2>1
<1> DEFINE k == Len(x) + 1
<1>13. FirstAt(p, c) = k
  <2> DEFINE o == <<g>> \o w
  <2>1. o \in Row /\ <<c>> \o o = d \o w
    <3> DEFINE i == <<c>>
               j == <<g>>
    <3>1. i \in Row /\ j \in Row /\ d = i \o j
      BY <1>4
    <3> HIDE DEF i, j, w
    <3>2. (i \o j) \o w = i \o (j \o w)
      <4>1. i \in Row /\ j \in Row /\ w \in Row
        BY <1>7, <3>1
      <4>9. Joins(i, j, w)
        BY ONLY <4>1, RowJoined, Zenon
      <4> QED  BY ONLY <4>9 DEF Joins
    <3>3. j \o w \in Row
      BY ONLY <1>7, <3>1, RowFacts
    <3> QED  BY <3>1, <3>2, <3>3 DEF i, j
  <2> HIDE DEF o, w
  <2>2. p \o r = x \o (<<c>> \o o)
    BY <1>5, <2>1
  <2>3. c \in Byte
    BY WordBytes
  <2> HIDE DEF c
  <2>4. IF FirstAt(p, c) = 0 THEN Len(p) <= Len(x) ELSE FirstAt(p, c) = Len(x) + 1 /\ Len(p) > Len(x)
    BY <1>3, <2>1, <2>2, <2>3, FirstPlace
  <2>5. Len(p) \in Nat
    BY DEF Row
  <2>6. ~(Len(p) <= Len(x))
    BY <1>7, <1>9, <1>11, <2>5
  <2> QED  BY <2>4, <2>6
<1>14. p[k + 1] = g
  <2>1. \A i \in 1 .. Len(p) : (p \o r)[i] = p[i]
    BY RowFacts
  <2>2. Len(p) \in Nat
    BY DEF Row
  <2>3. k + 1 \in 1 .. Len(p) /\ k + 1 = Len(x) + 2
    BY <1>7, <1>9, <1>11, <2>2
  <2> DEFINE o == d \o w
  <2>4. o \in Row /\ Len(o) \in Nat /\ Len(o) >= 2 /\ o[2] = g
    <3> HIDE DEF w
    <3>1. /\ d \o w \in Row /\ Len(d \o w) = Len(d) + Len(w) /\ \A i \in 1 .. Len(d) : (d \o w)[i] = d[i]
          /\ Len(w) \in Nat
      BY <1>4, <1>7, RowFacts
    <3>2. 2 \in 1 .. Len(d)
      BY <1>4
    <3> QED  BY <1>4, <3>1, <3>2
  <2> HIDE DEF o
  <2>5. \A i \in 1 .. Len(o) : (x \o o)[Len(x) + i] = o[i]
    BY <1>3, <2>4, RowFacts
  <2>6. (x \o o)[Len(x) + 2] = g
    <3>1. 2 \in 1 .. Len(o)
      BY <2>4
    <3> QED  BY <2>4, <2>5, <3>1
  <2>7. p \o r = x \o o
    BY <1>5 DEF o
  <2> QED  BY <2>1, <2>3, <2>6, <2>7
<1>15. BodyLength(p) = DigitValue(p[k + 1])
  <2>1. k # 0
    BY <1>9
  <2> HIDE DEF k
  <2> QED  BY <1>13, <2>1 DEF BodyLength
<1>16. BodyLength(p) = n
  BY <1>2, <1>14, <1>15
<1>17. Len(Text(q)) = FirstAt(p, "eoh") + n
  BY <1>0, <1>7, <1>9, <1>11, <1>12
<1> QED  BY <1>12, <1>16, <1>17 DEF n

-----------------------------------------------------------------------------
(* The exchange.                                                           *)

Handed == \E d \in Row : d # <<>> /\ reply = Data(d)
Told == FlattenSeq(served)

HttpTypes ==
    /\ phase \in {"none", "top", "dialling", "send", "sending", "receiving", "closing"}
    /\ ask \in Ask \cup {NoAsk} /\ (ask # NoAsk => Built(ask).ok)
    /\ phase # "none" <=> ask # NoAsk
    /\ phase # "none" <=> outcome = Pending
    /\ phase \in {"none", "top", "send"} => at = "idle"
    /\ attempt \in {0, 1} /\ fresh \in BOOLEAN
    /\ attempt = 1 /\ phase = "top" => sock = "none"
    /\ attempt = 1 /\ phase \notin {"none", "top"} => fresh
    /\ made \in 0 .. Exchanges
    /\ answer \in Answers \cup {[bytes |-> <<>>, means |-> Failed]}

\* Which call an exchange is in, and what it has come to.
Jobs ==
    /\ phase \in {"none", "top", "send"} /\ sock # "none" =>
         job \in {"connect", "recv"} /\ (reply = Said("ok") \/ Handed)
    /\ phase = "send" => sock # "none"
    /\ phase = "dialling" => /\ job = "connect" /\ fresh /\ served = <<>>
                             /\ at = "idle" /\ sock = "none" => reply = Said("error") /\ blame
    /\ phase = "sending" => job = "send"
    /\ phase = "receiving" => job = "recv"
    /\ phase = "closing" => job = "close"
    /\ job = "connect" /\ reply # Said("ok") /\ sock # "none" => phase = "dialling"

\* What the server has been asked is what it has served, but for one request.
Requests ==
    /\ served \in Seq(Row) /\ RequestAsAsked
    /\ sock # "none" =>
         /\ IsPrefix(Told, App(got))
         /\ phase \in {"none", "top", "dialling", "send"} => asked = Told /\ heard = said
         /\ phase \in {"dialling", "send"} /\ fresh => served = <<>> /\ heard = <<>>
         /\ phase \in {"sending", "receiving"} =>
              asked = Told \/ (asked = Told \o Text(ask) /\ (fresh => served = <<>>))
         /\ phase = "closing" => asked = Told \/ \E q \in Ask : asked = Told \o Text(q)

\* What has been heard: earlier answers, what the parser has been fed, and a
\* piece that it has not.
Unfed == IF at = "idle" /\ phase = "receiving" /\ reply.rc = "ok" THEN reply.data ELSE <<>>
ReadSo(x, y) ==
    /\ heard = x \o (y \o Unfed) /\ (fresh => x = <<>>) /\ (phase = "sending" => y = <<>>)
    /\ resp = Parse(Fresh, y) /\ Live(resp)
    /\ IF asked = Told THEN said = x \o answer.bytes ELSE said = heard /\ y = <<>> /\ Unfed = <<>>
Reads == phase \in {"sending", "receiving"} => Unfed \in Row /\ \E x \in Row, y \in Row : ReadSo(x, y)

\* A connection that was made for this exchange fails it only for a reason.
Blames ==
    /\ fresh /\ phase \in {"dialling", "send", "sending", "receiving"} /\ sock \in {"cut", "fin"} =>
         blame \/ (sock = "fin" /\ bye /\ served # <<>>)
    /\ fresh /\ phase \in {"sending", "receiving"} /\ at = "idle" /\ reply.rc = "error" => blame
    /\ fresh /\ phase = "receiving" /\ reply = Data(<<>>) => blame \/ (answer.means = Failed /\ sock # "up")
    /\ fresh /\ phase = "closing" /\ resp.st # "bad" => blame \/ (answer.means = Failed /\ sock # "up")
    /\ phase = "closing" /\ resp.st = "bad" =>
         answer.means = Unreadable /\ (sock # "none" => asked = Told)
    /\ AnswerAsSent /\ OnlyFaultsFail

HttpInv == HttpTypes /\ Jobs /\ Requests /\ Reads /\ Blames

-----------------------------------------------------------------------------
(* What the exchange makes of the connection is what transport.h promises. *)

Streams == Contract!StreamNext \/ UNCHANGED Contract!streamVars

\* ByteStream's prefixes are those of the library.
LEMMA SamePrefix ==
    \A s, t : /\ Contract!IsPrefix(s, t) <=> IsPrefix(s, t)
              /\ Contract!IsStrictPrefix(s, t) <=> IsStrictPrefix(s, t)
BY DEF Contract!IsPrefix, IsPrefix, Contract!IsStrictPrefix, IsStrictPrefix

\* Without a connection nothing is promised.
LEMMA StreamNone ==
    ASSUME Link = "none", Link' = "none", conf' = conf
    PROVE  Streams
BY DEF Streams, Contract!streamVars

\* What changes nothing of it is a stutter.
LEMMA StreamStill ==
    ASSUME Link' = Link, UNCHANGED <<conf, asked, said, bye, heard>>, App(got') = App(got)
    PROVE  Streams
BY DEF Streams, Contract!streamVars

\* A call that returns, or goes on.
LEMMA StreamGoesOn ==
    ASSUME LineInv, LineInv', GoesOn, MoreReached, at # "idle", UNCHANGED <<job, conf, asked, said, bye>>
    PROVE  Streams
<1>1. Link' = Link
  BY DEF GoesOn, Link
<1>2. CASE Link = "none"
  BY <1>1, <1>2, StreamNone
<1>3. CASE Link # "none"
  <2>1. PICK g \in Row : App(got') = App(got) \o g
    BY DEF MoreReached
  <2>2. App(got) \in Row /\ App(got') \in Row /\ asked \in Row
    <3>1. App(got) \in Row /\ asked \in Row
      BY InvParts, SentParts DEF LineInv
    <3>2. App(got) \o g \in Row
      BY <3>1, RowFacts
    <3> QED  BY <2>1, <3>1, <3>2
  <2>3. IsPrefix(App(got), App(got'))
    BY <2>1, <2>2, PrefixOf
  <2>4. IsPrefix(App(got'), asked)
    <3>1. sock' # "none"
      BY <1>1, <1>3 DEF Link
    <3>2. Delivered'
      BY DEF LineInv, TransportInv
    <3>3. asked' = asked
      OBVIOUS
    <3> QED  BY <3>1, <3>2, <3>3 DEF Delivered
  <2>5. UNCHANGED <<asked, said, bye, heard>>
    BY DEF GoesOn
  <2>6. CASE App(got') = App(got)
    BY <1>1, <2>5, <2>6, StreamStill
  <2>7. CASE App(got') # App(got)
    <3>1. IsStrictPrefix(App(got), App(got'))
      BY <2>3, <2>7 DEF IsStrictPrefix
    <3> DEFINE l == Link
               a == IF Link = "none" THEN <<>> ELSE App(got)
               b == IF Link = "none" THEN <<>> ELSE asked
    <3>2. a = App(got) /\ a' = App(got') /\ b = asked
      BY <1>1, <1>3
    <3>3. IsStrictPrefix(a, a') /\ IsPrefix(a', b)
      BY <2>4, <3>1, <3>2
    <3>4. Link # "none" /\ UNCHANGED <<Link, conf, asked, said, bye, heard>>
      BY <1>1, <1>3, <2>5
    <3>5. Contract!Reach
      BY <3>3, <3>4, SamePrefix DEF Contract!Reach
    <3> QED  BY <3>5 DEF Streams, Contract!StreamNext
  <2> QED  BY <2>6, <2>7
<1> QED  BY <1>2, <1>3

\* A call that succeeds is a stutter,
LEMMA StreamSucceeds ==
    ASSUME LineInv, Succeeds, App(got') = App(got), at # "idle", UNCHANGED <<job, conf, asked, said, bye>>
    PROVE  Streams
<1>1. Shape /\ Connecting /\ Delivered
  BY InvParts DEF LineInv
<1>2. reply = Pending /\ sock # "none" /\ reply # Said("ok") /\ sock' = sock
  BY <1>1, UnderWay DEF Succeeds
<1>3. CASE job = "send"
  <2>1. Link = "open" /\ Link' = "open"
    BY <1>2, <1>3, SaidIs, DataApart DEF Link, Succeeds
  <2> QED  BY <2>1, StreamStill DEF Succeeds
<1>4. CASE job = "connect"
  <2>1. Link = "none" /\ Link' = "open"
    BY <1>2, <1>4, SaidIs, DataApart DEF Link, Succeeds
  <2>2. asked = <<>> /\ said = <<>> /\ heard = <<>> /\ ~bye
    BY <1>1, <1>2, <1>4 DEF Connecting
  <2>3. App(got) = <<>>
    <3>1. IsPrefix(App(got), <<>>) /\ App(got) \in Texts
      BY <1>1, <1>2, <2>2, SentParts, RowsAreTexts DEF Delivered
    <3> QED  BY <3>1, EmptyPrefix
  <2>4. bye' = FALSE
    BY <1>1, <2>2, ComingParts
  <2>5. asked' = <<>> /\ said' = <<>> /\ heard' = <<>> /\ App(got') = <<>>
    BY <2>2, <2>3 DEF Succeeds
  <2>6. Contract!Connected
    BY <2>1, <2>4, <2>5 DEF Contract!Connected
  <2> QED  BY <2>6 DEF Streams, Contract!StreamNext
<1> QED  BY <1>3, <1>4 DEF Succeeds

\* one that fails breaks the connection,
LEMMA StreamErrs ==
    ASSUME LineInv, Errs, App(got') = App(got), at # "idle", UNCHANGED <<job, conf, asked, said, bye>>
    PROVE  Streams
<1>1. Shape /\ Connecting
  BY InvParts DEF LineInv
<1>2. reply = Pending /\ sock # "none" /\ reply # Said("ok")
  BY <1>1, UnderWay
<1>3. CASE job = "connect"
  <2>1. Link = "none" /\ Link' = "none"
    BY <1>2, <1>3 DEF Link, Errs
  <2> QED  BY <2>1, StreamNone
<1>4. CASE job # "connect"
  <2>1. Link = "open" /\ Link' = "broken"
    BY <1>2, <1>4 DEF Link, Errs
  <2>2. heard' = heard
    BY DEF Errs
  <2>3. Contract!Break
    BY <2>1, <2>2 DEF Contract!Break
  <2> QED  BY <2>3 DEF Streams, Contract!StreamNext
<1> QED  BY <1>3, <1>4

\* and recv() hands out what comes next, or says that it has ended.
LEMMA StreamHands ==
    ASSUME LineInv, LineInv', HandsOut, App(got') = App(got), at # "idle",
           UNCHANGED <<job, conf, asked, said, bye>>
    PROVE  Streams
<1>1. Shape /\ Connecting /\ Received' /\ Shape'
  BY DEF LineInv, TransportInv
<1>2. reply = Pending /\ sock # "none" /\ reply # Said("ok") /\ sock' = sock
  BY <1>1, UnderWay DEF HandsOut
<1>3. PICK d \in Row : reply' = Data(d) /\ heard' = heard \o d /\ (d = <<>> => AllHeard)
  BY DEF HandsOut
<1>4. Link = "open"
  BY <1>2 DEF Link, HandsOut
<1>5. heard \in Row /\ heard' \in Row /\ said \in Row /\ Coming' \in Row
  <2>1. heard \in Row /\ said \in Row
    BY <1>1, ComingParts
  <2>2. heard' \in Row
    BY <1>3, <2>1, RowFacts
  <2>3. Shape' => Coming' \in Row
    <3>1. Shape' => /\ tls'.plain \in Row /\ tls'.rec \in Row
                    /\ in' \in Texts /\ pend' \in Texts /\ wire' \in Texts
      BY DEF Shape, BufTypeOK
    <3> QED  BY <3>1, ComingIs, ComesRow
  <2> QED  BY <1>1, <2>1, <2>2, <2>3
<1>6. reply' # Said("error")
  BY <1>3, DataApart
<1>7. CASE d = <<>>
  <2>1. Link' = "ended"
    BY <1>2, <1>3, <1>6, <1>7 DEF Link, HandsOut
  <2>2. heard' = heard
    BY <1>3, <1>5, <1>7, RowEmpty
  <2>3. conf.tls => bye /\ heard = said
    BY <1>3, <1>7 DEF AllHeard
  <2>4. Contract!End
    BY <1>4, <2>1, <2>2, <2>3 DEF Contract!End
  <2> QED  BY <2>4 DEF Streams, Contract!StreamNext
<1>8. CASE d # <<>>
  <2>1. reply' # Data(<<>>)
    BY <1>3, <1>8, DataApart
  <2>2. Link' = "open"
    BY <1>2, <1>6, <2>1 DEF Link, HandsOut
  <2>3. IsPrefix(heard', said')
    <3>1. IsPrefix(heard' \o Coming', said')
      BY <1>1, <1>2 DEF Received
    <3>2. said' \in Row
      BY <1>5
    <3> QED  BY <1>5, <3>1, <3>2, PrefixCut
  <2>4. IsPrefix(heard, heard')
    BY <1>3, <1>5, PrefixOf
  <2>5. heard' # heard
    <3>1. Len(d) # 0 /\ Len(d) \in Nat /\ Len(heard) \in Nat
      BY <1>5, <1>8, EmptySeq DEF Row
    <3>2. Len(heard \o d) = Len(heard) + Len(d)
      BY <1>5, RowFacts
    <3> QED  BY <1>3, <3>1, <3>2
  <2> DEFINE a == IF Link = "none" THEN <<>> ELSE heard
             b == IF Link = "none" THEN <<>> ELSE said
  <2>6. a = heard /\ a' = heard' /\ b = said
    BY <1>4, <2>2
  <2>7. IsStrictPrefix(a, a') /\ IsPrefix(a', b)
    BY <2>3, <2>4, <2>5, <2>6 DEF IsStrictPrefix
  <2>8. Link = "open" /\ Link' = "open" /\ UNCHANGED <<conf, asked, said, bye>> /\ App(got') = App(got)
    BY <1>4, <2>2
  <2>9. Contract!Hear
    BY <2>7, <2>8, SamePrefix DEF Contract!Hear
  <2> QED  BY <2>9 DEF Streams, Contract!StreamNext
<1> QED  BY <1>7, <1>8

\* So every step of a call is one that transport.h allows.
LEMMA StreamPump ==
    ASSUME LineInv, LineInv', Pump
    PROVE  Streams
<1>1. CallStep
  BY PumpGoes
<1>2. CASE Gone
  <2>1. Link = "none" /\ Link' = "none" /\ conf' = conf
    BY <1>1, <1>2 DEF Gone, Link, CallStep
  <2> QED  BY <2>1, StreamNone
<1>3. CASE UNCHANGED <<asked, said, bye>> /\ GoesOn /\ MoreReached
  BY <1>1, <1>3, StreamGoesOn DEF CallStep
<1>4. CASE UNCHANGED <<asked, said, bye>> /\ (Succeeds \/ Errs \/ HandsOut) /\ App(got') = App(got)
  BY <1>1, <1>4, StreamSucceeds, StreamErrs, StreamHands DEF CallStep
<1> QED  BY <1>1, <1>2, <1>3, <1>4 DEF CallStep

\* A request is a row of bytes and not empty.
LEMMA TextIs ==
    ASSUME NEW q \in Ask
    PROVE  Text(q) \in Row /\ Text(q) # <<>> /\ Built(q).text = Text(q)
<1>0. Built(q).text = Text(q)
  BY DEF Built
<1> DEFINE h == <<"eoh">>
<1>1. h \in Row /\ Len(h) = 1
  BY LastIs
<1> HIDE DEF h
<1>2. CASE q.body = <<>>
  <2>1. PICK x \in Seq(Word) : Text(q) = x \o h
    BY <1>2, BareText DEF h
  <2>2. x \in Row
    BY WordRows
  <2>3. x \o h \in Row /\ Len(x \o h) = Len(x) + Len(h) /\ Len(x) \in Nat
    BY <1>1, <2>2, RowFacts
  <2>4. x \o h # <<>>
    BY <1>1, <2>3, EmptyRow
  <2> QED  BY <1>0, <2>1, <2>3, <2>4
<1>3. CASE q.body # <<>>
  <2> DEFINE c == <<"Content-Length", Digits[Len(q.body) + 1]>>
             b == q.body
             e == h \o b
  <2>1. PICK x \in Seq(Word), z \in Seq(Word) : Text(q) = x \o (c \o (z \o e))
    BY <1>3, FullText DEF h
  <2>2. x \in Row /\ z \in Row /\ b \in Row
    BY WordRows, AskedFor
  <2>3. c \in Row /\ Len(c) = 2
    <3> DEFINE i == Len(q.body)
               g == Digits[i + 1]
    <3>1. i \in 0 .. 15
      BY AskedFor
    <3> HIDE DEF i
    <3>2. g \in Byte /\ "Content-Length" \in Byte
      <4> DEFINE j == i + 1
      <4>1. j \in 1 .. 16
        BY <3>1
      <4> HIDE DEF j
      <4>2. Digits[j] \in Byte
        BY <4>1, DigitsAre, WordBytes
      <4> QED  BY <4>2, WordBytes DEF j
    <3>3. c = <<"Content-Length", g>>
      BY DEF i
    <3> HIDE DEF c, g
    <3> QED  BY <3>2, <3>3 DEF Row
  <2> HIDE DEF c, b
  <2>4. e \in Row
    BY <1>1, <2>2, RowFacts
  <2> HIDE DEF e
  <2> DEFINE f == z \o e
  <2>5. f \in Row /\ Len(f) \in Nat
    BY <2>2, <2>4, RowFacts
  <2> HIDE DEF f
  <2> DEFINE g == c \o f
  <2>6. g \in Row /\ Len(g) = Len(c) + Len(f)
    BY <2>3, <2>5, RowFacts
  <2> HIDE DEF g
  <2>7. x \o g \in Row /\ Len(x \o g) = Len(x) + Len(g) /\ Len(x) \in Nat
    BY <2>2, <2>6, RowFacts
  <2>8. Len(x \o g) # 0
    BY <2>3, <2>5, <2>6, <2>7
  <2>9. x \o g # <<>>
    BY <2>8, EmptyRow
  <2>10. Text(q) = x \o g
    BY <2>1 DEF g, f
  <2> QED  BY <1>0, <2>7, <2>9, <2>10
<1> QED  BY <1>2, <1>3

\* No part of a request looks like a whole one.
LEMMA Framed ==
    ASSUME NEW q \in Ask, NEW p \in Row, NEW r \in Row, p \o r = Text(q), FirstAt(p, "eoh") # 0,
           Len(p) >= FirstAt(p, "eoh") + BodyLength(p)
    PROVE  p = Text(q) /\ FirstAt(p, "eoh") + BodyLength(p) = Len(p)
<1>1. FirstAt(p, "eoh") \in Nat /\ Len(p) \in Nat /\ Len(r) \in Nat
  <2>1. FirstAt(p, "eoh") \in 0 .. Len(p)
    BY FirstAtIs
  <2> QED  BY <2>1 DEF Row
<1>2. BodyLength(p) \in Nat /\ Len(Text(q)) = FirstAt(p, "eoh") + BodyLength(p)
  <2>1. CASE q.body = <<>>
    <3>1. BodyLength(p) = 0 /\ Len(Text(q)) = FirstAt(p, "eoh")
      BY <2>1, BareFrame
    <3> QED  BY <1>1, <3>1
  <2>2. CASE q.body # <<>>
    <3>1. BodyLength(p) = Len(q.body) /\ Len(Text(q)) = FirstAt(p, "eoh") + Len(q.body)
      BY <2>2, FullFrame
    <3>2. Len(q.body) \in 0 .. 15
      BY AskedFor
    <3>3. BodyLength(p) \in 0 .. 15
      BY <3>1, <3>2
    <3> QED  BY <3>1, <3>3
  <2> QED  BY <2>1, <2>2
<1>3. Len(Text(q)) = Len(p) + Len(r)
  BY RowFacts
<1> DEFINE a == Len(p)
           b == Len(r)
           c == FirstAt(p, "eoh")
           d == BodyLength(p)
<1>4. a \in Nat /\ b \in Nat /\ c \in Nat /\ d \in Nat /\ c + d = a + b /\ a >= c + d
  BY <1>1, <1>2, <1>3
<1> HIDE DEF a, b, c, d
<1>5. b = 0 /\ c + d = a
  BY <1>4
<1>6. r = <<>>
  BY <1>5, EmptySeq DEF b, Row
<1>7. p \o r = p
  BY <1>6, RowEmpty
<1> QED  BY <1>5, <1>7 DEF a, c, d

\* What the server has received is what it has served and what it has not read.
LEMMA ToldRow ==
    ASSUME served \in Seq(Row)
    PROVE  Told \in Row
BY FlatType DEF Told, Row

\* What the server has received: requests it has served, and what it has not read.
LEMMA UnreadIs ==
    ASSUME Shape, served \in Seq(Row), IsPrefix(Told, App(got))
    PROVE  Told \in Row /\ Unread \in Row /\ App(got) = Told \o Unread
<1>1. Told \in Row /\ App(got) \in Row
  BY ToldRow, SentParts
<1>2. PICK u \in Row : App(got) = Told \o u
  BY <1>1, PrefixOf
<1> DEFINE t == Told
           m == Len(t)
<1>3. Unread = SubSeq(t \o u, m + 1, Len(t \o u))
  BY <1>2 DEF Unread, Told
<1>4. t \in Row
  BY <1>1
<1> HIDE DEF t
<1>5. m \in Nat /\ m = Len(t) + 0 /\ Len(u) \in Nat
  <2>1. Len(t) \in Nat /\ Len(u) \in Nat
    BY <1>4 DEF Row
  <2> QED  BY <2>1
<1> HIDE DEF m
<1>6. SubSeq(t \o u, m + 1, Len(t \o u)) = SubSeq(u, 0 + 1, Len(u))
  <2>1. 0 \in Nat /\ 0 <= Len(u)
    BY <1>5
  <2> QED  BY <1>4, <1>5, <2>1, CutAfter
<1>7. SubSeq(u, 0 + 1, Len(u)) = u
  <2>1. SubSeq(u, 1, Len(u)) = u
    <3>1. Len(u) \in Nat /\ u \in Seq(Byte)
      BY <1>5 DEF Row
    <3> QED  BY <3>1
  <2> QED  BY <2>1
<1> QED  BY <1>1, <1>2, <1>3, <1>6, <1>7 DEF t

\* Nothing is answered that has not been asked.
LEMMA NothingAsked ==
    ASSUME LineInv, Requests, sock # "none", asked = Told
    PROVE  Unread = <<>> /\ ~Arrived
<1>1. Shape /\ Delivered /\ served \in Seq(Row) /\ IsPrefix(Told, App(got)) /\ IsPrefix(App(got), asked)
  BY InvParts DEF LineInv, Requests, Delivered
<1>2. Told \in Row /\ Unread \in Row /\ App(got) = Told \o Unread /\ App(got) \in Row /\ asked \in Row
  BY <1>1, UnreadIs, SentParts
<1>3. PICK v \in Row : asked = App(got) \o v
  BY <1>1, <1>2, PrefixOf
<1> DEFINE t == Told
           u == Unread
<1>4. t \in Row /\ u \in Row /\ t = (t \o u) \o v
  BY <1>2, <1>3
<1> HIDE DEF t, u
<1>5. Len(u) \in Nat /\ Len(v) \in Nat /\ Len(t) \in Nat /\ Len(t) = (Len(t) + Len(u)) + Len(v)
  <2> DEFINE w == t \o u
  <2>1. w \in Row /\ Len(w) = Len(t) + Len(u) /\ Len(t) \in Nat /\ Len(u) \in Nat
    BY <1>4, RowFacts
  <2> HIDE DEF w
  <2>2. Len(w \o v) = Len(w) + Len(v) /\ Len(v) \in Nat
    BY <2>1, RowFacts
  <2> QED  BY <1>4, <2>1, <2>2 DEF w
<1>6. Len(u) = 0
  BY <1>5
<1>7. u = <<>>
  BY <1>4, <1>6, EmptySeq DEF Row
<1>8. Unread = <<>>
  BY <1>7 DEF u
<1>9. FirstAt(Unread, "eoh") = 0
  BY <1>8, EmptyRow, FirstAtIs
<1> QED  BY <1>8, <1>9 DEF Arrived

\* Once a request has arrived, it is what was asked, and nothing follows it.
LEMMA OneAsked ==
    ASSUME LineInv, Requests, sock # "none", NEW q \in Ask, asked = Told \o Text(q), Arrived
    PROVE  SubSeq(Unread, 1, Extent) = Text(q) /\ App(got) = asked
<1>1. Shape /\ Delivered /\ served \in Seq(Row) /\ IsPrefix(Told, App(got)) /\ IsPrefix(App(got), asked)
  BY InvParts DEF LineInv, Requests, Delivered
<1>2. Told \in Row /\ Unread \in Row /\ App(got) = Told \o Unread /\ App(got) \in Row /\ asked \in Row
  BY <1>1, UnreadIs, SentParts
<1>3. PICK v \in Row : asked = App(got) \o v
  BY <1>1, <1>2, PrefixOf
<1>4. Text(q) \in Row
  BY TextIs
<1> DEFINE t == Told
           u == Unread
           x == Text(q)
<1>5. t \in Row /\ u \in Row /\ x \in Row /\ t \o x = (t \o u) \o v
  BY <1>2, <1>3, <1>4
<1> HIDE DEF t, u, x
<1>6. u \o v = x
  <2>1. (t \o u) \o v = t \o (u \o v)
    <3>1. t \in Row /\ u \in Row /\ v \in Row
      BY <1>5
    <3>9. Joins(t, u, v)
      BY ONLY <3>1, RowJoined, Zenon
    <3> QED  BY ONLY <3>9 DEF Joins
  <2> DEFINE w == u \o v
  <2>2. w \in Row
    BY <1>5, RowFacts
  <2> HIDE DEF w
  <2>3. t \o x = t \o w
    BY <1>5, <2>1 DEF w
  <2>4. x = w
    <3>1. t \in Seq(Byte) /\ x \in Seq(Byte) /\ w \in Seq(Byte)
      BY <1>5, <2>2 DEF Row
    <3> QED  BY ONLY <2>3, <3>1, ConcatCancel
  <2> QED  BY <2>4 DEF w
<1>7. FirstAt(u, "eoh") # 0 /\ Len(u) >= FirstAt(u, "eoh") + BodyLength(u)
  BY DEF Arrived, Extent, u
<1>8. u = x /\ FirstAt(u, "eoh") + BodyLength(u) = Len(u)
  BY <1>5, <1>6, <1>7, Framed DEF x
<1>9. SubSeq(u, 1, Len(u)) = u
  <2>1. Len(u) \in Nat /\ u \in Seq(Byte)
    BY <1>5 DEF Row
  <2> QED  BY <2>1
<1>10. Extent = Len(u)
  BY <1>8 DEF Extent, u
<1> QED  BY <1>2, <1>8, <1>9, <1>10 DEF u, x, t

-----------------------------------------------------------------------------
(* Whatever the exchange does, the connection stays as it should.          *)

Unmoved ==
    /\ UNCHANGED <<conf, sock, wire, got, gave, bufVars, at, job, todo, want, reply, trouble, streamHist>>
    /\ blame' \in BOOLEAN

\* What does not touch the connection keeps all that is known of it.
LEMMA LineStill ==
    ASSUME LineInv, Unmoved
    PROVE  LineInv'
<1>1. Shape /\ TransportInv /\ Alerted
  BY InvParts DEF LineInv
<1>2. UNCHANGED <<conf, sock, wire, got, gave, out, in, pend, tls, at, job, todo, want, reply, trouble,
                  asked, said, bye, heard>> /\ blame' \in BOOLEAN
  BY Zenon DEF Unmoved, bufVars, streamHist
<1>3. TransportTypeOK'
  <2>1. TransportTypeOK
    BY <1>1 DEF Shape
  <2> QED  BY <1>2, <2>1, Zenon DEF TransportTypeOK
<1>4. Shape'
  BY <1>1, <1>2, <1>3 DEF Shape, BufTypeOK, PlainOK, Places, Results
<1>5. TransportInv'
  BY <1>1, <1>2, <1>4, StillKeeps DEF bufVars, streamHist
<1>6. Alerted'
  BY <1>1, <1>2, AlertedStill
<1> QED  BY <1>5, <1>6 DEF LineInv

LEMMA LineConnect ==
    ASSUME LineInv, Connect
    PROVE  LineInv'
<1>1. TransportInv'
  BY ConnectKeeps DEF LineInv
<1>2. bye' = FALSE /\ job' = "connect"
  BY DEF Connect, Start
<1>3. Alerted'
  BY <1>2 DEF Alerted
<1> QED  BY <1>1, <1>3 DEF LineInv

LEMMA LineConnectFails ==
    ASSUME LineInv, ConnectFails
    PROVE  LineInv'
<1>1. TransportInv'
  BY ConnectFailsKeeps DEF LineInv
<1>2. Alerted'
  BY DEF ConnectFails, Alerted
<1> QED  BY <1>1, <1>2 DEF LineInv

\* A call that begins keeps all that is known of the connection;
LEMMA LineCalls ==
    ASSUME LineInv, UNCHANGED <<conf, sock, wire, in, pend, tls, bye>>, TransportInv',
           at' \in {"op", "write", "read", "bye", "gone"}, at' = "read" => ~conf.tls
    PROVE  LineInv'
<1>1. Alerted
  BY DEF LineInv
<1>2. Alerted'
  BY <1>1, AlertedStill
<1> QED  BY <1>2 DEF LineInv

LEMMA LineSend ==
    ASSUME LineInv, NEW d \in Row, Send(d), sock # "none", job \in {"connect", "recv"}
    PROVE  LineInv'
<1>1. TransportInv'
  BY SendKeeps DEF LineInv
<1>2. UNCHANGED <<conf, sock, wire, in, pend, tls, bye>> /\ at' \in {"op", "write"}
  BY DEF Send, Start, bufVars
<1> QED  BY <1>1, <1>2, LineCalls

LEMMA LineRecv ==
    ASSUME LineInv, Recv, job \in {"send", "recv"}, reply # Said("error")
    PROVE  LineInv'
<1>1. TransportInv'
  BY RecvKeeps DEF LineInv
<1>2. UNCHANGED <<conf, sock, wire, in, pend, tls, bye>> /\ at' \in {"op", "read"} /\ (at' = "read" => ~conf.tls)
  BY DEF Recv, Start, bufVars, streamHist
<1> QED  BY <1>1, <1>2, LineCalls

LEMMA LineClose ==
    ASSUME LineInv, Close, job \in {"send", "recv"}
    PROVE  LineInv'
<1>1. TransportInv'
  BY CloseKeeps DEF LineInv
<1>2. UNCHANGED <<conf, sock, wire, in, pend, tls, bye>> /\ at' \in {"bye", "gone"}
  BY DEF Close, Start, streamHist
<1> QED  BY <1>1, <1>2, LineCalls

\* Only an exchange that dials is without a connection that has been made.
LEMMA NotDialling ==
    ASSUME Jobs, sock # "none", phase # "dialling"
    PROVE  ~(job = "connect" /\ reply # Said("ok"))
BY DEF Jobs

\* An answer is complete when all of it has come and not before.
LEMMA AnswersAre ==
    ASSUME NEW a \in Answers
    PROVE  /\ a.bytes \in Row /\ a.bytes # <<>> /\ a.means = Meaning(a.bytes)
           /\ \A n \in 1 .. Len(a.bytes) - 1 : Parse(Fresh, SubSeq(a.bytes, 1, n)).st # "done"
BY AnswerAssumption DEF Row

\* When it dials the server has nothing to answer yet and does not leave.
LEMMA Silent ==
    ASSUME LineInv, HttpInv, sock = "up", ServerAnswers \/ ServerLeaves
    PROVE  phase # "dialling"
<1> SUFFICES ASSUME phase = "dialling" PROVE FALSE
  OBVIOUS
<1>1. served = <<>> /\ asked = Told /\ Requests
  BY DEF HttpInv, Jobs, Requests
<1>2. ~Arrived
  BY <1>1, NothingAsked
<1> QED  BY <1>1, <1>2 DEF ServerAnswers, ServerLeaves

\* The server answers a request that has arrived, so the handshake is over;
LEMMA LineAnswers ==
    ASSUME LineInv, HttpInv, ServerAnswers
    PROVE  LineInv' /\ sock = "up" /\ phase # "dialling"
<1>1. PICK a \in Answers : answer' = a /\ Speak(a.bytes)
  BY DEF ServerAnswers
<1>2. sock = "up"
  BY <1>1 DEF Speak
<1>3. phase # "dialling"
  BY <1>2, Silent
<1>4. ~(job = "connect" /\ reply # Said("ok"))
  BY <1>2, <1>3, NotDialling DEF HttpInv
<1> DEFINE d == a.bytes
<1>5. d \in Row /\ d # <<>>
  BY AnswersAre
<1>6. Speak(d)
  BY <1>1
<1> HIDE DEF d
<1>7. TransportInv'
  BY <1>4, <1>5, <1>6, SpeakKeeps DEF LineInv
<1>8. Alerted'
  BY <1>6, AlertedSpeak, InvParts DEF LineInv
<1> QED  BY <1>2, <1>3, <1>7, <1>8 DEF LineInv

\* and leaves only when it has answered one.
LEMMA LineLeaves ==
    ASSUME LineInv, HttpInv, ServerLeaves
    PROVE  LineInv' /\ sock = "up" /\ phase # "dialling"
<1>1. Leave /\ sock = "up"
  BY DEF ServerLeaves, Leave
<1>2. phase # "dialling"
  BY <1>1, Silent
<1>3. ~(job = "connect" /\ reply # Said("ok"))
  BY <1>1, <1>2, NotDialling DEF HttpInv
<1>4. TransportInv'
  BY <1>1, <1>3, LeaveKeeps DEF LineInv
<1>5. Alerted'
  BY <1>1, AlertedLeave, InvParts DEF LineInv
<1> QED  BY <1>1, <1>2, <1>4, <1>5 DEF LineInv

LEMMA LineGreet ==
    ASSUME LineInv, Greet
    PROVE  LineInv'
BY GreetKeeps, AlertedGreet, InvParts DEF LineInv

LEMMA LineNet ==
    ASSUME LineInv, NetFails
    PROVE  LineInv'
BY NetKeeps, AlertedNet, InvParts DEF LineInv

\* The steps of the exchange, as the connection sees them.
LEMMA StreamConnect ==
    ASSUME sock = "none", Connect \/ ConnectFails
    PROVE  Streams
<1>1. Link = "none" /\ conf' = conf
  BY DEF Link, Connect, ConnectFails
<1>2. CASE Connect
  <2>1. job' = "connect" /\ reply' = Pending
    BY <1>2 DEF Connect, Start
  <2>2. Link' = "none"
    BY <2>1, SaidIs DEF Link
  <2> QED  BY <1>1, <2>2, StreamNone
<1>3. CASE ConnectFails
  <2>1. Link' = "none"
    BY <1>3 DEF Link, ConnectFails
  <2> QED  BY <1>1, <2>1, StreamNone
<1> QED  BY <1>2, <1>3

\* What the caller cannot see is a stutter.
LEMMA StreamUnmoved ==
    ASSUME UNCHANGED <<conf, sock, got, at, job, reply, asked, said, bye, heard>>
    PROVE  Streams
<1>1. Link' = Link /\ App(got') = App(got)
  BY DEF Link
<1> QED  BY <1>1, StreamStill

\* A send() is told to the peer,
LEMMA StreamSend ==
    ASSUME LineInv, NEW d \in Row, d # <<>>, Send(d), sock # "none", job \in {"connect", "recv"},
           reply = Said("ok") \/ Handed
    PROVE  Streams
<1>1. Link = "open"
  <2>1. reply # Said("error") /\ reply # Data(<<>>) /\ (job = "connect" => reply = Said("ok") \/ Handed)
    BY SaidIs, DataApart DEF Handed
  <2>2. job = "connect" => reply = Said("ok")
    BY InvParts DEF LineInv, Shape, Results, Send, Start
  <2> QED  BY <2>1, <2>2 DEF Link
<1>2. at' # "idle" /\ job' = "send" /\ UNCHANGED <<conf, sock, got, said, bye, heard>> /\ asked' = asked \o d
  BY DEF Send, Start
<1>3. Link' = "open"
  BY <1>2 DEF Link
<1>4. asked \in Row
  BY InvParts, SentParts DEF LineInv
<1>5. IsPrefix(asked, asked \o d)
  BY <1>4, PrefixOf, RowFacts
<1>6. asked \o d # asked
  <2>1. Len(d) # 0 /\ Len(d) \in Nat /\ Len(asked) \in Nat
    BY <1>4, EmptySeq DEF Row
  <2>2. Len(asked \o d) = Len(asked) + Len(d)
    BY <1>4, RowFacts
  <2> QED  BY <2>1, <2>2
<1> DEFINE a == IF Link = "none" THEN <<>> ELSE asked
<1>7. a = asked /\ a' = asked'
  BY <1>1, <1>3
<1>8. IsStrictPrefix(a, a')
  BY <1>2, <1>5, <1>6, <1>7 DEF IsStrictPrefix
<1>9. App(got') = App(got)
  BY <1>2
<1>10. Contract!Tell
  BY <1>1, <1>2, <1>3, <1>8, <1>9, SamePrefix DEF Contract!Tell
<1> QED  BY <1>10 DEF Streams, Contract!StreamNext

\* a recv() asks, which is a stutter,
LEMMA StreamRecv ==
    ASSUME LineInv, Recv, job \in {"send", "recv"}, reply = Said("ok") \/ Handed
    PROVE  Streams
<1>1. reply # Said("error") /\ reply # Data(<<>>)
  BY SaidIs, DataApart DEF Handed
<1>2. sock # "none"
  BY InvParts DEF LineInv, Shape, Results
<1>3. Link = "open"
  BY <1>1, <1>2 DEF Link
<1>4. at' # "idle" /\ job' = "recv" /\ UNCHANGED <<conf, sock, got, asked, said, bye, heard>>
  BY DEF Recv, Start, streamHist
<1>5. Link' = "open"
  BY <1>2, <1>4 DEF Link
<1> QED  BY <1>3, <1>4, <1>5, StreamStill

\* and a close() ends the connection.
LEMMA StreamClose ==
    ASSUME Close
    PROVE  Streams
<1>1. job' = "close" /\ conf' = conf
  BY DEF Close, Start
<1>2. Link' = "none"
  BY <1>1 DEF Link
<1>3. Contract!Hangup
  BY <1>1, <1>2 DEF Contract!Hangup
<1> QED  BY <1>3 DEF Streams, Contract!StreamNext

LEMMA StreamAround ==
    ASSUME sock \notin {"none"}, sock' # "none", UNCHANGED <<conf, got, at, job, reply, asked, heard>>
    PROVE  Link' = Link /\ App(got') = App(got)
BY DEF Link

\* What the server says is said in order.
LEMMA StreamSays ==
    ASSUME LineInv, sock = "up", sock' # "none", UNCHANGED <<conf, got, at, job, reply, asked, heard>>,
           NEW d \in Row, said' = said \o d
    PROVE  Streams
<1>1. Link' = Link /\ App(got') = App(got)
  BY StreamAround
<1>2. CASE Link = "none"
  BY <1>1, <1>2, StreamNone
<1>3. CASE Link # "none"
  <2>1. ~bye
    BY InvParts DEF LineInv, Received
  <2>2. said \in Row
    BY InvParts, ComingParts DEF LineInv
  <2>3. IsPrefix(said, said')
    BY <2>2, PrefixOf, RowFacts
  <2> DEFINE a == IF Link = "none" THEN <<>> ELSE said
  <2>4. a = said /\ a' = said'
    BY <1>1, <1>3
  <2>5. IsPrefix(a, a')
    BY <2>3, <2>4
  <2>6. Contract!Say
    BY <1>1, <2>1, <2>5, SamePrefix DEF Contract!Say
  <2> QED  BY <2>6 DEF Streams, Contract!StreamNext
<1> QED  BY <1>2, <1>3

\* All that the other end and the network do is allowed.
LEMMA StreamWorld ==
    ASSUME LineInv, Greet \/ NetFails \/ Leave \/ \E d \in Row : Speak(d)
    PROVE  Streams
<1>1. said \in Row
  BY InvParts, ComingParts DEF LineInv
<1>2. CASE Greet \/ NetFails
  <2>1. sock = "up" /\ sock' # "none" /\ UNCHANGED <<conf, got, at, job, reply, asked, said, bye, heard>>
    BY <1>2 DEF Greet, NetFails, streamHist
  <2>2. Link' = Link /\ App(got') = App(got)
    BY <2>1, StreamAround
  <2> QED  BY <2>1, <2>2, StreamStill
<1>3. CASE Leave
  <2>1. sock = "up" /\ sock' # "none" /\ UNCHANGED <<conf, got, at, job, reply, asked, said, heard>>
    BY <1>3 DEF Leave
  <2>2. said' = said \o <<>>
    BY <1>1, <2>1, RowEmpty
  <2> QED  BY <2>1, <2>2, EmptyRow, StreamSays
<1>4. CASE \E d \in Row : Speak(d)
  <2>1. PICK d \in Row : Speak(d)
    BY <1>4
  <2>2. sock = "up" /\ sock' # "none" /\ UNCHANGED <<conf, got, at, job, reply, asked, heard>> /\ said' = said \o d
    BY <2>1 DEF Speak
  <2> QED  BY <2>2, StreamSays
<1> QED  BY <1>2, <1>3, <1>4

-----------------------------------------------------------------------------
(* A step of the call under way.                                           *)

\* The call under way is that of the phase.
LEMMA CallUnderWay ==
    ASSUME LineInv, HttpInv, at # "idle"
    PROVE  /\ phase \in {"dialling", "sending", "receiving", "closing"} /\ reply = Pending /\ sock # "none"
           /\ phase = "dialling" => job = "connect"
           /\ phase = "sending" => job = "send"
           /\ phase = "receiving" => job = "recv"
           /\ phase = "closing" => job = "close"
           /\ blame \in BOOLEAN /\ bye \in BOOLEAN
<1>1. reply = Pending /\ sock # "none" /\ blame \in BOOLEAN /\ bye \in BOOLEAN
  BY InvParts, Zenon DEF LineInv, Shape, TransportTypeOK, BufTypeOK
<1>2. phase \in {"dialling", "sending", "receiving", "closing"}
  BY DEF HttpInv, HttpTypes
<1> QED  BY <1>1, <1>2 DEF HttpInv, Jobs

\* What made a call fail is to blame, if the connection is new.
LEMMA CauseBlamed ==
    ASSUME Blames, Caused, blame => blame', fresh, phase \in {"dialling", "sending", "receiving"}
    PROVE  blame'
BY DEF Blames, Caused

\* Part by part, a step of the call under way keeps the invariant of the exchange.
LEMMA PumpJobs ==
    ASSUME LineInv, HttpInv, CallStep, UNCHANGED xVars
    PROVE  HttpTypes' /\ Jobs'
<1>1. at # "idle" /\ job' = job /\ (blame => blame')
  BY DEF CallStep
<1>2. /\ phase \in {"dialling", "sending", "receiving", "closing"} /\ sock # "none"
      /\ phase = "dialling" => job = "connect"
      /\ phase # "dialling" => job # "connect"
  BY <1>1, CallUnderWay
<1>3. HttpTypes'
  BY <1>2 DEF HttpInv, HttpTypes, xVars
<1>4. ASSUME phase = "dialling", at' = "idle", sock' = "none" PROVE reply' = Said("error") /\ blame'
  <2>1. Errs
    BY <1>2, <1>4 DEF CallStep, Gone, GoesOn, Succeeds, HandsOut
  <2>2. fresh /\ Blames /\ Caused
    BY <1>4, <2>1 DEF HttpInv, Jobs, Errs
  <2> QED  BY <1>1, <1>4, <2>1, <2>2, CauseBlamed DEF Errs
<1>5. phase' = phase /\ fresh' = fresh /\ served' = served
  BY DEF xVars
<1>6. Jobs'
  BY <1>1, <1>2, <1>4, <1>5 DEF HttpInv, Jobs
<1> QED  BY <1>3, <1>6

LEMMA CallKeeps ==
    ASSUME CallStep, job # "recv"
    PROVE  heard' = heard \/ sock' = "none"
BY DEF CallStep, Gone, GoesOn, Succeeds, Errs, HandsOut

LEMMA PumpRequests ==
    ASSUME LineInv, HttpInv, CallStep, UNCHANGED xVars
    PROVE  Requests'
<1>1. at # "idle" /\ job' = job
  BY DEF CallStep
<1>2. /\ phase \in {"dialling", "sending", "receiving", "closing"} /\ sock # "none"
      /\ phase = "dialling" => job = "connect"
  BY <1>1, CallUnderWay
<1>3. Requests
  BY DEF HttpInv
<1>4. UNCHANGED <<phase, fresh, served, ask>> /\ Told' = Told
  BY DEF xVars, Told
<1>5. served' \in Seq(Row) /\ RequestAsAsked'
  BY <1>3, <1>4 DEF Requests, RequestAsAsked
<1>6. ASSUME sock' # "none" PROVE UNCHANGED <<asked, said, bye>> /\ IsPrefix(Told, App(got'))
  <2>1. UNCHANGED <<asked, said, bye>> /\ (MoreReached \/ App(got') = App(got))
    BY <1>6 DEF CallStep, Gone
  <2>2. IsPrefix(Told, App(got)) /\ Told \in Row /\ App(got) \in Row
    BY <1>2, <1>3, ToldRow, SentParts, InvParts DEF Requests, LineInv
  <2>3. IsPrefix(Told, App(got'))
    <3>1. CASE App(got') = App(got)
      BY <2>2, <3>1
    <3>2. CASE MoreReached
      <4>1. PICK g \in Row : App(got') = App(got) \o g
        BY <3>2 DEF MoreReached
      <4> QED  BY <2>2, <4>1, PrefixGrow
    <3> QED  BY <2>1, <3>1, <3>2
  <2> QED  BY <2>1, <2>3
<1>7. phase = "dialling" => heard' = heard \/ sock' = "none"
  BY <1>2, CallKeeps
<1> QED  BY <1>2, <1>3, <1>4, <1>5, <1>6, <1>7 DEF Requests

\* Only a piece that recv() has just returned is not yet fed.
LEMMA UnfedNone ==
    ASSUME at # "idle" \/ phase # "receiving" \/ reply = Said("error")
    PROVE  Unfed = <<>>
BY SaidIs DEF Unfed

LEMMA PumpReads ==
    ASSUME LineInv, LineInv', HttpInv, CallStep, UNCHANGED xVars
    PROVE  Reads'
<1> SUFFICES ASSUME phase' \in {"sending", "receiving"}
             PROVE  Unfed' \in Row /\ \E x \in Row, y \in Row : ReadSo(x, y)'
  BY DEF Reads
<1>1. at # "idle" /\ job' = job /\ UNCHANGED <<phase, fresh, resp, answer, served>> /\ Told' = Told
  BY DEF CallStep, xVars, Told
<1>2. sock # "none" /\ reply = Pending /\ (phase = "sending" => job = "send") /\ (phase = "receiving" => job = "recv")
  BY <1>1, CallUnderWay
<1>3. UNCHANGED <<asked, said, bye>>
  BY <1>1, <1>2 DEF CallStep, Gone
<1>4. Unfed = <<>>
  BY <1>1, UnfedNone
<1>5. PICK x \in Row, y \in Row : ReadSo(x, y)
  BY <1>1 DEF HttpInv, Reads
<1>6. heard \in Row /\ said \in Row /\ <<>> \in Row
  BY InvParts, ComingParts, EmptyRow DEF LineInv
<1>7. heard = x \o y
  BY <1>4, <1>5, RowEmpty DEF ReadSo
<1>8. CASE heard' = heard /\ Unfed' = <<>>
  <2>1. ReadSo(x, y)'
    BY <1>1, <1>3, <1>4, <1>5, <1>8 DEF ReadSo
  <2> QED  BY <1>6, <1>8, <2>1
<1>9. CASE HandsOut
  <2>1. PICK d \in Row : reply' = Data(d) /\ heard' = heard \o d
    BY <1>9 DEF HandsOut
  <2>2. at' = "idle" /\ phase' = "receiving" /\ reply'.rc = "ok" /\ reply'.data = d
    BY <1>1, <1>2, <1>9, <2>1, DataApart DEF HandsOut
  <2>3. Unfed' = d
    BY <2>2 DEF Unfed
  <2>4. heard' = x \o (y \o d)
    BY <1>7, <2>1, RowAssoc
  <2>5. ASSUME asked # Told PROVE d = <<>>
    <3>1. said = heard
      BY <1>5, <2>5 DEF ReadSo
    <3>2. sock' # "none"
      BY <1>2, <1>9 DEF HandsOut
    <3>3. IsPrefix(heard' \o Coming', said')
      BY <3>2 DEF LineInv, TransportInv, Received
    <3>4. Coming' \in Row
      <4>1. /\ tls'.plain \in Row /\ tls'.rec \in Row
            /\ in' \in Texts /\ pend' \in Texts /\ wire' \in Texts
        BY DEF LineInv, TransportInv, Shape, BufTypeOK
      <4> QED  BY <4>1, ComingIs, ComesRow
    <3>5. heard \o d \in Row
      BY <1>6, RowFacts
    <3>6. IsPrefix(heard \o d, heard)
      <4> DEFINE h == heard \o d
                 c == Coming'
                 s == said'
      <4>1. h \in Row /\ c \in Row /\ s \in Row /\ IsPrefix(h \o c, s) /\ s = heard
        BY <1>3, <1>6, <2>1, <3>1, <3>3, <3>4, <3>5
      <4> HIDE DEF h, c, s
      <4>2. IsPrefix(h, s)
        BY <4>1, PrefixCut
      <4> QED  BY <4>1, <4>2 DEF h
    <3>7. PICK v \in Row : heard = (heard \o d) \o v
      BY <1>6, <3>5, <3>6, PrefixOf
    <3> DEFINE h == heard
               w == h \o d
    <3>8. h \in Row /\ w \in Row /\ Len(w) = Len(h) + Len(d) /\ Len(h) \in Nat /\ Len(d) \in Nat
      BY <1>6, RowFacts
    <3> HIDE DEF w
    <3>9. Len(w \o v) = Len(w) + Len(v) /\ Len(v) \in Nat
      BY <3>8, RowFacts
    <3>10. Len(h) = (Len(h) + Len(d)) + Len(v)
      BY <3>7, <3>8, <3>9 DEF w
    <3>11. Len(d) = 0
      <4> HIDE DEF h
      <4> QED  BY <3>8, <3>9, <3>10
    <3> QED  BY <3>11, EmptySeq DEF Row
  <2>6. asked # Told => heard' = heard
    BY <1>6, <2>1, <2>5, RowEmpty
  <2>7. ReadSo(x, y)'
    BY <1>1, <1>3, <1>5, <2>2, <2>3, <2>4, <2>5, <2>6 DEF ReadSo
  <2> QED  BY <2>3, <2>7
<1>10. CASE GoesOn \/ Succeeds \/ Errs
  <2>1. heard' = heard
    BY <1>10 DEF GoesOn, Succeeds, Errs
  <2>2. at' # "idle" \/ phase' # "receiving" \/ reply' = Said("error")
    BY <1>1, <1>2, <1>10 DEF GoesOn, Succeeds, Errs
  <2>3. Unfed' = <<>>
    BY <2>2, SaidIs DEF Unfed
  <2> QED  BY <1>8, <2>1, <2>3
<1>11. job # "close"
  BY <1>1, <1>2
<1> QED  BY <1>9, <1>10, <1>11 DEF CallStep, Gone

\* The bytes of the last answer, all of them, in order.
LEMMA AnswerRow ==
    ASSUME HttpTypes
    PROVE  answer.bytes \in Row
<1>1. answer \in Answers \/ answer = [bytes |-> <<>>, means |-> Failed]
  BY DEF HttpTypes
<1>2. answer = [bytes |-> <<>>, means |-> Failed] => answer.bytes = <<>>
  OBVIOUS
<1> QED  BY <1>1, <1>2, AnswersAre, EmptyRow

\* An answer of which all was heard and which the parser does not find complete
LEMMA Incomplete ==
    ASSUME HttpTypes, Live(Parse(Fresh, answer.bytes))
    PROVE  answer.means = Failed
<1>1. CASE answer \in Answers
  <2> DEFINE r == Parse(Fresh, answer.bytes)
  <2>1. answer.means = Meaning(answer.bytes)
    BY <1>1, AnswersAre
  <2>2. Meaning(answer.bytes) = CASE r.st = "done" -> Means(r)
                                  [] r.st = "bad" -> Unreadable
                                  [] OTHER -> Failed
    BY DEF Meaning
  <2>3. r.st # "done" /\ r.st # "bad"
    BY DEF Live
  <2> HIDE DEF r
  <2> QED  BY <2>1, <2>2, <2>3
<1>2. CASE answer = [bytes |-> <<>>, means |-> Failed]
  BY <1>2
<1> QED  BY <1>1, <1>2 DEF HttpTypes

\* An orderly end before the answer is complete: the answer was incomplete.
LEMMA EndsIncomplete ==
    ASSUME LineInv, HttpInv, phase = "receiving", at # "idle", fresh, HandsOut, reply' = Data(<<>>),
           served # <<>>, bye, sock # "none"
    PROVE  answer.means = Failed
<1>1. PICK d \in Row : reply' = Data(d) /\ (d = <<>> => AllHeard)
  BY DEF HandsOut
<1>2. d = <<>>
  BY <1>1, DataApart
<1>3. heard = said
  BY <1>1, <1>2 DEF AllHeard
<1>4. PICK x \in Row, y \in Row : ReadSo(x, y)
  BY DEF HttpInv, Reads
<1>5. x = <<>> /\ Unfed = <<>>
  BY <1>4, UnfedNone DEF ReadSo
<1>6. heard = y
  <2>1. heard = <<>> \o (y \o <<>>)
    BY <1>4, <1>5 DEF ReadSo
  <2> QED  BY <2>1, RowEmpty
<1>7. asked = Told
  BY DEF HttpInv, Requests
<1>8. HttpTypes /\ answer.bytes \in Row
  BY AnswerRow DEF HttpInv
<1>9. said = answer.bytes
  <2>1. said = <<>> \o answer.bytes
    BY <1>4, <1>5, <1>7 DEF ReadSo
  <2> QED  BY <1>8, <2>1, RowEmpty
<1>10. Live(Parse(Fresh, answer.bytes))
  BY <1>3, <1>4, <1>6, <1>9 DEF ReadSo
<1> QED  BY <1>8, <1>10, Incomplete

LEMMA PumpBlames ==
    ASSUME LineInv, HttpInv, CallStep, UNCHANGED xVars
    PROVE  Blames'
<1>1. at # "idle" /\ job' = job /\ UNCHANGED <<phase, fresh, resp, answer, served, outcome>> /\ Told' = Told
      /\ (blame => blame')
  BY DEF CallStep, xVars, Told
<1>2. /\ sock # "none" /\ reply = Pending /\ (phase = "sending" => job = "send")
      /\ phase = "receiving" => job = "recv"
      /\ phase \in {"dialling", "sending", "receiving", "closing"}
      /\ phase = "closing" => job = "close"
      /\ blame \in BOOLEAN /\ bye \in BOOLEAN
  BY <1>1, CallUnderWay
<1>3. Blames
  BY DEF HttpInv
<1>4. sock' = "none" \/ (sock' = sock /\ UNCHANGED <<asked, said, bye>>)
  BY DEF CallStep, Gone, GoesOn, Succeeds, Errs, HandsOut
<1>5. fresh' /\ phase' \in {"dialling", "send", "sending", "receiving"} /\ sock' \in {"cut", "fin"} =>
         blame' \/ (sock' = "fin" /\ bye' /\ served' # <<>>)
  BY <1>1, <1>3, <1>4 DEF Blames
<1>6. ASSUME fresh', phase' \in {"sending", "receiving"}, at' = "idle", reply'.rc = "error" PROVE blame'
  <2>1. Errs
    <3>1. ~Gone
      BY <1>1, <1>2, <1>6 DEF Gone
    <3>2. ~GoesOn /\ ~Succeeds
      BY <1>6, SaidIs DEF GoesOn, Succeeds
    <3>3. ~HandsOut
      <4> SUFFICES ASSUME HandsOut PROVE FALSE
        OBVIOUS
      <4>1. PICK d \in Row : reply' = Data(d)
        BY DEF HandsOut
      <4> QED  BY <1>6, <4>1, DataApart
    <3> QED  BY <3>1, <3>2, <3>3 DEF CallStep
  <2>2. Caused
    BY <2>1 DEF Errs
  <2> QED  BY <1>1, <1>3, <1>6, <2>2, CauseBlamed
<1>7. ASSUME fresh', phase' = "receiving", reply' = Data(<<>>)
      PROVE  blame' \/ (answer'.means = Failed /\ sock' # "up")
  <2>1. HandsOut
    <3>1. ~Gone /\ ~GoesOn
      BY <1>1, <1>2, <1>7, DataApart DEF Gone, GoesOn
    <3>2. ~Succeeds /\ ~Errs
      BY <1>7, DataApart DEF Succeeds, Errs
    <3> QED  BY <3>1, <3>2 DEF CallStep
  <2>2. AllHeard /\ sock' = sock
    BY <1>7, <2>1, DataApart DEF HandsOut
  <2>3. sock \in {"cut", "fin"}
    BY <1>2, <2>2, InvParts DEF AllHeard, LineInv, Shape, TransportTypeOK
  <2>4. blame' \/ (bye /\ served # <<>>)
    BY <1>1, <1>3, <1>7, <2>3 DEF Blames
  <2>5. bye /\ served # <<>> => answer.means = Failed
    BY <1>1, <1>2, <1>7, <2>1, EndsIncomplete
  <2> QED  BY <1>1, <2>2, <2>4, <2>5 DEF AllHeard
<1>8. fresh' /\ phase' = "closing" /\ resp'.st # "bad" => blame' \/ (answer'.means = Failed /\ sock' # "up")
  BY <1>1, <1>3, <1>4 DEF Blames
<1>9. phase' = "closing" /\ resp'.st = "bad" => answer'.means = Unreadable /\ (sock' # "none" => asked' = Told')
  BY <1>1, <1>2, <1>3, <1>4 DEF Blames
<1>10. AnswerAsSent' /\ OnlyFaultsFail'
  BY <1>1, <1>3 DEF Blames, AnswerAsSent, OnlyFaultsFail
<1> QED  BY <1>5, <1>6, <1>7, <1>8, <1>9, <1>10 DEF Blames

LEMMA PumpHttp ==
    ASSUME LineInv, HttpInv, Pump, UNCHANGED xVars
    PROVE  LineInv' /\ HttpInv'
<1>1. LineInv'
  BY LinePump
<1>2. CallStep
  BY PumpGoes
<1> QED  BY <1>1, <1>2, PumpJobs, PumpRequests, PumpReads, PumpBlames DEF HttpInv

-----------------------------------------------------------------------------
(* The steps of the exchange.                                              *)

\* The outcomes of an exchange are told apart.
LEMMA OutcomesDiffer ==
    /\ Pending # Failed /\ Pending # Unreadable /\ TooLong # Failed /\ TooLong # Unreadable
    /\ Failed # Unreadable /\ TooLong # Pending /\ Failed # Pending /\ Unreadable # Pending
    /\ "code" \notin DOMAIN Pending /\ "code" \notin DOMAIN TooLong
    /\ "code" \notin DOMAIN Failed /\ "code" \notin DOMAIN Unreadable
    /\ \A r : Means(r) # Failed /\ Means(r) # Unreadable /\ Means(r) # Pending
<1>1. DOMAIN Pending = {"rc"} /\ DOMAIN TooLong = {"st"} /\ DOMAIN Failed = {"st"} /\ DOMAIN Unreadable = {"st"}
  BY DEF Pending, TooLong, Failed, Unreadable
<1>2. TooLong.st = "toolong" /\ Failed.st = "failed" /\ Unreadable.st = "refused"
  BY DEF TooLong, Failed, Unreadable
<1>3. \A r : DOMAIN Means(r) = {"code", "body", "unframed"}
  BY DEF Means
<1>4. \A r : Means(r) # Failed /\ Means(r) # Unreadable /\ Means(r) # Pending
  <2> SUFFICES ASSUME NEW r PROVE Means(r) # Failed /\ Means(r) # Unreadable /\ Means(r) # Pending
    OBVIOUS
  <2>1. "code" \in DOMAIN Means(r)
    BY <1>3
  <2>2. "code" \notin DOMAIN Failed /\ "code" \notin DOMAIN Unreadable /\ "code" \notin DOMAIN Pending
    BY <1>1
  <2> QED  BY <2>1, <2>2
<1>5. /\ Pending # Failed /\ Pending # Unreadable /\ TooLong # Pending
      /\ Failed # Pending /\ Unreadable # Pending
  <2>1. {"rc"} # {"st"}
    OBVIOUS
  <2> QED  BY <1>1, <2>1
<1>6. TooLong # Failed /\ TooLong # Unreadable /\ Failed # Unreadable
  <2>1. "toolong" # "failed" /\ "toolong" # "refused" /\ "failed" # "refused"
    OBVIOUS
  <2> QED  BY <1>2, <2>1
<1> QED  BY <1>1, <1>4, <1>5, <1>6

\* A request is not no request.
LEMMA AskIsSome ==
    ASSUME NEW q \in Ask
    PROVE  q # NoAsk
<1>1. DOMAIN q = {"m", "path", "extra", "body"}
  <2>1. q \in [m : Word, path : Seq(Word), extra : Seq(Seq(Word)), body : Seq(Byte)]
    BY AskAssumption
  <2> QED  BY <2>1
<1>2. DOMAIN NoAsk = {"m"}
  BY DEF NoAsk
<1>3. "body" \in DOMAIN q /\ "body" \notin DOMAIN NoAsk
  BY <1>1, <1>2
<1> QED  BY <1>3

\* An exchange begins, or is refused for its length;
LEMMA BeginHttp ==
    ASSUME LineInv, HttpInv, NEW q \in Ask, Begin(q)
    PROVE  LineInv' /\ HttpInv' /\ Streams
<1>1. /\ at = "idle" /\ phase = "none" /\ made < Exchanges /\ made' = made + 1 /\ attempt' = 0 /\ blame' = FALSE
      /\ UNCHANGED <<conf, sock, wire, got, gave, bufVars, at, job, todo, want, reply, trouble,
                     streamHist, resp, fresh, served, answer>>
  BY DEF Begin
<1>2. UNCHANGED <<asked, said, bye, heard>> /\ Told' = Told /\ App(got') = App(got)
  BY <1>1 DEF streamHist, Told
<1>3. LineInv'
  <2>1. Unmoved
    BY <1>1 DEF Unmoved
  <2> QED  BY <2>1, LineStill
<1>4. Streams
  BY <1>1, <1>2, StreamUnmoved
<1>5. \/ Built(q).ok /\ ask' = q /\ phase' = "top" /\ outcome' = Pending
      \/ ask' = NoAsk /\ phase' = "none" /\ outcome' = TooLong
  BY <1>1 DEF Begin
<1>6. made' \in 0 .. Exchanges
  <2>1. made \in 0 .. Exchanges
    BY DEF HttpInv, HttpTypes
  <2> QED  BY <1>1, <2>1, BoundAssumption
<1>7. HttpTypes'
  <2>1. HttpTypes
    BY DEF HttpInv
  <2>2. q # NoAsk
    BY AskIsSome
  <2>3. ask' \in Ask \cup {NoAsk} /\ (ask' # NoAsk => Built(ask').ok)
    BY <1>5
  <2> QED  BY <1>1, <1>5, <1>6, <2>1, <2>2, <2>3, OutcomesDiffer DEF HttpTypes
<1>8. Jobs'
  <2>1. Handed' <=> Handed
    BY <1>1 DEF Handed
  <2> QED  BY <1>1, <1>5, <2>1 DEF HttpInv, Jobs
<1>9. Requests'
  <2>1. RequestAsAsked' <=> RequestAsAsked
    BY <1>1 DEF RequestAsAsked
  <2> QED  BY <1>1, <1>2, <1>5, <2>1 DEF HttpInv, Requests
<1>10. Reads'
  BY <1>5 DEF Reads
<1>11. Blames'
  <2>1. AnswerAsSent' /\ OnlyFaultsFail'
    BY <1>5, OutcomesDiffer DEF AnswerAsSent, OnlyFaultsFail
  <2> QED  BY <1>5, <2>1 DEF Blames
<1> QED  BY <1>3, <1>4, <1>7, <1>8, <1>9, <1>10, <1>11 DEF HttpInv

LEMMA NothingTold == FlattenSeq(<<>>) = <<>> /\ <<>> \in Seq(Row) /\ App(<<>>) = <<>> /\ IsPrefix(<<>>, <<>>)
BY FlatEmpty, AppEmpty, EmptyTexts, EmptyPrefix

\* it takes the connection there is, or makes one;
LEMMA DialHttp ==
    ASSUME LineInv, HttpInv, Dial
    PROVE  LineInv' /\ HttpInv' /\ Streams
<1>1. /\ phase = "top" /\ at = "idle" /\ fresh' = (sock = "none")
      /\ UNCHANGED <<ask, resp, attempt, made, outcome, answer>>
  BY DEF Dial
<1>2. ask # NoAsk /\ outcome = Pending /\ HttpTypes
  BY <1>1 DEF HttpInv, HttpTypes
<1>3. AnswerAsSent' /\ OnlyFaultsFail'
  BY <1>1, <1>2, OutcomesDiffer DEF AnswerAsSent, OnlyFaultsFail
<1>4. CASE sock = "none"
  <2>1. (Connect \/ ConnectFails) /\ phase' = "dialling" /\ served' = <<>> /\ fresh' = TRUE
    BY <1>1, <1>4 DEF Dial
  <2>2. LineInv' /\ Streams
    BY <1>4, <2>1, LineConnect, LineConnectFails, StreamConnect
  <2>3. HttpTypes'
    BY <1>1, <1>2, <2>1 DEF HttpTypes
  <2>4. job' = "connect"
    BY <2>1 DEF Connect, ConnectFails, Start
  <2>5. \/ at' # "idle" /\ sock' = "up" /\ asked' = <<>> /\ said' = <<>> /\ heard' = <<>> /\ got' = <<>>
        \/ at' = "idle" /\ sock' = "none" /\ reply' = Said("error") /\ blame'
    BY <1>4, <2>1 DEF Connect, ConnectFails, Start, Answer
  <2>6. Jobs'
    BY <2>1, <2>4, <2>5 DEF Jobs
  <2>7. Requests'
    <3>1. RequestAsAsked'
      BY <2>1 DEF RequestAsAsked
    <3>2. Told' = <<>> /\ served' \in Seq(Row)
      BY <2>1, NothingTold DEF Told
    <3>3. sock' # "none" => App(got') = <<>>
      BY <2>5, NothingTold
    <3>4. sock' # "none" => IsPrefix(Told', App(got'))
      BY <3>2, <3>3, NothingTold
    <3> QED  BY <2>1, <2>5, <3>1, <3>2, <3>4 DEF Requests
  <2>8. Reads'
    BY <2>1 DEF Reads
  <2>9. Blames'
    BY <1>3, <2>1, <2>5 DEF Blames
  <2> QED  BY <2>2, <2>3, <2>6, <2>7, <2>8, <2>9 DEF HttpInv
<1>5. CASE sock # "none"
  <2>1. phase' = "send" /\ UNCHANGED <<transportVars, served>> /\ fresh' = FALSE
    BY <1>1, <1>5 DEF Dial
  <2>2. UNCHANGED <<conf, sock, wire, got, gave, bufVars, at, job, todo, want, reply, trouble, streamHist, blame>>
    BY <2>1 DEF transportVars
  <2>3. UNCHANGED <<asked, said, bye, heard>> /\ Told' = Told /\ App(got') = App(got)
    BY <2>1, <2>2 DEF streamHist, Told
  <2>4. LineInv'
    <3>1. blame' \in BOOLEAN
      BY <2>2, InvParts, Zenon DEF LineInv, Shape, TransportTypeOK
    <3>2. Unmoved
      BY <2>2, <3>1 DEF Unmoved
    <3> QED  BY <3>2, LineStill
  <2>5. Streams
    BY <2>2, <2>3, StreamUnmoved
  <2>6. HttpTypes'
    BY <1>1, <1>2, <1>5, <2>1, <2>2 DEF HttpTypes
  <2>7. Jobs'
    <3>1. Handed' <=> Handed
      BY <2>2 DEF Handed
    <3> QED  BY <1>1, <1>5, <2>1, <2>2, <3>1 DEF HttpInv, Jobs
  <2>8. Requests'
    <3>1. RequestAsAsked' <=> RequestAsAsked
      BY <2>1 DEF RequestAsAsked
    <3> QED  BY <1>1, <2>1, <2>2, <2>3, <3>1 DEF HttpInv, Requests
  <2>9. Reads'
    BY <2>1 DEF Reads
  <2>10. Blames'
    BY <1>3, <2>1 DEF Blames
  <2> QED  BY <2>4, <2>5, <2>6, <2>7, <2>8, <2>9, <2>10 DEF HttpInv
<1> QED  BY <1>4, <1>5

\* A step of the exchange that leaves the connection as it is.
LEMMA LineSame ==
    ASSUME LineInv, UNCHANGED transportVars
    PROVE  LineInv' /\ Streams
<1>1. UNCHANGED <<conf, sock, wire, got, gave, bufVars, at, job, todo, want, reply, trouble, streamHist, blame>>
  BY DEF transportVars
<1>2. UNCHANGED <<asked, said, bye, heard>>
  BY <1>1 DEF streamHist
<1>3. LineInv'
  <2>1. blame' \in BOOLEAN
    BY <1>1, InvParts, Zenon DEF LineInv, Shape, TransportTypeOK
  <2>2. Unmoved
    BY <1>1, <2>1 DEF Unmoved
  <2> QED  BY <2>2, LineStill
<1> QED  BY <1>1, <1>2, <1>3, StreamUnmoved

LEMMA SameFacts ==
    ASSUME UNCHANGED transportVars
    PROVE  /\ UNCHANGED <<conf, sock, got, at, job, reply, asked, said, bye, heard, blame>>
           /\ App(got') = App(got) /\ (Handed' <=> Handed)
<1>1. UNCHANGED <<conf, sock, got, at, job, reply, asked, said, bye, heard, blame>>
  BY DEF transportVars, streamHist
<1> QED  BY <1>1 DEF Handed

\* which succeeds or fails;
LEMMA DialledHttp ==
    ASSUME LineInv, HttpInv, Dialled
    PROVE  LineInv' /\ HttpInv' /\ Streams
<1>1. /\ phase = "dialling" /\ at = "idle"
      /\ UNCHANGED transportVars /\ UNCHANGED <<resp, fresh, attempt, made, served, answer>>
  BY DEF Dialled
<1>2. LineInv' /\ Streams
  BY <1>1, LineSame
<1>3. /\ UNCHANGED <<conf, sock, got, at, job, reply, asked, said, bye, heard, blame>>
      /\ App(got') = App(got) /\ (Handed' <=> Handed) /\ Told' = Told /\ (RequestAsAsked' <=> RequestAsAsked)
  BY <1>1, SameFacts DEF Told, RequestAsAsked
<1>4. job = "connect" /\ fresh /\ served = <<>> /\ (sock = "none" => reply = Said("error") /\ blame)
  BY <1>1 DEF HttpInv, Jobs
<1>5. sock # "none" => reply = Said("ok")
  BY <1>1, <1>4, InvParts DEF LineInv, Shape, Results
<1>6. HttpTypes /\ outcome = Pending
  BY <1>1 DEF HttpInv, HttpTypes
<1>7. CASE reply = Said("ok")
  <2>1. phase' = "send" /\ UNCHANGED <<outcome, ask>> /\ sock # "none"
    BY <1>4, <1>7, SaidIs DEF Dialled
  <2>2. HttpTypes'
    BY <1>1, <1>3, <1>6, <2>1 DEF HttpTypes
  <2>3. Jobs'
    BY <1>3, <1>4, <1>7, <2>1 DEF Jobs
  <2>4. Requests'
    BY <1>1, <1>3, <2>1 DEF HttpInv, Requests
  <2>5. Reads'
    BY <2>1 DEF Reads
  <2>6. Blames'
    <3>1. AnswerAsSent' /\ OnlyFaultsFail'
      BY <1>6, <2>1, OutcomesDiffer DEF AnswerAsSent, OnlyFaultsFail
    <3> QED  BY <1>1, <1>3, <2>1, <3>1 DEF HttpInv, Blames
  <2> QED  BY <1>2, <2>2, <2>3, <2>4, <2>5, <2>6 DEF HttpInv
<1>8. CASE reply # Said("ok")
  <2>1. phase' = "none" /\ outcome' = Failed /\ ask' = NoAsk
    BY <1>8 DEF Dialled, Over
  <2>2. sock = "none" /\ blame
    BY <1>4, <1>5, <1>8
  <2>3. HttpTypes'
    BY <1>1, <1>3, <1>6, <2>1, OutcomesDiffer DEF HttpTypes
  <2>4. Jobs'
    BY <1>3, <2>1, <2>2 DEF Jobs
  <2>5. Requests'
    BY <1>1, <1>3, <2>2 DEF HttpInv, Requests
  <2>6. Reads'
    BY <2>1 DEF Reads
  <2>7. Blames'
    <3>1. AnswerAsSent' /\ OnlyFaultsFail'
      BY <1>3, <2>1, <2>2, OutcomesDiffer DEF AnswerAsSent, OnlyFaultsFail
    <3> QED  BY <2>1, <3>1 DEF Blames
  <2> QED  BY <1>2, <2>3, <2>4, <2>5, <2>6, <2>7 DEF HttpInv
<1> QED  BY <1>7, <1>8

\* it sends its request;
LEMMA SendHttp ==
    ASSUME LineInv, HttpInv, SendRequest
    PROVE  LineInv' /\ HttpInv' /\ Streams
<1> DEFINE d == Text(ask)
<1>1. /\ phase = "send" /\ phase' = "sending" /\ resp' = Fresh
      /\ UNCHANGED <<gave, ask, fresh, attempt, made, outcome, served, answer>>
  BY DEF SendRequest
<1>2. HttpTypes /\ ask \in Ask /\ outcome = Pending
  BY <1>1 DEF HttpInv, HttpTypes
<1>3. d \in Row /\ d # <<>> /\ Send(d)
  <2>1. Built(ask).text = Text(ask) /\ Text(ask) \in Row /\ Text(ask) # <<>>
    BY <1>2, TextIs
  <2> QED  BY <2>1 DEF SendRequest
<1>4. sock # "none" /\ job \in {"connect", "recv"} /\ (reply = Said("ok") \/ Handed)
  BY <1>1 DEF HttpInv, Jobs
<1>5. /\ served \in Seq(Row) /\ RequestAsAsked /\ IsPrefix(Told, App(got)) /\ asked = Told /\ heard = said
      /\ fresh => served = <<>> /\ heard = <<>>
  BY <1>1, <1>4 DEF HttpInv, Requests
<1> HIDE DEF d
<1>6. LineInv'
  BY <1>3, <1>4, LineSend
<1>7. Streams
  BY <1>3, <1>4, StreamSend
<1>8. /\ UNCHANGED <<conf, sock, got, said, bye, heard, blame>> /\ asked' = asked \o d /\ at' # "idle"
      /\ job' = "send" /\ reply' = Pending
  BY <1>3 DEF Send, Start
<1>9. Told' = Told /\ App(got') = App(got) /\ (RequestAsAsked' <=> RequestAsAsked)
  BY <1>1, <1>8 DEF Told, RequestAsAsked
<1>10. HttpTypes'
  BY <1>1, <1>2 DEF HttpTypes
<1>11. Jobs'
  BY <1>1, <1>8 DEF Jobs
<1>12. asked' = Told' \o Text(ask')
  BY <1>1, <1>5, <1>8, <1>9 DEF d
<1>13. Requests'
  BY <1>1, <1>5, <1>8, <1>9, <1>12 DEF Requests
<1>14. Reads'
  <2>1. Unfed' = <<>>
    BY <1>8 DEF Unfed
  <2>2. heard \in Row /\ <<>> \in Row
    BY InvParts, ComingParts, EmptyRow DEF LineInv
  <2>3. Parse(Fresh, <<>>) = Fresh /\ Live(Fresh)
    <3>1. Fresh.st = "status"
      BY DEF Fresh
    <3> QED  BY <2>2, <3>1, ParseIdle DEF Live
  <2>4. heard \o (<<>> \o <<>>) = heard
    BY <2>2, RowEmpty
  <2>5. asked' # Told'
    <3> DEFINE t == Told
    <3>1. t \in Row
      BY <1>5, ToldRow
    <3> HIDE DEF t
    <3>2. Len(t \o d) = Len(t) + Len(d) /\ Len(t) \in Nat /\ Len(d) \in Nat
      BY <1>3, <3>1, RowFacts
    <3>3. Len(d) # 0
      BY <1>3, EmptySeq DEF Row
    <3>4. t \o d # t
      BY <3>2, <3>3
    <3> QED  BY <1>5, <1>8, <1>9, <3>4 DEF t
  <2> DEFINE e == <<>>
  <2>6. /\ heard' = heard \o (e \o Unfed') /\ (fresh' => heard = <<>>) /\ (phase' = "sending" => e = <<>>)
        /\ resp' = Parse(Fresh, e) /\ Live(resp')
    BY <1>1, <1>5, <1>8, <2>1, <2>3, <2>4
  <2>7. ReadSo(heard, e)'
    <3>1. said' = heard' /\ e = <<>> /\ Unfed' = <<>>
      BY <1>5, <1>8, <2>1
    <3> HIDE DEF e
    <3>2. ASSUME NEW x, NEW y, x = heard, y = e PROVE ReadSo(x, y)'
      BY <1>5, <1>1, <2>5, <2>6, <3>1, <3>2 DEF ReadSo
    <3>3. heard' = heard
      BY <1>8
    <3> QED  BY <2>5, <2>6, <3>1, <3>3 DEF ReadSo
  <2> QED  BY <1>8, <2>1, <2>2, <2>7 DEF Reads
<1>15. Blames'
  <2>1. AnswerAsSent' /\ OnlyFaultsFail'
    BY <1>1, <1>2, OutcomesDiffer DEF AnswerAsSent, OnlyFaultsFail
  <2>2. reply' # Data(<<>>)
    BY <1>8, DataApart
  <2> QED  BY <1>1, <1>8, <2>1, <2>2 DEF HttpInv, Blames
<1> QED  BY <1>6, <1>7, <1>10, <1>11, <1>13, <1>14, <1>15 DEF HttpInv

\* A recv() that has returned a piece.
LEMMA RecvReply ==
    ASSUME LineInv, job = "recv", at = "idle", reply.rc = "ok"
    PROVE  reply.data \in Row /\ reply = Data(reply.data)
<1>1. reply # Said("ok")
  BY InvParts DEF LineInv, Shape, Results
<1>2. reply \in [rc : {"pending", "none", "ok", "error"}] \cup [rc : {"ok"}, data : Row]
  BY InvParts DEF LineInv, Shape, BufTypeOK
<1>3. CASE reply \in [rc : {"pending", "none", "ok", "error"}]
  <2>1. reply = [rc |-> reply.rc]
    BY <1>3
  <2> QED  BY <1>1, <2>1 DEF Said
<1>4. CASE reply \in [rc : {"ok"}, data : Row]
  BY <1>4 DEF Data
<1> QED  BY <1>2, <1>3, <1>4

\* What the parser makes of the piece is what it makes of all bytes at once.
LEMMA Fed ==
    ASSUME NEW y \in Row, NEW d \in Row, Live(Parse(Fresh, y))
    PROVE  Feed(Parse(Fresh, y), d) = Parse(Fresh, y \o d) /\ y \o d \in Row
<1>1. Parse(Fresh, y \o d) = Parse(Parse(Fresh, y), d)
  BY FreshGood, ParseConcat
<1>2. Parse(Fresh, y).st # "done"
  BY DEF Live
<1> QED  BY <1>1, <1>2, RowFacts DEF Feed

\* feeds the parser the piece it got and asks for the next;
LEMMA NextHttp ==
    ASSUME LineInv, HttpInv, NextPiece
    PROVE  LineInv' /\ HttpInv' /\ Streams
<1>1. /\ phase \in {"sending", "receiving"} /\ phase' = "receiving" /\ Recv /\ at = "idle"
      /\ UNCHANGED <<ask, fresh, attempt, made, outcome, served, answer>>
  BY DEF NextPiece, Recv, Start
<1>2. HttpTypes /\ ask \in Ask /\ outcome = Pending /\ Requests
  BY <1>1 DEF HttpInv, HttpTypes
<1>3. job \in {"send", "recv"} /\ (phase = "sending" => job = "send") /\ (phase = "receiving" => job = "recv")
  BY <1>1 DEF HttpInv, Jobs
<1>4. /\ reply = Said("ok") \/ Handed
      /\ phase = "receiving" => reply = Data(reply.data) /\ reply.data # <<>> /\ reply.data \in Row
                                /\ Live(Feed(resp, reply.data))
  <2>1. CASE phase = "sending"
    BY <2>1 DEF NextPiece
  <2>2. CASE phase = "receiving"
    <3>1. reply.rc = "ok" /\ reply.data # <<>> /\ Feed(resp, reply.data).st \notin {"done", "bad"}
      BY <2>2 DEF NextPiece
    <3>2. reply = Data(reply.data) /\ reply.data \in Row
      BY <1>1, <1>3, <2>2, <3>1, RecvReply
    <3> QED  BY <3>1, <3>2 DEF Handed, Live
  <2> QED  BY <1>1, <2>1, <2>2
<1>5. reply # Said("error")
  BY <1>4, SaidIs, DataApart DEF Handed
<1>6. LineInv' /\ Streams
  BY <1>1, <1>3, <1>4, <1>5, LineRecv, StreamRecv
<1>7. /\ UNCHANGED <<conf, sock, got, asked, said, bye, heard, blame>> /\ at' # "idle" /\ job' = "recv"
      /\ reply' = Pending
  BY <1>1 DEF Recv, Start, streamHist
<1>8. Told' = Told /\ App(got') = App(got) /\ (RequestAsAsked' <=> RequestAsAsked)
  BY <1>1, <1>7 DEF Told, RequestAsAsked
<1>9. sock # "none"
  BY <1>3, InvParts DEF LineInv, Shape, Results
<1>10. HttpTypes'
  BY <1>1, <1>2 DEF HttpTypes
<1>11. Jobs'
  BY <1>1, <1>7 DEF Jobs
<1>12. Requests'
  BY <1>1, <1>2, <1>7, <1>8 DEF Requests
<1>13. Blames'
  <2>1. AnswerAsSent' /\ OnlyFaultsFail'
    BY <1>1, <1>2, OutcomesDiffer DEF AnswerAsSent, OnlyFaultsFail
  <2>2. reply' # Data(<<>>)
    BY <1>7, DataApart
  <2> QED  BY <1>1, <1>7, <2>1, <2>2 DEF HttpInv, Blames
<1>14. Reads'
  <2>1. Unfed' = <<>>
    BY <1>7 DEF Unfed
  <2>2. PICK x \in Row, y \in Row : ReadSo(x, y)
    BY <1>1 DEF HttpInv, Reads
  <2>3. CASE phase = "sending"
    <3>1. resp' = resp
      BY <2>3 DEF NextPiece
    <3>2. Unfed = <<>>
      BY <2>3, UnfedNone
    <3>3. ReadSo(x, y)'
      BY <1>1, <1>7, <1>8, <2>1, <2>2, <3>1, <3>2 DEF ReadSo
    <3> QED  BY <2>1, <3>3, EmptyRow DEF Reads
  <2>4. CASE phase = "receiving"
    <3> DEFINE d == reply.data
    <3>1. Unfed = d /\ d \in Row /\ d # <<>> /\ Live(Feed(resp, d))
      BY <1>1, <1>4, <2>4, DataApart DEF Unfed
    <3>2. resp' = Feed(resp, d)
      BY <2>4 DEF NextPiece
    <3> HIDE DEF d
    <3>3. /\ heard = x \o (y \o d) /\ (fresh => x = <<>>) /\ resp = Parse(Fresh, y) /\ Live(resp)
          /\ asked = Told /\ said = x \o answer.bytes
      BY <2>2, <3>1 DEF ReadSo
    <3>9. PICK z \in Row : z = y \o d
      BY <3>1, RowFacts
    <3>4. resp' = Parse(Fresh, z) /\ z \in Row /\ Live(resp')
      BY <3>1, <3>2, <3>3, <3>9, Fed
    <3>5. heard' = x \o (z \o <<>>)
      BY <1>7, <3>3, <3>9, RowEmpty
    <3>6. ReadSo(x, z)'
      <4> DEFINE h == x \o (z \o <<>>)
                 s == x \o answer.bytes
                 p == Parse(Fresh, z)
      <4>1. h = x \o (z \o Unfed') /\ s = x \o answer'.bytes
        BY <1>1, <2>1
      <4>2. said' = s /\ asked' = Told' /\ phase' = "receiving" /\ heard' = h /\ (fresh' => x = <<>>)
            /\ resp' = p /\ Live(resp')
        BY <1>1, <1>7, <1>8, <3>3, <3>4, <3>5
      <4> HIDE DEF h, s, p
      <4>3. /\ heard' = x \o (z \o Unfed') /\ (fresh' => x = <<>>) /\ (phase' = "sending" => z = <<>>)
            /\ resp' = Parse(Fresh, z) /\ Live(resp')
            /\ IF asked' = Told' THEN said' = x \o answer'.bytes
               ELSE said' = heard' /\ z = <<>> /\ Unfed' = <<>>
        BY <4>1, <4>2 DEF p
      <4> QED  BY <4>3 DEF ReadSo
    <3>7. Unfed' \in Row
      BY <2>1, EmptyRow
    <3> QED  BY <3>4, <3>6, <3>7, Zenon DEF Reads
  <2> QED  BY <1>1, <2>3, <2>4
<1> QED  BY <1>6, <1>10, <1>11, <1>12, <1>13, <1>14 DEF HttpInv

-----------------------------------------------------------------------------
(* The piece at hand, and what it says of the answer.                      *)

\* The piece at hand continues what the parser was fed, within the answer.
LEMMA PieceAtHand ==
    ASSUME LineInv, HttpInv, phase = "receiving", at = "idle", reply.rc = "ok", reply.data # <<>>
    PROVE  \E z \in Row : /\ Feed(resp, reply.data) = Parse(Fresh, z) /\ z # <<>>
                          /\ IsPrefix(z, answer.bytes) /\ (z = answer.bytes => heard = said)
<1>1. job = "recv" /\ sock # "none"
  <2>1. job = "recv"
    BY DEF HttpInv, Jobs
  <2> QED  BY <2>1, InvParts DEF LineInv, Shape, Results
<1>2. PICK d \in Row : d = reply.data
  BY <1>1, RecvReply
<1>3. Unfed = d /\ d # <<>>
  BY <1>2 DEF Unfed
<1>4. PICK x \in Row, y \in Row : ReadSo(x, y)
  BY DEF HttpInv, Reads
<1>5. heard = x \o (y \o d) /\ resp = Parse(Fresh, y) /\ Live(resp) /\ said = x \o answer.bytes
  BY <1>3, <1>4 DEF ReadSo
<1>6. PICK z \in Row : z = y \o d
  BY RowFacts
<1>7. Feed(resp, reply.data) = Parse(Fresh, z)
  BY <1>2, <1>5, <1>6, Fed
<1>8. z # <<>>
  <2>1. Len(z) = Len(y) + Len(d) /\ Len(y) \in Nat /\ Len(d) \in Nat
    BY <1>6, RowFacts
  <2>2. Len(d) # 0
    BY <1>3, EmptySeq DEF Row
  <2>3. Len(z) # 0
    BY <2>1, <2>2
  <2> QED  BY <2>3, EmptyRow
<1>9. heard = x \o z
  BY <1>5, <1>6
<1>10. answer.bytes \in Row
  BY AnswerRow DEF HttpInv
<1>11. IsPrefix(z, answer.bytes)
  <2>1. Coming \in Row /\ heard \in Row /\ said \in Row /\ IsPrefix(heard \o Coming, said)
    BY <1>1, InvParts, ComingParts DEF LineInv, Received
  <2>2. IsPrefix(heard, said)
    BY <2>1, PrefixCut
  <2>3. PICK u \in Row : said = heard \o u
    BY <2>1, <2>2, PrefixOf
  <2>4. x \in Row /\ z \in Row /\ u \in Row
    OBVIOUS
  <2>5. (x \o z) \o u = x \o (z \o u) /\ z \o u \in Row
    <3>1. (x \o z) \o u = x \o (z \o u)
      <4>1. Joins(x, z, u)
        BY ONLY <2>4, RowJoined, Zenon
      <4> QED  BY ONLY <4>1 DEF Joins
    <3>2. z \o u \in Row
      BY ONLY <2>4, RowFacts
    <3> QED  BY ONLY <3>1, <3>2
  <2>6. PICK v \in Row : v = z \o u
    BY <2>5
  <2>7. PICK b \in Row : b = answer.bytes
    BY <1>10
  <2>8. x \o b = x \o v
    BY <1>5, <1>9, <2>3, <2>5, <2>6, <2>7
  <2>9. b = v
    BY <2>8, ConcatCancel DEF Row
  <2> QED  BY <2>6, <2>7, <2>9, PrefixOf
<1>12. z = answer.bytes => heard = said
  BY <1>5, <1>9
<1> QED  BY <1>7, <1>8, <1>11, <1>12

\* What bytes that begin an answer come to, that does it.
LEMMA AnswerDone ==
    ASSUME HttpTypes, NEW z \in Row, z # <<>>, IsPrefix(z, answer.bytes), Parse(Fresh, z).st = "done"
    PROVE  z = answer.bytes /\ answer.means = Means(Parse(Fresh, z))
<1>1. PICK b \in Row : b = answer.bytes
  BY AnswerRow
<1>2. PICK u \in Row : b = z \o u
  BY <1>1, PrefixOf
<1>3. Len(z) \in Nat /\ Len(u) \in Nat /\ Len(b) = Len(z) + Len(u) /\ \A i \in 1 .. Len(z) : b[i] = z[i]
  BY <1>2, RowFacts
<1>4. Len(z) # 0
  BY EmptySeq DEF Row
<1>5. answer \in Answers
  <2>1. CASE answer = [bytes |-> <<>>, means |-> Failed]
    <3>1. Len(b) = 0
      BY <1>1, <2>1
    <3> QED  BY <1>3, <1>4, <3>1
  <2> QED  BY <2>1 DEF HttpTypes
<1>6. /\ answer.means = Meaning(b)
      /\ \A n \in 1 .. Len(b) - 1 : Parse(Fresh, SubSeq(b, 1, n)).st # "done"
  BY <1>1, <1>5, AnswersAre
<1>7. SubSeq(b, 1, Len(z)) = z
  <2>1. Len(z) <= Len(b)
    BY <1>3
  <2> DEFINE s == SubSeq(b, 1, Len(z))
  <2>2. s \in Row /\ Len(s) = Len(z) /\ \A i \in 1 .. Len(z) : s[i] = b[i]
    <3>1. b \in Seq(Byte) /\ Len(b) \in Nat
      BY <1>1 DEF Row
    <3> QED  BY <1>3, <2>1, <3>1 DEF Row
  <2> HIDE DEF s
  <2>3. s = z
    BY <1>3, <2>2, RowSame
  <2> QED  BY <2>3 DEF s
<1>8. Len(u) = 0
  <2>1. SUFFICES ASSUME Len(u) # 0 PROVE FALSE
    OBVIOUS
  <2>2. Len(z) \in 1 .. Len(b) - 1
    BY <1>3, <1>4, <2>1
  <2> QED  BY <1>6, <1>7, <2>2
<1>9. z = b
  BY <1>2, <1>8, EmptySeq, RowEmpty DEF Row
<1> DEFINE r == Parse(Fresh, b)
<1>10. Meaning(b) = CASE r.st = "done" -> Means(r)
                      [] r.st = "bad" -> Unreadable
                      [] OTHER -> Failed
  BY DEF Meaning
<1>11. r = Parse(Fresh, z) /\ r.st = "done"
  BY <1>9
<1> HIDE DEF r
<1>12. Meaning(b) = Means(r)
  BY <1>10, <1>11
<1> QED  BY <1>1, <1>6, <1>9, <1>11, <1>12

\* What is refused was sent so.
LEMMA AnswerBad ==
    ASSUME HttpTypes, NEW z \in Row, z # <<>>, IsPrefix(z, answer.bytes), Parse(Fresh, z).st = "bad"
    PROVE  answer.means = Unreadable
<1>1. PICK b \in Row : b = answer.bytes
  BY AnswerRow
<1>2. PICK u \in Row : b = z \o u
  BY <1>1, PrefixOf
<1>3. answer \in Answers
  <2>1. CASE answer = [bytes |-> <<>>, means |-> Failed]
    <3>1. Len(z) \in Nat /\ Len(u) \in Nat /\ Len(b) = Len(z) + Len(u)
      BY <1>2, RowFacts
    <3>2. Len(b) = 0
      BY <1>1, <2>1
    <3>3. Len(z) # 0
      BY EmptySeq DEF Row
    <3> DEFINE k == Len(z)
               m == Len(u)
               n == Len(b)
    <3>4. k \in Nat /\ m \in Nat /\ n = k + m /\ n = 0 /\ k # 0
      BY <3>1, <3>2, <3>3
    <3> HIDE DEF k, m, n
    <3> QED  BY ONLY <3>4
  <2> QED  BY <2>1 DEF HttpTypes
<1>4. answer.means = Meaning(b)
  BY <1>1, <1>3, AnswersAre
<1> DEFINE r == Parse(Fresh, b)
           p == Parse(Fresh, z)
<1>5. r = Parse(p, u)
  BY <1>2, FreshGood, ParseConcat
<1>6. Parse(p, u) = p
  <2>1. ~Live(p)
    BY DEF Live
  <2> QED  BY <2>1, ParseIdle
<1>7. Meaning(b) = CASE r.st = "done" -> Means(r)
                     [] r.st = "bad" -> Unreadable
                     [] OTHER -> Failed
  BY DEF Meaning
<1>8. r.st = "bad"
  BY <1>5, <1>6
<1> HIDE DEF r
<1>9. Meaning(b) = Unreadable
  BY <1>7, <1>8
<1> QED  BY <1>4, <1>9

\* The answer is complete: it is the one sent, and all that was said has been heard.
LEMMA CompleteHttp ==
    ASSUME LineInv, HttpInv, Complete
    PROVE  LineInv' /\ HttpInv' /\ Streams
<1>1. /\ phase = "receiving" /\ at = "idle" /\ reply.rc = "ok" /\ reply.data # <<>>
      /\ UNCHANGED transportVars /\ UNCHANGED <<fresh, attempt, made, served, answer>>
      /\ phase' = "none" /\ outcome' = Means(resp') /\ ask' = NoAsk
      /\ resp' = Feed(resp, reply.data) /\ resp'.st = "done"
  BY DEF Complete, Over
<1>2. LineInv' /\ Streams
  BY <1>1, LineSame
<1>3. /\ UNCHANGED <<conf, sock, got, at, job, reply, asked, said, bye, heard, blame>>
      /\ App(got') = App(got) /\ (Handed' <=> Handed) /\ Told' = Told /\ (RequestAsAsked' <=> RequestAsAsked)
  BY <1>1, SameFacts DEF Told, RequestAsAsked
<1>4. HttpTypes /\ job = "recv"
  BY <1>1 DEF HttpInv, Jobs
<1>5. PICK z \in Row : /\ Feed(resp, reply.data) = Parse(Fresh, z) /\ z # <<>>
                       /\ IsPrefix(z, answer.bytes) /\ (z = answer.bytes => heard = said)
  BY <1>1, PieceAtHand
<1>6. resp' = Parse(Fresh, z) /\ Parse(Fresh, z).st = "done"
  BY <1>1, <1>5
<1>7. z = answer.bytes /\ answer.means = Means(Parse(Fresh, z)) /\ heard = said
  BY <1>4, <1>5, <1>6, AnswerDone
<1>8. asked = Told
  <2>1. PICK x \in Row, y \in Row : ReadSo(x, y)
    BY <1>1 DEF HttpInv, Reads
  <2>2. Unfed = reply.data
    BY <1>1 DEF Unfed
  <2> QED  BY <1>1, <2>1, <2>2 DEF ReadSo
<1>9. HttpTypes'
  BY <1>1, <1>3, <1>4, OutcomesDiffer DEF HttpTypes
<1>10. Jobs'
  <2>1. Handed
    BY <1>1, <1>4, RecvReply DEF Handed
  <2> QED  BY <1>1, <1>3, <1>4, <2>1 DEF Jobs
<1>11. Requests'
  BY <1>1, <1>3, <1>7, <1>8 DEF HttpInv, Requests
<1>12. Reads'
  BY <1>1 DEF Reads
<1>13. Blames'
  <2>1. AnswerAsSent'
    BY <1>1, <1>6, <1>7, OutcomesDiffer DEF AnswerAsSent
  <2>2. OnlyFaultsFail'
    BY <1>1, OutcomesDiffer DEF OnlyFaultsFail
  <2> QED  BY <1>1, <2>1, <2>2 DEF Blames
<1> QED  BY <1>2, <1>9, <1>10, <1>11, <1>12, <1>13 DEF HttpInv

-----------------------------------------------------------------------------
(* The end of an exchange that does not succeed.                           *)

\* An exchange breaks off and closes the connection,
LEMMA BrokenHttp ==
    ASSUME LineInv, HttpInv, Broken
    PROVE  LineInv' /\ HttpInv' /\ Streams
<1>1. /\ at = "idle" /\ phase \in {"sending", "receiving"} /\ Close /\ phase' = "closing"
      /\ UNCHANGED <<ask, fresh, attempt, made, outcome, served, answer>>
  BY DEF Broken
<1>2. HttpTypes /\ ask \in Ask /\ outcome = Pending /\ Requests
  BY <1>1 DEF HttpInv, HttpTypes
<1>3. job \in {"send", "recv"}
  BY <1>1 DEF HttpInv, Jobs
<1>4. LineInv' /\ Streams
  BY <1>1, <1>3, LineClose, StreamClose
<1>5. /\ UNCHANGED <<conf, sock, got, asked, said, bye, heard, blame>> /\ at' # "idle" /\ job' = "close"
      /\ reply' = Pending
  BY <1>1 DEF Close, Start, streamHist
<1>6. Told' = Told /\ App(got') = App(got) /\ (RequestAsAsked' <=> RequestAsAsked)
  BY <1>1, <1>5 DEF Told, RequestAsAsked
<1>7. sock # "none"
  BY <1>3, InvParts DEF LineInv, Shape, Results
<1>8. HttpTypes'
  BY <1>1, <1>2 DEF HttpTypes
<1>9. Jobs'
  BY <1>1, <1>5 DEF Jobs
<1>10. Requests'
  <2>1. asked = Told \/ asked = Told \o Text(ask)
    BY <1>1, <1>2, <1>7 DEF Requests
  <2>2. asked = Told \/ \E q \in Ask : asked = Told \o Text(q)
    BY <1>2, <2>1
  <2>3. IsPrefix(Told, App(got)) /\ served \in Seq(Row) /\ RequestAsAsked
    BY <1>2, <1>7 DEF Requests
  <2> QED  BY <1>1, <1>5, <1>6, <2>2, <2>3 DEF Requests
<1>11. Reads'
  BY <1>1 DEF Reads
<1>12. AnswerAsSent' /\ OnlyFaultsFail'
  BY <1>1, <1>2, OutcomesDiffer DEF AnswerAsSent, OnlyFaultsFail
<1>13. PICK x \in Row, y \in Row : ReadSo(x, y)
  BY <1>1 DEF HttpInv, Reads
<1>14. resp.st # "bad"
  BY <1>13 DEF ReadSo, Live
<1>15. Blames'
  <2>1. CASE reply.rc = "error" /\ UNCHANGED resp
    <3>1. fresh => blame
      BY <1>1, <2>1 DEF HttpInv, Blames
    <3> QED  BY <1>1, <1>5, <1>12, <1>14, <2>1, <3>1 DEF Blames
  <2>2. CASE phase = "receiving" /\ reply = Data(<<>>) /\ UNCHANGED resp
    <3>1. fresh => blame \/ (answer.means = Failed /\ sock # "up")
      BY <1>1, <2>2 DEF HttpInv, Blames
    <3> QED  BY <1>1, <1>5, <1>12, <1>14, <2>2, <3>1 DEF Blames
  <2>3. CASE /\ phase = "receiving" /\ reply.rc = "ok" /\ reply.data # <<>>
             /\ resp' = Feed(resp, reply.data) /\ resp'.st = "bad"
    <3>1. PICK z \in Row : /\ Feed(resp, reply.data) = Parse(Fresh, z) /\ z # <<>>
                           /\ IsPrefix(z, answer.bytes)
      BY <1>1, <2>3, PieceAtHand
    <3>2. answer.means = Unreadable
      BY <1>2, <2>3, <3>1, AnswerBad
    <3>3. asked = Told
      <4>1. Unfed = reply.data
        BY <1>1, <2>3 DEF Unfed
      <4> QED  BY <1>13, <2>3, <4>1 DEF ReadSo
    <3> QED  BY <1>1, <1>5, <1>6, <1>12, <2>3, <3>2, <3>3 DEF Blames
  <2> QED  BY <2>1, <2>2, <2>3 DEF Broken
<1> QED  BY <1>4, <1>8, <1>9, <1>10, <1>11, <1>15 DEF HttpInv

\* and is tried again or is over.
LEMMA ClosedHttp ==
    ASSUME LineInv, HttpInv, Closed
    PROVE  LineInv' /\ HttpInv' /\ Streams
<1>1. /\ phase = "closing" /\ at = "idle"
      /\ UNCHANGED transportVars /\ UNCHANGED <<resp, fresh, made, served, answer>>
  BY DEF Closed
<1>2. LineInv' /\ Streams
  BY <1>1, LineSame
<1>3. /\ UNCHANGED <<conf, sock, got, at, job, reply, asked, said, bye, heard, blame>>
      /\ Told' = Told /\ (RequestAsAsked' <=> RequestAsAsked)
  BY <1>1, SameFacts DEF Told, RequestAsAsked
<1>4. HttpTypes /\ job = "close" /\ outcome = Pending /\ ask \in Ask
  BY <1>1 DEF HttpInv, Jobs, HttpTypes
<1>5. sock = "none"
  BY <1>1, <1>4, InvParts DEF LineInv, Shape, Results
<1>6. Requests'
  BY <1>1, <1>3, <1>5 DEF HttpInv, Requests
<1>7. CASE Again
  <2>1. phase' = "top" /\ attempt' = 1 /\ UNCHANGED <<ask, outcome>>
    BY <1>7 DEF Closed
  <2>2. HttpTypes'
    BY <1>1, <1>3, <1>4, <1>5, <2>1 DEF HttpTypes
  <2>3. Jobs'
    BY <1>3, <1>5, <2>1 DEF Jobs
  <2>4. Reads'
    BY <2>1 DEF Reads
  <2>5. Blames'
    <3>1. AnswerAsSent' /\ OnlyFaultsFail'
      BY <1>1, <1>4, <2>1, OutcomesDiffer DEF AnswerAsSent, OnlyFaultsFail
    <3> QED  BY <2>1, <3>1 DEF Blames
  <2> QED  BY <1>2, <1>6, <2>2, <2>3, <2>4, <2>5 DEF HttpInv
<1>8. CASE ~Again
  <2>1. /\ phase' = "none" /\ ask' = NoAsk /\ attempt' = attempt
        /\ outcome' = IF resp.st = "bad" THEN Unreadable ELSE Failed
    BY <1>8 DEF Closed, Over
  <2>2. HttpTypes'
    BY <1>1, <1>3, <1>4, <2>1, OutcomesDiffer DEF HttpTypes
  <2>3. Jobs'
    BY <1>3, <1>5, <2>1 DEF Jobs
  <2>4. Reads'
    BY <2>1 DEF Reads
  <2>5. CASE resp.st = "bad"
    <3>1. answer.means = Unreadable /\ outcome' = Unreadable
      BY <1>1, <2>1, <2>5 DEF HttpInv, Blames
    <3>2. AnswerAsSent' /\ OnlyFaultsFail'
      BY <1>1, <3>1, OutcomesDiffer DEF AnswerAsSent, OnlyFaultsFail
    <3>3. Blames'
      BY <2>1, <3>2 DEF Blames
    <3> QED  BY <1>2, <1>6, <2>2, <2>3, <2>4, <3>3 DEF HttpInv
  <2>6. CASE resp.st # "bad"
    <3>1. fresh
      BY <1>1, <1>4, <1>8, <2>6 DEF Again, HttpTypes
    <3>2. (blame \/ answer.means = Failed) /\ outcome' = Failed
      BY <1>1, <2>1, <2>6, <3>1 DEF HttpInv, Blames
    <3>3. AnswerAsSent' /\ OnlyFaultsFail'
      BY <1>1, <1>3, <3>2, OutcomesDiffer DEF AnswerAsSent, OnlyFaultsFail
    <3>4. Blames'
      BY <2>1, <3>3 DEF Blames
    <3> QED  BY <1>2, <1>6, <2>2, <2>3, <2>4, <3>4 DEF HttpInv
  <2> QED  BY <2>5, <2>6
<1> QED  BY <1>7, <1>8

-----------------------------------------------------------------------------
(* The server answers, or leaves, and the network fails.                   *)

\* The server answers the request that has arrived.
LEMMA AnswersHttp ==
    ASSUME LineInv, HttpInv, ServerAnswers
    PROVE  LineInv' /\ HttpInv' /\ Streams
<1>1. LineInv' /\ sock = "up" /\ phase # "dialling"
  BY LineAnswers
<1>2. PICK a \in Answers : answer' = a /\ Speak(a.bytes)
  BY DEF ServerAnswers
<1>3. /\ Arrived /\ served' = Append(served, SubSeq(Unread, 1, Extent))
      /\ UNCHANGED <<ask, resp, phase, fresh, attempt, made, outcome>>
  BY DEF ServerAnswers
<1>4. /\ UNCHANGED <<conf, sock, got, at, job, reply, asked, bye, heard, blame>>
      /\ said' = said \o a.bytes
  BY <1>2 DEF Speak
<1>5. a.bytes \in Row
  BY AnswersAre
<1>6. Streams
  BY <1>2, <1>5, StreamWorld
<1>7. HttpTypes /\ Requests /\ served \in Seq(Row)
  BY DEF HttpInv, Requests
<1>8. asked # Told
  BY <1>1, <1>3, <1>7, NothingAsked
<1>9. phase \in {"sending", "receiving", "closing"}
  BY <1>1, <1>7, <1>8 DEF HttpTypes, Requests
<1>10. ask \in Ask /\ outcome = Pending
  BY <1>7, <1>9 DEF HttpTypes
<1>11. PICK q \in Ask : asked = Told \o Text(q)
  BY <1>1, <1>7, <1>8, <1>9, <1>10 DEF Requests
<1>12. SubSeq(Unread, 1, Extent) = Text(q) /\ App(got) = asked
  BY <1>1, <1>3, <1>7, <1>11, OneAsked
<1>13. Text(q) \in Row
  BY TextIs
<1>14. served' = Append(served, Text(q)) /\ served' \in Seq(Row)
  <2>1. served' = Append(served, Text(q))
    BY <1>3, <1>12
  <2> QED  BY <1>7, <1>13, <2>1, AppendProperties
<1>15. Told' = asked
  <2>1. FlattenSeq(Append(served, Text(q))) = FlattenSeq(served) \o Text(q)
    BY <1>7, <1>13, FlatAppend DEF Row
  <2> QED  BY <1>11, <1>14, <2>1 DEF Told
<1>16. RequestAsAsked'
  <2>1. \A n \in DOMAIN served : \E p \in Ask : served[n] = Text(p)
    BY <1>7 DEF Requests, RequestAsAsked
  <2>2. DOMAIN served' = 1 .. Len(served) + 1 /\ DOMAIN served = 1 .. Len(served) /\ Len(served) \in Nat
    BY <1>7, <1>13, <1>14
  <2>3. \A n \in 1 .. Len(served) : served'[n] = served[n]
    BY <1>7, <1>13, <1>14
  <2>4. served'[Len(served) + 1] = Text(q)
    BY <1>7, <1>13, <1>14
  <2>5. \A n \in DOMAIN served' : \E p \in Ask : served'[n] = Text(p)
    BY <2>1, <2>2, <2>3, <2>4
  <2> QED  BY <2>5 DEF RequestAsAsked
<1>17. HttpTypes'
  BY <1>2, <1>3, <1>4, <1>7 DEF HttpTypes
<1>18. Jobs'
  BY <1>3, <1>4, <1>9 DEF HttpInv, Jobs, Handed
<1>19. Requests'
  <2>1. App(got') = App(got) /\ asked' = asked /\ asked \in Row /\ sock' = "up"
    BY <1>1, <1>4, InvParts, SentParts DEF LineInv
  <2>2. IsPrefix(asked, asked)
    BY <2>1, PrefixRefl
  <2>3. IsPrefix(Told', App(got')) /\ asked' = Told'
    BY <1>12, <1>15, <2>1, <2>2
  <2> QED  BY <1>3, <1>9, <1>14, <1>16, <2>3 DEF Requests
<1>20. Reads'
  <2>1. Unfed' = Unfed
    BY <1>3, <1>4 DEF Unfed
  <2>2. SUFFICES ASSUME phase \in {"sending", "receiving"} PROVE Reads'
    BY <1>3 DEF Reads
  <2>3. PICK x \in Row, y \in Row : ReadSo(x, y)
    BY <2>2 DEF HttpInv, Reads
  <2>4. said = heard /\ y = <<>> /\ Unfed = <<>> /\ heard = x \o (y \o Unfed)
    BY <1>8, <2>3 DEF ReadSo
  <2>5. heard = x
    <3>1. heard = x \o (<<>> \o <<>>)
      BY <2>4
    <3> QED  BY <3>1, RowEmpty
  <2>6. said' = x \o answer'.bytes /\ asked' = Told'
    BY <1>2, <1>4, <1>15, <2>4, <2>5
  <2>7. heard' = x \o (y \o Unfed')
    BY <1>4, <2>1, <2>4
  <2>8. ReadSo(x, y)'
    BY <1>3, <2>3, <2>6, <2>7 DEF ReadSo
  <2>9. Unfed' \in Row
    BY <2>1, <2>4, EmptyRow
  <2> QED  BY <2>8, <2>9, Zenon DEF Reads
<1>21. Blames'
  <2>1. AnswerAsSent' /\ OnlyFaultsFail'
    BY <1>3, <1>10, OutcomesDiffer DEF AnswerAsSent, OnlyFaultsFail
  <2>2. ~(phase = "closing" /\ resp.st = "bad")
    BY <1>1, <1>8 DEF HttpInv, Blames
  <2> QED  BY <1>1, <1>3, <1>4, <2>1, <2>2 DEF HttpInv, Blames
<1> QED  BY <1>1, <1>6, <1>17, <1>18, <1>19, <1>20, <1>21 DEF HttpInv

\* What changes the wire, the socket or the blame, and nothing else.
LEMMA WorldHttp ==
    ASSUME HttpInv, UNCHANGED xVars, UNCHANGED <<conf, got, at, job, reply, asked, said, heard>>,
           \/ sock' = sock /\ bye' = bye /\ blame' = blame
           \/ sock = "up" /\ sock' \in {"cut", "fin"} /\ bye' = bye /\ blame'
           \/ /\ sock = "up" /\ sock' = "fin" /\ bye' /\ blame' = blame /\ phase # "dialling"
              /\ served # <<>>
    PROVE  HttpInv'
<1>1. UNCHANGED <<ask, resp, phase, fresh, attempt, made, outcome, served, answer>>
  BY DEF xVars
<1>2. Told' = Told /\ App(got') = App(got) /\ (RequestAsAsked' <=> RequestAsAsked) /\ (Handed' <=> Handed)
      /\ Unfed' = Unfed /\ (AnswerAsSent' <=> AnswerAsSent)
  BY <1>1 DEF Told, RequestAsAsked, Handed, Unfed, AnswerAsSent
<1>3. sock = "none" <=> sock' = "none"
  OBVIOUS
<1>4. blame => blame'
  OBVIOUS
<1>5. HttpTypes'
  BY <1>1, <1>3 DEF HttpInv, HttpTypes
<1>6. Jobs'
  BY <1>1, <1>2, <1>3, <1>4 DEF HttpInv, Jobs
<1>7. Requests'
  BY <1>1, <1>2, <1>3 DEF HttpInv, Requests
<1>8. Reads'
  <2>1. SUFFICES ASSUME phase \in {"sending", "receiving"} PROVE Reads'
    BY <1>1 DEF Reads
  <2>2. PICK x \in Row, y \in Row : ReadSo(x, y)
    BY <2>1 DEF HttpInv, Reads
  <2>3. ReadSo(x, y)'
    BY <1>1, <1>2, <2>2 DEF ReadSo
  <2>4. Unfed' \in Row
    BY <1>2, <2>1 DEF HttpInv, Reads
  <2> QED  BY <2>3, <2>4, Zenon DEF Reads
<1>9. OnlyFaultsFail'
  BY <1>1, <1>4 DEF HttpInv, Blames, OnlyFaultsFail
<1>10. Blames'
  <2>1. CASE sock' = sock /\ bye' = bye /\ blame' = blame
    BY <1>1, <1>2, <1>9, <2>1 DEF HttpInv, Blames
  <2>2. CASE sock = "up" /\ sock' \in {"cut", "fin"} /\ bye' = bye /\ blame'
    BY <1>1, <1>2, <1>3, <1>9, <2>2 DEF HttpInv, Blames
  <2>3. CASE /\ sock = "up" /\ sock' = "fin" /\ bye' /\ blame' = blame /\ phase # "dialling"
             /\ served # <<>>
    BY <1>1, <1>2, <1>3, <1>9, <2>3 DEF HttpInv, Blames
  <2> QED  BY <2>1, <2>2, <2>3
<1> QED  BY <1>5, <1>6, <1>7, <1>8, <1>10 DEF HttpInv

\* All that happens around the client keeps the invariant.
LEMMA AroundHttp ==
    ASSUME LineInv, HttpInv, Around
    PROVE  LineInv' /\ HttpInv' /\ Streams
<1>1. CASE ServerAnswers
  BY <1>1, AnswersHttp
<1>2. CASE ServerLeaves
  <2>1. LineInv' /\ sock = "up" /\ phase # "dialling"
    BY <1>2, LineLeaves
  <2>2. Leave /\ UNCHANGED xVars /\ served # <<>>
    BY <1>2 DEF ServerLeaves
  <2>3. Streams
    BY <2>2, StreamWorld
  <2>4. /\ UNCHANGED <<conf, got, at, job, reply, asked, said, heard>> /\ sock' = "fin" /\ bye'
        /\ blame' = blame
    BY <2>2 DEF Leave
  <2> QED  BY <2>1, <2>2, <2>3, <2>4, WorldHttp
<1>3. CASE Greet /\ UNCHANGED xVars
  <2>1. LineInv' /\ Streams
    BY <1>3, LineGreet, StreamWorld
  <2>2. UNCHANGED <<conf, sock, got, at, job, reply, asked, said, bye, heard, blame>>
    BY <1>3 DEF Greet, streamHist
  <2> QED  BY <1>3, <2>1, <2>2, WorldHttp
<1>4. CASE NetFails /\ UNCHANGED xVars
  <2>1. LineInv' /\ Streams
    BY <1>4, LineNet, StreamWorld
  <2>2. UNCHANGED <<conf, got, at, job, reply, asked, said, bye, heard>> /\ blame' = TRUE
        /\ sock = "up" /\ sock' \in {"cut", "fin"}
    BY <1>4 DEF NetFails, streamHist
  <2> QED  BY <1>4, <2>1, <2>2, WorldHttp
<1> QED  BY <1>1, <1>2, <1>3, <1>4 DEF Around

\* So every step keeps it, and is a step of ByteStream or a stutter.
LEMMA StepHttp ==
    ASSUME LineInv, HttpInv, [Next]_vars
    PROVE  LineInv' /\ HttpInv' /\ Streams
<1>1. CASE \E q \in Ask : Begin(q)
  BY <1>1, BeginHttp
<1>2. CASE Client
  <2>1. CASE Pump /\ UNCHANGED xVars
    BY <2>1, PumpHttp, StreamPump
  <2> QED  BY <1>2, <2>1, DialHttp, DialledHttp, SendHttp, NextHttp, CompleteHttp, BrokenHttp, ClosedHttp DEF Client
<1>3. CASE Around
  BY <1>3, AroundHttp
<1>4. CASE UNCHANGED vars
  <2>1. UNCHANGED transportVars /\ UNCHANGED xVars
    BY <1>4 DEF vars
  <2>2. LineInv' /\ Streams
    BY <2>1, LineSame
  <2>3. UNCHANGED <<conf, sock, got, at, job, reply, asked, said, bye, heard, blame>>
    BY <2>1, SameFacts
  <2> QED  BY <2>1, <2>2, <2>3, WorldHttp
<1> QED  BY <1>1, <1>2, <1>3, <1>4 DEF Next

-----------------------------------------------------------------------------
(* What the exchange and its connection promise.                           *)

\* It holds where everything begins.
LEMMA BeginsHttp == Init => LineInv /\ HttpInv /\ Contract!StreamInit
<1> SUFFICES ASSUME Init PROVE LineInv /\ HttpInv /\ Contract!StreamInit
  OBVIOUS
<1>1. /\ conf \in Settings /\ sock = "none" /\ at = "idle" /\ job = "none" /\ reply = Said("none")
      /\ asked = <<>> /\ said = <<>> /\ bye = FALSE /\ heard = <<>> /\ blame = FALSE
  BY DEF Init, TransportInit
<1>2. /\ ask = NoAsk /\ resp = Fresh /\ phase = "none" /\ fresh = FALSE /\ attempt = 0 /\ made = 0
      /\ outcome = Said("none") /\ served = <<>> /\ answer = [bytes |-> <<>>, means |-> Failed]
  BY DEF Init
<1>3. LineInv
  BY <1>1, TransportStarts DEF Init, LineInv, Alerted
<1>4. /\ Said("none") # Pending /\ Said("none") # Failed /\ Said("none") # Unreadable
      /\ "code" \notin DOMAIN Said("none")
  BY DEF Said, Pending, Failed, Unreadable
<1>5. HttpTypes
  <2>1. 0 \in 0 .. Exchanges
    BY BoundAssumption
  <2> QED  BY <1>1, <1>2, <1>4, <2>1 DEF HttpTypes
<1>6. Jobs
  BY <1>1, <1>2 DEF Jobs
<1>7. Requests
  BY <1>1, <1>2, EmptySeq DEF Requests, RequestAsAsked
<1>8. Reads /\ Blames
  BY <1>1, <1>2, <1>4 DEF Reads, Blames, AnswerAsSent, OnlyFaultsFail
<1>9. Contract!StreamInit
  <2>1. Link = "none"
    BY <1>1 DEF Link
  <2>2. conf.tls \in BOOLEAN
    BY <1>1, SettingsAssumption
  <2> QED  BY <2>1, <2>2 DEF Contract!StreamInit
<1> QED  BY <1>3, <1>5, <1>6, <1>7, <1>8, <1>9 DEF HttpInv

\* A request is sent only when the handshake is over, with a server that passed it.
LEMMA ToldToOne == LineInv => NothingToldToAStranger
<1> SUFFICES ASSUME LineInv, conf.tls, asked # <<>>
             PROVE  /\ conf.insecure \/ (conf.trusted /\ conf.named)
                    /\ \E v \in conf.speaks : v >= 12 /\ (v = 13 => conf.allow13)
  BY DEF NothingToldToAStranger
<1>1. sock # "none" /\ tls.step = 6
  BY InvParts DEF LineInv, Asks
<1>2. Agrees(conf) /\ Accepts(conf)
  BY <1>1, InvParts DEF LineInv, Shaking
<1>3. PICK v \in conf.speaks : v \in Versions(conf)
  BY <1>2 DEF Agrees
<1>4. v \in {12, 13} /\ (v = 13 => conf.allow13)
  BY <1>3 DEF Versions
<1>5. v >= 12
  BY <1>4
<1> QED  BY <1>2, <1>3, <1>4, <1>5 DEF Accepts

\* What the parser has read is what it reads of the same bytes in one piece.
LEMMA PiecesAlike == HttpInv => CutsDontMatter
<1> SUFFICES ASSUME HttpInv, fresh, phase = "receiving", at # "idle" PROVE resp = Feed(Fresh, heard)
  BY DEF CutsDontMatter
<1>1. PICK x \in Row, y \in Row : ReadSo(x, y)
  BY DEF HttpInv, Reads
<1>2. x = <<>> /\ Unfed = <<>> /\ resp = Parse(Fresh, y)
  BY <1>1, UnfedNone DEF ReadSo
<1>3. heard = y
  <2>1. heard = <<>> \o (y \o <<>>)
    BY <1>1, <1>2 DEF ReadSo
  <2> QED  BY <2>1, RowEmpty
<1>4. Fresh.st # "done"
  BY DEF Fresh
<1> QED  BY <1>2, <1>3, <1>4 DEF Feed

\* The invariant says all that is promised of an exchange.
LEMMA FaithfulHttp == LineInv /\ HttpInv => ExchangesFaithfully
<1> SUFFICES ASSUME LineInv, HttpInv PROVE ExchangesFaithfully
  OBVIOUS
<1>1. TransportTypeOK /\ Places
  BY InvParts DEF LineInv, Shape
<1>2. TypeOK
  <2>1. HttpTypes
    BY DEF HttpInv
  <2> QED  BY <1>1, <2>1 DEF HttpTypes, TypeOK
<1>3. NeverWaitsHoldingOutput
  BY <1>1 DEF Places, NeverWaitsHoldingOutput
<1>4. RequestAsAsked /\ AnswerAsSent /\ OnlyFaultsFail
  BY DEF HttpInv, Requests, Blames
<1> QED  BY <1>2, <1>3, <1>4, ToldToOne, PiecesAlike DEF ExchangesFaithfully

\* http.h, webdav_exchange(), s3_exchange_ex(): however the bytes are cut and the
\* network behaves, the answer an exchange returns is the one the server sent to
\* its request, the server is sent requests as asked and only when it is the one
\* that was meant, an answer is refused only if it makes no sense, and an exchange
\* fails only for a cause.
THEOREM HttpFaithful == Spec => []ExchangesFaithfully
<1>1. Init => LineInv /\ HttpInv
  BY BeginsHttp
<1>2. LineInv /\ HttpInv /\ [Next]_vars => LineInv' /\ HttpInv'
  BY StepHttp
<1>3. LineInv /\ HttpInv => ExchangesFaithfully
  BY FaithfulHttp
<1> QED  BY <1>1, <1>2, <1>3, PTL DEF Spec

\* transport.h: the plain socket and the TLS connection are streams of bytes, in
\* order, each byte once, and under TLS a connection that is cut is never taken
\* for one that the server has ended.
THEOREM StreamPromised == Spec => ImplementsByteStream
<1>1. Init => LineInv /\ HttpInv /\ Contract!StreamInit
  BY BeginsHttp
<1>2. LineInv /\ HttpInv /\ [Next]_vars =>
          LineInv' /\ HttpInv' /\ [Contract!StreamNext]_(Contract!streamVars)
  BY StepHttp DEF Streams
<1> QED  BY <1>1, <1>2, PTL DEF Spec, ImplementsByteStream, Contract!StreamSpec
=============================================================================
