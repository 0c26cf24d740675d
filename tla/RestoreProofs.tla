--------------------------- MODULE RestoreProofs ---------------------------
(***************************************************************************)
(* RESTORE for every tree, every set of snapshots, every destination and   *)
(* any decay of the repository: no torn file, no write before the whole    *)
(* snapshot has been verified, nothing touched beside the subtree, and for *)
(* manifests in the scanner's order a success that restored everything.    *)
(***************************************************************************)
EXTENDS Restore, SequenceTheorems, TLAPS

-----------------------------------------------------------------------------
(* Paths.                                                                  *)

\* A prefix agrees with the path it is a prefix of at every position.
LEMMA PrefixPointwise ==
    ASSUME NEW S, NEW s \in Seq(S), NEW t \in Seq(S)
    PROVE  IsPrefix(s, t) <=> Len(s) <= Len(t) /\ \A n \in 1 .. Len(s) : s[n] = t[n]
<1>1. Len(s) \in Nat /\ Len(t) \in Nat
  BY LenProperties
<1>2. SubSeq(s, 1, Len(s)) = s
  BY SubSeqFull
<1>3. ASSUME Len(s) <= Len(t)
      PROVE  /\ SubSeq(t, 1, Len(s)) \in Seq(S)
             /\ Len(SubSeq(t, 1, Len(s))) = Len(s)
             /\ \A n \in 1 .. Len(s) : SubSeq(t, 1, Len(s))[n] = t[n]
  <2>1. \A n \in 1 .. Len(s) : t[n] \in S
    BY <1>1, <1>3, ElementOfSeq
  <2> QED  BY <1>1, <2>1, SubSeqProperties
<1>4. ASSUME Len(s) <= Len(t), \A n \in 1 .. Len(s) : s[n] = t[n]
      PROVE  s = SubSeq(t, 1, Len(s))
  BY <1>1, <1>3, <1>4, SeqEqual
<1> QED  BY <1>2, <1>3, <1>4 DEF IsPrefix

\* Two prefixes of one path: one is a prefix of the other.
LEMMA PrefixesComparable ==
    ASSUME NEW S, NEW r \in Seq(S), NEW s \in Seq(S), NEW t \in Seq(S),
           IsPrefix(r, t), IsPrefix(s, t)
    PROVE  IsPrefix(r, s) \/ IsPrefix(s, r)
BY PrefixPointwise, LenProperties

\* A prefix of a prefix is a prefix.
LEMMA PrefixTransitive ==
    ASSUME NEW S, NEW r \in Seq(S), NEW s \in Seq(S), NEW t \in Seq(S),
           IsPrefix(r, s), IsPrefix(s, t)
    PROVE  IsPrefix(r, t)
BY PrefixPointwise, LenProperties

\* Of two paths that are prefixes of each other there is only one.
LEMMA PrefixAntisymmetric ==
    ASSUME NEW S, NEW s \in Seq(S), NEW t \in Seq(S), IsPrefix(s, t), IsPrefix(t, s)
    PROVE  s = t
<1>1. Len(s) = Len(t) /\ \A n \in 1 .. Len(s) : s[n] = t[n]
  BY PrefixPointwise, LenProperties
<1> QED  BY <1>1, SeqEqual

\* The empty path is a prefix of every path.
LEMMA RootIsPrefix ==
    ASSUME NEW S, NEW s \in Seq(S), NEW r \in Seq(S), Len(r) = 0
    PROVE  IsPrefix(r, s)
<1>1. 0 \in Int /\ 1 \in Int /\ 0 < 1 /\ 0 <= Len(s)
  BY LenProperties
<1>2. SubSeq(r, 1, 0) = <<>> /\ SubSeq(s, 1, 0) = <<>>
  BY <1>1, SubSeqEmpty
<1> QED  BY <1>1, <1>2 DEF IsPrefix

\* Only the empty path is a strict prefix of a path of one name.
LEMMA ShortIsEmpty ==
    ASSUME NEW S, NEW q \in Seq(S), NEW t \in Seq(S), Len(t) = 1, IsPrefix(q, t), q # t
    PROVE  Len(q) = 0
<1>1. Len(q) \in Nat /\ Len(q) <= 1 /\ \A n \in 1 .. Len(q) : q[n] = t[n]
  BY PrefixPointwise, LenProperties
<1>2. Len(q) # 1
  BY <1>1, SeqEqual
<1> QED  BY <1>1, <1>2

\* The drawer a path is in is a path of the tree, and a strict prefix.
LEMMA ParentIsAncestor ==
    ASSUME NEW p \in Tree, NEW q \in Parent(p)
    PROVE  q \in Ancestors(p)
<1>1. p \in Seq(STRING) /\ p # <<>>
  BY TreeAssumption DEF Parent, Root
<1>2. PICK n \in Nat : Len(p) = n + 1
  <2>1. Len(p) \in Nat \ {0}
    BY <1>1, EmptySeq
  <2>2. Len(p) - 1 \in Nat /\ Len(p) = (Len(p) - 1) + 1
    BY <2>1
  <2> QED  BY <2>2
<1>3. q = SubSeq(p, 1, n)
  BY <1>2 DEF Parent, Front
<1>4. \A m \in 1 .. Len(p) : p[m] \in STRING
  BY <1>1, <1>2, ElementOfSeq
<1>5. q \in Seq(STRING) /\ Len(q) = n /\ \A m \in 1 .. n : q[m] = p[m]
  <2>1. n \in Int /\ 1 \in Int /\ \A m \in 1 .. n : p[m] \in STRING
    BY <1>2, <1>4
  <2>2. /\ q \in Seq(STRING)
        /\ Len(q) = IF 1 <= n THEN n - 1 + 1 ELSE 0
        /\ \A m \in 1 .. n - 1 + 1 : q[m] = p[1 + m - 1]
    BY <1>3, <2>1, SubSeqProperties
  <2>3. ASSUME NEW m \in 1 .. n  PROVE q[m] = p[m]
    <3>1. m \in 1 .. n - 1 + 1 /\ 1 + m - 1 = m
      BY <2>1
    <3> QED  BY <2>2, <3>1
  <2>4. Len(q) = n
    BY <2>2
  <2> QED  BY <2>2, <2>3, <2>4
<1>6. q \in Tree
  BY <1>2, <1>3, TreeAssumption
<1>7. IsPrefix(q, p) /\ q # p
  BY <1>1, <1>2, <1>5, PrefixPointwise
<1> QED  BY <1>6, <1>7 DEF Ancestors, IsStrictPrefix

-----------------------------------------------------------------------------
(* What a call may do to the destination.                                  *)

\* Kind and content of a path are what they were.
Same(d, e, q) == e[q].kind = d[q].kind /\ e[q].data = d[q].data

\* Directories were made where nothing was, on the way to p, and nothing but
\* datestamps changed otherwise, on that way or of the staging directory.
Grown(d, e, p) ==
    /\ e \in [Tree -> NodeType]
    /\ \A q \in Tree :
         \/ Same(d, e, q)
         \/ /\ q \in Ancestors(p) \cup {p} /\ d[q].kind = "none"
            /\ e[q].kind = "dir" /\ e[q].data = <<>>
    /\ \A q \in Tree \ (Ancestors(p) \cup {p, TmpDir}) : e[q] = d[q]

\* A changed datestamp changes neither kind nor content.
LEMMA DisturbFacts ==
    ASSUME NEW d \in [Tree -> NodeType], NEW ps
    PROVE  /\ Disturb(d, ps) \in [Tree -> NodeType]
           /\ \A q \in Tree : Same(d, Disturb(d, ps), q)
           /\ \A q \in Tree \ ps : Disturb(d, ps)[q] = d[q]
<1>1. ASSUME NEW q \in Tree
      PROVE  /\ [d[q] EXCEPT !.saved = FALSE] \in NodeType
             /\ [d[q] EXCEPT !.saved = FALSE].kind = d[q].kind
             /\ [d[q] EXCEPT !.saved = FALSE].data = d[q].data
  BY DEF NodeType
<1> QED  BY <1>1 DEF Disturb, Same

\* mkdir_p() makes what is not there on the way to p.
LEMMA MkdirFacts ==
    ASSUME NEW d \in [Tree -> NodeType], NEW p \in Tree
    PROVE  /\ Grown(d, MkdirAll(d, p), p)
           /\ MkdirAll(d, p)[p].kind # "none"
           /\ \A q \in Ancestors(p) : MkdirAll(d, p)[q].kind # "none"
<1> DEFINE new == {q \in Ancestors(p) \cup {p} : d[q].kind = "none"}
           made == [q \in Tree |-> IF q \in new THEN Dir ELSE d[q]]
           ps == UNION {Parent(q) : q \in new}
<1>1. Ancestors(p) \subseteq Tree
  BY DEF Ancestors
<1>2. made \in [Tree -> NodeType]
  <2>1. Dir \in NodeType
    BY EmptySeq DEF Dir, NodeType
  <2> QED  BY <2>1
<1>3. MkdirAll(d, p) = Disturb(made, ps)
  BY DEF MkdirAll
<1>4. ps \subseteq Ancestors(p)
  <2> SUFFICES ASSUME NEW q \in new, NEW r \in Parent(q)  PROVE r \in Ancestors(p)
    OBVIOUS
  <2>1. q \in Tree /\ r \in Ancestors(q)
    BY <1>1, ParentIsAncestor
  <2>2. CASE q = p
    BY <2>1, <2>2
  <2>3. CASE q \in Ancestors(p)
    <3>1. /\ r \in Seq(STRING) /\ q \in Seq(STRING) /\ p \in Seq(STRING)
          /\ IsPrefix(r, q) /\ r # q /\ IsPrefix(q, p)
      BY <2>1, <2>3, TreeAssumption DEF Ancestors, IsStrictPrefix
    <3>2. IsPrefix(r, p)
      BY <3>1, PrefixTransitive
    <3>3. r # p
      BY <3>1, PrefixAntisymmetric
    <3> QED  BY <2>1, <3>2, <3>3 DEF Ancestors, IsStrictPrefix
  <2> QED  BY <2>2, <2>3
<1> HIDE DEF ps
<1>5. /\ Disturb(made, ps) \in [Tree -> NodeType]
      /\ \A q \in Tree : Same(made, Disturb(made, ps), q)
      /\ \A q \in Tree \ ps : Disturb(made, ps)[q] = made[q]
  BY <1>2, DisturbFacts
<1>6. ASSUME NEW q \in Tree
      PROVE  \/ Same(d, made, q)
             \/ /\ q \in Ancestors(p) \cup {p} /\ d[q].kind = "none"
                /\ made[q].kind = "dir" /\ made[q].data = <<>>
  BY DEF Same, Dir
<1>7. \A q \in Tree \ (Ancestors(p) \cup {p}) : made[q] = d[q]
  OBVIOUS
<1>8. \A q \in Ancestors(p) \cup {p} : made[q].kind # "none"
  BY <1>1 DEF Dir
<1> HIDE DEF made
<1>9. \A q \in Tree \ (Ancestors(p) \cup {p}) : MkdirAll(d, p)[q] = d[q]
  BY <1>3, <1>4, <1>5, <1>7
<1>10. \A q \in Ancestors(p) \cup {p} : MkdirAll(d, p)[q].kind # "none"
  BY <1>1, <1>3, <1>5, <1>8 DEF Same
<1>11. ASSUME NEW q \in Tree
       PROVE  \/ Same(d, MkdirAll(d, p), q)
              \/ /\ q \in Ancestors(p) \cup {p} /\ d[q].kind = "none"
                 /\ MkdirAll(d, p)[q].kind = "dir" /\ MkdirAll(d, p)[q].data = <<>>
  BY <1>3, <1>5, <1>6 DEF Same
<1> QED  BY <1>3, <1>5, <1>9, <1>10, <1>11 DEF Grown

\* Disturbing the staging directory as well is still growth.
LEMMA GrownDisturbed ==
    ASSUME NEW d \in [Tree -> NodeType], NEW p \in Tree, NEW e, Grown(d, e, p)
    PROVE  Grown(d, Disturb(e, {TmpDir}), p)
<1>1. e \in [Tree -> NodeType]
  BY DEF Grown
<1>2. /\ Disturb(e, {TmpDir}) \in [Tree -> NodeType]
      /\ \A q \in Tree : Same(e, Disturb(e, {TmpDir}), q)
      /\ \A q \in Tree \ {TmpDir} : Disturb(e, {TmpDir})[q] = e[q]
  BY <1>1, DisturbFacts
<1> QED  BY <1>2 DEF Grown, Same

\* Nothing done, and a datestamp changed, are growth.
LEMMA GrownLeast ==
    ASSUME NEW d \in [Tree -> NodeType], NEW p \in Tree
    PROVE  Grown(d, d, p) /\ Grown(d, Disturb(d, {TmpDir}), p)
<1>1. Grown(d, d, p)
  BY DEF Grown, Same
<1> QED  BY <1>1, GrownDisturbed

-----------------------------------------------------------------------------
(* The invariant, but for what depends on the order of entries.            *)

\* Every variable keeps its type, history included.
Types ==
    /\ TypeOK
    /\ mf \in Manifests /\ sub \in Subtrees
    /\ prior \in [Tree -> NodeType] /\ before \in [Tree -> NodeType]
    /\ damaged \subseteq Object

\* The position is one of the phase; the staging file holds the chunks of the
\* file at hand up to the one at hand.
Position ==
    /\ phase \in {"verify", "write"} => i >= 1
    /\ phase = "verify" => k >= 1
    /\ phase = "append" =>
         /\ i \in DOMAIN mf /\ Relevant(Entry) /\ Entry.safe /\ Entry.kind = "file"
         /\ k \in 1 .. Len(Entry.chunks) + 1
         /\ staged = SubSeq(Entry.chunks, 1, k - 1)
    /\ phase = "meta" => i <= Len(mf)

\* Entry n refers, before its chunk m, to an object that was damaged.
DamagedBefore(n, m) == \E c \in 1 .. m - 1 : c \in DOMAIN mf[n].chunks /\ mf[n].chunks[c] \in damaged
Undamaged == \A n \in DOMAIN mf : \A c \in DOMAIN mf[n].chunks : mf[n].chunks[c] \notin damaged

\* What was damaged when the run began is still damaged; verification counts
\* it as soon as it has passed it; nothing is written before.
Damage ==
    /\ \A o \in damaged : object[o] # "good"
    /\ phase \in {"idle", "verify"} => dest = before
    /\ phase = "verify" =>
         /\ \A n \in DOMAIN mf :
              n < i /\ (\E c \in DOMAIN mf[n].chunks : mf[n].chunks[c] \in damaged) => faults # {}
         /\ i \in DOMAIN mf /\ DamagedBefore(i, k) => faults # {}
    /\ phase \in {"write", "append", "meta", "done"} => Undamaged
    /\ phase = "failed" => dest = before \/ Undamaged

IInv == Types /\ Position /\ NoTornFile /\ Damage /\ OutsideUntouched

\* The entry at hand is one of the manifest, with a path of the tree.
LEMMA EntryFacts ==
    ASSUME Types, i \in DOMAIN mf
    PROVE  /\ Entry \in EntryType /\ Entry \in Entries
           /\ Entry.path \in Tree /\ Entry.chunks \in Seq(Object)
           /\ Len(Entry.chunks) \in Nat
<1>1. mf \in Seq(EntryType) /\ i \in 1 .. Len(mf)
  BY LenProperties DEF Types, TypeOK
<1>2. Entry \in EntryType /\ Entry \in Entries
  BY <1>1, ElementOfSeq DEF Entry, Entries
<1> HIDE DEF Entry
<1>3. Entry.path \in Tree /\ Entry.chunks \in Seq(Object)
  BY <1>2 DEF EntryType
<1> QED  BY <1>2, <1>3, LenProperties

\* Growth keeps every file as it is.
LEMMA GrownKeepsFiles ==
    ASSUME NoTornFile, NEW p \in Tree, Grown(dest, dest', p), UNCHANGED <<mf, prior>>
    PROVE  NoTornFile'
BY DEF NoTornFile, Grown, Same, Files, Entries

\* Growth towards a path of the subtree leaves alone what is outside it.
LEMMA GrownStaysInside ==
    ASSUME Types, OutsideUntouched, NEW p \in Tree, IsPrefix(sub, p) \/ IsPrefix(p, sub),
           Grown(dest, dest', p), UNCHANGED <<sub, prior>>
    PROVE  OutsideUntouched'
<1> SUFFICES ASSUME NEW q \in Tree, q # TmpDir, ~IsPrefix(sub, q), ~IsPrefix(q, sub)
             PROVE  dest'[q] = dest[q]
  BY DEF OutsideUntouched
<1>1. sub \in Seq(STRING) /\ p \in Seq(STRING) /\ q \in Seq(STRING)
  BY TreeAssumption, InputAssumption DEF Types
<1>2. q # p
  OBVIOUS
<1>3. ASSUME q \in Ancestors(p)  PROVE FALSE
  <2>1. IsPrefix(q, p)
    BY <1>3 DEF Ancestors, IsStrictPrefix
  <2>2. CASE IsPrefix(sub, p)
    BY <1>1, <2>1, <2>2, PrefixesComparable
  <2>3. CASE IsPrefix(p, sub)
    BY <1>1, <2>1, <2>3, PrefixTransitive
  <2> QED  BY <2>2, <2>3
<1> QED  BY <1>2, <1>3 DEF Grown

-----------------------------------------------------------------------------
(* What each action does to the destination.                               *)

\* The two paths on which every entry of the subtree lies, or on the way to it.
LEMMA OnTheWay ==
    ASSUME Types, NEW p \in Tree, IsPrefix(sub, p), NEW q \in Ancestors(p) \cup {Root, TmpDir}
    PROVE  /\ q \in Tree
           /\ q # TmpDir => IsPrefix(sub, q) \/ IsPrefix(q, sub)
<1>1. sub \in Seq(STRING) /\ p \in Seq(STRING) /\ Root \in Tree
  <2>1. SubSeq(TmpDir, 1, 0) \in Tree
    BY TreeAssumption DEF TmpDir
  <2>2. 0 \in Int /\ 1 \in Int /\ 0 < 1
    OBVIOUS
  <2>3. SubSeq(TmpDir, 1, 0) = Root
    BY <2>2, SubSeqEmpty DEF Root
  <2>4. Root \in Tree
    BY <2>1, <2>3
  <2> QED  BY <2>4, TreeAssumption, InputAssumption DEF Types
<1>2. q \in Tree
  BY <1>1, TreeAssumption DEF Ancestors
<1>3. IsPrefix(Root, sub)
  <2>1. Root \in Seq(STRING) /\ Len(Root) = 0
    BY EmptySeq DEF Root
  <2> QED  BY <1>1, <2>1, RootIsPrefix
<1>4. ASSUME q \in Ancestors(p)  PROVE IsPrefix(sub, q) \/ IsPrefix(q, sub)
  BY <1>1, <1>2, <1>4, TreeAssumption, PrefixesComparable DEF Ancestors, IsStrictPrefix
<1> QED  BY <1>2, <1>3, <1>4

\* Growth towards the staging directory touches nothing but it and the root.
LEMMA TmpStaysInside ==
    ASSUME Types, OutsideUntouched, Grown(dest, dest', TmpDir), UNCHANGED <<sub, prior>>
    PROVE  OutsideUntouched'
<1> SUFFICES ASSUME NEW q \in Tree, q # TmpDir, ~IsPrefix(sub, q), ~IsPrefix(q, sub)
             PROVE  dest'[q] = dest[q]
  BY DEF OutsideUntouched
<1>1. sub \in Seq(STRING) /\ q \in Seq(STRING)
  BY TreeAssumption, InputAssumption DEF Types
<1>2. ASSUME q \in Ancestors(TmpDir)  PROVE FALSE
  <2>1. IsPrefix(q, TmpDir) /\ q # TmpDir
    BY <1>2 DEF Ancestors, IsStrictPrefix
  <2>2. Len(q) = 0
    <3>1. TmpDir \in Seq(STRING)
      BY TreeAssumption
    <3>2. Len(TmpDir) = 1
      BY DEF TmpDir
    <3> QED  BY <1>1, <2>1, <3>1, <3>2, ShortIsEmpty
  <2>3. IsPrefix(q, sub)
    BY <1>1, <2>2, RootIsPrefix
  <2> QED  BY <2>3
<1> QED  BY <1>2 DEF Grown

\* A growing step keeps files whole and stays inside the subtree.
LEMMA GrowthKeeps ==
    ASSUME Types, NoTornFile, OutsideUntouched, UNCHANGED <<mf, sub, prior>>,
           NEW p \in Tree, Grown(dest, dest', p),
           p = TmpDir \/ IsPrefix(sub, p) \/ IsPrefix(p, sub)
    PROVE  NoTornFile' /\ OutsideUntouched'
BY GrownKeepsFiles, GrownStaysInside, TmpStaysInside

\* What RenameStaged leaves behind: the staged file at the path of the entry,
\* directories on the way, and datestamps.
LEMMA RenameFacts ==
    ASSUME Types, i \in DOMAIN mf, staged \in Seq(Object), RenameStaged
    PROVE  /\ dest' \in [Tree -> NodeType]
           /\ dest'[Entry.path].kind = "file" /\ dest'[Entry.path].data = staged
           /\ \A q \in Tree \ {Entry.path} :
                \/ Same(dest, dest', q)
                \/ /\ q \in Ancestors(Entry.path) /\ dest[q].kind = "none"
                   /\ dest'[q].kind = "dir" /\ dest'[q].data = <<>>
           /\ \A q \in Tree \ (Ancestors(Entry.path) \cup {Entry.path, TmpDir}) : dest'[q] = dest[q]
<1> DEFINE p == Entry.path
           m == MkdirAll(dest, p)
           r == [m EXCEPT ![p] = FileOf(staged)]
           ps == {TmpDir} \cup Parent(p)
<1>1. p \in Tree /\ dest \in [Tree -> NodeType]
  BY EntryFacts DEF Types, TypeOK
<1>2. Grown(dest, m, p)
  BY <1>1, MkdirFacts
<1>3. ps \subseteq Ancestors(p) \cup {TmpDir}
  BY <1>1, ParentIsAncestor
<1>4. FileOf(staged) \in NodeType
  BY DEF FileOf, NodeType
<1>5. dest' = Disturb(r, ps)
  BY DEF RenameStaged
<1> HIDE DEF p, m, ps
<1>6. /\ r \in [Tree -> NodeType]
      /\ r[p].kind = "file" /\ r[p].data = staged
      /\ \A q \in Tree \ {p} : r[q] = m[q]
  BY <1>1, <1>2, <1>4 DEF Grown, FileOf
<1> HIDE DEF r
<1>7. /\ Disturb(r, ps) \in [Tree -> NodeType]
      /\ \A q \in Tree : Same(r, Disturb(r, ps), q)
      /\ \A q \in Tree \ ps : Disturb(r, ps)[q] = r[q]
  BY <1>6, DisturbFacts
<1>8. dest'[p].kind = "file" /\ dest'[p].data = staged
  BY <1>1, <1>5, <1>6, <1>7 DEF Same
<1>9. ASSUME NEW q \in Tree \ {p}
      PROVE  \/ Same(dest, dest', q)
             \/ /\ q \in Ancestors(p) /\ dest[q].kind = "none"
                /\ dest'[q].kind = "dir" /\ dest'[q].data = <<>>
  BY <1>2, <1>5, <1>6, <1>7 DEF Grown, Same
<1>10. \A q \in Tree \ (Ancestors(p) \cup {p, TmpDir}) : dest'[q] = dest[q]
  BY <1>2, <1>3, <1>5, <1>6, <1>7 DEF Grown
<1> QED  BY <1>5, <1>7, <1>8, <1>9, <1>10 DEF p

\* Applying metadata changes no kind and no content.
LEMMA MetaFacts ==
    ASSUME Types, i \in DOMAIN mf,
           dest' = Disturb([dest EXCEPT ![Entry.path].saved = TRUE], Parent(Entry.path))
    PROVE  /\ Grown(dest, dest', Entry.path)
           /\ \A q \in Tree : Same(dest, dest', q)
           /\ dest'[Entry.path].saved
           /\ \A q \in Tree \ (Parent(Entry.path) \cup {Entry.path}) : dest'[q] = dest[q]
<1> DEFINE p == Entry.path
           r == [dest EXCEPT ![p].saved = TRUE]
<1>1. p \in Tree /\ dest \in [Tree -> NodeType]
  BY EntryFacts DEF Types, TypeOK
<1>2. Parent(p) \subseteq Ancestors(p) /\ p \notin Ancestors(p)
  BY <1>1, ParentIsAncestor DEF Ancestors, IsStrictPrefix
<1> HIDE DEF p
<1>3. [dest[p] EXCEPT !.saved = TRUE] \in NodeType
  BY <1>1 DEF NodeType
<1>4. r = [dest EXCEPT ![p] = [dest[p] EXCEPT !.saved = TRUE]]
  OBVIOUS
<1>5. /\ r \in [Tree -> NodeType]
      /\ r[p].kind = dest[p].kind /\ r[p].data = dest[p].data /\ r[p].saved
      /\ \A q \in Tree \ {p} : r[q] = dest[q]
  BY <1>1, <1>3, <1>4 DEF NodeType
<1> HIDE DEF r
<1>6. /\ Disturb(r, Parent(p)) \in [Tree -> NodeType]
      /\ \A q \in Tree : Same(r, Disturb(r, Parent(p)), q)
      /\ \A q \in Tree \ Parent(p) : Disturb(r, Parent(p))[q] = r[q]
  BY <1>5, DisturbFacts
<1>7. dest' = Disturb(r, Parent(p))
  BY DEF r, p
<1> HIDE DEF r
<1>8. \A q \in Tree : Same(dest, dest', q)
  BY <1>5, <1>6, <1>7 DEF Same
<1>9. dest'[p].saved /\ \A q \in Tree \ (Parent(p) \cup {p}) : dest'[q] = dest[q]
  BY <1>1, <1>2, <1>5, <1>6, <1>7
<1> QED  BY <1>2, <1>6, <1>7, <1>8, <1>9 DEF Grown, p

-----------------------------------------------------------------------------
(* The invariant holds.                                                    *)

\* Initially the destination is what it was, and nothing is under way.
LEMMA InitInv == Init => IInv
<1> SUFFICES ASSUME Init  PROVE IInv
  OBVIOUS
<1>1. mf \in Seq(EntryType) /\ Len(mf) \in Nat
  BY InputAssumption, LenProperties DEF Init
<1>2. object \in [Object -> {"good", "bad", "gone"}]
  BY DEF Init
<1>3. TypeOK
  <2>1. i \in 0 .. Len(mf) + 1 /\ k \in Nat
    BY <1>1 DEF Init
  <2> QED  BY <1>1, <1>2, <2>1, InputAssumption DEF Init, TypeOK, Reasons
<1>4. Types
  BY <1>3, InputAssumption DEF Init, Types
<1>5. Position /\ NoTornFile /\ Damage /\ OutsideUntouched
  BY DEF Init, Position, NoTornFile, Damage, OutsideUntouched
<1> QED  BY <1>4, <1>5 DEF IInv

\* The entry being written is one of the subtree, with its path in the tree.
LEMMA WritingFacts ==
    ASSUME IInv, phase = "append" \/ (Writing /\ Relevant(Entry))
    PROVE  /\ i \in DOMAIN mf /\ Entry \in EntryType /\ Entry \in Entries
           /\ Entry.path \in Tree /\ IsPrefix(sub, Entry.path)
           /\ Entry.chunks \in Seq(Object) /\ Len(Entry.chunks) \in Nat
<1>1. i \in DOMAIN mf
  BY LenProperties DEF IInv, Types, TypeOK, Position, Writing
<1>2. Relevant(Entry)
  BY DEF IInv, Position
<1> QED  BY <1>1, <1>2, EntryFacts DEF IInv, Relevant, InSubtree

\* Every step keeps the destination well typed, its files whole, and what is
\* outside the subtree as it was.
LEMMA DestStep ==
    ASSUME IInv, [Next]_vars
    PROVE  dest' \in [Tree -> NodeType] /\ NoTornFile' /\ OutsideUntouched'
<1>1. UNCHANGED <<mf, sub, prior>>
  BY DEF Next, RestoreStep, FaultStep, Start, VerifyChunk, VerifyNext, VerifyDone, WriteSkip,
     WriteUnsafe, WriteDir, WriteBegin, AppendChunk, WriteFinish, WriteDone, MetaSkip, MetaApply,
     MetaDone, FetchFails, WriteClash, WriteFails, Stop, Crash, Prune, Sweep, Rot,
     vars, repoVars, historyVars
<1>2. Types /\ NoTornFile /\ OutsideUntouched /\ dest \in [Tree -> NodeType] /\ TmpDir \in Tree
  BY TreeAssumption DEF IInv, Types, TypeOK
<1>3. ASSUME NEW p \in Tree, Grown(dest, dest', p),
             p = TmpDir \/ IsPrefix(sub, p) \/ IsPrefix(p, sub)
      PROVE  dest' \in [Tree -> NodeType] /\ NoTornFile' /\ OutsideUntouched'
  BY <1>1, <1>2, <1>3, GrowthKeeps DEF Grown
<1>4. CASE dest' = dest
  BY <1>2, <1>3, <1>4, GrownLeast
<1>5. CASE dest' = Disturb(dest, {TmpDir})
  BY <1>2, <1>3, <1>5, GrownLeast
<1>6. CASE WriteDir
  <2>1. Entry.path \in Tree /\ IsPrefix(sub, Entry.path)
    BY <1>6, WritingFacts DEF WriteDir
  <2>2. Grown(dest, dest', Entry.path)
    BY <1>2, <1>6, <2>1, MkdirFacts DEF WriteDir
  <2> QED  BY <1>3, <2>1, <2>2
<1>7. CASE WriteBegin
  BY <1>2, <1>3, <1>7, MkdirFacts, GrownDisturbed DEF WriteBegin
<1>8. CASE WriteFinish
  <2>1. /\ i \in DOMAIN mf /\ Entry \in Entries
        /\ Entry.path \in Tree /\ IsPrefix(sub, Entry.path)
    BY <1>8, WritingFacts DEF WriteFinish
  <2>2. staged \in Seq(Object) /\ staged = Entry.chunks /\ Entry.kind = "file"
    <3>1. /\ Entry.chunks \in Seq(Object) /\ Len(Entry.chunks) \in Nat
          /\ k = Len(Entry.chunks) + 1 /\ staged = SubSeq(Entry.chunks, 1, k - 1)
          /\ Entry.kind = "file"
      BY <1>8, WritingFacts DEF WriteFinish, IInv, Position
    <3> QED  BY <3>1, SubSeqFull
  <2>3. /\ dest' \in [Tree -> NodeType]
        /\ dest'[Entry.path].kind = "file" /\ dest'[Entry.path].data = staged
        /\ \A q \in Tree \ {Entry.path} :
             Same(dest, dest', q) \/ (dest[q].kind = "none" /\ dest'[q].kind = "dir")
        /\ \A q \in Tree \ (Ancestors(Entry.path) \cup {Entry.path, TmpDir}) : dest'[q] = dest[q]
    BY <1>2, <1>8, <2>1, <2>2, RenameFacts DEF WriteFinish
  <2>4. Entry \in Files(Entry.path)
    BY <2>1, <2>2 DEF Files
  <2>5. NoTornFile'
    <3> SUFFICES ASSUME NEW p \in Tree, dest'[p].kind = "file"
                 PROVE  \/ prior[p].kind = "file" /\ dest'[p].data = prior[p].data
                        \/ \E e \in Files(p) : dest'[p].data = e.chunks
      <4>1. \A p \in Tree : Files(p)' = Files(p)
        BY <1>1 DEF Files, Entries
      <4> QED  BY <1>1, <4>1 DEF NoTornFile
    <3>1. CASE p = Entry.path
      BY <2>2, <2>3, <2>4, <3>1
    <3>2. CASE p # Entry.path
      <4>1. Same(dest, dest', p)
        BY <2>3, <3>2
      <4> QED  BY <1>2, <4>1 DEF NoTornFile, Same
    <3> QED  BY <3>1, <3>2
  <2>6. OutsideUntouched'
    <3> SUFFICES ASSUME NEW q \in Tree, q # TmpDir, ~IsPrefix(sub, q), ~IsPrefix(q, sub)
                 PROVE  dest'[q] = dest[q]
      BY <1>1, <1>2 DEF OutsideUntouched
    <3>1. q \notin Ancestors(Entry.path) \cup {Entry.path}
      BY <1>2, <2>1, OnTheWay
    <3> QED  BY <2>3, <3>1
  <2> QED  BY <2>3, <2>5, <2>6
<1>9. CASE WriteFails
  <2>1. Entry.path \in Tree /\ IsPrefix(sub, Entry.path)
    BY <1>9, WritingFacts DEF WriteFails
  <2>2. PICK p \in Ancestors(Entry.path) \cup {Root, TmpDir} :
          dest' = Disturb(MkdirAll(dest, p), {TmpDir})
    BY <1>9 DEF WriteFails
  <2>3. p \in Tree /\ (p = TmpDir \/ IsPrefix(sub, p) \/ IsPrefix(p, sub))
    BY <1>2, <2>1, OnTheWay
  <2> QED  BY <1>2, <1>3, <2>2, <2>3, MkdirFacts, GrownDisturbed
<1>10. CASE MetaApply
  <2>1. i \in DOMAIN mf /\ IsPrefix(sub, Entry.path)
    BY <1>10, LenProperties DEF MetaApply, IInv, Types, TypeOK, Position, Relevant, InSubtree
  <2>2. Entry.path \in Tree
    BY <1>2, <2>1, EntryFacts
  <2>3. CASE dest' = Disturb([dest EXCEPT ![Entry.path].saved = TRUE], Parent(Entry.path))
    BY <1>2, <1>3, <2>1, <2>2, <2>3, MetaFacts
  <2> QED  BY <1>4, <1>10, <2>3 DEF MetaApply
<1> QED
  BY <1>4, <1>5, <1>6, <1>7, <1>8, <1>9, <1>10
  DEF Next, RestoreStep, FaultStep, Start, VerifyChunk, VerifyNext, VerifyDone, WriteSkip,
     WriteUnsafe, AppendChunk, WriteDone, MetaSkip, MetaDone, FetchFails, WriteClash, Stop,
     Crash, Prune, Sweep, Rot, vars, destVars

\* Every step keeps the types.
LEMMA TypesStep ==
    ASSUME IInv, [Next]_vars
    PROVE  Types'
<1>1. /\ UNCHANGED <<mf, sub, prior>>
      /\ dest' \in [Tree -> NodeType]
      /\ mf \in Seq(EntryType) /\ Len(mf) \in Nat /\ DOMAIN mf = 1 .. Len(mf)
      /\ 1 \in 0 .. Len(mf) + 1 /\ Len(mf) \in 0 .. Len(mf) + 1
      /\ TypeOK /\ Types /\ Position
  <2>1. UNCHANGED <<mf, sub, prior>>
    BY DEF Next, RestoreStep, FaultStep, Start, VerifyChunk, VerifyNext, VerifyDone, WriteSkip,
       WriteUnsafe, WriteDir, WriteBegin, AppendChunk, WriteFinish, WriteDone, MetaSkip, MetaApply,
       MetaDone, FetchFails, WriteClash, WriteFails, Stop, Crash, Prune, Sweep, Rot,
       vars, repoVars, historyVars
  <2> QED  BY <2>1, DestStep, LenProperties DEF IInv, Types, TypeOK
<1>2. /\ object' \in [Object -> {"good", "bad", "gone"}] /\ pruned' \in BOOLEAN
      /\ before' \in [Tree -> NodeType] /\ damaged' \subseteq Object
  <2>1. CASE UNCHANGED <<object, pruned, before, damaged>>
    BY <1>1, <2>1 DEF Types, TypeOK
  <2>2. CASE Start
    BY <1>1, <2>2 DEF Start, Types, TypeOK, repoVars
  <2>3. CASE Prune \/ \E o \in Object : Sweep(o) \/ Rot(o)
    BY <1>1, <2>3 DEF Prune, Sweep, Rot, Types, TypeOK, historyVars
  <2> QED
    BY <2>1, <2>2, <2>3
    DEF Next, RestoreStep, FaultStep, VerifyChunk, VerifyNext, VerifyDone, WriteSkip,
       WriteUnsafe, WriteDir, WriteBegin, AppendChunk, WriteFinish, WriteDone, MetaSkip, MetaApply,
       MetaDone, FetchFails, WriteClash, WriteFails, Stop, Crash, vars, repoVars, historyVars
<1> DEFINE Placed ==
      /\ phase' \in {"idle", "verify", "write", "append", "meta", "done", "failed"}
      /\ i' \in 0 .. Len(mf) + 1 /\ k' \in Nat
      /\ staged' \in Seq(Object) \cup {NoStage} /\ (phase' = "append" <=> staged' # NoStage)
           Told == faults' \subseteq {"corrupt", "missing"} /\ why' \in Reasons /\ warn' \in BOOLEAN
<1>3. Placed
  <2>1. CASE UNCHANGED <<phase, i, k, staged>>
    BY <1>1, <2>1 DEF TypeOK
  <2>2. CASE Start
    BY <1>1, <2>2 DEF Start, TypeOK, destVars
  <2>3. CASE VerifyChunk
    BY <1>1, <2>3 DEF VerifyChunk, TypeOK, destVars
  <2>4. CASE VerifyNext
    BY <1>1, <2>4 DEF VerifyNext, Advance, TypeOK, destVars
  <2>5. CASE VerifyDone
    BY <1>1, <2>5 DEF VerifyDone, Fail, TypeOK, destVars
  <2>6. CASE WriteSkip \/ WriteUnsafe
    BY <1>1, <2>6 DEF WriteSkip, WriteUnsafe, Writing, Advance, Fail, TypeOK, destVars
  <2>7. CASE WriteDir
    BY <1>1, <2>7 DEF WriteDir, Writing, Advance, TypeOK
  <2>8. CASE WriteBegin
    BY <1>1, <2>8, StageAssumption, EmptySeq DEF WriteBegin, Writing, TypeOK
  <2>9. CASE AppendChunk
    <3>1. staged \in Seq(Object) /\ Entry.chunks \in Seq(Object) /\ k \in 1 .. Len(Entry.chunks)
      BY <1>1, <2>9, WritingFacts DEF AppendChunk, TypeOK, Position
    <3>2. Entry.chunks[k] \in Object
      BY <3>1, ElementOfSeq
    <3>3. staged' \in Seq(Object)
      BY <2>9, <3>1, <3>2, AppendProperties DEF AppendChunk
    <3>4. phase' = "append" /\ i' \in 0 .. Len(mf) + 1 /\ k' \in Nat
      BY <1>1, <2>9 DEF AppendChunk, TypeOK
    <3>5. staged' # NoStage
      BY <3>3, StageAssumption
    <3> QED  BY <3>3, <3>4, <3>5
  <2>10. CASE WriteFinish
    BY <1>1, <2>10 DEF WriteFinish, Advance, TypeOK, Position
  <2>11. CASE WriteDone
    BY <1>1, <2>11 DEF WriteDone, TypeOK, destVars
  <2>12. CASE MetaSkip
    BY <1>1, <2>12 DEF MetaSkip, TypeOK, destVars
  <2>13. CASE MetaApply
    BY <1>1, <2>13 DEF MetaApply, TypeOK
  <2>14. CASE MetaDone
    BY <1>1, <2>14 DEF MetaDone, TypeOK, destVars
  <2>15. CASE FetchFails \/ WriteClash \/ WriteFails \/ Crash
    BY <1>1, <2>15 DEF FetchFails, WriteClash, WriteFails, Crash, Fail
  <2>16. CASE Stop
    BY <1>1, <2>16 DEF Stop, Writing, Fail, TypeOK, destVars
  <2> QED
    BY <2>1, <2>2, <2>3, <2>4, <2>5, <2>6, <2>7, <2>8, <2>9, <2>10, <2>11, <2>12, <2>13, <2>14,
       <2>15, <2>16
    DEF Next, RestoreStep, FaultStep, Prune, Sweep, Rot, vars, destVars, posVars
<1>4. Told
  <2>1. CASE UNCHANGED <<faults, why, warn>>
    BY <1>1, <2>1 DEF TypeOK
  <2>2. CASE Start
    BY <2>2 DEF Start, Reasons
  <2>3. CASE VerifyChunk
    BY <1>1, <2>3 DEF VerifyChunk, Counts, TypeOK
  <2>4. CASE VerifyDone
    BY <1>1, <2>4 DEF VerifyDone, Fail, TypeOK, Reasons, outcomeVars
  <2>5. CASE WriteUnsafe \/ WriteClash \/ WriteFails \/ Stop \/ Crash
    BY <1>1, <2>5 DEF WriteUnsafe, WriteClash, WriteFails, Stop, Crash, Fail, TypeOK, Reasons
  <2>6. CASE FetchFails
    BY <1>1, <2>6 DEF FetchFails, Fail, TypeOK, Reasons
  <2>7. CASE MetaApply
    BY <1>1, <2>7 DEF MetaApply, TypeOK
  <2> QED
    BY <2>1, <2>2, <2>3, <2>4, <2>5, <2>6, <2>7
    DEF Next, RestoreStep, FaultStep, VerifyNext, WriteSkip, WriteDir, WriteBegin, AppendChunk,
       WriteFinish, WriteDone, MetaSkip, MetaDone, Prune, Sweep, Rot, vars, outcomeVars
<1>5. TypeOK'
  BY <1>1, <1>2, <1>3, <1>4 DEF TypeOK
<1> QED  BY <1>1, <1>2, <1>5 DEF Types

\* Every step keeps the position, and the staging file with it.
LEMMA PositionStep ==
    ASSUME IInv, [Next]_vars
    PROVE  Position'
<1>1. /\ Types /\ TypeOK /\ Position /\ UNCHANGED <<mf, sub>>
      /\ Len(mf) \in Nat /\ DOMAIN mf = 1 .. Len(mf) /\ i \in Int /\ k \in Int
  BY LenProperties
  DEF IInv, Types, TypeOK, Next, RestoreStep, FaultStep, Start, VerifyChunk, VerifyNext, VerifyDone,
     WriteSkip, WriteUnsafe, WriteDir, WriteBegin, AppendChunk, WriteFinish, WriteDone, MetaSkip,
     MetaApply, MetaDone, FetchFails, WriteClash, WriteFails, Stop, Crash, Prune, Sweep, Rot,
     vars, repoVars
<1>2. CASE UNCHANGED <<phase, i, k, staged>>
  BY <1>1, <1>2 DEF Position, Entry, Relevant, InSubtree
<1>3. CASE Start \/ WriteUnsafe \/ FetchFails \/ WriteClash \/ WriteFails \/ Stop \/ Crash \/ VerifyDone
  BY <1>1, <1>3 DEF Start, WriteUnsafe, FetchFails, WriteClash, WriteFails, Stop, Crash, VerifyDone,
     Fail, Position
<1>4. CASE VerifyChunk \/ VerifyNext \/ WriteSkip \/ WriteDir \/ WriteDone \/ MetaSkip \/ MetaApply \/ MetaDone
  BY <1>1, <1>4 DEF VerifyChunk, VerifyNext, WriteSkip, WriteDir, WriteDone, MetaSkip, MetaApply,
     MetaDone, Advance, Writing, Position
<1>5. CASE WriteBegin
  <2>1. /\ phase' = "append" /\ i' = i /\ k' = 1 /\ staged' = <<>>
        /\ Relevant(Entry) /\ Entry.safe /\ Entry.kind = "file"
        /\ i \in DOMAIN mf /\ Len(Entry.chunks) \in Nat
    BY <1>5, WritingFacts DEF WriteBegin
  <2>2. SubSeq(Entry.chunks, 1, 1 - 1) = <<>>
    BY SubSeqEmpty
  <2>3. Entry' = Entry /\ Relevant(Entry)'
    BY <1>1, <2>1 DEF Entry, Relevant, InSubtree
  <2>4. k' \in 1 .. Len(Entry.chunks) + 1
    BY <2>1
  <2> QED  BY <1>1, <2>1, <2>2, <2>3, <2>4 DEF Position
<1>6. CASE AppendChunk
  <2>1. /\ i \in DOMAIN mf /\ Entry.chunks \in Seq(Object) /\ Len(Entry.chunks) \in Nat
        /\ k \in 1 .. Len(Entry.chunks) /\ staged = SubSeq(Entry.chunks, 1, k - 1)
        /\ Relevant(Entry) /\ Entry.safe /\ Entry.kind = "file"
        /\ phase' = "append" /\ i' = i /\ k' = k + 1 /\ staged' = Append(staged, Entry.chunks[k])
    BY <1>1, <1>6, WritingFacts DEF AppendChunk, Position
  <2>2. staged' = SubSeq(Entry.chunks, 1, k)
    <3>1. k \in 1 .. Len(Entry.chunks) /\ 1 \in 1 .. Len(Entry.chunks)
      BY <2>1
    <3>2. SubSeq(Entry.chunks, 1, k) = SubSeq(Entry.chunks, 1, k - 1) \o <<Entry.chunks[k]>>
      BY <2>1, <3>1, SubSeqRecursiveSecond
    <3>3. staged \in Seq(Object) /\ Entry.chunks[k] \in Object
      BY <1>1, <1>6, <2>1, ElementOfSeq DEF TypeOK, AppendChunk
    <3>4. Append(staged, Entry.chunks[k]) = staged \o <<Entry.chunks[k]>>
      BY <3>3, AppendIsConcat
    <3> QED  BY <2>1, <3>2, <3>4
  <2>3. Entry' = Entry /\ Relevant(Entry)'
    BY <1>1, <2>1 DEF Entry, Relevant, InSubtree
  <2>4. k' \in 1 .. Len(Entry.chunks) + 1 /\ k' - 1 = k
    BY <2>1
  <2> QED  BY <1>1, <2>1, <2>2, <2>3, <2>4 DEF Position
<1>7. CASE WriteFinish
  BY <1>1, <1>7 DEF WriteFinish, Advance, Position
<1> QED
  BY <1>2, <1>3, <1>4, <1>5, <1>6, <1>7
  DEF Next, RestoreStep, FaultStep, Prune, Sweep, Rot, vars, destVars, posVars

\* A damaged object is counted when it is verified.
LEMMA CountedWhenDamaged ==
    ASSUME NEW o, object[o] # "good", NEW c \in Counts(o)
    PROVE  c # {}
BY DEF Counts

\* Every step keeps what is known of the damage.
LEMMA DamageStep ==
    ASSUME IInv, [Next]_vars
    PROVE  Damage'
<1>1. /\ Types /\ TypeOK /\ Position /\ Damage /\ UNCHANGED mf
      /\ Len(mf) \in Nat /\ DOMAIN mf = 1 .. Len(mf) /\ i \in Int /\ k \in Int
  BY LenProperties
  DEF IInv, Types, TypeOK, Next, RestoreStep, FaultStep, Start, VerifyChunk, VerifyNext, VerifyDone,
     WriteSkip, WriteUnsafe, WriteDir, WriteBegin, AppendChunk, WriteFinish, WriteDone, MetaSkip,
     MetaApply, MetaDone, FetchFails, WriteClash, WriteFails, Stop, Crash, Prune, Sweep, Rot,
     vars, repoVars
<1>2. CASE Start
  <2>1. /\ phase' = "verify" /\ i' = 1 /\ k' = 1 /\ before' = dest /\ dest' = dest
        /\ damaged' = {o \in Object : object[o] # "good"} /\ object' = object
    BY <1>2 DEF Start, repoVars, destVars
  <2>2. ~DamagedBefore(1, 1)'
    BY DEF DamagedBefore
  <2>3. \A n \in DOMAIN mf : ~(n < 1)
    BY <1>1
  <2> QED  BY <1>1, <2>1, <2>2, <2>3 DEF Damage
<1>3. ASSUME UNCHANGED <<damaged, before>>
      PROVE  /\ \A o \in damaged' : object'[o] # "good"
             /\ Undamaged' = Undamaged
             /\ \A n, m : DamagedBefore(n, m)' = DamagedBefore(n, m)
  <2>1. damaged \subseteq Object /\ \A o \in damaged : object[o] # "good"
    BY <1>1 DEF Damage, Types
  <2>2. \A o \in damaged : object'[o] # "good"
    <3>1. CASE object' = object
      BY <2>1, <3>1
    <3>2. CASE \E o \in Object : Sweep(o) \/ Rot(o)
      BY <1>1, <2>1, <3>2 DEF Sweep, Rot, TypeOK
    <3> QED
      BY <3>1, <3>2
      DEF Next, RestoreStep, FaultStep, Start, VerifyChunk, VerifyNext, VerifyDone, WriteSkip,
         WriteUnsafe, WriteDir, WriteBegin, AppendChunk, WriteFinish, WriteDone, MetaSkip, MetaApply,
         MetaDone, FetchFails, WriteClash, WriteFails, Stop, Crash, Prune, vars, repoVars
  <2> QED  BY <1>1, <1>3, <2>2 DEF Undamaged, DamagedBefore
<1>4. CASE Prune \/ (\E o \in Object : Sweep(o) \/ Rot(o)) \/ UNCHANGED vars
  <2>1. UNCHANGED <<mf, dest, before, damaged, phase, i, k, faults>>
    BY <1>1, <1>4 DEF Prune, Sweep, Rot, vars, destVars, posVars, outcomeVars, historyVars
  <2> QED  BY <1>1, <1>3, <2>1 DEF Damage
<1>5. CASE VerifyChunk
  <2>1. PICK c \in Counts(Entry.chunks[k]) : faults' = faults \cup c
    BY <1>5 DEF VerifyChunk
  <2>2. /\ UNCHANGED <<dest, before, damaged, phase, i>> /\ phase = "verify"
        /\ k' = k + 1 /\ i \in DOMAIN mf /\ k \in Nat /\ k >= 1
    BY <1>1, <1>5 DEF VerifyChunk, Position, destVars, historyVars
  <2>3. ASSUME DamagedBefore(i, k + 1)  PROVE faults' # {}
    <3>1. PICK m \in 1 .. k : m \in DOMAIN mf[i].chunks /\ mf[i].chunks[m] \in damaged
      BY <2>2, <2>3 DEF DamagedBefore
    <3>2. CASE m = k
      <4>1. object[Entry.chunks[k]] # "good"
        BY <1>1, <3>1, <3>2 DEF Damage, Entry
      <4> QED  BY <2>1, <4>1, CountedWhenDamaged
    <3>3. CASE m # k
      <4>1. DamagedBefore(i, k)
        BY <2>2, <3>1, <3>3 DEF DamagedBefore
      <4> QED  BY <1>1, <2>1, <2>2, <4>1 DEF Damage
    <3> QED  BY <3>2, <3>3
  <2>4. \A n \in DOMAIN mf :
          n < i /\ (\E m \in DOMAIN mf[n].chunks : mf[n].chunks[m] \in damaged) => faults' # {}
    BY <1>1, <2>1, <2>2 DEF Damage
  <2> QED  BY <1>1, <1>3, <2>2, <2>3, <2>4 DEF Damage
<1>6. CASE VerifyNext
  <2>1. /\ UNCHANGED <<dest, before, damaged, phase, faults>> /\ phase = "verify"
        /\ i' = i + 1 /\ k' = 1 /\ i \in DOMAIN mf /\ k > Len(Entry.chunks)
    BY <1>1, <1>6 DEF VerifyNext, Advance, Position, destVars, historyVars, outcomeVars
  <2>2. ASSUME NEW n \in DOMAIN mf, n < i + 1, NEW m \in DOMAIN mf[n].chunks,
               mf[n].chunks[m] \in damaged
        PROVE  faults # {}
    <3>1. CASE n < i
      BY <1>1, <2>1, <2>2, <3>1 DEF Damage
    <3>2. CASE n = i
      <4>1. m \in 1 .. k - 1
        BY <1>1, <2>1, <2>2, <3>2, EntryFacts, LenProperties DEF Entry
      <4>2. DamagedBefore(i, k)
        BY <2>2, <3>2, <4>1 DEF DamagedBefore
      <4> QED  BY <1>1, <2>1, <4>2 DEF Damage
    <3> QED  BY <1>1, <2>2, <3>1, <3>2
  <2>3. ~DamagedBefore(i + 1, 1)
    BY DEF DamagedBefore
  <2> QED  BY <1>1, <1>3, <2>1, <2>2, <2>3 DEF Damage
<1>7. CASE VerifyDone
  <2>1. /\ UNCHANGED <<dest, before, damaged>> /\ phase = "verify" /\ dest = before /\ i > Len(mf)
    BY <1>1, <1>7 DEF VerifyDone, Damage, destVars, historyVars
  <2>2. CASE faults # {}
    BY <1>1, <1>3, <1>7, <2>1, <2>2 DEF VerifyDone, Fail, Damage
  <2>3. CASE faults = {}
    <3>1. Undamaged
      BY <1>1, <2>1, <2>3 DEF Damage, Undamaged
    <3>2. phase' = "write"
      BY <1>7, <2>3 DEF VerifyDone
    <3> QED  BY <1>1, <1>3, <2>1, <3>1, <3>2 DEF Damage
  <2> QED  BY <2>2, <2>3
<1>8. CASE Crash
  <2>1. UNCHANGED <<dest, before, damaged>> /\ phase' = "failed" /\ (dest = before \/ Undamaged)
    BY <1>1, <1>8 DEF Crash, Fail, Damage, historyVars
  <2> QED  BY <1>1, <1>3, <2>1 DEF Damage
<1>9. CASE \/ WriteSkip \/ WriteUnsafe \/ WriteDir \/ WriteBegin \/ AppendChunk \/ WriteFinish
           \/ WriteDone \/ MetaSkip \/ MetaApply \/ MetaDone \/ FetchFails \/ WriteClash
           \/ WriteFails \/ Stop
  <2>1. /\ UNCHANGED <<before, damaged>> /\ phase \in {"write", "append", "meta"}
        /\ phase' \in {"write", "append", "meta", "done", "failed"}
    BY <1>9
    DEF WriteSkip, WriteUnsafe, WriteDir, WriteBegin, AppendChunk, WriteFinish, WriteDone, MetaSkip,
       MetaApply, MetaDone, FetchFails, WriteClash, Clash, WriteFails, Stop, Writing, Advance, Fail,
       historyVars
  <2>2. Undamaged
    BY <1>1, <2>1 DEF Damage
  <2> QED  BY <1>1, <1>3, <2>1, <2>2 DEF Damage
<1> QED
  BY <1>2, <1>4, <1>5, <1>6, <1>7, <1>8, <1>9 DEF Next, RestoreStep, FaultStep

\* The invariant is inductive.
THEOREM Inductive == Spec => []IInv
<1>1. IInv /\ [Next]_vars => IInv'
  BY TypesStep, PositionStep, DestStep, DamageStep DEF IInv
<1> QED  BY <1>1, InitInv, PTL DEF Spec

-----------------------------------------------------------------------------
(* Theorems.                                                               *)

\* Every variable of RESTORE keeps its type.
THEOREM TypeCorrect == Spec => []TypeOK
<1>1. IInv => TypeOK
  BY DEF IInv, Types
<1> QED  BY <1>1, Inductive, PTL

\* put_begin(), put_append(), put_finish(), put_abort(): whatever fails and
\* whenever RESTORE is stopped, each file of the destination is the one that
\* was there or exactly the one of the snapshot.
THEOREM FilesAreWhole == Spec => []NoTornFile
<1>1. IInv => NoTornFile
  BY DEF IInv
<1> QED  BY <1>1, Inductive, PTL

\* amisnap_repo_verify_full() before anything is written: with an object of
\* the snapshot damaged when the run begins, the run changes nothing.
THEOREM DamageChangesNothing == Spec => []DamagedNeverTouches
<1>1. ASSUME IInv  PROVE DamagedNeverTouches
  <2>1. dest = before \/ Undamaged
    BY <1>1 DEF IInv, Types, TypeOK, Damage
  <2> QED  BY <2>1 DEF DamagedNeverTouches, Undamaged, Entries
<1> QED  BY <1>1, Inductive, PTL

\* SUBTREE=: what is outside it is left alone.
THEOREM OutsideIsLeftAlone == Spec => []OutsideUntouched
<1>1. IInv => OutsideUntouched
  BY DEF IInv
<1> QED  BY <1>1, Inductive, PTL

-----------------------------------------------------------------------------
(* Manifests in order: what is in the way, and what success means.         *)

\* Where a directory comes from.
Directories ==
    \A q \in Tree : dest[q].kind = "dir" =>
        /\ dest[q].data = <<>>
        /\ \/ prior[q].kind = "dir" \/ q \in {Root, TmpDir}
           \/ \E e \in Entries : e.kind = "dir" /\ e.path = q

Restored(n) ==
    \/ dest[mf[n].path].kind = mf[n].kind /\ dest[mf[n].path].data = mf[n].chunks
    \/ mf[n].kind = "dir" /\ prior[mf[n].path].kind = "file"
Saved(n) == warn \/ dest[mf[n].path].saved

\* The passes have done what is before them, or behind the second one.
Progress ==
    /\ phase \in {"write", "append"} =>
         \A n \in DOMAIN mf : n < i /\ Relevant(mf[n]) => Restored(n)
    /\ phase \in {"meta", "done"} =>
         \A n \in DOMAIN mf : Relevant(mf[n]) => Restored(n)
    /\ phase = "meta" => \A n \in DOMAIN mf : n > i /\ Relevant(mf[n]) => Saved(n)
    /\ phase = "done" => \A n \in DOMAIN mf : Relevant(mf[n]) => Saved(n)

\* Facts about the manifest that need its order.
LEMMA OrderFacts ==
    ASSUME Types, \A m \in Manifests : InOrder(m)
    PROVE  /\ InOrder(mf)
           /\ \A n \in DOMAIN mf : mf[n] \in EntryType /\ mf[n].path \in Tree
           /\ \A n, o \in DOMAIN mf : mf[n].path = mf[o].path => n = o
           /\ \A n \in DOMAIN mf : \A q \in Ancestors(mf[n].path) :
                \E o \in DOMAIN mf : o < n /\ mf[o].path = q
           /\ \A e \in Entries : e \in EntryType
           /\ \A e, f \in Entries : e.path = f.path => e = f
           /\ \A e \in Entries : \A q \in Ancestors(e.path) :
                \E f \in Entries : f.path = q /\ f.kind = "dir"
<1>1. InOrder(mf)
  BY DEF Types
<1>2. ASSUME NEW n \in DOMAIN mf  PROVE mf[n] \in EntryType /\ mf[n].path \in Tree
  <2>1. mf \in Seq(EntryType) /\ n \in 1 .. Len(mf)
    BY LenProperties DEF Types, TypeOK
  <2>2. mf[n] \in EntryType
    BY <2>1, ElementOfSeq
  <2> QED  BY <2>2 DEF EntryType
<1>3. \A n, o \in DOMAIN mf : mf[n].path = mf[o].path => n = o
  BY <1>1 DEF InOrder
<1>4. \A n \in DOMAIN mf : \A q \in Ancestors(mf[n].path) :
        \E o \in DOMAIN mf : o < n /\ mf[o].path = q /\ mf[o].kind = "dir"
  BY <1>1 DEF InOrder
<1> QED  BY <1>1, <1>2, <1>3, <1>4 DEF Entries

\* A file in the way of a directory of the snapshot was there before.
LEMMA FileForDirectory ==
    ASSUME Types, NoTornFile, \A m \in Manifests : InOrder(m),
           NEW e \in Entries, e.kind = "dir", e.path \in Tree, dest[e.path].kind = "file"
    PROVE  prior[e.path].kind = "file"
BY OrderFacts DEF NoTornFile, Files

\* Growth towards the place of a directory of the snapshot, of the staging
\* directory or of the root keeps the origin of directories.
LEMMA GrownDirectories ==
    ASSUME Types, Directories, \A m \in Manifests : InOrder(m), UNCHANGED <<mf, prior>>,
           NEW p \in Tree, Grown(dest, dest', p),
           \A q \in Ancestors(p) \cup {p} :
              q \in {Root, TmpDir} \/ \E e \in Entries : e.kind = "dir" /\ e.path = q
    PROVE  Directories'
BY DEF Directories, Grown, Same, Entries

\* Growth keeps what is restored.
LEMMA GrownRestored ==
    ASSUME Types, UNCHANGED <<mf, prior>>, NEW p \in Tree, Grown(dest, dest', p),
           NEW n \in DOMAIN mf, mf[n].path \in Tree, mf[n].kind # "none", Restored(n)
    PROVE  Restored(n)'
BY DEF Restored, Grown, Same

\* The drawers above the staging directory: the root.
LEMMA AboveTmp == \A q \in Ancestors(TmpDir) : q = Root
<1> SUFFICES ASSUME NEW q \in Ancestors(TmpDir)  PROVE q = Root
  OBVIOUS
<1>1. q \in Seq(STRING) /\ TmpDir \in Seq(STRING) /\ IsPrefix(q, TmpDir) /\ q # TmpDir
  BY TreeAssumption DEF Ancestors, IsStrictPrefix
<1>2. Len(TmpDir) = 1
  BY DEF TmpDir
<1>3. Len(q) = 0
  BY <1>1, <1>2, ShortIsEmpty
<1> QED  BY <1>1, <1>3, EmptySeq DEF Root

\* The drawers above the root: none.
LEMMA AboveRoot == Ancestors(Root) = {}
<1> SUFFICES ASSUME NEW q \in Ancestors(Root)  PROVE FALSE
  OBVIOUS
<1>1. q \in Seq(STRING) /\ IsPrefix(q, Root) /\ q # Root
  BY TreeAssumption DEF Ancestors, IsStrictPrefix
<1>2. Root \in Seq(STRING) /\ Len(Root) = 0 /\ Len(q) \in Nat
  BY <1>1, EmptySeq, LenProperties DEF Root
<1>3. Len(q) <= Len(Root)
  BY <1>1 DEF IsPrefix
<1> QED  BY <1>1, <1>2, <1>3, EmptySeq DEF Root

\* Nothing but what was there before, or a file named like the staging
\* directory, is ever in the way of an entry.
LEMMA ClashMeansObstructed ==
    ASSUME IInv, Directories, \A m \in Manifests : InOrder(m), Clash
    PROVE  Obstructed
<1>1. /\ Types /\ NoTornFile /\ TmpDir \in Tree
      /\ i \in DOMAIN mf /\ Entry \in Entries /\ Entry.path \in Tree
  <2>1. phase = "append" \/ (Writing /\ Relevant(Entry))
    BY DEF Clash
  <2> QED  BY <2>1, WritingFacts, TreeAssumption DEF IInv
<1> DEFINE Wanted == Entries \cup {[path |-> TmpDir, kind |-> "dir"]}
<1>2. ASSUME ~CanMkdir(dest, Entry.path)  PROVE Obstructed
  <2>1. PICK q \in Ancestors(Entry.path) : dest[q].kind = "file"
    BY <1>2 DEF CanMkdir
  <2>2. PICK e \in Entries : e.path = q /\ e.kind = "dir"
    BY <1>1, <2>1, OrderFacts
  <2>3. prior[e.path].kind = "file"
    BY <1>1, <2>1, <2>2, FileForDirectory DEF Ancestors
  <2> QED  BY <2>2, <2>3 DEF Obstructed
<1>3. ASSUME dest[TmpDir].kind = "file"  PROVE Obstructed
  <2>1. CASE prior[TmpDir].kind = "file"
    <3>1. [path |-> TmpDir, kind |-> "dir"] \in Wanted
      OBVIOUS
    <3> QED  BY <2>1, <3>1 DEF Obstructed
  <2>2. CASE \E e \in Files(TmpDir) : TRUE
    BY <2>2 DEF Obstructed, Files
  <2> QED  BY <1>1, <1>3, <2>1, <2>2 DEF NoTornFile
<1>4. ASSUME phase = "append", dest[Entry.path].kind = "dir"  PROVE Obstructed
  <2>1. Entry.kind = "file" /\ Entry.path # Root
    BY <1>1, <1>4, OrderFacts DEF IInv, Position, InOrder, Entry
  <2>2. CASE prior[Entry.path].kind = "dir"
    BY <1>1, <2>1, <2>2 DEF Obstructed
  <2>3. CASE Entry.path = TmpDir
    BY <1>1, <2>1, <2>3 DEF Obstructed
  <2>4. ~\E e \in Entries : e.kind = "dir" /\ e.path = Entry.path
    BY <1>1, <2>1, OrderFacts
  <2> QED  BY <1>1, <1>4, <2>1, <2>2, <2>3, <2>4 DEF Directories
<1> QED  BY <1>2, <1>3, <1>4 DEF Clash, Renameable

OrderInv == Directories /\ Progress /\ NothingInTheWay

\* Initially directories are those that were there.
LEMMA InitOrder == Init => OrderInv
BY InputAssumption DEF Init, OrderInv, Directories, Progress, NothingInTheWay

\* Every step keeps the origin of directories.
LEMMA DirectoriesStep ==
    ASSUME IInv, OrderInv, \A m \in Manifests : InOrder(m), [Next]_vars
    PROVE  Directories'
<1>1. /\ Types /\ UNCHANGED <<mf, prior>> /\ Directories
      /\ dest \in [Tree -> NodeType] /\ TmpDir \in Tree
  BY TypesStep, TreeAssumption
  DEF IInv, Types, TypeOK, OrderInv, Next, RestoreStep, FaultStep, Start, VerifyChunk, VerifyNext,
     VerifyDone, WriteSkip, WriteUnsafe, WriteDir, WriteBegin, AppendChunk, WriteFinish, WriteDone,
     MetaSkip, MetaApply, MetaDone, FetchFails, WriteClash, WriteFails, Stop, Crash, Prune, Sweep,
     Rot, vars, repoVars, historyVars
<1> DEFINE Known(q) == q \in {Root, TmpDir} \/ \E e \in Entries : e.kind = "dir" /\ e.path = q
<1>2. ASSUME NEW p \in Tree, Grown(dest, dest', p), \A q \in Ancestors(p) \cup {p} : Known(q)
      PROVE  Directories'
  BY <1>1, <1>2, GrownDirectories
<1>3. \A q \in Ancestors(TmpDir) \cup {TmpDir} : Known(q)
  BY AboveTmp
<1>4. ASSUME Grown(dest, dest', TmpDir)  PROVE Directories'
  BY <1>1, <1>2, <1>3, <1>4
<1>5. CASE dest' = dest \/ dest' = Disturb(dest, {TmpDir})
  BY <1>1, <1>4, <1>5, GrownLeast
<1>6. CASE WriteDir
  <2>1. Entry.path \in Tree /\ Entry \in Entries /\ Entry.kind = "dir"
    BY <1>6, WritingFacts DEF WriteDir
  <2>2. Grown(dest, dest', Entry.path)
    BY <1>1, <1>6, <2>1, MkdirFacts DEF WriteDir
  <2>3. \A q \in Ancestors(Entry.path) \cup {Entry.path} : Known(q)
    BY <1>1, <2>1, OrderFacts
  <2> QED  BY <1>2, <2>1, <2>2, <2>3
<1>7. CASE WriteBegin
  BY <1>1, <1>4, <1>7, MkdirFacts, GrownDisturbed DEF WriteBegin
<1>8. CASE WriteFinish
  <2>1. /\ i \in DOMAIN mf /\ Entry \in Entries /\ Entry.path \in Tree /\ staged \in Seq(Object)
    BY <1>8, WritingFacts DEF WriteFinish, IInv, Types, TypeOK
  <2>2. /\ dest'[Entry.path].kind = "file"
        /\ \A q \in Tree \ {Entry.path} :
             \/ Same(dest, dest', q)
             \/ q \in Ancestors(Entry.path) /\ dest'[q].kind = "dir" /\ dest'[q].data = <<>>
    BY <1>1, <1>8, <2>1, RenameFacts DEF WriteFinish
  <2>3. \A q \in Ancestors(Entry.path) : Known(q)
    BY <1>1, <2>1, OrderFacts
  <2>4. Entries' = Entries
    BY <1>1 DEF Entries
  <2> QED  BY <1>1, <2>2, <2>3, <2>4 DEF Directories, Same
<1>9. CASE WriteFails
  <2>1. Entry.path \in Tree /\ Entry \in Entries /\ IsPrefix(sub, Entry.path)
    BY <1>9, WritingFacts DEF WriteFails
  <2>2. PICK p \in Ancestors(Entry.path) \cup {Root, TmpDir} :
          dest' = Disturb(MkdirAll(dest, p), {TmpDir})
    BY <1>9 DEF WriteFails
  <2>3. p \in Tree
    BY <1>1, <2>1, OnTheWay
  <2>4. Grown(dest, dest', p)
    BY <1>1, <2>2, <2>3, MkdirFacts, GrownDisturbed
  <2>5. CASE p \in Ancestors(Entry.path)
    <3>1. PICK e \in Entries : e.path = p /\ e.kind = "dir"
      BY <1>1, <2>1, <2>5, OrderFacts
    <3>2. \A q \in Ancestors(p) \cup {p} : Known(q)
      BY <1>1, <3>1, OrderFacts
    <3> QED  BY <1>2, <2>3, <2>4, <3>2
  <2>6. CASE p = Root
    <3>1. \A q \in Ancestors(p) \cup {p} : Known(q)
      BY <2>6, AboveRoot
    <3> QED  BY <1>2, <2>3, <2>4, <3>1
  <2> QED  BY <1>4, <2>2, <2>4, <2>5, <2>6
<1>10. CASE MetaApply
  <2>1. i \in DOMAIN mf
    BY <1>10, LenProperties DEF MetaApply, IInv, Types, TypeOK, Position
  <2>2. CASE dest' = Disturb([dest EXCEPT ![Entry.path].saved = TRUE], Parent(Entry.path))
    <3>1. \A q \in Tree : Same(dest, dest', q)
      BY <1>1, <2>1, <2>2, MetaFacts
    <3> QED  BY <1>1, <3>1 DEF Directories, Same, Entries
  <2> QED  BY <1>5, <1>10, <2>2 DEF MetaApply
<1> QED
  BY <1>5, <1>6, <1>7, <1>8, <1>9, <1>10
  DEF Next, RestoreStep, FaultStep, Start, VerifyChunk, VerifyNext, VerifyDone, WriteSkip,
     WriteUnsafe, AppendChunk, WriteDone, MetaSkip, MetaDone, FetchFails, WriteClash, Stop,
     Crash, Prune, Sweep, Rot, vars, destVars

\* Every step keeps what is said of clashes.
LEMMA ClashStep ==
    ASSUME IInv, OrderInv, \A m \in Manifests : InOrder(m), [Next]_vars
    PROVE  NothingInTheWay'
<1>1. UNCHANGED <<mf, prior>>
  BY TypesStep
  DEF Next, RestoreStep, FaultStep, Start, VerifyChunk, VerifyNext, VerifyDone, WriteSkip,
     WriteUnsafe, WriteDir, WriteBegin, AppendChunk, WriteFinish, WriteDone, MetaSkip, MetaApply,
     MetaDone, FetchFails, WriteClash, WriteFails, Stop, Crash, Prune, Sweep, Rot,
     vars, repoVars, historyVars
<1>2. Obstructed' = Obstructed
  BY <1>1 DEF Obstructed, Entries
<1>3. CASE WriteClash
  BY <1>2, <1>3, ClashMeansObstructed DEF WriteClash, OrderInv, NothingInTheWay
<1>4. ASSUME why' = why \/ why' # "clash"  PROVE NothingInTheWay'
  BY <1>2, <1>4 DEF OrderInv, NothingInTheWay
<1>5. CASE FetchFails
  BY <1>4, <1>5 DEF FetchFails, Fail
<1> QED
  BY <1>3, <1>4, <1>5
  DEF Next, RestoreStep, FaultStep, Start, VerifyChunk, VerifyNext, VerifyDone, WriteSkip,
     WriteUnsafe, WriteDir, WriteBegin, AppendChunk, WriteFinish, WriteDone, MetaSkip, MetaApply,
     MetaDone, WriteFails, Stop, Crash, Prune, Sweep, Rot, Fail, vars, outcomeVars

\* Every step of a pass keeps what the pass has done.
LEMMA ProgressStep ==
    ASSUME IInv, OrderInv, \A m \in Manifests : InOrder(m), [Next]_vars
    PROVE  Progress'
<1>1. /\ Types /\ Position /\ NoTornFile /\ Progress /\ UNCHANGED <<mf, sub, prior>>
      /\ dest \in [Tree -> NodeType] /\ TmpDir \in Tree
      /\ Len(mf) \in Nat /\ DOMAIN mf = 1 .. Len(mf) /\ i \in Int
  BY LenProperties, TreeAssumption
  DEF IInv, OrderInv, Types, TypeOK, Next, RestoreStep, FaultStep, Start, VerifyChunk, VerifyNext,
     VerifyDone, WriteSkip, WriteUnsafe, WriteDir, WriteBegin, AppendChunk, WriteFinish, WriteDone,
     MetaSkip, MetaApply, MetaDone, FetchFails, WriteClash, WriteFails, Stop, Crash, Prune, Sweep,
     Rot, vars, repoVars, historyVars
<1>2. /\ \A n \in DOMAIN mf : mf[n] \in EntryType /\ mf[n].path \in Tree /\ mf[n].kind # "none"
      /\ \A n, o \in DOMAIN mf : mf[n].path = mf[o].path => n = o
      /\ \A n \in DOMAIN mf : \A q \in Ancestors(mf[n].path) :
           \E o \in DOMAIN mf : o < n /\ mf[o].path = q
  BY <1>1, OrderFacts DEF EntryType
<1> PICK j \in Int : j = i
  BY <1>1
<1>3. \A n \in DOMAIN mf : Relevant(mf[n])' = Relevant(mf[n])
  BY <1>1 DEF Relevant, InSubtree
<1>4. ASSUME UNCHANGED <<dest, warn>>
      PROVE  \A n \in DOMAIN mf : Restored(n)' = Restored(n) /\ Saved(n)' = Saved(n)
  BY <1>1, <1>4 DEF Restored, Saved
<1>5. ASSUME NEW p \in Tree, Grown(dest, dest', p)
      PROVE  \A n \in DOMAIN mf : Restored(n) => Restored(n)'
  BY <1>1, <1>2, <1>5, GrownRestored
<1>6. CASE phase' \in {"idle", "verify", "failed"}
  BY <1>6 DEF Progress
<1>7. CASE UNCHANGED <<dest, warn, phase, i>>
  BY <1>1, <1>3, <1>4, <1>7 DEF Progress
<1>8. CASE VerifyDone
  <2>1. i' = 1 /\ phase' \in {"write", "failed"}
    BY <1>8 DEF VerifyDone, Fail
  <2> QED  BY <1>1, <2>1 DEF Progress
<1>9. CASE WriteSkip
  <2>1. /\ UNCHANGED <<dest, warn>> /\ phase = "write" /\ phase' = "write" /\ i' = i + 1
        /\ i \in DOMAIN mf /\ ~Relevant(mf[i])
    BY <1>1, <1>9 DEF WriteSkip, Writing, Advance, Entry, Position, destVars, outcomeVars
  <2> QED  BY <1>1, <1>3, <1>4, <2>1 DEF Progress
<1>10. CASE WriteDir
  <2>1. /\ Entry.path \in Tree /\ Entry \in Entries /\ Entry.kind = "dir" /\ i \in DOMAIN mf
        /\ dest' = MkdirAll(dest, Entry.path)
        /\ phase = "write" /\ phase' = "write" /\ i' = i + 1
    BY <1>10, WritingFacts DEF WriteDir, Writing, Advance
  <2>2. Grown(dest, dest', Entry.path) /\ dest'[Entry.path].kind # "none"
    BY <1>1, <2>1, MkdirFacts
  <2>3. Restored(j)'
    <3>1. dest'[Entry.path].kind \in {"dir", "file"} /\ Entry.chunks = <<>>
      <4>1. dest'[Entry.path] \in NodeType
        BY <2>1, <2>2 DEF Grown
      <4>2. mf[i].chunks = <<>>
        BY <1>1, <2>1, OrderFacts DEF InOrder, Entry
      <4> QED  BY <2>2, <4>1, <4>2 DEF NodeType, Entry
    <3>2. CASE dest'[Entry.path].kind = "dir"
      <4>1. dest'[Entry.path].data = <<>>
        BY <2>1, <3>2, DirectoriesStep DEF Directories
      <4> QED  BY <1>1, <2>1, <3>1, <3>2, <4>1 DEF Restored, Entry
    <3>3. CASE dest'[Entry.path].kind = "file"
      <4>1. dest[Entry.path].kind = "file"
        BY <2>1, <2>2, <3>3 DEF Grown, Same
      <4>2. prior[Entry.path].kind = "file"
        BY <1>1, <2>1, <4>1, FileForDirectory
      <4> QED  BY <1>1, <2>1, <4>2 DEF Restored, Entry
    <3> QED  BY <3>1, <3>2, <3>3
  <2>4. \A n \in DOMAIN mf : n < i /\ Relevant(mf[n]) => Restored(n)'
    BY <1>1, <1>5, <2>1, <2>2 DEF Progress
  <2> QED  BY <1>1, <1>3, <2>1, <2>3, <2>4 DEF Progress
<1>11. CASE WriteBegin
  <2>1. Grown(dest, dest', TmpDir)
    BY <1>1, <1>11, MkdirFacts, GrownDisturbed DEF WriteBegin
  <2>2. phase = "write" /\ phase' = "append" /\ i' = i
    BY <1>11 DEF WriteBegin, Writing
  <2> QED  BY <1>1, <1>3, <1>5, <2>1, <2>2 DEF Progress
<1>12. CASE AppendChunk
  BY <1>1, <1>7, <1>12 DEF AppendChunk, outcomeVars
<1>13. CASE WriteFinish
  <2>1. /\ i \in DOMAIN mf /\ Entry \in Entries /\ Entry.path \in Tree
        /\ phase = "append" /\ phase' = "write" /\ i' = i + 1
    BY <1>13, WritingFacts DEF WriteFinish, Advance
  <2>2. staged \in Seq(Object) /\ staged = Entry.chunks /\ Entry.kind = "file"
    <3>1. /\ Entry.chunks \in Seq(Object) /\ Len(Entry.chunks) \in Nat
          /\ k = Len(Entry.chunks) + 1 /\ staged = SubSeq(Entry.chunks, 1, k - 1)
          /\ Entry.kind = "file"
      BY <1>13, WritingFacts DEF WriteFinish, IInv, Position
    <3> QED  BY <3>1, SubSeqFull
  <2>3. /\ dest'[Entry.path].kind = "file" /\ dest'[Entry.path].data = staged
        /\ \A q \in Tree \ {Entry.path} : Same(dest, dest', q) \/ dest[q].kind = "none"
    BY <1>1, <1>13, <2>1, <2>2, RenameFacts DEF WriteFinish
  <2>4. Restored(j)'
    BY <1>1, <2>1, <2>2, <2>3 DEF Restored, Entry
  <2>5. ASSUME NEW n \in DOMAIN mf, n < i, Relevant(mf[n])  PROVE Restored(n)'
    <3>1. mf[n].path # Entry.path
      BY <1>1, <1>2, <2>1, <2>5 DEF Entry
    <3>2. Restored(n)
      BY <1>1, <2>1, <2>5 DEF Progress
    <3> QED  BY <1>1, <1>2, <2>3, <3>1, <3>2 DEF Restored, Same
  <2> QED  BY <1>1, <1>3, <2>1, <2>4, <2>5 DEF Progress
<1>14. CASE WriteDone
  <2>1. /\ UNCHANGED <<dest, warn>> /\ phase = "write" /\ i > Len(mf)
        /\ phase' = "meta" /\ i' = Len(mf)
    BY <1>14 DEF WriteDone, destVars, outcomeVars
  <2> QED  BY <1>1, <1>3, <1>4, <2>1 DEF Progress
<1>15. CASE MetaSkip
  <2>1. /\ UNCHANGED <<dest, warn>> /\ phase = "meta" /\ phase' = "meta" /\ i' = i - 1
        /\ ~Relevant(mf[i])
    BY <1>15 DEF MetaSkip, Entry, destVars, outcomeVars
  <2> QED  BY <1>1, <1>3, <1>4, <2>1 DEF Progress
<1>16. CASE MetaApply
  <2>1. /\ i \in DOMAIN mf /\ Entry = mf[i] /\ Entry.path \in Tree
        /\ phase = "meta" /\ phase' = "meta" /\ i' = i - 1
    BY <1>1, <1>2, <1>16 DEF MetaApply, Position, Entry
  <2>2. CASE warn' = TRUE /\ UNCHANGED dest
    <3>1. \A n \in DOMAIN mf : Restored(n)' = Restored(n) /\ Saved(n)'
      BY <1>1, <2>2 DEF Restored, Saved
    <3> QED  BY <1>1, <1>3, <2>1, <3>1 DEF Progress
  <2>3. CASE /\ UNCHANGED warn
             /\ dest' = Disturb([dest EXCEPT ![Entry.path].saved = TRUE], Parent(Entry.path))
    <3>1. /\ \A q \in Tree : Same(dest, dest', q)
          /\ dest'[Entry.path].saved
          /\ \A q \in Tree \ (Parent(Entry.path) \cup {Entry.path}) : dest'[q] = dest[q]
      BY <1>1, <2>1, <2>3, MetaFacts
    <3>2. \A n \in DOMAIN mf : Restored(n)' = Restored(n)
      BY <1>1, <1>2, <3>1 DEF Restored, Same
    <3>3. ASSUME NEW n \in DOMAIN mf, n > i, Relevant(mf[n])  PROVE Saved(n)'
      <4>1. mf[n].path # Entry.path
        BY <1>1, <1>2, <2>1, <3>3
      <4>2. mf[n].path \notin Parent(Entry.path)
        <5> SUFFICES ASSUME mf[n].path \in Parent(Entry.path)  PROVE FALSE
          OBVIOUS
        <5>1. mf[n].path \in Ancestors(Entry.path)
          BY <2>1, ParentIsAncestor
        <5>2. PICK o \in DOMAIN mf : o < i /\ mf[o].path = mf[n].path
          BY <1>1, <1>2, <2>1, <5>1
        <5>3. o = n
          BY <1>1, <1>2, <5>2
        <5> QED  BY <1>1, <3>3, <5>2, <5>3
      <4>3. dest'[mf[n].path] = dest[mf[n].path]
        BY <1>2, <3>1, <4>1, <4>2
      <4> QED  BY <1>1, <2>1, <2>3, <3>3, <4>3 DEF Progress, Saved
    <3>4. Saved(j)'
      BY <1>1, <2>1, <3>1 DEF Saved
    <3> QED  BY <1>1, <1>3, <2>1, <3>2, <3>3, <3>4 DEF Progress
  <2> QED  BY <1>16, <2>2, <2>3 DEF MetaApply
<1>17. CASE MetaDone
  <2>1. UNCHANGED <<dest, warn>> /\ phase = "meta" /\ i = 0 /\ phase' = "done"
    BY <1>17 DEF MetaDone, destVars, outcomeVars
  <2> QED  BY <1>1, <1>3, <1>4, <2>1 DEF Progress
<1>18. CASE Start \/ VerifyChunk \/ VerifyNext \/ WriteUnsafe \/ FaultStep
  <2>1. phase' \in {"verify", "failed"}
    BY <1>18
    DEF Start, VerifyChunk, VerifyNext, WriteUnsafe, FaultStep, FetchFails, WriteClash, WriteFails,
       Stop, Crash, Advance, Fail
  <2> QED  BY <1>6, <2>1
<1>19. CASE Prune \/ (\E o \in Object : Sweep(o) \/ Rot(o)) \/ UNCHANGED vars
  BY <1>7, <1>19 DEF Prune, Sweep, Rot, vars, destVars, posVars, outcomeVars
<1> QED
  BY <1>8, <1>9, <1>10, <1>11, <1>12, <1>13, <1>14, <1>15, <1>16, <1>17, <1>18, <1>19
  DEF Next, RestoreStep

\* For manifests in order the second invariant is inductive beside the first.
THEOREM OrderInductive ==
    ASSUME \A m \in Manifests : InOrder(m)
    PROVE  Spec => [](IInv /\ OrderInv)
<1>1. IInv /\ OrderInv /\ [Next]_vars => OrderInv'
  BY DirectoriesStep, ProgressStep, ClashStep DEF OrderInv
<1>2. Init => OrderInv
  BY InitOrder
<1> QED  BY <1>1, <1>2, Inductive, PTL DEF Spec

\* amisnap_restore_manifest() returning OK: all of the subtree is there, with
\* its content and, but for failures that were counted, its metadata; however
\* many runs were stopped or failed before it.
THEOREM SuccessIsComplete ==
    ASSUME \A m \in Manifests : InOrder(m)
    PROVE  Spec => []SuccessMeansRestored
<1>1. ASSUME IInv, OrderInv  PROVE SuccessMeansRestored
  BY <1>1 DEF OrderInv, Progress, Restored, Saved, SuccessMeansRestored, Entries
<1> QED  BY <1>1, OrderInductive, PTL

\* RESTORE run again over what an earlier run left: none of it is in the way.
THEOREM RerunsAreNotObstructed ==
    ASSUME \A m \in Manifests : InOrder(m)
    PROVE  Spec => []NothingInTheWay
<1>1. OrderInv => NothingInTheWay
  BY DEF OrderInv
<1> QED  BY <1>1, OrderInductive, PTL
=============================================================================
