------------------------------ MODULE Exclude ------------------------------
(***************************************************************************)
(* The exclude list of a snapshot (exclude.c): a file of one pattern a     *)
(* line, read into a list, and the question scan.c asks it of every entry  *)
(* before it is captured.  A text is a sequence of characters; a tab is a  *)
(* blank, and the carriage return at the end of a line is left out.        *)
(***************************************************************************)
EXTENDS Integers, Sequences, SequencesExt, Functions

CONSTANTS
    LineChars,   \* what a line may be made of
    MaxLine,     \* and how long it may be
    Paths        \* the paths asked about: texts without empty components

\* A path is made of a filesystem's names (scan.c), and none of them is empty.
ASSUME PathsAssumption ==
    \A path \in Paths :
        /\ path \in Seq(STRING)
        /\ \A i \in 1 .. Len(path) + 1 :
              ~ ((i = 1 \/ path[i - 1] = "/") /\ (i = Len(path) + 1 \/ path[i] = "/"))

VARIABLE
    line         \* a line of the exclude file as far as it was typed

Lower == <<"a", "b">>
Upper == <<"A", "B">>
Folded(c) == IF c \in Range(Lower) THEN Upper[CHOOSE i \in DOMAIN Lower : Lower[i] = c] ELSE c
SameLetter(c, d) == Folded(c) = Folded(d)

-----------------------------------------------------------------------------
(* Reading a line.                                                         *)

Stripped(t) ==
    LET inked == {i \in DOMAIN t : t[i] # " "}
    IN  IF inked = {} THEN <<>> ELSE SubSeq(t, Min(inked), Max(inked))

TokenAt(t, i) == i < Len(t) /\ t[i] = "#" /\ t[i + 1] = "?"
IsCommentHash(t) == t = <<>> \/ t[1] = "#"    \* mutant: '#?' starts a comment
IsComment(t) == t = <<>> \/ (t[1] = "#" /\ ~TokenAt(t, 1))

\* AmigaDOS writes '#?' for '*'.
Normal(t) ==
    LET from[i \in 1 .. Len(t) + 1] ==
            CASE i > Len(t) -> <<>>
              [] TokenAt(t, i) -> <<"*">> \o from[i + 2]
              [] OTHER -> <<t[i]>> \o from[i + 1]
    IN  from[1]

\* The pattern of a line, as a set of none or one.
Pattern(l) ==
    LET t == Stripped(l)
        n == Normal(t)
        dirOnly == n # <<>> /\ Last(n) = "/"
        body == IF dirOnly THEN Front(n) ELSE n
        rooted == body # <<>> /\ Head(body) = "/"
        text == IF rooted THEN Tail(body) ELSE body
    IN  IF IsComment(t) \/ text = <<>> THEN {}
        ELSE {[text |-> text, dirOnly |-> dirOnly, anchored |-> rooted \/ "/" \in Range(text)]}

Patterns(lines) == UNION {Pattern(l) : l \in lines}

-----------------------------------------------------------------------------
(* Matching one component: one pass over the name, with the last star to   *)
(* come back to.  A position that is 0 is no star yet.                     *)

GlobMatchNoMark(p, s) ==     \* mutant: goes on where it failed
    LET from[pi \in 1 .. Len(p) + 1, si \in 1 .. Len(s) + 1, star \in 0 .. Len(p)] ==
            IF si > Len(s) THEN \A i \in pi .. Len(p) : p[i] = "*"
            ELSE IF pi <= Len(p) /\ (p[pi] = "?" \/ SameLetter(p[pi], s[si]))
                 THEN from[pi + 1, si + 1, star]
            ELSE IF pi <= Len(p) /\ p[pi] = "*" THEN from[pi + 1, si, pi]
            ELSE star # 0 /\ from[star + 1, si + 1, star]
    IN  from[1, 1, 0]

GlobStates(p, s) ==          \* a star lies behind, and so does what it was matched up to
    {x \in (1 .. Len(p) + 1) \X (1 .. Len(s) + 1) \X (0 .. Len(p)) \X (0 .. Len(s) + 1) :
        x[3] < x[1] /\ x[4] <= x[2]}
GlobMatchOne(p, s) ==
    LET from[x \in GlobStates(p, s)] ==
            LET pi == x[1]
                si == x[2]
                star == x[3]
                mark == x[4]
            IN  IF si > Len(s) THEN \A i \in pi .. Len(p) : p[i] = "*"
                ELSE IF pi <= Len(p) /\ (p[pi] = "?" \/ SameLetter(p[pi], s[si]))
                     THEN from[<<pi + 1, si + 1, star, mark>>]
                ELSE IF pi <= Len(p) /\ p[pi] = "*" THEN from[<<pi + 1, si, pi, si>>]
                ELSE star # 0 /\ from[<<star + 1, mark + 1, star, mark + 1>>]
    IN  from[<<1, 1, 0, 0>>]

\* The components of a text: each goes to the next '/'.
NextCut(t, i) == Min({j \in i .. Len(t) : t[j] = "/"} \cup {Len(t) + 1})
Components(t) ==
    LET from[i \in 1 .. Len(t) + 1] ==
            <<SubSeq(t, i, NextCut(t, i) - 1)>> \o
                (IF NextCut(t, i) > Len(t) THEN <<>> ELSE from[NextCut(t, i) + 1])
    IN  from[1]

MatchesAnchored(p, path) ==
    LET pc == Components(p)
        sc == Components(path)
    IN  Len(pc) = Len(sc) /\ \A i \in DOMAIN pc : GlobMatchOne(pc[i], sc[i])

MatchesAnyComponent(p, path) ==
    path # <<>> /\ \E c \in Range(Components(path)) : GlobMatchOne(p, c)

\* amisnap_exclude_match
ExcludedDirsToo(list, path, isDir) ==    \* mutant: a trailing '/' is only dropped
    \E p \in list : IF p.anchored THEN MatchesAnchored(p.text, path)
                                  ELSE MatchesAnyComponent(p.text, path)
Excluded(list, path, isDir) ==
    \E p \in list :
        /\ p.dirOnly => isDir
        /\ IF p.anchored THEN MatchesAnchored(p.text, path)
                         ELSE MatchesAnyComponent(p.text, path)

-----------------------------------------------------------------------------
(* The file is typed by hand, a character after the other.                 *)

ExcludeInit == line = <<>>
ExcludeNext == Len(line) < MaxLine /\ \E c \in LineChars : line' = Append(line, c)

-----------------------------------------------------------------------------
(* What exclude.h says a line means, token by token.                       *)

Tokens(t) ==
    LET from[i \in 1 .. Len(t) + 1] ==
            IF i = Len(t) + 1 THEN <<>>
            ELSE IF i < Len(t) /\ SubSeq(t, i, i + 1) = <<"#", "?">> THEN <<"*">> \o from[i + 2]
            ELSE <<t[i]>> \o from[i + 1]
    IN  from[1]

\* A star stands for any run of a component's characters, '?' for one: where in
\* the component what is left of a pattern may begin.
Stands(p, s) ==
    LET begins[i \in 1 .. Len(p) + 1] ==
            IF i > Len(p) THEN {Len(s) + 1}
            ELSE IF p[i] = "*" THEN {j \in 1 .. Len(s) + 1 : \E k \in begins[i + 1] : j <= k}
            ELSE {j \in 1 .. Len(s) : (p[i] = "?" \/ SameLetter(p[i], s[j])) /\ j + 1 \in begins[i + 1]}
    IN  1 \in begins[1]

Documented(l, path, isDir) ==
    \E i \in 1 .. Len(l) : \E j \in i .. Len(l) :
        /\ \A k \in (1 .. i - 1) \cup (j + 1 .. Len(l)) : l[k] = " "
        /\ l[i] # " " /\ l[j] # " "
        /\ l[i] = "#" => i < j /\ l[i + 1] = "?"
        /\ LET t == Tokens(SubSeq(l, i, j))
                forDirs == Last(t) = "/"
                pc == Components(IF forDirs THEN Front(t) ELSE t)
                sc == Components(path)
                rooted == Len(pc) > 1 /\ pc[1] = <<>>
                rest == IF rooted THEN Tail(pc) ELSE pc
            IN  /\ forDirs => isDir
                /\ \E c \in Range(pc) : c # <<>>
                /\ IF Len(pc) > 1
                   THEN Len(rest) = Len(sc) /\ \A k \in DOMAIN sc : Stands(rest[k], sc[k])
                   ELSE \E c \in Range(sc) : Stands(pc[1], c)

\* A line keeps out what exclude.h says it keeps out, and nothing else: of a
\* source's entries whose names hold no '*' (exclude.c compares a '*' of the
\* pattern with the name's character before it takes it for a wildcard).
ExcludesAsDocumented ==
    \A path \in {q \in Paths : "*" \notin Range(q)} : \A isDir \in BOOLEAN :
        Excluded(Pattern(line), path, isDir) <=> Documented(line, path, isDir)
=============================================================================
