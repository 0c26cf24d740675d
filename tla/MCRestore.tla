----------------------------- MODULE MCRestore -----------------------------
(***************************************************************************)
(* Restore on small snapshots: a directory with a chunked file, a second   *)
(* file that shares a chunk, an empty file, a link, a directory and a file *)
(* named like the staging directory, and a path that is not safe.          *)
(***************************************************************************)
EXTENDS Restore

CONSTANTS o1, o2

D(p) == [path |-> p, kind |-> "dir", chunks |-> <<>>, safe |-> TRUE]
F(p, c) == [path |-> p, kind |-> "file", chunks |-> c, safe |-> TRUE]
L(p) == [path |-> p, kind |-> "link", chunks |-> <<>>, safe |-> TRUE]
U(p, c) == [path |-> p, kind |-> "file", chunks |-> c, safe |-> FALSE]

MCTree == {<<>>, <<"a">>, <<"a", "x">>, <<"b">>, <<"tmp">>}

Nested == <<D(<<>>), D(<<"a">>), F(<<"a", "x">>, <<o1, o2>>), F(<<"b">>, <<o1>>)>>
Odd == <<D(<<>>), D(<<"tmp">>), D(<<"a">>), L(<<"a", "x">>), F(<<"b">>, <<>>)>>
Unsafe == <<D(<<>>), F(<<"b">>, <<o2>>), U(<<"a">>, <<o1>>)>>
RootTmp == <<D(<<>>), D(<<"a">>), F(<<"a", "x">>, <<o1>>), F(<<"tmp">>, <<o2>>)>>

Empty == [p \in MCTree |-> IF p = Root THEN Dir ELSE Nothing]
OldFile == [Empty EXCEPT ![<<"b">>] = FileOf(<<o2, o2>>)]
OldTmp == [Empty EXCEPT ![TmpDir] = FileOf(<<o2>>)]
OldDir == [Empty EXCEPT ![<<"a">>] = FileOf(<<o2>>)]

Snapshots == {Nested, Odd, Unsafe, RootTmp}
AllSubtrees == {<<>>, <<"a">>, <<"a", "x">>, <<"b">>}
Destinations == {Empty, OldFile, OldTmp, OldDir}

ASSUME SnapshotsInOrder == \A m \in Snapshots : InOrder(m)
=============================================================================
