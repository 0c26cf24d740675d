---------------------------- MODULE MCRepoFormat ----------------------------
(***************************************************************************)
(* RepoFormat on a small instance.  Processes, objects, keys and           *)
(* passphrases are interchangeable.                                        *)
(***************************************************************************)
EXTENDS RepoFormat, TLC

Encrypted == [cipher |-> TRUE, framed |-> FALSE]
Compressed == [cipher |-> FALSE, framed |-> TRUE]
Both == [cipher |-> TRUE, framed |-> TRUE]

AllFormats == {Encrypted, Compressed, Both}
OnlyEncrypted == {Encrypted}

Symmetry ==
    Permutations(Proc) \cup Permutations(Object) \cup Permutations(Key)
        \cup Permutations(Pass)
=============================================================================
