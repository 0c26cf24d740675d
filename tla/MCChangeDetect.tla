--------------------------- MODULE MCChangeDetect ---------------------------
(***************************************************************************)
(* ChangeDetect on a small instance.  Files are interchangeable, and so    *)
(* are the protection bits.                                                *)
(***************************************************************************)
EXTENDS ChangeDetect, TLC

CONSTANTS f1, f2, rw, ro

Symmetry == Permutations(File) \cup Permutations(Prot)
=============================================================================
