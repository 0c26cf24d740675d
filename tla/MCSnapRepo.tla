----------------------------- MODULE MCSnapRepo -----------------------------
(***************************************************************************)
(* SnapRepo on a small instance.  Processes and objects are                *)
(* interchangeable, so the safety runs use their permutations.             *)
(***************************************************************************)
EXTENDS SnapRepo, TLC

Symmetry == Permutations(Proc) \cup Permutations(Object)
=============================================================================
