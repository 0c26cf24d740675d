---------------------------- MODULE MCDirBackend ----------------------------
(***************************************************************************)
(* Two processes, each with a key of its own; the keys have one basename.  *)
(***************************************************************************)
EXTENDS DirBackend, TLC

CONSTANTS c1, c2, b1, b2

Inner == <<"d", "x">>
Outer == <<"x">>
MCKey == {Inner, Outer}
MCOwner == (Inner :> c1) @@ (Outer :> c2)
MCStage == (Inner :> "x.1") @@ (Outer :> "x.2")
MCOps == (c1 :> {"put", "stream", "get", "exists", "remove", "list", "mkcol"})
         @@ (c2 :> {"put", "get", "sweep"})
MCContent == {<<b1>>, <<b1, b2>>}
=============================================================================
