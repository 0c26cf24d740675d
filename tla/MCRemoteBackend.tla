-------------------------- MODULE MCRemoteBackend --------------------------
(***************************************************************************)
(* Two objects in one directory, contents of one chunk and of three, parts *)
(* of two chunks, pages of one name.                                       *)
(***************************************************************************)
EXTENDS RemoteBackend

CONSTANTS a, x, y, c1, c2

MCKey == {<<a, x>>, <<a, y>>}
MCContent == {<<c1>>, <<c1, c2, c2>>}
=============================================================================
