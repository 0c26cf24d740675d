------------------------------- MODULE MCUaem -------------------------------
(***************************************************************************)
(* Trees for ACTION=APPLYUAEM, and the walk over them by itself, whose OK  *)
(* is held against what applyuaem.h says of it.                            *)
(***************************************************************************)
EXTENDS Uaem, TLC

\* A file and a directory of one name, sidecars of neither, and one that is
\* all extension; a sidecar of a directory, one that does not parse, one alone.
X == <<"x">>
Y == <<"y">>
XU == <<"x", "uaem">>
Dir == <<"dir">>
Plain == <<"file">>
Tree1 ==
    <<>> :> Dir @@ <<X>> :> Plain @@ <<XU>> :> <<"sidecar", "one", TRUE>>
        @@ <<Y>> :> Dir @@ <<Y, X>> :> Plain @@ <<Y, XU>> :> <<"sidecar", "two", FALSE>>
        @@ <<<<"uaem">>>> :> <<"sidecar", "three", FALSE>>
Tree2 ==
    <<>> :> Dir @@ <<X>> :> Dir @@ <<XU>> :> <<"sidecar", "one", TRUE>>
        @@ <<X, XU>> :> <<"sidecar", "unparsable", FALSE>> @@ <<X, X>> :> Plain
        @@ <<<<"y", "uaem">>>> :> <<"sidecar", "two", FALSE>>
\* Nothing but a sidecar whose entry is gone.
Tree3 == <<>> :> Dir @@ <<XU>> :> <<"sidecar", "one", TRUE>>
MCTrees == {Tree1, Tree2, Tree3}

UaemSpec == UaemInit /\ [][WalkNext]_uaemVars
=============================================================================
