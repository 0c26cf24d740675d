----------------------------- MODULE ByteStream -----------------------------
(***************************************************************************)
(* What transport.h promises of a connection: the peer receives the bytes  *)
(* that were sent, in order; recv() hands out what the peer has said, in   *)
(* order and each byte once, in pieces of any size; and an orderly end is  *)
(* reported only when the peer has ended and everything has been handed    *)
(* out.  Without TLS a lost connection may look like such an end.          *)
(***************************************************************************)
EXTENDS Sequences, SequencesExt

VARIABLES
    link,     \* "none", "open", "ended" or "broken"
    secure,   \* the connection is authenticated: nobody else can end it
    told,     \* what send() was given
    reached,  \* what has reached the peer
    said,     \* what the peer has sent
    bye,      \* the peer has ended the connection
    heard     \* what recv() has handed out

streamVars == <<link, secure, told, reached, said, bye, heard>>

StreamInit ==
    /\ link = "none" /\ secure \in BOOLEAN /\ bye = FALSE
    /\ told = <<>> /\ reached = <<>> /\ said = <<>> /\ heard = <<>>

\* tp_connect(), from whatever became of the connection before
Connected ==
    /\ link \in {"none", "broken"} /\ link' = "open" /\ bye' = FALSE
    /\ told' = <<>> /\ reached' = <<>> /\ said' = <<>> /\ heard' = <<>>
    /\ UNCHANGED secure

Tell ==
    /\ link = "open" /\ IsStrictPrefix(told, told')
    /\ UNCHANGED <<link, secure, reached, said, bye, heard>>

Reach ==
    /\ link # "none" /\ IsStrictPrefix(reached, reached') /\ IsPrefix(reached', told)
    /\ UNCHANGED <<link, secure, told, said, bye, heard>>

Say ==
    /\ ~bye /\ IsPrefix(said, said')
    /\ UNCHANGED <<link, secure, told, reached, heard>>

Hear ==
    /\ link = "open" /\ IsStrictPrefix(heard, heard') /\ IsPrefix(heard', said)
    /\ UNCHANGED <<link, secure, told, reached, said, bye>>

End ==
    /\ link = "open" /\ link' = "ended"
    /\ secure => bye /\ heard = said
    /\ UNCHANGED <<secure, told, reached, said, bye, heard>>

\* A call fails; after that only tp_close() is of use.
Break ==
    /\ link = "open" /\ link' = "broken"
    /\ UNCHANGED <<secure, told, reached, said, bye, heard>>

Hangup ==
    /\ link' = "none" /\ UNCHANGED secure
    /\ told' = <<>> /\ reached' = <<>> /\ said' = <<>> /\ heard' = <<>> /\ bye' = FALSE

StreamNext ==
    Connected \/ Tell \/ Reach \/ Say \/ Hear \/ End \/ Break \/ Hangup
StreamSpec == StreamInit /\ [][StreamNext]_streamVars
=============================================================================
