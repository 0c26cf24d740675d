----------------------------- MODULE Transport -----------------------------
(***************************************************************************)
(* The two connections of transport.h: a plain socket (socket.c) and TLS   *)
(* over it (tls.c).  TLS never does input or output itself: its bytes pass *)
(* through a pair of bounded buffers, and the code below pumps them to and *)
(* from the socket whenever TLS says what it wants.                        *)
(*                                                                         *)
(* The library is a black box that needs the handshake's messages in turn, *)
(* seals what it is given in records and opens a record once it has all of *)
(* it.  On the wire a record is its bytes and a "mac"; "bye" is the        *)
(* close_notify alert, "ticket" a message that carries no data.            *)
(***************************************************************************)
EXTENDS Integers, Sequences, SequencesExt, FiniteSets

CONSTANTS
    Pair,      \* room in either buffer of the BIO pair
    Chunk,     \* TLS_PUMP_CHUNK, the size of pending_in
    BufLen,    \* the buffer recv() is called with
    Byte,      \* what the application sends and receives
    Settings,  \* how the command was called, and the server it meets
    Troubles   \* bound: how often the network fails

\* 4096 bytes, and a pair of 17 kilobytes on either side
ASSUME RoomAssumption ==
    Pair \in Nat /\ Chunk \in 1 .. Pair /\ BufLen \in Nat \ {0} /\ Troubles \in Nat
ASSUME SettingsAssumption ==
    \A c \in Settings : c.tls \in BOOLEAN /\ (c.tls => c.records \subseteq Nat)

VARIABLES
    conf,    \* one of Settings
    sock,    \* the socket: "none", "up", "cut" (reset), "fin" (no more will come)
    wire,    \* what is on its way to the client
    got,     \* what the server has received
    gave,    \* how many flights of the handshake it has sent
    out,     \* the pair's buffer towards the network
    in,      \* the pair's buffer towards TLS
    pend,    \* pending_in from pending_in_off on
    tls,     \* the state of the library
    at,      \* where the call under way is
    job,     \* which call
    todo,    \* what send() has still to seal
    want,    \* TLS wants to read (or else to write)
    reply,   \* what the last call returned
    trouble, \* failures of the network so far
    asked,   \* history: what send() was given on this connection
    said,    \* history: what the server's application has sent on it
    bye,     \* history: the server has closed it in order
    heard,   \* history: what recv() has returned from it
    blame    \* history: something failed during this connection

bufVars == <<out, in, pend, tls>>
streamHist == <<asked, said, bye, heard>>
transportVars == <<conf, sock, wire, got, gave, bufVars, at, job, todo, want, reply, trouble, streamHist, blame>>

Pending == [rc |-> "pending"]
Said(rc) == [rc |-> rc]
Data(d) == [rc |-> "ok", data |-> d]

\* The handshake as the client sees it: it sends some, and waits for others.
Script == <<"hello", "sh", "cert", "fin", "sfin">>
Sends(u) == u \in {"hello", "fin"}
Handshakes == {"hello", "sh", "cert", "fin", "sfin"}

Fresh0 == [step |-> 1, rec |-> <<>>, plain |-> <<>>, shut |-> FALSE]
Needs(u) == tls.step <= Len(Script) /\ Script[tls.step] = u
Marks == Handshakes \cup {"mac", "bye", "ticket"}
ASSUME MarkAssumption == Byte \cap Marks = {}
Only(s, K) == FlattenSeq([i \in DOMAIN s |-> IF s[i] \in K THEN <<s[i]>> ELSE <<>>])
App(s) == Only(s, Byte)      \* the application's bytes among the library's

\* amisnap_tls_lib_open(): without the certificates verification cannot be
\* set up, and the command does not start.
LibOpens(c) == ~c.tls \/ c.insecure \/ c.certs

\* SSL_CTX_set_verify(), SSL_set1_host() and the lowest and highest version
AcceptsAny(c) ==             \* mutant: SSL_set1_host() is left out
    c.insecure \/ c.trusted
Accepts(c) == c.insecure \/ (c.trusted /\ c.named)
Versions(c) == IF c.allow13 THEN {12, 13} ELSE {12}
Agrees(c) == c.speaks \cap Versions(c) # {}

-----------------------------------------------------------------------------
(* Calls begin when no other is under way.                                 *)

Start(j, s) == at = "idle" /\ at' = s /\ job' = j /\ reply' = Pending
Answer(r) == at' = "idle" /\ reply' = r

\* tp_connect(): a TCP connection, and for TLS the handshake
Connect ==
    /\ Start("connect", IF conf.tls THEN "op" ELSE "up") /\ sock = "none"
    /\ sock' = "up" /\ wire' = <<>> /\ got' = <<>> /\ gave' = 0
    /\ out' = <<>> /\ in' = <<>> /\ pend' = <<>> /\ tls' = Fresh0
    /\ asked' = <<>> /\ said' = <<>> /\ bye' = FALSE /\ heard' = <<>>
    /\ UNCHANGED <<conf, todo, want, trouble, blame>>

\* No route, no name, nobody listening; or no memory for the handle
ConnectFails ==
    /\ at = "idle" /\ sock = "none"
    /\ Answer(Said("error")) /\ job' = "connect"
    /\ blame' = TRUE
    /\ UNCHANGED <<conf, sock, wire, got, gave, bufVars, todo, want, trouble, streamHist>>

Send(d) ==
    /\ Start("send", IF conf.tls THEN "op" ELSE "write")
    /\ todo' = IF conf.tls THEN Append(d, "mac") ELSE d
    /\ asked' = asked \o d
    /\ UNCHANGED <<conf, sock, wire, got, gave, bufVars, want, trouble, said, bye, heard, blame>>

Recv ==
    /\ Start("recv", IF conf.tls THEN "op" ELSE "read")
    /\ UNCHANGED <<conf, sock, wire, got, gave, bufVars, todo, want, trouble, streamHist, blame>>

\* tp_close(): SSL_shutdown() queues its alert if there is room for it.
Close ==
    /\ Start("close", IF conf.tls THEN "bye" ELSE "gone")
    /\ out' = IF conf.tls /\ Len(out) < Pair THEN Append(out, "bye") ELSE out
    /\ UNCHANGED <<conf, sock, wire, got, gave, in, pend, tls, todo, want, trouble, streamHist, blame>>

-----------------------------------------------------------------------------
(* tls_run(): the library works until it is done or wants the network.     *)

Outgoing ==                  \* what it has to write next, or <<>>
    CASE job = "connect" /\ tls.step <= Len(Script) /\ Sends(Script[tls.step]) ->
           <<Script[tls.step]>>
      [] job = "send" /\ todo # <<>> -> <<Head(todo)>>
      [] OTHER -> <<>>

Reading == \/ job = "connect" /\ tls.step <= Len(Script) /\ ~Sends(Script[tls.step])
           \/ job = "recv" /\ tls.plain = <<>> /\ ~tls.shut

Queue ==
    /\ at = "op" /\ Outgoing # <<>> /\ Len(out) < Pair
    /\ out' = out \o Outgoing
    /\ IF job = "send" THEN todo' = Tail(todo) /\ UNCHANGED tls
       ELSE tls' = [tls EXCEPT !.step = @ + 1] /\ UNCHANGED todo
    /\ UNCHANGED <<conf, sock, wire, got, gave, in, pend, at, job, want, reply, trouble, streamHist, blame>>

Opened(u) ==
    CASE u = "mac" -> [tls EXCEPT !.plain = tls.rec, !.rec = <<>>]
      [] u = "bye" -> [tls EXCEPT !.shut = TRUE]
      [] u = "ticket" -> tls
      [] u \in Handshakes -> [tls EXCEPT !.step = @ + 1]
      [] OTHER -> [tls EXCEPT !.rec = Append(@, u)]

Refuses(u) == \/ u = "sh" /\ ~Agrees(conf)
              \/ u = "cert" /\ ~Accepts(conf)
              \/ job = "connect" /\ ~Needs(u)

Take ==
    /\ at = "op" /\ Reading /\ in # <<>> /\ ~Refuses(Head(in))
    /\ in' = Tail(in) /\ tls' = Opened(Head(in))
    /\ UNCHANGED <<conf, sock, wire, got, gave, out, pend, at, job, todo, want, reply, trouble, streamHist, blame>>

Wants ==
    /\ at = "op"
    /\ \/ Outgoing # <<>> /\ Len(out) = Pair /\ want' = FALSE
       \/ Reading /\ in = <<>> /\ want' = TRUE
    /\ at' = "pump"
    /\ UNCHANGED <<conf, sock, wire, got, gave, bufVars, job, todo, reply, trouble, streamHist, blame>>

\* The operation succeeds; the end of the connection is a success of recv()
\* that tells by SSL_ERROR_ZERO_RETURN.
Done ==
    /\ at = "op" /\ Outgoing = <<>> /\ ~Reading
    /\ IF job = "send" THEN at' = "tail" /\ UNCHANGED <<tls, heard, reply>>
       ELSE IF job = "connect" THEN Answer(Said("ok")) /\ UNCHANGED <<tls, heard>>
       ELSE LET n == IF BufLen < Len(tls.plain) THEN BufLen ELSE Len(tls.plain) IN
            /\ Answer(Data(SubSeq(tls.plain, 1, n)))
            /\ heard' = heard \o SubSeq(tls.plain, 1, n)
            /\ tls' = [tls EXCEPT !.plain = SubSeq(@, n + 1, Len(@))]
    /\ UNCHANGED <<conf, sock, wire, got, gave, out, in, pend, job, todo, want, trouble, asked, said,
                   bye, blame>>

\* The call fails.  A handshake that fails closes the socket; a recv() looks at
\* a result that was never set when it was the pump that failed.
FailsOpen ==                 \* mutant: a failed handshake leaves the socket
    UNCHANGED <<job, sock>> /\ Answer(Said("error"))

Fails ==
    /\ job' = job
    /\ IF job = "connect" THEN sock' = "none" /\ Answer(Said("error"))
       ELSE /\ \E r \in {-1, 0, 1} :
                  Answer(IF job = "recv" /\ r <= 0 /\ tls.shut THEN Data(<<>>) ELSE Said("error"))
            /\ UNCHANGED sock

Refused ==
    /\ at = "op" /\ Reading /\ in # <<>> /\ Refuses(Head(in))
    /\ Fails /\ blame' = TRUE
    /\ UNCHANGED <<conf, wire, got, gave, bufVars, todo, want, trouble, streamHist>>

-----------------------------------------------------------------------------
(* tls_pump(): first out, then in, then the socket.                        *)

\* tls_flush_out(): a chunk at a time until nothing is left
FlushOutWanted ==            \* mutant: only if TLS wants to write
    /\ at = "pump"
    /\ IF want THEN UNCHANGED <<out, got>> ELSE got' = got \o out /\ out' = <<>>
    /\ at' = "fill"
    /\ UNCHANGED <<conf, sock, wire, gave, in, pend, tls, job, todo, want, reply, trouble,
                   streamHist, blame>>

FlushOut ==
    /\ at \in {"pump", "tail", "bye"}
    /\ IF out # <<>>
       THEN LET n == IF Chunk < Len(out) THEN Chunk ELSE Len(out) IN
            /\ sock # "cut"
            /\ got' = got \o SubSeq(out, 1, n) /\ out' = SubSeq(out, n + 1, Len(out))
            /\ UNCHANGED <<at, reply>>
       ELSE /\ UNCHANGED <<out, got>>
            /\ CASE at = "pump" -> at' = "fill" /\ UNCHANGED reply
                 [] at = "tail" -> Answer(Said("ok"))
                 [] OTHER -> at' = "gone" /\ UNCHANGED reply
    /\ UNCHANGED <<conf, sock, wire, gave, in, pend, tls, job, todo, want, trouble, streamHist, blame>>

FlushFails ==
    /\ at \in {"pump", "tail", "bye"} /\ out # <<>> /\ sock = "cut"
    /\ out' = SubSeq(out, Chunk + 1, Len(out))
    /\ IF at = "bye" THEN at' = "gone" /\ UNCHANGED <<sock, reply, job>>
       ELSE Fails
    /\ UNCHANGED <<conf, wire, got, gave, in, pend, tls, todo, want, trouble, streamHist, blame>>

\* tls_flush_in(): as much of pending_in as there is room for.  Were some of it
\* left, the next round would put it in and wait for more at once, with all that
\* the library needs already in the pair; RoomAssumption is why it never is.
Fill ==
    LET room == Pair - Len(in)
        n == IF room < Len(pend) THEN room ELSE Len(pend)
    IN  /\ at = "fill"
        /\ in' = in \o SubSeq(pend, 1, n) /\ pend' = SubSeq(pend, n + 1, Len(pend))
        /\ at' = IF want /\ pend' = <<>> THEN "read" ELSE "op"
        /\ UNCHANGED <<conf, sock, wire, got, gave, out, tls, job, todo, want, reply, trouble,
                       streamHist, blame>>

\* recv() of the socket: whatever has arrived, up to the size of the buffer
Read ==
    /\ at = "read" /\ wire # <<>> /\ sock # "cut"
    /\ \E n \in 1 .. (IF conf.tls THEN Chunk ELSE BufLen) :
          /\ n <= Len(wire)
          /\ wire' = SubSeq(wire, n + 1, Len(wire))
          /\ IF conf.tls
             THEN /\ pend' = SubSeq(wire, 1, n) /\ want' = FALSE /\ at' = "fill"
                  /\ UNCHANGED <<heard, reply>>
             ELSE /\ Answer(Data(SubSeq(wire, 1, n)))
                  /\ heard' = heard \o SubSeq(wire, 1, n)
                  /\ UNCHANGED <<pend, want>>
    /\ UNCHANGED <<conf, sock, got, gave, out, in, tls, job, todo, trouble, asked, said, bye, blame>>

\* Nothing more will come: for TLS always a failure, otherwise the end
FinIsEnd ==                  \* mutant: TLS takes it for the end as well
    /\ at = "read" /\ wire = <<>> /\ sock = "fin"
    /\ Answer(Data(<<>>))
    /\ UNCHANGED <<conf, sock, wire, got, gave, bufVars, job, todo, want, trouble, streamHist, blame>>

Fin ==
    /\ at = "read" /\ wire = <<>> /\ sock = "fin"
    /\ IF conf.tls THEN Fails ELSE Answer(Data(<<>>)) /\ UNCHANGED <<job, sock>>
    /\ UNCHANGED <<conf, wire, got, gave, bufVars, todo, want, trouble, streamHist, blame>>

\* The connection is reset, or has been silent for AMISNAP_SOCKET_TIMEOUT_SECS.
\* It is nobody's fault that the server is slow; a server that waits for what
\* the client holds back is not slow.
ReadWaits ==                 \* mutant: no time limit is set
    /\ at = "read" /\ sock = "cut" /\ Fails
    /\ UNCHANGED <<conf, wire, got, gave, bufVars, todo, want, trouble, streamHist, blame>>

ReadFails ==
    /\ at = "read"
    /\ \/ sock = "cut" /\ Fails /\ UNCHANGED blame
       \/ sock = "up" /\ wire = <<>> /\ Fails /\ blame' = (blame \/ out = <<>>)
    /\ UNCHANGED <<conf, wire, got, gave, bufVars, todo, want, trouble, streamHist>>

\* The plain socket's connect() and send(), and the end of close()
Plain ==
    \/ /\ at = "up" /\ Answer(Said("ok"))
       /\ UNCHANGED <<conf, sock, wire, got, gave, bufVars, job, todo, want, trouble, streamHist, blame>>
    \/ /\ at = "write" /\ sock # "cut"
       /\ \E n \in 0 .. Len(todo) :
             /\ n = 0 <=> todo = <<>>
             /\ got' = got \o SubSeq(todo, 1, n) /\ todo' = SubSeq(todo, n + 1, Len(todo))
             /\ IF n = 0 THEN Answer(Said("ok")) ELSE UNCHANGED <<at, reply>>
       /\ UNCHANGED <<conf, sock, wire, gave, bufVars, job, want, trouble, streamHist, blame>>
    \/ /\ at = "write" /\ sock = "cut" /\ Fails
       /\ UNCHANGED <<conf, wire, got, gave, bufVars, todo, want, trouble, streamHist, blame>>
    \/ /\ at = "gone" /\ Answer(Said("ok")) /\ sock' = "none"
       /\ wire' = <<>> /\ got' = <<>> /\ asked' = <<>> /\ said' = <<>> /\ bye' = FALSE
       /\ heard' = <<>> /\ out' = <<>> /\ in' = <<>> /\ pend' = <<>> /\ tls' = Fresh0
       /\ todo' = <<>>
       /\ UNCHANGED <<conf, gave, job, want, trouble, blame>>

Pump ==
    \/ Queue \/ Take \/ Wants \/ Done \/ Refused \/ FlushOut \/ FlushFails \/ Fill
    \/ Read \/ Fin \/ ReadFails \/ Plain

-----------------------------------------------------------------------------
(* The other end and what lies between.                                    *)

\* The server's side of the handshake; a ticket follows it in TLS 1.3.
Flights(c) == <<<<"sh", "cert">>, IF 13 \in c.speaks \cap Versions(c) THEN <<"sfin", "ticket">>
                                  ELSE <<"sfin">>>>
Greet ==
    /\ sock = "up" /\ conf.tls
    /\ \E n \in {1, 2} :
          /\ gave = n - 1 /\ (IF n = 1 THEN "hello" ELSE "fin") \in Range(got)
          /\ gave' = n /\ wire' = wire \o Flights(conf)[n]
    /\ UNCHANGED <<conf, sock, got, bufVars, at, job, todo, want, reply, trouble, streamHist, blame>>

\* The server's application sends d: a record, or several of them.
Sealed(d, n) ==
    IF n >= Len(d) THEN Append(d, "mac")
    ELSE Append(SubSeq(d, 1, n), "mac") \o Append(SubSeq(d, n + 1, Len(d)), "mac")

Speak(d) ==
    /\ sock = "up"
    /\ IF conf.tls THEN \E n \in conf.records : wire' = wire \o Sealed(d, n)
       ELSE wire' = wire \o d
    /\ said' = said \o d
    /\ UNCHANGED <<conf, sock, got, gave, bufVars, at, job, todo, want, reply, trouble, asked, bye,
                   heard, blame>>

\* The server ends the connection in order.
Leave ==
    /\ sock = "up" /\ sock' = "fin" /\ bye' = TRUE
    /\ wire' = IF conf.tls THEN Append(wire, "bye") ELSE wire
    /\ UNCHANGED <<conf, got, gave, bufVars, at, job, todo, want, reply, trouble, asked, said, heard,
                   blame>>

\* The connection is reset, or what is still on its way is lost and it ends.
NetFails ==
    /\ sock = "up" /\ trouble < Troubles
    /\ trouble' = trouble + 1 /\ blame' = TRUE
    /\ \/ sock' = "cut" /\ UNCHANGED wire
       \/ sock' = "fin" /\ \E n \in 0 .. Len(wire) : wire' = SubSeq(wire, 1, n)
    /\ UNCHANGED <<conf, got, gave, bufVars, at, job, todo, want, reply, streamHist>>

-----------------------------------------------------------------------------
TransportInit ==
    /\ conf \in {c \in Settings : LibOpens(c)}
    /\ sock = "none" /\ wire = <<>> /\ got = <<>> /\ gave = 0
    /\ out = <<>> /\ in = <<>> /\ pend = <<>> /\ tls = Fresh0
    /\ at = "idle" /\ job = "none" /\ todo = <<>> /\ want = FALSE /\ reply = Said("none")
    /\ trouble = 0 /\ asked = <<>> /\ said = <<>> /\ bye = FALSE /\ heard = <<>> /\ blame = FALSE

Link ==
    IF sock = "none" \/ job = "close" \/ (job = "connect" /\ reply # Said("ok")) THEN "none"
    ELSE IF at = "idle" /\ reply = Said("error") THEN "broken"
    ELSE IF at = "idle" /\ job = "recv" /\ reply = Data(<<>>) THEN "ended"
    ELSE "open"

Contract == INSTANCE ByteStream WITH
    link <- Link, secure <- conf.tls,
    told <- IF Link = "none" THEN <<>> ELSE asked,
    reached <- IF Link = "none" THEN <<>> ELSE App(got),
    said <- IF Link = "none" THEN <<>> ELSE said,
    bye <- Link # "none" /\ bye,
    heard <- IF Link = "none" THEN <<>> ELSE heard

\* The bytes on the connection, for the types.
TransportTypeOK ==
    /\ sock \in {"none", "up", "cut", "fin"}
    /\ Len(out) <= Pair /\ Len(in) <= Pair /\ Len(pend) <= Chunk
    /\ at \in {"idle", "op", "pump", "tail", "bye", "fill", "read", "up", "write", "gone"}
    /\ at # "idle" <=> reply = Pending
    /\ at # "idle" => sock # "none"
    /\ tls.step \in 1 .. Len(Script) + 1
    /\ job \in {"send", "recv"} /\ conf.tls => tls.step > Len(Script)
    /\ want \in BOOLEAN /\ blame \in BOOLEAN /\ trouble \in 0 .. Troubles
=============================================================================
