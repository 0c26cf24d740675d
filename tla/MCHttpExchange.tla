--------------------------- MODULE MCHttpExchange ---------------------------
(***************************************************************************)
(* Two exchanges over a plain socket and over TLS with various servers;    *)
(* answers with a length, in chunks, without a body and out of order.      *)
(***************************************************************************)
EXTENDS HttpExchange

Plainly == [tls |-> FALSE]
Tls(insecure, trusted, named, allow13, speaks, records) ==
    [tls |-> TRUE, insecure |-> insecure, certs |-> ~insecure, trusted |-> trusted,
     named |-> named, allow13 |-> allow13, speaks |-> speaks, records |-> records]
MCSettings ==
    {Plainly,
     Tls(FALSE, TRUE, TRUE, FALSE, {12, 13}, {4}),  \* the usual case
     Tls(FALSE, TRUE, TRUE, TRUE, {12, 13}, {20}),      \* TLS13
     Tls(TRUE, FALSE, FALSE, FALSE, {12}, {20}),        \* TLSINSECURE
     Tls(FALSE, TRUE, FALSE, FALSE, {12}, {20}),        \* another host's certificate
     Tls(FALSE, FALSE, TRUE, FALSE, {12}, {20}),        \* nobody's certificate
     Tls(FALSE, TRUE, TRUE, FALSE, {11, 13}, {20})}     \* no version in common

Eol == <<"cr", "lf">>
Status(code) == <<"HTTP", "sp">> \o code \o Eol
Ok == Status(<<"2", "0", "0">>)
Length(ds) == <<"Content-Length", ":", "sp">> \o ds \o Eol
Chunked == <<"Transfer-Encoding", ":", "chunked">> \o Eol
Good(bytes, code, body, unframed) ==
    [bytes |-> bytes, means |-> [code |-> code, body |-> body, unframed |-> unframed]]
Broke(bytes) == [bytes |-> bytes, means |-> Unreadable]

MCAnswers ==
    {Good(Ok \o Length(<<"0", "3">>) \o Eol \o <<"lf", "cr", "x">>, 200, <<"lf", "cr", "x">>, FALSE),
     Good(Ok \o Chunked \o Eol \o <<"2">> \o Eol \o <<"x", "lf">> \o Eol \o <<"1", ";">> \o Eol
             \o <<"y">> \o Eol \o <<"0">> \o Eol \o <<"T", ":", "t">> \o Eol \o Eol,
          200, <<"x", "lf", "y">>, FALSE),
     Good(Status(<<"2", "0", "4">>) \o Eol, 204, <<>>, TRUE),
     Broke(Ok \o Length(<<"2", "x">>) \o Eol \o <<"x", "y">>),
     Broke(Ok \o Chunked \o Eol \o <<"1">> \o Eol \o <<"x", "y">> \o Eol),
     Broke(Ok \o Length(<<"3", "2">>) \o Eol),
     [bytes |-> Ok \o Length(<<"2">>) \o Eol \o <<"x">>, means |-> Failed]}

MCByte ==
    {"cr", "lf", "HTTP", "sp", "Content-Length", ":", "Transfer-Encoding", "chunked", "x", "y", "T", "t", ";",
     "GET", "PUT", "Host", "keep-alive", "eol", "eoh", "p", "q",
     "0", "1", "2", "3", "4", "5", "6", "7", "8", "9", "a", "b", "c", "d", "e", "f"}

MCAsk ==
    {[m |-> "PUT", path |-> <<"a">>, extra |-> <<>>, body |-> <<"p">>],
     [m |-> "GET", path |-> <<"a", "b", "c">>, extra |-> <<>>, body |-> <<>>]}
=============================================================================
