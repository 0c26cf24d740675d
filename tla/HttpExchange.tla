---------------------------- MODULE HttpExchange ----------------------------
(***************************************************************************)
(* One request and its answer over a transport: http.c builds the request  *)
(* and parses the answer from whatever pieces recv() returns, and          *)
(* webdav_exchange() and s3_exchange_ex() send it over the connection that *)
(* was kept, and once more over a fresh one if that has become useless.    *)
(***************************************************************************)
EXTENDS Transport, HttpParser

CONSTANTS
    Ask,       \* requests: records of a method, a path, extra headers, a body
    Answers,   \* answers: their bytes and what they mean
    MaxLine,   \* the longest line of a request: 256 bytes less the NUL
    Exchanges  \* bound: how many are made

Unreadable == [st |-> "refused"]

VARIABLES
    ask,      \* the request, or NoAsk between two exchanges
    resp,     \* the parser's state
    phase,    \* where the exchange is
    fresh,    \* the connection was opened for this attempt
    attempt,  \* 0 or 1
    made,     \* exchanges begun
    outcome,  \* what the last exchange returned
    served,   \* history: requests the server's application has got
    answer    \* history: its last answer

xVars == <<ask, resp, phase, fresh, attempt, made, outcome, served, answer>>
vars == <<transportVars, xVars>>

NoAsk == [m |-> "none"]
Failed == [st |-> "failed"]
TooLong == [st |-> "toolong"]
Means(r) == [code |-> r.code, body |-> r.body, unframed |-> r.unframed]

\* What comes of bytes that arrive in one piece, if nothing follows them
Meaning(b) ==
    LET r == Parse(Fresh, b) IN
        CASE r.st = "done" -> Means(r)
          [] r.st = "bad" -> Unreadable
          [] OTHER -> Failed

ASSUME ByteAssumption ==
    {"Host", "Content-Length", "keep-alive", "eol", "eoh"} \cup Range(Digits) \subseteq Byte

\* Servers answer something, and stop where the answer says it ends.  The length
\* of a request's body is one digit here, and nothing but the request's own
\* framing looks like it.
Word == Byte \ {"eoh", "Content-Length"}
ASSUME AnswerAssumption ==
    \A a \in Answers :
        /\ a.bytes \in Seq(Byte) \ {<<>>} /\ a.means = Meaning(a.bytes)
        /\ \A n \in 1 .. Len(a.bytes) - 1 : Parse(Fresh, SubSeq(a.bytes, 1, n)).st # "done"
ASSUME AskAssumption ==
    \A q \in Ask :
        /\ q \in [m : Word, path : Seq(Word), extra : Seq(Seq(Word)), body : Seq(Byte)]
        /\ Len(q.body) < Len(Digits)
ASSUME BoundAssumption == MaxLine \in Nat /\ Exchanges \in Nat

-----------------------------------------------------------------------------
(* amisnap_http_build_request()                                            *)

HeadLines(q) ==
    <<<<q.m>> \o q.path \o <<"eol">>, <<"Host", "eol">>>>
    \o (IF q.body = <<>> THEN <<>> ELSE <<<<"Content-Length", Digits[Len(q.body) + 1], "eol">>>>)
    \o q.extra \o <<<<"keep-alive", "eol", "eoh">>>>
Text(q) == FlattenSeq(HeadLines(q)) \o q.body

BuiltCut(q) ==               \* mutant: what does not fit is cut off
    [ok |-> TRUE,
     text |-> FlattenSeq([i \in 1 .. Len(HeadLines(q)) |->
                  SubSeq(HeadLines(q)[i], 1, IF MaxLine < Len(HeadLines(q)[i])
                                             THEN MaxLine ELSE Len(HeadLines(q)[i]))]) \o q.body]
Built(q) ==
    [ok |-> \A i \in 1 .. Len(HeadLines(q)) : Len(HeadLines(q)[i]) <= MaxLine,
     text |-> Text(q)]

-----------------------------------------------------------------------------
Begin(q) ==
    /\ at = "idle" /\ phase = "none" /\ made < Exchanges
    /\ made' = made + 1
    /\ IF Built(q).ok THEN ask' = q /\ phase' = "top" /\ outcome' = Pending
       ELSE ask' = NoAsk /\ UNCHANGED phase /\ outcome' = TooLong
    /\ attempt' = 0 /\ blame' = FALSE
    /\ UNCHANGED <<conf, sock, wire, got, gave, bufVars, at, job, todo, want, reply, trouble,
                   streamHist, resp, fresh, served, answer>>

\* A connection is kept, or one is made.
Dial ==
    /\ phase = "top" /\ at = "idle"
    /\ fresh' = (sock = "none")
    /\ IF sock = "none" THEN (Connect \/ ConnectFails) /\ phase' = "dialling" /\ served' = <<>>
       ELSE phase' = "send" /\ UNCHANGED <<transportVars, served>>
    /\ UNCHANGED <<ask, resp, attempt, made, outcome, answer>>

Over(o) == phase' = "none" /\ outcome' = o /\ ask' = NoAsk

Dialled ==
    /\ phase = "dialling" /\ at = "idle"
    /\ IF reply = Said("ok") THEN phase' = "send" /\ UNCHANGED <<outcome, ask>> ELSE Over(Failed)
    /\ UNCHANGED <<transportVars, resp, fresh, attempt, made, served, answer>>

SendRequest ==
    /\ phase = "send" /\ Send(Built(ask).text)
    /\ phase' = "sending" /\ resp' = Fresh
    /\ UNCHANGED <<gave, ask, fresh, attempt, made, outcome, served, answer>>

NextPiece ==
    /\ \/ phase = "sending" /\ reply = Said("ok")
       \/ phase = "receiving" /\ reply.rc = "ok" /\ reply.data # <<>>
          /\ Feed(resp, reply.data).st \notin {"done", "bad"}
    /\ Recv
    /\ resp' = IF phase = "sending" THEN resp ELSE Feed(resp, reply.data)
    /\ phase' = "receiving"
    /\ UNCHANGED <<ask, fresh, attempt, made, outcome, served, answer>>

Complete ==
    /\ phase = "receiving" /\ at = "idle" /\ reply.rc = "ok" /\ reply.data # <<>>
    /\ resp' = Feed(resp, reply.data) /\ resp'.st = "done"
    /\ Over(Means(resp'))
    /\ UNCHANGED <<transportVars, fresh, attempt, made, served, answer>>

\* A failed call, an end before the answer's, or an answer that is refused
Broken ==
    /\ at = "idle"
    /\ \/ phase \in {"sending", "receiving"} /\ reply.rc = "error" /\ UNCHANGED resp
       \/ phase = "receiving" /\ reply = Data(<<>>) /\ UNCHANGED resp
       \/ /\ phase = "receiving" /\ reply.rc = "ok" /\ reply.data # <<>>
          /\ resp' = Feed(resp, reply.data) /\ resp'.st = "bad"
    /\ Close
    /\ phase' = "closing"
    /\ UNCHANGED <<ask, fresh, attempt, made, outcome, served, answer>>

\* Only a connection that was kept is worth a second attempt, and only if it
\* was the connection that failed.
AgainNever == FALSE          \* mutant: no second attempt
Again == attempt = 0 /\ ~fresh /\ resp.st # "bad"

Closed ==
    /\ phase = "closing" /\ at = "idle"
    /\ IF Again THEN phase' = "top" /\ attempt' = 1 /\ UNCHANGED <<ask, outcome>>
       ELSE Over(IF resp.st = "bad" THEN Unreadable ELSE Failed) /\ UNCHANGED attempt
    /\ UNCHANGED <<transportVars, resp, fresh, made, served, answer>>

Client ==
    \/ Dial \/ Dialled \/ SendRequest \/ NextPiece \/ Complete \/ Broken \/ Closed
    \/ Pump /\ UNCHANGED xVars

-----------------------------------------------------------------------------
(* The server reads requests one after the other and answers each.         *)

Unread == SubSeq(App(got), Len(FlattenSeq(served)) + 1, Len(App(got)))
BodyLength(s) == LET i == FirstAt(s, "Content-Length") IN
    IF i = 0 THEN 0 ELSE DigitValue(s[i + 1])
Extent == FirstAt(Unread, "eoh") + BodyLength(Unread)
Arrived == FirstAt(Unread, "eoh") # 0 /\ Len(Unread) >= Extent

ServerAnswers ==
    /\ Arrived
    /\ \E a \in Answers : answer' = a /\ Speak(a.bytes)
    /\ served' = Append(served, SubSeq(Unread, 1, Extent))
    /\ UNCHANGED <<ask, resp, phase, fresh, attempt, made, outcome>>

\* It may close a connection that has been used and is idle.
ServerLeaves ==
    /\ served # <<>> /\ Unread = <<>>
    /\ Leave
    /\ UNCHANGED xVars

Around ==
    \/ ServerAnswers \/ ServerLeaves
    \/ Greet /\ UNCHANGED xVars
    \/ NetFails /\ UNCHANGED xVars

Init ==
    /\ TransportInit
    /\ ask = NoAsk /\ resp = Fresh /\ phase = "none" /\ fresh = FALSE /\ attempt = 0 /\ made = 0
    /\ outcome = Said("none") /\ served = <<>> /\ answer = [bytes |-> <<>>, means |-> Failed]

Next == (\E q \in Ask : Begin(q)) \/ Client \/ Around
Spec == Init /\ [][Next]_vars

\* The client's own steps; the socket's time limit ends every wait.
FairSpec == Spec /\ WF_vars(Client)

-----------------------------------------------------------------------------
\* Type correctness of the connection and of the exchange.
TypeOK ==
    /\ TransportTypeOK
    /\ phase \in {"none", "top", "dialling", "send", "sending", "receiving", "closing"}
    /\ phase # "none" <=> ask # NoAsk
    /\ phase # "none" <=> outcome = Pending
    /\ phase = "none" => at = "idle"
    /\ attempt \in {0, 1} /\ (attempt = 1 /\ phase \notin {"none", "top"} => fresh)
    /\ made \in 0 .. Exchanges

\* transport.h: what both kinds of connection promise; under TLS a connection
\* that is cut is never taken for one that the server has ended.
ImplementsByteStream == Contract!StreamSpec

\* http.h: however the bytes are cut, the answer read is the answer sent, an
\* answer that makes no sense is refused, and only such an answer is.
AnswerAsSent ==
    /\ "code" \in DOMAIN outcome => outcome = answer.means
    /\ outcome = Unreadable => answer.means = Unreadable

\* What the parser has read depends on the bytes alone, not on their pieces.
CutsDontMatter ==
    fresh /\ phase = "receiving" /\ at # "idle" => resp = Feed(Fresh, heard)

\* build_request(): the server is sent the request as asked, or nothing.
RequestAsAsked == \A n \in DOMAIN served : \E q \in Ask : served[n] = Text(q)

\* tls_pump(): nothing is held back while it waits for the server, which may
\* be waiting for just that.
NeverWaitsHoldingOutput == at = "read" => out = <<>>

\* tls_connect(): a request goes only to the server that was meant.
NothingToldToAStranger ==
    conf.tls /\ asked # <<>> =>
        /\ conf.insecure \/ (conf.trusted /\ conf.named)
        /\ \E v \in conf.speaks : v >= 12 /\ (v = 13 => conf.allow13)

\* An exchange fails only if something failed during it: a connection the
\* server had closed meanwhile is none of the caller's business.
OnlyFaultsFail == outcome = Failed => blame \/ answer.means = Failed

\* Every exchange comes to an end.
ExchangeEnds == phase # "none" ~> phase = "none"

\* What an exchange tells the server and its caller is what was meant, or it
\* reports an error, and an error has a cause.
ExchangesFaithfully ==
    /\ TypeOK /\ AnswerAsSent /\ CutsDontMatter /\ RequestAsAsked
    /\ NeverWaitsHoldingOutput /\ NothingToldToAStranger /\ OnlyFaultsFail
=============================================================================
