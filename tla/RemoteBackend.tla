--------------------------- MODULE RemoteBackend ---------------------------
(***************************************************************************)
(* The WebDAV and S3 backends: webdav.c and s3.c over http.c and a         *)
(* transport.  A call of backend.h becomes one request or several; each    *)
(* is sent on the connection kept from the call before, if there is one,   *)
(* and sent again on a fresh one if that turns out to be dead.  Uploads    *)
(* by restore.c are streamed: chunk by chunk over a connection of their    *)
(* own (WebDAV), or in parts of a multipart upload (S3).                   *)
(*                                                                         *)
(* Connections are refused, closed while idle, and lost at any moment; an  *)
(* answer may be an error whether or not the request was carried out, be   *)
(* garbled, or never come; a request left behind on a connection that was  *)
(* given up may still be carried out until the next call is made.          *)
(***************************************************************************)
EXTENDS RemoteServer, Bags

CONSTANTS
    MaxPages,   \* MAX_PAGES of s3_list()
    Faults,     \* what may go wrong: "refuse", "lose", "error", "garbled",
                \* "endless"
    Unframed    \* methods whose answers may come without a length: "GET", "LIST"

ASSUME PagesAssumption == MaxPages \in Nat \ {0}
ASSUME FaultAssumption ==
    /\ Faults \subseteq {"refuse", "lose", "error", "garbled", "endless"}
    /\ Unframed \subseteq {"GET", "LIST"}

VARIABLES
    conn,       \* the kept connection: "none", "open", "stale" (the server
                \* has closed it), "soiled" (bytes left over, then closed)
    own,        \* the connection of a WebDAV upload: "none" or "open"
    body,       \* the part of its body the server has received
    line,       \* the request and the answer on the connection in use
    abandoned,  \* requests left behind on connections that were given up
    call,       \* the call being made
    todo,       \* its requests still to be made, the current one first
    at,         \* where the exchange is: "top", "send", "recv"
    fresh,      \* the connection in use was opened for this attempt
    attempt,    \* the exchange has been tried so many times before
    h,          \* the upload handle of put_begin()
    dir,        \* the prefix being listed, <<>> for none
    listed,     \* what list() has reported to its callback
    token,      \* the continuation token
    pages,      \* pages fetched
    reply,      \* what the last call returned
    last,       \* history: the last call as backend.h sees it
    faulty,     \* history: something went wrong during this call
    ran,        \* history: how often the current request was carried out
    unsettled   \* history: exchanges that may have left an upload behind

netVars == <<conn, own, body, line, abandoned>>
exchangeVars == <<todo, at, fresh, attempt>>
listVars == <<dir, listed, token, pages>>
historyVars == <<last, faulty, ran, unsettled>>
vars == <<serverVars, netVars, exchangeVars, listVars, call, h, reply, historyVars>>

NoRequest == [m |-> "none"]
NoAnswer == [st |-> "none"]
Quiet == [req |-> NoRequest, ans |-> NoAnswer]
NoHandle == [key |-> <<>>]

Closed == [op |-> "closed"]
Idle == [op |-> "idle"]
Busy == call \notin {Closed, Idle}

\* What a call returns; "pending" while it is being made.
Said(rc) == [rc |-> rc]
Contract == INSTANCE KeyStore

Step(m, p) == [m |-> m, path |-> p]
Now == Head(todo)
Parents(k) == IF Len(k) = 1 THEN <<>>       \* mkcol_parents()
              ELSE [n \in 1 .. Len(k) |-> Step("MKCOL", WalkTo(Front(k))[n])]

\* s3_put_append(): a part is due when enough has been collected.
PartDue(b) == Len(b) >= PartSize

\* s3_upload_next_part(), with the upload started first if it has not been.
NextPart(k) == (IF h.upload = NoUpload THEN <<Step("INITIATE", k)>> ELSE <<>>)
               \o <<Step("PART", k)>>

\* The requests of a call, in order.
PlanWebdav(c) ==
    CASE c.op = "open" -> <<Step("MKCOL", <<>>)>>
      [] c.op = "put" -> Parents(c.key) \o <<Step("PUT", c.key)>>
      [] c.op = "get" -> <<Step("GET", c.key)>>
      [] c.op = "exists" -> <<Step("EXISTS", c.key)>>
      [] c.op = "remove" -> <<Step("DELETE", c.key)>>
      [] c.op = "list" -> <<Step("LIST", c.key)>>
      [] c.op = "mkcol" -> [n \in 1 .. Len(c.key) + 1 |->
                               Step("MKCOL", WalkTo(c.key)[n])]
      [] c.op = "begin" -> Parents(c.key) \o <<Step("DIAL", c.key)>>
      [] c.op = "append" -> IF c.data # <<>> THEN <<Step("CHUNK", h.key)>> ELSE <<>>
      [] c.op = "finish" -> <<Step("STREAM", h.key)>>
      [] OTHER -> <<>>

PlanS3(c) ==
    CASE c.op = "put" -> <<Step("PUT", c.key)>>
      [] c.op = "get" -> <<Step("GET", c.key)>>
      [] c.op = "exists" -> <<Step("EXISTS", c.key)>>
      [] c.op = "remove" -> <<Step("EXISTS", c.key), Step("DELETE", c.key)>>
      [] c.op = "list" -> <<Step("LIST", c.key)>>
      [] c.op = "append" -> IF PartDue(h.body \o c.data) /\ c.data # <<>>
                            THEN NextPart(h.key) ELSE <<>>
      [] c.op = "finish" ->
           IF h.upload = NoUpload THEN <<Step("PUT", h.key)>>
           ELSE (IF h.body # <<>> THEN NextPart(h.key) ELSE <<>>)
                \o <<Step("COMPLETE", h.key)>>
      [] c.op = "abort" -> IF h.upload # NoUpload THEN <<Step("ABORT", h.key)>> ELSE <<>>
      [] OTHER -> <<>>

Plan(c) == IF proto = "webdav" THEN PlanWebdav(c) ELSE PlanS3(c)

\* The request of the current step.
Request ==
    [m |-> Now.m, path |-> Now.path,
     data |-> CASE Now.m = "STREAM" -> body
                [] Now.m \in {"PUT", "PART"} ->
                     IF call.op = "put" THEN call.data ELSE h.body
                [] OTHER -> <<>>,
     up |-> IF h = NoHandle THEN NoUpload ELSE h.upload,
     n |-> IF Now.m = "PART" THEN Len(h.etags) + 1 ELSE 0,
     etags |-> IF Now.m = "COMPLETE" THEN h.etags ELSE <<>>,
     tok |-> IF Now.m = "LIST" THEN token ELSE {}]

\* POSTs are not repeated: they would start a second upload, or complete one
\* that is gone.
IdempotentAll(m) == TRUE     \* mutant: no request is told apart
Idempotent(m) == m \notin {"INITIATE", "COMPLETE"}

OwnStep(m) == m \in {"DIAL", "CHUNK", "STREAM"}

-----------------------------------------------------------------------------
(* How a call goes on and ends.                                            *)

\* The next exchange starts with the first of steps.
Proceed(steps) ==
    /\ todo' = steps /\ at' = "top" /\ fresh' = FALSE /\ attempt' = 0
    /\ ran' = 0

\* The call returns r.
Return(r) ==
    /\ Proceed(<<>>)
    /\ call' = IF call.op = "open" /\ r = Said("error") THEN Closed ELSE Idle
    /\ reply' = r

\* The current step is done, x is the handle: on to the next, or out.
Advance(x) ==
    /\ \/ /\ Len(todo) > 1
          /\ Proceed(Tail(todo))
          /\ UNCHANGED <<call, reply>>
       \/ /\ Len(todo) = 1
          /\ Return(Said(IF call.op = "finish" /\ x.failed THEN "error" ELSE "ok"))
    /\ h' = IF Len(todo) = 1 /\ call.op \in {"finish", "abort"} THEN NoHandle ELSE x

\* The current step has failed.  s3_put_finish() aborts its upload before it
\* returns; s3_multipart_abort() ignores what becomes of it.
AbortsNever == FALSE         \* mutant: finish just returns
AbortsOnFailure == proto = "s3" /\ call.op = "finish" /\ h.upload # NoUpload

StepFails ==
    \/ /\ Now.m = "ABORT"
       /\ Advance(h)
    \/ /\ Now.m # "ABORT" /\ AbortsOnFailure
       /\ h' = [h EXCEPT !.failed = TRUE]
       /\ Proceed(<<Step("ABORT", h.key)>>)
       /\ UNCHANGED <<call, reply>>
    \/ /\ Now.m # "ABORT" /\ ~AbortsOnFailure
       /\ h' = CASE call.op = "append" -> [h EXCEPT !.failed = TRUE]
                 [] call.op = "finish" -> NoHandle
                 [] OTHER -> h
       /\ Return(Said("error"))

\* An exchange that may leave an upload behind when it goes wrong.
Unsettle(ms) ==
    unsettled' = IF Now.m \in ms /\ unsettled < Cardinality(Upload)
                 THEN unsettled + 1 ELSE unsettled

-----------------------------------------------------------------------------
(* Calls.                                                                  *)

AsContract(c) ==
    CASE c.op = "finish" -> [op |-> "put", key |-> h.key, data |-> h.sent]
      [] c.op = "remove" -> [op |-> "remove", key |-> c.key, was |-> store[c.key]]
      [] c.op \in {"put", "get", "exists"} -> c
      [] OTHER -> [op |-> "other"]

\* The call c is made; one that needs no request returns at once.
Ask(c) ==
    /\ \/ /\ Plan(c) # <<>>
          /\ Proceed(Plan(c))
          /\ call' = c /\ reply' = Said("pending")
       \/ /\ Plan(c) = <<>>
          /\ Proceed(<<>>)
          /\ call' = Idle /\ reply' = Said("ok")
    /\ last' = AsContract(c) /\ faulty' = FALSE
    /\ abandoned' = {}
    /\ dir' = (IF c.op = "list" THEN c.key ELSE <<>>)
    /\ listed' = EmptyBag /\ token' = {} /\ pages' = 0
    /\ UNCHANGED <<serverVars, conn, line, unsettled>>

\* amisnap_backend_webdav_open(), amisnap_backend_s3_open()
Open ==
    /\ call = Closed
    /\ Ask([op |-> "open"])
    /\ UNCHANGED <<own, body, h>>

\* webdav_close(), s3_close()
Close ==
    /\ call = Idle /\ h = NoHandle
    /\ call' = Closed /\ conn' = "none"
    /\ abandoned' = {}
    /\ UNCHANGED <<serverVars, own, body, line, exchangeVars, listVars, h, reply,
                   historyVars>>

\* put, get, exists, list, remove and mkcol
Plain ==
    /\ call = Idle /\ h = NoHandle
    /\ \/ \E k \in Key, d \in Content : Ask([op |-> "put", key |-> k, data |-> d])
       \/ \E k \in Key, op \in {"get", "exists", "remove"} : Ask([op |-> op, key |-> k])
       \/ \E k \in Key : Len(k) > 1 /\ Ask([op |-> "list", key |-> Front(k)])
       \/ \E k \in Key : Len(k) > 1 /\ Ask([op |-> "mkcol", key |-> Front(k)])
    /\ UNCHANGED <<own, body, h>>

NewHandle(k, d) ==
    [key |-> k, want |-> d, sent |-> <<>>, body |-> <<>>, upload |-> NoUpload,
     etags |-> <<>>, failed |-> FALSE]

\* webdav_put_begin(), s3_put_begin(); bound: an upload id is left.
PutBegin ==
    /\ call = Idle /\ h = NoHandle /\ FreeUploads # {}
    /\ \E k \in Key, d \in Content \ {<<>>} :
           /\ Ask([op |-> "begin", key |-> k, data |-> d])
           /\ h' = IF proto = "s3" THEN NewHandle(k, d) ELSE NoHandle
    /\ UNCHANGED <<own, body>>

\* webdav_put_append(), s3_put_append() with the next chunk, or an empty one
PutAppend ==
    /\ call = Idle /\ h # NoHandle /\ ~h.failed
    /\ \E d \in {<<>>} \cup {<<h.want[n]>> : n \in {Len(h.sent) + 1} \cap DOMAIN h.want} :
           /\ Ask([op |-> "append", data |-> d])
           /\ h' = [h EXCEPT !.sent = @ \o d,
                             !.body = IF proto = "s3" THEN @ \o d ELSE @]
    /\ UNCHANGED <<own, body>>

\* webdav_put_finish(), s3_put_finish()
PutFinish ==
    /\ call = Idle /\ h # NoHandle /\ ~h.failed /\ h.sent = h.want
    /\ Ask([op |-> "finish"])
    /\ UNCHANGED <<own, body, h>>

\* webdav_put_abort(), s3_put_abort(): at any time, and after a failure
PutAbort ==
    /\ call = Idle /\ h # NoHandle
    /\ Ask([op |-> "abort"])
    /\ own' = "none" /\ body' = <<>>
    /\ h' = IF Plan([op |-> "abort"]) = <<>> THEN NoHandle ELSE h

Caller == Open \/ Close \/ Plain \/ PutBegin \/ PutAppend \/ PutFinish \/ PutAbort

-----------------------------------------------------------------------------
(* One exchange: webdav_exchange(), s3_exchange_ex().                      *)

OnKept(phase) == Busy /\ at = phase /\ ~OwnStep(Now.m)

\* A request that must not be repeated does not go on a used connection.
ForceFresh ==
    /\ OnKept("top") /\ ~Idempotent(Now.m) /\ conn # "none"
    /\ conn' = "none"
    /\ UNCHANGED <<serverVars, own, body, line, abandoned, exchangeVars, listVars,
                   call, h, reply, historyVars>>

Connect ==
    /\ OnKept("top") /\ conn = "none"
    /\ conn' = "open" /\ fresh' = TRUE /\ at' = "send"
    /\ UNCHANGED <<serverVars, own, body, line, abandoned, todo, attempt, listVars,
                   call, h, reply, historyVars>>

ConnectFails ==
    /\ OnKept("top") /\ conn = "none" /\ "refuse" \in Faults
    /\ faulty' = TRUE
    /\ StepFails /\ Unsettle({"ABORT"})
    /\ UNCHANGED <<serverVars, netVars, listVars, last>>

Reuse ==
    /\ OnKept("top") /\ conn # "none" /\ Idempotent(Now.m)
    /\ fresh' = FALSE /\ at' = "send"
    /\ UNCHANGED <<serverVars, netVars, todo, attempt, listVars, call, h, reply,
                   historyVars>>

\* What is sent on a connection the server has closed goes nowhere.
Send ==
    /\ OnKept("send")
    /\ line' = IF conn = "open" THEN [line EXCEPT !.req = Request] ELSE line
    /\ at' = "recv"
    /\ UNCHANGED <<serverVars, conn, own, body, abandoned, todo, fresh, attempt,
                   listVars, call, h, reply, historyVars>>

\* The connection in use is given up; a request on it may live on.
KeepLine ==                  \* mutant: the connection is kept
    UNCHANGED <<conn, own, body, line, abandoned>>
HangUp ==
    /\ IF OwnStep(Now.m) THEN own' = "none" /\ body' = <<>> /\ UNCHANGED conn
       ELSE conn' = "none" /\ UNCHANGED <<own, body>>
    /\ line' = Quiet
    /\ abandoned' = IF line.req # NoRequest /\ line.ans = NoAnswer
                    THEN abandoned \cup {line.req} ELSE abandoned

\* Sent once more, on a fresh connection, if the one used was not.
RetriesNever == FALSE        \* mutant: the first failure is final
RetriesAlways ==             \* mutant: a fresh connection is no reason to stop
    Idempotent(Now.m)
Retries == Idempotent(Now.m) /\ ~fresh /\ attempt = 0

Broken ==
    /\ HangUp
    /\ \/ /\ Retries
          /\ at' = "top" /\ attempt' = 1
          /\ UNCHANGED <<todo, fresh, call, h, reply, ran, unsettled>>
       \/ /\ ~Retries
          /\ StepFails /\ Unsettle({"INITIATE", "ABORT"})

SendFails ==
    /\ OnKept("send")
    /\ \/ conn # "open" /\ UNCHANGED faulty
       \/ conn = "open" /\ "lose" \in Faults /\ faulty' = TRUE
    /\ Broken
    /\ UNCHANGED <<serverVars, listVars, last>>

\* The peer has closed the connection, or what has come is never finished.
NoAnswerComes ==
    /\ Busy /\ at = "recv"
    /\ (conn = "stale" /\ ~OwnStep(Now.m)) \/ line.ans.st = "unfinished"
    /\ Broken
    /\ UNCHANGED <<serverVars, listVars, last, faulty>>

\* The connection breaks or the answer does not come in time.
Lose ==
    /\ Busy /\ at = "recv" /\ "lose" \in Faults
    /\ conn = "open" \/ OwnStep(Now.m)
    /\ faulty' = TRUE
    /\ Broken
    /\ UNCHANGED <<serverVars, listVars, last>>

\* What the parser rejects is not asked for again.
Garbled ==
    /\ Busy /\ at = "recv" /\ line.ans.st = "garbled"
    /\ HangUp /\ StepFails /\ Unsettle({"INITIATE", "ABORT"})
    /\ UNCHANGED <<serverVars, listVars, last, faulty>>

\* Left over from an unframed body: no answer, a malformed one, or one with
\* a status that means nothing.
LeftOver ==
    /\ OnKept("recv") /\ conn = "soiled"
    /\ faulty' = TRUE
    /\ \/ Broken
       \/ HangUp /\ StepFails /\ Unsettle({"INITIATE", "ABORT"})
       \/ /\ conn' = "stale" /\ UNCHANGED <<own, body, line, abandoned>>
          /\ StepFails /\ Unsettle({"INITIATE", "ABORT"})
    /\ UNCHANGED <<serverVars, listVars, last>>

\* The answer is there: the connection stays open unless it was the upload's.
Receive(a) ==
    /\ Busy /\ at = "recv" /\ a = line.ans
    /\ a.st \notin {"none", "garbled", "unfinished"}
    /\ line' = Quiet
    /\ IF OwnStep(Now.m) THEN own' = "none" /\ body' = <<>> /\ UNCHANGED conn
       ELSE conn' = (IF a.st = "unframed" THEN "soiled" ELSE conn) /\ UNCHANGED <<own, body>>
    /\ UNCHANGED <<serverVars, abandoned, last, faulty>>

\* Answers that let the call go on.
Accepts(m, st) ==
    CASE m = "MKCOL" -> st \in {"ok", "exists"}
      [] m \in {"GET", "EXISTS"} -> st \in {"ok", "missing"}
      [] m = "LIST" -> st \in {"ok", "missing", "unframed"}
      [] m = "DELETE" -> st = "ok" \/ (proto = "webdav" /\ st = "missing")
      [] OTHER -> st = "ok"

\* The step is done.  (MKCOL, PUT, EXISTS, DELETE, COMPLETE, ABORT.)
GoOn ==
    \E a \in {line.ans} :
        /\ Receive(a) /\ Accepts(Now.m, a.st) /\ a.st # "missing"
        /\ Now.m \notin {"GET", "LIST", "INITIATE", "PART"}
        /\ Advance(h)
        /\ UNCHANGED <<listVars, unsettled>>

GotContent ==
    \E a \in {line.ans} :
        /\ Receive(a) /\ Accepts(Now.m, a.st) /\ a.st # "missing" /\ Now.m = "GET"
        /\ Return([rc |-> "ok", data |-> a.data])
        /\ UNCHANGED <<listVars, h, unsettled>>

NotThere ==
    \E a \in {line.ans} :
        /\ Receive(a) /\ Accepts(Now.m, a.st) /\ a.st = "missing"
        /\ Return(Said(IF Now.m = "LIST" THEN "ok" ELSE "absent"))
        /\ UNCHANGED <<listVars, h, unsettled>>

\* A page that names a continuation is followed by the next one, up to a limit.
MoreAlways == TRUE           \* mutant: no limit
MorePages == pages + 1 < MaxPages
StopsEarly(a) == FALSE       \* mutant: one page is all
Truncated(a) == a.more

\* webdav_list(), s3_list(): page after page, each reported as it comes.  An
\* answer of unknown length is taken for an empty one.
GotPage ==
    \E a \in {line.ans} :
        /\ Receive(a) /\ Now.m = "LIST" /\ a.st \in {"ok", "unframed"}
        /\ listed' = listed (+) SetToBag(a.names)
        /\ token' = token \cup a.names
        /\ pages' = pages + 1
        /\ \/ Truncated(a) /\ MorePages /\ Proceed(todo) /\ UNCHANGED <<call, reply>>
           \/ Truncated(a) /\ ~MorePages /\ Return(Said("error"))
           \/ ~Truncated(a) /\ Return(Said("ok"))
        /\ UNCHANGED <<dir, h, unsettled>>

\* s3_multipart_initiate(), s3_multipart_upload_part()
GotUpload ==
    \E a \in {line.ans} :
        /\ Receive(a) /\ Now.m = "INITIATE" /\ a.st = "ok"
        /\ Advance([h EXCEPT !.upload = a.id])
        /\ UNCHANGED <<listVars, unsettled>>

KeepBody(x) == x             \* mutant: the buffer is not emptied
Emptied(x) == [x EXCEPT !.body = <<>>]
GotETag ==
    \E a \in {line.ans} :
        /\ Receive(a) /\ Now.m = "PART" /\ a.st = "ok"
        /\ Advance(Emptied([h EXCEPT !.etags = Append(@, a.data)]))
        /\ UNCHANGED <<listVars, unsettled>>

Rejected ==
    \E a \in {line.ans} :
        /\ Receive(a) /\ ~Accepts(Now.m, a.st)
        /\ StepFails /\ Unsettle({"INITIATE", "ABORT"})
        /\ UNCHANGED listVars

-----------------------------------------------------------------------------
(* webdav.c's streamed upload, on a connection of its own.                 *)

Dial ==
    /\ Busy /\ Now.m = "DIAL"
    /\ own' = "open" /\ body' = <<>>
    /\ Advance(NewHandle(Now.path, call.data))
    /\ UNCHANGED <<serverVars, conn, line, abandoned, listVars, last, faulty, unsettled>>

DialFails ==
    /\ Busy /\ Now.m = "DIAL" /\ Faults \cap {"refuse", "lose"} # {}
    /\ faulty' = TRUE
    /\ StepFails
    /\ UNCHANGED <<serverVars, netVars, listVars, last, unsettled>>

SendChunk ==
    /\ Busy /\ Now.m = "CHUNK"
    /\ body' = body \o call.data
    /\ Advance(h)
    /\ UNCHANGED <<serverVars, conn, own, line, abandoned, listVars, last, faulty,
                   unsettled>>

ChunkFails ==
    /\ Busy /\ Now.m = "CHUNK" /\ "lose" \in Faults
    /\ faulty' = TRUE
    /\ StepFails
    /\ UNCHANGED <<serverVars, netVars, listVars, last, unsettled>>

\* The terminating chunk makes the body complete.
EndBody ==
    /\ Busy /\ Now.m = "STREAM" /\ at = "top"
    /\ line' = [line EXCEPT !.req = Request]
    /\ at' = "recv" /\ fresh' = TRUE
    /\ UNCHANGED <<serverVars, conn, own, body, abandoned, todo, attempt, listVars,
                   call, h, reply, historyVars>>

EndBodyFails ==
    /\ Busy /\ Now.m = "STREAM" /\ at = "top" /\ "lose" \in Faults
    /\ faulty' = TRUE
    /\ HangUp /\ StepFails
    /\ UNCHANGED <<serverVars, listVars, last, unsettled>>

Client ==
    \/ ForceFresh \/ Connect \/ ConnectFails \/ Reuse \/ Send \/ SendFails
    \/ NoAnswerComes \/ Lose \/ Garbled \/ LeftOver
    \/ GoOn \/ GotContent \/ NotThere \/ GotPage \/ GotUpload \/ GotETag \/ Rejected
    \/ Dial \/ DialFails \/ SendChunk \/ ChunkFails \/ EndBody \/ EndBodyFails

-----------------------------------------------------------------------------
(* The server.                                                             *)

Unserved == line.req # NoRequest /\ line.ans = NoAnswer

Answer(a) ==
    /\ line' = [line EXCEPT !.ans = a]
    /\ UNCHANGED <<conn, own, body, abandoned, exchangeVars, listVars, call, h, reply,
                   last, unsettled>>

Serve ==
    /\ Unserved
    /\ Execute(line.req) /\ ran' = ran + 1
    /\ Answer(AnswerTo(line.req))
    /\ UNCHANGED faulty

\* An error answer says nothing about what has been done.
ServeBadly ==
    /\ Unserved /\ faulty' = TRUE
    /\ \/ /\ "error" \in Faults
          /\ UNCHANGED <<serverVars, ran>>
          /\ Answer([AnswerTo(line.req) EXCEPT !.st = "error"])
       \/ /\ \E st \in Faults \cap {"error", "garbled"} :
                 Answer([AnswerTo(line.req) EXCEPT !.st = st])
          /\ Execute(line.req) /\ ran' = ran + 1
       \/ /\ line.req.m \in Unframed /\ StatusOf(line.req) = "ok"
          /\ Answer([AnswerTo(line.req) EXCEPT !.st = "unframed", !.names = {},
                                               !.more = FALSE])
          /\ Execute(line.req) /\ ran' = ran + 1
       \/ /\ "endless" \in Faults /\ line.req.m = "LIST" /\ proto = "s3"
          /\ Answer([AnswerTo(line.req) EXCEPT !.names = {}, !.more = TRUE])
          /\ Execute(line.req) /\ ran' = ran + 1

ServeLate ==
    \E r \in abandoned :
        /\ Execute(r)
        /\ abandoned' = abandoned \ {r}
        /\ ran' = IF Busy /\ <<r.m, r.path>> = <<Now.m, Now.path>> THEN ran + 1 ELSE ran
        /\ UNCHANGED <<conn, own, body, line, exchangeVars, listVars, call, h, reply,
                       last, faulty, unsettled>>

\* The line is in use by an upload's own connection.
OwnLine == Busy /\ OwnStep(Now.m)

\* A connection that was kept is closed, perhaps under a request just sent.
IdleClose ==
    /\ conn = "open" /\ ~(Busy /\ fresh)
    /\ OwnLine \/ line.ans = NoAnswer
    /\ conn' = "stale"
    /\ line' = IF OwnLine THEN line ELSE Quiet
    /\ UNCHANGED <<serverVars, own, body, abandoned, exchangeVars, listVars, call, h,
                   reply, historyVars>>

Server == Serve \/ ServeBadly \/ ServeLate \/ IdleClose

-----------------------------------------------------------------------------
Init ==
    /\ ServerInit
    /\ conn = "none" /\ own = "none" /\ body = <<>> /\ line = Quiet /\ abandoned = {}
    /\ call = Closed /\ todo = <<>> /\ at = "top" /\ fresh = FALSE /\ attempt = 0
    /\ h = NoHandle
    /\ dir = <<>> /\ listed = EmptyBag /\ token = {} /\ pages = 0
    /\ reply = Said("ok")
    /\ last = [op |-> "other"] /\ faulty = FALSE /\ ran = 0 /\ unsettled = 0

Next == Caller \/ Client \/ Server
Spec == Init /\ [][Next]_vars

\* recv() times out, so the client never waits for ever; nobody else owes
\* anything.
FairSpec == Spec /\ WF_vars(Client)

-----------------------------------------------------------------------------
Method == {"MKCOL", "PUT", "STREAM", "GET", "EXISTS", "DELETE", "LIST", "INITIATE",
           "PART", "COMPLETE", "ABORT"}
RequestType ==
    [m : Method, path : Seq(Name), data : Seq(Chunk), up : Upload \cup {NoUpload},
     n : Nat, etags : Seq(Seq(Chunk)), tok : SUBSET Name]
AnswerType ==
    [st : {"ok", "missing", "exists", "error", "garbled", "unframed", "unfinished"},
     data : Seq(Chunk), id : Upload \cup {NoUpload}, names : SUBSET Name,
     more : BOOLEAN, req : RequestType]
HandleType ==
    [key : Key, want : Content, sent : Seq(Chunk), body : Seq(Chunk),
     upload : Upload \cup {NoUpload}, etags : Seq(Seq(Chunk)), failed : BOOLEAN]

\* Type correctness of the client, the network and the server.
TypeOK ==
    /\ proto \in {"webdav", "s3"}
    /\ store \in [Key -> Content \cup {Absent}]
    /\ cols \subseteq Seq(Name)
    /\ uploads \in [Upload -> [key : Key, parts : Seq(Seq(Chunk))] \cup {NoUpload}]
    /\ conn \in {"none", "open", "stale", "soiled"} /\ own \in {"none", "open"}
    /\ body \in Seq(Chunk)
    /\ line.req \in RequestType \cup {NoRequest}
    /\ line.ans \in AnswerType \cup {NoAnswer}
    /\ abandoned \subseteq RequestType
    /\ todo \in Seq([m : Method \cup {"DIAL", "CHUNK"}, path : Seq(Name)])
    /\ (todo = <<>> <=> ~Busy)
    /\ at \in {"top", "send", "recv"} /\ fresh \in BOOLEAN /\ attempt \in {0, 1}
    /\ h \in HandleType \cup {NoHandle}
    /\ dir \in Seq(Name) /\ IsABag(listed) /\ token \subseteq Name
    /\ pages \in 0 .. MaxPages
    /\ reply.rc \in {"pending", "ok", "absent", "error"}
    /\ faulty \in BOOLEAN /\ ran \in Nat /\ unsettled \in 0 .. Cardinality(Upload)

\* backend.h: the calls of either protocol are atomic and say what is so,
\* through lost answers, repeated requests and uploads in pieces.
ImplementsKeyStore == Contract!KeyStoreSpec

\* The answer waiting on a connection is to the request just sent on it, and
\* between calls nothing is waiting (webdav_exchange() closes a connection
\* after any failure).
AnswersMatch ==
    /\ line.ans # NoAnswer => line.ans.req = line.req
    /\ at # "recv" => line = Quiet

\* backend.h, webdav_exchange(): a call fails only if something went wrong
\* while it was made; that the server closed an idle connection is nothing.
OnlyFaultsFail == reply = Said("error") => faulty

\* s3_exchange_ex(): a POST is carried out at most once, whatever becomes of
\* the connection and of the answer.
ExecutedOnce == Busy /\ Now.m \in {"INITIATE", "COMPLETE"} => ran <= 1

\* s3_put_finish(), s3_put_abort(): there are no more uploads nobody knows of
\* than there were initiations and aborts that went unanswered.
NoLostUpload ==
    LET held == IF h = NoHandle THEN {} ELSE {h.upload}
    IN  ~Busy => Cardinality((Upload \ FreeUploads) \ held) <= unsettled

\* backend.h list(): a listing that succeeds has reported every name once,
\* however many pages it took and however often one was asked for.
ListingIsExact ==
    ~Busy /\ dir # <<>> /\ reply = Said("ok") => listed = SetToBag(Below(dir))

\* Every call returns: retries and pages are bounded.
CallsReturn == Busy ~> ~Busy
=============================================================================
