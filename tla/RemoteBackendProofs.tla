------------------------ MODULE RemoteBackendProofs ------------------------
(***************************************************************************)
(* The WebDAV and S3 backends, for every number of keys and uploads, every *)
(* content and every set of faults.                                        *)
(* First the exchange: an answer is only ever taken for the request it     *)
(* answers, a POST is carried out at most once, and a listing that         *)
(* succeeds has reported every name once.                                  *)
(* Then the store: both backends implement the map of keys to contents     *)
(* that backend.h promises (KeyStore), through lost answers, repeated and  *)
(* late requests, chunked uploads and uploads in parts.  An upload is left *)
(* behind only by an exchange that went unanswered, a call fails only if   *)
(* something went wrong, and the types are as stated.                      *)
(***************************************************************************)
EXTENDS RemoteBackend, SequenceTheorems, FiniteSetTheorems, TLAPS

-----------------------------------------------------------------------------
(* Answers go to their requests.                                           *)

\* What makes AnswersMatch inductive: a connection that is not open, or whose
\* call is not waiting, carries nothing.
WireInv ==
    /\ AnswersMatch
    /\ line = [req |-> line.req, ans |-> line.ans]
    /\ at # "top" => Busy /\ Now.m \notin {"DIAL", "CHUNK"}
    /\ at = "recv" /\ ~OwnStep(Now.m) /\ conn # "open" => line = Quiet

\* An exchange that is over leaves nothing on its connection.
LEMMA Settled ==
    ASSUME at' = "top", line' = Quiet
    PROVE  WireInv'
BY DEF WireInv, AnswersMatch, Quiet

\* A step that fails or is done ends its exchange.
LEMMA FailTop ==
    ASSUME StepFails PROVE at' = "top"
BY DEF StepFails, Advance, Return, Proceed

LEMMA AdvanceTop ==
    ASSUME NEW x, Advance(x) PROVE at' = "top"
BY DEF Advance, Return, Proceed

\* A connection that is given up is quiet, and so is the next one.
LEMMA BrokenTop ==
    ASSUME Broken PROVE at' = "top" /\ line' = Quiet
BY FailTop DEF Broken, HangUp

\* Every operation of the caller keeps the invariant.
LEMMA CallerWire ==
    ASSUME WireInv, Caller PROVE WireInv'
<1>1. at = "top" /\ line = Quiet
  BY DEF WireInv, AnswersMatch, Caller, Open, Close, Plain, PutBegin, PutAppend,
         PutFinish, PutAbort, Busy
<1>2. ASSUME NEW c, Ask(c) PROVE WireInv'
  BY <1>1, <1>2, Settled DEF Ask, Proceed
<1>3. CASE Close
  BY <1>1, <1>3, Settled DEF Close, exchangeVars
<1> QED  BY <1>2, <1>3 DEF Caller, Open, Plain, PutBegin, PutAppend, PutFinish, PutAbort

\* So does every step of an exchange and of a streamed upload.
LEMMA ClientWire ==
    ASSUME WireInv, Client PROVE WireInv'
<1>1. CASE ForceFresh
  BY <1>1, Settled DEF ForceFresh, OnKept, WireInv, AnswersMatch, exchangeVars
<1>2. CASE Connect
  BY <1>2 DEF Connect, OnKept, OwnStep, WireInv, AnswersMatch, Busy, Now, Quiet
<1>3. CASE ConnectFails
  BY <1>3, FailTop, Settled DEF ConnectFails, OnKept, WireInv, AnswersMatch, netVars
<1>4. CASE Reuse
  BY <1>4 DEF Reuse, OnKept, OwnStep, WireInv, AnswersMatch, Busy, Now, Quiet, netVars
<1>5. CASE Send
  <2>1. /\ line = Quiet /\ Busy' /\ Now' = Now /\ at' = "recv" /\ conn' = conn
        /\ Now.m \notin {"DIAL", "CHUNK"}
    BY <1>5 DEF Send, OnKept, OwnStep, WireInv, AnswersMatch, Busy, Now
  <2>2. CASE conn = "open"
    BY <1>5, <2>1, <2>2 DEF Send, WireInv, AnswersMatch, Quiet
  <2>3. CASE conn # "open"
    BY <1>5, <2>1, <2>3 DEF Send, WireInv, AnswersMatch, Quiet
  <2> QED  BY <2>2, <2>3
<1>6. CASE SendFails \/ NoAnswerComes \/ Lose
  BY <1>6, BrokenTop, Settled DEF SendFails, NoAnswerComes, Lose
<1>7. CASE Garbled
  BY <1>7, FailTop, Settled DEF Garbled, HangUp
<1>8. CASE LeftOver
  BY <1>8, BrokenTop, FailTop, Settled DEF LeftOver, HangUp, OnKept, WireInv
<1>9. CASE GoOn \/ GotUpload \/ GotETag
  BY <1>9, AdvanceTop, Settled DEF GoOn, GotUpload, GotETag, Receive
<1>10. CASE GotContent \/ NotThere \/ GotPage
  BY <1>10, Settled DEF GotContent, NotThere, GotPage, Receive, Return, Proceed
<1>11. CASE Rejected
  BY <1>11, FailTop, Settled DEF Rejected, Receive
<1>12. CASE Dial \/ DialFails \/ SendChunk \/ ChunkFails
  <2>1. line = Quiet
    BY <1>12 DEF Dial, DialFails, SendChunk, ChunkFails, WireInv, AnswersMatch
  <2>2. at' = "top" /\ line' = line
    BY <1>12, AdvanceTop, FailTop
       DEF Dial, DialFails, SendChunk, ChunkFails, netVars
  <2> QED  BY <2>1, <2>2, Settled
<1>13. CASE EndBody
  BY <1>13 DEF EndBody, OwnStep, WireInv, AnswersMatch, Busy, Now, Quiet
<1>14. CASE EndBodyFails
  BY <1>14, FailTop, Settled DEF EndBodyFails, HangUp
<1> QED  BY <1>1, <1>2, <1>3, <1>4, <1>5, <1>6, <1>7, <1>8, <1>9, <1>10, <1>11, <1>12,
            <1>13, <1>14 DEF Client

\* So does the server, whenever it answers and whatever.
LEMMA ServerWire ==
    ASSUME WireInv, Server PROVE WireInv'
<1>1. ASSUME NEW x, Unserved, Answer(x), x.req = line.req PROVE WireInv'
  <2>1. at = "recv" /\ (OwnStep(Now.m) \/ conn = "open")
    BY <1>1 DEF Unserved, WireInv, AnswersMatch, Quiet
  <2>2. /\ line' = [req |-> line.req, ans |-> x]
        /\ at' = at /\ Now' = Now /\ Busy' = Busy /\ conn' = conn
    BY <1>1 DEF Answer, WireInv, exchangeVars, Now, Busy
  <2> QED  BY <1>1, <2>1, <2>2 DEF WireInv, AnswersMatch, OwnStep
<1>2. CASE Serve
  BY <1>1, <1>2 DEF Serve, AnswerTo
<1>3. CASE ServeBadly
  BY <1>1, <1>3 DEF ServeBadly, AnswerTo
<1>4. CASE ServeLate
  BY <1>4 DEF ServeLate, exchangeVars, WireInv, AnswersMatch, Busy, Now, OwnStep
<1>5. CASE IdleClose
  BY <1>5 DEF IdleClose, exchangeVars, WireInv, AnswersMatch, Busy, Now, OwnStep,
              OwnLine, Quiet
<1> QED  BY <1>2, <1>3, <1>4, <1>5 DEF Server

LEMMA WireStep == WireInv /\ [Next]_vars => WireInv'
<1>1. ASSUME WireInv, UNCHANGED vars PROVE WireInv'
  BY <1>1 DEF WireInv, AnswersMatch, vars, netVars, exchangeVars, Busy, Now, OwnStep
<1> QED  BY <1>1, CallerWire, ClientWire, ServerWire DEF Next

\* An answer that waits on a connection is to the request just sent on it, and
\* between exchanges nothing waits, whatever is lost, closed or late:
\* webdav_exchange() and s3_exchange_ex() close a connection after any failure.
THEOREM AnswersGoToRequests == Spec => []AnswersMatch
<1>1. Init => WireInv
  BY Settled DEF Init, WireInv, AnswersMatch, Quiet
<1>2. WireInv => AnswersMatch
  BY DEF WireInv
<1> QED  BY <1>1, <1>2, WireStep, PTL DEF Spec

-----------------------------------------------------------------------------
(* POSTs are carried out once.                                             *)

Methods == {"MKCOL", "PUT", "GET", "EXISTS", "DELETE", "LIST", "DIAL", "CHUNK", "STREAM",
            "INITIATE", "PART", "COMPLETE", "ABORT"}
Posts == {"INITIATE", "COMPLETE"}
Steps == [m : Methods, path : Seq(Name)]

\* The requests still to be made are a sequence, empty between calls.
PlanInv ==
    /\ todo \in Seq(Steps)
    /\ Busy => todo # <<>>
    /\ "key" \in DOMAIN h /\ h.key \in Seq(Name)

\* What makes ExecutedOnce inductive: a POST that was carried out has been
\* answered, and one left on a connection that was given up is not followed
\* by another in the same call.
OnceInv ==
    /\ line.req # NoRequest => line.req.m = Now.m
    /\ (\E r \in abandoned : r.m \in Posts) =>
           \A n \in 1 .. Len(todo) : todo[n].m \notin Posts
    /\ Busy /\ Now.m \in Posts =>
           \/ ran = 0
           \/ ran = 1 /\ at = "recv" /\ line.ans # NoAnswer

\* One request is a plan, and so are the collections above a key.
LEMMA StepType ==
    ASSUME NEW p \in Seq(Name)
    PROVE  \A m \in Methods : Step(m, p) \in Steps /\ <<Step(m, p)>> \in Seq(Steps)
BY DEF Step, Steps

LEMMA WalkType ==
    ASSUME NEW p \in Seq(Name), NEW n \in 1 .. Len(p) + 1
    PROVE  WalkTo(p)[n] \in Seq(Name)
<1>1. \A i \in 1 .. n - 1 : p[i] \in Name
  OBVIOUS
<1>2. SubSeq(p, 1, n - 1) \in Seq(Name)
  BY <1>1, SubSeqProperties
<1> QED  BY <1>2 DEF WalkTo

LEMMA FrontType ==
    ASSUME NEW k \in Seq(Name), k # <<>>
    PROVE  Front(k) \in Seq(Name) /\ Len(Front(k)) = Len(k) - 1
<1>1. Len(k) \in Nat /\ Len(k) >= 1 /\ \A i \in 1 .. Len(k) - 1 : k[i] \in Name
  OBVIOUS
<1>2. Front(k) = SubSeq(k, 1, Len(k) - 1)
  BY DEF Front
<1>3. CASE Len(k) = 1
  <2>1. Front(k) = <<>>
    BY <1>2, <1>3, SubSeqEmpty
  <2> QED  BY <2>1, <1>3
<1>4. CASE Len(k) > 1
  <2> DEFINE m == Len(k) - 1
  <2>1. m \in Int /\ m >= 1
    BY <1>1, <1>4
  <2>2. Front(k) = SubSeq(k, 1, m) /\ \A i \in 1 .. m : k[i] \in Name
    BY <1>1, <1>2
  <2> HIDE DEF m
  <2>3. SubSeq(k, 1, m) \in Seq(Name) /\ Len(SubSeq(k, 1, m)) = m
    BY <2>1, <2>2, SubSeqProperties
  <2>4. Front(k) \in Seq(Name) /\ Len(Front(k)) = m
    BY <2>2, <2>3
  <2>5. m = Len(k) - 1
    BY DEF m
  <2> QED  BY <2>4, <2>5, Zenon
<1>5. Len(k) = 1 \/ Len(k) > 1
  <2> DEFINE n == Len(k)
  <2>1. n \in Nat /\ n >= 1
    BY <1>1
  <2> HIDE DEF n
  <2>2. n = 1 \/ n > 1
    BY <2>1
  <2> QED  BY <2>2 DEF n
<1> QED  BY <1>3, <1>4, <1>5, Zenon

LEMMA ParentsType ==
    ASSUME NEW k \in Seq(Name), k # <<>>
    PROVE  Parents(k) \in Seq(Steps)
<1>1. CASE Len(k) = 1
  BY <1>1 DEF Parents
<1>2. CASE Len(k) # 1
  <2>1. Front(k) \in Seq(Name) /\ Len(Front(k)) + 1 = Len(k) /\ Len(k) \in Nat
    BY FrontType
  <2>2. ASSUME NEW n \in 1 .. Len(k)
        PROVE  Step("MKCOL", WalkTo(Front(k))[n]) \in Steps
    <3>1. WalkTo(Front(k))[n] \in Seq(Name)
      BY <2>1, WalkType
    <3> QED  BY <3>1 DEF Step, Steps, Methods
  <2>3. [n \in 1 .. Len(k) |-> Step("MKCOL", WalkTo(Front(k))[n])] \in Seq(Steps)
    BY <2>1, <2>2
  <2> QED  BY <1>2, <2>3 DEF Parents
<1> QED  BY <1>1, <1>2

\* What a call has to be for its plan to be one.
Callable(c) ==
    c.op \in {"put", "get", "exists", "remove", "list", "mkcol", "begin"} =>
        c.key \in Seq(Name) /\ c.key # <<>>

LEMMA NextPartType ==
    ASSUME NEW k \in Seq(Name)
    PROVE  NextPart(k) \in Seq(Steps)
<1>1. <<Step("INITIATE", k)>> \in Seq(Steps) /\ <<Step("PART", k)>> \in Seq(Steps)
  BY StepType DEF Methods
<1> QED  BY <1>1 DEF NextPart

LEMMA PlanType ==
    ASSUME NEW c, Callable(c), h.key \in Seq(Name)
    PROVE  Plan(c) \in Seq(Steps)
<1>1. PlanWebdav(c) \in Seq(Steps)
  <2>1. CASE c.op \in {"put", "begin"}
    <3>1. c.key \in Seq(Name) /\ c.key # <<>>
      BY <2>1 DEF Callable
    <3>2. Parents(c.key) \in Seq(Steps)
      BY <3>1, ParentsType
    <3>3. /\ <<Step("PUT", c.key)>> \in Seq(Steps)
          /\ <<Step("DIAL", c.key)>> \in Seq(Steps)
      BY <3>1, StepType DEF Methods
    <3> QED  BY <2>1, <3>2, <3>3 DEF PlanWebdav
  <2>2. CASE c.op = "mkcol"
    <3>1. c.key \in Seq(Name)
      BY <2>2 DEF Callable
    <3>2. ASSUME NEW n \in 1 .. Len(c.key) + 1
          PROVE  Step("MKCOL", WalkTo(c.key)[n]) \in Steps
      <4>1. WalkTo(c.key)[n] \in Seq(Name)
        BY <3>1, WalkType
      <4> QED  BY <4>1 DEF Step, Steps, Methods
    <3>3. [n \in 1 .. Len(c.key) + 1 |-> Step("MKCOL", WalkTo(c.key)[n])] \in Seq(Steps)
      BY <3>1, <3>2
    <3> QED  BY <2>2, <3>3 DEF PlanWebdav
  <2>3. CASE c.op \in {"get", "exists", "remove", "list"}
    <3>1. c.key \in Seq(Name)
      BY <2>3 DEF Callable
    <3>2. /\ <<Step("GET", c.key)>> \in Seq(Steps)
          /\ <<Step("EXISTS", c.key)>> \in Seq(Steps)
          /\ <<Step("DELETE", c.key)>> \in Seq(Steps)
          /\ <<Step("LIST", c.key)>> \in Seq(Steps)
      BY <3>1, StepType DEF Methods
    <3> QED  BY <2>3, <3>2 DEF PlanWebdav
  <2>4. CASE c.op \notin {"put", "begin", "mkcol", "get", "exists", "remove", "list"}
    <3>1. <<>> \in Seq(Name)
      OBVIOUS
    <3>2. /\ <<Step("MKCOL", <<>>)>> \in Seq(Steps)
          /\ <<Step("CHUNK", h.key)>> \in Seq(Steps)
          /\ <<Step("STREAM", h.key)>> \in Seq(Steps)
      BY <3>1, StepType DEF Methods
    <3> QED  BY <2>4, <3>2 DEF PlanWebdav
  <2> QED  BY <2>1, <2>2, <2>3, <2>4
<1>2. PlanS3(c) \in Seq(Steps)
  <2>1. CASE c.op \in {"put", "get", "exists", "remove", "list"}
    <3>1. c.key \in Seq(Name)
      BY <2>1 DEF Callable
    <3>2. /\ Step("PUT", c.key) \in Steps /\ Step("GET", c.key) \in Steps
          /\ Step("EXISTS", c.key) \in Steps /\ Step("DELETE", c.key) \in Steps
          /\ Step("LIST", c.key) \in Steps
      BY <3>1, StepType DEF Methods
    <3> QED  BY <2>1, <3>2 DEF PlanS3
  <2>2. CASE c.op \notin {"put", "get", "exists", "remove", "list"}
    <3>1. /\ <<Step("PUT", h.key)>> \in Seq(Steps)
          /\ <<Step("COMPLETE", h.key)>> \in Seq(Steps)
          /\ <<Step("ABORT", h.key)>> \in Seq(Steps)
      BY StepType DEF Methods
    <3>2. NextPart(h.key) \in Seq(Steps)
      BY NextPartType
    <3>3. CASE c.op = "finish"
      BY <3>1, <3>2, <3>3 DEF PlanS3
    <3>4. CASE c.op # "finish"
      BY <2>2, <3>1, <3>2, <3>4 DEF PlanS3
    <3> QED  BY <3>3, <3>4
  <2> QED  BY <2>1, <2>2
<1> QED  BY <1>1, <1>2 DEF Plan

\* The first request is one of the plan, and what is left of it is a plan.
LEMMA HeadTail ==
    ASSUME PlanInv, Busy
    PROVE  /\ Now = todo[1] /\ Now \in Steps /\ Len(todo) \in Nat /\ Len(todo) >= 1
           /\ Tail(todo) \in Seq(Steps) /\ Len(Tail(todo)) = Len(todo) - 1
           /\ \A n \in 1 .. Len(todo) - 1 : Tail(todo)[n] = todo[n + 1]
<1>1. todo \in Seq(Steps) /\ todo # <<>>
  BY DEF PlanInv
<1> QED  BY <1>1 DEF Now

\* A step that is done leaves the rest of the plan.
LEMMA AdvanceFacts ==
    ASSUME PlanInv, Busy, NEW x, Advance(x), "key" \in DOMAIN x, x.key \in Seq(Name)
    PROVE  /\ PlanInv' /\ ran' = 0
           /\ \A n \in 1 .. Len(todo') :
                 todo'[n].m \in Posts => \E k \in 1 .. Len(todo) : todo[k].m \in Posts
<1>1. ran' = 0 /\ (todo' = Tail(todo) \/ todo' = <<>>)
  BY DEF Advance, Return, Proceed
<1>2. Busy' => todo' # <<>>
  <2>1. CASE Len(todo) > 1 /\ todo' = Tail(todo)
    <3>1. Len(todo') # 0
      BY <2>1, HeadTail
    <3> QED  BY <3>1
  <2>2. CASE call' \in {Idle, Closed}
    BY <2>2 DEF Busy
  <2> QED  BY <2>1, <2>2 DEF Advance, Return, Proceed
<1>3. "key" \in DOMAIN h' /\ h'.key \in Seq(Name)
  <2>1. "key" \in DOMAIN NoHandle /\ NoHandle.key \in Seq(Name)
    BY DEF NoHandle
  <2> QED  BY <2>1 DEF Advance
<1>4. todo' \in Seq(Steps)
  <2>1. <<>> \in Seq(Steps)
    OBVIOUS
  <2> QED  BY <1>1, <2>1, HeadTail
<1>5. ASSUME NEW n \in 1 .. Len(todo'), todo'[n].m \in Posts
      PROVE  \E k \in 1 .. Len(todo) : todo[k].m \in Posts
  <2>1. todo' = Tail(todo)
    BY <1>1, <1>5
  <2>2. n + 1 \in 1 .. Len(todo) /\ todo'[n] = todo[n + 1]
    BY <2>1, <1>5, HeadTail
  <2> QED  BY <2>2, <1>5
<1> QED  BY <1>1, <1>2, <1>3, <1>4, <1>5 DEF PlanInv

\* After a step that failed no POST is made any more, unless the step was an
\* abort.
LEMMA FailFacts ==
    ASSUME PlanInv, Busy, StepFails
    PROVE  /\ PlanInv' /\ ran' = 0
           /\ \A n \in 1 .. Len(todo') :
                 todo'[n].m \in Posts =>
                     /\ Now.m \notin Posts
                     /\ \E k \in 1 .. Len(todo) : todo[k].m \in Posts
<1>1. CASE Now.m = "ABORT" /\ Advance(h)
  BY <1>1, AdvanceFacts DEF PlanInv, Posts
<1>2. CASE Now.m # "ABORT" /\ AbortsOnFailure
  <2>1. h' = [h EXCEPT !.failed = TRUE] /\ todo' = <<Step("ABORT", h.key)>> /\ ran' = 0
    BY <1>2 DEF StepFails, Proceed
  <2>2. "key" \in DOMAIN h' /\ h'.key = h.key
    BY <2>1 DEF PlanInv
  <2>3. <<Step("ABORT", h.key)>> \in Seq(Steps)
    BY StepType DEF PlanInv, Methods
  <2>4. Len(todo') = 1 /\ todo'[1].m = "ABORT" /\ todo' # <<>>
    BY <2>1 DEF Step
  <2> QED  BY <2>1, <2>2, <2>3, <2>4 DEF PlanInv, Posts
<1>3. CASE Now.m # "ABORT" /\ ~AbortsOnFailure
  <2>1. todo' = <<>> /\ ran' = 0 /\ call' \in {Idle, Closed}
    BY <1>3 DEF StepFails, Return, Proceed
  <2>2. h' \in {[h EXCEPT !.failed = TRUE], NoHandle, h}
    BY <1>3 DEF StepFails
  <2>3. "key" \in DOMAIN NoHandle /\ NoHandle.key \in Seq(Name)
    BY DEF NoHandle
  <2>4. "key" \in DOMAIN [h EXCEPT !.failed = TRUE]
        /\ [h EXCEPT !.failed = TRUE].key = h.key
    BY DEF PlanInv
  <2>5. "key" \in DOMAIN h' /\ h'.key \in Seq(Name)
    BY <2>2, <2>3, <2>4 DEF PlanInv
  <2>6. todo' \in Seq(Steps) /\ Len(todo') = 0
    BY <2>1
  <2> QED  BY <2>1, <2>5, <2>6 DEF PlanInv, Busy
<1> QED  BY <1>1, <1>2, <1>3 DEF StepFails

\* A call begins with a plan.
LEMMA AskFacts ==
    ASSUME NEW c, Ask(c), Callable(c), PlanInv, "key" \in DOMAIN h', h'.key \in Seq(Name)
    PROVE  PlanInv' /\ ran' = 0 /\ abandoned' = {} /\ line' = line
<1>1. Plan(c) \in Seq(Steps)
  BY PlanType DEF PlanInv
<1>2. ran' = 0 /\ abandoned' = {} /\ line' = line
  BY DEF Ask, Proceed
<1>3. todo' \in Seq(Steps)
  BY <1>1 DEF Ask, Proceed
<1>4. Busy' => todo' # <<>>
  BY DEF Ask, Proceed, Busy
<1> QED  BY <1>2, <1>3, <1>4 DEF PlanInv

\* An exchange that is over leaves OnceInv true, if no POST follows one that
\* was left behind.
LEMMA OnceFresh ==
    ASSUME line'.req = NoRequest, ran' = 0,
           (\E r \in abandoned' : r.m \in Posts) =>
               \A n \in 1 .. Len(todo') : todo'[n].m \notin Posts
    PROVE  OnceInv'
BY DEF OnceInv

LEMMA QuietReq == line = Quiet => line.req = NoRequest
BY DEF Quiet

\* A connection is given up and the step fails.
LEMMA HangUpOnce ==
    ASSUME PlanInv, OnceInv, Busy, HangUp, StepFails
    PROVE  PlanInv' /\ OnceInv'
<1>1. line'.req = NoRequest
  BY DEF HangUp, Quiet
<1>2. ASSUME NEW r \in abandoned', r.m \in Posts, NEW n \in 1 .. Len(todo'),
             todo'[n].m \in Posts
      PROVE  FALSE
  <2>1. Now.m \notin Posts /\ \E k \in 1 .. Len(todo) : todo[k].m \in Posts
    BY <1>2, FailFacts
  <2>2. r \notin abandoned
    BY <1>2, <2>1 DEF OnceInv
  <2>3. r = line.req /\ line.req # NoRequest
    BY <1>2, <2>2 DEF HangUp
  <2>4. r.m = Now.m
    BY <2>3 DEF OnceInv
  <2> QED  BY <1>2, <2>1, <2>4
<1> QED  BY <1>1, <1>2, FailFacts, OnceFresh

\* The step fails and nothing is left behind.
LEMMA FailOnce ==
    ASSUME PlanInv, OnceInv, Busy, StepFails, line'.req = NoRequest, abandoned' = abandoned
    PROVE  PlanInv' /\ OnceInv'
<1>1. ASSUME NEW r \in abandoned', r.m \in Posts, NEW n \in 1 .. Len(todo'),
             todo'[n].m \in Posts
      PROVE  FALSE
  BY <1>1, FailFacts DEF OnceInv
<1> QED  BY <1>1, FailFacts, OnceFresh

\* The step is done.
LEMMA AdvanceOnce ==
    ASSUME PlanInv, OnceInv, Busy, NEW x, Advance(x), "key" \in DOMAIN x,
           x.key \in Seq(Name), line'.req = NoRequest, abandoned' = abandoned
    PROVE  PlanInv' /\ OnceInv'
<1>1. ASSUME NEW r \in abandoned', r.m \in Posts, NEW n \in 1 .. Len(todo'),
             todo'[n].m \in Posts
      PROVE  FALSE
  BY <1>1, AdvanceFacts DEF OnceInv
<1> QED  BY <1>1, AdvanceFacts, OnceFresh

\* The connection is given up, and the request is sent again or the step fails.
LEMMA BrokenOnce ==
    ASSUME PlanInv, OnceInv, Busy, Broken
    PROVE  PlanInv' /\ OnceInv'
<1>1. CASE ~Retries
  BY <1>1, HangUpOnce DEF Broken
<1>2. CASE Retries
  <2>1. /\ HangUp /\ todo' = todo /\ call' = call /\ h' = h /\ ran' = ran
        /\ Now' = Now /\ Busy' = Busy
    BY <1>2 DEF Broken, Now, Busy
  <2>2. Now.m \notin Posts
    BY <1>2 DEF Retries, Idempotent, Posts
  <2>3. line'.req = NoRequest
    BY <2>1 DEF HangUp, Quiet
  <2>4. ASSUME NEW r \in abandoned', r.m \in Posts
        PROVE  r \in abandoned
    BY <2>1, <2>2, <2>4 DEF HangUp, OnceInv
  <2>5. PlanInv'
    BY <2>1 DEF PlanInv
  <2> QED  BY <2>1, <2>2, <2>3, <2>4, <2>5 DEF OnceInv
<1> QED  BY <1>1, <1>2

\* Every operation of the caller keeps the invariant.
LEMMA CallerOnce ==
    ASSUME WireInv, PlanInv, OnceInv, Caller
    PROVE  PlanInv' /\ OnceInv'
<1>1. line = Quiet /\ line.req = NoRequest
  <2>1. line = Quiet
    BY DEF WireInv, AnswersMatch, Caller, Open, Close, Plain, PutBegin, PutAppend,
           PutFinish, PutAbort, Busy
  <2> QED  BY <2>1, QuietReq
<1>2. ASSUME NEW c, Ask(c), Callable(c), "key" \in DOMAIN h', h'.key \in Seq(Name)
      PROVE  PlanInv' /\ OnceInv'
  BY <1>1, <1>2, AskFacts, OnceFresh
<1>3. "key" \in DOMAIN NoHandle /\ NoHandle.key \in Seq(Name)
  BY DEF NoHandle
<1>4. \A k \in Key : k \in Seq(Name) /\ k # <<>>
  BY KeyAssumption
<1>5. \A k \in Key : Len(k) > 1 => Front(k) \in Seq(Name) /\ Front(k) # <<>>
  <2>1. ASSUME NEW k \in Key, Len(k) > 1 PROVE Front(k) \in Seq(Name) /\ Front(k) # <<>>
    <3>1. Front(k) \in Seq(Name) /\ Len(Front(k)) = Len(k) - 1 /\ Len(k) \in Nat
      BY <1>4, FrontType
    <3>2. Len(Front(k)) # 0
      BY <2>1, <3>1
    <3> QED  BY <3>1, <3>2
  <2> QED  BY <2>1
<1>6. CASE Open
  BY <1>2, <1>6 DEF Open, Callable, PlanInv
<1>7. CASE Close
  <2>1. /\ todo' = todo /\ h' = h /\ ~Busy' /\ line' = line /\ abandoned' = {}
    BY <1>7 DEF Close, exchangeVars, Busy
  <2> QED  BY <1>1, <2>1 DEF PlanInv, OnceInv
<1>8. CASE Plain
  <2>1. h' = h
    BY <1>8 DEF Plain
  <2>2. ASSUME NEW k \in Key, NEW d \in Content, Ask([op |-> "put", key |-> k, data |-> d])
        PROVE  PlanInv' /\ OnceInv'
    BY <1>2, <1>4, <2>1, <2>2 DEF Callable, PlanInv
  <2>3. ASSUME NEW k \in Key, NEW op \in {"get", "exists", "remove"},
               Ask([op |-> op, key |-> k])
        PROVE  PlanInv' /\ OnceInv'
    BY <1>2, <1>4, <2>1, <2>3 DEF Callable, PlanInv
  <2>4. ASSUME NEW k \in Key, Len(k) > 1, NEW op \in {"list", "mkcol"},
               Ask([op |-> op, key |-> Front(k)])
        PROVE  PlanInv' /\ OnceInv'
    BY <1>2, <1>5, <2>1, <2>4 DEF Callable, PlanInv
  <2> QED  BY <1>8, <2>2, <2>3, <2>4 DEF Plain
<1>9. CASE PutBegin
  <2>1. PICK k \in Key, d \in Content :
            /\ Ask([op |-> "begin", key |-> k, data |-> d])
            /\ h' \in {NewHandle(k, d), NoHandle}
    BY <1>9 DEF PutBegin
  <2>2. "key" \in DOMAIN NewHandle(k, d) /\ NewHandle(k, d).key = k
    BY DEF NewHandle
  <2>3. "key" \in DOMAIN h' /\ h'.key \in Seq(Name)
    BY <1>3, <1>4, <2>1, <2>2
  <2>4. Callable([op |-> "begin", key |-> k, data |-> d])
    BY <1>4 DEF Callable
  <2> QED  BY <1>2, <2>1, <2>3, <2>4
<1>10. CASE PutAppend
  <2>1. PICK d : /\ Ask([op |-> "append", data |-> d])
                 /\ h' = [h EXCEPT !.sent = @ \o d,
                                   !.body = IF proto = "s3" THEN @ \o d ELSE @]
    BY <1>10 DEF PutAppend
  <2>2. "key" \in DOMAIN h' /\ h'.key = h.key
    BY <2>1 DEF PlanInv
  <2>3. Callable([op |-> "append", data |-> d])
    BY DEF Callable
  <2> QED  BY <1>2, <2>1, <2>2, <2>3 DEF PlanInv
<1>11. CASE PutFinish
  BY <1>2, <1>11 DEF PutFinish, Callable, PlanInv
<1>12. CASE PutAbort
  <2>1. Ask([op |-> "abort"]) /\ h' \in {NoHandle, h}
    BY <1>12 DEF PutAbort
  <2>2. Callable([op |-> "abort"])
    BY DEF Callable
  <2> QED  BY <1>2, <1>3, <2>1, <2>2 DEF PlanInv
<1> QED  BY <1>6, <1>7, <1>8, <1>9, <1>10, <1>11, <1>12 DEF Caller

\* A step of an exchange in which nothing is sent, served or given up.
LEMMA SameOnce ==
    ASSUME PlanInv, OnceInv, todo' = todo, call' = call, h' = h, ran' = ran,
           abandoned' = abandoned, line' = line, at # "recv"
    PROVE  PlanInv' /\ OnceInv'
<1>1. Now' = Now /\ Busy' = Busy
  BY DEF Now, Busy
<1>2. PlanInv'
  BY <1>1 DEF PlanInv
<1>3. Busy /\ Now.m \in Posts => ran = 0
  BY DEF OnceInv
<1> QED  BY <1>1, <1>2, <1>3 DEF OnceInv

\* A request is sent that was not carried out yet.
LEMMA SentOnce ==
    ASSUME PlanInv, OnceInv, todo' = todo, call' = call, h' = h, ran' = ran,
           abandoned' = abandoned, at # "recv",
           line' \in {line, [line EXCEPT !.req = Request]},
           line = [req |-> line.req, ans |-> line.ans]
    PROVE  PlanInv' /\ OnceInv'
<1>1. Now' = Now /\ Busy' = Busy
  BY DEF Now, Busy
<1>2. PlanInv'
  BY <1>1 DEF PlanInv
<1>3. Busy /\ Now.m \in Posts => ran = 0
  BY DEF OnceInv
<1>4. line'.req = line.req \/ line'.req.m = Now.m
  <2>1. CASE line' = [line EXCEPT !.req = Request]
    <3>1. line'.req = Request
      BY <2>1
    <3> QED  BY <3>1 DEF Request
  <2> QED  BY <2>1
<1>5. line'.req # NoRequest => line'.req.m = Now.m
  BY <1>4 DEF OnceInv
<1> QED  BY <1>1, <1>2, <1>3, <1>5 DEF OnceInv

\* The call returns.
LEMMA ReturnOnce ==
    ASSUME PlanInv, OnceInv, NEW r, Return(r), h' = h, line'.req = NoRequest
    PROVE  PlanInv' /\ OnceInv'
<1>1. todo' = <<>> /\ ran' = 0 /\ ~Busy'
  BY DEF Return, Proceed, Busy
<1>2. todo' \in Seq(Steps) /\ Len(todo') = 0
  BY <1>1
<1> QED  BY <1>1, <1>2, OnceFresh DEF PlanInv

\* Every step of an exchange and of a streamed upload keeps the invariant.
LEMMA ClientOnce ==
    ASSUME WireInv, PlanInv, OnceInv, Client
    PROVE  PlanInv' /\ OnceInv'
<1>1. CASE ForceFresh \/ Connect \/ Reuse
  BY <1>1, SameOnce DEF ForceFresh, Connect, Reuse, OnKept, exchangeVars, historyVars,
                        netVars
<1>2. CASE Send \/ EndBody
  <2>1. line' \in {line, [line EXCEPT !.req = Request]}
    BY <1>2 DEF Send, EndBody
  <2> QED  BY <1>2, <2>1, SentOnce DEF Send, EndBody, OnKept, historyVars, WireInv
<1>3. at # "recv" => line.req = NoRequest
  BY QuietReq DEF WireInv, AnswersMatch
<1>4. CASE ConnectFails \/ DialFails \/ ChunkFails
  <2>1. at # "recv" /\ Busy /\ StepFails /\ line' = line /\ abandoned' = abandoned
    BY <1>4 DEF ConnectFails, DialFails, ChunkFails, OnKept, netVars, WireInv
  <2> QED  BY <1>3, <2>1, FailOnce
<1>5. CASE SendFails \/ NoAnswerComes \/ Lose
  BY <1>5, BrokenOnce DEF SendFails, NoAnswerComes, Lose, OnKept
<1>6. CASE Garbled \/ EndBodyFails
  BY <1>6, HangUpOnce DEF Garbled, EndBodyFails
<1>7. CASE LeftOver
  <2>1. Busy /\ line = Quiet
    BY <1>7 DEF LeftOver, OnKept, WireInv
  <2>2. CASE Broken
    BY <2>1, <2>2, BrokenOnce
  <2>3. CASE HangUp /\ StepFails
    BY <2>1, <2>3, HangUpOnce
  <2>4. CASE UNCHANGED <<own, body, line, abandoned>> /\ StepFails
    BY <2>1, <2>4, QuietReq, FailOnce
  <2> QED  BY <1>7, <2>2, <2>3, <2>4 DEF LeftOver
<1>8. Quiet.req = NoRequest
  BY DEF Quiet
<1>9. ASSUME NEW a, Receive(a)
      PROVE  Busy /\ line'.req = NoRequest /\ abandoned' = abandoned
  BY <1>8, <1>9 DEF Receive
<1>10. CASE GoOn
  BY <1>9, <1>10, AdvanceOnce DEF GoOn, PlanInv
<1>11. CASE GotUpload
  <2>1. PICK a : Receive(a) /\ Advance([h EXCEPT !.upload = a.id])
    BY <1>11 DEF GotUpload
  <2>2. /\ "key" \in DOMAIN [h EXCEPT !.upload = a.id]
        /\ [h EXCEPT !.upload = a.id].key = h.key
    BY Zenon DEF PlanInv
  <2> QED  BY <1>9, <2>1, <2>2, AdvanceOnce DEF PlanInv
<1>12. CASE GotETag
  <2>1. PICK a : /\ Receive(a)
                 /\ Advance(Emptied([h EXCEPT !.etags = Append(@, a.data)]))
    BY <1>12 DEF GotETag
  <2> DEFINE x == [h EXCEPT !.etags = Append(@, a.data)]
  <2>2. "key" \in DOMAIN x /\ x.key = h.key
    BY Zenon DEF PlanInv
  <2> HIDE DEF x
  <2>3. "key" \in DOMAIN Emptied(x) /\ Emptied(x).key = h.key
    BY <2>2, Zenon DEF Emptied
  <2>4. Advance(Emptied(x))
    BY <2>1 DEF x
  <2> QED  BY <1>9, <2>1, <2>3, <2>4, AdvanceOnce DEF PlanInv
<1>13. CASE GotContent \/ NotThere
  <2>1. PICK a, r : Receive(a) /\ Return(r) /\ h' = h
    BY <1>13 DEF GotContent, NotThere
  <2> QED  BY <1>9, <2>1, ReturnOnce
<1>14. CASE GotPage
  <2>1. PICK a : Receive(a) /\ h' = h
    BY <1>14 DEF GotPage
  <2>2. CASE Proceed(todo) /\ call' = call
    <3>1. todo' = todo /\ ran' = 0 /\ Busy' = Busy
      BY <2>2 DEF Proceed, Busy
    <3> QED  BY <1>9, <2>1, <3>1, OnceFresh DEF PlanInv, OnceInv
  <2>3. CASE \E r : Return(r)
    BY <1>9, <2>1, <2>3, ReturnOnce
  <2> QED  BY <1>14, <2>2, <2>3 DEF GotPage
<1>15. CASE Rejected
  BY <1>9, <1>15, FailOnce DEF Rejected
<1>16. CASE Dial
  <2>1. at # "recv" /\ Busy /\ line' = line /\ abandoned' = abandoned
        /\ Advance(NewHandle(Now.path, call.data))
    BY <1>16 DEF Dial, WireInv
  <2>2. Now.path \in Seq(Name)
    BY <2>1, HeadTail DEF Steps
  <2>3. "key" \in DOMAIN NewHandle(Now.path, call.data)
        /\ NewHandle(Now.path, call.data).key = Now.path
    BY DEF NewHandle
  <2> QED  BY <1>3, <2>1, <2>2, <2>3, AdvanceOnce
<1>17. CASE SendChunk
  <2>1. at # "recv" /\ Busy /\ line' = line /\ abandoned' = abandoned /\ Advance(h)
    BY <1>17 DEF SendChunk, WireInv
  <2> QED  BY <1>3, <2>1, AdvanceOnce DEF PlanInv
<1> QED  BY <1>1, <1>2, <1>4, <1>5, <1>6, <1>7, <1>10, <1>11, <1>12, <1>13, <1>14, <1>15,
            <1>16, <1>17 DEF Client

\* The server carries out a request that waits, once, and one left behind
\* only if the current one is no POST.
LEMMA ServerOnce ==
    ASSUME WireInv, PlanInv, OnceInv, Server
    PROVE  PlanInv' /\ OnceInv'
<1>1. ASSUME NEW x, Unserved, Answer(x), x # NoAnswer, ran' = ran + 1 \/ ran' = ran
      PROVE  PlanInv' /\ OnceInv'
  <2>1. /\ todo' = todo /\ call' = call /\ h' = h /\ at' = at /\ abandoned' = abandoned
        /\ Now' = Now /\ Busy' = Busy
    BY <1>1 DEF Answer, exchangeVars, Now, Busy
  <2>2. line'.req = line.req /\ line'.ans = x
    BY <1>1 DEF Answer, WireInv
  <2>3. at = "recv"
    BY <1>1, QuietReq DEF Unserved, WireInv, AnswersMatch
  <2>4. Busy /\ Now.m \in Posts => ran = 0
    BY <1>1 DEF Unserved, OnceInv
  <2>5. Busy /\ Now.m \in Posts => ran' = 0 \/ ran' = 1
    BY <1>1, <2>4
  <2>6. PlanInv'
    BY <2>1 DEF PlanInv
  <2> QED  BY <1>1, <2>1, <2>2, <2>3, <2>5, <2>6 DEF OnceInv
<1>2. \A x : "req" \in DOMAIN x => x # NoAnswer
  BY DEF NoAnswer
<1>3. "req" \in DOMAIN AnswerTo(line.req)
  BY DEF AnswerTo
<1>4. CASE Serve
  BY <1>1, <1>2, <1>3, <1>4 DEF Serve
<1>5. CASE ServeBadly
  <2> DEFINE a == AnswerTo(line.req)
  <2>4. "req" \in DOMAIN a
    BY <1>3
  <2> HIDE DEF a
  <2>3. \E x : Answer(x) /\ "req" \in DOMAIN x
    <3>1. \A st : "req" \in DOMAIN [a EXCEPT !.st = st]
      BY <2>4, Zenon
    <3>2. "req" \in DOMAIN [a EXCEPT !.st = "unframed", !.names = {}, !.more = FALSE]
      BY <2>4, Zenon
    <3>3. "req" \in DOMAIN [a EXCEPT !.names = {}, !.more = TRUE]
      BY <2>4, Zenon
    <3>4. \/ \E st : Answer([a EXCEPT !.st = st])
          \/ Answer([a EXCEPT !.st = "unframed", !.names = {}, !.more = FALSE])
          \/ Answer([a EXCEPT !.names = {}, !.more = TRUE])
      BY <1>5, Zenon DEF ServeBadly, a
    <3> QED  BY <3>1, <3>2, <3>3, <3>4, Zenon
  <2>1. PICK x : Answer(x) /\ "req" \in DOMAIN x
    BY <2>3
  <2>2. ran' = ran + 1 \/ ran' = ran
    BY <1>5 DEF ServeBadly
  <2> QED  BY <1>1, <1>2, <1>5, <2>1, <2>2 DEF ServeBadly
<1>6. CASE ServeLate
  <2>1. PICK r \in abandoned :
            /\ abandoned' = abandoned \ {r}
            /\ ran' = IF Busy /\ <<r.m, r.path>> = <<Now.m, Now.path>>
                      THEN ran + 1 ELSE ran
            /\ todo' = todo /\ call' = call /\ h' = h /\ at' = at /\ line' = line
            /\ Now' = Now /\ Busy' = Busy
    BY <1>6 DEF ServeLate, exchangeVars, Now, Busy
  <2>2. ASSUME Busy, Now.m \in Posts PROVE r.m # Now.m
    <3>1. 1 \in 1 .. Len(todo) /\ todo[1].m \in Posts
      BY <2>2, HeadTail
    <3> QED  BY <2>1, <2>2, <3>1 DEF OnceInv
  <2>3. Busy /\ Now.m \in Posts => ran' = ran
    BY <2>1, <2>2
  <2>4. PlanInv'
    BY <2>1 DEF PlanInv
  <2> QED  BY <2>1, <2>3, <2>4 DEF OnceInv
<1>7. CASE IdleClose
  <2>1. /\ todo' = todo /\ call' = call /\ h' = h /\ at' = at /\ abandoned' = abandoned
        /\ ran' = ran /\ Now' = Now /\ Busy' = Busy
    BY <1>7 DEF IdleClose, exchangeVars, historyVars, Now, Busy
  <2>2. line' = line \/ (line.ans = NoAnswer /\ line' = Quiet)
    BY <1>7 DEF IdleClose
  <2>3. PlanInv'
    BY <2>1 DEF PlanInv
  <2>4. line'.req # NoRequest => line'.req.m = Now.m
    BY <2>2, QuietReq DEF OnceInv, Quiet
  <2>5. line.ans # NoAnswer => line' = line
    BY <2>2
  <2> QED  BY <2>1, <2>3, <2>4, <2>5 DEF OnceInv
<1> QED  BY <1>4, <1>5, <1>6, <1>7 DEF Server

LEMMA OnceStep ==
    WireInv /\ PlanInv /\ OnceInv /\ [Next]_vars => PlanInv' /\ OnceInv'
<1>1. ASSUME PlanInv, OnceInv, UNCHANGED vars PROVE PlanInv' /\ OnceInv'
  <2>1. /\ todo' = todo /\ call' = call /\ h' = h /\ at' = at /\ abandoned' = abandoned
        /\ ran' = ran /\ line' = line /\ Now' = Now /\ Busy' = Busy
    BY <1>1 DEF vars, netVars, exchangeVars, historyVars, Now, Busy
  <2> QED  BY <1>1, <2>1 DEF PlanInv, OnceInv
<1> QED  BY <1>1, CallerOnce, ClientOnce, ServerOnce DEF Next

\* A POST, which starts or completes an upload, is carried out at most once,
\* however often connections break and answers come late: s3_exchange_ex()
\* sends it only on a fresh connection and does not send it again.
THEOREM PostsOnce == Spec => []ExecutedOnce
<1>1. Init => WireInv /\ PlanInv /\ OnceInv
  <2> SUFFICES ASSUME Init PROVE WireInv /\ PlanInv /\ OnceInv
    OBVIOUS
  <2>1. WireInv
    BY DEF Init, WireInv, AnswersMatch, Quiet
  <2>2. todo \in Seq(Steps) /\ ~Busy /\ line.req = NoRequest /\ abandoned = {} /\ h = NoHandle
    BY QuietReq DEF Init, Busy
  <2>3. "key" \in DOMAIN NoHandle /\ NoHandle.key \in Seq(Name)
    BY DEF NoHandle
  <2> QED  BY <2>1, <2>2, <2>3 DEF PlanInv, OnceInv
<1>2. OnceInv => ExecutedOnce
  BY DEF OnceInv, ExecutedOnce, Posts
<1> QED  BY <1>1, <1>2, WireStep, OnceStep, PTL DEF Spec

-----------------------------------------------------------------------------
(* Pages.                                                                  *)

\* A finite set has subsets of every size up to its own.
LEMMA SubsetOfSize ==
    ASSUME NEW S, IsFiniteSet(S), NEW n \in Nat, n <= Cardinality(S)
    PROVE  \E T \in SUBSET S : Cardinality(T) = n
<1>1. Cardinality(S) \in Nat /\ ExistsBijection(1 .. Cardinality(S), S)
  BY FS_CardinalityType
<1>2. PICK f : f \in Bijection(1 .. Cardinality(S), S)
  BY <1>1 DEF ExistsBijection
<1>3. /\ f \in [1 .. Cardinality(S) -> S]
      /\ \A i, j \in 1 .. Cardinality(S) : f[i] = f[j] => i = j
  BY <1>2 DEF Bijection, Injection, IsInjective
<1> DEFINE T == {f[i] : i \in 1 .. n}
           g == [i \in 1 .. n |-> f[i]]
<1>4. T \in SUBSET S
  BY <1>1, <1>3
<1>5. g \in Bijection(1 .. n, T)
  <2>1. \A i \in 1 .. n : i \in 1 .. Cardinality(S)
    BY <1>1
  <2>2. g \in [1 .. n -> T] /\ \A t \in T : \E i \in 1 .. n : g[i] = t
    OBVIOUS
  <2>3. \A i, j \in 1 .. n : g[i] = g[j] => i = j
    BY <1>3, <2>1
  <2>4. IsInjective(g)
    BY <2>2, <2>3 DEF IsInjective
  <2> HIDE DEF g, T
  <2> QED  BY <2>2, <2>4 DEF Bijection, Injection, Surjection
<1>6. Cardinality(T) = n
  <2> HIDE DEF g, T
  <2> QED  BY <1>5, FS_CountingElements DEF ExistsBijection
<1> QED  BY <1>4, <1>6

\* What is below a collection is made of names, and a page is a part of it.
LEMMA PageIsPart ==
    ASSUME IsFiniteSet(Name), cols \subseteq Seq(Name), NEW r, r.path \in Seq(Name)
    PROVE  Below(r.path) \subseteq Name /\ Page(r) \subseteq Below(r.path) \ r.tok
<1> DEFINE p == r.path
           rest == Below(p) \ r.tok
<1>1. Below(p) \subseteq Name
  <2>1. ASSUME NEW k \in Seq(Name), IsStrictPrefix(p, k) PROVE k[Len(p) + 1] \in Name
    <3>1. Len(p) \in Nat /\ Len(k) \in Nat /\ Len(p) <= Len(k)
      BY <2>1 DEF IsStrictPrefix, IsPrefix
    <3>2. Len(p) # Len(k)
      BY <2>1 DEF IsStrictPrefix, IsPrefix
    <3>3. Len(p) + 1 \in 1 .. Len(k)
      BY <3>1, <3>2
    <3> QED  BY <2>1, <3>3
  <2>2. \A k \in {k \in Key : store[k] # Absent} \cup cols : k \in Seq(Name)
    BY KeyAssumption
  <2> QED  BY <2>1, <2>2 DEF Below
<1>2. IsFiniteSet(rest)
  <2>1. rest \in SUBSET Name
    BY <1>1
  <2> QED  BY <2>1, FS_Subset
<1>3. Cardinality(rest) \in Nat
  BY <1>2, FS_CardinalityType
<1> DEFINE size == IF proto = "s3" /\ Cardinality(rest) > PageSize
                   THEN PageSize ELSE Cardinality(rest)
<1>4. size \in Nat /\ size <= Cardinality(rest)
  <2> HIDE DEF rest
  <2> QED  BY <1>3, SizeAssumption
<1>5. \E T \in SUBSET rest : Cardinality(T) = size
  <2> HIDE DEF rest, size
  <2> QED  BY <1>2, <1>4, SubsetOfSize
<1>6. Page(r) = CHOOSE T \in SUBSET rest : Cardinality(T) = size
  BY DEF Page
<1>7. Page(r) \in SUBSET rest
  <2> HIDE DEF rest, size
  <2> QED  BY <1>5, <1>6
<1> QED  BY <1>1, <1>7

\* Reporting names that were not reported yet reports each once.
LEMMA ReportedOnce ==
    ASSUME NEW S, NEW T, S \cap T = {}
    PROVE  SetToBag(S) (+) SetToBag(T) = SetToBag(S \cup T)
BY DEF SetToBag, (+)

-----------------------------------------------------------------------------
(* What the server holds.                                                  *)

\* Whatever is stored on a WebDAV server, or is a collection there, is in
\* collections all the way up.
Rooted ==
    proto = "webdav" =>
        \A q \in {k \in Key : store[k] # Absent} \cup cols :
            \A p \in Seq(Name) : IsStrictPrefix(p, q) => p \in cols

HeldInv ==
    /\ DOMAIN store = Key /\ cols \subseteq Seq(Name)
    /\ Rooted

\* WebDAV has no POSTs, and every request has a path.
Sound(r) == r.path \in Seq(Name) /\ (proto = "webdav" => r.m \notin Posts)

SoundInv ==
    /\ proto = "webdav" => \A n \in 1 .. Len(todo) : todo[n].m \notin Posts
    /\ line.req # NoRequest => Sound(line.req)
    /\ \A r \in abandoned : Sound(r)

\* A prefix of k that is not all of its front is a prefix of its front.
LEMMA FrontPrefix ==
    ASSUME NEW k \in Seq(Name), NEW p \in Seq(Name), IsStrictPrefix(p, k)
    PROVE  k # <<>> /\ (p = Front(k) \/ IsStrictPrefix(p, Front(k)))
<1>1. Len(p) \in Nat /\ Len(k) \in Nat /\ Len(p) <= Len(k)
  BY DEF IsStrictPrefix, IsPrefix
<1>2. \A i \in 1 .. Len(p) : p[i] = k[i]
  BY DEF IsStrictPrefix, IsPrefix
<1>3. Len(p) # Len(k)
  BY <1>2 DEF IsStrictPrefix
<1>4. k # <<>> /\ Len(p) <= Len(k) - 1
  BY <1>1, <1>3
<1>5. Front(k) \in Seq(Name) /\ Len(Front(k)) = Len(k) - 1
  BY <1>4, FrontType
<1>6. \A i \in 1 .. Len(k) - 1 : Front(k)[i] = k[i]
  BY <1>1 DEF Front
<1>7. \A i \in 1 .. Len(p) : p[i] = Front(k)[i]
  BY <1>1, <1>2, <1>4, <1>6
<1>8. CASE Len(p) = Len(k) - 1
  BY <1>5, <1>7, <1>8
<1>9. CASE Len(p) # Len(k) - 1
  <2>1. SubSeq(p, 1, Len(p)) = SubSeq(Front(k), 1, Len(p))
    BY <1>1, <1>4, <1>5, <1>7
  <2>2. Len(p) <= Len(Front(k)) /\ p # Front(k)
    BY <1>4, <1>5, <1>9
  <2> QED  BY <2>1, <2>2 DEF IsStrictPrefix, IsPrefix
<1> QED  BY <1>4, <1>8, <1>9

\* A request that is carried out creates nothing outside a collection.
LEMMA ExecuteHeld ==
    ASSUME HeldInv, NEW r, Sound(r), Execute(r)
    PROVE  HeldInv'
<1> DEFINE Held == {k \in Key : store[k] # Absent} \cup cols
<1>1. proto' = proto /\ DOMAIN store' = Key /\ cols' \subseteq Seq(Name)
  BY DEF Execute, HeldInv, Sound
<1>2. cols \subseteq cols'
  BY DEF Execute
<1>3. ASSUME proto = "webdav", NEW q \in Held'
      PROVE  q \in Held \/ (q = r.path /\ CanCreate(r.path))
  <2>1. CASE q \in cols' /\ q \notin cols
    BY <2>1 DEF Execute, StatusOf
  <2>2. CASE q \in Key /\ store'[q] # Absent /\ store[q] = Absent
    <3>1. r.m \notin Posts
      BY <1>3 DEF Sound
    <3>2. StatusOf(r) = "ok" /\ r.m \in {"PUT", "STREAM"}
          /\ store' = [store EXCEPT ![r.path] = r.data]
      <4>1. store' # store
        BY <2>2
      <4>2. store' # [store EXCEPT ![r.path] = Absent]
        BY <2>2 DEF HeldInv
      <4> QED  BY <3>1, <4>1, <4>2 DEF Execute, Posts
    <3>3. CanCreate(r.path)
      BY <1>3, <3>2 DEF StatusOf
    <3>4. q = r.path
      BY <2>2, <3>2 DEF HeldInv
    <3> QED  BY <3>3, <3>4
  <2> QED  BY <2>1, <2>2
<1>4. ASSUME proto' = "webdav", NEW q \in Held', NEW p \in Seq(Name), IsStrictPrefix(p, q)
      PROVE  p \in cols'
  <2>1. CASE q \in Held
    BY <1>1, <1>2, <1>4, <2>1 DEF HeldInv, Rooted
  <2>2. CASE q = r.path /\ CanCreate(r.path)
    <3>1. q \in Seq(Name) /\ q # <<>> /\ (p = Front(q) \/ IsStrictPrefix(p, Front(q)))
      BY <1>4, <2>2, FrontPrefix DEF Sound
    <3>2. Front(q) \in cols
      BY <2>2, <3>1 DEF CanCreate
    <3> QED  BY <1>1, <1>2, <1>4, <3>1, <3>2 DEF HeldInv, Rooted
  <2> QED  BY <1>1, <1>3, <1>4, <2>1, <2>2
<1> QED  BY <1>1, <1>4 DEF HeldInv, Rooted

\* What a listing of a collection that is not there would report: nothing.
LEMMA NothingBelow ==
    ASSUME HeldInv, NEW p \in Seq(Name), proto = "webdav", p \notin cols
    PROVE  Below(p) = {}
BY DEF HeldInv, Rooted, Below

\* The plan of a WebDAV call has no POST.
LEMMA PlanPosts ==
    ASSUME NEW c, Callable(c), h.key \in Seq(Name), proto = "webdav",
           NEW n \in 1 .. Len(Plan(c))
    PROVE  Plan(c)[n].m \notin Posts
<1> DEFINE Free(s) == \A i \in 1 .. Len(s) : s[i].m \notin Posts
<1>1. \A m, p : Step(m, p).m = m
  BY DEF Step
<1>2. CASE c.op \in {"put", "begin"}
  <2>1. c.key \in Seq(Name) /\ c.key # <<>>
    BY <1>2 DEF Callable
  <2>2. Parents(c.key) \in Seq(Steps)
    BY <2>1, ParentsType
  <2>3. Free(Parents(c.key))
    BY <1>1, <2>1 DEF Parents, Posts
  <2>4. ASSUME NEW m \in Methods, m \notin Posts
        PROVE  Free(Parents(c.key) \o <<Step(m, c.key)>>)
    <3>1. Step(m, c.key) \in Steps
      BY <2>1, StepType
    <3> QED  BY <1>1, <2>2, <2>3, <2>4, <3>1
  <2>5. Free(PlanWebdav(c))
    BY <1>2, <2>4 DEF PlanWebdav, Methods, Posts
  <2> QED  BY <2>5 DEF Plan
<1>3. CASE c.op = "mkcol"
  <2>1. PlanWebdav(c) = [i \in 1 .. Len(c.key) + 1 |-> Step("MKCOL", WalkTo(c.key)[i])]
    BY <1>3 DEF PlanWebdav
  <2>2. Len(c.key) \in Nat
    BY <1>3 DEF Callable
  <2>3. Free(PlanWebdav(c))
    BY <1>1, <2>1, <2>2 DEF Posts
  <2> QED  BY <2>3 DEF Plan
<1>4. CASE c.op \notin {"put", "begin", "mkcol"}
  <2>1. \E m, p : m \notin Posts /\ PlanWebdav(c) \in {<<>>, <<Step(m, p)>>}
    BY <1>4 DEF PlanWebdav, Posts
  <2>2. Free(PlanWebdav(c))
    BY <1>1, <2>1
  <2> QED  BY <2>2 DEF Plan
<1> QED  BY <1>2, <1>3, <1>4

\* What a step of an exchange does to the requests still to be made.
LEMMA ClientMoves ==
    ASSUME PlanInv, Client
    PROVE  /\ Busy /\ proto' = proto
           /\ \/ todo' = todo
              \/ StepFails
              \/ \E x : Advance(x) /\ "key" \in DOMAIN x /\ x.key \in Seq(Name)
              \/ \E r : Return(r)
<1>1. CASE ForceFresh \/ Connect \/ ConnectFails \/ Reuse \/ Send \/ EndBody
  BY <1>1 DEF ForceFresh, Connect, ConnectFails, Reuse, Send, EndBody, OnKept, serverVars,
              exchangeVars
<1>2. CASE SendFails \/ NoAnswerComes \/ Lose \/ Garbled \/ LeftOver \/ EndBodyFails
  BY <1>2 DEF SendFails, NoAnswerComes, Lose, Garbled, LeftOver, EndBodyFails, OnKept,
              Broken, serverVars
<1>3. CASE GoOn \/ GotContent \/ NotThere \/ GotPage \/ Rejected
  BY <1>3 DEF GoOn, GotContent, NotThere, GotPage, Rejected, Receive, Proceed, PlanInv,
              serverVars
<1>4. CASE GotUpload
  <2>1. PICK a : Receive(a) /\ Advance([h EXCEPT !.upload = a.id])
    BY <1>4 DEF GotUpload
  <2>2. /\ "key" \in DOMAIN [h EXCEPT !.upload = a.id]
        /\ [h EXCEPT !.upload = a.id].key = h.key
    BY Zenon DEF PlanInv
  <2> QED  BY <2>1, <2>2 DEF Receive, serverVars, PlanInv
<1>5. CASE GotETag
  <2>1. PICK a : /\ Receive(a)
                 /\ Advance(Emptied([h EXCEPT !.etags = Append(@, a.data)]))
    BY <1>5 DEF GotETag
  <2> DEFINE x == [h EXCEPT !.etags = Append(@, a.data)]
  <2>2. "key" \in DOMAIN x /\ x.key = h.key
    BY Zenon DEF PlanInv
  <2> HIDE DEF x
  <2>3. "key" \in DOMAIN Emptied(x) /\ Emptied(x).key = h.key
    BY <2>2, Zenon DEF Emptied
  <2>4. Advance(Emptied(x))
    BY <2>1 DEF x
  <2> QED  BY <2>1, <2>3, <2>4 DEF Receive, serverVars, PlanInv
<1>6. CASE Dial
  <2>1. Busy /\ proto' = proto /\ Advance(NewHandle(Now.path, call.data))
    BY <1>6 DEF Dial, serverVars
  <2>2. Now.path \in Seq(Name)
    BY <2>1, HeadTail DEF Steps
  <2>3. "key" \in DOMAIN NewHandle(Now.path, call.data)
        /\ NewHandle(Now.path, call.data).key = Now.path
    BY DEF NewHandle
  <2> QED  BY <2>1, <2>2, <2>3
<1>7. CASE DialFails \/ SendChunk \/ ChunkFails
  BY <1>7 DEF DialFails, SendChunk, ChunkFails, serverVars, PlanInv
<1> QED  BY <1>1, <1>2, <1>3, <1>4, <1>5, <1>6, <1>7 DEF Client

\* What it does to the connection, and to the requests left behind.
LEMMA ClientLine ==
    ASSUME WireInv, Client
    PROVE  /\ \/ line'.req = NoRequest
              \/ line' = line
              \/ (Send \/ EndBody) /\ line'.req = Request
           /\ \/ abandoned' = abandoned
              \/ abandoned' = abandoned \cup {line.req} /\ line.req # NoRequest
<1>1. Quiet.req = NoRequest
  BY DEF Quiet
<1>2. HangUp => line' = Quiet /\ (\/ abandoned' = abandoned
                                  \/ abandoned' = abandoned \cup {line.req}
                                     /\ line.req # NoRequest)
  BY DEF HangUp
<1>3. CASE ForceFresh \/ Connect \/ ConnectFails \/ Reuse \/ Dial \/ DialFails
           \/ SendChunk \/ ChunkFails
  BY <1>3 DEF ForceFresh, Connect, ConnectFails, Reuse, Dial, DialFails, SendChunk,
              ChunkFails, netVars
<1>4. CASE Send \/ EndBody
  <2>1. abandoned' = abandoned /\ line' \in {line, [line EXCEPT !.req = Request]}
    BY <1>4 DEF Send, EndBody
  <2>2. [line EXCEPT !.req = Request].req = Request
    BY DEF WireInv
  <2> QED  BY <1>4, <2>1, <2>2
<1>5. CASE SendFails \/ NoAnswerComes \/ Lose \/ Garbled \/ LeftOver \/ EndBodyFails
  BY <1>1, <1>2, <1>5 DEF SendFails, NoAnswerComes, Lose, Garbled, LeftOver, EndBodyFails,
                          Broken
<1>6. CASE GoOn \/ GotContent \/ NotThere \/ GotPage \/ GotUpload \/ GotETag \/ Rejected
  BY <1>1, <1>6 DEF GoOn, GotContent, NotThere, GotPage, GotUpload, GotETag, Rejected,
                    Receive
<1> QED  BY <1>3, <1>4, <1>5, <1>6 DEF Client

\* No step of an exchange makes a WebDAV call send a POST.
LEMMA ClientSound ==
    ASSUME WireInv, PlanInv, SoundInv, Client
    PROVE  SoundInv'
<1>1. Busy /\ proto' = proto
  BY ClientMoves
<1>2. ASSUME NEW n \in 1 .. Len(todo'), todo'[n].m \in Posts
      PROVE  \E k \in 1 .. Len(todo) : todo[k].m \in Posts
  <2>1. CASE todo' = todo
    BY <1>2, <2>1
  <2>2. CASE StepFails
    BY <1>1, <1>2, <2>2, FailFacts
  <2>3. CASE \E x : Advance(x) /\ "key" \in DOMAIN x /\ x.key \in Seq(Name)
    BY <1>1, <1>2, <2>3, AdvanceFacts
  <2>4. CASE \E r : Return(r)
    BY <1>2, <2>4 DEF Return, Proceed
  <2> QED  BY <2>1, <2>2, <2>3, <2>4, ClientMoves
<1>3. ASSUME line'.req # NoRequest PROVE Sound(line.req)'
  <2>1. CASE line' = line
    BY <1>1, <1>3, <2>1 DEF SoundInv, Sound
  <2>2. CASE line'.req = Request
    <3>1. Request.m = Now.m /\ Request.path = Now.path
      BY DEF Request
    <3>2. Now \in Steps /\ Now = todo[1] /\ 1 \in 1 .. Len(todo)
      BY <1>1, HeadTail
    <3> QED  BY <1>1, <2>2, <3>1, <3>2 DEF SoundInv, Sound, Steps
  <2> QED  BY <1>3, <2>1, <2>2, ClientLine
<1>4. ASSUME NEW r \in abandoned' PROVE Sound(r)'
  <2>1. Sound(r)
    BY ClientLine DEF SoundInv
  <2> QED  BY <1>1, <2>1 DEF Sound
<1> QED  BY <1>1, <1>2, <1>3, <1>4 DEF SoundInv

\* What the caller asks for: a plan of its own, and nothing left over.
LEMMA CallerAsks ==
    ASSUME WireInv, PlanInv, Caller
    PROVE  /\ line = Quiet /\ line' = line /\ abandoned' = {} /\ UNCHANGED serverVars
           /\ \/ Close
              \/ \E c : Ask(c) /\ Callable(c) /\ (c.op = "list" => Plain)
<1>1. line = Quiet
  BY DEF WireInv, AnswersMatch, Caller, Open, Close, Plain, PutBegin, PutAppend,
         PutFinish, PutAbort, Busy
<1>2. \A k \in Key : k \in Seq(Name) /\ k # <<>>
  BY KeyAssumption
<1>3. ASSUME NEW k \in Key, Len(k) > 1 PROVE Front(k) \in Seq(Name) /\ Front(k) # <<>>
  <2>1. Front(k) \in Seq(Name) /\ Len(Front(k)) = Len(k) - 1 /\ Len(k) \in Nat
    BY <1>2, FrontType
  <2>2. Len(Front(k)) # 0
    <3> DEFINE n == Len(k)
               m == Len(Front(k))
    <3>1. n > 1 /\ m = n - 1 /\ n \in Nat
      BY <1>3, <2>1
    <3> HIDE DEF n, m
    <3>2. m # 0
      BY <3>1
    <3> QED  BY <3>2 DEF m
  <2> QED  BY <2>1, <2>2
<1>4. CASE Close
  BY <1>1, <1>4 DEF Close
<1>5. ASSUME ~Close PROVE \E c : Ask(c) /\ Callable(c) /\ (c.op = "list" => Plain)
  <2>1. CASE Open \/ PutAppend \/ PutFinish \/ PutAbort
    <3>1. \E c : Ask(c) /\ c.op \in {"open", "append", "finish", "abort"}
      <4>1. CASE Open
        BY <4>1 DEF Open
      <4>2. CASE PutAppend
        <5>1. PICK d : Ask([op |-> "append", data |-> d])
          BY <4>2 DEF PutAppend
        <5> QED  BY <5>1
      <4>3. CASE PutFinish
        BY <4>3 DEF PutFinish
      <4>4. CASE PutAbort
        <5>1. Ask([op |-> "abort"])
          BY <4>4 DEF PutAbort
        <5> QED  BY <5>1
      <4> QED  BY <2>1, <4>1, <4>2, <4>3, <4>4
    <3> QED  BY <3>1 DEF Callable
  <2>2. CASE PutBegin
    BY <1>2, <2>2 DEF PutBegin, Callable
  <2>3. CASE Plain
    <3>1. CASE \E k \in Key, d \in Content : Ask([op |-> "put", key |-> k, data |-> d])
      BY <1>2, <2>3, <3>1 DEF Callable
    <3>2. CASE \E k \in Key, op \in {"get", "exists", "remove"} :
                   Ask([op |-> op, key |-> k])
      BY <1>2, <2>3, <3>2 DEF Callable
    <3>3. CASE \E k \in Key, op \in {"list", "mkcol"} :
                   Len(k) > 1 /\ Ask([op |-> op, key |-> Front(k)])
      BY <1>3, <2>3, <3>3 DEF Callable
    <3> QED  BY <2>3, <3>1, <3>2, <3>3 DEF Plain
  <2> QED  BY <1>5, <2>1, <2>2, <2>3 DEF Caller
<1>6. ASSUME NEW c, Ask(c) PROVE line' = line /\ abandoned' = {} /\ UNCHANGED serverVars
  BY <1>6 DEF Ask
<1> QED  BY <1>1, <1>4, <1>5, <1>6

LEMMA CallerSound ==
    ASSUME WireInv, PlanInv, SoundInv, Caller
    PROVE  SoundInv'
<1>1. proto' = proto /\ line'.req = NoRequest /\ abandoned' = {}
  BY CallerAsks DEF serverVars, Quiet
<1>2. CASE Close
  BY <1>1, <1>2 DEF Close, exchangeVars, SoundInv
<1>3. ASSUME NEW c, Ask(c), Callable(c) PROVE SoundInv'
  <2>1. todo' = Plan(c) \/ todo' = <<>>
    BY <1>3 DEF Ask, Proceed
  <2>2. proto' = "webdav" => \A n \in 1 .. Len(todo') : todo'[n].m \notin Posts
    BY <1>1, <1>3, <2>1, PlanPosts DEF PlanInv
  <2> QED  BY <1>1, <2>2 DEF SoundInv
<1> QED  BY <1>2, <1>3, CallerAsks

\* Whatever the server carries out, it was asked for.
LEMMA ServerAsked ==
    ASSUME WireInv, Server
    PROVE  /\ todo' = todo /\ call' = call /\ reply' = reply /\ UNCHANGED listVars
           /\ proto' = proto /\ abandoned' \subseteq abandoned
           /\ line'.req \in {line.req, NoRequest}
           /\ \/ UNCHANGED serverVars
              \/ Unserved /\ Execute(line.req)
              \/ \E r \in abandoned : Execute(r)
<1>1. Quiet.req = NoRequest
  BY DEF Quiet
<1>2. \A x : Answer(x) => line'.req = line.req
  BY DEF Answer, WireInv
<1>3. CASE Serve \/ ServeBadly
  <2>1. \E x : Answer(x)
    BY <1>3 DEF Serve, ServeBadly
  <2>2. Unserved /\ (UNCHANGED serverVars \/ Execute(line.req))
    BY <1>3 DEF Serve, ServeBadly
  <2> QED  BY <1>2, <2>1, <2>2 DEF Answer, exchangeVars, Execute, serverVars
<1>4. CASE ServeLate
  BY <1>4 DEF ServeLate, exchangeVars, Execute
<1>5. CASE IdleClose
  BY <1>1, <1>5 DEF IdleClose, exchangeVars, serverVars
<1> QED  BY <1>3, <1>4, <1>5 DEF Server

LEMMA ServerSound ==
    ASSUME WireInv, HeldInv, SoundInv, Server
    PROVE  HeldInv' /\ SoundInv'
<1>1. SoundInv'
  BY ServerAsked DEF SoundInv, Sound
<1>2. \A r : Sound(r) /\ Execute(r) => HeldInv'
  BY ExecuteHeld
<1>3. Unserved => Sound(line.req)
  BY DEF Unserved, SoundInv
<1>4. UNCHANGED serverVars => HeldInv'
  BY DEF serverVars, HeldInv, Rooted
<1> QED  BY <1>1, <1>2, <1>3, <1>4, ServerAsked DEF SoundInv

LEMMA SoundStep ==
    WireInv /\ PlanInv /\ HeldInv /\ SoundInv /\ [Next]_vars => HeldInv' /\ SoundInv'
<1>1. UNCHANGED serverVars => (HeldInv => HeldInv')
  BY DEF serverVars, HeldInv, Rooted
<1>2. Client => UNCHANGED serverVars
  BY DEF Client, ForceFresh, Connect, ConnectFails, Reuse, Send, SendFails, NoAnswerComes,
         Lose, Garbled, LeftOver, GoOn, GotContent, NotThere, GotPage, GotUpload, GotETag,
         Rejected, Receive, Dial, DialFails, SendChunk, ChunkFails, EndBody, EndBodyFails
<1>3. ASSUME SoundInv, UNCHANGED vars PROVE SoundInv' /\ UNCHANGED serverVars
  BY <1>3 DEF vars, netVars, exchangeVars, serverVars, SoundInv, Sound
<1> QED  BY <1>1, <1>2, <1>3, ClientSound, CallerSound, CallerAsks, ServerSound DEF Next

-----------------------------------------------------------------------------
(* What has been listed.                                                   *)

\* An answer on the way tells no name twice, and the last one all the rest.
Tells(a) ==
    /\ a.st # "unframed"
    /\ a.st = "missing" => Below(dir) = {}
    /\ a.st = "ok" =>
           /\ a.names \subseteq Below(dir) \ token
           /\ ~a.more => a.names = Below(dir) \ token

\* What makes ListingIsExact inductive: nothing but the listing is under way,
\* every request goes on after the names reported so far, and these are told
\* once each.
ListInv ==
    dir # <<>> =>
        /\ dir \in Seq(Name)
        /\ listed = SetToBag(token) /\ token \subseteq Below(dir)
        /\ Busy => call.op = "list" /\ todo = <<Step("LIST", dir)>>
        /\ line.req # NoRequest =>
               line.req.m = "LIST" /\ line.req.path = dir /\ line.req.tok = token
        /\ line.ans # NoAnswer => Tells(line.ans)
        /\ \A r \in abandoned : r.m = "LIST"
        /\ ~Busy /\ reply = Said("ok") => token = Below(dir)

\* A listing starts with nothing listed.
LEMMA CallerList ==
    ASSUME WireInv, PlanInv, ListInv, Caller
    PROVE  ListInv'
<1>1. /\ line = Quiet /\ line' = line /\ abandoned' = {} /\ UNCHANGED serverVars
      /\ line.req = NoRequest /\ line.ans = NoAnswer
  BY CallerAsks DEF Quiet
<1>2. CASE Close
  <2>1. UNCHANGED listVars /\ reply' = reply /\ ~Busy /\ ~Busy'
    BY <1>2 DEF Close, Busy
  <2>2. Below(dir)' = Below(dir)
    BY <1>1, <2>1 DEF listVars, serverVars, Below
  <2> QED  BY <1>1, <2>1, <2>2 DEF ListInv, listVars
<1>3. ASSUME NEW c, Ask(c), Callable(c) PROVE ListInv'
  <2>1. CASE c.op # "list"
    BY <1>3, <2>1 DEF Ask, ListInv
  <2>2. CASE c.op = "list"
    <3>1. c.key \in Seq(Name) /\ c.key # <<>>
      BY <1>3, <2>2 DEF Callable
    <3>2. Plan(c) = <<Step("LIST", c.key)>>
      BY <2>2 DEF Plan, PlanWebdav, PlanS3
    <3>3. /\ dir' = c.key /\ token' = {} /\ listed' = EmptyBag
          /\ todo' = <<Step("LIST", c.key)>> /\ call' = c /\ reply' = Said("pending")
      BY <1>3, <2>2, <3>2 DEF Ask, Proceed
    <3>4. Said("pending") # Said("ok")
      BY DEF Said
    <3>5. listed' = SetToBag(token')
      BY <3>3 DEF EmptyBag
    <3> QED  BY <1>1, <2>2, <3>1, <3>3, <3>4, <3>5 DEF ListInv
  <2> QED  BY <2>1, <2>2
<1> QED  BY <1>2, <1>3, CallerAsks

\* A listing fails, and says so.
LEMMA ListFails ==
    ASSUME ListInv, Busy, StepFails, UNCHANGED <<serverVars, listVars>>, dir # <<>>,
           line'.req = NoRequest, line'.ans = NoAnswer,
           \A r \in abandoned' : r \in abandoned \/ r.m = "LIST"
    PROVE  ListInv'
<1>1. Now.m = "LIST" /\ call.op = "list"
  BY DEF ListInv, Now, Step
<1>2. reply' = Said("error") /\ ~Busy'
  BY <1>1 DEF StepFails, AbortsOnFailure, Return, Busy
<1>3. Said("error") # Said("ok")
  BY DEF Said
<1>4. Below(dir)' = Below(dir)
  BY DEF serverVars, listVars, Below
<1> QED  BY <1>2, <1>3, <1>4 DEF ListInv, listVars

\* A listing goes on as it was.
LEMMA ListKept ==
    ASSUME ListInv, Busy, UNCHANGED <<serverVars, listVars, call, todo>>, dir # <<>>,
           line'.req = NoRequest \/ line'.req = line.req \/ line'.req = Request,
           line'.ans = NoAnswer \/ line'.ans = line.ans,
           \A r \in abandoned' : r \in abandoned \/ r.m = "LIST"
    PROVE  ListInv'
<1>1. Now = Step("LIST", dir) /\ Now.m = "LIST" /\ Now.path = dir
  BY DEF ListInv, Now, Step
<1>2. Request.m = "LIST" /\ Request.path = dir /\ Request.tok = token
  BY <1>1 DEF Request
<1>3. Below(dir)' = Below(dir) /\ Busy'
  BY DEF serverVars, listVars, Below, Busy
<1>4. \A a : Tells(a)' <=> Tells(a)
  BY <1>3 DEF Tells, listVars
<1> QED  BY <1>2, <1>3, <1>4 DEF ListInv, listVars

\* The answer that ends a listing, and the page that does not.
LEMMA ListGoesOn ==
    ASSUME WireInv, ListInv, dir # <<>>, NotThere \/ GotPage
    PROVE  ListInv'
<1> DEFINE a == line.ans
<1>1. /\ Busy /\ a.st \notin {"none", "garbled", "unfinished"} /\ a # NoAnswer
      /\ line' = Quiet /\ UNCHANGED serverVars /\ abandoned' = abandoned
  BY DEF NotThere, GotPage, Receive, NoAnswer
<1>2. line'.req = NoRequest /\ line'.ans = NoAnswer
  BY <1>1 DEF Quiet
<1>3. Tells(a) /\ Now.m = "LIST"
  BY <1>1 DEF ListInv, Now, Step
<1>4. CASE NotThere
  <2>1. a.st = "missing" /\ Below(dir) = {} /\ UNCHANGED listVars /\ ~Busy'
    BY <1>3, <1>4 DEF NotThere, Tells, Return, Busy
  <2>2. Below(dir)' = Below(dir)
    BY <1>1, <2>1 DEF serverVars, listVars, Below
  <2>3. token = {}
    BY <2>1 DEF ListInv
  <2> QED  BY <1>1, <1>2, <2>1, <2>2, <2>3 DEF ListInv, listVars
<1>5. CASE GotPage
  <2>1. /\ a.st = "ok" /\ dir' = dir
        /\ listed' = listed (+) SetToBag(a.names) /\ token' = token \cup a.names
    BY <1>3, <1>5 DEF GotPage, Tells
  <2>2. a.names \subseteq Below(dir) \ token /\ (~a.more => a.names = Below(dir) \ token)
    BY <1>3, <2>1 DEF Tells
  <2>3. Below(dir)' = Below(dir)
    BY <1>1, <2>1 DEF serverVars, Below
  <2>4. listed' = SetToBag(token')
    <3>1. token \cap a.names = {}
      BY <2>2
    <3> QED  BY <2>1, <3>1, ReportedOnce DEF ListInv
  <2>5. token' \subseteq Below(dir)'
    BY <2>1, <2>2, <2>3 DEF ListInv
  <2>6. CASE Proceed(todo) /\ call' = call
    <3>1. Busy' /\ todo' = todo
      BY <1>1, <2>6 DEF Proceed, Busy
    <3> QED  BY <1>1, <1>2, <2>1, <2>4, <2>5, <2>6, <3>1 DEF ListInv
  <2>7. CASE Return(Said("error"))
    <3>1. ~Busy' /\ reply' # Said("ok")
      BY <2>7 DEF Return, Busy, Said
    <3> QED  BY <1>1, <1>2, <2>1, <2>4, <2>5, <3>1 DEF ListInv
  <2>8. CASE ~Truncated(a) /\ Return(Said("ok"))
    <3>1. ~Busy' /\ token' = Below(dir)'
      BY <2>1, <2>2, <2>3, <2>8 DEF Return, Busy, Truncated, ListInv
    <3> QED  BY <1>1, <1>2, <2>1, <2>4, <2>5, <3>1 DEF ListInv
  <2> QED  BY <1>5, <2>6, <2>7, <2>8 DEF GotPage
<1> QED  BY <1>4, <1>5

\* No step of an exchange loses or repeats a name.
LEMMA ClientList ==
    ASSUME WireInv, ListInv, Client
    PROVE  ListInv'
<1>1. CASE GotPage
  <2>1. dir' = dir
    BY <1>1 DEF GotPage
  <2>2. CASE dir = <<>>
    BY <2>1, <2>2 DEF ListInv
  <2> QED  BY <1>1, <2>2, ListGoesOn
<1>2. CASE ~GotPage
  <2>1. UNCHANGED <<serverVars, listVars>> /\ Busy
    BY <1>2 DEF Client, ForceFresh, Connect, ConnectFails, Reuse, Send, SendFails,
         NoAnswerComes, Lose, Garbled, LeftOver, GoOn, GotContent, NotThere, GotUpload,
         GotETag, Rejected, Receive, Dial, DialFails, SendChunk, ChunkFails, EndBody,
         EndBodyFails, OnKept
  <2>2. CASE dir = <<>>
    BY <2>1, <2>2 DEF listVars, ListInv
  <2>3. CASE dir # <<>>
    <3>1. Now.m = "LIST" /\ (line.req # NoRequest => line.req.m = "LIST")
      BY <2>1, <2>3 DEF ListInv, Now, Step
    <3>2. Quiet.req = NoRequest /\ Quiet.ans = NoAnswer
      BY DEF Quiet
    <3>3. ASSUME HangUp
          PROVE  /\ line'.req = NoRequest /\ line'.ans = NoAnswer
                 /\ \A r \in abandoned' : r \in abandoned \/ r.m = "LIST"
      BY <3>1, <3>2, <3>3 DEF HangUp
    <3>4. HangUp /\ StepFails => ListInv'
      BY <2>1, <2>3, <3>3, ListFails
    <3>5. Broken => ListInv'
      <4>1. Broken /\ Retries => ListInv'
        BY <2>1, <2>3, <3>3, ListKept DEF Broken
      <4> QED  BY <3>4, <4>1 DEF Broken
    <3>6. CASE ForceFresh \/ Connect \/ Reuse
      <4>1. UNCHANGED <<call, todo, line, abandoned>>
        BY <3>6 DEF ForceFresh, Connect, Reuse, exchangeVars, netVars
      <4> QED  BY <2>1, <2>3, <4>1, ListKept
    <3>7. CASE Send
      <4>1. UNCHANGED <<call, todo, abandoned>>
        BY <3>7 DEF Send
      <4>2. line' = line \/ (line'.req = Request /\ line'.ans = line.ans)
        BY <3>7 DEF Send, WireInv
      <4> QED  BY <2>1, <2>3, <4>1, <4>2, ListKept
    <3>8. CASE ConnectFails
      <4>1. StepFails /\ line' = line /\ abandoned' = abandoned /\ line = Quiet
        BY <3>8 DEF ConnectFails, OnKept, netVars, WireInv, AnswersMatch
      <4> QED  BY <2>1, <2>3, <3>2, <4>1, ListFails
    <3>9. CASE SendFails \/ NoAnswerComes \/ Lose \/ Garbled
      BY <3>4, <3>5, <3>9 DEF SendFails, NoAnswerComes, Lose, Garbled
    <3>10. CASE LeftOver
      <4>1. line = Quiet
        BY <3>10 DEF LeftOver, OnKept, WireInv
      <4>2. CASE UNCHANGED <<own, body, line, abandoned>> /\ StepFails
        BY <2>1, <2>3, <3>2, <4>1, <4>2, ListFails
      <4> QED  BY <3>4, <3>5, <3>10, <4>2 DEF LeftOver
    <3>11. CASE Rejected
      <4>1. StepFails /\ line' = Quiet /\ abandoned' = abandoned
        BY <3>11 DEF Rejected, Receive
      <4> QED  BY <2>1, <2>3, <3>2, <4>1, ListFails
    <3>12. CASE NotThere
      BY <2>3, <3>12, ListGoesOn
    <3>13. ~(GoOn \/ GotContent \/ GotUpload \/ GotETag \/ Dial \/ DialFails \/ SendChunk
             \/ ChunkFails \/ EndBody \/ EndBodyFails)
      BY <3>1 DEF GoOn, GotContent, GotUpload, GotETag, Dial, DialFails, SendChunk,
                  ChunkFails, EndBody, EndBodyFails
    <3> QED  BY <1>2, <3>6, <3>7, <3>8, <3>9, <3>10, <3>11, <3>12, <3>13 DEF Client
  <2> QED  BY <2>2, <2>3
<1> QED  BY <1>1, <1>2

\* What the server answers to a listing.
LEMMA ListAnswer ==
    ASSUME IsFiniteSet(Name), HeldInv, dir \in Seq(Name), NEW r, r.m = "LIST",
           r.path = dir, r.tok = token
    PROVE  /\ AnswerTo(r).st \in {"ok", "missing"} /\ Tells(AnswerTo(r))
           /\ AnswerTo(r).st = "missing" => proto = "webdav"
<1>1. AnswerTo(r).st = IF proto = "webdav" /\ r.path \notin cols THEN "missing" ELSE "ok"
  BY DEF AnswerTo, StatusOf
<1>2. AnswerTo(r).names = Page(r)
  BY DEF AnswerTo
<1>3. AnswerTo(r).more = (Below(dir) \ token # Page(r))
  BY DEF AnswerTo
<1>4. Page(r) \subseteq Below(dir) \ token
  BY PageIsPart DEF HeldInv
<1>5. proto = "webdav" /\ r.path \notin cols => Below(dir) = {}
  BY NothingBelow
<1> QED  BY <1>1, <1>2, <1>3, <1>4, <1>5 DEF Tells

\* A listing changes nothing.
LEMMA ListExecutes ==
    ASSUME NEW r, r.m = "LIST", Execute(r)
    PROVE  store' = store /\ cols' = cols /\ proto' = proto
BY DEF Execute, StatusOf

\* The server answers a listing, if it announces how long its answer is.
LEMMA ServerList ==
    ASSUME IsFiniteSet(Name), "LIST" \notin Unframed, WireInv, HeldInv, ListInv, Server
    PROVE  ListInv'
<1>1. /\ todo' = todo /\ call' = call /\ reply' = reply /\ UNCHANGED listVars
      /\ abandoned' \subseteq abandoned /\ Busy' = Busy
  BY ServerAsked DEF Busy
<1>2. CASE dir = <<>>
  BY <1>1, <1>2 DEF listVars, ListInv
<1>3. CASE dir # <<>>
  <2>1. dir \in Seq(Name) /\ (\A r \in abandoned : r.m = "LIST")
    BY <1>3 DEF ListInv
  <2>2. Unserved => line.req.m = "LIST" /\ line.req.path = dir /\ line.req.tok = token
    BY <1>3 DEF ListInv, Unserved
  <2>3. store' = store /\ cols' = cols
    BY <2>1, <2>2, ListExecutes, ServerAsked DEF serverVars
  <2>4. Below(dir)' = Below(dir) /\ \A x : Tells(x)' <=> Tells(x)
    BY <1>1, <2>3 DEF Below, Tells, listVars
  <2>5. ASSUME \/ line'.req = NoRequest /\ line'.ans = NoAnswer
               \/ line' = line
               \/ line'.req = line.req /\ Tells(line'.ans)
        PROVE  ListInv'
    BY <1>1, <1>3, <2>4, <2>5 DEF ListInv, listVars
  <2>6. Quiet.req = NoRequest /\ Quiet.ans = NoAnswer
    BY DEF Quiet
  <2>7. CASE ServeLate
    BY <2>5, <2>7 DEF ServeLate
  <2>8. CASE IdleClose
    BY <2>5, <2>6, <2>8 DEF IdleClose
  <2>9. ASSUME NEW x, Answer(x), Tells(x) PROVE ListInv'
    <3>1. line'.req = line.req /\ line'.ans = x
      BY <2>9 DEF Answer, WireInv
    <3> QED  BY <2>5, <2>9, <3>1
  <2>10. Unserved => /\ Tells(AnswerTo(line.req))
                     /\ AnswerTo(line.req).st \in {"ok", "missing"}
                     /\ AnswerTo(line.req).st = "missing" => proto = "webdav"
    BY <2>1, <2>2, ListAnswer
  <2>11. CASE Serve
    BY <2>9, <2>10, <2>11 DEF Serve
  <2>12. CASE ServeBadly
    <3> DEFINE a == AnswerTo(line.req)
    <3>1. Unserved /\ line.req.m = "LIST" /\ a.st \in {"ok", "missing"}
          /\ (a.st = "missing" => proto = "webdav")
      BY <2>2, <2>10, <2>12 DEF ServeBadly
    <3>2. DOMAIN a = {"st", "data", "id", "names", "more", "req"}
      BY DEF AnswerTo
    <3>3. \/ \E st \in {"error", "garbled"} : Answer([a EXCEPT !.st = st])
          \/ proto = "s3" /\ Answer([a EXCEPT !.names = {}, !.more = TRUE])
      BY <2>12, <3>1 DEF ServeBadly
    <3> HIDE DEF a
    <3>4. \A st \in {"error", "garbled"} : Tells([a EXCEPT !.st = st])
      BY <3>2 DEF Tells
    <3>5. proto = "s3" => Tells([a EXCEPT !.names = {}, !.more = TRUE])
      BY <3>1, <3>2 DEF Tells
    <3> QED  BY <2>9, <3>3, <3>4, <3>5
  <2> QED  BY <2>7, <2>8, <2>11, <2>12 DEF Server
<1> QED  BY <1>2, <1>3

\* backend.h, list(): a listing that succeeds has reported every name below
\* the prefix once, however many pages it took and however often connections
\* broke, if there are finitely many names and answers to listings announce
\* their length.
THEOREM ListsExactly ==
    ASSUME IsFiniteSet(Name), "LIST" \notin Unframed
    PROVE  Spec => []ListingIsExact
<1> DEFINE Inv == WireInv /\ PlanInv /\ OnceInv /\ HeldInv /\ SoundInv /\ ListInv
<1>1. Init => Inv
  <2> SUFFICES ASSUME Init PROVE Inv
    OBVIOUS
  <2>1. WireInv
    BY DEF Init, WireInv, AnswersMatch, Quiet
  <2>2. /\ todo = <<>> /\ ~Busy /\ line.req = NoRequest /\ abandoned = {}
        /\ h = NoHandle /\ dir = <<>>
    BY QuietReq DEF Init, Busy
  <2>3. "key" \in DOMAIN NoHandle /\ NoHandle.key \in Seq(Name)
    BY DEF NoHandle
  <2>4. todo \in Seq(Steps) /\ Len(todo) = 0
    BY <2>2
  <2>5. HeldInv
    BY DEF Init, ServerInit, HeldInv, Rooted
  <2> QED  BY <2>1, <2>2, <2>3, <2>4, <2>5 DEF PlanInv, OnceInv, SoundInv, ListInv
<1>2. Inv /\ [Next]_vars => Inv'
  <2> SUFFICES ASSUME Inv, [Next]_vars PROVE Inv'
    OBVIOUS
  <2>1. ASSUME UNCHANGED vars PROVE ListInv'
    <3>1. UNCHANGED <<serverVars, listVars, line, abandoned, call, todo, reply>>
      BY <2>1 DEF vars, netVars, exchangeVars
    <3>2. /\ Below(dir)' = Below(dir) /\ Busy' = Busy /\ dir' = dir /\ token' = token
          /\ listed' = listed
      BY <3>1 DEF serverVars, listVars, Below, Busy
    <3>3. \A x : Tells(x)' <=> Tells(x)
      BY <3>2 DEF Tells
    <3> QED  BY <3>1, <3>2, <3>3 DEF ListInv
  <2>2. ListInv'
    BY <2>1, CallerList, ClientList, ServerList DEF Next
  <2> QED  BY <2>2, WireStep, OnceStep, SoundStep
<1>3. Inv => ListingIsExact
  BY DEF ListInv, ListingIsExact
<1> QED  BY <1>1, <1>2, <1>3, PTL DEF Spec

-----------------------------------------------------------------------------
(* The parts of a content, joined.                                         *)

\* Induction: a set that has 0 and is closed under successor has every number.
LEMMA SetInduction ==
    ASSUME NEW S, 0 \in S, \A n \in Nat : n \in S => n + 1 \in S
    PROVE  Nat \subseteq S
<1> DEFINE R == OpToRel(<, Nat)
           T == Nat \ S
<1>1. SUFFICES ASSUME T # {} PROVE FALSE
  OBVIOUS
<1>2. PICK x \in T : \A y \in T : <<y, x>> \notin R
  <2>1. IsWellFoundedOn(R, Nat) /\ T \subseteq Nat
    BY NatLessThanWellFounded
  <2> HIDE DEF R, T
  <2> QED  BY <1>1, <2>1, WFMin
<1>3. x \in Nat /\ x - 1 \in Nat /\ x - 1 < x /\ x = (x - 1) + 1
  <2>1. x \in Nat /\ x \notin S
    OBVIOUS
  <2>2. x # 0
    BY <2>1
  <2> HIDE DEF R, T
  <2> QED  BY ONLY <2>1, <2>2
<1>4. <<x - 1, x>> \in R
  <2> DEFINE y == x - 1
  <2>1. y \in Nat /\ x \in Nat /\ y < x
    BY <1>3
  <2> HIDE DEF y
  <2>2. <<y, x>> \in Nat \X Nat /\ <<y, x>>[1] < <<y, x>>[2]
    BY <2>1
  <2>3. <<y, x>> \in {ss \in Nat \X Nat : ss[1] < ss[2]}
    BY <2>2
  <2>4. <<y, x>> \in R
    BY <2>3, Zenon DEF OpToRel
  <2> QED  BY <2>4 DEF y
<1>5. x - 1 \in S
  BY <1>2, <1>3, <1>4
<1> QED  BY <1>2, <1>3, <1>5

\* f[i] is the first i of the sequences s, joined.
IsFlat(f, s) == f = [i \in 1 .. Len(s) |-> IF i = 1 THEN s[i] ELSE f[i - 1] \o s[i]]

\* FlattenSeq takes the last of these.
LEMMA FlatIs == \A s : FlattenSeq(s) = IF Len(s) = 0 THEN s ELSE (CHOOSE f : IsFlat(f, s))[Len(s)]
BY Zenon DEF FlattenSeq, IsFlat

\* There is such a function for every sequence of sequences, and one only.
LEMMA FlatExists ==
    ASSUME NEW C, NEW s \in Seq(Seq(C))
    PROVE  \E f \in [1 .. Len(s) -> Seq(C)] : IsFlat(f, s)
<1> DEFINE Good(n) == \A t \in Seq(Seq(C)) :
                          Len(t) = n => \E f \in [1 .. n -> Seq(C)] : IsFlat(f, t)
           G == {n \in Nat : Good(n)}
<1>1. 0 \in G
  <2> SUFFICES ASSUME NEW t \in Seq(Seq(C)), Len(t) = 0
               PROVE  \E f \in [1 .. 0 -> Seq(C)] : IsFlat(f, t)
    OBVIOUS
  <2> DEFINE f == [i \in 1 .. 0 |-> <<>>]
  <2>1. f \in [1 .. 0 -> Seq(C)] /\ f = [i \in 1 .. Len(t) |-> IF i = 1 THEN t[i] ELSE f[i - 1] \o t[i]]
    OBVIOUS
  <2> HIDE DEF f
  <2> QED  BY <2>1 DEF IsFlat
<1>2. ASSUME NEW n \in Nat, n \in G PROVE n + 1 \in G
  <2> SUFFICES ASSUME NEW t \in Seq(Seq(C)), Len(t) = n + 1
               PROVE  \E f \in [1 .. n + 1 -> Seq(C)] : IsFlat(f, t)
    OBVIOUS
  <2> DEFINE u == SubSeq(t, 1, n)
  <2>0. \A i \in 1 .. n + 1 : t[i] \in Seq(C)
    OBVIOUS
  <2>1. u \in Seq(Seq(C)) /\ Len(u) = n /\ \A i \in 1 .. n : u[i] = t[i]
    BY <2>0, SubSeqProperties
  <2> HIDE DEF u
  <2>2. PICK g \in [1 .. n -> Seq(C)] : IsFlat(g, u)
    BY <1>2, <2>1
  <2>3. \A i \in 1 .. n : g[i] = IF i = 1 THEN t[i] ELSE g[i - 1] \o t[i]
    BY <2>1, <2>2 DEF IsFlat
  <2> DEFINE f == [i \in 1 .. n + 1 |-> IF i = n + 1 THEN IF i = 1 THEN t[i] ELSE g[n] \o t[i]
                                        ELSE g[i]]
  <2>4. \A i \in 1 .. n + 1 : f[i] \in Seq(C)
    <3>1. n # 0 => n \in 1 .. n
      OBVIOUS
    <3> QED  BY <2>0, <3>1
  <2>5. ASSUME NEW i \in 1 .. n + 1
        PROVE  f[i] = IF i = 1 THEN t[i] ELSE f[i - 1] \o t[i]
    <3>1. CASE i = n + 1
      <4>1. i # 1 => f[i - 1] = g[n]
        BY <3>1
      <4> QED  BY <3>1, <4>1
    <3>2. CASE i # n + 1
      <4>1. i \in 1 .. n /\ f[i] = g[i]
        BY <3>2
      <4>2. i # 1 => f[i - 1] = g[i - 1]
        BY <4>1
      <4> QED  BY <2>3, <4>1, <4>2
    <3> QED  BY <3>1, <3>2
  <2>6. f \in [1 .. n + 1 -> Seq(C)]
    BY <2>4
  <2>7. f = [i \in 1 .. Len(t) |-> IF i = 1 THEN t[i] ELSE f[i - 1] \o t[i]]
    <3> DEFINE e == [i \in 1 .. n + 1 |-> IF i = 1 THEN t[i] ELSE f[i - 1] \o t[i]]
    <3>1. f = e
      BY <2>5
    <3> QED  BY <3>1
  <2> HIDE DEF f
  <2> QED  BY <2>6, <2>7 DEF IsFlat
<1>3. Nat \subseteq G
  <2> HIDE DEF G
  <2> QED  BY <1>1, <1>2, SetInduction
<1>4. Len(s) \in G
  BY <1>3
<1> QED  BY <1>4

\* Two functions that join the same sequences are one.
LEMMA FlatUnique ==
    ASSUME NEW s, Len(s) \in Nat, NEW f, NEW g, IsFlat(f, s), IsFlat(g, s)
    PROVE  f = g
<1> DEFINE G == {n \in Nat : n \in 1 .. Len(s) => f[n] = g[n]}
<1>1. 0 \in G
  OBVIOUS
<1>2. \A i \in 1 .. Len(s) : /\ f[i] = IF i = 1 THEN s[i] ELSE f[i - 1] \o s[i]
                             /\ g[i] = IF i = 1 THEN s[i] ELSE g[i - 1] \o s[i]
  BY DEF IsFlat
<1>3. ASSUME NEW n \in Nat, n \in G PROVE n + 1 \in G
  <2> SUFFICES ASSUME n + 1 \in 1 .. Len(s) PROVE f[n + 1] = g[n + 1]
    OBVIOUS
  <2>1. CASE n = 0
    BY <1>2, <2>1
  <2>2. CASE n # 0
    <3>1. n \in 1 .. Len(s) /\ f[n] = g[n]
      BY <1>3, <2>2
    <3>2. n + 1 # 1 /\ (n + 1) - 1 = n
      BY <2>2
    <3>3. f[n + 1] = f[n] \o s[n + 1] /\ g[n + 1] = g[n] \o s[n + 1]
      BY <1>2, <3>2
    <3> QED  BY <3>1, <3>3
  <2> QED  BY <2>1, <2>2
<1>4. Nat \subseteq G
  <2> HIDE DEF G
  <2> QED  BY <1>1, <1>3, SetInduction
<1>5. \A i \in 1 .. Len(s) : f[i] = g[i]
  BY <1>4
<1>6. /\ f = [i \in 1 .. Len(s) |-> f[i]]
      /\ g = [i \in 1 .. Len(s) |-> g[i]]
  BY DEF IsFlat
<1> QED  BY <1>5, <1>6

\* Parts joined are content, and one more part comes after the others.
LEMMA FlatType ==
    ASSUME NEW C, NEW s \in Seq(Seq(C))
    PROVE  FlattenSeq(s) \in Seq(C)
<1>1. CASE Len(s) = 0
  <2>1. s = <<>>
    BY <1>1
  <2>2. FlattenSeq(s) = <<>>
    BY <1>1, <2>1, FlatIs
  <2> QED  BY <2>2
<1>2. CASE Len(s) # 0
  <2>1. PICK f \in [1 .. Len(s) -> Seq(C)] : IsFlat(f, s)
    BY FlatExists
  <2>2. FlattenSeq(s) = f[Len(s)]
    <3>1. (CHOOSE g : IsFlat(g, s)) = f
      BY <2>1, FlatUnique
    <3> QED  BY <1>2, <3>1, FlatIs
  <2>3. Len(s) \in 1 .. Len(s)
    <3>1. Len(s) \in Nat
      OBVIOUS
    <3> QED  BY <1>2, <3>1
  <2>4. f[Len(s)] \in Seq(C)
    BY <2>3, Zenon
  <2> QED  BY <2>2, <2>4
<1> QED  BY <1>1, <1>2

\* One sequence more is joined at the end.
LEMMA FlatAppend ==
    ASSUME NEW C, NEW s \in Seq(Seq(C)), NEW x \in Seq(C)
    PROVE  FlattenSeq(Append(s, x)) = FlattenSeq(s) \o x
<1> DEFINE t == Append(s, x)
           n == Len(s)
<1>1. /\ t \in Seq(Seq(C)) /\ Len(t) = n + 1 /\ t[n + 1] = x /\ n \in Nat
      /\ \A i \in 1 .. n : t[i] = s[i]
  OBVIOUS
<1>2. PICK f \in [1 .. n + 1 -> Seq(C)] : IsFlat(f, t)
  <2> HIDE DEF t, n
  <2> QED  BY <1>1, FlatExists
<1>3. FlattenSeq(t) = f[n + 1]
  <2> HIDE DEF t, n
  <2>1. (CHOOSE g : IsFlat(g, t)) = f
    BY <1>1, <1>2, FlatUnique
  <2>2. Len(t) # 0
    BY <1>1
  <2> QED  BY <1>1, <2>1, <2>2, FlatIs
<1>4. \A i \in 1 .. n + 1 : f[i] = IF i = 1 THEN t[i] ELSE f[i - 1] \o t[i]
  <2> HIDE DEF t, n
  <2> QED  BY <1>1, <1>2 DEF IsFlat
<1>5. CASE n = 0
  <2>1. s = <<>>
    BY <1>5
  <2>2. FlattenSeq(s) = <<>>
    BY <1>5, <2>1, FlatIs
  <2> QED  BY <1>1, <1>3, <1>4, <1>5, <2>2
<1>6. CASE n # 0
  <2> DEFINE g == [i \in 1 .. n |-> f[i]]
  <2>1. g = [i \in 1 .. n |-> IF i = 1 THEN s[i] ELSE g[i - 1] \o s[i]]
    <3>1. \A i \in 1 .. n : g[i] = IF i = 1 THEN s[i] ELSE g[i - 1] \o s[i]
      <4>1. ASSUME NEW i \in 1 .. n PROVE g[i] = IF i = 1 THEN s[i] ELSE g[i - 1] \o s[i]
        <5> HIDE DEF t, n
        <5>1. i \in 1 .. n + 1 /\ (i # 1 => i - 1 \in 1 .. n)
          BY <1>1
        <5> QED  BY <1>1, <1>4, <5>1
      <4> QED  BY <4>1
    <3> QED  BY <3>1
  <2>2. IsFlat(g, s)
    <3> HIDE DEF g
    <3> QED  BY <2>1 DEF IsFlat
  <2>3. FlattenSeq(s) = g[n]
    <3> HIDE DEF g
    <3>1. (CHOOSE k : IsFlat(k, s)) = g
      BY <1>1, <2>2, FlatUnique
    <3> QED  BY <1>6, <3>1, FlatIs
  <2>4. n \in 1 .. n /\ g[n] = f[n] /\ f[n + 1] = f[n] \o t[n + 1]
    <3>1. n \in 1 .. n /\ n + 1 \in 1 .. n + 1 /\ n + 1 # 1
      BY <1>1, <1>6
    <3>2. (n + 1) - 1 = n
      BY <1>1
    <3> HIDE DEF t, n
    <3> QED  BY <1>4, <3>1, <3>2
  <2> QED  BY <1>1, <1>3, <2>3, <2>4
<1> QED  BY <1>5, <1>6

-----------------------------------------------------------------------------
(* What a call does for its caller.                                        *)

\* What is stored, and what has become of it since a removal was asked for.
StoreInv ==
    /\ proto \in {"webdav", "s3"}
    /\ store \in [Key -> Content \cup {Absent}] /\ last \in Contract!Calls
    /\ last.op = "remove" => store[last.key] \in {last.was, Absent}

\* The call being made, as its caller sees it.
CallInv ==
    /\ Busy <=> reply = Said("pending")
    /\ ~Busy => todo = <<>>
    /\ Busy =>
         /\ call.op = "put" => last.op = "put" /\ last.data = call.data
         /\ call.op \in {"append", "finish", "abort"} => h # NoHandle
         /\ call.op = "finish" => last.op = "put" /\ last.data = h.sent

\* The step s of a call, the last one if end, does part of what was asked.
Goes(s, end) ==
    /\ s.m \in {"PUT", "STREAM", "COMPLETE"} =>
           end /\ last.op = "put" /\ s.path = last.key /\ call.op \in {"put", "finish"}
    /\ s.m \in {"STREAM", "COMPLETE"} => call.op = "finish"
    /\ s.m \in {"INITIATE", "PART", "COMPLETE"} =>
           proto # "webdav" /\ call.op \in {"append", "finish"}
    /\ s.m = "DELETE" => end /\ last.op = "remove" /\ s.path = last.key
    /\ s.m = "GET" => end /\ last.op = "get" /\ s.path = last.key
    /\ s.m = "EXISTS" => /\ s.path = last.key
                         /\ IF end THEN last.op = "exists" ELSE last.op = "remove"
    /\ s.m = "LIST" => last.op = "other"
    /\ s.m \in {"MKCOL", "PART"} /\ end => last.op = "other"
    /\ s.m = "INITIATE" => ~end
    /\ s.m = "ABORT" => end /\ call.op \in {"abort", "finish"}
    /\ s.m = "DIAL" => /\ end /\ last.op = "other" /\ call.op = "begin"
                       /\ s.path \in Key /\ call.data \in Content
    /\ s.m = "CHUNK" => end /\ last.op = "other" /\ call.op = "append"
    /\ call.op = "append" /\ proto = "webdav" => s.m = "CHUNK"

\* What comes before what.
Follows(m, n) ==
    /\ n \notin {"STREAM", "ABORT"} /\ (n = "PUT" => call.op = "put")
    /\ n = "DELETE" => m = "EXISTS"
    /\ n = "COMPLETE" => m = "PART"
    /\ n = "PART" => m = "INITIATE"

\* Each step still to be made does part of what was asked, in an order that works.
StepsInv ==
    /\ \A n \in 1 .. Len(todo) : Goes(todo[n], n = Len(todo))
    /\ \A n \in 1 .. Len(todo) - 1 : Follows(todo[n].m, todo[n + 1].m)

\* An upload is what was handed to it: in the parts and what is collected, or
\* in the part b of the body that was sent.
Joined(x) ==
    /\ FlattenSeq(x.etags) \o x.body = x.sent
    /\ x.etags # <<>> => x.upload # NoUpload
Holds(x, b) ==
    \/ x = NoHandle
    \/ /\ x \in HandleType
       /\ IF proto = "webdav" THEN ~x.failed => b = x.sent ELSE Joined(x)
HandleInv == Holds(h, IF Busy /\ call.op = "append" THEN body \o call.data ELSE body)

\* The request of the step m carries what the call is about.
Ready(m) ==
    /\ m = "PUT" => (IF call.op = "put" THEN call.data ELSE h.body) = last.data
    /\ m = "STREAM" => body = last.data
    /\ m = "COMPLETE" => FlattenSeq(h.etags) = last.data
    /\ m = "PART" => h.upload # NoUpload
    /\ m = "DELETE" => proto = "webdav" \/ last.was # Absent
    /\ m = "ABORT" => last.op = "other" \/ (call.op = "finish" /\ h.failed)

\* The next request is ready; a body under way is on a connection of its own.
ReadyInv ==
    Busy => Ready(Now.m) /\ (at = "recv" /\ Now.m = "STREAM" => fresh)

\* A request that was sent does to the store what the call asked for, or
\* nothing.
Serves(r) ==
    /\ r.m \in {"PUT", "STREAM"} =>
           last.op = "put" /\ r.path = last.key /\ r.data = last.data
    /\ r.m = "COMPLETE" =>
           last.op = "put" /\ r.path = last.key /\ FlattenSeq(r.etags) = last.data
    /\ r.m = "DELETE" => last.op = "remove" /\ r.path = last.key

\* The request out, and those left behind, serve the call.
SentInv ==
    /\ Serves(line.req) /\ \A r \in abandoned : Serves(r)
    /\ line.req # NoRequest =>
           /\ Busy /\ line.req.m = Now.m /\ line.req.path = Now.path
           /\ Now.m = "PART" => line.req.data = h.body

\* An answer on its way says what is so.
Right(a) ==
    /\ a.st = "ok" =>
         /\ Now.m \in {"PUT", "STREAM", "COMPLETE"} => store[last.key] = last.data
         /\ Now.m = "DELETE" => store[last.key] = Absent /\ last.was # Absent
         /\ Now.m = "GET" => store[last.key] # Absent /\ a.data = store[last.key]
         /\ Now.m = "EXISTS" => IF last.op = "remove" THEN last.was # Absent
                                ELSE store[last.key] # Absent
         /\ Now.m = "PART" => a.data = h.body
         /\ Now.m = "INITIATE" => a.id \in Upload
    /\ a.st = "missing" /\ Now.m \in {"GET", "EXISTS", "DELETE"} =>
           store[last.key] = Absent
\* An answer is to the request that is out, and right.
AnswerInv == line.ans # NoAnswer => line.req # NoRequest /\ Right(line.ans)

\* What the client relies on from step to step.
MoveInv == CallInv /\ StepsInv /\ HandleInv /\ ReadyInv

-----------------------------------------------------------------------------
(* Upload handles.                                                         *)

\* The fields of an open upload.
LEMMA IsHandle ==
    ASSUME NEW x \in HandleType
    PROVE  /\ x # NoHandle /\ x.key \in Key /\ x.want \in Content /\ x.sent \in Seq(Chunk)
           /\ x.body \in Seq(Chunk) /\ x.upload \in Upload \cup {NoUpload}
           /\ x.etags \in Seq(Seq(Chunk)) /\ x.failed \in BOOLEAN
<1>1. x.key # <<>> /\ x.key \in Key
  BY KeyAssumption DEF HandleType
<1> QED  BY <1>1 DEF HandleType, NoHandle

\* A new upload holds nothing, and nothing was handed to it.
LEMMA FreshHandle ==
    ASSUME NEW k \in Key, NEW d \in Content
    PROVE  /\ NewHandle(k, d) # NoHandle /\ Holds(NewHandle(k, d), <<>>)
           /\ NewHandle(k, d).sent = <<>>
<1> DEFINE x == NewHandle(k, d)
<1>1. x \in HandleType /\ x.sent = <<>> /\ x.body = <<>> /\ x.etags = <<>>
  BY DEF NewHandle, HandleType
<1>2. FlattenSeq(<<>>) = <<>>
  BY FlatIs
<1> HIDE DEF x
<1>3. <<>> \o <<>> = <<>>
  OBVIOUS
<1> QED  BY <1>1, <1>2, <1>3, IsHandle DEF Holds, Joined, x

\* An upload that has failed keeps its parts, whatever its body became.
LEMMA FailedHandle ==
    ASSUME NEW x \in HandleType, NEW b, NEW c, Holds(x, b)
    PROVE  /\ [x EXCEPT !.failed = TRUE].failed
           /\ [x EXCEPT !.failed = TRUE] # NoHandle
           /\ Holds([x EXCEPT !.failed = TRUE], c)
           /\ [x EXCEPT !.failed = TRUE].sent = x.sent
<1> DEFINE y == [x EXCEPT !.failed = TRUE]
<1>1. /\ y \in HandleType /\ y.sent = x.sent /\ y.body = x.body /\ y.etags = x.etags
      /\ y.upload = x.upload /\ y.failed
  BY DEF HandleType
<1>2. x # NoHandle
  BY IsHandle
<1> HIDE DEF y
<1> QED  BY <1>1, <1>2, IsHandle DEF Holds, Joined, y

\* An upload S3 has given a number keeps what it holds.
LEMMA StartedHandle ==
    ASSUME NEW x \in HandleType, NEW b, NEW u \in Upload, Holds(x, b)
    PROVE  /\ [x EXCEPT !.upload = u] \in HandleType
           /\ [x EXCEPT !.upload = u].upload = u /\ u # NoUpload
           /\ [x EXCEPT !.upload = u].failed = x.failed
           /\ Holds([x EXCEPT !.upload = u], b)
           /\ [x EXCEPT !.upload = u].sent = x.sent
<1> DEFINE y == [x EXCEPT !.upload = u]
<1>1. /\ y \in HandleType /\ y.sent = x.sent /\ y.body = x.body /\ y.etags = x.etags
      /\ y.upload = u /\ y.failed = x.failed
  BY DEF HandleType
<1>2. x # NoHandle /\ u # NoUpload
  BY IsHandle, UploadAssumption
<1> HIDE DEF y
<1> QED  BY <1>1, <1>2, IsHandle DEF Holds, Joined, y

\* A part that was accepted is what had been collected.
LEMMA PartHandle ==
    ASSUME NEW x \in HandleType, NEW b, Holds(x, b), proto # "webdav", x.upload # NoUpload
    PROVE  LET y == Emptied([x EXCEPT !.etags = Append(@, x.body)])
           IN  /\ y \in HandleType /\ Holds(y, b) /\ y.sent = x.sent /\ y.failed = x.failed
               /\ FlattenSeq(y.etags) = y.sent /\ y.upload # NoUpload
<1> DEFINE z == [x EXCEPT !.etags = Append(@, x.body)]
           y == Emptied(z)
<1>1. /\ x.body \in Seq(Chunk) /\ x.etags \in Seq(Seq(Chunk)) /\ x # NoHandle
      /\ FlattenSeq(x.etags) \o x.body = x.sent
  BY IsHandle DEF Holds, Joined
<1>2. Append(x.etags, x.body) \in Seq(Seq(Chunk))
  BY <1>1
<1>3. /\ z \in HandleType /\ z.etags = Append(x.etags, x.body) /\ z.sent = x.sent
      /\ z.upload = x.upload /\ z.failed = x.failed
  BY <1>2 DEF HandleType
<1> HIDE DEF z
<1>4. /\ y \in HandleType /\ y.etags = z.etags /\ y.sent = z.sent /\ y.body = <<>>
      /\ y.upload = z.upload /\ y.failed = z.failed
  <2>1. y = [z EXCEPT !.body = <<>>]
    BY DEF Emptied
  <2>2. <<>> \in Seq(Chunk)
    OBVIOUS
  <2> QED  BY <1>3, <2>1, <2>2 DEF HandleType
<1> HIDE DEF y
<1>5. FlattenSeq(y.etags) = y.sent
  <2>1. FlattenSeq(Append(x.etags, x.body)) = FlattenSeq(x.etags) \o x.body
    BY <1>1, FlatAppend
  <2> QED  BY <1>1, <1>3, <1>4, <2>1
<1>6. y.sent \o y.body = y.sent
  <2>1. y.sent \in Seq(Chunk)
    BY <1>4, IsHandle
  <2> QED  BY <1>4, <2>1, ConcatEmptySeq
<1>7. Holds(y, b)
  BY <1>3, <1>4, <1>5, <1>6 DEF Holds, Joined
<1> QED  BY <1>3, <1>4, <1>5, <1>7 DEF y, z

-----------------------------------------------------------------------------
(* How a call goes on and ends.                                            *)

\* The first step of a call, and the one after it, do what was asked.
LEMMA NowGoes ==
    ASSUME PlanInv, MoveInv, Busy
    PROVE  /\ Now = todo[1] /\ Now \in Steps /\ Len(todo) \in Nat /\ Len(todo) >= 1
           /\ Goes(Now, Len(todo) = 1) /\ Ready(Now.m)
           /\ Len(todo) > 1 => Follows(Now.m, todo[2].m) /\ Goes(todo[2], Len(todo) = 2)
<1>1. Now = todo[1] /\ Now \in Steps /\ Len(todo) \in Nat /\ Len(todo) >= 1
  BY HeadTail
<1>2. /\ \A n \in 1 .. Len(todo) : Goes(todo[n], n = Len(todo))
      /\ \A n \in 1 .. Len(todo) - 1 : Follows(todo[n].m, todo[n + 1].m)
  BY DEF MoveInv, StepsInv
<1>3. Goes(Now, Len(todo) = 1)
  <2>1. 1 \in 1 .. Len(todo) /\ (1 = Len(todo)) = (Len(todo) = 1)
    BY <1>1
  <2> QED  BY <1>1, <1>2, <2>1
<1>4. ASSUME Len(todo) > 1
      PROVE  Follows(Now.m, todo[2].m) /\ Goes(todo[2], Len(todo) = 2)
  <2>1. /\ 1 \in 1 .. Len(todo) - 1 /\ 2 \in 1 .. Len(todo) /\ 1 + 1 = 2
        /\ (2 = Len(todo)) = (Len(todo) = 2)
    BY <1>1, <1>4
  <2> QED  BY <1>1, <1>2, <2>1
<1> QED  BY <1>1, <1>3, <1>4 DEF MoveInv, ReadyInv

\* A call under way has a last step or more than one.
LEMMA OneOrMore ==
    ASSUME PlanInv, Busy
    PROVE  (Len(todo) = 1 \/ Len(todo) > 1) /\ (Len(todo) > 1 => Len(todo) # 1)
<1> DEFINE n == Len(todo)
<1>1. n \in Nat /\ n >= 1
  BY HeadTail
<1> HIDE DEF n
<1>2. (n = 1 \/ n > 1) /\ (n > 1 => n # 1)
  BY <1>1
<1> QED  BY <1>2 DEF n

\* Nothing of the call has changed.
LEMMA SameMoves ==
    ASSUME MoveInv, UNCHANGED <<proto, call, todo, h, reply, last>>, body' = body,
           Busy /\ at' = "recv" /\ Now.m = "STREAM" => fresh'
    PROVE  MoveInv'
<1>1. Busy' = Busy /\ Now' = Now
  BY DEF Busy, Now
<1>2. CallInv'
  BY <1>1 DEF MoveInv, CallInv
<1>3. StepsInv'
  BY DEF MoveInv, StepsInv, Goes, Follows
<1>4. HandleInv'
  BY <1>1 DEF MoveInv, HandleInv, Holds, Joined
<1>5. ReadyInv'
  BY <1>1 DEF MoveInv, ReadyInv, Ready
<1> QED  BY <1>2, <1>3, <1>4, <1>5 DEF MoveInv

\* The call is over.
LEMMA CallOver ==
    ASSUME call' \in {Idle, Closed}, todo' = <<>>, reply' # Said("pending"),
           Holds(h, body)'
    PROVE  MoveInv'
<1>1. ~Busy'
  BY DEF Busy
<1>2. Len(todo') = 0
  OBVIOUS
<1>3. StepsInv'
  BY <1>2 DEF StepsInv
<1> QED  BY <1>1, <1>3 DEF MoveInv, CallInv, HandleInv, ReadyInv

\* A call that returns leaves the invariant as it ends.
LEMMA ReturnOver ==
    ASSUME NEW r, Return(r), r # Said("pending"), Holds(h, body)'
    PROVE  MoveInv' /\ reply' = r
BY CallOver DEF Return, Proceed

\* What an upload holds depends on the protocol and nothing else.
LEMMA HoldsSame ==
    ASSUME NEW x, NEW b, proto' = proto
    PROVE  Holds(x, b)' <=> Holds(x, b)
BY DEF Holds, Joined

\* What a failing step leaves is a call that has failed or an abort.
LEMMA FailMoves ==
    ASSUME PlanInv, MoveInv, Busy, StepFails, proto' = proto, last' = last,
           body' = body \/ Now.m = "STREAM"
    PROVE  /\ MoveInv'
           /\ \/ reply' = reply
              \/ reply' = Said("error")
              \/ reply' = Said("ok") /\ last.op = "other"
<1>1. Goes(Now, Len(todo) = 1) /\ Ready(Now.m)
  BY NowGoes
<1>2. h \in HandleType \cup {NoHandle}
  BY DEF MoveInv, HandleInv, Holds
<1>3. CASE Now.m = "ABORT" /\ Advance(h)
  <2>1. Len(todo) = 1 /\ call.op \in {"abort", "finish"}
    BY <1>1, <1>3 DEF Goes
  <2>2. /\ Return(Said(IF call.op = "finish" /\ h.failed THEN "error" ELSE "ok"))
        /\ h' = NoHandle
    BY <1>3, <2>1 DEF Advance
  <2>3. Holds(h, body)'
    BY <2>2 DEF Holds
  <2>4. Said("ok") # Said("pending") /\ Said("error") # Said("pending")
    BY DEF Said
  <2>5. last.op = "other" \/ (call.op = "finish" /\ h.failed)
    BY <1>1, <1>3 DEF Ready
  <2> QED  BY <2>2, <2>3, <2>4, <2>5, ReturnOver
<1>4. CASE Now.m # "ABORT" /\ AbortsOnFailure
  <2>1. /\ h' = [h EXCEPT !.failed = TRUE] /\ todo' = <<Step("ABORT", h.key)>>
        /\ at' = "top" /\ call' = call /\ reply' = reply
    BY <1>4 DEF StepFails, Proceed
  <2>2. call.op = "finish" /\ proto # "webdav"
    BY <1>4 DEF AbortsOnFailure
  <2>3. h \in HandleType
    BY <1>2, <2>2 DEF MoveInv, CallInv
  <2>4. Holds(h, body)
    BY <2>2 DEF MoveInv, HandleInv
  <2>5. h' # NoHandle /\ h'.failed /\ h'.sent = h.sent /\ Holds(h', body')
    BY <2>1, <2>3, <2>4, FailedHandle
  <2>6. Busy' /\ Len(todo') = 1 /\ todo'[1].m = "ABORT" /\ Now' = todo'[1]
    BY <2>1 DEF Busy, Now, Step
  <2>7. CallInv'
    BY <2>1, <2>2, <2>5, <2>6 DEF MoveInv, CallInv
  <2>8. StepsInv'
    <3>1. Goes(todo[1], TRUE)'
      BY <2>1, <2>2, <2>6 DEF Goes
    <3>2. (\A n \in 1 .. Len(todo) : n = 1 /\ (n = Len(todo)) = TRUE)'
      BY <2>6
    <3>3. (\A n \in 1 .. Len(todo) - 1 : FALSE)'
      BY <2>6
    <3> QED  BY <3>1, <3>2, <3>3 DEF StepsInv
  <2>9. HandleInv'
    BY <2>1, <2>2, <2>5, <2>6, HoldsSame DEF HandleInv
  <2>10. ReadyInv'
    BY <2>1, <2>2, <2>5, <2>6 DEF ReadyInv, Ready
  <2> QED  BY <2>1, <2>7, <2>8, <2>9, <2>10 DEF MoveInv
<1>5. CASE Now.m # "ABORT" /\ ~AbortsOnFailure
  <2>1. /\ Return(Said("error"))
        /\ h' = CASE call.op = "append" -> [h EXCEPT !.failed = TRUE]
                  [] call.op = "finish" -> NoHandle
                  [] OTHER -> h
    BY <1>5 DEF StepFails
  <2>2. Said("error") # Said("pending")
    BY DEF Said
  <2>3. Holds(h, body)'
    <3>1. CASE call.op = "append"
      <4>1. h \in HandleType /\ h' = [h EXCEPT !.failed = TRUE]
        BY <1>2, <2>1, <3>1 DEF MoveInv, CallInv
      <4>2. Holds(h', body')
        BY <3>1, <4>1, FailedHandle DEF MoveInv, HandleInv
      <4> QED  BY <4>2, HoldsSame
    <3>2. CASE call.op = "finish"
      BY <2>1, <3>2 DEF Holds
    <3>3. CASE call.op \notin {"append", "finish"}
      <4>1. h' = h /\ body' = body
        BY <1>1, <2>1, <3>3 DEF Goes
      <4> QED  BY <3>3, <4>1, HoldsSame DEF MoveInv, HandleInv
    <3> QED  BY <3>1, <3>2, <3>3
  <2> QED  BY <2>1, <2>2, <2>3, ReturnOver
<1> QED  BY <1>3, <1>4, <1>5 DEF StepFails

\* What the next step needs, once the current one is done and the handle is x.
Prepares(x) ==
    /\ call.op = "finish" => x.sent = h.sent
    /\ call.op \in {"append", "finish", "abort"} => x # NoHandle
    /\ Len(todo) > 1 =>
         /\ todo[2].m = "COMPLETE" => FlattenSeq(x.etags) = last.data
         /\ todo[2].m = "PART" => x.upload # NoUpload
         /\ todo[2].m = "DELETE" => proto = "webdav" \/ last.was # Absent

\* A step is done and another one follows.
LEMMA MoveOn ==
    ASSUME PlanInv, MoveInv, Busy, Len(todo) > 1, NEW x, Advance(x), Prepares(x),
           proto' = proto, last' = last, body' = body,
           Holds(x, IF call.op = "append" THEN body \o call.data ELSE body)
    PROVE  MoveInv' /\ reply' = reply
<1>1. /\ todo' = Tail(todo) /\ at' = "top" /\ call' = call /\ reply' = reply /\ h' = x
  <2>1. Len(todo) # 1
    BY OneOrMore
  <2> QED  BY <2>1 DEF Advance, Proceed
<1>2. /\ Len(todo) \in Nat /\ Len(todo') = Len(todo) - 1 /\ todo' \in Seq(Steps)
      /\ \A n \in 1 .. Len(todo) - 1 : todo'[n] = todo[n + 1]
  BY <1>1, HeadTail
<1>3. Busy' = Busy /\ Now' = todo[2]
  <2>1. todo' # <<>> /\ 1 \in 1 .. Len(todo) - 1 /\ 1 + 1 = 2
    BY <1>2
  <2>2. todo'[1] = todo[2]
    BY <1>2, <2>1
  <2> QED  BY <1>1, <1>2, <2>1, <2>2 DEF Busy, Now
<1>4. CallInv'
  BY <1>1, <1>3 DEF MoveInv, CallInv, Prepares
<1>5. StepsInv'
  <2>1. ASSUME NEW n \in 1 .. Len(todo') PROVE Goes(todo[n], n = Len(todo))'
    <3>1. /\ n + 1 \in 1 .. Len(todo) /\ todo'[n] = todo[n + 1]
          /\ (n = Len(todo')) = (n + 1 = Len(todo))
      BY <1>2
    <3>2. Goes(todo[n + 1], n + 1 = Len(todo))
      BY <3>1 DEF MoveInv, StepsInv
    <3> QED  BY <1>1, <3>1, <3>2 DEF Goes
  <2>2. ASSUME NEW n \in 1 .. Len(todo') - 1 PROVE Follows(todo[n].m, todo[n + 1].m)'
    <3>1. /\ n + 1 \in 1 .. Len(todo) - 1 /\ todo'[n] = todo[n + 1]
          /\ todo'[n + 1] = todo[(n + 1) + 1]
      BY <1>2
    <3>2. Follows(todo[n + 1].m, todo[(n + 1) + 1].m)
      BY <3>1 DEF MoveInv, StepsInv
    <3> QED  BY <1>1, <3>1, <3>2 DEF Follows
  <2> QED  BY <2>1, <2>2 DEF StepsInv
<1>6. HandleInv'
  <2>1. Holds(x, IF call.op = "append" THEN body \o call.data ELSE body)'
    BY <1>1, HoldsSame
  <2> QED  BY <1>1, <1>3, <2>1 DEF HandleInv
<1>7. ReadyInv'
  <2>1. Follows(Now.m, todo[2].m) /\ Goes(todo[2], Len(todo) = 2)
    BY NowGoes
  <2>2. Ready(Now.m)'
    BY <1>1, <1>3, <2>1 DEF Ready, Prepares, Follows, MoveInv, CallInv
  <2> QED  BY <1>1, <2>2 DEF ReadyInv
<1> QED  BY <1>1, <1>4, <1>5, <1>6, <1>7 DEF MoveInv

\* The last step is done.
LEMMA MoveDone ==
    ASSUME PlanInv, MoveInv, Busy, Len(todo) = 1, NEW x, Advance(x), proto' = proto,
           call.op \notin {"finish", "abort"} => Holds(x, body')
    PROVE  /\ MoveInv'
           /\ reply' = Said(IF call.op = "finish" /\ x.failed THEN "error" ELSE "ok")
<1>1. /\ Return(Said(IF call.op = "finish" /\ x.failed THEN "error" ELSE "ok"))
      /\ h' = IF call.op \in {"finish", "abort"} THEN NoHandle ELSE x
  BY DEF Advance
<1>2. Said("ok") # Said("pending") /\ Said("error") # Said("pending")
  BY DEF Said
<1>3. Holds(h, body)'
  <2>1. CASE call.op \in {"finish", "abort"}
    BY <1>1, <2>1 DEF Holds
  <2>2. CASE call.op \notin {"finish", "abort"}
    BY <1>1, <2>2, HoldsSame
  <2> QED  BY <2>1, <2>2
<1> QED  BY <1>1, <1>2, <1>3, ReturnOver

-----------------------------------------------------------------------------
(* Every step of an exchange or of a streamed upload.                      *)

\* What a step of the client tells the caller: nothing yet, or the truth.
Reports ==
    \/ reply' = reply
    \/ /\ reply = Said("pending") /\ Contract!Truthful(reply')
       /\ reply' \in [rc : {"ok", "absent", "error"}] \cup [rc : {"ok"}, data : Content]

\* An error may be reported of any call.
LEMMA SaysError ==
    ASSUME CallInv, Busy, reply' = Said("error") PROVE Reports
BY DEF Reports, Contract!Truthful, Said, CallInv

\* A call that changes no key may report success.
LEMMA SaysDone ==
    ASSUME CallInv, Busy, reply' = Said("ok"), last.op = "other" PROVE Reports
BY DEF Reports, Contract!Truthful, Said, CallInv

\* An exchange that has failed, whatever becomes of its connection.
LEMMA FailReports ==
    ASSUME PlanInv, MoveInv, Busy, StepFails, proto' = proto, last' = last,
           body' = body \/ Now.m = "STREAM"
    PROVE  MoveInv' /\ Reports
<1>1. CallInv
  BY DEF MoveInv
<1> QED  BY <1>1, FailMoves, SaysError, SaysDone DEF Reports

\* Hanging up loses a body only while its upload is being finished.
LEMMA HangUpBody ==
    ASSUME WireInv, Busy, HangUp, Now.m \notin {"DIAL", "CHUNK"}
    PROVE  body' = body \/ Now.m = "STREAM"
BY DEF HangUp, OwnStep

\* An exchange whose connection breaks.
LEMMA BrokenMoves ==
    ASSUME WireInv, PlanInv, MoveInv, Busy, Broken, at # "top", proto' = proto,
           last' = last, at = "recv" \/ ~OwnStep(Now.m)
    PROVE  MoveInv' /\ Reports
<1>1. HangUp /\ Now.m \notin {"DIAL", "CHUNK"}
  BY DEF Broken, WireInv
<1>2. body' = body \/ Now.m = "STREAM"
  BY <1>1, HangUpBody
<1>3. CASE ~Retries
  BY <1>2, <1>3, FailReports DEF Broken
<1>4. CASE Retries
  <2>1. UNCHANGED <<todo, call, h, reply>> /\ at' = "top"
    BY <1>4 DEF Broken
  <2>2. Now.m # "STREAM"
    BY <1>4 DEF Retries, MoveInv, ReadyInv, OwnStep
  <2> QED  BY <1>2, <2>1, <2>2, SameMoves DEF Reports
<1> QED  BY <1>3, <1>4

\* The steps that come to nothing.
LEMMA FaultMoves ==
    ASSUME WireInv, PlanInv, MoveInv,
           ConnectFails \/ SendFails \/ NoAnswerComes \/ Lose \/ Garbled \/ LeftOver
           \/ Rejected \/ DialFails \/ ChunkFails \/ EndBodyFails
    PROVE  MoveInv' /\ Reports
<1>1. Busy /\ proto' = proto /\ last' = last
  BY DEF ConnectFails, SendFails, NoAnswerComes, Lose, Garbled, LeftOver, Rejected, Receive,
         DialFails, ChunkFails, EndBodyFails, OnKept, serverVars
<1>2. CASE ConnectFails \/ DialFails \/ ChunkFails
  BY <1>1, <1>2, FailReports DEF ConnectFails, DialFails, ChunkFails, netVars
<1>3. CASE SendFails \/ NoAnswerComes \/ Lose
  BY <1>1, <1>3, BrokenMoves DEF SendFails, NoAnswerComes, Lose, OnKept
<1>4. CASE Garbled \/ EndBodyFails
  <2>1. HangUp /\ StepFails /\ Now.m \notin {"DIAL", "CHUNK"}
    BY <1>4 DEF Garbled, EndBodyFails, WireInv
  <2> QED  BY <1>1, <2>1, HangUpBody, FailReports
<1>5. CASE LeftOver
  <2>1. at = "recv" /\ Now.m \notin {"DIAL", "CHUNK"}
    BY <1>5 DEF LeftOver, OnKept, WireInv
  <2>2. CASE Broken
    BY <1>1, <2>1, <2>2, BrokenMoves
  <2>3. CASE HangUp /\ StepFails
    BY <1>1, <2>1, <2>3, HangUpBody, FailReports
  <2>4. CASE StepFails /\ body' = body
    BY <1>1, <2>4, FailReports
  <2> QED  BY <1>5, <2>2, <2>3, <2>4 DEF LeftOver
<1>6. CASE Rejected
  <2>1. Busy /\ StepFails /\ at = "recv" /\ (body' = body \/ OwnStep(Now.m))
    BY <1>6 DEF Rejected, Receive
  <2>2. Now.m \notin {"DIAL", "CHUNK"}
    BY <2>1 DEF WireInv
  <2> QED  BY <1>1, <2>1, <2>2, FailReports DEF OwnStep
<1> QED  BY <1>2, <1>3, <1>4, <1>5, <1>6

\* The steps in the middle of an exchange.
LEMMA MiddleMoves ==
    ASSUME PlanInv, MoveInv, ForceFresh \/ Connect \/ Reuse \/ Send \/ EndBody
    PROVE  MoveInv' /\ Reports
<1>1. UNCHANGED <<proto, call, todo, h, reply, last, body>>
  BY DEF ForceFresh, Connect, Reuse, Send, EndBody, serverVars, netVars, exchangeVars,
         historyVars
<1>2. ASSUME Busy, at' = "recv", Now.m = "STREAM" PROVE fresh'
  BY <1>2 DEF ForceFresh, Connect, Reuse, Send, EndBody, OnKept, OwnStep, exchangeVars,
              MoveInv, ReadyInv
<1> QED  BY <1>1, <1>2, SameMoves DEF Reports

\* Between chunks the upload is whole as far as it goes.
LEMMA HoldsNow ==
    ASSUME PlanInv, MoveInv, Busy, Now.m # "CHUNK"
    PROVE  Holds(h, body)
<1>1. Goes(Now, Len(todo) = 1)
  BY NowGoes
<1>2. Holds(h, IF Busy /\ call.op = "append" THEN body \o call.data ELSE body)
  BY DEF MoveInv, HandleInv
<1>3. CASE proto = "webdav"
  BY <1>1, <1>2, <1>3 DEF Goes
<1>4. CASE proto # "webdav"
  BY <1>2, <1>4 DEF Holds
<1> QED  BY <1>3, <1>4

\* What an answer that was received is worth.
LEMMA ReceiveFacts ==
    ASSUME WireInv, AnswerInv, NEW a, Receive(a)
    PROVE  /\ Busy /\ proto' = proto /\ last' = last /\ a = line.ans /\ Right(a)
           /\ Now.m \notin {"DIAL", "CHUNK"} /\ (Now.m # "STREAM" => body' = body)
<1>1. line.ans # NoAnswer
  BY DEF Receive, NoAnswer
<1>2. at # "top"
  BY DEF Receive
<1> QED  BY <1>1, <1>2 DEF Receive, AnswerInv, serverVars, WireInv, OwnStep

\* An exchange that succeeds without anything to read, and the next step.
LEMMA GoOnMoves ==
    ASSUME WireInv, PlanInv, MoveInv, StoreInv, AnswerInv, GoOn
    PROVE  MoveInv' /\ Reports
<1>1. PICK a : /\ Receive(a) /\ Accepts(Now.m, a.st) /\ a.st # "missing"
               /\ Now.m \notin {"GET", "LIST", "INITIATE", "PART"} /\ Advance(h)
  BY DEF GoOn
<1>2. /\ Busy /\ proto' = proto /\ last' = last /\ Right(a)
      /\ Now.m \notin {"DIAL", "CHUNK"} /\ (Now.m # "STREAM" => body' = body)
  BY <1>1, ReceiveFacts
<1>3. /\ Now \in Steps /\ Goes(Now, Len(todo) = 1) /\ Len(todo) \in Nat /\ Len(todo) >= 1
      /\ Len(todo) > 1 => Follows(Now.m, todo[2].m)
  BY <1>2, NowGoes
<1>4. a.st = "ok" \/ Now.m = "MKCOL"
  BY <1>1, <1>3 DEF Accepts, Steps, Methods
<1>5. Holds(h, body)
  BY <1>2, HoldsNow
<1>6. CASE Len(todo) > 1
  <2>1. Len(todo) # 1
    BY <1>2, <1>6, OneOrMore
  <2>2. body' = body
    BY <1>2, <1>3, <2>1 DEF Goes
  <2>3. Prepares(h)
    BY <1>1, <1>2, <1>3, <1>4, <1>6, <2>1 DEF Prepares, Follows, Goes, Right, MoveInv, CallInv
  <2>4. Holds(h, IF call.op = "append" THEN body \o call.data ELSE body)
    BY <1>2 DEF MoveInv, HandleInv
  <2>5. MoveInv' /\ reply' = reply
    BY <1>1, <1>2, <1>6, <2>2, <2>3, <2>4, MoveOn
  <2> QED  BY <2>5 DEF Reports
<1>7. CASE Len(todo) = 1
  <2>1. Goes(Now, TRUE)
    BY <1>3, <1>7
  <2>2. call.op \notin {"finish", "abort"} => body' = body
    BY <1>2, <2>1 DEF Goes
  <2>3. /\ MoveInv'
        /\ reply' = Said(IF call.op = "finish" /\ h.failed THEN "error" ELSE "ok")
    BY <1>1, <1>2, <1>5, <1>7, <2>2, MoveDone
  <2>4. CallInv
    BY DEF MoveInv
  <2>5. CASE Now.m \in {"MKCOL", "ABORT"}
    <3>1. last.op = "other" \/ (call.op = "finish" /\ h.failed)
      BY <1>2, <2>1, <2>5, NowGoes DEF Goes, Ready
    <3>2. CASE call.op = "finish" /\ h.failed
      BY <1>2, <2>3, <2>4, <3>2, SaysError
    <3>3. CASE ~(call.op = "finish" /\ h.failed)
      BY <1>2, <2>3, <2>4, <3>1, <3>3, SaysDone
    <3> QED  BY <3>2, <3>3
  <2>6. CASE Now.m \in {"PUT", "STREAM", "COMPLETE", "EXISTS", "DELETE"}
    <3>1. a.st = "ok"
      BY <1>4, <2>6
    <3>2. Contract!Truthful(Said("ok"))
      <4>1. CASE Now.m \in {"PUT", "STREAM", "COMPLETE"}
        BY <1>2, <2>1, <3>1, <4>1 DEF Goes, Right, Contract!Truthful, Said
      <4>2. CASE Now.m = "EXISTS"
        BY <1>2, <2>1, <3>1, <4>2 DEF Goes, Right, Contract!Truthful, Said
      <4>3. CASE Now.m = "DELETE"
        BY <1>2, <2>1, <3>1, <4>3 DEF Goes, Right, Contract!Truthful, Said
      <4> QED  BY <2>6, <4>1, <4>2, <4>3
    <3>3. reply = Said("pending") /\ Contract!Truthful(Said("error"))
      BY <1>2, <2>4 DEF CallInv, Contract!Truthful, Said
    <3>4. Said("ok") \in [rc : {"ok", "absent", "error"}]
          /\ Said("error") \in [rc : {"ok", "absent", "error"}]
      BY DEF Said
    <3> QED  BY <2>3, <3>2, <3>3, <3>4 DEF Reports
  <2> QED  BY <1>1, <1>2, <1>3, <2>5, <2>6 DEF Steps, Methods
<1> QED  BY <1>2, <1>6, <1>7, OneOrMore

\* The content a GET answers is what the key holds.
LEMMA GotContentMoves ==
    ASSUME WireInv, PlanInv, MoveInv, StoreInv, AnswerInv, GotContent
    PROVE  MoveInv' /\ Reports
<1>1. PICK a : /\ Receive(a) /\ Accepts(Now.m, a.st) /\ a.st # "missing" /\ Now.m = "GET"
               /\ Return([rc |-> "ok", data |-> a.data]) /\ h' = h
  BY DEF GotContent
<1>2. /\ Busy /\ proto' = proto /\ Right(a) /\ body' = body
  BY <1>1, ReceiveFacts
<1>3. last.op = "get" /\ last.key \in Key
  BY <1>1, <1>2, NowGoes DEF Goes, StoreInv, Contract!Calls, Contract!NoCall
<1>4. a.st = "ok"
  BY <1>1 DEF Accepts
<1>5. store[last.key] # Absent /\ a.data = store[last.key] /\ a.data \in Content
  BY <1>1, <1>2, <1>3, <1>4 DEF Right, StoreInv
<1>6. Holds(h, body)'
  BY <1>1, <1>2, HoldsNow, HoldsSame
<1> DEFINE r == [rc |-> "ok", data |-> a.data]
<1>7. r # Said("pending") /\ r \in [rc : {"ok"}, data : Content]
  <2>1. r.rc = "ok" /\ Said("pending").rc = "pending"
    BY DEF Said
  <2> QED  BY <1>5, <2>1
<1>8. Contract!Truthful(r)
  BY <1>3, <1>5 DEF Contract!Truthful
<1>9. MoveInv' /\ reply' = r
  <2> HIDE DEF r
  <2>1. Return(r)
    BY <1>1 DEF r
  <2> QED  BY <1>6, <1>7, <2>1, ReturnOver
<1>10. reply = Said("pending")
  BY <1>2 DEF MoveInv, CallInv
<1> HIDE DEF r
<1> QED  BY <1>7, <1>8, <1>9, <1>10 DEF Reports

LEMMA NotThereMoves ==
    ASSUME WireInv, PlanInv, MoveInv, StoreInv, AnswerInv, NotThere
    PROVE  MoveInv' /\ Reports
<1>1. PICK a : /\ Receive(a) /\ Accepts(Now.m, a.st) /\ a.st = "missing" /\ h' = h
               /\ Return(Said(IF Now.m = "LIST" THEN "ok" ELSE "absent"))
  BY DEF NotThere
<1>2. /\ Busy /\ proto' = proto /\ Right(a) /\ (Now.m # "STREAM" => body' = body)
  BY <1>1, ReceiveFacts
<1>3. Now \in Steps /\ Goes(Now, Len(todo) = 1)
  BY <1>2, NowGoes
<1>4. Now.m \in {"GET", "EXISTS", "LIST", "DELETE"}
  BY <1>1, <1>3 DEF Accepts, Steps, Methods
<1>5. Holds(h, body)'
  BY <1>1, <1>2, <1>4, HoldsNow, HoldsSame
<1>6. /\ Said("ok") # Said("pending") /\ Said("absent") # Said("pending")
      /\ Said("absent") \in [rc : {"ok", "absent", "error"}]
  BY DEF Said
<1>7. MoveInv' /\ reply' = Said(IF Now.m = "LIST" THEN "ok" ELSE "absent")
  BY <1>1, <1>5, <1>6, ReturnOver
<1>8. CallInv
  BY DEF MoveInv
<1>9. CASE Now.m = "LIST"
  BY <1>2, <1>3, <1>7, <1>8, <1>9, SaysDone DEF Goes
<1>10. CASE Now.m # "LIST"
  <2>1. last.op \in {"get", "exists", "remove"} /\ store[last.key] = Absent
    BY <1>1, <1>2, <1>3, <1>4, <1>10 DEF Goes, Right
  <2>2. Contract!Truthful(Said("absent"))
    BY <2>1 DEF Contract!Truthful, Said
  <2>3. reply = Said("pending")
    BY <1>2, <1>8 DEF CallInv
  <2> QED  BY <1>6, <1>7, <1>10, <2>2, <2>3 DEF Reports
<1> QED  BY <1>9, <1>10

\* A page of a listing.
LEMMA GotPageMoves ==
    ASSUME WireInv, PlanInv, MoveInv, AnswerInv, GotPage
    PROVE  MoveInv' /\ Reports
<1>1. PICK a : /\ Receive(a) /\ Now.m = "LIST" /\ h' = h
               /\ \/ Proceed(todo) /\ UNCHANGED <<call, reply>>
                  \/ Return(Said("error"))
                  \/ Return(Said("ok"))
  BY DEF GotPage
<1>2. /\ Busy /\ proto' = proto /\ last' = last /\ body' = body
  BY <1>1, ReceiveFacts
<1>3. last.op = "other"
  BY <1>1, <1>2, NowGoes DEF Goes
<1>4. Holds(h, body)'
  BY <1>1, <1>2, HoldsNow, HoldsSame
<1>5. Said("ok") # Said("pending") /\ Said("error") # Said("pending")
  BY DEF Said
<1>6. CASE Proceed(todo) /\ UNCHANGED <<call, reply>>
  <2>1. MoveInv'
    BY <1>1, <1>2, <1>6, SameMoves DEF Proceed
  <2> QED  BY <1>6, <2>1 DEF Reports
<1>7. CASE Return(Said("error")) \/ Return(Said("ok"))
  <2>1. MoveInv' /\ reply' \in {Said("error"), Said("ok")}
    BY <1>4, <1>5, <1>7, ReturnOver
  <2>2. CallInv
    BY DEF MoveInv
  <2> QED  BY <1>2, <1>3, <2>1, <2>2, SaysError, SaysDone
<1> QED  BY <1>1, <1>6, <1>7

LEMMA GotUploadMoves ==
    ASSUME WireInv, PlanInv, MoveInv, AnswerInv, GotUpload
    PROVE  MoveInv' /\ Reports
<1>1. PICK a : /\ Receive(a) /\ Now.m = "INITIATE" /\ a.st = "ok"
               /\ Advance([h EXCEPT !.upload = a.id])
  BY DEF GotUpload
<1> DEFINE x == [h EXCEPT !.upload = a.id]
           b == IF call.op = "append" THEN body \o call.data ELSE body
<1>2. Busy /\ proto' = proto /\ last' = last /\ Right(a) /\ body' = body
  BY <1>1, ReceiveFacts
<1>3. /\ Goes(Now, Len(todo) = 1) /\ Len(todo) \in Nat /\ Len(todo) >= 1
      /\ Len(todo) > 1 => Follows(Now.m, todo[2].m)
  BY <1>2, NowGoes
<1>4. h \in HandleType /\ Holds(h, b)
  BY <1>1, <1>2, <1>3 DEF MoveInv, HandleInv, CallInv, Goes, Holds
<1>5. a.id \in Upload
  BY <1>1, <1>2 DEF Right
<1>6. x \in HandleType /\ x.upload # NoUpload /\ x.sent = h.sent /\ Holds(x, b)
  <2> HIDE DEF b
  <2> QED  BY <1>4, <1>5, StartedHandle
<1>7. Len(todo) # 1 /\ Len(todo) > 1
  <2>1. Len(todo) # 1
    BY <1>1, <1>3 DEF Goes
  <2> QED  BY <1>2, <2>1, OneOrMore
<1> HIDE DEF x
<1>8. Prepares(x)
  BY <1>1, <1>3, <1>6, <1>7, IsHandle DEF Prepares, Follows
<1>9. Advance(x)
  BY <1>1 DEF x
<1>10. MoveInv' /\ reply' = reply
  BY <1>2, <1>6, <1>7, <1>8, <1>9, MoveOn
<1> QED  BY <1>10 DEF Reports

LEMMA GotETagMoves ==
    ASSUME WireInv, PlanInv, MoveInv, AnswerInv, GotETag
    PROVE  MoveInv' /\ Reports
<1>1. PICK a : /\ Receive(a) /\ Now.m = "PART" /\ a.st = "ok"
               /\ Advance(Emptied([h EXCEPT !.etags = Append(@, a.data)]))
  BY DEF GotETag
<1> DEFINE x == Emptied([h EXCEPT !.etags = Append(@, h.body)])
           b == IF call.op = "append" THEN body \o call.data ELSE body
<1>2. Busy /\ proto' = proto /\ last' = last /\ Right(a) /\ body' = body
  BY <1>1, ReceiveFacts
<1>3. /\ Goes(Now, Len(todo) = 1) /\ Len(todo) \in Nat /\ Len(todo) >= 1 /\ Ready(Now.m)
      /\ Len(todo) > 1 => Follows(Now.m, todo[2].m) /\ Goes(todo[2], Len(todo) = 2)
  BY <1>2, NowGoes
<1>4. h \in HandleType /\ Holds(h, b) /\ proto # "webdav" /\ h.upload # NoUpload
  BY <1>1, <1>2, <1>3 DEF MoveInv, HandleInv, CallInv, Goes, Holds, Ready
<1>5. a.data = h.body
  BY <1>1, <1>2 DEF Right
<1>6. Advance(x)
  BY <1>1, <1>5
<1>7. /\ x \in HandleType /\ Holds(x, b) /\ x.sent = h.sent
      /\ FlattenSeq(x.etags) = x.sent /\ x.upload # NoUpload
  <2> HIDE DEF b
  <2> QED  BY <1>4, PartHandle
<1> HIDE DEF x
<1>8. CASE Len(todo) > 1
  <2>1. ASSUME todo[2].m = "COMPLETE" PROVE FlattenSeq(x.etags) = last.data
    BY <1>2, <1>3, <1>7, <1>8, <2>1 DEF Goes, MoveInv, CallInv
  <2>2. Prepares(x)
    BY <1>1, <1>3, <1>7, <1>8, <2>1, IsHandle DEF Prepares, Follows
  <2>3. MoveInv' /\ reply' = reply
    BY <1>2, <1>6, <1>7, <1>8, <2>2, MoveOn
  <2> QED  BY <2>3 DEF Reports
<1>9. CASE Len(todo) = 1
  <2>1. Holds(x, body')
    BY <1>4, <1>7 DEF Holds
  <2>2. /\ MoveInv'
        /\ reply' = Said(IF call.op = "finish" /\ x.failed THEN "error" ELSE "ok")
    BY <1>2, <1>6, <1>9, <2>1, MoveDone
  <2>3. last.op = "other" /\ CallInv
    BY <1>1, <1>3, <1>9 DEF Goes, MoveInv
  <2>4. CASE call.op = "finish" /\ x.failed
    BY <1>2, <2>2, <2>3, <2>4, SaysError
  <2>5. CASE ~(call.op = "finish" /\ x.failed)
    BY <1>2, <2>2, <2>3, <2>5, SaysDone
  <2> QED  BY <2>2, <2>4, <2>5
<1> QED  BY <1>2, <1>8, <1>9, OneOrMore

\* The two steps of a streamed upload that need no answer.
LEMMA StreamMoves ==
    ASSUME PlanInv, MoveInv, Dial \/ SendChunk
    PROVE  MoveInv' /\ Reports
<1>1. Busy /\ proto' = proto /\ Now.m \in {"DIAL", "CHUNK"}
  BY DEF Dial, SendChunk, serverVars
<1>2. Goes(Now, Len(todo) = 1)
  BY <1>1, NowGoes
<1>3. Len(todo) = 1 /\ last.op = "other" /\ call.op \notin {"finish", "abort"}
  BY <1>1, <1>2 DEF Goes
<1>4. \E x : Advance(x) /\ Holds(x, body')
  <2>1. CASE Dial
    <3>1. Now.path \in Key /\ call.data \in Content
      BY <1>2, <2>1 DEF Dial, Goes
    <3> QED  BY <2>1, <3>1, FreshHandle DEF Dial
  <2>2. CASE SendChunk
    BY <1>2, <2>2 DEF SendChunk, Goes, MoveInv, HandleInv
  <2> QED  BY <2>1, <2>2
<1>5. PICK x : Advance(x) /\ Holds(x, body')
  BY <1>4
<1>6. MoveInv' /\ reply' = Said("ok")
  BY <1>1, <1>3, <1>5, MoveDone
<1>7. CallInv
  BY DEF MoveInv
<1> QED  BY <1>1, <1>3, <1>6, <1>7, SaysDone

LEMMA ClientStores ==
    ASSUME WireInv, PlanInv, MoveInv, StoreInv, AnswerInv, Client
    PROVE  MoveInv' /\ Reports
BY FaultMoves, MiddleMoves, GoOnMoves, GotContentMoves, NotThereMoves, GotPageMoves,
   GotUploadMoves, GotETagMoves, StreamMoves DEF Client

-----------------------------------------------------------------------------
(* What is sent, and what has been sent.                                   *)

\* A step leaves nothing waiting, unless it has just sent a request.
LEMMA ClientQuiet ==
    ASSUME WireInv, Client
    PROVE  /\ \/ line' = Quiet
              \/ /\ Send \/ EndBody
                 /\ line'.req = Request /\ line'.ans = NoAnswer
           /\ \A r \in abandoned' : r \in abandoned \/ r = line.req
           /\ last' = last /\ store' = store /\ proto' = proto
<1>1. Quiet.req = NoRequest /\ Quiet.ans = NoAnswer
  BY DEF Quiet
<1>2. HangUp => line' = Quiet /\ \A r \in abandoned' : r \in abandoned \/ r = line.req
  BY DEF HangUp
<1>3. CASE ForceFresh \/ Connect \/ ConnectFails \/ Reuse \/ Dial \/ DialFails
           \/ SendChunk \/ ChunkFails
  <2>1. line' = line /\ abandoned' = abandoned
    BY <1>3 DEF ForceFresh, Connect, ConnectFails, Reuse, Dial, DialFails, SendChunk,
                ChunkFails, netVars
  <2>2. Busy /\ (at = "top" \/ Now.m \in {"DIAL", "CHUNK"})
    BY <1>3 DEF ForceFresh, Connect, ConnectFails, Reuse, Dial, DialFails, SendChunk,
                ChunkFails, OnKept
  <2>3. line = Quiet
    BY <2>2 DEF WireInv, AnswersMatch
  <2>4. last' = last /\ store' = store /\ proto' = proto
    BY <1>3 DEF ForceFresh, Connect, ConnectFails, Reuse, Dial, DialFails, SendChunk,
                ChunkFails, serverVars, historyVars
  <2> QED  BY <2>1, <2>3, <2>4
<1>4. CASE Send \/ EndBody
  <2>1. /\ abandoned' = abandoned /\ line' \in {line, [line EXCEPT !.req = Request]}
        /\ at \in {"top", "send"}
        /\ last' = last /\ store' = store /\ proto' = proto
    BY <1>4 DEF Send, EndBody, OnKept, serverVars, historyVars
  <2>2. line = Quiet
    BY <2>1 DEF WireInv, AnswersMatch
  <2>3. /\ [line EXCEPT !.req = Request].req = Request
        /\ [line EXCEPT !.req = Request].ans = NoAnswer
    BY <2>2 DEF Quiet
  <2> QED  BY <1>4, <2>1, <2>2, <2>3
<1>5. CASE SendFails \/ NoAnswerComes \/ Lose \/ Garbled \/ EndBodyFails
  BY <1>2, <1>5 DEF SendFails, NoAnswerComes, Lose, Garbled, EndBodyFails, Broken,
                    serverVars
<1>6. CASE LeftOver
  <2>1. line = Quiet
    BY <1>6 DEF LeftOver, OnKept, WireInv
  <2> QED  BY <1>2, <1>6, <2>1 DEF LeftOver, Broken, serverVars
<1>7. CASE GoOn \/ GotContent \/ NotThere \/ GotPage \/ GotUpload \/ GotETag \/ Rejected
  BY <1>7 DEF GoOn, GotContent, NotThere, GotPage, GotUpload, GotETag, Rejected, Receive,
              serverVars
<1> QED  BY <1>3, <1>4, <1>5, <1>6, <1>7 DEF Client

\* A request that is sent carries what the call is about.
LEMMA SendServes ==
    ASSUME PlanInv, MoveInv, Send \/ EndBody, last' = last, line'.req = Request
    PROVE  Serves(line.req)' /\ (line.req # NoRequest =>
               /\ Busy /\ line.req.m = Now.m /\ line.req.path = Now.path
               /\ Now.m = "PART" => line.req.data = h.body)'
<1>1. Busy /\ UNCHANGED <<call, todo, h>>
  BY DEF Send, EndBody, OnKept
<1>2. Goes(Now, Len(todo) = 1) /\ Ready(Now.m)
  BY <1>1, NowGoes
<1>3. Request.m = Now.m /\ Request.path = Now.path
  BY DEF Request
<1>4. /\ Now.m \in {"PUT", "STREAM"} => Request.data = last.data
      /\ Now.m = "COMPLETE" => Request.etags = h.etags
      /\ Now.m = "PART" => Request.data = h.body
  <2>1. CASE Now.m \in {"PUT", "STREAM"}
    BY <1>2, <2>1 DEF Request, Ready
  <2>2. CASE Now.m = "COMPLETE"
    BY <2>2 DEF Request
  <2>3. CASE Now.m = "PART"
    BY <1>2, <2>3 DEF Request, Goes
  <2> QED  BY <2>1, <2>2, <2>3
<1>5. Busy' /\ Now' = Now
  BY <1>1 DEF Busy, Now
<1>6. ASSUME NEW r, r = Request PROVE Serves(r)
  BY <1>2, <1>3, <1>4, <1>6 DEF Serves, Goes, Ready
<1>7. Serves(line.req)'
  BY <1>6 DEF Serves
<1> QED  BY <1>1, <1>3, <1>4, <1>5, <1>7

LEMMA ServesNothing == \A r : r = NoRequest => Serves(r)
BY DEF NoRequest, Serves

\* What the client sends serves the call, and it changes no key itself.
LEMMA ClientSent ==
    ASSUME WireInv, PlanInv, MoveInv, StoreInv, SentInv, Client
    PROVE  SentInv' /\ StoreInv' /\ AnswerInv'
<1>1. /\ \/ line' = Quiet
         \/ /\ Send \/ EndBody
            /\ line'.req = Request /\ line'.ans = NoAnswer
      /\ \A r \in abandoned' : r \in abandoned \/ r = line.req
      /\ last' = last /\ store' = store /\ proto' = proto
  BY ClientQuiet
<1>2. \A r : Serves(r) => Serves(r)'
  BY <1>1 DEF Serves
<1>3. \A r \in abandoned' : Serves(r)'
  BY <1>1, <1>2 DEF SentInv
<1>4. CASE line' = Quiet
  <2>1. line'.req = NoRequest /\ line'.ans = NoAnswer
    BY <1>4 DEF Quiet
  <2>2. Serves(line.req)'
    BY <1>2, <2>1, ServesNothing
  <2> QED  BY <1>1, <1>3, <2>1, <2>2 DEF SentInv, StoreInv, AnswerInv
<1>5. CASE line' # Quiet
  <2>1. (Send \/ EndBody) /\ line'.req = Request /\ line'.ans = NoAnswer
    BY <1>1, <1>5
  <2> QED  BY <1>1, <1>3, <2>1, SendServes DEF SentInv, StoreInv, AnswerInv
<1> QED  BY <1>4, <1>5

-----------------------------------------------------------------------------
(* What the server does.                                                   *)

\* What the call asked for takes effect.
Effect ==
    \/ last.op = "put" /\ store' = [store EXCEPT ![last.key] = last.data]
    \/ last.op = "remove" /\ store' = [store EXCEPT ![last.key] = Absent]

\* The key and the content of the call under way.
LEMMA LastType ==
    ASSUME StoreInv
    PROVE  /\ last.op \in {"put", "get", "exists", "remove"} => last.key \in Key
           /\ last.op = "put" => last.data \in Content
           /\ Absent \notin Content
BY ContentAssumption DEF StoreInv, Contract!Calls, Contract!NoCall

\* A request carried out has the effect of the call, or none.
LEMMA ExecuteEffect ==
    ASSUME NEW r, Execute(r), Serves(r)
    PROVE  (Effect /\ StatusOf(r) = "ok") \/ store' = store
<1>1. StatusOf(r) # "ok" => store' = store
  BY DEF Execute
<1>2. ASSUME StatusOf(r) = "ok" PROVE Effect \/ store' = store
  <2>1. store' = CASE r.m \in {"PUT", "STREAM"} -> [store EXCEPT ![r.path] = r.data]
                   [] r.m = "DELETE" -> [store EXCEPT ![r.path] = Absent]
                   [] r.m = "COMPLETE" -> [store EXCEPT ![r.path] = FlattenSeq(r.etags)]
                   [] OTHER -> store
    BY <1>2 DEF Execute
  <2>2. CASE r.m \in {"PUT", "STREAM"}
    BY <2>1, <2>2 DEF Serves, Effect
  <2>3. CASE r.m = "DELETE"
    BY <2>1, <2>3 DEF Serves, Effect
  <2>4. CASE r.m = "COMPLETE"
    BY <2>1, <2>4 DEF Serves, Effect
  <2>5. CASE r.m \notin {"PUT", "STREAM", "DELETE", "COMPLETE"}
    BY <2>1, <2>5
  <2> QED  BY <2>2, <2>3, <2>4, <2>5
<1> QED  BY <1>1, <1>2

\* The effect of the call keeps the store well formed.
LEMMA EffectStore ==
    ASSUME StoreInv, Effect \/ store' = store, last' = last, proto' = proto
    PROVE  StoreInv'
<1>1. store' \in [Key -> Content \cup {Absent}]
  BY LastType DEF StoreInv, Effect
<1>2. last.op = "remove" => store'[last.key] \in {last.was, Absent}
  BY LastType DEF StoreInv, Effect
<1> QED  BY <1>1, <1>2 DEF StoreInv

\* What was so when an answer was made stays so.
LEMMA EffectRight ==
    ASSUME StoreInv, PlanInv, MoveInv, Busy, NEW a, Right(a), Effect \/ store' = store,
           UNCHANGED <<todo, last, h>>
    PROVE  Right(a)'
<1>1. Goes(Now, Len(todo) = 1) /\ Now' = Now
  BY NowGoes DEF Now
<1>2. CASE store' = store
  BY <1>1, <1>2 DEF Right
<1>3. CASE Effect
  <2>1. /\ last.op = "put" => store'[last.key] = last.data
        /\ last.op = "remove" => store'[last.key] = Absent
        /\ last.op \in {"put", "remove"}
    BY <1>3, LastType DEF Effect, StoreInv
  <2>2. Now.m \in {"PUT", "STREAM", "COMPLETE"} => last.op = "put"
    BY <1>1 DEF Goes
  <2>3. Now.m \in {"DELETE", "EXISTS"} => last.op = "remove"
    BY <1>1, <2>1 DEF Goes
  <2>4. Now.m # "GET"
    BY <1>1, <2>1 DEF Goes
  <2> QED  BY <1>1, <2>1, <2>2, <2>3, <2>4 DEF Right
<1> QED  BY <1>2, <1>3

\* An answer to the request that is waiting is right when it is made.
LEMMA ServedRight ==
    ASSUME StoreInv, PlanInv, MoveInv, SentInv, Unserved, Execute(line.req),
           NEW a, a.st = StatusOf(line.req), a.data = AnswerTo(line.req).data,
           a.id = AnswerTo(line.req).id, UNCHANGED <<todo, last, h>>
    PROVE  Right(a)'
<1> DEFINE r == line.req
<1>1. /\ Busy /\ r.m = Now.m /\ r.path = Now.path /\ Serves(r)
      /\ (Now.m = "PART" => r.data = h.body)
  BY DEF Unserved, SentInv
<1>2. Goes(Now, Len(todo) = 1) /\ Ready(Now.m) /\ Now' = Now
  BY <1>1, NowGoes DEF Now
<1>3. /\ a.st = StatusOf(r) /\ Execute(r)
      /\ a.data = (IF r.m = "GET" /\ StatusOf(r) = "ok" THEN store[r.path] ELSE r.data)
      /\ a.id = (IF r.m = "INITIATE" /\ FreeUploads # {} THEN FreeUpload ELSE NoUpload)
  BY DEF AnswerTo
<1> HIDE DEF r
<1>4. ASSUME a.st = "ok", Now.m \in {"PUT", "STREAM", "COMPLETE"}
      PROVE  store'[last.key] = last.data
  <2>1. last.key \in DOMAIN store
    BY <1>2, <1>4, LastType DEF Goes, StoreInv
  <2>2. /\ r.m \in {"PUT", "STREAM"} => store' = [store EXCEPT ![r.path] = r.data]
        /\ r.m = "COMPLETE" => store' = [store EXCEPT ![r.path] = FlattenSeq(r.etags)]
    BY <1>3, <1>4 DEF Execute
  <2> QED  BY <1>1, <1>4, <2>1, <2>2 DEF Serves
<1>5. ASSUME a.st = "ok", Now.m = "DELETE"
      PROVE  store'[last.key] = Absent /\ last.was # Absent
  <2>1. last.op = "remove" /\ r.path = last.key /\ last.key \in DOMAIN store
    BY <1>1, <1>2, <1>5, LastType DEF Goes, StoreInv
  <2>2. store' = [store EXCEPT ![r.path] = Absent]
    BY <1>1, <1>3, <1>5 DEF Execute
  <2>3. CASE proto = "webdav"
    <3>1. store[last.key] # Absent
      BY <1>1, <1>3, <1>5, <2>1, <2>3 DEF StatusOf
    <3> QED  BY <2>1, <2>2, <3>1 DEF StoreInv
  <2>4. CASE proto # "webdav"
    BY <1>2, <1>5, <2>1, <2>2, <2>4 DEF Ready
  <2> QED  BY <2>3, <2>4
<1>6. ASSUME Now.m \in {"GET", "EXISTS"}, a.st \in {"ok", "missing"}
      PROVE  /\ store' = store /\ r.path = last.key
             /\ IF a.st = "ok" THEN store[last.key] # Absent ELSE store[last.key] = Absent
  <2>1. r.path = last.key /\ store' = store
    BY <1>1, <1>2, <1>3, <1>6 DEF Goes, Execute
  <2>2. CASE Now.m = "GET"
    BY <1>1, <1>3, <1>6, <2>1, <2>2 DEF StatusOf
  <2>3. CASE Now.m = "EXISTS"
    BY <1>1, <1>3, <1>6, <2>1, <2>3 DEF StatusOf
  <2> QED  BY <1>6, <2>1, <2>2, <2>3
<1>7. ASSUME a.st = "missing", Now.m = "DELETE" PROVE store'[last.key] = Absent
  <2>1. r.path = last.key /\ store' = store
    BY <1>1, <1>2, <1>3, <1>7 DEF Goes, Execute
  <2> QED  BY <1>1, <1>3, <1>7, <2>1 DEF StatusOf
<1>8. ASSUME a.st = "ok", Now.m = "INITIATE" PROVE a.id \in Upload
  <2>1. FreeUploads # {}
    BY <1>1, <1>3, <1>8 DEF StatusOf
  <2>2. \E u \in Upload : uploads[u] = NoUpload
    BY <2>1 DEF FreeUploads
  <2>3. FreeUpload \in Upload
    BY <2>2 DEF FreeUpload
  <2> QED  BY <1>1, <1>3, <1>8, <2>1, <2>3
<1>9. ASSUME a.st = "ok", Now.m = "PART" PROVE a.data = h.body
  BY <1>1, <1>3, <1>9
<1>10. ASSUME a.st = "ok", Now.m = "GET" PROVE a.data = store[last.key]
  BY <1>1, <1>3, <1>6, <1>10
<1>11. ASSUME a.st = "ok", Now.m = "EXISTS", last.op = "remove" PROVE last.was # Absent
  BY <1>6, <1>11 DEF StoreInv
<1> QED  BY <1>2, <1>4, <1>5, <1>6, <1>7, <1>8, <1>9, <1>10, <1>11 DEF Right

\* The server, in time or late, does to the store what the call asked for.
LEMMA ServerStores ==
    ASSUME WireInv, PlanInv, MoveInv, StoreInv, SentInv, AnswerInv, Server
    PROVE  /\ MoveInv' /\ StoreInv' /\ SentInv' /\ AnswerInv'
           /\ Effect \/ store' = store
           /\ UNCHANGED <<last, reply>>
<1>1. /\ UNCHANGED <<proto, call, todo, h, reply, last, body, at, fresh>>
      /\ abandoned' \subseteq abandoned /\ line'.req \in {line.req, NoRequest}
      /\ \/ UNCHANGED serverVars
         \/ Unserved /\ Execute(line.req)
         \/ \E r \in abandoned : Execute(r)
  <2>1. UNCHANGED <<h, last, body, at, fresh>>
    BY DEF Server, Serve, ServeBadly, ServeLate, IdleClose, Answer, exchangeVars,
           historyVars
  <2> QED  BY <2>1, ServerAsked
<1>2. MoveInv'
  <2>1. Busy /\ at' = "recv" /\ Now.m = "STREAM" => fresh'
    BY <1>1 DEF MoveInv, ReadyInv
  <2> QED  BY <1>1, <2>1, SameMoves
<1>3. Effect \/ store' = store
  BY <1>1, ExecuteEffect DEF SentInv, serverVars
<1>4. StoreInv'
  BY <1>1, <1>3, EffectStore
<1>5. SentInv'
  <2>1. \A r : Serves(r)' <=> Serves(r)
    BY <1>1 DEF Serves
  <2>2. Busy' = Busy /\ Now' = Now
    BY <1>1 DEF Busy, Now
  <2> QED  BY <1>1, <2>1, <2>2, ServesNothing DEF SentInv
<1>6. AnswerInv'
  <2>1. ASSUME line' = line PROVE AnswerInv'
    <3>1. line.ans # NoAnswer => Busy
      BY DEF AnswerInv, SentInv
    <3> QED  BY <1>1, <1>3, <2>1, <3>1, EffectRight DEF AnswerInv
  <2>2. CASE ServeLate \/ IdleClose
    <3>1. line' = line \/ line' = Quiet
      BY <2>2 DEF ServeLate, IdleClose
    <3>2. Quiet.ans = NoAnswer
      BY DEF Quiet
    <3> QED  BY <2>1, <3>1, <3>2 DEF AnswerInv
  <2>3. ASSUME NEW b, Answer(b), Unserved, Right(b)' PROVE AnswerInv'
    <3>1. line'.ans = b /\ line'.req = line.req /\ line.req # NoRequest
      BY <2>3 DEF Answer, WireInv, Unserved
    <3> QED  BY <2>3, <3>1 DEF AnswerInv
  <2>4. ASSUME NEW b, Answer(b), Unserved, Execute(line.req), b.st = StatusOf(line.req),
               b.data = AnswerTo(line.req).data, b.id = AnswerTo(line.req).id
        PROVE  AnswerInv'
    <3>1. Right(b)'
      BY <1>1, <2>4, ServedRight
    <3> QED  BY <2>3, <2>4, <3>1
  <2>5. ASSUME NEW b, Answer(b), Unserved, b.st \notin {"ok", "missing"}
        PROVE  AnswerInv'
    <3>1. Right(b)'
      BY <2>5 DEF Right
    <3> QED  BY <2>3, <2>5, <3>1
  <2>6. CASE Serve
    <3>1. AnswerTo(line.req).st = StatusOf(line.req)
      BY DEF AnswerTo
    <3>2. Answer(AnswerTo(line.req)) /\ Unserved /\ Execute(line.req)
      BY <2>6 DEF Serve
    <3> QED  BY <2>4, <3>1, <3>2
  <2>7. CASE ServeBadly
    <3>1. Unserved
      BY <2>7 DEF ServeBadly
    <3>2. CASE \E st \in {"error", "garbled"} : Answer([AnswerTo(line.req) EXCEPT !.st = st])
      <4>1. PICK st \in {"error", "garbled"} :
                Answer([AnswerTo(line.req) EXCEPT !.st = st])
        BY <3>2
      <4>2. [AnswerTo(line.req) EXCEPT !.st = st].st = st
        BY DEF AnswerTo
      <4> QED  BY <2>5, <3>1, <4>1, <4>2
    <3>3. CASE Answer([AnswerTo(line.req) EXCEPT !.st = "unframed", !.names = {},
                                                 !.more = FALSE])
      <4>1. [AnswerTo(line.req) EXCEPT !.st = "unframed", !.names = {},
                                       !.more = FALSE].st = "unframed"
        BY DEF AnswerTo
      <4> QED  BY <2>5, <3>1, <3>3, <4>1
    <3>4. CASE /\ Answer([AnswerTo(line.req) EXCEPT !.names = {}, !.more = TRUE])
               /\ Execute(line.req)
      <4> DEFINE b == [AnswerTo(line.req) EXCEPT !.names = {}, !.more = TRUE]
      <4>1. /\ b.st = StatusOf(line.req) /\ b.data = AnswerTo(line.req).data
            /\ b.id = AnswerTo(line.req).id
        BY DEF AnswerTo
      <4>2. Answer(b) /\ Execute(line.req)
        BY <3>4
      <4> HIDE DEF b
      <4> QED  BY <2>4, <3>1, <4>1, <4>2
    <3>5. \/ \E st \in {"error", "garbled"} : Answer([AnswerTo(line.req) EXCEPT !.st = st])
          \/ Answer([AnswerTo(line.req) EXCEPT !.st = "unframed", !.names = {},
                                               !.more = FALSE])
          \/ /\ Answer([AnswerTo(line.req) EXCEPT !.names = {}, !.more = TRUE])
             /\ Execute(line.req)
      BY <2>7 DEF ServeBadly
    <3> QED  BY <3>2, <3>3, <3>4, <3>5
  <2> QED  BY <2>2, <2>6, <2>7 DEF Server
<1> QED  BY <1>1, <1>2, <1>3, <1>4, <1>5, <1>6

-----------------------------------------------------------------------------
(* What the caller asks for.                                               *)

\* An operation with a name is a call under way.
LEMMA CalledOp ==
    ASSUME NEW c, c.op \notin {"closed", "idle"} PROVE c # Idle /\ c # Closed
BY DEF Idle, Closed

\* A call that needs no request.
LEMMA AskNothing ==
    ASSUME NEW c, Ask(c), Plan(c) = <<>>, Holds(h, body)'
    PROVE  MoveInv' /\ reply' = Said("ok")
<1>1. call' = Idle /\ reply' = Said("ok") /\ todo' = <<>>
  BY DEF Ask, Proceed
<1>2. Said("ok") # Said("pending")
  BY DEF Said
<1> QED  BY <1>1, <1>2, CallOver

\* One that begins with the first step of its plan.
LEMMA AskPlan ==
    ASSUME NEW c, Ask(c), Plan(c) # <<>>, c.op \notin {"closed", "idle"},
           StepsInv', HandleInv', Ready(todo[1].m)',
           c.op = "put" => last'.op = "put" /\ last'.data = c.data,
           c.op \in {"append", "finish", "abort"} => h' # NoHandle,
           c.op = "finish" => last'.op = "put" /\ last'.data = h'.sent
    PROVE  MoveInv' /\ reply' = Said("pending")
<1>1. call' = c /\ reply' = Said("pending") /\ todo' = Plan(c) /\ at' = "top"
  BY DEF Ask, Proceed
<1>2. Busy'
  BY <1>1, CalledOp DEF Busy
<1>3. CallInv'
  BY <1>1, <1>2 DEF CallInv
<1>4. ReadyInv'
  <2>1. Now' = todo'[1]
    BY <1>1 DEF Now
  <2> QED  BY <1>1, <2>1 DEF ReadyInv
<1> QED  BY <1>1, <1>3, <1>4 DEF MoveInv

\* Plans of one step and of two, and plans that make collections first.
LEMMA OneStep ==
    ASSUME NEW s, todo' = <<s>>, Goes(s, TRUE)'
    PROVE  StepsInv' /\ todo'[1] = s
<1>1. Len(todo') = 1 /\ todo'[1] = s
  OBVIOUS
<1>2. (\A n \in 1 .. Len(todo) : todo[n] = s /\ (n = Len(todo)) = TRUE)'
  BY <1>1
<1>3. (\A n \in 1 .. Len(todo) - 1 : FALSE)'
  BY <1>1
<1> QED  BY <1>1, <1>2, <1>3 DEF StepsInv

\* A plan of two steps.
LEMMA TwoSteps ==
    ASSUME NEW s, NEW t, todo' = <<s, t>>, Goes(s, FALSE)', Goes(t, TRUE)',
           Follows(s.m, t.m)'
    PROVE  StepsInv' /\ todo'[1] = s
<1>1. Len(todo') = 2 /\ todo'[1] = s /\ todo'[2] = t
  OBVIOUS
<1>2. (\A n \in 1 .. Len(todo) : \/ todo[n] = s /\ (n = Len(todo)) = FALSE
                                 \/ todo[n] = t /\ (n = Len(todo)) = TRUE)'
  BY <1>1
<1>3. (\A n \in 1 .. Len(todo) - 1 : todo[n] = s /\ todo[n + 1] = t)'
  BY <1>1
<1> QED  BY <1>1, <1>2, <1>3 DEF StepsInv

\* A plan that makes collections and ends in another step.
LEMMA CollectionsFirst ==
    ASSUME NEW t, Len(todo') \in Nat, Len(todo') >= 1, todo'[Len(todo')] = t,
           \A n \in 1 .. Len(todo') - 1 : todo'[n].m = "MKCOL",
           Goes(t, TRUE)', call'.op # "append", Follows("MKCOL", t.m)',
           Follows("MKCOL", "MKCOL")'
    PROVE  StepsInv' /\ todo'[1].m \in {"MKCOL", t.m}
<1> DEFINE n == Len(todo')
<1>1. n \in Nat /\ n >= 1 /\ todo'[n] = t /\ \A i \in 1 .. n - 1 : todo'[i].m = "MKCOL"
  OBVIOUS
<1>2. \A s : s.m = "MKCOL" => Goes(s, FALSE)'
  BY DEF Goes
<1>3. ASSUME NEW i \in 1 .. n PROVE Goes(todo[i], i = Len(todo))'
  <2>1. CASE i = n
    <3>1. todo'[i] = t /\ (i = Len(todo')) = TRUE
      BY <2>1
    <3> QED  BY <3>1
  <2>2. CASE i # n
    <3>1. i \in 1 .. n - 1
      <4> HIDE DEF n
      <4> QED  BY <1>1, <2>2
    <3>2. todo'[i].m = "MKCOL" /\ (i = Len(todo')) = FALSE
      BY <2>2, <3>1
    <3> QED  BY <1>2, <3>2
  <2> QED  BY <2>1, <2>2
<1>4. ASSUME NEW i \in 1 .. n - 1 PROVE Follows(todo[i].m, todo[i + 1].m)'
  <2>1. todo'[i].m = "MKCOL" /\ (i + 1 = n \/ i + 1 \in 1 .. n - 1)
    <3>1. i + 1 = n \/ i + 1 \in 1 .. n - 1
      <4> HIDE DEF n
      <4> QED  BY <1>1
    <3> QED  BY <3>1
  <2>2. todo'[i + 1] = t \/ todo'[i + 1].m = "MKCOL"
    BY <2>1
  <2> QED  BY <2>1, <2>2 DEF Follows
<1>5. todo'[1].m \in {"MKCOL", t.m}
  <2>1. n = 1 \/ 1 \in 1 .. n - 1
    <3> HIDE DEF n
    <3> QED  BY <1>1
  <2> QED  BY <1>1, <2>1
<1> QED  BY <1>3, <1>4, <1>5 DEF StepsInv

\* Parents(k) only makes collections.
LEMMA ParentsFirst ==
    ASSUME NEW k \in Seq(Name), k # <<>>, NEW t \in Steps
    PROVE  LET p == Parents(k) \o <<t>>
           IN  /\ Len(p) \in Nat /\ Len(p) >= 1 /\ p[Len(p)] = t /\ p # <<>>
               /\ \A n \in 1 .. Len(p) - 1 : p[n].m = "MKCOL"
<1> DEFINE q == Parents(k)
           p == q \o <<t>>
<1>1. q \in Seq(Steps) /\ <<t>> \in Seq(Steps) /\ Len(<<t>>) = 1 /\ <<t>>[1] = t
  BY ParentsType
<1>2. \A n \in 1 .. Len(q) : q[n].m = "MKCOL"
  <2>1. CASE Len(k) = 1
    BY <2>1 DEF Parents
  <2>2. CASE Len(k) # 1
    <3>1. q = [n \in 1 .. Len(k) |-> Step("MKCOL", WalkTo(Front(k))[n])]
      BY <2>2 DEF Parents
    <3>2. Len(q) = Len(k)
      BY <3>1
    <3> HIDE DEF q
    <3> QED  BY <3>1, <3>2 DEF Step
  <2> QED  BY <2>1, <2>2
<1> HIDE DEF q
<1>3. /\ p \in Seq(Steps) /\ Len(p) = Len(q) + 1 /\ Len(q) \in Nat
      /\ \A n \in 1 .. Len(q) + 1 : p[n] = IF n <= Len(q) THEN q[n] ELSE <<t>>[n - Len(q)]
  BY <1>1, ConcatProperties
<1> HIDE DEF p
<1>4. p[Len(q) + 1] = t
  BY <1>1, <1>3
<1>5. \A n \in 1 .. Len(q) : p[n] = q[n]
  BY <1>3
<1>6. p # <<>>
  BY <1>3
<1> QED  BY <1>2, <1>3, <1>4, <1>5, <1>6 DEF p, q

\* What backend.h sees of a call.
LEMMA LastIs ==
    ASSUME NEW c, Ask(c)
    PROVE  /\ c.op \in {"put", "get", "exists"} => last' = c
           /\ c.op = "remove" =>
                  last' = [op |-> "remove", key |-> c.key, was |-> store[c.key]]
           /\ c.op = "finish" => last' = [op |-> "put", key |-> h.key, data |-> h.sent]
           /\ c.op \notin {"put", "get", "exists", "remove", "finish"} =>
                  last' = [op |-> "other"]
           /\ Plan(c) # <<>> => call' = c /\ todo' = Plan(c)
BY DEF Ask, AsContract, Proceed

\* The calls about one key or one directory, and the beginning of an upload.
LEMMA SimpleMoves ==
    ASSUME NEW c, Ask(c), proto' = proto, Holds(h, body)', Callable(c),
           c.op \in {"open", "put", "get", "exists", "remove", "list", "mkcol", "begin"},
           c.op = "begin" => c.key \in Key /\ c.data \in Content
    PROVE  /\ MoveInv'
           /\ \/ reply' = Said("pending")
              \/ reply' = Said("ok") /\ last' = [op |-> "other"]
<1>1. CASE Plan(c) = <<>>
  <2>1. c.op \notin {"put", "get", "exists", "remove"}
    <3>1. c.op \notin {"get", "exists", "remove"}
      BY <1>1 DEF Plan, PlanWebdav, PlanS3
    <3>2. ASSUME c.op = "put" PROVE FALSE
      <4>1. c.key \in Seq(Name) /\ c.key # <<>> /\ Step("PUT", c.key) \in Steps
        BY <3>2, StepType DEF Callable, Methods
      <4>2. Parents(c.key) \o <<Step("PUT", c.key)>> # <<>>
        BY <4>1, ParentsFirst
      <4>3. <<Step("PUT", c.key)>> # <<>>
        OBVIOUS
      <4> QED  BY <1>1, <3>2, <4>2, <4>3 DEF Plan, PlanWebdav, PlanS3
    <3> QED  BY <3>1, <3>2
  <2> QED  BY <1>1, <2>1, AskNothing, LastIs
<1>2. CASE Plan(c) # <<>>
  <2>1. call' = c /\ todo' = Plan(c)
    BY <1>2, LastIs
  <2>2. HandleInv'
    BY <2>1 DEF HandleInv
  <2>3. SUFFICES StepsInv' /\ Ready(todo[1].m)'
    <3>1. c.op = "put" => last'.op = "put" /\ last'.data = c.data
      BY LastIs
    <3> QED  BY <1>2, <2>2, <2>3, <3>1, AskPlan
  <2>4. /\ c.op \in {"put", "get", "exists", "remove"} =>
               last'.op = c.op /\ last'.key = c.key
        /\ c.op = "put" => last'.data = c.data
        /\ c.op \in {"open", "list", "mkcol", "begin"} => last'.op = "other"
    BY LastIs
  <2>5. CASE c.op \in {"get", "exists", "list"}
    <3>1. PICK m \in {"GET", "EXISTS", "LIST"} :
              todo' = <<Step(m, c.key)>> /\ (m = "GET" <=> c.op = "get")
              /\ (m = "EXISTS" <=> c.op = "exists")
      BY <2>1, <2>5 DEF Plan, PlanWebdav, PlanS3
    <3>2. \A s : s = Step(m, c.key) => Goes(s, TRUE)'
      BY <2>1, <2>4, <2>5, <3>1 DEF Goes, Step
    <3>3. StepsInv' /\ todo'[1] = Step(m, c.key)
      BY <3>1, <3>2, OneStep
    <3>4. todo'[1].m = m
      BY <3>3 DEF Step
    <3> QED  BY <3>1, <3>3, <3>4 DEF Ready
  <2>6. CASE c.op = "remove"
    <3> DEFINE e == Step("EXISTS", c.key)
               d == Step("DELETE", c.key)
    <3>1. /\ e.m = "EXISTS" /\ e.path = c.key /\ d.m = "DELETE" /\ d.path = c.key
      BY DEF Step
    <3> HIDE DEF e, d
    <3>2. \A s : s = d => Goes(s, TRUE)'
      BY <2>1, <2>4, <2>6, <3>1 DEF Goes
    <3>3. \A s : s = e => Goes(s, FALSE)'
      BY <2>1, <2>4, <2>6, <3>1 DEF Goes
    <3>4. CASE proto = "webdav"
      <4>1. todo' = <<d>>
        BY <2>1, <2>6, <3>4 DEF Plan, PlanWebdav, d
      <4>2. StepsInv' /\ todo'[1] = d
        BY <3>2, <4>1, OneStep
      <4> QED  BY <3>1, <3>4, <4>2 DEF Ready
    <3>5. CASE proto # "webdav"
      <4>1. todo' = <<e, d>>
        BY <2>1, <2>6, <3>5 DEF Plan, PlanS3, e, d
      <4>2. \A m, n : m = "EXISTS" /\ n = "DELETE" => Follows(m, n)'
        BY DEF Follows
      <4>3. StepsInv' /\ todo'[1] = e
        BY <3>1, <3>2, <3>3, <4>1, <4>2, TwoSteps
      <4> QED  BY <3>1, <4>3 DEF Ready
    <3> QED  BY <3>4, <3>5
  <2>7. CASE c.op \in {"open", "mkcol"}
    <3>1. /\ Len(todo') \in Nat /\ Len(todo') >= 1
          /\ \A n \in 1 .. Len(todo') : todo'[n].m = "MKCOL"
      <4>1. CASE c.op = "open"
        <5>1. todo' = <<Step("MKCOL", <<>>)>>
          BY <1>2, <2>1, <4>1 DEF Plan, PlanWebdav, PlanS3
        <5> QED  BY <5>1 DEF Step
      <4>2. CASE c.op = "mkcol"
        <5>1. /\ c.key \in Seq(Name)
              /\ todo' = [n \in 1 .. Len(c.key) + 1 |-> Step("MKCOL", WalkTo(c.key)[n])]
          BY <1>2, <2>1, <4>2 DEF Plan, PlanWebdav, PlanS3, Callable
        <5>2. Len(todo') = Len(c.key) + 1 /\ Len(c.key) \in Nat
          BY <5>1
        <5>3. \A n \in 1 .. Len(c.key) + 1 : todo'[n].m = "MKCOL"
          BY <5>1 DEF Step
        <5> QED  BY <5>2, <5>3
      <4> QED  BY <2>7, <4>1, <4>2
    <3>2. PICK t : t = todo'[Len(todo')]
      OBVIOUS
    <3>3. t.m = "MKCOL"
      BY <3>1, <3>2
    <3>4. Goes(t, TRUE)'
      BY <2>1, <2>4, <2>7, <3>3 DEF Goes
    <3>5. \A m : m = "MKCOL" => Follows("MKCOL", m)'
      BY DEF Follows
    <3>6. StepsInv' /\ todo'[1].m = "MKCOL"
      <4>1. \A n \in 1 .. Len(todo') - 1 : todo'[n].m = "MKCOL"
        BY <3>1
      <4>2. call'.op # "append"
        BY <2>1, <2>7
      <4> QED  BY <3>1, <3>2, <3>3, <3>4, <3>5, <4>1, <4>2, CollectionsFirst
    <3> QED  BY <3>6 DEF Ready
  <2>8. CASE c.op \in {"put", "begin"}
    <3>1. PICK m \in {"PUT", "DIAL"} :
              /\ todo' = Parents(c.key) \o <<Step(m, c.key)>> \/ todo' = <<Step(m, c.key)>>
              /\ m = "PUT" <=> c.op = "put"
      <4>1. CASE c.op = "put"
        BY <2>1, <4>1 DEF Plan, PlanWebdav, PlanS3
      <4>2. CASE c.op = "begin"
        BY <1>2, <2>1, <4>2 DEF Plan, PlanWebdav, PlanS3
      <4> QED  BY <2>8, <4>1, <4>2
    <3>2. PICK t : t = Step(m, c.key)
      OBVIOUS
    <3>3. /\ c.key \in Seq(Name) /\ c.key # <<>> /\ t \in Steps
          /\ t.m = m /\ t.path = c.key
      BY <2>8, <3>2, StepType DEF Callable, Methods, Step
    <3>4. Goes(t, TRUE)'
      BY <2>1, <2>4, <2>8, <3>1, <3>3 DEF Goes
    <3>5. StepsInv' /\ todo'[1].m \in {"MKCOL", m}
      <4>1. CASE todo' = <<t>>
        BY <3>3, <3>4, <4>1, OneStep
      <4>2. CASE todo' = Parents(c.key) \o <<t>>
        <5>1. /\ Len(todo') \in Nat /\ Len(todo') >= 1 /\ todo'[Len(todo')] = t
              /\ \A n \in 1 .. Len(todo') - 1 : todo'[n].m = "MKCOL"
          BY <3>3, <4>2, ParentsFirst
        <5>2. Follows("MKCOL", t.m)' /\ Follows("MKCOL", "MKCOL")'
          BY <2>1, <3>1, <3>3 DEF Follows
        <5>3. call'.op # "append"
          BY <2>1, <2>8
        <5> QED  BY <3>3, <3>4, <5>1, <5>2, <5>3, CollectionsFirst
      <4> QED  BY <3>1, <3>2, <4>1, <4>2
    <3>6. todo'[1].m = "PUT" => c.op = "put"
      BY <3>1, <3>5
    <3> QED  BY <2>1, <2>4, <3>1, <3>5, <3>6 DEF Ready
  <2> QED  BY <2>5, <2>6, <2>7, <2>8
<1> QED  BY <1>1, <1>2

LEMMA Joins == \A u, v : <<u>> \o <<v>> = <<u, v>> /\ <<>> \o <<v>> = <<v>>
<1> SUFFICES ASSUME NEW u, NEW v
             PROVE  <<u>> \o <<v>> = <<u, v>> /\ <<>> \o <<v>> = <<v>>
  OBVIOUS
<1> DEFINE S == {u, v}
<1>1. <<u>> \in Seq(S) /\ <<v>> \in Seq(S) /\ <<u, v>> \in Seq(S)
  OBVIOUS
<1>2. <<>> \o <<v>> = <<v>>
  BY <1>1, ConcatEmptySeq
<1>3. /\ <<u>> \o <<v>> \in Seq(S) /\ Len(<<u>> \o <<v>>) = 2
      /\ (<<u>> \o <<v>>)[1] = u /\ (<<u>> \o <<v>>)[2] = v
  BY <1>1, ConcatProperties
<1>4. \A w \in Seq(S) : Len(w) = 2 => w = <<w[1], w[2]>>
  OBVIOUS
<1> QED  BY <1>2, <1>3, <1>4

\* A chunk is handed to an upload.
LEMMA AppendMoves ==
    ASSUME MoveInv, StoreInv, PutAppend
    PROVE  /\ MoveInv' /\ last' = [op |-> "other"]
           /\ reply' \in {Said("pending"), Said("ok")}
<1>1. PICK d \in {<<>>} \cup {<<h.want[n]>> : n \in {Len(h.sent) + 1} \cap DOMAIN h.want} :
          /\ Ask([op |-> "append", data |-> d])
          /\ h' = [h EXCEPT !.sent = @ \o d,
                            !.body = IF proto = "s3" THEN @ \o d ELSE @]
  BY DEF PutAppend
<1> DEFINE c == [op |-> "append", data |-> d]
<1>2. /\ ~Busy /\ h # NoHandle /\ ~h.failed /\ body' = body /\ proto' = proto
      /\ c.op = "append" /\ c.data = d /\ Ask(c)
  BY <1>1 DEF PutAppend, Busy, Ask, serverVars
<1>3. h \in HandleType /\ Holds(h, body)
  BY <1>2 DEF MoveInv, HandleInv, Holds
<1>4. d \in Seq(Chunk)
  <2>1. h.want \in Seq(Chunk)
    BY <1>3, IsHandle, ContentAssumption
  <2>2. CASE d = <<>>
    BY <2>2
  <2>3. CASE d # <<>>
    <3>1. PICK n \in DOMAIN h.want : d = <<h.want[n]>>
      BY <1>1, <2>3
    <3>2. h.want[n] \in Chunk
      BY <2>1, <3>1
    <3> QED  BY <3>1, <3>2
  <2> QED  BY <2>2, <2>3
<1>5. /\ h' \in HandleType /\ h'.sent = h.sent \o d /\ h'.etags = h.etags
      /\ h'.upload = h.upload /\ h'.failed = h.failed /\ h'.key = h.key
      /\ h'.body = IF proto = "s3" THEN h.body \o d ELSE h.body
  <2>1. h.sent \o d \in Seq(Chunk) /\ h.body \o d \in Seq(Chunk)
    BY <1>3, <1>4, IsHandle, ConcatProperties
  <2> QED  BY <1>1, <1>3, <2>1 DEF HandleType
<1>6. h' # NoHandle
  BY <1>5, IsHandle
<1>7. last' = [op |-> "other"] /\ (Plan(c) # <<>> => call' = c /\ todo' = Plan(c))
  <2> HIDE DEF c
  <2> QED  BY <1>2, LastIs
<1>8. CASE proto = "webdav"
  <2>1. Plan(c) = (IF d # <<>> THEN <<Step("CHUNK", h.key)>> ELSE <<>>)
    BY <1>8 DEF Plan, PlanWebdav
  <2>2. body = h.sent
    BY <1>2, <1>3, <1>8 DEF Holds
  <2> HIDE DEF c
  <2>3. CASE d = <<>>
    <3>1. h'.sent = h.sent
      BY <1>3, <1>5, <2>3, IsHandle, ConcatEmptySeq
    <3>2. Holds(h, body)'
      BY <1>2, <1>5, <1>8, <2>2, <3>1 DEF Holds
    <3> QED  BY <1>2, <1>7, <2>1, <2>3, <3>2, AskNothing
  <2>4. CASE d # <<>>
    <3>1. call' = c /\ todo' = <<Step("CHUNK", h.key)>>
      BY <1>7, <2>1, <2>4
    <3>2. PICK s : s = Step("CHUNK", h.key)
      OBVIOUS
    <3>3. s.m = "CHUNK"
      BY <3>2 DEF Step
    <3>4. Goes(s, TRUE)'
      BY <1>2, <1>7, <3>1, <3>3 DEF Goes
    <3>5. StepsInv' /\ todo'[1] = s
      BY <3>1, <3>2, <3>4, OneStep
    <3>6. Holds(h', body' \o c.data)
      BY <1>2, <1>5, <1>8, <2>2 DEF Holds
    <3>7. HandleInv'
      <4>1. Busy'
        BY <1>2, <3>1, CalledOp DEF Busy
      <4> QED  BY <1>2, <3>1, <3>6, <4>1, HoldsSame DEF HandleInv
    <3>8. Ready(todo[1].m)'
      BY <3>3, <3>5 DEF Ready
    <3>9. Plan(c) # <<>>
      BY <2>1, <2>4
    <3> QED  BY <1>2, <1>6, <1>7, <3>5, <3>7, <3>8, <3>9, AskPlan
  <2> QED  BY <2>3, <2>4
<1>9. CASE proto = "s3"
  <2>1. Joined(h) /\ h.body \in Seq(Chunk) /\ FlattenSeq(h.etags) \in Seq(Chunk)
    BY <1>3, <1>9, <1>2, IsHandle, FlatType DEF Holds
  <2>2. FlattenSeq(h.etags) \o (h.body \o d) = (FlattenSeq(h.etags) \o h.body) \o d
    <3>1. \A u, v, w \in Seq(Chunk) : (u \o v) \o w = u \o (v \o w)
      BY ConcatAssociative
    <3> QED  BY <1>4, <2>1, <3>1
  <2>3. Joined(h')
    BY <1>5, <1>9, <2>1, <2>2 DEF Joined
  <2>4. \A b : Holds(h, b)'
    BY <1>2, <1>5, <1>9, <2>3 DEF Holds, Joined
  <2> DEFINE i == Step("INITIATE", h.key)
             q == Step("PART", h.key)
  <2>5. /\ i.m = "INITIATE" /\ q.m = "PART"
    BY DEF Step
  <2>6. Plan(c) \in {<<>>, <<q>>, <<i, q>>} /\ (Plan(c) = <<q>> => h.upload # NoUpload)
    <3>1. NextPart(h.key) = IF h.upload = NoUpload THEN <<i, q>> ELSE <<q>>
      <4>2. NextPart(h.key) = (IF h.upload = NoUpload THEN <<i>> ELSE <<>>) \o <<q>>
        BY DEF NextPart
      <4> HIDE DEF i, q
      <4> QED  BY <4>2, Joins
    <3>2. Plan(c) \in {<<>>, NextPart(h.key)}
      BY <1>9 DEF Plan, PlanS3
    <3> HIDE DEF i, q, c
    <3>3. <<q>> # <<i, q>> /\ <<q>> # <<>>
      <4>1. Len(<<q>>) = 1 /\ Len(<<i, q>>) = 2
        OBVIOUS
      <4> QED  BY <4>1
    <3> QED  BY <3>1, <3>2, <3>3
  <2> HIDE DEF c, i, q
  <2>7. CASE Plan(c) = <<>>
    BY <1>2, <1>7, <2>4, <2>7, AskNothing
  <2>8. CASE Plan(c) # <<>>
    <3>1. call' = c /\ todo' = Plan(c) /\ last'.op = "other"
      BY <1>7, <2>8
    <3>2. \A s : s = q => Goes(s, TRUE)'
      BY <1>2, <1>9, <2>5, <3>1 DEF Goes
    <3>3. \A s : s = i => Goes(s, FALSE)'
      BY <1>2, <1>9, <2>5, <3>1 DEF Goes
    <3>4. Follows("INITIATE", "PART")'
      BY DEF Follows
    <3>5. StepsInv' /\ (todo'[1] = i \/ (todo'[1] = q /\ h.upload # NoUpload))
      <4>1. CASE todo' = <<q>>
        BY <2>6, <3>1, <3>2, <4>1, OneStep
      <4>2. CASE todo' = <<i, q>>
        <5>1. PICK s, t : s = i /\ t = q
          OBVIOUS
        <5>2. s.m = "INITIATE" /\ t.m = "PART"
          BY <2>5, <5>1
        <5>3. Goes(s, FALSE)' /\ Goes(t, TRUE)' /\ Follows(s.m, t.m)'
          BY <3>2, <3>3, <3>4, <5>1, <5>2
        <5>4. StepsInv' /\ todo'[1] = s
          BY <4>2, <5>1, <5>3, TwoSteps
        <5> QED  BY <5>1, <5>4
      <4> QED  BY <2>6, <2>8, <3>1, <4>1, <4>2
    <3>6. HandleInv'
      BY <2>4 DEF HandleInv
    <3>7. Ready(todo[1].m)'
      BY <1>5, <2>5, <3>5 DEF Ready
    <3> QED  BY <1>2, <1>6, <1>7, <2>8, <3>5, <3>6, <3>7, AskPlan
  <2> QED  BY <2>7, <2>8
<1> QED  BY <1>8, <1>9 DEF StoreInv

\* An upload is finished.
LEMMA FinishMoves ==
    ASSUME MoveInv, StoreInv, PutFinish
    PROVE  /\ MoveInv' /\ last' \in Contract!Calls
           /\ reply' = Said("pending")
<1> DEFINE c == [op |-> "finish"]
<1>1. /\ ~Busy /\ h # NoHandle /\ ~h.failed /\ h.sent = h.want /\ body' = body /\ h' = h
      /\ proto' = proto /\ c.op = "finish" /\ Ask(c)
  BY DEF PutFinish, Busy, Ask, serverVars
<1>2. h \in HandleType /\ Holds(h, body)
  BY <1>1 DEF MoveInv, HandleInv, Holds
<1>3. /\ h.key \in Key /\ h.sent \in Content /\ h.body \in Seq(Chunk)
      /\ FlattenSeq(h.etags) \in Seq(Chunk)
  BY <1>1, <1>2, IsHandle, FlatType
<1>4. /\ last' = [op |-> "put", key |-> h.key, data |-> h.sent]
      /\ Plan(c) # <<>> => call' = c /\ todo' = Plan(c)
  <2> HIDE DEF c
  <2> QED  BY <1>1, LastIs
<1>5. last' \in Contract!Calls
  BY <1>3, <1>4 DEF Contract!Calls
<1> DEFINE k == h.key
<1>6. \/ /\ proto = "webdav" /\ Plan(c) = <<Step("STREAM", k)>>
      \/ /\ proto = "s3" /\ h.upload = NoUpload /\ Plan(c) = <<Step("PUT", k)>>
      \/ /\ proto = "s3" /\ h.upload # NoUpload
         /\ Plan(c) = <<Step("PART", k), Step("COMPLETE", k)>>
      \/ /\ proto = "s3" /\ h.upload # NoUpload /\ h.body = <<>>
         /\ Plan(c) = <<Step("COMPLETE", k)>>
  <2>1. CASE proto = "webdav"
    BY <2>1 DEF Plan, PlanWebdav
  <2>2. CASE proto = "s3"
    <3> DEFINE q == Step("PART", k)
               e == Step("COMPLETE", k)
    <3>2. h.upload # NoUpload => NextPart(k) = <<>> \o <<q>>
      BY DEF NextPart
    <3>3. Plan(c) = IF h.upload = NoUpload THEN <<Step("PUT", k)>>
                    ELSE (IF h.body # <<>> THEN NextPart(k) ELSE <<>>) \o <<e>>
      BY <2>2 DEF Plan, PlanS3
    <3>4. h.upload # NoUpload => \/ Plan(c) = <<q, e>>
                                 \/ Plan(c) = <<e>> /\ h.body = <<>>
      <4> HIDE DEF q, e, c
      <4> QED  BY <3>2, <3>3, Joins
    <3> HIDE DEF c
    <3> QED  BY <2>2, <3>3, <3>4
  <2> QED  BY <2>1, <2>2 DEF StoreInv
<1> HIDE DEF c
<1>7. Plan(c) # <<>>
  BY <1>6
<1>8. \A m : /\ m \in {"PUT", "STREAM", "COMPLETE"} => last'.op = "put"
             /\ last'.key = k /\ last'.data = h.sent /\ call' = c
  BY <1>4, <1>7
<1>9. SUFFICES StepsInv' /\ Ready(todo[1].m)'
  <2>1. Holds(h, body)'
    BY <1>1, <1>2, HoldsSame
  <2>2. HandleInv'
    BY <1>1, <1>8, <2>1 DEF HandleInv
  <2>3. c.op = "finish" => last'.op = "put" /\ last'.data = h'.sent
    BY <1>1, <1>4
  <2> QED  BY <1>1, <1>5, <1>7, <1>9, <2>2, <2>3, AskPlan
<1>10. CASE proto = "webdav" /\ Plan(c) = <<Step("STREAM", k)>>
  <2>1. PICK s : s = Step("STREAM", k)
    OBVIOUS
  <2>2. s.m = "STREAM" /\ s.path = k
    BY <2>1 DEF Step
  <2>3. Goes(s, TRUE)'
    BY <1>1, <1>8, <2>2 DEF Goes
  <2>4. StepsInv' /\ todo'[1] = s
    BY <1>4, <1>7, <1>10, <2>1, <2>3, OneStep
  <2>5. body' = last'.data
    BY <1>1, <1>2, <1>8, <1>10 DEF Holds
  <2> QED  BY <2>2, <2>4, <2>5 DEF Ready
<1>11. CASE proto = "s3" /\ h.upload = NoUpload /\ Plan(c) = <<Step("PUT", k)>>
  <2>1. PICK s : s = Step("PUT", k)
    OBVIOUS
  <2>2. s.m = "PUT" /\ s.path = k
    BY <2>1 DEF Step
  <2>3. Goes(s, TRUE)'
    BY <1>1, <1>8, <2>2 DEF Goes
  <2>4. StepsInv' /\ todo'[1] = s
    BY <1>4, <1>7, <1>11, <2>1, <2>3, OneStep
  <2>5. h.etags = <<>> /\ FlattenSeq(h.etags) \o h.body = h.sent
    BY <1>1, <1>2, <1>11 DEF Holds, Joined
  <2>6. FlattenSeq(h.etags) = <<>>
    BY <2>5, FlatIs
  <2>7. h'.body = last'.data /\ call'.op = "finish"
    BY <1>1, <1>3, <1>8, <2>5, <2>6, ConcatEmptySeq
  <2> QED  BY <2>2, <2>4, <2>7 DEF Ready
<1>12. CASE /\ proto = "s3" /\ h.upload # NoUpload
            /\ Plan(c) = <<Step("PART", k), Step("COMPLETE", k)>>
  <2>1. PICK s, t : s = Step("PART", k) /\ t = Step("COMPLETE", k)
    OBVIOUS
  <2>2. s.m = "PART" /\ t.m = "COMPLETE" /\ t.path = k
    BY <2>1 DEF Step
  <2>3. Goes(s, FALSE)' /\ Goes(t, TRUE)'
    BY <1>1, <1>8, <1>12, <2>2 DEF Goes
  <2>4. Follows(s.m, t.m)'
    BY <2>2 DEF Follows
  <2>5. StepsInv' /\ todo'[1] = s
    BY <1>4, <1>7, <1>12, <2>1, <2>3, <2>4, TwoSteps
  <2> QED  BY <1>1, <1>12, <2>2, <2>5 DEF Ready
<1>13. CASE /\ proto = "s3" /\ h.upload # NoUpload /\ h.body = <<>>
            /\ Plan(c) = <<Step("COMPLETE", k)>>
  <2>1. PICK s : s = Step("COMPLETE", k)
    OBVIOUS
  <2>2. s.m = "COMPLETE" /\ s.path = k
    BY <2>1 DEF Step
  <2>3. Goes(s, TRUE)'
    BY <1>1, <1>8, <1>13, <2>2 DEF Goes
  <2>4. StepsInv' /\ todo'[1] = s
    BY <1>4, <1>7, <1>13, <2>1, <2>3, OneStep
  <2>5. FlattenSeq(h.etags) \o h.body = h.sent
    BY <1>1, <1>2, <1>13 DEF Holds, Joined
  <2>6. FlattenSeq(h'.etags) = last'.data
    BY <1>1, <1>3, <1>8, <1>13, <2>5, ConcatEmptySeq
  <2> QED  BY <2>2, <2>4, <2>6 DEF Ready
<1> QED  BY <1>6, <1>10, <1>11, <1>12, <1>13

\* An upload is given up.
LEMMA AbortMoves ==
    ASSUME MoveInv, StoreInv, PutAbort
    PROVE  /\ MoveInv' /\ last' = [op |-> "other"]
           /\ reply' \in {Said("pending"), Said("ok")}
<1> DEFINE c == [op |-> "abort"]
<1>1. /\ ~Busy /\ h # NoHandle /\ proto' = proto /\ c.op = "abort" /\ Ask(c)
      /\ h' = IF Plan(c) = <<>> THEN NoHandle ELSE h
  BY DEF PutAbort, Busy, Ask, serverVars
<1>2. h \in HandleType /\ Holds(h, body)
  BY <1>1 DEF MoveInv, HandleInv, Holds
<1>3. \/ Plan(c) = <<>>
      \/ proto # "webdav" /\ Plan(c) = <<Step("ABORT", h.key)>>
  BY DEF Plan, PlanWebdav, PlanS3
<1>4. last' = [op |-> "other"] /\ (Plan(c) # <<>> => call' = c /\ todo' = Plan(c))
  <2> HIDE DEF c
  <2> QED  BY <1>1, LastIs
<1> HIDE DEF c
<1>5. CASE Plan(c) = <<>>
  <2>1. Holds(h, body)'
    BY <1>1, <1>5 DEF Holds
  <2> QED  BY <1>1, <1>4, <1>5, <2>1, AskNothing
<1>6. CASE Plan(c) # <<>>
  <2>1. PICK s : s = Step("ABORT", h.key)
    OBVIOUS
  <2>2. s.m = "ABORT"
    BY <2>1 DEF Step
  <2>3. Goes(s, TRUE)'
    BY <1>1, <1>4, <1>6, <2>2 DEF Goes
  <2>4. StepsInv' /\ todo'[1] = s
    BY <1>3, <1>4, <1>6, <2>1, <2>3, OneStep
  <2>5. \A b : Holds(h, b)
    BY <1>2, <1>3, <1>6 DEF Holds
  <2>6. \A b : Holds(h, b)'
    BY <1>1, <1>6, <2>5, HoldsSame
  <2>7. HandleInv'
    BY <2>6 DEF HandleInv
  <2>8. Ready(todo[1].m)'
    BY <1>4, <2>2, <2>4 DEF Ready
  <2>9. h' # NoHandle
    BY <1>1, <1>6
  <2> QED  BY <1>1, <1>4, <1>6, <2>4, <2>7, <2>8, <2>9, AskPlan
<1> QED  BY <1>5, <1>6

\* What KeyStore asks of a call: a removal notes what its key holds.
Fits(c) == c.op = "remove" => c.was = store[c.key]

\* Every operation of the caller is a call of KeyStore, or one answered at once.
LEMMA CallerMoves ==
    ASSUME WireInv, PlanInv, MoveInv, StoreInv, Caller
    PROVE  /\ MoveInv' /\ last' \in Contract!Calls
           /\ last' # last => Fits(last')
           /\ \/ UNCHANGED <<last, reply>>
              \/ ~Busy /\ reply' = Said("pending") /\ Fits(last')
              \/ ~Busy /\ reply' = Said("ok") /\ last' = [op |-> "other"]
<1>1. [op |-> "other"] \in Contract!Calls
  BY DEF Contract!Calls, Contract!NoCall
<1>2. ~Busy /\ Holds(h, body)
  BY DEF Caller, Open, Close, Plain, PutBegin, PutAppend, PutFinish, PutAbort, Busy,
         MoveInv, HandleInv
<1>3. CASE Close
  <2>1. /\ call' = Closed /\ todo' = todo /\ reply' = reply /\ last' = last /\ h' = h
        /\ body' = body /\ store' = store /\ proto' = proto
    BY <1>3 DEF Close, serverVars, exchangeVars, historyVars
  <2>2. todo = <<>> /\ reply # Said("pending")
    BY <1>2 DEF MoveInv, CallInv
  <2>3. Holds(h, body)'
    BY <1>2, <2>1, HoldsSame
  <2>4. MoveInv'
    BY <2>1, <2>2, <2>3, CallOver
  <2> QED  BY <2>1, <2>4 DEF StoreInv
<1>4. CASE PutAppend
  BY <1>1, <1>2, <1>4, AppendMoves DEF Fits
<1>5. CASE PutFinish
  <2>1. Ask([op |-> "finish"])
    BY <1>5 DEF PutFinish
  <2>2. last' = [op |-> "put", key |-> h.key, data |-> h.sent]
    BY <2>1, LastIs
  <2>3. last'.op # "remove"
    BY <2>2
  <2> QED  BY <1>2, <1>5, <2>3, FinishMoves DEF Fits
<1>6. CASE PutAbort
  BY <1>1, <1>2, <1>6, AbortMoves DEF Fits
<1>7. ASSUME NEW c, Ask(c), Callable(c), Holds(h, body)',
             c.op \in {"open", "put", "get", "exists", "remove", "list", "mkcol", "begin"},
             c.op = "begin" => c.key \in Key /\ c.data \in Content,
             c.op \in {"put", "get", "exists"} => c \in Contract!Calls,
             c.op = "remove" => c.key \in Key
      PROVE  /\ MoveInv' /\ last' \in Contract!Calls /\ Fits(last')
             /\ \/ reply' = Said("pending")
                \/ reply' = Said("ok") /\ last' = [op |-> "other"]
  <2>1. proto' = proto
    BY <1>7 DEF Ask, serverVars
  <2>2. /\ MoveInv'
        /\ \/ reply' = Said("pending")
           \/ reply' = Said("ok") /\ last' = [op |-> "other"]
    BY <1>7, <2>1, SimpleMoves
  <2>3. CASE c.op = "remove"
    <3>1. last' = [op |-> "remove", key |-> c.key, was |-> store[c.key]]
      BY <1>7, <2>3, LastIs
    <3>2. store[c.key] \in Content \cup {Absent}
      BY <1>7, <2>3 DEF StoreInv
    <3>3. last' \in [op : {"remove"}, key : Key, was : Content \cup {Absent}]
      BY <1>7, <2>3, <3>1, <3>2
    <3> QED  BY <2>2, <3>1, <3>3 DEF Contract!Calls, Fits
  <2>4. CASE c.op # "remove"
    <3>1. \/ last' = c /\ c.op \in {"put", "get", "exists"}
          \/ last' = [op |-> "other"]
      BY <1>7, <2>4, LastIs
    <3>2. last' \in Contract!Calls /\ last'.op # "remove"
      BY <1>1, <1>7, <2>4, <3>1
    <3> QED  BY <2>2, <3>2 DEF Fits
  <2> QED  BY <2>3, <2>4
<1>8. \A k \in Key : k \in Seq(Name) /\ k # <<>>
  BY KeyAssumption
<1>9. CASE Open
  <2>1. Ask([op |-> "open"]) /\ h' = h /\ body' = body /\ proto' = proto
    BY <1>9 DEF Open, Ask, serverVars
  <2>2. Holds(h, body)'
    BY <1>2, <2>1, HoldsSame
  <2>3. Callable([op |-> "open"])
    BY DEF Callable
  <2> QED  BY <1>2, <1>7, <2>1, <2>2, <2>3
<1>10. CASE PutBegin
  <2>1. PICK k \in Key, d \in Content \ {<<>>} :
            /\ Ask([op |-> "begin", key |-> k, data |-> d])
            /\ h' = IF proto = "s3" THEN NewHandle(k, d) ELSE NoHandle
    BY <1>10 DEF PutBegin
  <2>2. body' = body /\ proto' = proto
    BY <1>10, <2>1 DEF PutBegin, Ask, serverVars
  <2>3. Holds(h', body)
    <3>1. CASE proto = "s3"
      <4>1. Holds(NewHandle(k, d), <<>>)
        BY <2>1, FreshHandle
      <4> QED  BY <2>1, <3>1, <4>1 DEF Holds
    <3>2. CASE proto # "s3"
      BY <2>1, <3>2 DEF Holds
    <3> QED  BY <3>1, <3>2
  <2>4. Holds(h, body)'
    BY <2>2, <2>3, HoldsSame
  <2>5. Callable([op |-> "begin", key |-> k, data |-> d])
    BY <1>8 DEF Callable
  <2> QED  BY <1>2, <1>7, <2>1, <2>4, <2>5
<1>11. CASE Plain
  <2>1. h' = h /\ body' = body /\ proto' = proto
    BY <1>11 DEF Plain, Ask, serverVars
  <2>2. Holds(h, body)'
    BY <1>2, <2>1, HoldsSame
  <2>3. \E c : /\ Ask(c) /\ Callable(c)
               /\ c.op \in {"put", "get", "exists", "remove", "list", "mkcol"}
               /\ c.op \in {"put", "get", "exists"} => c \in Contract!Calls
               /\ c.op = "remove" => c.key \in Key
    <3>1. CASE \E k \in Key, d \in Content : Ask([op |-> "put", key |-> k, data |-> d])
      BY <1>8, <3>1 DEF Callable, Contract!Calls
    <3>2. CASE \E k \in Key, op \in {"get", "exists", "remove"} :
                   Ask([op |-> op, key |-> k])
      BY <1>8, <3>2 DEF Callable, Contract!Calls
    <3>3. CASE \E k \in Key, op \in {"list", "mkcol"} :
                   Len(k) > 1 /\ Ask([op |-> op, key |-> Front(k)])
      <4>1. PICK k \in Key, op \in {"list", "mkcol"} :
                Len(k) > 1 /\ Ask([op |-> op, key |-> Front(k)])
        BY <3>3
      <4>2. Front(k) \in Seq(Name) /\ Len(Front(k)) = Len(k) - 1 /\ Len(k) \in Nat
        BY <1>8, FrontType
      <4>3. Front(k) # <<>>
        <5> DEFINE n == Len(k)
                   m == Len(Front(k))
        <5>1. n > 1 /\ m = n - 1 /\ n \in Nat
          BY <4>1, <4>2
        <5> HIDE DEF n, m
        <5>2. m # 0
          BY <5>1
        <5> QED  BY <5>2 DEF m
      <4> QED  BY <4>1, <4>2, <4>3 DEF Callable
    <3> QED  BY <1>11, <3>1, <3>2, <3>3 DEF Plain
  <2>4. PICK c : /\ Ask(c) /\ Callable(c)
                 /\ c.op \in {"put", "get", "exists", "remove", "list", "mkcol"}
                 /\ c.op \in {"put", "get", "exists"} => c \in Contract!Calls
                 /\ c.op = "remove" => c.key \in Key
    BY <2>3
  <2> QED  BY <1>2, <1>7, <2>2, <2>4
<1> QED  BY <1>3, <1>4, <1>5, <1>6, <1>9, <1>10, <1>11 DEF Caller

\* What the caller asks for is a call of KeyStore, and no request is out yet.
LEMMA CallerStores ==
    ASSUME WireInv, PlanInv, MoveInv, StoreInv, Caller
    PROVE  /\ MoveInv' /\ StoreInv' /\ SentInv' /\ AnswerInv'
           /\ UNCHANGED Contract!keyStoreVars \/ Contract!KeyStoreNext
<1>1. line' = Quiet /\ abandoned' = {} /\ store' = store /\ proto' = proto
  BY CallerAsks DEF serverVars
<1>2. /\ MoveInv' /\ last' \in Contract!Calls
      /\ last' # last => Fits(last')
      /\ \/ UNCHANGED <<last, reply>>
         \/ ~Busy /\ reply' = Said("pending") /\ Fits(last')
         \/ ~Busy /\ reply' = Said("ok") /\ last' = [op |-> "other"]
  BY CallerMoves
<1>3. StoreInv'
  <2>1. CASE last' = last
    BY <1>1, <2>1 DEF StoreInv
  <2>2. CASE last' # last
    BY <1>1, <1>2, <2>2 DEF StoreInv, Fits
  <2> QED  BY <2>1, <2>2
<1>4. SentInv' /\ AnswerInv'
  <2>1. line'.req = NoRequest /\ line'.ans = NoAnswer
    BY <1>1 DEF Quiet
  <2>2. Serves(line.req)'
    BY <2>1 DEF Serves, NoRequest
  <2> QED  BY <1>1, <2>1, <2>2 DEF SentInv, AnswerInv
<1>5. CASE UNCHANGED <<last, reply>>
  BY <1>1, <1>2, <1>3, <1>4, <1>5 DEF Contract!keyStoreVars
<1>6. CASE ~Busy /\ reply' = Said("pending") /\ Fits(last')
  <2>1. reply # Said("pending")
    BY <1>6 DEF MoveInv, CallInv
  <2>2. Contract!Ask(last')
    BY <1>1, <1>2, <1>6, <2>1 DEF Contract!Ask, Contract!Pending, Said, Fits
  <2> QED  BY <1>2, <1>3, <1>4, <2>2 DEF Contract!KeyStoreNext
<1>7. CASE ~Busy /\ reply' = Said("ok") /\ last' = [op |-> "other"]
  <2>1. reply # Said("pending")
    BY <1>7 DEF MoveInv, CallInv
  <2>2. Contract!Aside
    BY <1>1, <1>7, <2>1 DEF Contract!Aside, Contract!Pending, Contract!NoCall, Said
  <2> QED  BY <1>2, <1>3, <1>4, <2>2 DEF Contract!KeyStoreNext
<1> QED  BY <1>2, <1>5, <1>6, <1>7

-----------------------------------------------------------------------------
\* The inductive invariant, with those of RemoteBackendProofs.
StoresInv == MoveInv /\ StoreInv /\ SentInv /\ AnswerInv

\* Every step keeps the invariant and is a step of KeyStore or none.
LEMMA StoresStep ==
    WireInv /\ PlanInv /\ StoresInv /\ [Next]_vars =>
        StoresInv' /\ (UNCHANGED Contract!keyStoreVars \/ Contract!KeyStoreNext)
<1> SUFFICES ASSUME WireInv, PlanInv, StoresInv, [Next]_vars
             PROVE  StoresInv' /\ (UNCHANGED Contract!keyStoreVars \/ Contract!KeyStoreNext)
  OBVIOUS
<1>1. MoveInv /\ StoreInv /\ SentInv /\ AnswerInv
  BY DEF StoresInv
<1>2. CASE Caller
  BY <1>1, <1>2, CallerStores DEF StoresInv
<1>3. CASE Client
  <2>1. MoveInv' /\ Reports
    BY <1>1, <1>3, ClientStores
  <2>2. SentInv' /\ StoreInv' /\ AnswerInv'
    BY <1>1, <1>3, ClientSent
  <2>3. store' = store /\ last' = last
    BY <1>3, ClientQuiet
  <2>4. CASE reply' = reply
    BY <2>1, <2>2, <2>3, <2>4 DEF StoresInv, Contract!keyStoreVars
  <2>5. CASE reply' # reply
    <3>1. Contract!Reply
      BY <2>1, <2>3, <2>5 DEF Reports, Contract!Reply, Contract!Pending, Said
    <3> QED  BY <2>1, <2>2, <3>1 DEF StoresInv, Contract!KeyStoreNext
  <2> QED  BY <2>4, <2>5
<1>4. CASE Server
  <2>1. /\ StoresInv' /\ UNCHANGED <<last, reply>>
        /\ Effect \/ store' = store
    BY <1>1, <1>4, ServerStores DEF StoresInv
  <2>2. CASE Effect
    <3>1. Contract!TakeEffect
      BY <2>1, <2>2 DEF Effect, Contract!TakeEffect
    <3> QED  BY <2>1, <3>1 DEF Contract!KeyStoreNext
  <2>3. CASE store' = store
    BY <2>1, <2>3 DEF Contract!keyStoreVars
  <2> QED  BY <2>1, <2>2, <2>3
<1>5. CASE UNCHANGED vars
  <2>1. /\ UNCHANGED <<proto, store, last, reply, call, todo, h, body, at, fresh>>
        /\ UNCHANGED <<line, abandoned>>
    BY <1>5 DEF vars, serverVars, netVars, exchangeVars, historyVars
  <2>2. MoveInv'
    <3>1. Busy /\ at' = "recv" /\ Now.m = "STREAM" => fresh'
      BY <1>1, <2>1 DEF MoveInv, ReadyInv
    <3> QED  BY <1>1, <2>1, <3>1, SameMoves
  <2>3. Busy' = Busy /\ Now' = Now
    BY <2>1 DEF Busy, Now
  <2>4. StoreInv' /\ SentInv' /\ AnswerInv'
    BY <1>1, <2>1, <2>3 DEF StoreInv, SentInv, Serves, AnswerInv, Right
  <2> QED  BY <2>1, <2>2, <2>4 DEF StoresInv, Contract!keyStoreVars
<1> QED  BY <1>2, <1>3, <1>4, <1>5 DEF Next

\* backend.h: the calls of either protocol are atomic and say what is so,
\* through lost answers, repeated and late requests, chunked uploads and uploads
\* in parts, for every set of faults.
THEOREM RemoteImplements == Spec => ImplementsKeyStore
<1> DEFINE Inv == WireInv /\ PlanInv /\ OnceInv /\ StoresInv
<1>1. Init => Inv /\ Contract!KeyStoreInit
  <2> SUFFICES ASSUME Init PROVE Inv /\ Contract!KeyStoreInit
    OBVIOUS
  <2>1. WireInv
    BY DEF Init, WireInv, AnswersMatch, Quiet
  <2>2. /\ todo = <<>> /\ ~Busy /\ line.req = NoRequest /\ line.ans = NoAnswer
        /\ abandoned = {} /\ h = NoHandle
    BY QuietReq DEF Init, Busy, Quiet
  <2>3. "key" \in DOMAIN NoHandle /\ NoHandle.key \in Seq(Name)
    BY DEF NoHandle
  <2>4. todo \in Seq(Steps) /\ Len(todo) = 0
    BY <2>2
  <2>5. PlanInv /\ OnceInv
    BY <2>2, <2>3, <2>4 DEF PlanInv, OnceInv
  <2>6. CallInv
    BY <2>2 DEF Init, CallInv, Said
  <2>7. MoveInv
    BY <2>2, <2>4, <2>6 DEF MoveInv, StepsInv, HandleInv, Holds, ReadyInv
  <2>8. StoreInv
    BY DEF Init, ServerInit, StoreInv, Contract!Calls, Contract!NoCall
  <2>9. SentInv /\ AnswerInv
    BY <2>2, ServesNothing DEF SentInv, AnswerInv
  <2>10. Contract!KeyStoreInit
    BY DEF Init, ServerInit, Contract!KeyStoreInit, Contract!NoCall, Said
  <2> QED  BY <2>1, <2>5, <2>7, <2>8, <2>9, <2>10 DEF StoresInv
<1>2. Inv /\ [Next]_vars => Inv' /\ [Contract!KeyStoreNext]_(Contract!keyStoreVars)
  BY WireStep, OnceStep, StoresStep
<1> QED  BY <1>1, <1>2, PTL DEF Spec, ImplementsKeyStore, Contract!KeyStoreSpec

-----------------------------------------------------------------------------
(* Where everything begins.                                                *)

LEMMA InitStores == Init => WireInv /\ PlanInv /\ OnceInv /\ HeldInv /\ SoundInv /\ StoresInv
<1> SUFFICES ASSUME Init PROVE WireInv /\ PlanInv /\ OnceInv /\ HeldInv /\ SoundInv /\ StoresInv
  OBVIOUS
<1>1. WireInv
  BY DEF Init, WireInv, AnswersMatch, Quiet
<1>2. /\ todo = <<>> /\ ~Busy /\ line.req = NoRequest /\ line.ans = NoAnswer
      /\ abandoned = {} /\ h = NoHandle
  BY QuietReq DEF Init, Busy, Quiet
<1>3. "key" \in DOMAIN NoHandle /\ NoHandle.key \in Seq(Name)
  BY DEF NoHandle
<1>4. todo \in Seq(Steps) /\ Len(todo) = 0
  BY <1>2
<1>5. PlanInv /\ OnceInv /\ SoundInv
  BY <1>2, <1>3, <1>4 DEF PlanInv, OnceInv, SoundInv
<1>6. HeldInv
  BY DEF Init, ServerInit, HeldInv, Rooted
<1>7. CallInv
  BY <1>2 DEF Init, CallInv, Said
<1>8. MoveInv
  BY <1>2, <1>4, <1>7 DEF MoveInv, StepsInv, HandleInv, Holds, ReadyInv
<1>9. StoreInv
  BY DEF Init, ServerInit, StoreInv, Contract!Calls, Contract!NoCall
<1>10. SentInv /\ AnswerInv
  BY <1>2, ServesNothing DEF SentInv, AnswerInv
<1> QED  BY <1>1, <1>5, <1>6, <1>8, <1>9, <1>10 DEF StoresInv

-----------------------------------------------------------------------------
(* What a step of the client may be.                                       *)

\* The call is still with its current request: a connection is opened or
\* given up, the request goes out.
Waits ==
    /\ line = Quiet /\ (line' = Quiet \/ Send \/ EndBody)
    /\ UNCHANGED <<todo, call, h, reply, body, listVars, abandoned, unsettled, faulty>>

\* A page has come, and the next one is asked for.
TurnsPage ==
    /\ Now.m = "LIST" /\ Receive(line.ans) /\ GotPage
    /\ UNCHANGED <<todo, call, h, reply, unsettled>>

\* The request is sent again.
Repeats ==
    /\ Idempotent(Now.m) /\ HangUp /\ at' = "top" /\ attempt' = 1 /\ Retries
    /\ (faulty => faulty')
    /\ UNCHANGED <<todo, call, h, reply, listVars, unsettled>>

\* The step fails, with a connection given up or kept: something went wrong, the
\* answer is no good, or a connection was dead that was not to be.
Leaves ==
    \/ abandoned' = abandoned
    \/ line.req # NoRequest /\ line.ans = NoAnswer /\ abandoned' = abandoned \cup {line.req}
Settles ==
    \/ Unsettle({"INITIATE", "ABORT"})
    \/ line = Quiet /\ (Unsettle({"ABORT"}) \/ (Now.m # "ABORT" /\ unsettled' = unsettled))
Blamed ==
    /\ faulty => faulty'
    /\ \/ faulty'
       \/ line.ans # NoAnswer /\ ~Accepts(Now.m, line.ans.st)
       \/ conn # "open" /\ at # "top" /\ ~OwnStep(Now.m) /\ ~Retries
Fails == StepFails /\ line' = Quiet /\ Leaves /\ Settles /\ Blamed /\ UNCHANGED listVars

\* The step is done, and x is the handle.
Brings(x) ==
    \/ /\ x = h /\ Accepts(Now.m, line.ans.st) /\ line.ans # NoAnswer
       /\ line.ans.st # "missing" /\ Now.m \notin {"GET", "LIST", "INITIATE", "PART", "DIAL", "CHUNK"}
    \/ x = h /\ Now.m = "CHUNK"
    \/ x = NewHandle(Now.path, call.data) /\ Now.m = "DIAL"
    \/ /\ x = [h EXCEPT !.upload = line.ans.id]
       /\ Now.m = "INITIATE" /\ line.ans.st = "ok" /\ line.ans # NoAnswer
    \/ /\ x = Emptied([h EXCEPT !.etags = Append(@, line.ans.data)])
       /\ Now.m = "PART" /\ line.ans.st = "ok" /\ line.ans # NoAnswer
Moves(x) ==
    /\ Brings(x) /\ Advance(x) /\ line' = Quiet
    /\ UNCHANGED <<abandoned, unsettled, faulty, listVars>>

\* The call ends with its answer.
Ends ==
    /\ \E r : Return(r) /\ (r = Said("error") => Now.m = "LIST" /\ line.ans.more /\ ~MorePages)
    /\ Now.m \in {"GET", "EXISTS", "DELETE", "LIST"}
    /\ Receive(line.ans) /\ (GotContent \/ NotThere \/ GotPage)
    /\ UNCHANGED <<h, unsettled>>

LEMMA ClientKinds ==
    ASSUME WireInv, Client
    PROVE  /\ Busy /\ UNCHANGED <<serverVars, last>>
           /\ Waits \/ TurnsPage \/ Repeats \/ Fails \/ Ends \/ \E x : Moves(x)
<1>1. Quiet.req = NoRequest /\ Quiet.ans = NoAnswer /\ NoAnswer.st = "none"
  BY DEF Quiet, NoAnswer
<1>2. HangUp => line' = Quiet /\ Leaves
  BY DEF HangUp, Leaves
<1>3. CASE ForceFresh \/ Connect \/ Reuse \/ Send \/ EndBody
  <2>1. line = Quiet /\ Busy
    BY <1>3 DEF ForceFresh, Connect, Reuse, Send, EndBody, OnKept, WireInv, AnswersMatch
  <2>2. line' = line \/ Send \/ EndBody
    BY <1>3 DEF ForceFresh, Connect, Reuse, Send, EndBody, netVars
  <2>3. UNCHANGED <<todo, call, h, reply, body, listVars, abandoned, unsettled, faulty>>
        /\ UNCHANGED <<serverVars, last>>
    BY <1>3 DEF ForceFresh, Connect, Reuse, Send, EndBody, netVars, exchangeVars, historyVars
  <2> QED  BY <2>1, <2>2, <2>3 DEF Waits
<1>4. CASE ConnectFails \/ DialFails \/ ChunkFails \/ EndBodyFails
  <2>1. line = Quiet /\ Busy
    BY <1>4 DEF ConnectFails, DialFails, ChunkFails, EndBodyFails, OnKept, WireInv, AnswersMatch
  <2>2. line' = Quiet /\ Leaves /\ StepFails /\ UNCHANGED <<serverVars, listVars, last>>
    BY <1>2, <1>4, <2>1 DEF ConnectFails, DialFails, ChunkFails, EndBodyFails, netVars, Leaves
  <2>3. Settles
    BY <1>4, <2>1 DEF ConnectFails, DialFails, ChunkFails, EndBodyFails, Settles
  <2>4. Blamed
    BY <1>4 DEF ConnectFails, DialFails, ChunkFails, EndBodyFails, Blamed
  <2> QED  BY <2>1, <2>2, <2>3, <2>4 DEF Fails
<1>5. CASE SendFails \/ NoAnswerComes \/ Lose \/ Garbled \/ LeftOver
  <2>1. Busy /\ UNCHANGED <<serverVars, listVars, last>> /\ (faulty => faulty')
    BY <1>5 DEF SendFails, NoAnswerComes, Lose, Garbled, LeftOver, OnKept
  <2>2. \/ faulty'
        \/ line.ans # NoAnswer /\ ~Accepts(Now.m, line.ans.st)
        \/ conn # "open" /\ at # "top" /\ ~OwnStep(Now.m) /\ Broken
    <3>1. \A m : ~Accepts(m, "garbled") /\ ~Accepts(m, "unfinished")
      BY DEF Accepts
    <3>2. CASE Lose \/ LeftOver
      BY <3>2 DEF Lose, LeftOver
    <3>3. CASE SendFails
      BY <3>3 DEF SendFails, OnKept
    <3>4. CASE NoAnswerComes
      BY <1>1, <3>1, <3>4 DEF NoAnswerComes
    <3>5. CASE Garbled
      BY <1>1, <3>1, <3>5 DEF Garbled
    <3> QED  BY <1>5, <3>2, <3>3, <3>4, <3>5
  <2>3. Broken => Repeats \/ Fails
    BY <1>2, <2>1, <2>2 DEF Broken, Repeats, Fails, Settles, Blamed, Retries
  <2>4. Garbled => Fails
    <3>1. Garbled => line.ans # NoAnswer /\ ~Accepts(Now.m, line.ans.st)
      BY <1>1 DEF Garbled, Accepts
    <3> QED  BY <1>2, <2>1, <3>1 DEF Garbled, Fails, Settles, Blamed
  <2>5. LeftOver /\ HangUp /\ StepFails /\ Unsettle({"INITIATE", "ABORT"}) => Fails
    BY <1>2, <2>1 DEF LeftOver, Fails, Settles, Blamed
  <2>6. ASSUME LeftOver, UNCHANGED <<own, body, line, abandoned>>, StepFails,
               Unsettle({"INITIATE", "ABORT"})
        PROVE  Fails
    <3>1. line = Quiet
      BY <2>6 DEF LeftOver, OnKept, WireInv
    <3> QED  BY <2>1, <2>6, <3>1 DEF LeftOver, Fails, Leaves, Settles, Blamed
  <2> QED  BY <1>5, <2>1, <2>3, <2>4, <2>5, <2>6 DEF SendFails, NoAnswerComes, Lose, LeftOver
<1>6. CASE GoOn \/ GotUpload \/ GotETag
  <2>1. /\ Busy /\ UNCHANGED <<serverVars, listVars, last, abandoned, unsettled, faulty>>
        /\ line' = Quiet /\ line.ans # NoAnswer /\ at = "recv"
    BY <1>1, <1>6 DEF GoOn, GotUpload, GotETag, Receive
  <2>2. Now.m \notin {"DIAL", "CHUNK"}
    BY <2>1 DEF WireInv
  <2>3. \E x : Brings(x) /\ Advance(x)
    BY <1>6, <2>1, <2>2 DEF GoOn, GotUpload, GotETag, Receive, Brings
  <2> QED  BY <2>1, <2>3 DEF Moves
<1>7. CASE GotContent \/ NotThere
  <2>1. /\ Receive(line.ans) /\ UNCHANGED <<h, unsettled>>
        /\ Accepts(Now.m, line.ans.st) /\ (line.ans.st = "missing" \/ Now.m = "GET")
    BY <1>7 DEF GotContent, NotThere
  <2>2. \E r : Return(r) /\ r # Said("error")
    <3>1. [rc |-> "ok", data |-> line.ans.data] # Said("error")
      <4>1. [rc |-> "ok", data |-> line.ans.data].rc = "ok" /\ Said("error").rc = "error"
        BY DEF Said
      <4> QED  BY <4>1
    <3>2. Said("ok") # Said("error") /\ Said("absent") # Said("error")
      BY DEF Said
    <3> QED  BY <1>7, <3>1, <3>2 DEF GotContent, NotThere
  <2>3. Now.m \in {"GET", "EXISTS", "DELETE", "LIST"}
    BY <2>1 DEF Accepts
  <2> QED  BY <1>7, <2>1, <2>2, <2>3 DEF Ends, Receive
<1>8. CASE GotPage
  <2>1. Receive(line.ans) /\ UNCHANGED <<h, unsettled>> /\ Now.m = "LIST"
    BY <1>8 DEF GotPage
  <2>2. \/ todo' = todo /\ UNCHANGED <<call, reply>>
        \/ \E r : Return(r) /\ (r = Said("error") => line.ans.more /\ ~MorePages)
    BY <1>8 DEF GotPage, Proceed, Truncated, Said
  <2> QED  BY <1>8, <2>1, <2>2 DEF TurnsPage, Ends, Receive
<1>9. CASE Rejected
  <2>1. line.ans # NoAnswer /\ ~Accepts(Now.m, line.ans.st) /\ faulty' = faulty
    BY <1>1, <1>9 DEF Rejected, Receive
  <2> QED  BY <1>1, <1>9, <2>1 DEF Rejected, Receive, Fails, Leaves, Settles, Blamed
<1>10. CASE Dial \/ SendChunk
  <2>1. line = Quiet /\ Busy
    BY <1>10 DEF Dial, SendChunk, WireInv, AnswersMatch
  <2>2. \E x : Brings(x) /\ Advance(x)
    BY <1>10 DEF Dial, SendChunk, Brings
  <2> QED  BY <1>10, <2>1, <2>2 DEF Moves, Dial, SendChunk
<1> QED  BY <1>3, <1>4, <1>5, <1>6, <1>7, <1>8, <1>9, <1>10 DEF Client

-----------------------------------------------------------------------------
(* What a step of the server may be.                                       *)

\* The request out is answered: as it should be, with an error or in a form
\* that says little, or with a page that never is the last.
Answered(b) ==
    \/ b = AnswerTo(line.req) /\ Execute(line.req) /\ faulty' = faulty
    \/ /\ faulty' /\ b.st \in {"error", "garbled", "unframed"} /\ (UNCHANGED serverVars \/ Execute(line.req))
       /\ \/ b = [AnswerTo(line.req) EXCEPT !.st = b.st]
          \/ b = [AnswerTo(line.req) EXCEPT !.st = "unframed", !.names = {}, !.more = FALSE]
    \/ /\ faulty' /\ line.req.m = "LIST" /\ Execute(line.req)
       /\ b = [AnswerTo(line.req) EXCEPT !.names = {}, !.more = TRUE]
Answers(b) ==
    /\ Unserved /\ Answered(b)
    /\ line'.req = line.req /\ line'.ans = b /\ UNCHANGED <<abandoned, conn>>

\* A request left behind is carried out.
Lingers(r) ==
    /\ r \in abandoned /\ Execute(r) /\ abandoned' = abandoned \ {r}
    /\ UNCHANGED <<line, faulty, conn>>

\* The connection is closed under a request that has not been answered.
Closes ==
    /\ line' = line \/ (line' = Quiet /\ line.ans = NoAnswer)
    /\ conn = "open" /\ conn' = "stale" /\ ~(Busy /\ fresh)
    /\ UNCHANGED <<serverVars, abandoned, faulty>>

LEMMA ServerKinds ==
    ASSUME WireInv, Server
    PROVE  (\E b : Answers(b)) \/ (\E r : Lingers(r)) \/ Closes
<1>1. ASSUME NEW b, Answer(b)
      PROVE  line'.req = line.req /\ line'.ans = b /\ UNCHANGED <<abandoned, conn>>
  BY <1>1 DEF Answer, WireInv
<1>2. CASE Serve
  BY <1>1, <1>2 DEF Serve, Answers, Answered
<1>3. CASE ServeBadly
  <2>1. Unserved /\ faulty'
    BY <1>3 DEF ServeBadly
  <2>2. ASSUME NEW st \in {"error", "garbled"}, Answer([AnswerTo(line.req) EXCEPT !.st = st]),
               UNCHANGED serverVars \/ Execute(line.req)
        PROVE  \E b : Answers(b)
    <3> DEFINE b == [AnswerTo(line.req) EXCEPT !.st = st]
    <3>1. b.st = st
      BY DEF AnswerTo
    <3>2. Answer(b) /\ b = [AnswerTo(line.req) EXCEPT !.st = b.st]
      BY <2>2, <3>1
    <3> HIDE DEF b
    <3>3. Answered(b)
      BY <2>1, <2>2, <3>1, <3>2 DEF Answered
    <3> QED  BY <1>1, <2>1, <3>2, <3>3 DEF Answers
  <2>3. ASSUME Answer([AnswerTo(line.req) EXCEPT !.st = "unframed", !.names = {}, !.more = FALSE]),
               Execute(line.req)
        PROVE  \E b : Answers(b)
    <3> DEFINE b == [AnswerTo(line.req) EXCEPT !.st = "unframed", !.names = {}, !.more = FALSE]
    <3>1. b.st = "unframed"
      BY DEF AnswerTo
    <3>2. Answer(b) /\ b = [AnswerTo(line.req) EXCEPT !.st = "unframed", !.names = {}, !.more = FALSE]
      BY <2>3
    <3> HIDE DEF b
    <3>3. Answered(b)
      BY <2>1, <2>3, <3>1, <3>2 DEF Answered
    <3> QED  BY <1>1, <2>1, <3>2, <3>3 DEF Answers
  <2>4. ASSUME Answer([AnswerTo(line.req) EXCEPT !.names = {}, !.more = TRUE]), line.req.m = "LIST",
               Execute(line.req)
        PROVE  \E b : Answers(b)
    <3> DEFINE b == [AnswerTo(line.req) EXCEPT !.names = {}, !.more = TRUE]
    <3>1. Answer(b) /\ b = [AnswerTo(line.req) EXCEPT !.names = {}, !.more = TRUE]
      BY <2>4
    <3> HIDE DEF b
    <3>2. Answered(b)
      BY <2>1, <2>4, <3>1 DEF Answered
    <3> QED  BY <1>1, <2>1, <3>1, <3>2 DEF Answers
  <2> QED  BY <1>3, <2>2, <2>3, <2>4 DEF ServeBadly
<1>4. CASE ServeLate
  BY <1>4 DEF ServeLate, Lingers
<1>5. CASE IdleClose
  <2>1. line' = line \/ (line' = Quiet /\ line.ans = NoAnswer)
    BY <1>5 DEF IdleClose
  <2> QED  BY <1>5, <2>1 DEF IdleClose, Closes, historyVars
<1> QED  BY <1>2, <1>3, <1>4, <1>5 DEF Server

-----------------------------------------------------------------------------
(* Requests.                                                               *)

\* The request out is the one that the current step makes.
ReqInv == line.req # NoRequest => line.req = Request

\* The server changes nothing of the client's.
LEMMA ServerKeeps ==
    ASSUME Server
    PROVE  /\ UNCHANGED <<todo, call, h, body, at, fresh, attempt, reply, last, unsettled>>
           /\ UNCHANGED listVars /\ Busy' = Busy /\ Now' = Now /\ Request' = Request
<1>1. /\ UNCHANGED <<todo, call, h, body, at, fresh, attempt, reply, last, unsettled>>
      /\ UNCHANGED listVars
  BY DEF Server, Serve, ServeBadly, ServeLate, IdleClose, Answer, exchangeVars, historyVars
<1> QED  BY <1>1 DEF Busy, Now, Request, listVars

LEMMA ReqStep ==
    ASSUME WireInv, PlanInv, ReqInv, [Next]_vars PROVE ReqInv'
<1>1. Quiet.req = NoRequest
  BY DEF Quiet
<1>2. CASE Caller
  BY <1>1, <1>2, CallerAsks DEF ReqInv
<1>3. CASE Client
  <2>1. CASE Send \/ EndBody
    <3>1. UNCHANGED <<todo, call, h, body, token>> /\ line' \in {line, [line EXCEPT !.req = Request]}
      BY <2>1 DEF Send, EndBody, listVars
    <3>2. Request' = Request
      BY <3>1 DEF Request, Now
    <3>3. line = Quiet
      BY <2>1 DEF Send, EndBody, OnKept, WireInv, AnswersMatch
    <3>4. [line EXCEPT !.req = Request].req = Request
      BY DEF WireInv
    <3> QED  BY <1>1, <3>1, <3>2, <3>3, <3>4 DEF ReqInv
  <2>2. CASE ~(Send \/ EndBody)
    BY <1>1, <1>3, <2>2, ClientQuiet DEF ReqInv
  <2> QED  BY <2>1, <2>2
<1>4. CASE Server
  BY <1>4, ServerKeeps, ServerAsked DEF ReqInv
<1>5. CASE UNCHANGED vars
  BY <1>5 DEF vars, netVars, exchangeVars, listVars, ReqInv, Request, Now
<1> QED  BY <1>2, <1>3, <1>4, <1>5 DEF Next

-----------------------------------------------------------------------------
(* Uploads on the server.                                                  *)

\* WebDAV has no uploads and S3 no collections; an upload is started first and
\* once, and a call that has not started one sends its object whole.
UpInv ==
    /\ DOMAIN uploads = Upload
    /\ proto = "webdav" => \A u \in Upload : uploads[u] = NoUpload
    /\ \A n \in 1 .. Len(todo) :
           /\ proto = "s3" => todo[n].m \notin {"MKCOL", "DIAL", "CHUNK", "STREAM"}
           /\ todo[n].m = "INITIATE" => n = 1 /\ todo[n].path \in Key /\ h.upload = NoUpload
           /\ call.op = "abort" => todo[n].m = "ABORT"
           /\ call.op = "finish" /\ todo[n].m = "PUT" /\ proto = "s3" => h.upload = NoUpload

\* What S3 calls plan.
LEMMA PlanUploads ==
    ASSUME NEW c, NEW n \in 1 .. Len(PlanS3(c))
    PROVE  /\ PlanS3(c)[n].m \notin {"MKCOL", "DIAL", "CHUNK", "STREAM"}
           /\ PlanS3(c)[n].m = "INITIATE" =>
                  /\ n = 1 /\ PlanS3(c)[n].path = h.key /\ h.upload = NoUpload
                  /\ c.op \in {"append", "finish"}
           /\ c.op = "abort" => PlanS3(c)[n].m = "ABORT"
           /\ c.op = "finish" /\ PlanS3(c)[n].m = "PUT" => h.upload = NoUpload
<1>1. \A m, p : Step(m, p).m = m /\ Step(m, p).path = p
  BY DEF Step
<1>0. CASE c.op = "abort"
  <2>1. PlanS3(c) \in {<<>>, <<Step("ABORT", h.key)>>}
    BY <1>0 DEF PlanS3
  <2> QED  BY <1>0, <1>1, <2>1
<1>2. CASE c.op \in {"put", "get", "exists", "remove", "list"}
  <2>1. \E p : PlanS3(c) \in {<<Step("PUT", p)>>, <<Step("GET", p)>>, <<Step("EXISTS", p)>>,
                                 <<Step("EXISTS", p), Step("DELETE", p)>>, <<Step("LIST", p)>>,
                                 <<>>}
    BY <1>2 DEF PlanS3
  <2>2. c.op \notin {"finish", "abort"}
    BY <1>2
  <2> QED  BY <1>1, <2>1, <2>2
<1>3. CASE c.op = "append"
  <2>1. PlanS3(c) \in {<<>>, NextPart(h.key)}
    BY <1>3 DEF PlanS3
  <2>2. \/ h.upload = NoUpload /\ NextPart(h.key) = <<Step("INITIATE", h.key), Step("PART", h.key)>>
        \/ NextPart(h.key) = <<Step("PART", h.key)>>
    BY Joins DEF NextPart
  <2> QED  BY <1>1, <1>3, <2>1, <2>2
<1>4. CASE c.op = "finish" /\ h.upload = NoUpload
  <2>1. PlanS3(c) = <<Step("PUT", h.key)>>
    BY <1>4 DEF PlanS3
  <2> QED  BY <1>1, <1>4, <2>1
<1>5. CASE c.op = "finish" /\ h.upload # NoUpload
  <2>1. NextPart(h.key) = <<Step("PART", h.key)>>
    BY <1>5, Joins DEF NextPart
  <2>2. PlanS3(c) \in {<<Step("PART", h.key), Step("COMPLETE", h.key)>>, <<Step("COMPLETE", h.key)>>}
    BY <1>5, <2>1, Joins DEF PlanS3
  <2> QED  BY <1>1, <1>5, <2>2
<1>6. CASE c.op \notin {"put", "get", "exists", "remove", "list", "abort", "append", "finish"}
  <2>1. PlanS3(c) = <<>>
    BY <1>6 DEF PlanS3
  <2>2. 1 .. Len(PlanS3(c)) = {}
    BY <2>1
  <2> QED  BY <2>2
<1> QED  BY <1>0, <1>2, <1>3, <1>4, <1>5, <1>6

\* What the caller does to the upload that is open.
Handled(c) ==
    \/ c.op = "open" /\ h' = h
    \/ c.op \in {"put", "get", "exists", "remove", "list", "mkcol"} /\ h = NoHandle /\ h' = h
    \/ /\ c.op = "begin" /\ c.key \in Key /\ c.data \in Content /\ h = NoHandle
       /\ FreeUploads # {} /\ h' = IF proto = "s3" THEN NewHandle(c.key, c.data) ELSE NoHandle
    \/ /\ c.op = "append" /\ c.data \in Seq(Chunk)
       /\ h \in HandleType /\ ~h.failed /\ h' \in HandleType
       /\ h'.key = h.key /\ h'.upload = h.upload /\ h'.etags = h.etags /\ ~h'.failed
       /\ h'.body = IF proto = "s3" THEN h.body \o c.data ELSE h.body
    \/ c.op = "finish" /\ h' = h /\ h \in HandleType /\ ~h.failed
    \/ c.op = "abort" /\ h \in HandleType /\ h' = IF Plan(c) = <<>> THEN NoHandle ELSE h
Begins(c) == Ask(c) /\ Callable(c) /\ Handled(c) /\ (c.op # "open" => call = Idle)
Shuts == /\ call' = Closed /\ conn' = "none"
         /\ UNCHANGED <<todo, at, fresh, attempt, h, reply, faulty, listVars>>

LEMMA CallerKinds ==
    ASSUME WireInv, MoveInv, Caller
    PROVE  /\ ~Busy /\ at = "top" /\ line = Quiet /\ line' = line /\ abandoned' = {}
           /\ UNCHANGED <<serverVars, unsettled>>
           /\ Shuts \/ \E c : Begins(c)
<1>1. ~Busy
  BY DEF Caller, Open, Close, Plain, PutBegin, PutAppend, PutFinish, PutAbort, Busy
<1>2. at = "top" /\ line = Quiet
  BY <1>1 DEF WireInv, AnswersMatch
<1>3. h = NoHandle \/ h \in HandleType
  BY DEF MoveInv, HandleInv, Holds
<1>4. CASE Close
  BY <1>1, <1>2, <1>4 DEF Close, Shuts, exchangeVars, historyVars
<1>5. \A k \in Key : k \in Seq(Name) /\ k # <<>>
  BY KeyAssumption
<1>6. ASSUME Caller, ~Close PROVE \E c : Begins(c)
  <2>1. CASE Open
    BY <2>1 DEF Open, Begins, Callable, Handled
  <2>2. CASE PutFinish
    BY <1>3, <2>2 DEF PutFinish, Begins, Callable, Handled
  <2>3. CASE PutAbort
    BY <1>3, <2>3 DEF PutAbort, Begins, Callable, Handled
  <2>4. CASE PutBegin
    <3>1. PICK k \in Key, d \in Content \ {<<>>} :
              /\ Ask([op |-> "begin", key |-> k, data |-> d])
              /\ h' = IF proto = "s3" THEN NewHandle(k, d) ELSE NoHandle
      BY <2>4 DEF PutBegin
    <3> DEFINE c == [op |-> "begin", key |-> k, data |-> d]
    <3>2. c.op = "begin" /\ c.key = k /\ c.data = d /\ Ask(c) /\ h = NoHandle /\ FreeUploads # {}
      BY <2>4, <3>1 DEF PutBegin
    <3> HIDE DEF c
    <3> QED  BY <1>5, <2>4, <3>1, <3>2 DEF Begins, Callable, Handled, PutBegin
  <2>5. CASE PutAppend
    <3>1. PICK d \in {<<>>} \cup {<<h.want[n]>> : n \in {Len(h.sent) + 1} \cap DOMAIN h.want} :
              /\ Ask([op |-> "append", data |-> d])
              /\ h' = [h EXCEPT !.sent = @ \o d,
                                !.body = IF proto = "s3" THEN @ \o d ELSE @]
      BY <2>5 DEF PutAppend
    <3>2. h \in HandleType /\ ~h.failed
      BY <1>3, <2>5 DEF PutAppend
    <3>3. d \in Seq(Chunk)
      <4>1. h.want \in Seq(Chunk)
        BY <3>2, IsHandle, ContentAssumption
      <4>2. CASE d = <<>>
        BY <4>2
      <4>3. CASE d # <<>>
        <5>1. PICK n \in DOMAIN h.want : d = <<h.want[n]>>
          BY <3>1, <4>3
        <5>2. h.want[n] \in Chunk
          BY <4>1, <5>1
        <5> QED  BY <5>1, <5>2
      <4> QED  BY <4>2, <4>3
    <3>4. h.sent \o d \in Seq(Chunk) /\ h.body \o d \in Seq(Chunk)
      BY <3>2, <3>3, IsHandle, ConcatProperties
    <3>5. /\ h' \in HandleType /\ h'.etags = h.etags
          /\ h'.upload = h.upload /\ h'.failed = h.failed /\ h'.key = h.key
          /\ h'.body = IF proto = "s3" THEN h.body \o d ELSE h.body
      BY <3>1, <3>2, <3>4 DEF HandleType
    <3> DEFINE c == [op |-> "append", data |-> d]
    <3>6. c.op = "append" /\ c.data = d /\ Ask(c)
      BY <3>1
    <3> HIDE DEF c
    <3> QED  BY <2>5, <3>2, <3>3, <3>5, <3>6 DEF Begins, Callable, Handled, PutAppend
  <2>6. CASE Plain
    <3>1. h' = h
      BY <2>6 DEF Plain
    <3>2. PICK c : Ask(c) /\ c.op \in {"put", "get", "exists", "remove", "list", "mkcol"}
                   /\ Callable(c)
      <4>1. CASE \E k \in Key, d \in Content : Ask([op |-> "put", key |-> k, data |-> d])
        BY <1>5, <4>1 DEF Callable
      <4>2. CASE \E k \in Key, op \in {"get", "exists", "remove"} : Ask([op |-> op, key |-> k])
        BY <1>5, <4>2 DEF Callable
      <4>3. CASE \E k \in Key, op \in {"list", "mkcol"} :
                     Len(k) > 1 /\ Ask([op |-> op, key |-> Front(k)])
        <5>1. PICK k \in Key, op \in {"list", "mkcol"} :
                  Len(k) > 1 /\ Ask([op |-> op, key |-> Front(k)])
          BY <4>3
        <5>2. Front(k) \in Seq(Name) /\ Len(Front(k)) = Len(k) - 1 /\ Len(k) \in Nat
          BY <1>5, FrontType
        <5>3. Front(k) # <<>>
          <6> DEFINE n == Len(k)
                     m == Len(Front(k))
          <6>1. n > 1 /\ m = n - 1 /\ n \in Nat
            BY <5>1, <5>2
          <6> HIDE DEF n, m
          <6>2. m # 0
            BY <6>1
          <6> QED  BY <6>2 DEF m
        <5> QED  BY <5>1, <5>2, <5>3 DEF Callable
      <4> QED  BY <2>6, <4>1, <4>2, <4>3 DEF Plain
    <3> QED  BY <2>6, <3>1, <3>2 DEF Begins, Handled, Plain
  <2> QED  BY <1>6, <2>1, <2>2, <2>3, <2>4, <2>5, <2>6 DEF Caller
<1>7. ASSUME NEW c, Ask(c)
      PROVE  line' = line /\ abandoned' = {} /\ UNCHANGED <<serverVars, unsettled>>
  BY <1>7 DEF Ask
<1> QED  BY <1>1, <1>2, <1>4, <1>6, <1>7 DEF Begins

\* What a request does to the uploads: it starts one, or none that is over.
LEMMA ExecuteUploads ==
    ASSUME NEW r, Execute(r), DOMAIN uploads = Upload
    PROVE  /\ DOMAIN uploads' = Upload
           /\ r.m # "INITIATE" => \A u \in Upload : uploads[u] = NoUpload => uploads'[u] = NoUpload
           /\ r.m = "INITIATE" =>
                  \/ uploads' = uploads /\ StatusOf(r) # "ok"
                  \/ /\ FreeUpload \in FreeUploads
                     /\ uploads' = [uploads EXCEPT ![FreeUpload] = [key |-> r.path, parts |-> <<>>]]
<1>1. FreeUploads # {} => FreeUpload \in FreeUploads
  BY DEF FreeUpload, FreeUploads
<1>2. r.m = "INITIATE" => (StatusOf(r) = "ok" => FreeUploads # {})
  BY DEF StatusOf
<1>3. r.m = "PART" => (StatusOf(r) = "ok" => uploads[r.up] # NoUpload)
  BY DEF StatusOf
<1> QED  BY <1>1, <1>2, <1>3 DEF Execute

\* A WebDAV server has no uploads, whatever it is asked.
LEMMA NoUploads ==
    ASSUME NEW r, Sound(r), Execute(r), proto = "webdav", \A u \in Upload : uploads[u] = NoUpload
    PROVE  uploads' = uploads
<1>1. r.m \notin Posts
  BY DEF Sound
<1>2. r.m \in {"PART", "ABORT"} => StatusOf(r) # "ok"
  BY DEF StatusOf
<1> QED  BY <1>1, <1>2 DEF Execute, Posts

\* What is left to do after a step.
LEMMA LeftToDo ==
    ASSUME PlanInv, Busy, StepFails \/ (\E x : Advance(x)) \/ (\E r : Return(r))
    PROVE  \/ todo' = Tail(todo) /\ Len(todo) > 1 /\ call' = call
           \/ todo' = <<Step("ABORT", h.key)>> /\ call' = call
           \/ todo' = <<>> /\ call' \in {Idle, Closed}
<1>1. ASSUME NEW x, Advance(x)
      PROVE  \/ todo' = Tail(todo) /\ Len(todo) > 1 /\ call' = call
             \/ todo' = <<>> /\ call' \in {Idle, Closed}
  BY <1>1 DEF Advance, Return, Proceed
<1>2. ASSUME NEW r, Return(r) PROVE todo' = <<>> /\ call' \in {Idle, Closed}
  BY <1>2 DEF Return, Proceed
<1>3. CASE StepFails
  BY <1>1, <1>2, <1>3 DEF StepFails, Proceed
<1> QED  BY <1>1, <1>2, <1>3

LEMMA UpStep ==
    ASSUME WireInv, PlanInv, MoveInv, SoundInv, UpInv, [Next]_vars PROVE UpInv'
<1>1. CASE Caller
  <2>1. UNCHANGED serverVars
    BY <1>1, CallerKinds
  <2>2. CASE Shuts
    BY <2>1, <2>2 DEF Shuts, UpInv, serverVars, Closed
  <2>3. ASSUME NEW c, Begins(c) PROVE UpInv'
    <3>1. \/ todo' = <<>>
          \/ todo' = Plan(c) /\ call' = c
      BY <2>3 DEF Begins, Ask, Proceed
    <3>2. CASE todo' = <<>>
      BY <2>1, <3>2 DEF UpInv, serverVars
    <3>3. CASE todo' = Plan(c) /\ call' = c /\ proto = "webdav"
      <4>1. \A n \in 1 .. Len(Plan(c)) : Plan(c)[n].m # "INITIATE"
        BY <2>3, <3>3, PlanPosts DEF Begins, PlanInv, Posts
      <4>2. c.op = "abort" => Plan(c) = <<>>
        BY <3>3 DEF Plan, PlanWebdav
      <4> QED  BY <2>1, <3>3, <4>1, <4>2 DEF UpInv, serverVars
    <3>4. CASE todo' = Plan(c) /\ call' = c /\ proto # "webdav"
      <4>1. todo' = PlanS3(c)
        BY <3>4 DEF Plan
      <4>2. c.op \in {"append", "finish"} => h'.upload = h.upload /\ h.key \in Key
        BY <2>3, IsHandle DEF Begins, Handled
      <4> QED  BY <2>1, <3>4, <4>1, <4>2, PlanUploads DEF UpInv, serverVars
    <3> QED  BY <3>1, <3>2, <3>3, <3>4
  <2> QED  BY <1>1, <2>2, <2>3, CallerKinds
<1>2. CASE Client
  <2>1. Busy /\ UNCHANGED serverVars
    BY <1>2, ClientKinds
  <2>2. CASE Waits \/ TurnsPage \/ Repeats
    BY <2>1, <2>2 DEF Waits, TurnsPage, Repeats, UpInv, serverVars
  <2>3. CASE Fails \/ Ends \/ \E x : Moves(x)
    <3>1. StepFails \/ (\E x : Advance(x)) \/ (\E r : Return(r))
      BY <2>3 DEF Fails, Ends, Moves
    <3>2. CASE todo' = Tail(todo) /\ Len(todo) > 1 /\ call' = call
      <4>1. /\ Len(todo) \in Nat /\ Len(todo') = Len(todo) - 1
            /\ \A n \in 1 .. Len(todo) - 1 : todo'[n] = todo[n + 1]
        BY <2>1, <3>2, HeadTail
      <4>2. ASSUME NEW n \in 1 .. Len(todo')
            PROVE  /\ proto = "s3" => todo'[n].m \notin {"MKCOL", "DIAL", "CHUNK", "STREAM"}
                   /\ todo'[n].m # "INITIATE" /\ ~(call.op = "finish" /\ todo'[n].m = "PUT")
                   /\ call.op = "abort" => todo'[n].m = "ABORT"
        <5>1. n \in 1 .. Len(todo) - 1 /\ n + 1 \in 1 .. Len(todo) /\ n + 1 # 1
          BY <4>1
        <5>2. todo'[n] = todo[n + 1] /\ Follows(todo[n].m, todo[n + 1].m)
          BY <4>1, <5>1 DEF MoveInv, StepsInv
        <5> QED  BY <5>1, <5>2 DEF UpInv, Follows
      <4> QED  BY <2>1, <3>2, <4>2 DEF UpInv, serverVars
    <3>3. CASE todo' = <<Step("ABORT", h.key)>>
      BY <2>1, <3>3 DEF UpInv, serverVars, Step
    <3>4. CASE todo' = <<>>
      BY <2>1, <3>4 DEF UpInv, serverVars
    <3> QED  BY <2>1, <3>1, <3>2, <3>3, <3>4, LeftToDo
  <2> QED  BY <1>2, <2>2, <2>3, ClientKinds
<1>3. CASE Server
  <2>1. proto = "webdav" => uploads' = uploads
    BY <1>3, ServerAsked, NoUploads DEF SoundInv, UpInv, Unserved, serverVars
  <2>2. UNCHANGED <<todo, call, h, proto>>
    BY <1>3, ServerKeeps, ServerAsked
  <2>3. DOMAIN uploads' = Upload
    BY <1>3, ServerAsked, ExecuteUploads DEF UpInv, serverVars
  <2> QED  BY <2>1, <2>2, <2>3 DEF UpInv
<1>4. CASE UNCHANGED vars
  BY <1>4 DEF vars, serverVars, exchangeVars, UpInv
<1> QED  BY <1>1, <1>2, <1>3, <1>4 DEF Next

-----------------------------------------------------------------------------
(* Requests left behind.                                                   *)

\* An initiation left behind ends its call, and there is one at most; an
\* upload is started only when nothing is left behind.
LateInv ==
    /\ Busy => \A r \in abandoned : r.m # "INITIATE"
    /\ \A r, s \in abandoned : r.m = "INITIATE" /\ s.m = "INITIATE" => r = s
    /\ Busy /\ Now.m = "INITIATE" => abandoned = {}

LEMMA LateStep ==
    ASSUME WireInv, PlanInv, MoveInv, SentInv, UpInv, LateInv, [Next]_vars PROVE LateInv'
<1>1. CASE Caller
  BY <1>1, CallerKinds DEF LateInv
<1>2. CASE Client
  <2>1. Busy /\ UNCHANGED serverVars
    BY <1>2, ClientKinds
  <2>2. line.req # NoRequest => line.req.m = Now.m
    BY DEF SentInv
  <2>3. CASE Waits \/ TurnsPage
    <3>1. UNCHANGED <<todo, call, abandoned>>
      BY <2>3 DEF Waits, TurnsPage, Receive
    <3> QED  BY <2>1, <3>1 DEF LateInv, Busy, Now
  <2>4. CASE Repeats
    <3>1. UNCHANGED <<todo, call>> /\ Now.m # "INITIATE" /\ Busy' /\ Now' = Now
      BY <2>1, <2>4 DEF Repeats, Idempotent, Busy, Now
    <3>2. abandoned' = abandoned \/ (line.req # NoRequest /\ abandoned' = abandoned \cup {line.req})
      BY <2>4 DEF Repeats, HangUp
    <3> QED  BY <2>1, <2>2, <3>1, <3>2 DEF LateInv
  <2>5. CASE Fails \/ Ends \/ \E x : Moves(x)
    <3>1. \/ todo' = Tail(todo) /\ Len(todo) > 1 /\ call' = call
          \/ todo' = <<Step("ABORT", h.key)>> /\ call' = call
          \/ todo' = <<>> /\ call' \in {Idle, Closed}
      <4>1. StepFails \/ (\E x : Advance(x)) \/ (\E r : Return(r))
        BY <2>5 DEF Fails, Ends, Moves
      <4> QED  BY <2>1, <4>1, LeftToDo
    <3>2. Busy' => Now'.m # "INITIATE"
      <4>1. CASE todo' = Tail(todo) /\ Len(todo) > 1
        <5>0. Len(todo) \in Nat /\ \A n \in 1 .. Len(todo) - 1 : todo'[n] = todo[n + 1]
          BY <2>1, <4>1, HeadTail
        <5>1. todo'[1] = todo[2] /\ 2 \in 1 .. Len(todo) /\ todo' # <<>>
          <6>1. 1 \in 1 .. Len(todo) - 1 /\ 2 = 1 + 1
            BY <4>1, <5>0
          <6>2. Len(todo') = Len(todo) - 1
            BY <2>1, <4>1, HeadTail
          <6> QED  BY <4>1, <5>0, <6>1, <6>2
        <5>2. Now' = todo'[1]
          BY <5>1 DEF Now
        <5> QED  BY <5>1, <5>2 DEF UpInv
      <4>2. CASE todo' = <<Step("ABORT", h.key)>>
        BY <4>2 DEF Now, Step
      <4>3. CASE call' \in {Idle, Closed}
        BY <4>3 DEF Busy
      <4> QED  BY <3>1, <4>1, <4>2, <4>3
    <3>3. abandoned' = abandoned \/ (Fails /\ line.req # NoRequest /\ abandoned' = abandoned \cup {line.req})
      BY <2>5 DEF Fails, Leaves, Ends, Receive, Moves
    <3>4. CASE abandoned' = abandoned
      BY <2>1, <3>2, <3>4 DEF LateInv
    <3>5. CASE Fails /\ line.req # NoRequest /\ abandoned' = abandoned \cup {line.req}
      <4>1. line.req.m = "INITIATE" => ~Busy'
        <5>1. ASSUME Now.m = "INITIATE" PROVE ~AbortsOnFailure
          <6>1. Now = todo[1] /\ 1 \in 1 .. Len(todo)
            BY <2>1, HeadTail
          <6>2. h.upload = NoUpload
            BY <5>1, <6>1 DEF UpInv
          <6> QED  BY <6>2 DEF AbortsOnFailure
        <5>2. ASSUME Now.m = "INITIATE" PROVE call' \in {Idle, Closed}
          BY <3>5, <5>1, <5>2 DEF Fails, StepFails, Return
        <5> QED  BY <2>2, <3>5, <5>2 DEF Busy
      <4> QED  BY <2>1, <3>2, <3>5, <4>1 DEF LateInv
    <3> QED  BY <3>3, <3>4, <3>5
  <2> QED  BY <1>2, <2>3, <2>4, <2>5, ClientKinds
<1>3. CASE Server
  <2>1. abandoned' \subseteq abandoned /\ Busy' = Busy /\ Now' = Now
    BY <1>3, ServerKeeps, ServerAsked
  <2> QED  BY <2>1 DEF LateInv
<1>4. CASE UNCHANGED vars
  BY <1>4 DEF vars, netVars, exchangeVars, LateInv, Busy, Now
<1> QED  BY <1>1, <1>2, <1>3, <1>4 DEF Next

-----------------------------------------------------------------------------
(* Uploads nobody knows of.                                                *)

\* Uploads on the server that the open handle does not name, and an
\* initiation that may still start one.
Orphans == {u \in Upload : uploads[u] # NoUpload /\ (h = NoHandle \/ h.upload # u)}
Late == \E r \in abandoned : r.m = "INITIATE"
Executed(m) == Busy /\ Now.m = m /\ line.ans # NoAnswer
Bit(b) == IF b THEN 1 ELSE 0

\* They are accounted for, except one that is about to be told to the client.
Balance ==
    /\ unsettled \in 0 .. Cardinality(Upload)
    /\ unsettled < Cardinality(Upload) =>
           Cardinality(Orphans) + Bit(Late) <= unsettled + Bit(Executed("INITIATE"))

\* What makes NoLostUpload inductive.  An answer tells the truth about the
\* upload it is about.
CountInv ==
    /\ Balance
    /\ Executed("INITIATE") /\ line.ans.st = "ok" =>
           line.ans.id \in Upload /\ uploads[line.ans.id] # NoUpload
    /\ (Executed("COMPLETE") \/ Executed("ABORT")) /\ line.ans.st = "ok" =>
           h.upload \in Upload /\ uploads[h.upload] = NoUpload

\* There are no more of them, and nothing more is owed.
LEMMA NoMoreOrphans ==
    ASSUME IsFiniteSet(Upload), Balance, Orphans' \subseteq Orphans, Late' => Late,
           unsettled' = unsettled, Executed("INITIATE") => Executed("INITIATE")'
    PROVE  Balance'
<1>1. Orphans \subseteq Upload
  BY DEF Orphans
<1>2. IsFiniteSet(Orphans)
  BY <1>1, FS_Subset
<1>3. Cardinality(Orphans') <= Cardinality(Orphans)
  BY <1>2, FS_Subset
<1>4. IsFiniteSet(Orphans')
  BY <1>2, FS_Subset
<1>5. Cardinality(Orphans) \in Nat /\ Cardinality(Orphans') \in Nat /\ Cardinality(Upload) \in Nat
  BY <1>2, <1>4, FS_CardinalityType
<1>6. Bit(Late)' <= Bit(Late) /\ Bit(Executed("INITIATE")) <= Bit(Executed("INITIATE"))'
      /\ Bit(Late) \in {0, 1} /\ Bit(Late)' \in {0, 1}
      /\ Bit(Executed("INITIATE")) \in {0, 1} /\ Bit(Executed("INITIATE"))' \in {0, 1}
  BY DEF Bit
<1> QED  BY <1>3, <1>5, <1>6 DEF Balance

\* There may be one more, and it is accounted for.
LEMMA OneOrphanMore ==
    ASSUME IsFiniteSet(Upload), Balance,
           unsettled' = IF unsettled < Cardinality(Upload) THEN unsettled + 1 ELSE unsettled,
           \/ Orphans' \subseteq Orphans /\ (Executed("INITIATE") => (Late' => Late))
           \/ /\ \E u : Orphans' \subseteq Orphans \cup {u}
              /\ Late' => Late
              /\ ~Executed("INITIATE")
    PROVE  Balance'
<1>1. Orphans \subseteq Upload
  BY DEF Orphans
<1>2. IsFiniteSet(Orphans)
  BY <1>1, FS_Subset
<1>3. \A u : IsFiniteSet(Orphans \cup {u}) /\ Cardinality(Orphans \cup {u}) <= Cardinality(Orphans) + 1
  <2> SUFFICES ASSUME NEW u
               PROVE  IsFiniteSet(Orphans \cup {u}) /\ Cardinality(Orphans \cup {u}) <= Cardinality(Orphans) + 1
    OBVIOUS
  <2>1. Cardinality(Orphans) \in Nat
    BY <1>2, FS_CardinalityType
  <2> DEFINE S == Orphans \cup {u}
  <2>2. IsFiniteSet(S) /\ (Cardinality(S) = Cardinality(Orphans) \/ Cardinality(S) = Cardinality(Orphans) + 1)
    BY <1>2, FS_AddElement
  <2> HIDE DEF S
  <2>3. Cardinality(S) <= Cardinality(Orphans) + 1
    BY <2>1, <2>2
  <2> QED  BY <2>2, <2>3 DEF S
<1>4. IsFiniteSet(Orphans') /\ Cardinality(Orphans') <= Cardinality(Orphans) + 1
      /\ (Orphans' \subseteq Orphans => Cardinality(Orphans') <= Cardinality(Orphans))
  <2>1. ASSUME Orphans' \subseteq Orphans
        PROVE  IsFiniteSet(Orphans') /\ Cardinality(Orphans') <= Cardinality(Orphans)
    BY <1>2, <2>1, FS_Subset
  <2>2. ASSUME NEW u, Orphans' \subseteq Orphans \cup {u}
        PROVE  IsFiniteSet(Orphans') /\ Cardinality(Orphans') <= Cardinality(Orphans) + 1
    <3>1. /\ IsFiniteSet(Orphans') /\ Cardinality(Orphans') <= Cardinality(Orphans \cup {u})
      BY <1>3, <2>2, FS_Subset
    <3>2. /\ Cardinality(Orphans') \in Nat /\ Cardinality(Orphans \cup {u}) \in Nat
          /\ Cardinality(Orphans) \in Nat
      BY <1>2, <1>3, <3>1, FS_CardinalityType
    <3> DEFINE m == Cardinality(Orphans \cup {u})
               n == Cardinality(Orphans')
    <3>3. m <= Cardinality(Orphans) + 1 /\ n <= m /\ m \in Nat /\ n \in Nat
      BY <1>3, <3>1, <3>2
    <3> HIDE DEF m, n
    <3>4. n <= Cardinality(Orphans) + 1
      BY <3>2, <3>3
    <3> QED  BY <3>1, <3>4 DEF n
  <2>3. Cardinality(Orphans) \in Nat
    BY <1>2, FS_CardinalityType
  <2>4. CASE Orphans' \subseteq Orphans
    <3>1. Cardinality(Orphans') \in Nat
      BY <2>1, <2>4, FS_CardinalityType
    <3> QED  BY <2>1, <2>3, <2>4, <3>1
  <2> QED  BY <2>2, <2>4
<1>5. Cardinality(Orphans) \in Nat /\ Cardinality(Orphans') \in Nat /\ Cardinality(Upload) \in Nat
  BY <1>2, <1>4, FS_CardinalityType
<1>6. /\ (Late' => Late) => Bit(Late)' <= Bit(Late)
      /\ Bit(Executed("INITIATE")) = IF Executed("INITIATE") THEN 1 ELSE 0
      /\ Bit(Late) \in {0, 1} /\ Bit(Late)' \in {0, 1}
      /\ Bit(Executed("INITIATE"))' \in {0, 1}
  BY DEF Bit
<1> DEFINE o == Cardinality(Orphans)
           p == Cardinality(Orphans')
           c == Cardinality(Upload)
           l == Bit(Late)
           k == Bit(Late)'
           e == Bit(Executed("INITIATE"))
           f == Bit(Executed("INITIATE"))'
<1>7. /\ o \in Nat /\ p \in Nat /\ c \in Nat /\ l \in {0, 1} /\ k \in {0, 1} /\ e \in {0, 1} /\ f \in {0, 1}
      /\ unsettled \in 0 .. c /\ (unsettled < c => o + l <= unsettled + e)
      /\ unsettled' = IF unsettled < c THEN unsettled + 1 ELSE unsettled
  BY <1>5, <1>6 DEF Balance
<1>8. \/ p <= o /\ (e = 1 => k <= l)
      \/ p <= o + 1 /\ k <= l /\ e = 0
  BY <1>4, <1>6 DEF Bit
<1>9. Balance' <=> /\ unsettled' \in 0 .. c
                   /\ unsettled' < c => p + k <= unsettled' + f
  BY DEF Balance
<1> HIDE DEF o, p, c, l, k, e, f
<1>10. unsettled < c => unsettled \in Nat /\ (unsettled' < c => p + k <= unsettled' + f)
  BY <1>7, <1>8
<1> QED  BY <1>7, <1>9, <1>10

\* There may be one more, in place of what was owed before or is owed now.
LEMMA OneOrphanOwed ==
    ASSUME IsFiniteSet(Upload), Balance, unsettled' = unsettled, ~Executed("INITIATE"),
           NEW u, Orphans' \subseteq Orphans \cup {u},
           \/ Late /\ ~Late'
           \/ Executed("INITIATE")' /\ Late' = Late
    PROVE  Balance'
<1>1. IsFiniteSet(Orphans)
  <2>1. Orphans \subseteq Upload
    BY DEF Orphans
  <2> QED  BY <2>1, FS_Subset
<1>2. /\ IsFiniteSet(Orphans \cup {u})
      /\ \/ Cardinality(Orphans \cup {u}) = Cardinality(Orphans)
         \/ Cardinality(Orphans \cup {u}) = Cardinality(Orphans) + 1
  BY <1>1, FS_AddElement
<1>3. IsFiniteSet(Orphans') /\ Cardinality(Orphans') <= Cardinality(Orphans \cup {u})
  BY <1>2, FS_Subset
<1> DEFINE o == Cardinality(Orphans)
           p == Cardinality(Orphans')
           q == Cardinality(Orphans \cup {u})
           c == Cardinality(Upload)
           l == Bit(Late)
           k == Bit(Late)'
           f == Bit(Executed("INITIATE"))'
<1>4. o \in Nat /\ p \in Nat /\ q \in Nat /\ c \in Nat
  BY <1>1, <1>2, <1>3, FS_CardinalityType
<1>5. /\ l \in {0, 1} /\ k \in {0, 1} /\ f \in {0, 1} /\ Bit(Executed("INITIATE")) = 0
      /\ k + 1 <= l + f
  BY DEF Bit
<1>6. unsettled \in 0 .. c /\ (unsettled < c => o + l <= unsettled)
  BY <1>4, <1>5 DEF Balance
<1>7. p <= q /\ q <= o + 1
  BY <1>2, <1>3, <1>4
<1>8. Balance' <=> unsettled \in 0 .. c /\ (unsettled < c => p + k <= unsettled + f)
  BY DEF Balance
<1> HIDE DEF o, p, q, c, l, k, f
<1> QED  BY <1>4, <1>5, <1>6, <1>7, <1>8

\* The one that was owed has been told to the client.
LEMMA OneOrphanLess ==
    ASSUME IsFiniteSet(Upload), Balance, unsettled' = unsettled, Executed("INITIATE"), Late' = Late,
           NEW u \in Orphans, Orphans' \subseteq Orphans \ {u}
    PROVE  Balance'
<1>1. IsFiniteSet(Orphans)
  <2>1. Orphans \subseteq Upload
    BY DEF Orphans
  <2> QED  BY <2>1, FS_Subset
<1>2. IsFiniteSet(Orphans \ {u}) /\ Cardinality(Orphans \ {u}) = Cardinality(Orphans) - 1
  BY <1>1, FS_RemoveElement
<1>3. IsFiniteSet(Orphans') /\ Cardinality(Orphans') <= Cardinality(Orphans \ {u})
  BY <1>2, FS_Subset
<1> DEFINE o == Cardinality(Orphans)
           p == Cardinality(Orphans')
           c == Cardinality(Upload)
           l == Bit(Late)
           k == Bit(Late)'
           f == Bit(Executed("INITIATE"))'
<1>4. o \in Nat /\ p \in Nat /\ c \in Nat
  BY <1>1, <1>3, FS_CardinalityType
<1>5. l \in {0, 1} /\ k = l /\ f \in {0, 1} /\ Bit(Executed("INITIATE")) = 1
  BY DEF Bit
<1>6. unsettled \in 0 .. c /\ (unsettled < c => o + l <= unsettled + 1)
  BY <1>4, <1>5 DEF Balance
<1>7. p <= o - 1
  BY <1>2, <1>3
<1>8. Balance' <=> unsettled \in 0 .. c /\ (unsettled < c => p + k <= unsettled + f)
  BY DEF Balance
<1> HIDE DEF o, p, c, l, k, f
<1> QED  BY <1>4, <1>5, <1>6, <1>7, <1>8

\* A step that fails gives up no upload but one that it was to abort.
LEMMA FailOrphans ==
    ASSUME PlanInv, MoveInv, StoreInv, UpInv, Busy, StepFails, UNCHANGED serverVars
    PROVE  \/ Orphans' \subseteq Orphans
           \/ Now.m = "ABORT" /\ \E u : Orphans' \subseteq Orphans \cup {u}
<1>1. uploads' = uploads
  BY DEF serverVars
<1>2. h = NoHandle \/ h \in HandleType
  BY DEF MoveInv, HandleInv, Holds
<1>3. call.op \in {"append", "finish"} => h \in HandleType
  BY <1>2 DEF MoveInv, CallInv
<1>4. ASSUME h' = h PROVE Orphans' \subseteq Orphans
  BY <1>1, <1>4 DEF Orphans
<1>5. ASSUME h \in HandleType, h' = [h EXCEPT !.failed = TRUE] PROVE Orphans' \subseteq Orphans
  <2>1. h'.upload = h.upload /\ h' # NoHandle /\ h # NoHandle
    <3>1. h' \in HandleType /\ h'.upload = h.upload
      BY <1>5 DEF HandleType
    <3> QED  BY <1>5, <3>1, IsHandle
  <2> QED  BY <1>1, <2>1 DEF Orphans
<1>6. CASE Now.m = "ABORT"
  <2>1. h' \in {h, NoHandle}
    BY <1>6 DEF StepFails, Advance
  <2>2. Orphans' \subseteq Orphans \cup {h.upload}
    BY <1>1, <2>1 DEF Orphans
  <2> QED  BY <1>6, <2>2
<1>7. CASE Now.m # "ABORT" /\ AbortsOnFailure
  <2>1. h' = [h EXCEPT !.failed = TRUE] /\ call.op = "finish"
    BY <1>7 DEF StepFails, AbortsOnFailure
  <2> QED  BY <1>3, <1>5, <2>1
<1>8. CASE Now.m # "ABORT" /\ ~AbortsOnFailure
  <2>1. CASE call.op = "finish"
    <3>1. proto = "webdav" \/ h.upload = NoUpload
      BY <1>8, <2>1 DEF AbortsOnFailure, StoreInv
    <3>2. h.upload = NoUpload => Orphans' \subseteq Orphans
      BY <1>1, UploadAssumption DEF Orphans
    <3>3. proto = "webdav" => Orphans' = {}
      BY <1>1 DEF Orphans, UpInv
    <3> QED  BY <3>1, <3>2, <3>3
  <2>2. CASE call.op = "append"
    <3>1. h' = [h EXCEPT !.failed = TRUE]
      BY <1>8, <2>2 DEF StepFails
    <3> QED  BY <1>3, <1>5, <2>2, <3>1
  <2>3. CASE call.op \notin {"append", "finish"}
    <3>1. h' = h
      BY <1>8, <2>3 DEF StepFails
    <3> QED  BY <1>4, <3>1
  <2> QED  BY <2>1, <2>2, <2>3
<1> QED  BY <1>6, <1>7, <1>8

\* A step that is done gives up no upload that is still there, and takes up the
\* one it has started.
LEMMA MoveOrphans ==
    ASSUME WireInv, PlanInv, MoveInv, StoreInv, UpInv, CountInv, Busy, NEW x, Moves(x),
           UNCHANGED <<serverVars, last>>
    PROVE  \/ Orphans' \subseteq Orphans /\ Now.m # "INITIATE"
           \/ /\ Executed("INITIATE") /\ \E u \in Orphans : Orphans' \subseteq Orphans \ {u}
<1>1. uploads' = uploads
  BY DEF serverVars
<1>2. h = NoHandle \/ h \in HandleType
  BY DEF MoveInv, HandleInv, Holds
<1>3. /\ Now = todo[1] /\ 1 \in 1 .. Len(todo) /\ Now \in Steps
      /\ Goes(Now, Len(todo) = 1) /\ Ready(Now.m)
  BY NowGoes
<1>4. h' = x \/ (h' = NoHandle /\ Len(todo) = 1 /\ call.op \in {"finish", "abort"})
  BY DEF Moves, Advance
<1>5. call.op = "abort" => Now.m = "ABORT"
  BY <1>3 DEF UpInv
<1>6. call.op = "finish" => last.op = "put"
  BY DEF MoveInv, CallInv
<1>7. CASE x = h
  <2>1. CASE h' = h
    <3>1. Now.m # "INITIATE"
      <4>1. Now.m = "INITIATE" => x = [h EXCEPT !.upload = line.ans.id] /\ Executed("INITIATE")
            /\ line.ans.st = "ok"
        BY DEF Moves, Brings, Executed
      <4>2. ASSUME Now.m = "INITIATE" PROVE FALSE
        <5>1. line.ans.id \in Upload /\ h.upload = NoUpload
          BY <1>3, <4>1, <4>2 DEF CountInv, UpInv
        <5>2. h \in HandleType
          BY <1>2, <1>3, <4>2 DEF MoveInv, CallInv, Goes
        <5>3. [h EXCEPT !.upload = line.ans.id].upload = line.ans.id
          BY <5>2 DEF HandleType
        <5> QED  BY <1>7, <4>1, <4>2, <5>1, <5>3, UploadAssumption
      <4> QED  BY <4>2
    <3> QED  BY <1>1, <2>1, <3>1 DEF Orphans
  <2>2. CASE h' # h
    <3>1. h' = NoHandle /\ Len(todo) = 1 /\ call.op \in {"finish", "abort"}
      BY <1>4, <1>7, <2>2
    <3>2. Now.m \in {"PUT", "STREAM", "COMPLETE", "ABORT"}
      BY <1>3, <1>5, <1>6, <3>1 DEF Goes, Steps, Methods
    <3>3. Now.m \in {"COMPLETE", "ABORT"} => uploads[h.upload] = NoUpload
      BY <1>3 DEF Moves, Brings, Accepts, CountInv, Executed
    <3>4. Now.m \in {"PUT", "STREAM"} => proto = "webdav" \/ h.upload = NoUpload
      BY <1>3, <1>5, <3>1 DEF UpInv, StoreInv
    <3>5. ASSUME NEW u \in Orphans' PROVE u \in Orphans
      <4>1. u \in Upload /\ uploads[u] # NoUpload
        BY <1>1, <3>5 DEF Orphans
      <4>2. proto # "webdav"
        BY <4>1 DEF UpInv
      <4>3. h.upload # u
        BY <3>2, <3>3, <3>4, <4>1, <4>2, UploadAssumption
      <4> QED  BY <4>1, <4>3 DEF Orphans
    <3> QED  BY <3>2, <3>5
  <2> QED  BY <2>1, <2>2
<1>8. CASE Now.m = "DIAL"
  <2>1. proto = "webdav"
    BY <1>3, <1>8 DEF UpInv, StoreInv
  <2>2. Orphans' = {}
    BY <1>1, <2>1 DEF Orphans, UpInv
  <2> QED  BY <1>8, <2>2
<1>9. CASE Now.m = "INITIATE"
  <2>1. /\ x = [h EXCEPT !.upload = line.ans.id] /\ line.ans.st = "ok" /\ Executed("INITIATE")
    BY <1>9 DEF Moves, Brings, Executed
  <2>2. line.ans.id \in Upload /\ uploads[line.ans.id] # NoUpload /\ h.upload = NoUpload
    BY <1>3, <1>9, <2>1 DEF CountInv, UpInv
  <2>3. h' = x
    BY <1>3, <1>4, <1>9 DEF Goes
  <2>4. h \in HandleType
    BY <1>2, <1>3, <1>9 DEF MoveInv, CallInv, Goes
  <2>5. x.upload = line.ans.id /\ x # NoHandle
    <3>1. x \in HandleType /\ x.upload = line.ans.id
      BY <2>1, <2>2, <2>4 DEF HandleType
    <3> QED  BY <3>1, IsHandle
  <2>6. line.ans.id \in Orphans
    BY <2>2, UploadAssumption DEF Orphans
  <2>7. Orphans' \subseteq Orphans \ {line.ans.id}
    BY <1>1, <2>2, <2>3, <2>5, UploadAssumption DEF Orphans
  <2> QED  BY <2>1, <2>6, <2>7
<1>10. CASE Now.m = "PART"
  <2>1. x = Emptied([h EXCEPT !.etags = Append(@, line.ans.data)]) \/ x = h
    BY <1>10 DEF Moves, Brings
  <2>2. h' = x
    BY <1>3, <1>4, <1>5, <1>6, <1>10 DEF Goes
  <2>3. h \in HandleType /\ h # NoHandle
    BY <1>2, <1>3, <1>10 DEF MoveInv, CallInv, Goes
  <2>4. /\ Emptied([h EXCEPT !.etags = Append(@, line.ans.data)]).upload = h.upload
        /\ Emptied([h EXCEPT !.etags = Append(@, line.ans.data)]).key = h.key
    BY <2>3 DEF HandleType, Emptied
  <2>5. x.upload = h.upload /\ x # NoHandle
    BY <2>1, <2>3, <2>4, IsHandle, KeyAssumption DEF NoHandle
  <2> QED  BY <1>1, <1>10, <2>2, <2>3, <2>5 DEF Orphans
<1> QED  BY <1>7, <1>8, <1>9, <1>10 DEF Moves, Brings

\* A request that starts no upload makes no orphan, and one that does makes one.
LEMMA ExecuteOrphans ==
    ASSUME UpInv, NEW r, Execute(r), h' = h
    PROVE  /\ r.m # "INITIATE" => Orphans' \subseteq Orphans
           /\ r.m = "INITIATE" => Orphans' \subseteq Orphans \cup {FreeUpload}
<1>1. DOMAIN uploads = Upload
  BY DEF UpInv
<1>2. CASE r.m # "INITIATE"
  <2>1. \A u \in Upload : uploads[u] = NoUpload => uploads'[u] = NoUpload
    BY <1>1, <1>2, ExecuteUploads
  <2> QED  BY <1>2, <2>1 DEF Orphans
<1>3. CASE r.m = "INITIATE"
  <2>1. \A u \in Upload : u # FreeUpload => uploads'[u] = uploads[u]
    BY <1>1, <1>3, ExecuteUploads
  <2> QED  BY <1>3, <2>1 DEF Orphans
<1> QED  BY <1>2, <1>3

LEMMA ServerCount ==
    ASSUME IsFiniteSet(Upload), WireInv, PlanInv, MoveInv, SentInv, ReqInv, UpInv, LateInv, CountInv, Server
    PROVE  CountInv'
<1>1. UNCHANGED <<todo, call, h, unsettled>> /\ Busy' = Busy /\ Now' = Now
  BY ServerKeeps
<1>2. DOMAIN uploads = Upload /\ Balance
  BY DEF UpInv, CountInv
<1>3. UNCHANGED serverVars => Orphans' = Orphans
  BY <1>1 DEF serverVars, Orphans
<1>4. ASSUME NEW b, Answers(b) PROVE CountInv'
  <2>1. line.req # NoRequest /\ line.ans = NoAnswer /\ line'.ans = b /\ abandoned' = abandoned
    BY <1>4 DEF Answers, Unserved
  <2>2. Busy /\ line.req.m = Now.m /\ line.req = Request
    BY <2>1 DEF SentInv, ReqInv
  <2>3. \A m : ~Executed(m)
    BY <2>1 DEF Executed
  <2>4. Late' = Late
    BY <2>1 DEF Late
  <2>5. UNCHANGED serverVars \/ Execute(line.req)
    BY <1>4 DEF Answers, Answered
  <2>6. b.st = "ok" => /\ Execute(line.req) /\ StatusOf(line.req) = "ok"
                       /\ b.id = AnswerTo(line.req).id
    <3>1. \A st : [AnswerTo(line.req) EXCEPT !.st = "unframed", !.names = {}, !.more = FALSE].st = "unframed"
      BY DEF AnswerTo
    <3>2. AnswerTo(line.req).st = StatusOf(line.req)
      BY DEF AnswerTo
    <3>3. /\ [AnswerTo(line.req) EXCEPT !.names = {}, !.more = TRUE].st = StatusOf(line.req)
          /\ [AnswerTo(line.req) EXCEPT !.names = {}, !.more = TRUE].id = AnswerTo(line.req).id
      BY DEF AnswerTo
    <3> QED  BY <1>4, <3>1, <3>2, <3>3 DEF Answers, Answered
  <2>7. Balance'
    <3>1. CASE UNCHANGED serverVars \/ Now.m # "INITIATE"
      <4>1. Orphans' \subseteq Orphans
        BY <1>1, <1>3, <2>2, <2>5, <3>1, ExecuteOrphans
      <4> QED  BY <1>1, <1>2, <2>3, <2>4, <4>1, NoMoreOrphans
    <3>2. CASE Now.m = "INITIATE" /\ Execute(line.req)
      <4>1. Orphans' \subseteq Orphans \cup {FreeUpload}
        BY <1>1, <2>2, <3>2, ExecuteOrphans
      <4>2. b # NoAnswer
        <5>1. b.st # "none"
          <6>1. AnswerTo(line.req).st = StatusOf(line.req)
            BY DEF AnswerTo
          <6>2. StatusOf(line.req) # "none"
            BY <2>2, <3>2 DEF StatusOf
          <6> QED  BY <1>4, <2>2, <3>2, <6>1, <6>2 DEF Answers, Answered
        <5> QED  BY <5>1 DEF NoAnswer
      <4>3. Executed("INITIATE")'
        BY <1>1, <2>1, <2>2, <3>2, <4>2 DEF Executed
      <4> QED  BY <1>1, <1>2, <2>3, <2>4, <4>1, <4>3, OneOrphanOwed
    <3> QED  BY <2>5, <3>1, <3>2
  <2>8. ASSUME Now.m = "INITIATE", b.st = "ok"
        PROVE  b.id \in Upload /\ uploads'[b.id] # NoUpload
    <3>1. Now = todo[1] /\ 1 \in 1 .. Len(todo)
      BY <2>2, HeadTail
    <3>2. Now.path \in Key
      BY <2>8, <3>1 DEF UpInv
    <3>3. line.req.path = Now.path /\ line.req.m = "INITIATE"
      BY <2>2, <2>8 DEF Request
    <3>4. /\ FreeUpload \in FreeUploads
          /\ uploads' = [uploads EXCEPT ![FreeUpload] = [key |-> Now.path, parts |-> <<>>]]
      BY <1>2, <2>6, <2>8, <3>3, ExecuteUploads
    <3>5. [key |-> Now.path, parts |-> <<>>] # NoUpload
      <4> DEFINE P == <<>>
      <4>1. P \in Seq(Seq(Chunk))
        OBVIOUS
      <4> HIDE DEF P
      <4>2. [key |-> Now.path, parts |-> P] \in [key : Key, parts : Seq(Seq(Chunk))]
        BY <3>2, <4>1
      <4>3. [key |-> Now.path, parts |-> P] # NoUpload
        BY <4>2, UploadAssumption
      <4> QED  BY <4>3 DEF P
    <3>6. b.id = FreeUpload
      BY <2>6, <2>8, <3>3, <3>4 DEF AnswerTo
    <3> QED  BY <1>2, <3>4, <3>5, <3>6 DEF FreeUploads
  <2>9. ASSUME Now.m \in {"COMPLETE", "ABORT"}, b.st = "ok"
        PROVE  h.upload \in Upload /\ uploads'[h.upload] = NoUpload
    <3>1. line.req.m = Now.m
      BY <2>2
    <3>2. h # NoHandle
      <4>1. Goes(Now, Len(todo) = 1)
        BY <2>2, NowGoes
      <4> QED  BY <2>2, <2>9, <4>1 DEF Goes, MoveInv, CallInv
    <3>3. line.req.up = h.upload
      BY <2>2, <3>2 DEF Request
    <3>4. StatusOf(line.req) = "ok" => line.req.up \in Upload
      BY <2>9, <3>1 DEF StatusOf, Completes
    <3> QED  BY <1>2, <2>6, <2>9, <3>1, <3>3, <3>4 DEF Execute
  <2> QED  BY <1>1, <2>1, <2>7, <2>8, <2>9 DEF CountInv, Executed
<1>5. ASSUME NEW r, Lingers(r) PROVE CountInv'
  <2>1. r \in abandoned /\ Execute(r) /\ abandoned' = abandoned \ {r} /\ line' = line
    BY <1>5 DEF Lingers
  <2>2. \A m : Executed(m)' = Executed(m)
    BY <1>1, <2>1 DEF Executed
  <2>3. CASE r.m # "INITIATE"
    <3>1. Orphans' \subseteq Orphans /\ (Late' => Late)
      BY <1>1, <2>1, <2>3, ExecuteOrphans DEF Late
    <3>2. Balance'
      BY <1>1, <1>2, <2>2, <3>1, NoMoreOrphans
    <3>3. ~Executed("INITIATE")
      BY <2>1 DEF Executed, LateInv
    <3>4. \A u \in Upload : uploads[u] = NoUpload => uploads'[u] = NoUpload
      BY <1>2, <2>1, <2>3, ExecuteUploads
    <3> QED  BY <1>1, <2>1, <2>2, <3>2, <3>3, <3>4 DEF CountInv
  <2>4. CASE r.m = "INITIATE"
    <3>1. ~Busy /\ Late /\ ~Late'
      BY <2>1, <2>4 DEF LateInv, Late
    <3>2. \A m : ~Executed(m) /\ ~Executed(m)'
      BY <2>2, <3>1 DEF Executed
    <3>3. Orphans' \subseteq Orphans \cup {FreeUpload}
      BY <1>1, <2>1, <2>4, ExecuteOrphans
    <3>4. Balance'
      BY <1>1, <1>2, <3>1, <3>2, <3>3, OneOrphanOwed
    <3> QED  BY <3>2, <3>4 DEF CountInv
  <2> QED  BY <2>3, <2>4
<1>6. CASE Closes
  <2>1. UNCHANGED serverVars /\ abandoned' = abandoned /\ line' \in {line, Quiet}
        /\ (line' = Quiet => line'.ans = NoAnswer) /\ (line' # line => line.ans = NoAnswer)
    BY <1>6 DEF Closes, Quiet
  <2>2. Executed("INITIATE") => Executed("INITIATE")'
    BY <1>1, <2>1 DEF Executed
  <2>3. Balance'
    BY <1>1, <1>2, <1>3, <2>1, <2>2, NoMoreOrphans DEF Late
  <2>4. \A m : Executed(m)' => Executed(m) /\ line'.ans = line.ans
    BY <1>1, <2>1 DEF Executed
  <2> QED  BY <1>1, <2>1, <2>3, <2>4 DEF CountInv, serverVars
<1> QED  BY <1>4, <1>5, <1>6, ServerKinds

LEMMA ClientCount ==
    ASSUME IsFiniteSet(Upload), WireInv, PlanInv, MoveInv, StoreInv, SentInv, UpInv, CountInv, Client
    PROVE  CountInv'
<1>1. Busy /\ UNCHANGED <<serverVars, last>> /\ Balance
  BY ClientKinds DEF CountInv
<1>2. line'.ans = NoAnswer
  BY ClientQuiet DEF Quiet
<1>3. line = Quiet => line.req = NoRequest /\ \A m : ~Executed(m)
  BY DEF Executed, Quiet
<1>4. line.req # NoRequest => line.req.m = Now.m
  BY DEF SentInv
<1>5. SUFFICES Balance'
  BY <1>2 DEF CountInv, Executed
<1>6. ASSUME h' = h, unsettled' = unsettled, Late' => Late, ~Executed("INITIATE") PROVE Balance'
  <2>1. Orphans' = Orphans
    BY <1>1, <1>6 DEF Orphans, serverVars
  <2> QED  BY <1>1, <1>6, <2>1, NoMoreOrphans
<1>7. CASE Waits
  BY <1>3, <1>6, <1>7 DEF Waits, Late
<1>8. CASE TurnsPage \/ Ends
  <2>1. Now.m # "INITIATE" /\ h' = h /\ unsettled' = unsettled /\ abandoned' = abandoned
    BY <1>8 DEF TurnsPage, Ends, Receive
  <2> QED  BY <1>6, <2>1 DEF Late, Executed
<1>9. CASE Repeats
  <2>1. Now.m # "INITIATE" /\ h' = h /\ unsettled' = unsettled
    BY <1>9 DEF Repeats, Idempotent
  <2>2. \A r \in abandoned' : r \in abandoned \/ (r = line.req /\ line.req # NoRequest)
    BY <1>9 DEF Repeats, HangUp
  <2>3. Late' => Late
    BY <1>4, <2>1, <2>2 DEF Late
  <2> QED  BY <1>6, <2>1, <2>3 DEF Executed
<1>10. CASE \E x : Moves(x)
  <2>1. PICK x : Moves(x)
    BY <1>10
  <2>2. unsettled' = unsettled /\ Late' = Late
    BY <2>1 DEF Moves, Late
  <2>3. CASE Orphans' \subseteq Orphans /\ Now.m # "INITIATE"
    BY <1>1, <2>2, <2>3, NoMoreOrphans DEF Executed
  <2>4. CASE Executed("INITIATE") /\ \E u \in Orphans : Orphans' \subseteq Orphans \ {u}
    BY <1>1, <2>2, <2>4, OneOrphanLess
  <2> QED  BY <1>1, <2>1, <2>3, <2>4, MoveOrphans
<1>11. CASE Fails
  <2>1. \A r \in abandoned' : r \in abandoned \/ (r = line.req /\ line.req # NoRequest)
    BY <1>11 DEF Fails, Leaves
  <2>2. Now.m # "INITIATE" => (Late' => Late) /\ ~Executed("INITIATE")
    BY <1>4, <2>1 DEF Late, Executed
  <2>3. Executed("INITIATE") \/ line = Quiet => (Late' => Late)
    BY <1>3, <1>11, <2>1 DEF Fails, Leaves, Late, Executed
  <2>4. \/ Orphans' \subseteq Orphans
        \/ Now.m = "ABORT" /\ \E u : Orphans' \subseteq Orphans \cup {u}
    BY <1>1, <1>11, FailOrphans DEF Fails
  <2>5. CASE unsettled' = unsettled /\ (Now.m \notin {"INITIATE", "ABORT"} \/ (line = Quiet /\ Now.m # "ABORT"))
    BY <1>1, <1>3, <2>2, <2>3, <2>4, <2>5, NoMoreOrphans
  <2>6. CASE /\ Now.m \in {"INITIATE", "ABORT"}
             /\ unsettled' = IF unsettled < Cardinality(Upload) THEN unsettled + 1 ELSE unsettled
    <3>1. \/ Orphans' \subseteq Orphans /\ (Executed("INITIATE") => (Late' => Late))
          \/ /\ \E u : Orphans' \subseteq Orphans \cup {u}
             /\ Late' => Late
             /\ ~Executed("INITIATE")
      BY <2>2, <2>3, <2>4, <2>6
    <3> QED  BY <1>1, <2>6, <3>1, OneOrphanMore
  <2>7. Settles
    BY <1>11 DEF Fails
  <2> QED  BY <2>5, <2>6, <2>7 DEF Settles, Unsettle
<1> QED  BY <1>7, <1>8, <1>9, <1>10, <1>11, ClientKinds

\* The caller gives up no upload that it has not aborted.
LEMMA CallerCount ==
    ASSUME IsFiniteSet(Upload), WireInv, MoveInv, StoreInv, UpInv, CountInv, Caller
    PROVE  CountInv'
<1>1. /\ line' = line /\ line = Quiet /\ abandoned' = {} /\ UNCHANGED <<serverVars, unsettled>>
      /\ Balance
  BY CallerKinds DEF CountInv
<1>2. \A m : ~Executed(m) /\ ~Executed(m)'
  BY <1>1 DEF Executed, Quiet
<1>3. ~Late'
  BY <1>1 DEF Late
<1>4. \A u \in Upload : uploads'[u] = uploads[u]
  BY <1>1 DEF serverVars
<1>5. Orphans' \subseteq Orphans
  <2>1. CASE h' = h
    BY <1>4, <2>1 DEF Orphans
  <2>2. ASSUME NEW c, Begins(c), h' # h PROVE Orphans' \subseteq Orphans
    <3>1. CASE c.op = "begin"
      BY <1>4, <2>2, <3>1 DEF Begins, Handled, Orphans
    <3>2. CASE c.op = "append"
      <4>1. h \in HandleType /\ h'.upload = h.upload /\ h' \in HandleType
        BY <2>2, <3>2 DEF Begins, Handled
      <4>2. h # NoHandle /\ h' # NoHandle
        BY <4>1, IsHandle
      <4> QED  BY <1>4, <4>1, <4>2 DEF Orphans
    <3>3. CASE c.op = "abort"
      <4>1. h' = NoHandle /\ Plan(c) = <<>>
        BY <2>2, <3>3 DEF Begins, Handled
      <4>2. proto # "webdav" => h.upload = NoUpload
        <5>1. proto # "webdav" => Plan(c) = IF h.upload # NoUpload THEN <<Step("ABORT", h.key)>> ELSE <<>>
          BY <3>3 DEF Plan, PlanS3
        <5> QED  BY <4>1, <5>1
      <4>3. proto = "webdav" => Orphans' = {}
        BY <1>4 DEF Orphans, UpInv
      <4> QED  BY <1>4, <4>2, <4>3, UploadAssumption DEF Orphans
    <3> QED  BY <2>2, <3>1, <3>2, <3>3 DEF Begins, Handled
  <2> QED  BY <2>1, <2>2, CallerKinds DEF Shuts
<1> QED  BY <1>1, <1>2, <1>3, <1>5, NoMoreOrphans DEF CountInv

LEMMA CountStep ==
    ASSUME IsFiniteSet(Upload), WireInv, PlanInv, StoresInv, ReqInv, UpInv, LateInv, CountInv,
           [Next]_vars
    PROVE  CountInv'
<1>1. MoveInv /\ StoreInv /\ SentInv
  BY DEF StoresInv
<1>2. CASE UNCHANGED vars
  BY <1>2 DEF vars, serverVars, netVars, exchangeVars, historyVars, CountInv, Balance, Orphans, Late,
              Executed, Busy, Now, Bit
<1> QED  BY <1>1, <1>2, CallerCount, ClientCount, ServerCount DEF Next

LEMMA InitCounts ==
    ASSUME IsFiniteSet(Upload), Init
    PROVE  /\ WireInv /\ PlanInv /\ OnceInv /\ HeldInv /\ SoundInv /\ StoresInv
           /\ ReqInv /\ UpInv /\ LateInv /\ CountInv
<1>1. /\ todo = <<>> /\ ~Busy /\ line = Quiet /\ line.req = NoRequest /\ line.ans = NoAnswer
      /\ abandoned = {} /\ h = NoHandle /\ Len(todo) = 0
  BY QuietReq DEF Init, Busy, Quiet
<1>2. UpInv
  BY <1>1 DEF Init, ServerInit, UpInv
<1>3. ReqInv /\ LateInv
  BY <1>1 DEF ReqInv, LateInv
<1>4. CountInv
  <2>1. Orphans = {} /\ ~Late /\ \A m : ~Executed(m)
    BY <1>1 DEF Init, ServerInit, Orphans, Late, Executed
  <2>2. Cardinality({}) = 0 /\ Cardinality(Upload) \in Nat
    BY FS_EmptySet, FS_CardinalityType
  <2>3. unsettled = 0
    BY DEF Init
  <2> QED  BY <2>1, <2>2, <2>3 DEF CountInv, Balance, Bit
<1> QED  BY <1>2, <1>3, <1>4, InitStores

\* s3_put_finish(), s3_put_abort(): between calls, the uploads on the server
\* that no handle names are no more than the initiations and aborts that went
\* wrong, however late these are carried out.
THEOREM NoUploadLost ==
    ASSUME IsFiniteSet(Upload)
    PROVE  Spec => []NoLostUpload
<1> DEFINE Inv == /\ WireInv /\ PlanInv /\ OnceInv /\ HeldInv /\ SoundInv /\ StoresInv
                  /\ ReqInv /\ UpInv /\ LateInv /\ CountInv
<1>1. Init => Inv
  BY InitCounts
<1>2. Inv /\ [Next]_vars => Inv'
  BY WireStep, OnceStep, SoundStep, StoresStep, ReqStep, UpStep, LateStep, CountStep DEF StoresInv
<1>3. Inv => NoLostUpload
  <2> SUFFICES ASSUME Inv, ~Busy
               PROVE  Cardinality((Upload \ FreeUploads) \ (IF h = NoHandle THEN {} ELSE {h.upload}))
                      <= unsettled
    BY DEF NoLostUpload
  <2>1. (Upload \ FreeUploads) \ (IF h = NoHandle THEN {} ELSE {h.upload}) = Orphans
    BY DEF FreeUploads, Orphans
  <2>2. Orphans \subseteq Upload
    BY DEF Orphans
  <2>3. IsFiniteSet(Orphans) /\ Cardinality(Orphans) <= Cardinality(Upload)
    BY <2>2, FS_Subset
  <2>4. Cardinality(Orphans) \in Nat /\ Cardinality(Upload) \in Nat
    BY <2>3, FS_CardinalityType
  <2>5. Balance /\ Bit(Late) \in Nat /\ Bit(Executed("INITIATE")) = 0
    BY DEF CountInv, Bit, Executed
  <2>6. Cardinality(Orphans) <= unsettled
    <3> DEFINE o == Cardinality(Orphans)
               c == Cardinality(Upload)
               l == Bit(Late)
    <3>1. /\ o \in Nat /\ c \in Nat /\ o <= c /\ l \in Nat /\ unsettled \in 0 .. c
          /\ unsettled < c => o + l <= unsettled
      BY <2>3, <2>4, <2>5 DEF Balance
    <3> HIDE DEF o, c, l
    <3>2. o <= unsettled
      BY <3>1
    <3> QED  BY <3>2 DEF o
  <2> QED  BY <2>1, <2>6
<1> QED  BY <1>1, <1>2, <1>3, PTL DEF Spec

-----------------------------------------------------------------------------
(* The connection in use.                                                  *)

\* A request that is sent again goes on a fresh connection; one that is sent on
\* a connection kept from before may be sent again.
ConnInv ==
    /\ attempt \in {0, 1} /\ (at = "top" => ~fresh)
    /\ Busy /\ at = "top" /\ attempt = 1 => conn = "none"
    /\ Busy /\ at # "top" /\ ~OwnStep(Now.m) =>
           IF fresh THEN conn = "open" ELSE attempt = 0 /\ Idempotent(Now.m)

\* The next exchange, or none.
LEMMA ConnFresh ==
    ASSUME at' = "top", attempt' = 0, ~fresh'
    PROVE  ConnInv'
BY DEF ConnInv

LEMMA ConnStep ==
    ASSUME WireInv, MoveInv, ConnInv, [Next]_vars PROVE ConnInv'
<1>1. ASSUME StepFails \/ (\E x : Advance(x)) \/ (\E r : Return(r)) PROVE ConnInv'
  BY <1>1, ConnFresh DEF StepFails, Advance, Return, Proceed
<1>2. CASE Caller
  <2>1. at = "top" /\ ~Busy
    BY <1>2 DEF Caller, Open, Close, Plain, PutBegin, PutAppend, PutFinish, PutAbort, Busy,
                WireInv
  <2>2. ASSUME NEW c, Ask(c) PROVE ConnInv'
    BY <2>2, ConnFresh DEF Ask, Proceed
  <2>3. CASE Close
    BY <2>1, <2>3 DEF Close, ConnInv, exchangeVars, Busy
  <2> QED  BY <1>2, <2>2, <2>3 DEF Caller, Open, Plain, PutBegin, PutAppend, PutFinish, PutAbort
<1>3. CASE Client
  <2>1. CASE Broken /\ Busy /\ (at = "recv" \/ ~OwnStep(Now.m))
    <3>1. CASE StepFails
      BY <1>1, <3>1
    <3>2. CASE ~StepFails
      <4>1. /\ Retries /\ at' = "top" /\ attempt' = 1 /\ fresh' = fresh
            /\ UNCHANGED <<todo, call>>
        BY <2>1, <3>2 DEF Broken
      <4>2. ~OwnStep(Now.m) => conn' = "none"
        BY <2>1 DEF Broken, HangUp
      <4>3. OwnStep(Now.m) => fresh
        BY <2>1 DEF MoveInv, ReadyInv, WireInv, OwnStep
      <4> QED  BY <4>1, <4>2, <4>3 DEF ConnInv, Retries
    <3> QED  BY <3>1, <3>2
  <2>2. CASE ForceFresh \/ Connect \/ Reuse
    BY <2>2 DEF ForceFresh, Connect, Reuse, OnKept, ConnInv, Busy, Now, exchangeVars, netVars
  <2>3. CASE Send \/ EndBody
    BY <2>3 DEF Send, EndBody, OnKept, OwnStep, ConnInv, Busy, Now
  <2>4. CASE SendFails \/ NoAnswerComes \/ Lose
    <3>1. Broken /\ Busy /\ (at = "recv" \/ ~OwnStep(Now.m))
      BY <2>4 DEF SendFails, NoAnswerComes, Lose, OnKept
    <3> QED  BY <2>1, <3>1
  <2>5. CASE LeftOver
    <3>1. Busy /\ at = "recv" /\ (Broken \/ StepFails)
      BY <2>5 DEF LeftOver, OnKept
    <3> QED  BY <1>1, <2>1, <3>1
  <2>6. CASE ConnectFails \/ Garbled \/ Rejected \/ DialFails \/ ChunkFails \/ EndBodyFails
    BY <1>1, <2>6 DEF ConnectFails, Garbled, Rejected, DialFails, ChunkFails, EndBodyFails
  <2>7. CASE GoOn \/ GotUpload \/ GotETag \/ Dial \/ SendChunk
    BY <1>1, <2>7 DEF GoOn, GotUpload, GotETag, Dial, SendChunk
  <2>8. CASE GotContent \/ NotThere
    BY <1>1, <2>8 DEF GotContent, NotThere
  <2>9. CASE GotPage
    BY <1>1, <2>9, ConnFresh DEF GotPage, Proceed
  <2> QED  BY <1>3, <2>2, <2>3, <2>4, <2>5, <2>6, <2>7, <2>8, <2>9 DEF Client
<1>4. CASE Server
  <2>1. UNCHANGED <<todo, call, at, fresh, attempt>>
    BY <1>4, ServerKeeps
  <2>2. conn' = conn \/ (conn = "open" /\ ~(Busy /\ fresh))
    BY <1>4 DEF Server, Serve, ServeBadly, ServeLate, IdleClose, Answer
  <2> QED  BY <2>1, <2>2 DEF ConnInv, Busy, Now
<1>5. CASE UNCHANGED vars
  BY <1>5 DEF vars, netVars, exchangeVars, ConnInv, Busy, Now
<1> QED  BY <1>2, <1>3, <1>4, <1>5 DEF Next

-----------------------------------------------------------------------------
(* Collections.                                                            *)

\* The collection t is made in is what s makes.
Leads(s, t) == s.m = "MKCOL" /\ t.path # <<>> /\ Front(t.path) = s.path

LEMMA WalkLeads ==
    ASSUME NEW k \in Seq(Name)
    PROVE  /\ WalkTo(k)[1] = <<>> /\ WalkTo(k)[Len(k) + 1] = k
           /\ \A n \in 1 .. Len(k) : WalkTo(k)[n + 1] # <<>> /\ Front(WalkTo(k)[n + 1]) = WalkTo(k)[n]
<1>1. \A n \in 1 .. Len(k) + 1 : WalkTo(k)[n] = SubSeq(k, 1, n - 1)
  BY DEF WalkTo
<1>2. WalkTo(k)[1] = <<>>
  BY <1>1, SubSeqEmpty
<1>3. WalkTo(k)[Len(k) + 1] = k
  <2>1. SubSeq(k, 1, Len(k)) = k
    OBVIOUS
  <2> QED  BY <1>1, <2>1
<1>4. ASSUME NEW n \in 1 .. Len(k)
      PROVE  WalkTo(k)[n + 1] # <<>> /\ Front(WalkTo(k)[n + 1]) = WalkTo(k)[n]
  <2> DEFINE s == SubSeq(k, 1, n)
             t == SubSeq(k, 1, n - 1)
  <2>1. WalkTo(k)[n + 1] = s /\ WalkTo(k)[n] = t
    BY <1>1
  <2>2. s \in Seq(Name) /\ Len(s) = n /\ (\A i \in 1 .. n : s[i] = k[i])
    BY SubSeqProperties
  <2>3. t \in Seq(Name) /\ Len(t) = n - 1 /\ (\A i \in 1 .. n - 1 : t[i] = k[i])
    <3>1. CASE n = 1
      BY <3>1, SubSeqEmpty
    <3>2. CASE n # 1
      BY <3>2, SubSeqProperties
    <3> QED  BY <3>1, <3>2
  <2> HIDE DEF s, t
  <2>4. s # <<>>
    BY <2>2
  <2>5. Front(s) \in Seq(Name) /\ Len(Front(s)) = n - 1
    BY <2>2, <2>4, FrontType
  <2>6. \A i \in 1 .. n - 1 : Front(s)[i] = s[i]
    BY <2>2 DEF Front
  <2>7. \A i \in 1 .. n - 1 : Front(s)[i] = t[i]
    BY <2>2, <2>3, <2>6
  <2>8. Front(s) = t
    BY <2>3, <2>5, <2>7
  <2> QED  BY <2>1, <2>4, <2>8
<1> QED  BY <1>2, <1>3, <1>4

\* A plan of WebDAV starts at the base path or directly below it, and makes each
\* collection in the one before.
Walks(p) ==
    /\ p # <<>> => p[1].path = <<>> \/ Front(p[1].path) = <<>>
    /\ \A n \in 1 .. Len(p) - 1 : Leads(p[n], p[n + 1])

LEMMA ParentsWalk ==
    ASSUME NEW k \in Seq(Name), k # <<>>, NEW m \in Methods
    PROVE  Walks(Parents(k) \o <<Step(m, k)>>)
<1>1. CASE Len(k) = 1
  <2>1. Parents(k) \o <<Step(m, k)>> = <<Step(m, k)>>
    BY <1>1, Joins DEF Parents
  <2>2. Front(k) \in Seq(Name) /\ Len(Front(k)) = 0
    BY <1>1, FrontType
  <2>3. Front(k) = <<>>
    BY <2>2
  <2> QED  BY <2>1, <2>3 DEF Walks, Step
<1>2. CASE Len(k) # 1
  <2> DEFINE f == Front(k)
             q == Parents(k)
             s == <<Step(m, k)>>
             p == q \o s
  <2>1. f \in Seq(Name) /\ Len(f) + 1 = Len(k) /\ Len(k) \in Nat
    BY FrontType
  <2>2. q = [n \in 1 .. Len(k) |-> Step("MKCOL", WalkTo(f)[n])]
    BY <1>2 DEF Parents
  <2>3. q \in Seq(Steps) /\ Len(q) = Len(k) /\ s \in Seq(Steps) /\ Len(s) = 1
    BY <2>1, <2>2, ParentsType, StepType
  <2>4. /\ WalkTo(f)[1] = <<>> /\ WalkTo(f)[Len(k)] = f
        /\ \A n \in 1 .. Len(k) - 1 : WalkTo(f)[n + 1] # <<>> /\ Front(WalkTo(f)[n + 1]) = WalkTo(f)[n]
    BY <2>1, WalkLeads
  <2>5. \A n \in 1 .. Len(k) : q[n].m = "MKCOL" /\ q[n].path = WalkTo(f)[n]
    BY <2>2 DEF Step
  <2>6. s[1].path = k
    BY DEF Step
  <2> HIDE DEF f, q, s
  <2>7. /\ Len(p) = Len(k) + 1 /\ p[Len(k) + 1] = s[1]
        /\ \A n \in 1 .. Len(k) : p[n] = q[n]
    <3>1. \A n \in 1 .. Len(k) + 1 : p[n] = IF n <= Len(k) THEN q[n] ELSE s[n - Len(k)]
      <4>1. \A n \in 1 .. Len(q) + Len(s) : p[n] = IF n <= Len(q) THEN q[n] ELSE s[n - Len(q)]
        BY <2>3, ConcatProperties
      <4> QED  BY <2>1, <2>3, <4>1
    <3>2. Len(p) = Len(k) + 1
      <4>1. Len(p) = Len(q) + Len(s)
        BY <2>3, ConcatProperties
      <4> HIDE DEF p
      <4> QED  BY <2>3, <4>1
    <3> QED  BY <2>1, <3>1, <3>2
  <2>8. p[1].path = <<>>
    <3>1. 1 \in 1 .. Len(k)
      BY <2>1
    <3> QED  BY <2>4, <2>5, <2>7, <3>1
  <2>9. ASSUME NEW n \in 1 .. Len(p) - 1 PROVE Leads(p[n], p[n + 1])
    <3> HIDE DEF p
    <3>1. n \in 1 .. Len(k) /\ p[n].m = "MKCOL" /\ p[n].path = WalkTo(f)[n]
      BY <2>1, <2>5, <2>7
    <3>2. CASE n = Len(k)
      <4>1. p[n + 1].path = k /\ p[n].path = f
        BY <2>4, <2>6, <2>7, <3>1, <3>2
      <4> QED  BY <3>1, <4>1 DEF Leads, f
    <3>3. CASE n # Len(k)
      <4>1. n \in 1 .. Len(k) - 1 /\ n + 1 \in 1 .. Len(k)
        BY <2>1, <3>1, <3>3
      <4>2. p[n + 1].path = WalkTo(f)[n + 1]
        BY <2>5, <2>7, <4>1
      <4> QED  BY <2>4, <3>1, <4>1, <4>2 DEF Leads
    <3> QED  BY <3>2, <3>3
  <2> QED  BY <2>8, <2>9 DEF Walks, q, s
<1> QED  BY <1>1, <1>2

LEMMA WebdavWalks ==
    ASSUME NEW c, Callable(c), c.op # "finish", c.op # "append"
    PROVE  Walks(PlanWebdav(c)) \/ c.op \in {"get", "exists", "remove", "list"}
<1>1. CASE c.op \in {"put", "begin"}
  <2>1. Walks(Parents(c.key) \o <<Step("PUT", c.key)>>)
        /\ Walks(Parents(c.key) \o <<Step("DIAL", c.key)>>)
    BY <1>1, ParentsWalk DEF Callable, Methods
  <2> QED  BY <1>1, <2>1 DEF PlanWebdav
<1>2. CASE c.op = "mkcol"
  <2> DEFINE k == c.key
             p == [n \in 1 .. Len(k) + 1 |-> Step("MKCOL", WalkTo(k)[n])]
  <2>1. k \in Seq(Name) /\ Len(k) \in Nat /\ PlanWebdav(c) = p
    BY <1>2 DEF Callable, PlanWebdav
  <2>2. \A n \in 1 .. Len(k) + 1 : p[n].m = "MKCOL" /\ p[n].path = WalkTo(k)[n]
    BY DEF Step
  <2>3. Len(p) = Len(k) + 1
    BY <2>1
  <2> HIDE DEF k, p
  <2>4. p[1].path = <<>>
    <3>1. 1 \in 1 .. Len(k) + 1
      BY <2>1
    <3> QED  BY <2>1, <2>2, <3>1, WalkLeads
  <2>5. ASSUME NEW n \in 1 .. Len(p) - 1 PROVE Leads(p[n], p[n + 1])
    <3>1. n \in 1 .. Len(k) /\ n + 1 \in 1 .. Len(k) + 1 /\ n \in 1 .. Len(k) + 1
      BY <2>1, <2>3
    <3> QED  BY <2>1, <2>2, <3>1, WalkLeads DEF Leads
  <2> QED  BY <2>1, <2>4, <2>5 DEF Walks
<1>3. CASE c.op \notin {"put", "begin", "mkcol", "get", "exists", "remove", "list"}
  <2>1. PlanWebdav(c) \in {<<Step("MKCOL", <<>>)>>, <<>>}
    BY <1>3 DEF PlanWebdav
  <2> QED  BY <2>1 DEF Walks, Step
<1> QED  BY <1>1, <1>2, <1>3

\* WebDAV: once the backend is open the base path is there, and what is made or
\* stored next has the collection it belongs in.
ColsInv ==
    proto = "webdav" =>
        /\ call # Closed /\ call.op # "open" => <<>> \in cols
        /\ Busy /\ call.op = "open" => todo = <<Step("MKCOL", <<>>)>>
        /\ Busy /\ Now.m \in {"MKCOL", "PUT", "DIAL", "STREAM"} => CanCreate(Now.path)
        /\ \A n \in 1 .. Len(todo) - 1 : Leads(todo[n], todo[n + 1])
        /\ h # NoHandle => CanCreate(h.key)
        /\ line.ans # NoAnswer /\ Now.m = "MKCOL" /\ line.ans.st \in {"ok", "exists"} =>
               Now.path \in cols

\* Collections are never removed, and one that can be made is there when its
\* request has been carried out.
LEMMA ExecuteCols ==
    ASSUME NEW r, Execute(r)
    PROVE  /\ cols \subseteq cols' /\ proto' = proto
           /\ r.m = "MKCOL" /\ CanCreate(r.path) => r.path \in cols'
BY DEF Execute, StatusOf

LEMMA CallerCols ==
    ASSUME WireInv, PlanInv, MoveInv, ColsInv, Caller, proto = "webdav"
    PROVE  ColsInv'
<1>1. /\ ~Busy /\ line' = line /\ line.ans = NoAnswer /\ UNCHANGED serverVars
      /\ todo = <<>>
  BY CallerKinds DEF Quiet, MoveInv, CallInv
<1>2. UNCHANGED <<cols, proto>> /\ \A p : CanCreate(p)' = CanCreate(p)
  BY <1>1 DEF serverVars, CanCreate
<1>3. CASE Shuts
  <2>1. call' = Closed /\ ~Busy' /\ todo' = <<>> /\ h' = h
    BY <1>1, <1>3 DEF Shuts, Busy
  <2> QED  BY <1>1, <1>2, <2>1 DEF ColsInv
<1>4. ASSUME NEW c, Begins(c) PROVE ColsInv'
  <2>1. Callable(c) /\ Ask(c) /\ Handled(c)
    BY <1>4 DEF Begins
  <2>2. c.op # "open" => <<>> \in cols
    BY <1>4 DEF Begins, ColsInv, Idle, Closed
  <2>3. h' # NoHandle => CanCreate(h'.key)
    <3>1. \A x \in HandleType : x # NoHandle
      BY IsHandle
    <3> QED  BY <2>1, <3>1 DEF Handled, ColsInv
  <2>4. CASE Plan(c) = <<>>
    <3>1. ~Busy' /\ todo' = <<>>
      BY <2>1, <2>4 DEF Ask, Proceed, Busy
    <3>2. c.op # "open"
      BY <2>4 DEF Plan, PlanWebdav
    <3> QED  BY <1>1, <1>2, <2>2, <2>3, <3>1, <3>2 DEF ColsInv
  <2>5. CASE Plan(c) # <<>>
    <3>1. call' = c /\ todo' = PlanWebdav(c) /\ todo' # <<>> /\ Now' = todo'[1]
      BY <2>1, <2>5, LastIs DEF Plan, Now
    <3>2. c.op = "open" => PlanWebdav(c) = <<Step("MKCOL", <<>>)>>
      BY DEF PlanWebdav
    <3>3. CASE Walks(PlanWebdav(c))
      <4>1. CanCreate(Now'.path)
        BY <2>2, <3>1, <3>2, <3>3 DEF Walks, CanCreate, Step
      <4> QED  BY <1>1, <1>2, <2>2, <2>3, <3>1, <3>2, <3>3, <4>1 DEF ColsInv, Walks
    <3>4. CASE c.op \in {"get", "exists", "remove", "list", "finish", "append"}
      <4>1. \E m, p : todo' = <<Step(m, p)>> /\ m \in {"GET", "EXISTS", "DELETE", "LIST", "CHUNK", "STREAM"}
                       /\ (m = "STREAM" => p = h'.key /\ h' # NoHandle)
        <5>1. \A x \in HandleType : x # NoHandle
          BY IsHandle
        <5>2. CASE c.op \in {"get", "exists", "remove", "list"}
          <6>1. todo' \in {<<Step("GET", c.key)>>, <<Step("EXISTS", c.key)>>,
                            <<Step("DELETE", c.key)>>, <<Step("LIST", c.key)>>}
            BY <3>1, <5>2 DEF PlanWebdav
          <6> QED  BY <6>1
        <5>3. CASE c.op = "append"
          BY <3>1, <5>3 DEF PlanWebdav
        <5>4. CASE c.op = "finish"
          BY <2>1, <3>1, <5>1, <5>4 DEF PlanWebdav, Handled
        <5> QED  BY <3>4, <5>2, <5>3, <5>4
      <4>2. PICK m, p : /\ todo' = <<Step(m, p)>>
                        /\ m \in {"GET", "EXISTS", "DELETE", "LIST", "CHUNK", "STREAM"}
                        /\ m = "STREAM" => p = h'.key /\ h' # NoHandle
        BY <4>1
      <4>3. Now'.m = m /\ Now'.path = p /\ Len(todo') = 1
        BY <3>1, <4>2 DEF Step
      <4> QED  BY <1>1, <1>2, <2>2, <2>3, <3>1, <3>4, <4>2, <4>3 DEF ColsInv
    <3> QED  BY <2>1, <3>3, <3>4, WebdavWalks
  <2> QED  BY <2>4, <2>5
<1> QED  BY <1>3, <1>4, CallerKinds

\* What is done next after a step that is done.
LEMMA NextStep ==
    ASSUME PlanInv, Busy, todo' = Tail(todo), Len(todo) > 1
    PROVE  /\ Len(todo) \in Nat /\ Len(todo') = Len(todo) - 1 /\ todo' # <<>>
           /\ Now' = todo[2] /\ Now = todo[1]
           /\ \A n \in 1 .. Len(todo') : todo'[n] = todo[n + 1]
           /\ \A n \in 1 .. Len(todo') : n + 1 \in 1 .. Len(todo)
<1>1. /\ Len(todo) \in Nat /\ Len(todo') = Len(todo) - 1 /\ Now = todo[1]
      /\ \A n \in 1 .. Len(todo) - 1 : todo'[n] = todo[n + 1]
  BY HeadTail
<1>2. Len(todo') \in Nat /\ 1 \in 1 .. Len(todo) - 1 /\ todo'[1] = todo[2]
  <2>1. 1 \in 1 .. Len(todo) - 1 /\ 1 + 1 = 2 /\ Len(todo) - 1 \in Nat
    BY <1>1
  <2> QED  BY <1>1, <2>1
<1>3. todo' # <<>>
  <2>1. Len(todo') # 0
    BY <1>1
  <2>2. Len(<<>>) = 0
    OBVIOUS
  <2> QED  BY <2>1, <2>2
<1>4. Now' = todo'[1]
  BY <1>3 DEF Now
<1> QED  BY <1>1, <1>2, <1>3, <1>4

LEMMA ClientCols ==
    ASSUME WireInv, PlanInv, MoveInv, SoundInv, ColsInv, Client, proto = "webdav"
    PROVE  ColsInv'
<1>1. /\ Busy /\ UNCHANGED serverVars /\ line'.ans = NoAnswer
  BY ClientKinds, ClientQuiet DEF Quiet
<1>2. UNCHANGED <<cols, proto>> /\ \A p : CanCreate(p)' = CanCreate(p)
  BY <1>1 DEF serverVars, CanCreate
<1>3. /\ Goes(Now, Len(todo) = 1) /\ Now \in Steps
      /\ call.op # "open" => <<>> \in cols
      /\ call.op = "open" => Now.m = "MKCOL" /\ Now.path = <<>> /\ Len(todo) = 1
  <2>1. call.op = "open" => todo = <<Step("MKCOL", <<>>)>>
    BY <1>1, <1>2 DEF ColsInv
  <2> QED  BY <1>1, <1>2, <2>1, NowGoes DEF ColsInv, Now, Step, Busy
<1>4. CASE Waits \/ TurnsPage \/ Repeats
  <2>1. UNCHANGED <<todo, call, h>> /\ Busy' = Busy /\ Now' = Now
    BY <1>4 DEF Waits, TurnsPage, Repeats, Busy, Now
  <2> QED  BY <1>1, <1>2, <2>1 DEF ColsInv
<1>5. ASSUME todo' = <<>>, call' \in {Idle, Closed}, call' = Idle => <<>> \in cols,
             h' # NoHandle => CanCreate(h'.key)
      PROVE  ColsInv'
  <2>1. ~Busy'
    BY <1>5 DEF Busy
  <2> QED  BY <1>1, <1>2, <1>5, <2>1 DEF ColsInv
<1>6. CASE Fails
  <2>1. CASE Now.m = "ABORT"
    <3>1. Advance(h) /\ Len(todo) = 1 /\ call.op \in {"abort", "finish"}
      BY <1>3, <1>6, <2>1 DEF Fails, StepFails, Goes
    <3>2. todo' = <<>> /\ call' = Idle /\ h' \in {h, NoHandle}
      BY <3>1 DEF Advance, Return, Proceed
    <3> QED  BY <1>2, <1>3, <1>5, <3>1, <3>2 DEF ColsInv
  <2>2. CASE Now.m # "ABORT"
    <3>1. /\ Return(Said("error"))
          /\ h' = CASE call.op = "append" -> [h EXCEPT !.failed = TRUE]
                     [] call.op = "finish" -> NoHandle
                     [] OTHER -> h
      BY <1>6, <2>2 DEF Fails, StepFails, AbortsOnFailure
    <3>2. todo' = <<>> /\ call' \in {Idle, Closed} /\ (call' = Idle => call.op # "open")
      BY <3>1 DEF Return, Proceed, Idle, Closed
    <3>3. h' # NoHandle => CanCreate(h'.key)
      <4>1. call.op = "append" => h # NoHandle
        BY <1>1 DEF MoveInv, CallInv
      <4>2. [h EXCEPT !.failed = TRUE].key = h.key
        BY DEF PlanInv
      <4> QED  BY <1>2, <3>1, <4>1, <4>2 DEF ColsInv
    <3> QED  BY <1>3, <1>5, <3>2, <3>3
  <2> QED  BY <2>1, <2>2
<1>7. CASE Ends
  <2>1. todo' = <<>> /\ call' \in {Idle, Closed} /\ h' = h /\ call.op # "open"
    BY <1>3, <1>7 DEF Ends, Return, Proceed
  <2> QED  BY <1>2, <1>3, <1>5, <2>1 DEF ColsInv
<1>8. ASSUME NEW x, Moves(x) PROVE ColsInv'
  <2>1. x # NoHandle => CanCreate(x.key)
    <3>1. Now.m \notin {"INITIATE", "PART"}
      BY <1>3 DEF Goes
    <3>2. x = NewHandle(Now.path, call.data) => x.key = Now.path
      BY DEF NewHandle
    <3> QED  BY <1>1, <1>2, <1>8, <3>1, <3>2 DEF Moves, Brings, ColsInv
  <2>2. Now.m = "MKCOL" => Now.path \in cols
    <3>1. Now.m = "MKCOL" => line.ans # NoAnswer /\ line.ans.st \in {"ok", "exists"}
      BY <1>8 DEF Moves, Brings, Accepts
    <3> QED  BY <3>1 DEF ColsInv
  <2>3. h' # NoHandle => CanCreate(h'.key)
    BY <1>8, <2>1 DEF Moves, Advance
  <2>4. CASE Len(todo) = 1
    <3>1. todo' = <<>> /\ call' \in {Idle, Closed}
      BY <1>8, <2>4 DEF Moves, Advance, Return, Proceed
    <3> QED  BY <1>2, <1>3, <1>5, <2>2, <2>3, <3>1
  <2>5. CASE Len(todo) # 1
    <3>1. todo' = Tail(todo) /\ Len(todo) > 1 /\ call' = call
      BY <1>8, <2>5 DEF Moves, Advance, Proceed
    <3>2. /\ \A n \in 1 .. Len(todo') - 1 : n + 1 \in 1 .. Len(todo) - 1 /\ n \in 1 .. Len(todo') /\ n + 1 \in 1 .. Len(todo')
          /\ 1 \in 1 .. Len(todo) - 1
      BY <1>1, <3>1, NextStep
    <3>3. \A n \in 1 .. Len(todo') - 1 : Leads(todo'[n], todo'[n + 1])
      BY <1>1, <3>1, <3>2, NextStep DEF ColsInv
    <3>4. Leads(Now, Now') /\ Now.m = "MKCOL"
      <4>1. Leads(todo[1], todo[1 + 1])
        BY <3>2 DEF ColsInv
      <4> QED  BY <1>1, <3>1, <4>1, NextStep DEF Leads
    <3>5. CanCreate(Now'.path)
      BY <2>2, <3>4 DEF Leads, CanCreate
    <3>6. call.op # "open"
      BY <1>3, <2>5
    <3> QED  BY <1>1, <1>2, <2>3, <3>1, <3>3, <3>5, <3>6 DEF ColsInv
  <2> QED  BY <2>4, <2>5
<1> QED  BY <1>4, <1>6, <1>7, <1>8, ClientKinds

LEMMA ServerCols ==
    ASSUME WireInv, PlanInv, SentInv, ColsInv, Server, proto = "webdav"
    PROVE  ColsInv'
<1>1. UNCHANGED <<todo, call, h>> /\ Busy' = Busy /\ Now' = Now
  BY ServerKeeps
<1>2. ASSUME cols \subseteq cols', proto' = proto,
             line'.ans # NoAnswer /\ Now.m = "MKCOL" /\ line'.ans.st \in {"ok", "exists"} =>
                 Now.path \in cols'
      PROVE  ColsInv'
  <2>1. \A p : CanCreate(p) => CanCreate(p)'
    BY <1>2 DEF CanCreate
  <2> QED  BY <1>1, <1>2, <2>1 DEF ColsInv
<1>3. ASSUME NEW b, Answers(b) PROVE ColsInv'
  <2>1. line.req # NoRequest /\ line'.ans = b
    BY <1>3 DEF Answers, Unserved
  <2>2. Busy /\ line.req.m = Now.m /\ line.req.path = Now.path
    BY <2>1 DEF SentInv
  <2>3. cols \subseteq cols' /\ proto' = proto
    BY <1>3, ExecuteCols DEF Answers, Answered, serverVars
  <2>4. Now.m = "MKCOL" /\ b.st \in {"ok", "exists"} => Now.path \in cols'
    <3>1. Now.m = "MKCOL" => CanCreate(Now.path)
      BY <2>2 DEF ColsInv
    <3>2. Now.m = "MKCOL" /\ b.st \in {"ok", "exists"} => Execute(line.req)
      BY <1>3, <2>2 DEF Answers, Answered
    <3> QED  BY <2>2, <3>1, <3>2, ExecuteCols
  <2> QED  BY <1>2, <2>1, <2>3, <2>4
<1>4. ASSUME NEW r, Lingers(r) PROVE ColsInv'
  <2>1. cols \subseteq cols' /\ proto' = proto /\ line' = line
    BY <1>4, ExecuteCols DEF Lingers
  <2> QED  BY <1>2, <2>1 DEF ColsInv
<1>5. CASE Closes
  BY <1>2, <1>5 DEF Closes, serverVars, Quiet, ColsInv
<1> QED  BY <1>3, <1>4, <1>5, ServerKinds

LEMMA ColsStep ==
    ASSUME WireInv, PlanInv, SoundInv, StoresInv, ColsInv, [Next]_vars
    PROVE  ColsInv'
<1>1. CASE proto # "webdav"
  <2>1. proto' = proto
    BY CallerKinds, ClientKinds, ServerAsked DEF Next, vars, serverVars, StoresInv
  <2> QED  BY <1>1, <2>1 DEF ColsInv
<1>2. CASE UNCHANGED vars
  BY <1>2 DEF vars, serverVars, netVars, exchangeVars, ColsInv, Busy, Now, CanCreate
<1> QED  BY <1>1, <1>2, CallerCols, ClientCols, ServerCols DEF StoresInv, Next

-----------------------------------------------------------------------------
(* Types.                                                                  *)

\* A request that is made: an upload is started for a key.
Asked(r) == r \in RequestType /\ (r.m = "INITIATE" => r.path \in Key)

UploadType == [key : Key, parts : Seq(Seq(Chunk))]

\* What is on the way and on the server is typed.
NetInv ==
    /\ uploads \in [Upload -> UploadType \cup {NoUpload}]
    /\ line.req # NoRequest => Asked(line.req)
    /\ \A r \in abandoned : Asked(r)
    /\ line.ans \in AnswerType \cup {NoAnswer}
    /\ token \subseteq Name /\ body \in Seq(Chunk)
    /\ Busy /\ call.op = "append" => call.data \in Seq(Chunk)

LEMMA RequestAsked ==
    ASSUME PlanInv, MoveInv, StoreInv, UpInv, NetInv, Busy, Now.m \notin {"DIAL", "CHUNK"}
    PROVE  Asked(Request)
<1>1. /\ Goes(Now, Len(todo) = 1) /\ Now \in Steps
      /\ call.op \in {"append", "finish", "abort"} => h # NoHandle
  BY NowGoes DEF MoveInv, CallInv
<1>2. h # NoHandle => h \in HandleType
  BY DEF MoveInv, HandleInv, Holds
<1>3. call.op = "put" => call.data \in Seq(Chunk)
  BY LastType, ContentAssumption DEF MoveInv, CallInv
<1> DEFINE data == CASE Now.m = "STREAM" -> body
                     [] Now.m \in {"PUT", "PART"} -> IF call.op = "put" THEN call.data ELSE h.body
                     [] OTHER -> <<>>
           up == IF h = NoHandle THEN NoUpload ELSE h.upload
           n == IF Now.m = "PART" THEN Len(h.etags) + 1 ELSE 0
           etags == IF Now.m = "COMPLETE" THEN h.etags ELSE <<>>
           tok == IF Now.m = "LIST" THEN token ELSE {}
<1>4. data \in Seq(Chunk)
  <2>1. Now.m \in {"PUT", "PART"} => call.op \in {"put", "append", "finish"}
    BY <1>1 DEF Goes
  <2>2. Now.m \in {"PUT", "PART"} /\ call.op # "put" => h.body \in Seq(Chunk)
    BY <1>1, <1>2, <2>1, IsHandle
  <2>3. <<>> \in Seq(Chunk)
    OBVIOUS
  <2> QED  BY <1>3, <2>2, <2>3 DEF NetInv
<1>5. up \in Upload \cup {NoUpload}
  BY <1>2, IsHandle
<1>6. n \in Nat /\ etags \in Seq(Seq(Chunk))
  <2>1. Now.m \in {"PART", "COMPLETE"} => h.etags \in Seq(Seq(Chunk))
    BY <1>1, <1>2, IsHandle DEF Goes
  <2>2. <<>> \in Seq(Seq(Chunk))
    OBVIOUS
  <2> QED  BY <2>1, <2>2
<1>7. tok \in SUBSET Name
  BY DEF NetInv
<1>8. Now.m \in {"MKCOL", "PUT", "STREAM", "GET", "EXISTS", "DELETE", "LIST", "INITIATE",
                 "PART", "COMPLETE", "ABORT"} /\ Now.path \in Seq(Name)
  BY <1>1 DEF Steps, Methods
<1>9. Now.m = "INITIATE" => Now.path \in Key
  <2>1. Now = todo[1] /\ 1 \in 1 .. Len(todo)
    BY HeadTail
  <2> QED  BY <2>1 DEF UpInv
<1>10. Request = [m |-> Now.m, path |-> Now.path, data |-> data, up |-> up, n |-> n,
                  etags |-> etags, tok |-> tok]
  BY DEF Request
<1> HIDE DEF data, up, n, etags, tok
<1> QED  BY <1>4, <1>5, <1>6, <1>7, <1>8, <1>9, <1>10 DEF Asked, RequestType, Method

LEMMA Answerable ==
    ASSUME IsFiniteSet(Name), HeldInv, StoreInv, NEW r, Asked(r),
           r.m = "GET" => r.path \in Key
    PROVE  AnswerTo(r) \in AnswerType
<1>1. r.path \in Seq(Name) /\ r.data \in Seq(Chunk) /\ r \in RequestType
  BY DEF Asked, RequestType, Method
<1>2. StatusOf(r) \in {"ok", "missing", "exists", "error", "unfinished"}
  BY DEF StatusOf, Asked, RequestType, Method
<1>3. r.m = "GET" /\ StatusOf(r) = "ok" => store[r.path] \in Seq(Chunk)
  BY ContentAssumption DEF StatusOf, StoreInv
<1>4. FreeUploads # {} => FreeUpload \in Upload
  BY DEF FreeUploads, FreeUpload
<1>5. Page(r) \subseteq Name
  BY <1>1, PageIsPart DEF HeldInv
<1> QED  BY <1>1, <1>2, <1>3, <1>4, <1>5 DEF AnswerTo, AnswerType

LEMMA ExecuteTypes ==
    ASSUME NetInv, NEW r, Asked(r), Execute(r)
    PROVE  uploads' \in [Upload -> UploadType \cup {NoUpload}]
<1>1. uploads \in [Upload -> UploadType \cup {NoUpload}]
  BY DEF NetInv
<1>2. CASE StatusOf(r) # "ok" \/ r.m \notin {"INITIATE", "PART", "COMPLETE", "ABORT"}
  BY <1>1, <1>2 DEF Execute
<1>3. CASE r.m = "INITIATE"
  <2>1. <<>> \in Seq(Seq(Chunk))
    OBVIOUS
  <2>2. [key |-> r.path, parts |-> <<>>] \in UploadType
    BY <1>3, <2>1 DEF Asked, UploadType
  <2> QED  BY <1>1, <1>3, <2>2, ExecuteUploads DEF FreeUploads
<1>4. CASE r.m = "PART" /\ StatusOf(r) = "ok"
  <2> DEFINE p == uploads[r.up].parts
             q == IF r.n \in DOMAIN p THEN [p EXCEPT ![r.n] = r.data] ELSE Append(p, r.data)
  <2>1. r.up \in Upload /\ uploads[r.up] # NoUpload
    BY <1>4 DEF StatusOf
  <2>2. uploads[r.up] \in UploadType
    BY <1>1, <2>1
  <2>3. p \in Seq(Seq(Chunk)) /\ r.data \in Seq(Chunk)
    BY <2>2 DEF UploadType, Asked, RequestType, Method
  <2>4. q \in Seq(Seq(Chunk))
    <3> DEFINE S == Seq(Chunk)
    <3> HIDE DEF S, p
    <3>1. p \in Seq(S) /\ r.data \in S
      BY <2>3 DEF S
    <3>2. r.n \in DOMAIN p => [p EXCEPT ![r.n] = r.data] \in Seq(S)
      BY <3>1, ExceptSeq
    <3>3. Append(p, r.data) \in Seq(S)
      BY <3>1
    <3> QED  BY <3>2, <3>3 DEF S
  <2>5. uploads' = [uploads EXCEPT ![r.up].parts = q]
    BY <1>4 DEF Execute
  <2> HIDE DEF p, q
  <2>6. [uploads[r.up] EXCEPT !.parts = q] \in UploadType
    BY <2>2, <2>4 DEF UploadType
  <2> QED  BY <1>1, <2>1, <2>5, <2>6
<1>5. CASE r.m \in {"COMPLETE", "ABORT"} /\ StatusOf(r) = "ok"
  BY <1>1, <1>5 DEF Execute
<1> QED  BY <1>2, <1>3, <1>4, <1>5

LEMMA ClientNet ==
    ASSUME WireInv, PlanInv, MoveInv, StoreInv, UpInv, NetInv, Client
    PROVE  NetInv'
<1>1. Busy /\ UNCHANGED serverVars /\ uploads' = uploads
  BY ClientKinds DEF serverVars
<1>2. (line'.req # NoRequest => Asked(line'.req)) /\ line'.ans = NoAnswer
  <2>1. Send \/ EndBody => Now.m \notin {"DIAL", "CHUNK"}
    BY DEF Send, EndBody, OnKept, OwnStep
  <2> QED  BY <1>1, <2>1, RequestAsked, ClientQuiet DEF Quiet
<1>3. \A r \in abandoned' : Asked(r)
  BY ClientLine DEF NetInv
<1>4. call' \in {call, Idle, Closed}
  <2>1. \A r : Return(r) => call' \in {Idle, Closed}
    BY DEF Return
  <2>2. \A x : Advance(x) => call' \in {call, Idle, Closed}
    BY <2>1 DEF Advance
  <2>3. StepFails => call' \in {call, Idle, Closed}
    BY <2>1, <2>2 DEF StepFails
  <2> QED  BY <2>1, <2>2, <2>3, ClientKinds DEF Waits, TurnsPage, Repeats, Fails, Ends, Moves
<1>5. Busy' /\ call'.op = "append" => call'.data \in Seq(Chunk)
  BY <1>1, <1>4 DEF NetInv, Busy
<1>6. token' \subseteq Name
  <2>1. token' = token \/ GotPage
    BY DEF Client, ForceFresh, Connect, ConnectFails, Reuse, Send, SendFails, NoAnswerComes, Lose,
           Garbled, LeftOver, GoOn, GotContent, NotThere, GotUpload, GotETag, Rejected, Dial,
           DialFails, SendChunk, ChunkFails, EndBody, EndBodyFails, listVars
  <2>2. CASE GotPage
    <3>1. token' = token \cup line.ans.names /\ line.ans # NoAnswer
      BY <2>2 DEF GotPage, Receive, NoAnswer
    <3> QED  BY <3>1 DEF NetInv, AnswerType
  <2> QED  BY <2>1, <2>2 DEF NetInv
<1>7. body' \in Seq(Chunk)
  <2>1. HangUp \/ (\E a : Receive(a)) => body' \in {body, <<>>}
    BY DEF HangUp, Receive
  <2>2. <<>> \in Seq(Chunk)
    OBVIOUS
  <2>3. CASE SendChunk
    <3>1. Now.m = "CHUNK" /\ body' = body \o call.data
      BY <2>3 DEF SendChunk
    <3>2. call.op = "append"
      BY <1>1, <3>1, NowGoes DEF Goes
    <3> QED  BY <1>1, <3>1, <3>2 DEF NetInv
  <2>4. CASE SendFails \/ NoAnswerComes \/ Lose \/ Garbled \/ LeftOver \/ EndBodyFails
    <3>1. body' \in {body, <<>>}
      BY <2>1, <2>4 DEF SendFails, NoAnswerComes, Lose, Broken, Garbled, LeftOver, EndBodyFails
    <3> QED  BY <2>2, <3>1 DEF NetInv
  <2>5. CASE GoOn \/ GotContent \/ NotThere \/ GotPage \/ GotUpload \/ GotETag \/ Rejected
    <3>1. body' \in {body, <<>>}
      BY <2>1, <2>5 DEF GoOn, GotContent, NotThere, GotPage, GotUpload, GotETag, Rejected
    <3> QED  BY <2>2, <3>1 DEF NetInv
  <2>6. CASE ForceFresh \/ Connect \/ ConnectFails \/ Reuse \/ Send \/ Dial \/ DialFails \/ ChunkFails \/ EndBody
    <3>1. body' \in {body, <<>>}
      BY <2>6 DEF ForceFresh, Connect, ConnectFails, Reuse, Send, Dial, DialFails, ChunkFails, EndBody, netVars
    <3> QED  BY <2>2, <3>1 DEF NetInv
  <2> QED  BY <2>3, <2>4, <2>5, <2>6 DEF Client
<1> QED  BY <1>1, <1>2, <1>3, <1>5, <1>6, <1>7 DEF NetInv

LEMMA CallerNet ==
    ASSUME WireInv, MoveInv, NetInv, Caller
    PROVE  NetInv'
<1>1. /\ ~Busy /\ line' = line /\ line = Quiet /\ abandoned' = {} /\ uploads' = uploads
  BY CallerKinds DEF serverVars
<1>2. body' \in Seq(Chunk)
  <2>1. <<>> \in Seq(Chunk)
    OBVIOUS
  <2> QED  BY <2>1 DEF Caller, Open, Close, Plain, PutBegin, PutAppend, PutFinish, PutAbort, NetInv
<1>3. token' \subseteq Name /\ (Busy' /\ call'.op = "append" => call'.data \in Seq(Chunk))
  <2>1. CASE Shuts
    BY <2>1 DEF Shuts, Busy, NetInv, listVars
  <2>2. ASSUME NEW c, Begins(c)
        PROVE  token' = {} /\ (Busy' /\ call'.op = "append" => call'.data \in Seq(Chunk))
    <3>1. token' = {} /\ call' \in {c, Idle}
      BY <2>2 DEF Begins, Ask
    <3>2. c.op = "append" => c.data \in Seq(Chunk)
      BY <2>2 DEF Begins, Handled
    <3> QED  BY <3>1, <3>2 DEF Busy
  <2> QED  BY <2>1, <2>2, CallerKinds
<1> QED  BY <1>1, <1>2, <1>3 DEF NetInv, Quiet

LEMMA ServerNet ==
    ASSUME IsFiniteSet(Name), WireInv, PlanInv, HeldInv, MoveInv, StoreInv, SentInv, NetInv, Server
    PROVE  NetInv'
<1>1. UNCHANGED <<call, body, token>> /\ Busy' = Busy
  BY ServerKeeps DEF listVars
<1>2. abandoned' \subseteq abandoned /\ line'.req \in {line.req, NoRequest}
  BY ServerAsked
<1>3. uploads' \in [Upload -> UploadType \cup {NoUpload}]
  BY ServerAsked, ExecuteTypes DEF NetInv, Unserved, serverVars
<1>4. line'.ans \in AnswerType \cup {NoAnswer}
  <2>1. ASSUME NEW b, Answers(b) PROVE b \in AnswerType
    <3>1. line.req # NoRequest /\ Asked(line.req) /\ Answered(b)
      BY <2>1 DEF Answers, Unserved, NetInv
    <3>2. line.req.m = "GET" => line.req.path \in Key
      <4>1. Busy /\ line.req.m = Now.m /\ line.req.path = Now.path
        BY <3>1 DEF SentInv
      <4>2. Now.m = "GET" => last.op = "get" /\ Now.path = last.key
        BY <4>1, NowGoes DEF Goes
      <4> QED  BY <4>1, <4>2, LastType
    <3> DEFINE a == AnswerTo(line.req)
    <3>3. a \in AnswerType
      BY <3>1, <3>2, Answerable
    <3>4. \/ b = a
          \/ b = [a EXCEPT !.st = b.st] /\ b.st \in {"error", "garbled", "unframed"}
          \/ b = [a EXCEPT !.st = "unframed", !.names = {}, !.more = FALSE]
          \/ b = [a EXCEPT !.names = {}, !.more = TRUE]
      BY <3>1 DEF Answered
    <3> HIDE DEF a
    <3> QED  BY <3>3, <3>4 DEF AnswerType
  <2>2. (\E b : Answers(b) /\ line'.ans = b) \/ line'.ans \in {line.ans, NoAnswer}
    BY ServerKinds DEF Answers, Lingers, Closes, Quiet
  <2> QED  BY <2>1, <2>2 DEF NetInv
<1> QED  BY <1>1, <1>2, <1>3, <1>4 DEF NetInv

LEMMA NetStep ==
    ASSUME IsFiniteSet(Name), WireInv, PlanInv, HeldInv, StoresInv, UpInv, NetInv, [Next]_vars
    PROVE  NetInv'
<1>1. CASE UNCHANGED vars
  BY <1>1 DEF vars, serverVars, netVars, listVars, NetInv, Busy
<1> QED  BY <1>1, CallerNet, ClientNet, ServerNet DEF Next, StoresInv

\* The rest of what the client keeps.
ClientInv ==
    /\ conn \in {"none", "open", "stale", "soiled"} /\ own \in {"none", "open"}
    /\ at \in {"top", "send", "recv"} /\ fresh \in BOOLEAN
    /\ faulty \in BOOLEAN /\ ran \in Nat
    /\ reply.rc \in {"pending", "ok", "absent", "error"}
    /\ dir \in Seq(Name) /\ IsABag(listed)
    /\ pages \in 0 .. MaxPages /\ (Busy => pages < MaxPages)

LEMMA BagReported ==
    ASSUME NEW B, NEW S, IsABag(B)
    PROVE  IsABag(B (+) SetToBag(S))
<1> DEFINE P == {n \in Nat : n > 0}
           D == DOMAIN B
           C == B (+) SetToBag(S)
<1>1. B \in [D -> P]
  BY DEF IsABag
<1>2. C = [e \in D \cup S |-> (IF e \in D THEN B[e] ELSE 0) + (IF e \in S THEN 1 ELSE 0)]
  BY DEF SetToBag, (+)
<1>3. \A e \in D : B[e] \in Nat /\ B[e] > 0
  BY <1>1
<1> HIDE DEF D, C
<1>4. ASSUME NEW e \in D \cup S
      PROVE  (IF e \in D THEN B[e] ELSE 0) + (IF e \in S THEN 1 ELSE 0) \in P
  BY <1>3, <1>4
<1>5. C \in [D \cup S -> P] /\ DOMAIN C = D \cup S
  BY <1>2, <1>4
<1> QED  BY <1>5 DEF IsABag, C

LEMMA ReturnClient ==
    ASSUME NEW r, Return(r), r.rc \in {"ok", "absent", "error"}
    PROVE  /\ at' = "top" /\ fresh' \in BOOLEAN /\ ran' \in Nat
           /\ reply'.rc \in {"ok", "absent", "error"} /\ ~Busy'
<1>1. at' = "top" /\ fresh' = FALSE /\ ran' = 0 /\ reply' = r /\ call' \in {Idle, Closed}
  BY DEF Return, Proceed
<1>2. fresh' \in BOOLEAN
  BY <1>1, Zenon
<1> QED  BY <1>1, <1>2 DEF Busy

LEMMA MoveClient ==
    ASSUME StepFails \/ (\E x : Advance(x))
    PROVE  /\ at' = "top" /\ fresh' \in BOOLEAN /\ ran' \in Nat
           /\ reply' = reply \/ reply'.rc \in {"ok", "absent", "error"}
           /\ Busy' => call' = call
<1>0. ASSUME NEW p, Proceed(p) PROVE at' = "top" /\ fresh' \in BOOLEAN /\ ran' \in Nat
  <2>1. at' = "top" /\ fresh' = FALSE /\ ran' = 0
    BY <1>0 DEF Proceed
  <2>2. fresh' \in BOOLEAN
    BY <2>1, Zenon
  <2> QED  BY <2>1, <2>2
<1>1. \A m : Said(m).rc = m
  BY DEF Said
<1>2. ASSUME NEW x, Advance(x)
      PROVE  /\ at' = "top" /\ fresh' \in BOOLEAN /\ ran' \in Nat
             /\ reply' = reply \/ reply'.rc \in {"ok", "absent", "error"}
             /\ Busy' => call' = call
  BY <1>0, <1>1, <1>2, ReturnClient DEF Advance
<1>3. CASE StepFails
  BY <1>0, <1>1, <1>2, <1>3, ReturnClient DEF StepFails
<1> QED  BY <1>2, <1>3

\* What a step of the client does to its own variables, when it keeps listVars.
LEMMA ClientSame ==
    ASSUME ClientInv, Client, ~GotPage
    PROVE  ClientInv'
<1>0. UNCHANGED listVars /\ Busy
  BY DEF Client, ForceFresh, Connect, ConnectFails, Reuse, Send, SendFails, NoAnswerComes, Lose,
         Garbled, LeftOver, GoOn, GotContent, NotThere, GotUpload, GotETag, Rejected, Dial,
         DialFails, SendChunk, ChunkFails, EndBody, EndBodyFails, OnKept, Receive
<1>1. /\ conn' \in {"none", "open", "stale", "soiled"} /\ own' \in {"none", "open"}
      /\ faulty' \in BOOLEAN
  <2>1. HangUp \/ (\E a : Receive(a)) =>
            conn' \in {"none", "open", "stale", "soiled"} /\ own' \in {"none", "open"}
    BY DEF HangUp, Receive, ClientInv
  <2>2. CASE SendFails \/ NoAnswerComes \/ Lose \/ Garbled \/ LeftOver \/ EndBodyFails
    <3>1. faulty' \in BOOLEAN
      BY <2>2 DEF SendFails, NoAnswerComes, Lose, Garbled, LeftOver, EndBodyFails, ClientInv
    <3>2. HangUp \/ (conn' = "stale" /\ own' = own)
      BY <2>2 DEF SendFails, NoAnswerComes, Lose, Garbled, LeftOver, EndBodyFails, Broken
    <3> QED  BY <2>1, <3>1, <3>2 DEF ClientInv
  <2>3. CASE GoOn \/ GotContent \/ NotThere \/ GotUpload \/ GotETag \/ Rejected
    <3>1. faulty' = faulty /\ \E a : Receive(a)
      BY <2>3 DEF GoOn, GotContent, NotThere, GotUpload, GotETag, Rejected, Receive
    <3> QED  BY <2>1, <3>1 DEF ClientInv
  <2>4. CASE ForceFresh \/ Connect \/ ConnectFails \/ Reuse \/ Send \/ Dial \/ DialFails \/ SendChunk
             \/ ChunkFails \/ EndBody
    <3>1. conn' \in {conn, "none", "open"} /\ own' \in {own, "open"} /\ faulty' \in {faulty, TRUE}
      BY <2>4 DEF ForceFresh, Connect, ConnectFails, Reuse, Send, Dial, DialFails, SendChunk,
                  ChunkFails, EndBody, netVars, historyVars
    <3> QED  BY <3>1 DEF ClientInv
  <2> QED  BY <2>2, <2>3, <2>4 DEF Client
<1>2. /\ at' \in {"top", "send", "recv"} /\ fresh' \in BOOLEAN /\ ran' \in Nat
      /\ reply' = reply \/ reply'.rc \in {"ok", "absent", "error"}
  <2>1. CASE ForceFresh \/ Connect \/ Reuse \/ Send \/ EndBody
    BY <2>1 DEF ForceFresh, Connect, Reuse, Send, EndBody, exchangeVars, historyVars, ClientInv
  <2>2. CASE GotContent \/ NotThere
    <3>1. \E r : Return(r) /\ r.rc \in {"ok", "absent", "error"}
      BY <2>2 DEF GotContent, NotThere, Said
    <3>2. PICK r : Return(r) /\ r.rc \in {"ok", "absent", "error"}
      BY <3>1
    <3> QED  BY <3>2, ReturnClient
  <2>3. CASE StepFails \/ \E x : Advance(x)
    BY <2>3, MoveClient
  <2>4. CASE Broken
    <3>1. \/ StepFails
          \/ at' = "top" /\ UNCHANGED <<fresh, ran, reply>>
      BY <2>4 DEF Broken
    <3> QED  BY <2>3, <3>1 DEF ClientInv
  <2>5. ~GotPage /\ Client =>
            \/ ForceFresh \/ Connect \/ Reuse \/ Send \/ EndBody \/ GotContent \/ NotThere
            \/ StepFails \/ Broken \/ \E x : Advance(x)
    BY DEF Client, ConnectFails, SendFails, NoAnswerComes, Lose, Garbled, LeftOver, GoOn,
           GotUpload, GotETag, Rejected, Dial, DialFails, SendChunk, ChunkFails, EndBodyFails
  <2> QED  BY <2>1, <2>2, <2>3, <2>4, <2>5
<1> QED  BY <1>0, <1>1, <1>2 DEF ClientInv, listVars

LEMMA PageClient ==
    ASSUME ClientInv, GotPage PROVE ClientInv'
<1>1. /\ Busy /\ faulty' = faulty /\ dir' = dir /\ pages' = pages + 1
      /\ conn' \in {conn, "soiled"} /\ own' \in {own, "none"}
  BY DEF GotPage, Receive
<1>2. IsABag(listed')
  BY BagReported DEF GotPage, ClientInv
<1>3. /\ at' = "top" /\ fresh' = FALSE /\ ran' = 0
      /\ \/ reply' = reply /\ pages + 1 < MaxPages
         \/ reply'.rc \in {"ok", "error"} /\ ~Busy'
  <2>1. \A m : Said(m).rc = m
    BY DEF Said
  <2>2. \A m : Return(Said(m)) => /\ at' = "top" /\ fresh' = FALSE /\ ran' = 0
                                  /\ reply'.rc = m /\ ~Busy'
    BY <2>1 DEF Return, Proceed, Busy
  <2>3. CASE Proceed(todo) /\ MorePages /\ reply' = reply
    BY <2>3 DEF Proceed, MorePages
  <2>4. CASE Return(Said("ok")) \/ Return(Said("error"))
    BY <2>2, <2>4
  <2> QED  BY <2>3, <2>4 DEF GotPage
<1>4. pages' \in 0 .. MaxPages /\ (Busy' => pages' < MaxPages)
  BY <1>1, <1>3, PagesAssumption DEF ClientInv
<1> QED  BY <1>1, <1>2, <1>3, <1>4 DEF ClientInv

LEMMA CallerClient ==
    ASSUME WireInv, MoveInv, ClientInv, Caller PROVE ClientInv'
<1>1. own' \in {own, "none"} /\ conn' \in {conn, "none"}
  BY DEF Caller, Open, Close, Plain, PutBegin, PutAppend, PutFinish, PutAbort, Ask
<1>2. CASE Shuts
  <2>1. /\ UNCHANGED <<at, fresh, reply, faulty, dir, listed, pages>> /\ ~Busy'
    BY <1>2 DEF Shuts, listVars, Busy
  <2>2. ran' \in Nat
    <3>1. \A c : Ask(c) => ran' = 0
      BY DEF Ask, Proceed
    <3>2. Close => ran' = ran
      BY DEF Close, historyVars
    <3>3. ran' \in {ran, 0}
      BY <3>1, <3>2 DEF Caller, Open, Plain, PutBegin, PutAppend, PutFinish, PutAbort
    <3> QED  BY <3>3 DEF ClientInv
  <2> QED  BY <1>1, <2>1, <2>2 DEF ClientInv
<1>3. ASSUME NEW c, Begins(c) PROVE ClientInv'
  <2>1. /\ at' = "top" /\ fresh' = FALSE /\ ran' = 0 /\ faulty' = FALSE /\ pages' = 0
        /\ listed' = EmptyBag /\ reply' \in {Said("pending"), Said("ok")}
        /\ dir' = IF c.op = "list" THEN c.key ELSE <<>>
    BY <1>3 DEF Begins, Ask, Proceed
  <2>2. IsABag(EmptyBag)
    BY DEF IsABag, EmptyBag, SetToBag
  <2>3. dir' \in Seq(Name)
    <3>1. <<>> \in Seq(Name)
      OBVIOUS
    <3> QED  BY <1>3, <2>1, <3>1 DEF Begins, Callable
  <2>4. fresh' \in BOOLEAN /\ faulty' \in BOOLEAN /\ IsABag(listed')
    BY <2>1, <2>2, Zenon
  <2>5. /\ at' \in {"top", "send", "recv"} /\ ran' \in Nat
        /\ reply'.rc \in {"pending", "ok", "absent", "error"}
        /\ pages' \in 0 .. MaxPages /\ pages' < MaxPages
    BY <2>1, PagesAssumption DEF Said
  <2>6. conn' \in {"none", "open", "stale", "soiled"} /\ own' \in {"none", "open"}
    BY <1>1 DEF ClientInv
  <2> QED  BY <2>3, <2>4, <2>5, <2>6 DEF ClientInv
<1> QED  BY <1>2, <1>3, CallerKinds

LEMMA ClientStep ==
    ASSUME WireInv, MoveInv, ClientInv, [Next]_vars PROVE ClientInv'
<1>1. CASE UNCHANGED vars
  BY <1>1 DEF vars, netVars, exchangeVars, listVars, historyVars, ClientInv, Busy
<1>2. CASE Server
  <2>1. UNCHANGED <<at, fresh, reply, dir, listed, pages>> /\ Busy' = Busy
    BY <1>2, ServerKeeps DEF listVars
  <2>2. conn' \in {conn, "stale"} /\ own' = own /\ ran' \in {ran, ran + 1} /\ faulty' \in {faulty, TRUE}
    BY <1>2 DEF Server, Serve, ServeBadly, ServeLate, IdleClose, Answer, historyVars
  <2>3. fresh' \in BOOLEAN /\ faulty' \in BOOLEAN
    BY <2>1, <2>2 DEF ClientInv
  <2>4. conn' \in {"none", "open", "stale", "soiled"} /\ own' \in {"none", "open"} /\ ran' \in Nat
    BY <2>2 DEF ClientInv
  <2> QED  BY <2>1, <2>3, <2>4 DEF ClientInv
<1> QED  BY <1>1, <1>2, CallerClient, ClientSame, PageClient DEF Next, Client

\* The types hold throughout.
THEOREM TypeCorrect ==
    ASSUME IsFiniteSet(Name), IsFiniteSet(Upload)
    PROVE  Spec => []TypeOK
<1> DEFINE Inv == /\ WireInv /\ PlanInv /\ OnceInv /\ HeldInv /\ SoundInv /\ StoresInv
                  /\ ReqInv /\ UpInv /\ LateInv /\ CountInv /\ ConnInv /\ NetInv /\ ClientInv
<1>1. Init => Inv
  <2> SUFFICES ASSUME Init PROVE Inv
    OBVIOUS
  <2>1. NetInv
    <3>1. uploads = [u \in Upload |-> NoUpload] /\ ~Busy /\ abandoned = {}
          /\ line.req = NoRequest /\ line.ans = NoAnswer /\ token = {} /\ body = <<>>
      BY DEF Init, ServerInit, Busy, Quiet
    <3> QED  BY <3>1 DEF NetInv
  <2>2. ConnInv
    BY DEF Init, ConnInv, Busy
  <2>3. ClientInv
    <3>1. /\ conn = "none" /\ own = "none" /\ at = "top" /\ fresh = FALSE /\ faulty = FALSE
          /\ ran = 0 /\ reply.rc = "ok" /\ dir = <<>> /\ listed = EmptyBag /\ pages = 0 /\ ~Busy
      BY DEF Init, Said, Busy
    <3>2. IsABag(EmptyBag)
      BY DEF IsABag, EmptyBag, SetToBag
    <3>3. fresh \in BOOLEAN /\ faulty \in BOOLEAN
      BY <3>1, Zenon
    <3> QED  BY <3>1, <3>2, <3>3, PagesAssumption DEF ClientInv
  <2> QED  BY <2>1, <2>2, <2>3, InitCounts
<1>2. Inv /\ [Next]_vars => Inv'
  BY WireStep, OnceStep, SoundStep, StoresStep, ReqStep, UpStep, LateStep, CountStep, ConnStep,
     NetStep, ClientStep DEF StoresInv
<1>3. Inv => TypeOK
  <2> SUFFICES ASSUME Inv PROVE TypeOK
    OBVIOUS
  <2>1. proto \in {"webdav", "s3"} /\ store \in [Key -> Content \cup {Absent}] /\ cols \subseteq Seq(Name)
    BY DEF StoresInv, StoreInv, HeldInv
  <2>2. /\ uploads \in [Upload -> [key : Key, parts : Seq(Seq(Chunk))] \cup {NoUpload}]
        /\ line.req \in RequestType \cup {NoRequest} /\ line.ans \in AnswerType \cup {NoAnswer}
        /\ abandoned \subseteq RequestType /\ body \in Seq(Chunk) /\ token \subseteq Name
    BY DEF NetInv, UploadType, Asked
  <2>3. todo \in Seq([m : Method \cup {"DIAL", "CHUNK"}, path : Seq(Name)]) /\ (todo = <<>> <=> ~Busy)
    <3>1. Methods = Method \cup {"DIAL", "CHUNK"}
      BY DEF Methods, Method
    <3> QED  BY <3>1 DEF Steps, PlanInv, StoresInv, MoveInv, CallInv
  <2>4. h \in HandleType \cup {NoHandle}
    BY DEF StoresInv, MoveInv, HandleInv, Holds
  <2>5. unsettled \in 0 .. Cardinality(Upload)
    BY DEF CountInv, Balance
  <2> QED  BY <2>1, <2>2, <2>3, <2>4, <2>5 DEF TypeOK, ClientInv, ConnInv
<1> QED  BY <1>1, <1>2, <1>3, PTL DEF Spec

-----------------------------------------------------------------------------
(* What an S3 call still has to do, and about what.                        *)

\* The methods of a call about an open upload.
Pieces == {"INITIATE", "PART", "COMPLETE", "PUT", "ABORT"}

\* S3: while an upload is open every call is about it, and one that has failed
\* is aborted; a part comes after what it needs, and a listing is of dir.
OpenInv ==
    proto = "s3" =>
        /\ Busy /\ h # NoHandle => call.op \in {"append", "finish", "abort"}
        /\ Busy /\ call.op \in {"append", "finish"} /\ h.failed => Now.m = "ABORT"
        /\ \A n \in 1 .. Len(todo) :
               /\ call.op \in {"append", "finish", "abort"} => todo[n].m \in Pieces
               /\ todo[n].m = "LIST" => todo[n].path = dir
               /\ todo[n].m = "COMPLETE" => h # NoHandle /\ h.upload # NoUpload
        /\ \A n \in 1 .. Len(todo) - 1 :
               /\ todo[n].m = "INITIATE" => todo[n + 1].m = "PART"
               /\ todo[n].m = "PART" => todo[n + 1].m = "COMPLETE"

\* S3 has no collections, and nobody makes one.
SiteInv == proto = "s3" => cols = {} /\ \A r \in abandoned : r.m # "MKCOL"

-----------------------------------------------------------------------------
(* The open upload and the server's idea of it.                            *)

\* An upload is open that has not failed.
Live == h # NoHandle /\ ~h.failed

\* A part left behind is one the upload has, or the one being sent.
LatePart(r) ==
    /\ r.up = h.upload
    /\ \/ r.n \in DOMAIN h.etags /\ r.data = h.etags[r.n]
       \/ Busy /\ Now.m = "PART" /\ r.n = Len(h.etags) + 1 /\ r.data = h.body

\* What is left behind does no harm to the open upload.
LateUpInv ==
    proto = "s3" /\ Live =>
        \A r \in abandoned :
            /\ r.m \notin {"INITIATE", "COMPLETE"}
            /\ r.m = "ABORT" => Busy /\ call.op = "abort"
            /\ r.m = "PART" => LatePart(r)

\* The server has the parts the client knows of, and perhaps the one on its way.
Kept ==
    /\ h.upload \in Upload /\ uploads[h.upload] # NoUpload
    /\ \/ /\ uploads[h.upload].parts = h.etags
          /\ ~(Executed("PART") /\ line.ans.st = "ok")
       \/ /\ uploads[h.upload].parts = Append(h.etags, h.body)
          /\ Busy /\ Now.m = "PART"

\* The upload that is open can be started, added to and completed.
UploadInv ==
    proto = "s3" /\ Live =>
        /\ h.upload = NoUpload => FreeUploads # {} \/ Executed("INITIATE")
        /\ h.upload # NoUpload =>
               /\ (Busy /\ call.op = "abort") \/ Executed("COMPLETE") \/ Kept
               /\ ~Busy \/ Now.m = "COMPLETE" => h.etags # <<>>
        /\ Busy /\ call.op = "append" => Len(h.body) >= PartSize
        /\ \A n \in DOMAIN h.etags :
               Len(h.etags[n]) >= PartSize \/ (Busy /\ Now.m = "COMPLETE" /\ n = Len(h.etags))
        /\ Executed("INITIATE") /\ line.ans.st = "ok" => uploads[line.ans.id].parts = <<>>

-----------------------------------------------------------------------------
(* Pages.                                                                  *)

\* All that can ever be directly below p.
Directory(p) == {k[Len(p) + 1] : k \in {q \in Key : IsStrictPrefix(p, q)}}

\* Unless something has gone wrong every page but the last is full, and tells
\* what has not been told.
PageInv ==
    /\ proto = "s3" /\ Busy =>
           /\ token \subseteq Directory(dir)
           /\ faulty \/ pages * PageSize <= Cardinality(token)
           /\ line.ans # NoAnswer /\ Now.m = "LIST" =>
                  /\ line.ans.names \subseteq Directory(dir)
                  /\ line.ans.more =>
                         \/ faulty
                         \/ /\ Cardinality(line.ans.names) = PageSize
                            /\ line.ans.names \cap token = {}
                            /\ \E e \in Directory(dir) : e \notin token \cup line.ans.names
    /\ proto = "webdav" /\ line.ans # NoAnswer /\ Now.m = "LIST" => faulty \/ ~line.ans.more

-----------------------------------------------------------------------------
(* What went wrong.                                                        *)

\* A call fails, is about to, or has an answer it cannot use, only if something
\* went wrong while it was made; a failed abort is nobody's.
FaultInv ==
    /\ reply = Said("error") => faulty
    /\ Busy /\ call.op = "finish" /\ h.failed => faulty
    /\ line.ans # NoAnswer => faulty \/ Now.m = "ABORT" \/ Accepts(Now.m, line.ans.st)

-----------------------------------------------------------------------------
(* The plans of S3 calls.                                                  *)

LEMMA PlanPieces ==
    ASSUME NEW c
    PROVE  /\ \A n \in 1 .. Len(PlanS3(c)) :
                  /\ c.op \in {"append", "finish", "abort"} => PlanS3(c)[n].m \in Pieces
                  /\ PlanS3(c)[n].m = "LIST" => c.op = "list" /\ PlanS3(c)[n].path = c.key
                  /\ PlanS3(c)[n].m = "COMPLETE" => c.op = "finish" /\ h.upload # NoUpload
           /\ \A n \in 1 .. Len(PlanS3(c)) - 1 :
                  /\ PlanS3(c)[n].m = "INITIATE" => PlanS3(c)[n + 1].m = "PART"
                  /\ PlanS3(c)[n].m = "PART" => PlanS3(c)[n + 1].m = "COMPLETE"
<1>1. \A m, p : Step(m, p).m = m /\ Step(m, p).path = p
  BY DEF Step
<1>2. CASE c.op \in {"put", "get", "exists", "list"}
  <2>1. PICK m \in {"PUT", "GET", "EXISTS", "LIST"} :
            PlanS3(c) = <<Step(m, c.key)>> /\ (m = "LIST" => c.op = "list")
    BY <1>2 DEF PlanS3
  <2> QED  BY <1>1, <1>2, <2>1
<1>3. CASE c.op = "remove"
  <2>1. PlanS3(c) = <<Step("EXISTS", c.key), Step("DELETE", c.key)>>
    BY <1>3 DEF PlanS3
  <2> QED  BY <1>1, <1>3, <2>1
<1>4. CASE c.op = "append"
  <2>1. PlanS3(c) \in {<<>>, NextPart(h.key)}
    BY <1>4 DEF PlanS3
  <2>2. NextPart(h.key) \in {<<Step("INITIATE", h.key), Step("PART", h.key)>>,
                             <<Step("PART", h.key)>>}
    BY Joins DEF NextPart
  <2>3. CASE PlanS3(c) = <<Step("PART", h.key)>>
    BY <1>1, <1>4, <2>3 DEF Pieces
  <2>5. CASE PlanS3(c) = <<>>
    <3>1. 1 .. Len(PlanS3(c)) = {} /\ 1 .. Len(PlanS3(c)) - 1 = {}
      BY <2>5
    <3> QED  BY <3>1
  <2>4. CASE PlanS3(c) = <<Step("INITIATE", h.key), Step("PART", h.key)>>
    BY <1>1, <1>4, <2>4 DEF Pieces
  <2> QED  BY <2>1, <2>2, <2>3, <2>4, <2>5
<1>5. CASE c.op = "finish"
  <2>1. h.upload # NoUpload => NextPart(h.key) = <<Step("PART", h.key)>>
    BY Joins DEF NextPart
  <2>2. \/ PlanS3(c) = <<Step("PUT", h.key)>>
        \/ h.upload # NoUpload /\ PlanS3(c) = <<Step("COMPLETE", h.key)>>
        \/ h.upload # NoUpload /\ PlanS3(c) = <<Step("PART", h.key), Step("COMPLETE", h.key)>>
    BY <1>5, <2>1, Joins DEF PlanS3
  <2>3. CASE PlanS3(c) = <<Step("PUT", h.key)>>
    BY <1>1, <1>5, <2>3 DEF Pieces
  <2>4. CASE h.upload # NoUpload /\ PlanS3(c) = <<Step("COMPLETE", h.key)>>
    BY <1>1, <1>5, <2>4 DEF Pieces
  <2>5. CASE h.upload # NoUpload /\ PlanS3(c) = <<Step("PART", h.key), Step("COMPLETE", h.key)>>
    BY <1>1, <1>5, <2>5 DEF Pieces
  <2> QED  BY <2>2, <2>3, <2>4, <2>5
<1>6. CASE c.op = "abort"
  <2>1. PlanS3(c) \in {<<>>, <<Step("ABORT", h.key)>>}
    BY <1>6 DEF PlanS3
  <2> QED  BY <1>1, <1>6, <2>1 DEF Pieces
<1>7. CASE c.op \notin {"put", "get", "exists", "remove", "list", "abort", "append", "finish"}
  <2>1. PlanS3(c) = <<>>
    BY <1>7 DEF PlanS3
  <2>2. 1 .. Len(PlanS3(c)) = {} /\ 1 .. Len(PlanS3(c)) - 1 = {}
    BY <2>1
  <2> QED  BY <2>2
<1> QED  BY <1>2, <1>3, <1>4, <1>5, <1>6, <1>7

LEMMA HandleNotNone == ASSUME NEW x \in HandleType PROVE x # NoHandle
<1>1. x.key \in Key /\ NoHandle.key = <<>>
  BY DEF HandleType, NoHandle
<1>2. x.key # <<>>
  BY <1>1, KeyAssumption
<1> QED  BY <1>1, <1>2

LEMMA CallerOpen ==
    ASSUME WireInv, PlanInv, MoveInv, OpenInv, Caller, proto = "s3"
    PROVE  OpenInv'
<1>1. ~Busy /\ todo = <<>> /\ proto' = proto
  BY CallerKinds DEF serverVars, MoveInv, CallInv
<1>2. ASSUME ~Busy', todo' = <<>> PROVE OpenInv'
  <2>1. Len(todo') = 0
    BY <1>2
  <2> QED  BY <1>2, <2>1 DEF OpenInv
<1>3. CASE Shuts
  BY <1>1, <1>2, <1>3 DEF Shuts, Busy
<1>4. ASSUME NEW c, Begins(c) PROVE OpenInv'
  <2>1. Ask(c) /\ Handled(c)
    BY <1>4 DEF Begins
  <2>2. CASE Plan(c) = <<>>
    <3>1. ~Busy' /\ todo' = <<>>
      BY <2>1, <2>2 DEF Ask, Proceed, Busy
    <3> QED  BY <1>2, <3>1
  <2>3. CASE Plan(c) # <<>>
    <3>1. call' = c /\ todo' = PlanS3(c) /\ PlanS3(c) # <<>> /\ dir' = IF c.op = "list" THEN c.key ELSE <<>>
      BY <2>1, <2>3, <1>1 DEF Plan, Ask, Proceed
    <3>2. c.op \notin {"open", "begin"}
      BY <3>1 DEF PlanS3
    <3>3. h' # NoHandle => c.op \in {"append", "finish", "abort"}
      BY <2>1, <3>2 DEF Handled
    <3>4. c.op \in {"append", "finish"} => ~h'.failed
      BY <2>1 DEF Handled
    <3>5. /\ \A n \in 1 .. Len(todo') :
                 /\ c.op \in {"append", "finish", "abort"} => todo'[n].m \in Pieces
                 /\ todo'[n].m = "LIST" => todo'[n].path = dir'
                 /\ todo'[n].m = "COMPLETE" => h' # NoHandle /\ h'.upload # NoUpload
          /\ \A n \in 1 .. Len(todo') - 1 :
                 /\ todo'[n].m = "INITIATE" => todo'[n + 1].m = "PART"
                 /\ todo'[n].m = "PART" => todo'[n + 1].m = "COMPLETE"
      <4>1. c.op = "finish" => h' = h /\ h # NoHandle
        <5>1. c.op = "finish" => h' = h /\ h \in HandleType
          BY <2>1 DEF Handled
        <5> QED  BY <5>1, HandleNotNone
      <4> QED  BY <3>1, <4>1, PlanPieces
    <3> QED  BY <3>1, <3>3, <3>4, <3>5 DEF OpenInv
  <2> QED  BY <2>2, <2>3
<1> QED  BY <1>3, <1>4, CallerKinds

\* After a step of S3 that fails nothing is open that works.
LEMMA FailDead ==
    ASSUME PlanInv, MoveInv, UpInv, OpenInv, Busy, StepFails, proto = "s3"
    PROVE  /\ ~Live'
           /\ Busy' => Now'.m = "ABORT" /\ call' = call /\ todo' = <<Step("ABORT", h.key)>>
           /\ ~Busy' => todo' = <<>>
           /\ h' # NoHandle => h # NoHandle
<1>1. /\ Now.m = "ABORT" => Len(todo) = 1 /\ call.op \in {"abort", "finish"}
      /\ call.op = "append" => h # NoHandle
      /\ h # NoHandle => call.op \in {"append", "finish", "abort"}
  BY NowGoes DEF Goes, OpenInv, MoveInv, CallInv
<1>2. h # NoHandle => h \in HandleType
  BY DEF MoveInv, HandleInv, Holds
<1>3. \A x \in HandleType : [x EXCEPT !.failed = TRUE].failed
  BY DEF HandleType
<1>4. CASE Now.m = "ABORT"
  <2>1. Advance(h)
    BY <1>4 DEF StepFails
  <2>2. todo' = <<>> /\ call' \in {Idle, Closed} /\ h' = NoHandle
    <3>1. Len(todo) = 1 /\ call.op \in {"finish", "abort"} /\ Now.m = "ABORT"
      BY <1>1, <1>4
    <3>2. ~(Len(todo) > 1)
      BY <3>1
    <3> QED  BY <2>1, <3>1, <3>2 DEF Advance, Return, Proceed
  <2> QED  BY <2>2 DEF Live, Busy
<1>5. CASE Now.m # "ABORT" /\ AbortsOnFailure
  <2>1. h' = [h EXCEPT !.failed = TRUE] /\ todo' = <<Step("ABORT", h.key)>> /\ call' = call
    BY <1>5 DEF StepFails, Proceed
  <2>2. h # NoHandle
    BY <1>5 DEF AbortsOnFailure, MoveInv, CallInv
  <2>3. h'.failed /\ Now'.m = "ABORT"
    BY <1>2, <1>3, <2>1, <2>2 DEF Now, Step
  <2> QED  BY <2>1, <2>2, <2>3 DEF Live, Busy
<1>6. CASE Now.m # "ABORT" /\ ~AbortsOnFailure
  <2>1. todo' = <<>> /\ call' \in {Idle, Closed}
        /\ h' = CASE call.op = "append" -> [h EXCEPT !.failed = TRUE]
                  [] call.op = "finish" -> NoHandle
                  [] OTHER -> h
    BY <1>6 DEF StepFails, Return, Proceed
  <2>2. call.op # "abort"
    <3>1. Now = todo[1] /\ 1 \in 1 .. Len(todo)
      BY HeadTail
    <3> QED  BY <1>6, <3>1 DEF UpInv
  <2>3. ~Live' /\ (h' # NoHandle => h # NoHandle)
    BY <1>1, <1>2, <1>3, <2>1, <2>2 DEF Live
  <2> QED  BY <2>1, <2>3 DEF Busy
<1> QED  BY <1>4, <1>5, <1>6 DEF StepFails

\* What a step of S3 that is done leaves of the call and of its upload.
LEMMA MoveLive ==
    ASSUME PlanInv, MoveInv, UpInv, OpenInv, Busy, proto = "s3", NEW x, Moves(x)
    PROVE  /\ \/ /\ todo' = Tail(todo) /\ Len(todo) > 1 /\ call' = call /\ h' = x /\ Busy'
                 /\ reply' = reply
              \/ todo' = <<>> /\ call' \in {Idle, Closed} /\ ~Busy' /\ Len(todo) = 1
           /\ x = h \/ (h \in HandleType /\ h # NoHandle /\ call.op \in {"append", "finish"}
                        /\ Now.m \in {"INITIATE", "PART"})
           /\ x # NoHandle => x.failed = h.failed
           /\ Live' => Live /\ h' = x /\ Now.m \in {"INITIATE", "PART"}
<1>1. /\ Goes(Now, Len(todo) = 1) /\ Now = todo[1] /\ 1 \in 1 .. Len(todo)
      /\ call.op \in {"append", "finish", "abort"} => h # NoHandle
      /\ Now.m \notin {"MKCOL", "DIAL", "CHUNK", "STREAM"}
  BY NowGoes, HeadTail DEF MoveInv, CallInv, UpInv
<1>2. h # NoHandle => h \in HandleType
  BY DEF MoveInv, HandleInv, Holds
<1>3. Advance(x) /\ Brings(x)
  BY DEF Moves
<1>4. x = h \/ (h \in HandleType /\ h # NoHandle /\ call.op \in {"append", "finish"}
                /\ Now.m \in {"INITIATE", "PART"})
  BY <1>1, <1>2, <1>3 DEF Brings, Goes
<1>5. x # NoHandle => x.failed = h.failed
  <2>1. ASSUME NEW u, h \in HandleType PROVE [h EXCEPT !.upload = u].failed = h.failed
    BY <2>1 DEF HandleType
  <2>2. ASSUME NEW e, h \in HandleType
        PROVE  Emptied([h EXCEPT !.etags = Append(@, e)]).failed = h.failed
    BY <2>2 DEF HandleType, Emptied
  <2> QED  BY <1>1, <1>3, <1>4, <2>1, <2>2 DEF Brings
<1>6. \/ /\ todo' = Tail(todo) /\ Len(todo) > 1 /\ call' = call /\ h' = x /\ Busy'
         /\ reply' = reply
      \/ todo' = <<>> /\ call' \in {Idle, Closed} /\ ~Busy' /\ Len(todo) = 1
  <2>1. CASE Len(todo) = 1
    BY <1>3, <2>1 DEF Advance, Return, Proceed, Busy
  <2>2. CASE Len(todo) # 1
    BY <1>3, <2>2 DEF Advance, Proceed, Busy
  <2> QED  BY <2>1, <2>2
<1>7. ASSUME Live' PROVE Live /\ h' = x /\ Now.m \in {"INITIATE", "PART"}
  <2>1. h' = x /\ x # NoHandle /\ ~x.failed
        /\ (Len(todo) = 1 => call.op \notin {"finish", "abort"})
    BY <1>3, <1>7 DEF Advance, Live
  <2>2. Live
    BY <1>4, <1>5, <2>1 DEF Live
  <2>3. Now.m \in Pieces /\ call.op \in {"append", "finish", "abort"}
    BY <1>1, <2>2 DEF OpenInv, Live
  <2>4. Now.m \notin {"PUT", "COMPLETE", "ABORT"}
    BY <1>1, <2>1, <2>3 DEF Goes
  <2> QED  BY <2>1, <2>2, <2>3, <2>4 DEF Pieces
<1> QED  BY <1>4, <1>5, <1>6, <1>7

LEMMA ClientOpen ==
    ASSUME WireInv, PlanInv, MoveInv, UpInv, OpenInv, Client, proto = "s3"
    PROVE  OpenInv'
<1>1. Busy /\ proto' = proto
  BY ClientKinds DEF serverVars
<1>2. dir' = dir
  BY DEF Client, ForceFresh, Connect, ConnectFails, Reuse, Send, SendFails, NoAnswerComes, Lose,
         Garbled, LeftOver, GoOn, GotContent, NotThere, GotPage, GotUpload, GotETag, Rejected, Dial,
         DialFails, SendChunk, ChunkFails, EndBody, EndBodyFails, listVars
<1>3. ASSUME ~Busy', todo' = <<>> PROVE OpenInv'
  <2>1. Len(todo') = 0
    BY <1>3
  <2> QED  BY <1>3, <2>1 DEF OpenInv
<1>4. CASE Waits \/ TurnsPage \/ Repeats
  <2>1. UNCHANGED <<todo, call, h>> /\ Busy' = Busy /\ Now' = Now
    BY <1>4 DEF Waits, TurnsPage, Repeats, Busy, Now
  <2> QED  BY <1>1, <1>2, <2>1 DEF OpenInv
<1>5. CASE Ends
  <2>1. todo' = <<>> /\ ~Busy'
    BY <1>5 DEF Ends, Return, Proceed, Busy
  <2> QED  BY <1>3, <2>1
<1>6. CASE Fails
  <2>1. CASE ~Busy'
    BY <1>1, <1>3, <1>6, <2>1, FailDead DEF Fails
  <2>2. CASE Busy'
    <3>1. Now'.m = "ABORT" /\ call' = call /\ todo' = <<Step("ABORT", h.key)>> /\ (h' # NoHandle => h # NoHandle)
      BY <1>1, <1>6, <2>2, FailDead DEF Fails
    <3>2. Len(todo') = 1 /\ todo'[1].m = "ABORT" /\ 1 .. Len(todo') - 1 = {}
      BY <3>1 DEF Step
    <3> QED  BY <1>1, <1>2, <3>1, <3>2 DEF OpenInv, Pieces
  <2> QED  BY <2>1, <2>2
<1>7. ASSUME NEW x, Moves(x) PROVE OpenInv'
  <2>1. CASE ~Busy'
    BY <1>1, <1>3, <1>7, <2>1, MoveLive
  <2>2. CASE Busy'
    <3>1. todo' = Tail(todo) /\ Len(todo) > 1 /\ call' = call /\ h' = x
      BY <1>1, <1>7, <2>2, MoveLive
    <3>2. /\ \A n \in 1 .. Len(todo') : todo'[n] = todo[n + 1] /\ n + 1 \in 1 .. Len(todo)
          /\ \A n \in 1 .. Len(todo') - 1 :
                 n \in 1 .. Len(todo') /\ n + 1 \in 1 .. Len(todo') /\ n + 1 \in 1 .. Len(todo) - 1
          /\ Now = todo[1]
      BY <1>1, <3>1, NextStep
    <3>3. h' # NoHandle => call.op \in {"append", "finish", "abort"}
      BY <1>1, <1>7, <3>1, MoveLive DEF OpenInv
    <3>5. ASSUME h # NoHandle PROVE x # NoHandle /\ (x.upload = h.upload \/ Now.m = "INITIATE")
      <4>2. Brings(x) /\ h \in HandleType
        BY <1>7, <3>5 DEF Moves, MoveInv, HandleInv, Holds
      <4>3. \A u : [h EXCEPT !.upload = u].key = h.key
        BY <4>2 DEF HandleType
      <4>4. \A e : /\ Emptied([h EXCEPT !.etags = Append(@, e)]).key = h.key
                   /\ Emptied([h EXCEPT !.etags = Append(@, e)]).upload = h.upload
        BY <4>2 DEF HandleType, Emptied
      <4>5. x.key = h.key /\ (x.upload = h.upload \/ Now.m = "INITIATE")
        BY <1>1, <1>7, <4>2, <4>3, <4>4, MoveLive DEF Brings
      <4>6. h.key # <<>>
        BY <4>2, IsHandle, KeyAssumption
      <4> QED  BY <4>5, <4>6 DEF NoHandle
    <3>6. ASSUME NEW n \in 1 .. Len(todo'), todo'[n].m = "COMPLETE"
          PROVE  h' # NoHandle /\ h'.upload # NoUpload
      <4>1. h # NoHandle /\ h.upload # NoUpload
        BY <1>1, <3>2, <3>6 DEF OpenInv
      <4>2. Now.m # "INITIATE"
        <5>1. 1 \in 1 .. Len(todo)
          BY <3>2, <3>6
        <5> QED  BY <3>2, <4>1, <5>1 DEF UpInv
      <4> QED  BY <3>1, <3>5, <4>1, <4>2
    <3>4. call.op \in {"append", "finish"} => ~h'.failed
      <4>1. ASSUME call.op \in {"append", "finish"}, h'.failed PROVE FALSE
        <5>1. h # NoHandle
          BY <1>1, <4>1 DEF MoveInv, CallInv
        <5>2. x # NoHandle
          BY <3>5, <5>1
        <5>3. h.failed
          BY <1>1, <1>7, <3>1, <4>1, <5>2, MoveLive
        <5>4. Now.m = "ABORT"
          BY <1>1, <4>1, <5>3 DEF OpenInv
        <5>5. Len(todo) = 1
          BY <1>1, <5>4, NowGoes DEF Goes
        <5> QED  BY <3>1, <5>5
      <4> QED  BY <4>1
    <3> QED  BY <1>1, <1>2, <3>1, <3>2, <3>3, <3>4, <3>6 DEF OpenInv
  <2> QED  BY <2>1, <2>2
<1> QED  BY <1>4, <1>5, <1>6, <1>7, ClientKinds

LEMMA OpenStep ==
    ASSUME WireInv, PlanInv, MoveInv, UpInv, OpenInv, [Next]_vars
    PROVE  OpenInv'
<1>1. CASE Server \/ UNCHANGED vars
  <2>1. UNCHANGED <<proto, todo, call, h, dir>>
    BY <1>1, ServerKeeps, ServerAsked DEF vars, serverVars, exchangeVars, listVars
  <2> QED  BY <2>1 DEF OpenInv, Busy, Now
<1>2. CASE Caller \/ Client
  <2>1. proto' = proto
    BY <1>2, CallerKinds, ClientKinds DEF serverVars
  <2> QED  BY <1>2, <2>1, CallerOpen, ClientOpen DEF OpenInv
<1> QED  BY <1>1, <1>2 DEF Next

LEMMA SiteStep ==
    ASSUME WireInv, PlanInv, MoveInv, SentInv, UpInv, SiteInv, [Next]_vars
    PROVE  SiteInv'
<1>1. proto' = proto
  BY CallerKinds, ClientKinds, ServerAsked DEF Next, vars, serverVars
<1>2. SUFFICES ASSUME proto = "s3" PROVE cols' = {} /\ \A r \in abandoned' : r.m # "MKCOL"
  BY <1>1 DEF SiteInv
<1>3. Busy => Now = todo[1] /\ 1 \in 1 .. Len(todo)
  BY HeadTail
<1>4. line.req # NoRequest => line.req.m # "MKCOL"
  BY <1>2, <1>3 DEF SentInv, UpInv
<1>5. CASE Caller
  BY <1>2, <1>5, CallerKinds DEF SiteInv, serverVars
<1>6. CASE Client
  <2>1. cols' = cols
    BY <1>6, ClientKinds DEF serverVars
  <2>2. \A r \in abandoned' : r \in abandoned \/ (line.req # NoRequest /\ r = line.req)
    <3>1. CASE Waits \/ TurnsPage \/ Ends \/ \E x : Moves(x)
      BY <3>1 DEF Waits, TurnsPage, Ends, Receive, Moves
    <3>2. CASE Repeats \/ Fails
      BY <3>2 DEF Repeats, HangUp, Fails, Leaves
    <3> QED  BY <1>6, <3>1, <3>2, ClientKinds
  <2> QED  BY <1>2, <1>4, <2>1, <2>2 DEF SiteInv
<1>7. CASE Server
  <2>1. abandoned' \subseteq abandoned /\ (UNCHANGED serverVars \/ \E r : Execute(r) /\ r.m # "MKCOL")
    BY <1>2, <1>4, <1>7, ServerAsked DEF SiteInv, Unserved
  <2>2. cols' = cols
    BY <2>1 DEF Execute, serverVars
  <2> QED  BY <1>2, <2>1, <2>2 DEF SiteInv
<1>8. CASE UNCHANGED vars
  BY <1>2, <1>8 DEF vars, netVars, serverVars, SiteInv
<1> QED  BY <1>5, <1>6, <1>7, <1>8 DEF Next

-----------------------------------------------------------------------------
(* What is left behind of an open upload.                                  *)

\* What a request carries.
LEMMA RequestIs ==
    /\ Request.m = Now.m /\ Request.path = Now.path
    /\ Now.m = "PART" => Request.n = Len(h.etags) + 1
    /\ Now.m = "PART" /\ call.op # "put" => Request.data = h.body
    /\ Now.m = "COMPLETE" => Request.etags = h.etags
    /\ Now.m = "LIST" => Request.tok = token
    /\ h # NoHandle => Request.up = h.upload
BY DEF Request

\* A call that ends with its answer is about no upload.
LEMMA EndsIdle ==
    ASSUME PlanInv, MoveInv, OpenInv, Busy, proto = "s3", Ends
    PROVE  h = NoHandle /\ h' = NoHandle
<1>1. Now = todo[1] /\ 1 \in 1 .. Len(todo)
  BY HeadTail
<1>2. Now.m \notin Pieces
  BY DEF Ends, Pieces
<1>3. call.op \notin {"append", "finish", "abort"}
  BY <1>1, <1>2 DEF OpenInv
<1> QED  BY <1>3 DEF OpenInv, Ends

LEMMA LateUpStep ==
    ASSUME WireInv, PlanInv, StoresInv, ReqInv, UpInv, OpenInv, LateInv, LateUpInv, [Next]_vars
    PROVE  LateUpInv'
<1> USE DEF StoresInv
<1>1. proto' = proto
  BY CallerKinds, ClientKinds, ServerAsked DEF Next, vars, serverVars
<1>2. SUFFICES ASSUME proto = "s3", Live'
               PROVE  \A r \in abandoned' :
                         /\ r.m \notin {"INITIATE", "COMPLETE"}
                         /\ r.m = "ABORT" => Busy' /\ call'.op = "abort"
                         /\ r.m = "PART" => LatePart(r)'
  BY <1>1 DEF LateUpInv
<1>3. CASE Caller
  BY <1>3, CallerKinds
<1>4. ASSUME UNCHANGED <<todo, call, h>>, abandoned' \subseteq abandoned
      PROVE  \A r \in abandoned' :
                         /\ r.m \notin {"INITIATE", "COMPLETE"}
                         /\ r.m = "ABORT" => Busy' /\ call'.op = "abort"
                         /\ r.m = "PART" => LatePart(r)'
  <2>1. Live /\ Busy' = Busy /\ Now' = Now
    BY <1>2, <1>4 DEF Live, Busy, Now
  <2>2. \A r : LatePart(r)' = LatePart(r)
    BY <1>4, <2>1 DEF LatePart
  <2> QED  BY <1>2, <1>4, <2>1, <2>2 DEF LateUpInv
<1>5. CASE Server
  <2>1. abandoned' \subseteq abandoned
    BY <1>5, ServerKinds DEF Answers, Lingers, Closes
  <2> QED  BY <1>4, <1>5, <2>1, ServerKeeps
<1>6. CASE Client
  <2>1. Busy
    BY <1>6, ClientKinds
  <2>2. CASE Waits \/ TurnsPage
    <3>1. abandoned' = abandoned /\ UNCHANGED <<todo, call, h>>
      BY <2>2 DEF Waits, TurnsPage, Receive
    <3> QED  BY <1>4, <3>1
  <2>3. CASE Repeats
    <3>1. UNCHANGED <<todo, call, h>> /\ Idempotent(Now.m)
      BY <2>3 DEF Repeats
    <3>2. Live /\ Busy' = Busy /\ Now' = Now
      BY <1>2, <3>1 DEF Live, Busy, Now
    <3>3. \A r : LatePart(r)' = LatePart(r)
      BY <3>1, <3>2 DEF LatePart
    <3>4. \A r \in abandoned' : r \in abandoned \/ (line.req # NoRequest /\ r = Request)
      BY <2>3 DEF Repeats, HangUp, ReqInv
    <3>5. call.op \in {"append", "finish", "abort"} /\ Now = todo[1] /\ 1 \in 1 .. Len(todo)
      BY <1>2, <2>1, <3>2, HeadTail DEF OpenInv, Live
    <3>6. Now.m \notin {"INITIATE", "COMPLETE"}
      BY <3>1 DEF Idempotent
    <3>7. Now.m = "ABORT" => call.op = "abort"
      <4>1. Goes(Now, Len(todo) = 1) /\ Ready(Now.m)
        BY <2>1, NowGoes
      <4>2. call.op = "finish" => last.op = "put"
        BY <2>1 DEF MoveInv, CallInv
      <4> QED  BY <3>2, <4>1, <4>2 DEF Goes, Ready, Live
    <3>8. Now.m = "PART" => LatePart(Request)
      BY <2>1, <3>2, <3>5, RequestIs DEF LatePart, Live
    <3> QED  BY <1>2, <2>1, <3>1, <3>2, <3>3, <3>4, <3>6, <3>7, <3>8, RequestIs DEF LateUpInv
  <2>4. CASE Fails
    BY <1>2, <2>1, <2>4, FailDead DEF Fails
  <2>5. CASE Ends
    BY <1>2, <2>1, <2>5, EndsIdle DEF Live
  <2>6. ASSUME NEW x, Moves(x)
        PROVE  \A r \in abandoned' :
                         /\ r.m \notin {"INITIATE", "COMPLETE"}
                         /\ r.m = "ABORT" => Busy' /\ call'.op = "abort"
                         /\ r.m = "PART" => LatePart(r)'
    <3>1. Live /\ h' = x /\ Now.m \in {"INITIATE", "PART"} /\ abandoned' = abandoned
      BY <1>2, <2>1, <2>6, MoveLive DEF Moves
    <3>2. call.op # "abort"
      <4>1. Now = todo[1] /\ 1 \in 1 .. Len(todo)
        BY <2>1, HeadTail
      <4> QED  BY <3>1, <4>1 DEF UpInv
    <3>3. CASE Now.m = "INITIATE"
      BY <2>1, <3>1, <3>3 DEF LateInv
    <3>4. CASE Now.m = "PART"
      <4>1. h \in HandleType /\ h.etags \in Seq(Seq(Chunk)) /\ h.body \in Seq(Chunk)
        <5>1. h \in HandleType
          BY <3>1 DEF Live, MoveInv, HandleInv, Holds
        <5> QED  BY <5>1, IsHandle
      <4>2. x = Emptied([h EXCEPT !.etags = Append(@, line.ans.data)]) /\ line.ans.st = "ok"
            /\ line.ans # NoAnswer
        BY <2>6, <3>4 DEF Moves, Brings, Live
      <4>3. line.ans.data = h.body
        BY <3>4, <4>2 DEF AnswerInv, Right
      <4>4. h'.etags = Append(h.etags, h.body) /\ h'.upload = h.upload
        BY <3>1, <4>1, <4>2, <4>3 DEF HandleType, Emptied
      <4>5. \A n \in DOMAIN h.etags : n \in DOMAIN h'.etags /\ h'.etags[n] = h.etags[n]
        BY <4>1, <4>4
      <4>6. Len(h.etags) + 1 \in DOMAIN h'.etags /\ h'.etags[Len(h.etags) + 1] = h.body
        BY <4>1, <4>4
      <4>7. \A r : LatePart(r) => LatePart(r)'
        BY <4>4, <4>5, <4>6 DEF LatePart
      <4> QED  BY <1>2, <3>1, <3>2, <4>7 DEF LateUpInv
    <3> QED  BY <3>1, <3>3, <3>4
  <2> QED  BY <1>6, <2>2, <2>3, <2>4, <2>5, <2>6, ClientKinds
<1>7. CASE UNCHANGED vars
  BY <1>4, <1>7 DEF vars, netVars, exchangeVars
<1> QED  BY <1>3, <1>5, <1>6, <1>7 DEF Next

-----------------------------------------------------------------------------
(* The open upload stays one that can be completed.                        *)

LEMMA SameAt ==
    ASSUME NEW S, NEW s \in Seq(S), NEW n \in DOMAIN s
    PROVE  [s EXCEPT ![n] = s[n]] = s
OBVIOUS

\* A part that is carried out, new or again.
LEMMA PartKept ==
    ASSUME NetInv, OpenInv, StoresInv, Live, Kept, NEW r, Execute(r), r.m = "PART", LatePart(r),
           UNCHANGED <<todo, call, h>>
    PROVE  /\ uploads'[h.upload] # NoUpload
           /\ \/ uploads'[h.upload].parts = uploads[h.upload].parts
              \/ /\ uploads'[h.upload].parts = Append(h.etags, h.body)
                 /\ Busy /\ Now.m = "PART"
           /\ r.n = Len(h.etags) + 1 => uploads'[h.upload].parts = Append(h.etags, h.body)
<1> USE DEF StoresInv
<1> DEFINE u == h.upload
           p == uploads[u].parts
           q == IF r.n \in DOMAIN p THEN [p EXCEPT ![r.n] = r.data] ELSE Append(p, r.data)
           S == Seq(Chunk)
<1>1. h \in HandleType /\ h.etags \in Seq(S) /\ h.body \in S
  <2>1. h \in HandleType
    BY DEF Live, MoveInv, HandleInv, Holds
  <2> QED  BY <2>1, IsHandle
<1>2. u \in Upload /\ uploads[u] # NoUpload /\ uploads[u] \in UploadType /\ DOMAIN uploads = Upload
  BY DEF Kept, NetInv
<1>3. p \in Seq(S) /\ uploads[u] = [key |-> uploads[u].key, parts |-> p]
  BY <1>2 DEF UploadType
<1>4. StatusOf(r) = "ok" /\ r.up = u
  BY <1>2 DEF StatusOf, LatePart
<1>5. uploads' = [uploads EXCEPT ![u].parts = q]
  BY <1>4 DEF Execute
<1>6. p = h.etags \/ (p = Append(h.etags, h.body) /\ Busy /\ Now.m = "PART")
  BY DEF Kept
<1>7. \/ r.n \in DOMAIN h.etags /\ r.data = h.etags[r.n]
      \/ Busy /\ Now.m = "PART" /\ r.n = Len(h.etags) + 1 /\ r.data = h.body
  BY DEF LatePart
<1>8. /\ q = p \/ (q = Append(h.etags, h.body) /\ Busy /\ Now.m = "PART")
      /\ r.n = Len(h.etags) + 1 => q = Append(h.etags, h.body)
      /\ q \in Seq(S)
  <2> DEFINE e == h.etags
             b == h.body
  <2>1. e \in Seq(S) /\ b \in S
    BY <1>1
  <2> HIDE DEF p, S, e, b
  <2>2. CASE p = e
    <3>1. r.n \in DOMAIN e => r.data = e[r.n] /\ q = e /\ r.n # Len(e) + 1
      BY <1>7, <2>1, <2>2, SameAt DEF e, b
    <3>2. r.n \notin DOMAIN e => r.data = b /\ q = Append(e, b) /\ Busy /\ Now.m = "PART"
      BY <1>7, <2>1, <2>2 DEF e, b
    <3>3. Append(e, b) \in Seq(S)
      BY <2>1
    <3> HIDE DEF q
    <3> QED  BY <2>1, <2>2, <3>1, <3>2, <3>3 DEF e, b
  <2>3. CASE p = Append(e, b) /\ Busy /\ Now.m = "PART"
    <3>1. r.n \in DOMAIN p /\ r.data = p[r.n]
      <4>1. /\ \A n \in DOMAIN e : n \in DOMAIN Append(e, b) /\ Append(e, b)[n] = e[n]
            /\ Len(e) + 1 \in DOMAIN Append(e, b) /\ Append(e, b)[Len(e) + 1] = b
        BY <2>1
      <4> QED  BY <1>7, <2>3, <4>1 DEF e, b
    <3>2. q = p
      BY <1>3, <3>1, SameAt
    <3> HIDE DEF q
    <3> QED  BY <1>3, <2>3, <3>2 DEF e, b
  <2> QED  BY <1>6, <2>2, <2>3 DEF e, b
<1> HIDE DEF p, q, S
<1>9. [uploads[u] EXCEPT !.parts = q] = [key |-> uploads[u].key, parts |-> q]
  BY <1>3
<1>10. uploads'[u] = [key |-> uploads[u].key, parts |-> q]
  BY <1>2, <1>5, <1>9
<1>11. uploads'[u] # NoUpload
  <2>1. [key |-> uploads[u].key, parts |-> q] \in [key : Key, parts : Seq(Seq(Chunk))]
    BY <1>2, <1>8 DEF UploadType, S
  <2> QED  BY <1>10, <2>1, UploadAssumption
<1>12. uploads'[u].parts = q
  BY <1>10
<1> QED  BY <1>8, <1>11, <1>12 DEF p

\* What UploadInv says of an open upload between calls, and of the next call.
LEMMA UploadBegins ==
    ASSUME UploadInv, proto = "s3", Live, ~Busy, UNCHANGED <<proto, uploads>>, line' = Quiet,
           h'.upload = h.upload, h'.etags = h.etags,
           Busy' /\ call'.op = "append" => Len(h'.body) >= PartSize
    PROVE  UploadInv'
<1>1. \A m : ~Executed(m) /\ ~Executed(m)'
  BY DEF Executed, Quiet
<1>2. /\ h.upload = NoUpload => FreeUploads # {}
      /\ h.upload # NoUpload =>
             /\ h.upload \in Upload /\ uploads[h.upload] # NoUpload
             /\ uploads[h.upload].parts = h.etags /\ h.etags # <<>>
      /\ \A n \in DOMAIN h.etags : Len(h.etags[n]) >= PartSize
  BY <1>1 DEF UploadInv, Kept
<1>3. FreeUploads' = FreeUploads
  BY DEF FreeUploads
<1> QED  BY <1>1, <1>2, <1>3 DEF UploadInv, Kept

LEMMA CallerUpload ==
    ASSUME WireInv, PlanInv, MoveInv, UploadInv, Caller, proto = "s3"
    PROVE  UploadInv'
<1>1. ~Busy /\ line' = Quiet /\ UNCHANGED <<proto, uploads>>
  BY CallerKinds DEF serverVars
<1>2. SUFFICES ASSUME Live' PROVE UploadInv'
  BY <1>1 DEF UploadInv
<1>3. CASE Shuts
  <2>1. ~Busy' /\ h' = h
    BY <1>3 DEF Shuts, Busy
  <2> QED  BY <1>1, <1>2, <2>1, UploadBegins DEF Live
<1>4. ASSUME NEW c, Begins(c) PROVE UploadInv'
  <2>1. Ask(c) /\ Handled(c)
    BY <1>4 DEF Begins
  <2>2. Busy' => call' = c /\ Plan(c) # <<>> /\ todo' = Plan(c)
    BY <2>1 DEF Ask, Busy, Proceed
  <2>3. CASE c.op = "open"
    <3>1. Plan(c) = <<>>
      BY <1>1, <2>3 DEF Plan, PlanS3
    <3> QED  BY <1>1, <1>2, <2>1, <2>2, <2>3, <3>1, UploadBegins DEF Live, Handled
  <2>4. CASE c.op \in {"put", "get", "exists", "remove", "list", "mkcol"}
    BY <1>2, <2>1, <2>4 DEF Live, Handled
  <2>5. CASE c.op = "begin"
    <3>1. Plan(c) = <<>>
      BY <1>1, <2>5 DEF Plan, PlanS3
    <3>2. ~Busy' /\ FreeUploads # {} /\ h' = NewHandle(c.key, c.data)
      BY <1>1, <2>1, <2>2, <2>5, <3>1 DEF Handled
    <3>3. FreeUploads' # {}
      BY <1>1, <3>2 DEF FreeUploads
    <3>4. h'.upload = NoUpload /\ DOMAIN h'.etags = {}
      BY <3>2 DEF NewHandle
    <3>5. \A m : ~Executed(m)'
      BY <3>2 DEF Executed
    <3> QED  BY <3>2, <3>3, <3>4, <3>5 DEF UploadInv
  <2>6. CASE c.op = "append"
    <3>1. Live /\ h'.upload = h.upload /\ h'.etags = h.etags /\ h'.body = h.body \o c.data
      <4>1. h \in HandleType /\ ~h.failed
        BY <2>1, <2>6 DEF Handled
      <4> QED  BY <1>1, <2>1, <2>6, <4>1, HandleNotNone DEF Live, Handled
    <3>2. Busy' => Len(h'.body) >= PartSize
      BY <1>1, <2>2, <2>6, <3>1 DEF Plan, PlanS3, PartDue
    <3> QED  BY <1>1, <3>1, <3>2, UploadBegins
  <2>7. CASE c.op = "finish"
    BY <1>1, <1>2, <2>1, <2>2, <2>7, UploadBegins DEF Live, Handled
  <2>8. CASE c.op = "abort"
    BY <1>1, <1>2, <2>1, <2>2, <2>8, UploadBegins DEF Live, Handled
  <2> QED  BY <2>1, <2>3, <2>4, <2>5, <2>6, <2>7, <2>8 DEF Handled
<1> QED  BY <1>3, <1>4, CallerKinds

\* A step that leaves the upload as it is, and no answer that matters.
LEMMA UploadSame ==
    ASSUME UploadInv, UNCHANGED <<proto, uploads, todo, call, h>>, line'.ans = NoAnswer,
           ~Executed("INITIATE"), ~Executed("COMPLETE")
    PROVE  UploadInv'
<1>1. Busy' = Busy /\ Now' = Now /\ Live' = Live /\ FreeUploads' = FreeUploads
  BY DEF Busy, Now, Live, FreeUploads
<1>2. \A m : ~Executed(m)'
  BY DEF Executed
<1>3. Kept => Kept'
  BY <1>1, <1>2 DEF Kept
<1> QED  BY <1>1, <1>2, <1>3 DEF UploadInv

LEMMA ClientUpload ==
    ASSUME WireInv, PlanInv, StoresInv, UpInv, CountInv, OpenInv, UploadInv, Client, proto = "s3"
    PROVE  UploadInv'
<1> USE DEF StoresInv
<1>1. Busy /\ UNCHANGED <<proto, uploads>> /\ Now = todo[1] /\ 1 \in 1 .. Len(todo)
  BY ClientKinds, HeadTail DEF serverVars
<1>2. SUFFICES ASSUME Live' PROVE UploadInv'
  BY <1>1 DEF UploadInv
<1>3. CASE Waits
  <2>1. line'.ans = NoAnswer /\ line.ans = NoAnswer /\ UNCHANGED <<todo, call, h>>
    BY <1>3, ClientQuiet DEF Waits, Quiet
  <2> QED  BY <1>1, <2>1, UploadSame DEF Executed
<1>4. CASE TurnsPage
  <2>1. line' = Quiet /\ Now.m = "LIST" /\ UNCHANGED <<todo, call, h>>
    BY <1>4 DEF TurnsPage, Receive
  <2> QED  BY <1>1, <2>1, UploadSame DEF Executed, Quiet
<1>5. CASE Repeats
  <2>1. line' = Quiet /\ Now.m \notin {"INITIATE", "COMPLETE"} /\ UNCHANGED <<todo, call, h>>
    BY <1>5 DEF Repeats, HangUp, Idempotent
  <2> QED  BY <1>1, <2>1, UploadSame DEF Executed, Quiet
<1>6. CASE Fails
  BY <1>1, <1>2, <1>6, FailDead DEF Fails
<1>7. CASE Ends
  BY <1>1, <1>2, <1>7, EndsIdle DEF Live
<1>8. ASSUME NEW x, Moves(x) PROVE UploadInv'
  <2>1. /\ Live /\ h' = x /\ Now.m \in {"INITIATE", "PART"} /\ line' = Quiet
        /\ Brings(x) /\ Advance(x)
    BY <1>1, <1>2, <1>8, MoveLive DEF Moves
  <2>2. /\ \/ todo' = Tail(todo) /\ Len(todo) > 1 /\ call' = call /\ Busy'
           \/ ~Busy' /\ Len(todo) = 1
        /\ Goes(Now, Len(todo) = 1) /\ Len(todo) \in Nat
        /\ Len(todo) > 1 => Goes(todo[2], Len(todo) = 2)
    BY <1>1, <1>8, MoveLive, NowGoes
  <2>3. /\ h \in HandleType /\ Joined(h) /\ h.etags \in Seq(Seq(Chunk)) /\ h.body \in Seq(Chunk)
    <3>1. h \in HandleType /\ Joined(h)
      BY <1>1, <2>1 DEF Live, MoveInv, HandleInv, Holds
    <3> QED  BY <3>1, IsHandle
  <2>4. \A m : ~Executed(m)'
    BY <2>1 DEF Executed, Quiet
  <2>5. CASE Now.m = "INITIATE"
    <3>1. x = [h EXCEPT !.upload = line.ans.id] /\ line.ans.st = "ok" /\ line.ans # NoAnswer
      BY <2>1, <2>5 DEF Brings
    <3>2. Executed("INITIATE")
      BY <1>1, <2>5, <3>1 DEF Executed
    <3>3. /\ line.ans.id \in Upload /\ uploads[line.ans.id] # NoUpload
          /\ uploads[line.ans.id].parts = <<>>
      BY <2>1, <3>1, <3>2 DEF CountInv, UploadInv
    <3>4. h'.upload = line.ans.id /\ h'.etags = h.etags /\ h'.body = h.body
      BY <2>1, <2>3, <3>1 DEF HandleType
    <3>5. h.etags = <<>>
      BY <1>1, <2>3, <2>5 DEF UpInv, Joined
    <3>6. DOMAIN h'.etags = {} /\ h'.upload # NoUpload
      BY <3>3, <3>4, <3>5, UploadAssumption
    <3>7. Len(todo) > 1
      <4>1. Len(todo) # 1
        BY <2>2, <2>5 DEF Goes
      <4> QED  BY <2>2, <4>1
    <3>8. todo' = Tail(todo) /\ call' = call /\ Busy'
      BY <2>2, <3>7
    <3>9. Now'.m = "PART"
      <4>1. Now' = todo[2] /\ 1 \in 1 .. Len(todo) - 1
        BY <1>1, <3>7, <3>8, NextStep
      <4> QED  BY <1>1, <2>5, <4>1 DEF OpenInv
    <3>10. Kept'
      BY <1>1, <2>4, <3>3, <3>4, <3>5 DEF Kept
    <3> QED  BY <1>1, <2>1, <2>4, <3>4, <3>6, <3>8, <3>9, <3>10 DEF UploadInv
  <2>6. CASE Now.m = "PART"
    <3>1. x = Emptied([h EXCEPT !.etags = Append(@, line.ans.data)]) /\ line.ans.st = "ok"
          /\ line.ans # NoAnswer
      BY <2>1, <2>6 DEF Brings, Live
    <3>2. line.ans.data = h.body
      BY <2>6, <3>1 DEF AnswerInv, Right
    <3>3. h'.etags = Append(h.etags, h.body) /\ h'.upload = h.upload
      BY <2>1, <2>3, <3>1, <3>2 DEF HandleType, Emptied
    <3>4. Executed("PART") /\ ~Executed("COMPLETE")
      BY <1>1, <2>6, <3>1 DEF Executed
    <3>5. h.upload # NoUpload /\ call.op # "abort"
      BY <1>1, <2>2, <2>6, NowGoes DEF Ready, Goes
    <3>6. h.upload \in Upload /\ uploads[h.upload] # NoUpload
          /\ uploads[h.upload].parts = Append(h.etags, h.body)
      BY <2>1, <3>1, <3>4, <3>5 DEF UploadInv, Kept
    <3>7. Kept'
      BY <1>1, <2>4, <3>3, <3>6 DEF Kept
    <3>8. h'.etags # <<>>
      <4>1. Len(h'.etags) = Len(h.etags) + 1 /\ Len(h.etags) \in Nat
        BY <2>3, <3>3
      <4> QED  BY <4>1
    <3>9. CASE Busy'
      <4>1. todo' = Tail(todo) /\ Len(todo) > 1 /\ call' = call
        BY <2>2, <3>9
      <4>2. Now' = todo[2] /\ 1 \in 1 .. Len(todo) - 1
        BY <1>1, <4>1, NextStep
      <4>3. Now'.m = "COMPLETE"
        BY <1>1, <2>6, <4>2 DEF OpenInv
      <4>4. call'.op = "finish"
        BY <2>2, <4>1, <4>2, <4>3 DEF Goes
      <4>5. \A n \in DOMAIN h'.etags :
                Len(h'.etags[n]) >= PartSize \/ n = Len(h'.etags)
        <5>1. \A n \in DOMAIN h.etags : Len(h.etags[n]) >= PartSize
          BY <2>1, <2>6 DEF UploadInv
        <5>2. \A n \in DOMAIN h'.etags :
                  n = Len(h'.etags) \/ (n \in DOMAIN h.etags /\ h'.etags[n] = h.etags[n])
          BY <2>3, <3>3
        <5> QED  BY <5>1, <5>2
      <4> QED  BY <2>4, <3>3, <3>5, <3>7, <3>8, <3>9, <4>3, <4>4, <4>5 DEF UploadInv
    <3>10. CASE ~Busy'
      <4>1. Len(todo) = 1
        BY <2>2, <3>10
      <4>2. call.op = "append"
        BY <1>2, <2>1, <2>2, <2>6, <4>1 DEF Advance, Live, Goes
      <4>3. \A n \in DOMAIN h'.etags : Len(h'.etags[n]) >= PartSize
        <5>1. (\A n \in DOMAIN h.etags : Len(h.etags[n]) >= PartSize) /\ Len(h.body) >= PartSize
          BY <1>1, <2>1, <2>6, <4>2 DEF UploadInv
        <5>2. \A n \in DOMAIN h'.etags :
                  \/ h'.etags[n] = h.body
                  \/ n \in DOMAIN h.etags /\ h'.etags[n] = h.etags[n]
          BY <2>3, <3>3
        <5> QED  BY <5>1, <5>2
      <4> QED  BY <2>4, <3>3, <3>5, <3>7, <3>8, <3>10, <4>3 DEF UploadInv
    <3> QED  BY <3>9, <3>10
  <2> QED  BY <2>1, <2>5, <2>6
<1> QED  BY <1>3, <1>4, <1>5, <1>6, <1>7, <1>8, ClientKinds

\* What the server does of it all that matters to uploads.
LEMMA ExecuteKinds ==
    ASSUME UpInv, NEW r, Execute(r)
    PROVE  /\ r.m \notin {"INITIATE", "PART", "COMPLETE", "ABORT"} => uploads' = uploads
           /\ r.m # "INITIATE" /\ FreeUploads # {} => FreeUploads' # {}
<1>1. DOMAIN uploads = Upload
  BY DEF UpInv
<1>2. r.m # "INITIATE" => \A u \in Upload : uploads[u] = NoUpload => uploads'[u] = NoUpload
  BY <1>1, ExecuteUploads
<1>3. r.m \notin {"INITIATE", "PART", "COMPLETE", "ABORT"} => uploads' = uploads
  BY DEF Execute
<1> QED  BY <1>2, <1>3 DEF FreeUploads

\* What a request about an open upload can be.
LEMMA UploadAsks ==
    ASSUME PlanInv, MoveInv, UpInv, OpenInv, Live, Busy, proto = "s3"
    PROVE  /\ call.op \in {"append", "finish", "abort"}
           /\ \/ Now.m = "INITIATE" /\ h.upload = NoUpload
              \/ Now.m \in {"PART", "COMPLETE"}
              \/ Now.m = "PUT" /\ h.upload = NoUpload
              \/ Now.m = "ABORT" /\ call.op = "abort"
<1>1. Now = todo[1] /\ 1 \in 1 .. Len(todo) /\ Goes(Now, Len(todo) = 1) /\ Ready(Now.m)
  BY HeadTail, NowGoes
<1>2. call.op \in {"append", "finish", "abort"}
  BY DEF OpenInv, Live
<1>3. Now.m \in Pieces
  BY <1>1, <1>2 DEF OpenInv
<1>4. Now.m = "PUT" => h.upload = NoUpload
  BY <1>1, <1>2 DEF Goes, UpInv
<1>5. Now.m = "INITIATE" => h.upload = NoUpload
  BY <1>1 DEF UpInv
<1>6. Now.m = "ABORT" => call.op = "abort"
  <2>1. call.op = "finish" => last.op = "put"
    BY DEF MoveInv, CallInv
  <2> QED  BY <1>1, <2>1 DEF Goes, Ready, Live
<1> QED  BY <1>2, <1>3, <1>4, <1>5, <1>6 DEF Pieces

\* An upload that is not disturbed.
LEMMA UploadKeeps ==
    ASSUME UploadInv, proto = "s3", Live, UNCHANGED <<proto, todo, call, h>>,
           h.upload = NoUpload => FreeUploads' # {} \/ Executed("INITIATE")',
           h.upload # NoUpload =>
               (Busy /\ call.op = "abort") \/ Executed("COMPLETE")' \/ Kept',
           Executed("INITIATE")' /\ line'.ans.st = "ok" => uploads'[line'.ans.id].parts = <<>>
    PROVE  UploadInv'
<1>1. Busy' = Busy /\ Now' = Now /\ Live' = Live
  BY DEF Busy, Now, Live
<1> QED  BY <1>1 DEF UploadInv

LEMMA AnswerUpload ==
    ASSUME PlanInv, StoresInv, ReqInv, UpInv, NetInv, OpenInv, UploadInv, NEW b, Answers(b),
           UNCHANGED <<todo, call, h>>, proto = "s3", proto' = proto, Live
    PROVE  UploadInv'
<1> USE DEF StoresInv
<1>1. /\ line.req # NoRequest /\ line.ans = NoAnswer /\ line'.ans = b
      /\ Busy /\ line.req = Request /\ Busy' = Busy /\ Now' = Now /\ line.req.m = Now.m
  <2>1. line.req # NoRequest /\ line.ans = NoAnswer /\ line'.ans = b
    BY DEF Answers, Unserved
  <2> QED  BY <2>1 DEF SentInv, ReqInv, Busy, Now
<1>2. \A m : ~Executed(m)
  BY <1>1 DEF Executed
<1>3. b.st = "ok" => /\ Execute(line.req) /\ StatusOf(line.req) = "ok"
                     /\ b.id = AnswerTo(line.req).id
  <2>1. [AnswerTo(line.req) EXCEPT !.st = "unframed", !.names = {}, !.more = FALSE].st = "unframed"
    BY DEF AnswerTo
  <2>2. AnswerTo(line.req).st = StatusOf(line.req)
    BY DEF AnswerTo
  <2>3. /\ [AnswerTo(line.req) EXCEPT !.names = {}, !.more = TRUE].st = StatusOf(line.req)
        /\ [AnswerTo(line.req) EXCEPT !.names = {}, !.more = TRUE].id = AnswerTo(line.req).id
    BY DEF AnswerTo
  <2> QED  BY <2>1, <2>2, <2>3 DEF Answers, Answered
<1>4. (uploads' = uploads /\ b.st # "ok") \/ Execute(line.req)
  BY <1>3 DEF Answers, Answered, serverVars
<1>5. Now.m \in {"INITIATE", "COMPLETE"} => Executed(Now.m)'
  <2>1. Now.m \in {"INITIATE", "COMPLETE"} => StatusOf(line.req) # "none"
    BY <1>1 DEF StatusOf
  <2>2. AnswerTo(line.req).st = StatusOf(line.req)
    BY DEF AnswerTo
  <2>3. Now.m \in {"INITIATE", "COMPLETE"} => b.st # "none"
    BY <1>1, <2>1, <2>2 DEF Answers, Answered
  <2> QED  BY <1>1, <2>3 DEF Executed, NoAnswer
<1>6. h.upload = NoUpload => FreeUploads' # {} \/ Executed("INITIATE")'
  <2>1. h.upload = NoUpload => FreeUploads # {}
    BY <1>2 DEF UploadInv
  <2>2. uploads' = uploads => FreeUploads' = FreeUploads
    BY DEF FreeUploads
  <2> QED  BY <1>1, <1>4, <1>5, <2>1, <2>2, ExecuteKinds
<1>7. h.upload # NoUpload => (Busy /\ call.op = "abort") \/ Executed("COMPLETE")' \/ Kept'
  <2>1. SUFFICES ASSUME h.upload # NoUpload, call.op # "abort", Now.m # "COMPLETE" PROVE Kept'
    BY <1>1, <1>5
  <2>2. Now.m = "PART" /\ Kept
    BY <1>1, <1>2, <2>1, UploadAsks DEF UploadInv
  <2>3. h' = h /\ h.upload \in Upload
    BY <2>2 DEF Kept
  <2>4. CASE uploads' = uploads /\ b.st # "ok"
    BY <1>1, <2>2, <2>4 DEF Kept
  <2>5. CASE Execute(line.req)
    <3>1. call.op # "put" /\ h # NoHandle
      BY <1>1, UploadAsks DEF Live
    <3>2. LatePart(line.req) /\ line.req.n = Len(h.etags) + 1 /\ line.req.m = "PART"
      BY <1>1, <2>2, <3>1, RequestIs DEF LatePart
    <3>3. uploads'[h.upload] # NoUpload /\ uploads'[h.upload].parts = Append(h.etags, h.body)
      BY <2>2, <2>5, <3>2, PartKept
    <3> QED  BY <1>1, <2>2, <2>3, <3>3 DEF Kept
  <2> QED  BY <1>4, <2>4, <2>5
<1>8. Executed("INITIATE")' /\ line'.ans.st = "ok" => uploads'[line'.ans.id].parts = <<>>
  <2>1. SUFFICES ASSUME Now.m = "INITIATE", b.st = "ok" PROVE uploads'[b.id].parts = <<>>
    BY <1>1 DEF Executed
  <2>2. DOMAIN uploads = Upload
    BY DEF UpInv
  <2>3. /\ FreeUpload \in FreeUploads /\ FreeUpload \in Upload
        /\ uploads' = [uploads EXCEPT ![FreeUpload] = [key |-> line.req.path, parts |-> <<>>]]
    BY <1>1, <1>3, <2>1, <2>2, ExecuteUploads DEF FreeUploads
  <2>4. b.id = FreeUpload
    BY <1>1, <1>3, <2>1, <2>3 DEF AnswerTo
  <2> QED  BY <2>2, <2>3, <2>4
<1> QED  BY <1>6, <1>7, <1>8, UploadKeeps

LEMMA LingerUpload ==
    ASSUME PlanInv, StoresInv, UpInv, LateInv, NetInv, OpenInv, LateUpInv, UploadInv,
           NEW r, Lingers(r), UNCHANGED <<todo, call, h>>, proto = "s3", proto' = proto, Live
    PROVE  UploadInv'
<1> USE DEF StoresInv
<1>1. r \in abandoned /\ Execute(r) /\ line' = line /\ Busy' = Busy /\ Now' = Now
  BY DEF Lingers, Busy, Now
<1>2. \A m : Executed(m)' = Executed(m)
  BY <1>1 DEF Executed
<1>3. /\ r.m \notin {"INITIATE", "COMPLETE"}
      /\ r.m = "ABORT" => Busy /\ call.op = "abort"
      /\ r.m = "PART" => LatePart(r)
  BY <1>1 DEF LateUpInv
<1>4. h.upload = NoUpload => FreeUploads' # {} \/ Executed("INITIATE")'
  BY <1>1, <1>2, <1>3, ExecuteKinds DEF UploadInv
<1>5. h.upload # NoUpload => (Busy /\ call.op = "abort") \/ Executed("COMPLETE")' \/ Kept'
  <2>1. SUFFICES ASSUME Kept, r.m # "ABORT" PROVE Kept'
    BY <1>2, <1>3 DEF UploadInv
  <2>2. CASE r.m = "PART"
    <3>1. /\ uploads'[h.upload] # NoUpload
          /\ \/ uploads'[h.upload].parts = uploads[h.upload].parts
             \/ /\ uploads'[h.upload].parts = Append(h.etags, h.body)
                /\ Busy /\ Now.m = "PART"
      BY <1>1, <1>3, <2>1, <2>2, PartKept
    <3> QED  BY <1>1, <1>2, <2>1, <3>1 DEF Kept
  <2>3. CASE r.m # "PART"
    <3>1. uploads' = uploads
      BY <1>1, <1>3, <2>1, <2>3, ExecuteKinds
    <3> QED  BY <1>1, <1>2, <2>1, <3>1 DEF Kept
  <2> QED  BY <2>2, <2>3
<1>6. ~Executed("INITIATE")'
  <2>1. Busy => Now.m # "INITIATE"
    BY <1>1 DEF LateInv
  <2> QED  BY <1>2, <2>1 DEF Executed
<1> QED  BY <1>4, <1>5, <1>6, UploadKeeps

LEMMA ServerUpload ==
    ASSUME WireInv, PlanInv, StoresInv, ReqInv, UpInv, LateInv, NetInv, OpenInv, LateUpInv, UploadInv,
           Server, proto = "s3"
    PROVE  UploadInv'
<1>1. UNCHANGED <<todo, call, h>> /\ Busy' = Busy /\ Now' = Now /\ proto' = proto
  BY ServerKeeps, ServerAsked DEF serverVars
<1>2. SUFFICES ASSUME Live PROVE UploadInv'
  BY <1>1 DEF UploadInv, Live
<1>3. CASE Closes
  <2>1. UNCHANGED serverVars /\ (line' = line \/ (line.ans = NoAnswer /\ line' = Quiet))
    BY <1>3 DEF Closes
  <2>2. \A m : Executed(m)' = Executed(m)
    BY <1>1, <2>1 DEF Executed, Quiet
  <2>3. \A m : Executed(m) => line'.ans = line.ans
    BY <2>1 DEF Executed
  <2>4. FreeUploads' = FreeUploads /\ uploads' = uploads
    BY <2>1 DEF serverVars, FreeUploads
  <2>5. Kept => Kept'
    BY <1>1, <2>2, <2>3, <2>4 DEF Kept
  <2>6. h.upload = NoUpload => FreeUploads' # {} \/ Executed("INITIATE")'
    BY <1>2, <2>2, <2>4 DEF UploadInv
  <2>7. h.upload # NoUpload => (Busy /\ call.op = "abort") \/ Executed("COMPLETE")' \/ Kept'
    BY <1>2, <2>2, <2>5 DEF UploadInv
  <2>8. Executed("INITIATE")' /\ line'.ans.st = "ok" => uploads'[line'.ans.id].parts = <<>>
    BY <1>2, <2>2, <2>3, <2>4 DEF UploadInv
  <2> QED  BY <1>1, <1>2, <2>6, <2>7, <2>8, UploadKeeps
<1> QED  BY <1>1, <1>2, <1>3, AnswerUpload, LingerUpload, ServerKinds

LEMMA UploadStep ==
    ASSUME WireInv, PlanInv, StoresInv, ReqInv, UpInv, LateInv, CountInv, NetInv, OpenInv, LateUpInv,
           UploadInv, [Next]_vars
    PROVE  UploadInv'
<1>1. CASE UNCHANGED vars
  <2>1. UNCHANGED <<proto, uploads, todo, call, h, line>>
    BY <1>1 DEF vars, serverVars, exchangeVars, netVars
  <2>2. Busy' = Busy /\ Now' = Now /\ Live' = Live /\ FreeUploads' = FreeUploads
    BY <2>1 DEF Busy, Now, Live, FreeUploads
  <2>3. \A m : Executed(m)' = Executed(m)
    BY <2>1, <2>2 DEF Executed
  <2>4. Kept' = Kept
    BY <2>1, <2>2, <2>3 DEF Kept
  <2> QED  BY <2>1, <2>2, <2>3, <2>4 DEF UploadInv
<1>2. CASE Next
  <2>1. proto' = proto
    BY <1>2, CallerKinds, ClientKinds, ServerAsked DEF Next, serverVars, StoresInv
  <2>2. CASE proto = "s3"
    BY <1>2, <2>2, CallerUpload, ClientUpload, ServerUpload DEF Next, StoresInv
  <2> QED  BY <2>1, <2>2 DEF UploadInv
<1> QED  BY <1>1, <1>2

-----------------------------------------------------------------------------
(* Pages are full, and there are no more than a listing may take.          *)

LEMMA DirectoryNames == \A p \in Seq(Name) : Directory(p) \subseteq Name
<1>1. ASSUME NEW p \in Seq(Name), NEW k \in Key, IsStrictPrefix(p, k) PROVE k[Len(p) + 1] \in Name
  <2>1. k \in Seq(Name)
    BY KeyAssumption
  <2>2. Len(p) \in Nat /\ Len(k) \in Nat /\ Len(p) <= Len(k)
    BY <1>1, <2>1 DEF IsStrictPrefix, IsPrefix
  <2>3. Len(p) # Len(k)
    BY <1>1, <2>1 DEF IsStrictPrefix, IsPrefix
  <2>4. Len(p) + 1 \in 1 .. Len(k)
    BY <2>2, <2>3
  <2> QED  BY <2>1, <2>4
<1> QED  BY <1>1 DEF Directory

\* A page that is not the last is full, and something is left for the next.
LEMMA FullPage ==
    ASSUME IsFiniteSet(Name), cols = {}, proto = "s3", NEW r, r.path \in Seq(Name)
    PROVE  /\ Page(r) \subseteq Directory(r.path) \ r.tok
           /\ AnswerTo(r).more =>
                  /\ Cardinality(Page(r)) = PageSize
                  /\ \E e \in Directory(r.path) : e \notin r.tok \cup Page(r)
<1> DEFINE rest == Below(r.path) \ r.tok
           size == IF proto = "s3" /\ Cardinality(rest) > PageSize
                   THEN PageSize ELSE Cardinality(rest)
<1>1. Below(r.path) \subseteq Directory(r.path)
  BY DEF Below, Directory
<1>2. Below(r.path) \subseteq Name /\ Page(r) \subseteq rest
  <2>1. cols \subseteq Seq(Name)
    OBVIOUS
  <2> QED  BY <2>1, PageIsPart
<1>3. IsFiniteSet(rest) /\ Cardinality(rest) \in Nat
  <2>1. rest \in SUBSET Name
    BY <1>2
  <2> QED  BY <2>1, FS_Subset, FS_CardinalityType
<1>4. size \in Nat /\ size <= Cardinality(rest)
  <2> HIDE DEF rest
  <2> QED  BY <1>3, SizeAssumption
<1>5. Cardinality(Page(r)) = size
  <2>1. \E T \in SUBSET rest : Cardinality(T) = size
    <3> HIDE DEF rest, size
    <3> QED  BY <1>3, <1>4, SubsetOfSize
  <2>2. Page(r) = CHOOSE T \in SUBSET rest : Cardinality(T) = size
    BY DEF Page
  <2> HIDE DEF rest, size
  <2> QED  BY <2>1, <2>2
<1>6. ASSUME AnswerTo(r).more
      PROVE  Cardinality(Page(r)) = PageSize /\ \E e \in rest : e \notin Page(r)
  <2>1. rest # Page(r)
    BY <1>6 DEF AnswerTo
  <2> HIDE DEF rest
  <2>2. \E e \in rest : e \notin Page(r)
    BY <1>2, <2>1
  <2>3. size # Cardinality(rest)
    BY <1>2, <1>3, <1>5, <2>1, FS_Subset
  <2> QED  BY <1>5, <2>2, <2>3
<1> QED  BY <1>1, <1>2, <1>6

\* A WebDAV listing is one page.
LEMMA OnlyPage ==
    ASSUME IsFiniteSet(Name), cols \subseteq Seq(Name), proto = "webdav", NEW r, r.path \in Seq(Name)
    PROVE  ~AnswerTo(r).more
<1> DEFINE rest == Below(r.path) \ r.tok
<1>1. Below(r.path) \subseteq Name
  BY PageIsPart
<1>2. IsFiniteSet(rest) /\ Page(r) \in SUBSET rest
  <2>1. rest \in SUBSET Name /\ Page(r) \in SUBSET rest
    BY <1>1, PageIsPart
  <2> QED  BY <2>1, FS_Subset
<1>3. Cardinality(Page(r)) = Cardinality(rest)
  <2>1. Page(r) = CHOOSE T \in SUBSET rest : Cardinality(T) = Cardinality(rest)
    BY DEF Page
  <2> HIDE DEF rest
  <2>2. rest \in SUBSET rest
    OBVIOUS
  <2> QED  BY <2>1, <2>2
<1>4. rest = Page(r)
  <2> HIDE DEF rest
  <2> QED  BY <1>2, <1>3, FS_Subset
<1> QED  BY <1>4 DEF AnswerTo

LEMMA MorePaged ==
    ASSUME IsFiniteSet(Name), NEW S, S \subseteq Name, NEW T, T \subseteq Name, S \cap T = {},
           Cardinality(T) = PageSize, NEW k \in Nat, k * PageSize <= Cardinality(S)
    PROVE  (k + 1) * PageSize <= Cardinality(S \cup T)
<1>1. IsFiniteSet(S) /\ IsFiniteSet(T) /\ Cardinality(S) \in Nat
  BY FS_Subset, FS_CardinalityType
<1>2. Cardinality(S \cup T) = Cardinality(S) + PageSize
  <2>1. Cardinality(S \cap T) = 0
    BY FS_EmptySet
  <2>2. Cardinality(S \cup T) = Cardinality(S) + Cardinality(T) - Cardinality(S \cap T)
    BY <1>1, FS_Union
  <2> QED  BY <1>1, <2>1, <2>2, SizeAssumption
<1>3. PageSize \in Nat
  BY SizeAssumption
<1>4. (k + 1) * PageSize = k * PageSize + PageSize /\ k * PageSize \in Nat
  BY <1>3
<1> QED  BY <1>1, <1>2, <1>3, <1>4

LEMMA PagesLast ==
    ASSUME IsFiniteSet(Name), NEW D, D \subseteq Name, NEW S, S \subseteq D, NEW e \in D \ S,
           Cardinality(D) <= MaxPages * PageSize, NEW n \in Nat, n * PageSize <= Cardinality(S)
    PROVE  n < MaxPages
<1>1. IsFiniteSet(D) /\ S \in SUBSET D /\ S # D
  BY FS_Subset
<1>2. Cardinality(S) < Cardinality(D) /\ Cardinality(S) \in Nat /\ Cardinality(D) \in Nat
  <2>1. Cardinality(S) <= Cardinality(D) /\ Cardinality(S) # Cardinality(D)
    BY <1>1, FS_Subset
  <2>2. Cardinality(S) \in Nat /\ Cardinality(D) \in Nat
    BY <1>1, FS_Subset, FS_CardinalityType
  <2> QED  BY <2>1, <2>2
<1>3. PageSize \in Nat /\ MaxPages \in Nat
  BY SizeAssumption, PagesAssumption
<1>4. SUFFICES ASSUME n >= MaxPages PROVE FALSE
  BY <1>3
<1> DEFINE m == n - MaxPages
           b == MaxPages * PageSize
           z == m * PageSize
<1>5. m \in Nat /\ n = MaxPages + m
  BY <1>3, <1>4
<1>6. b \in Nat /\ z \in Nat
  <2> HIDE DEF m
  <2> QED  BY <1>3, <1>5
<1>7. n * PageSize = b + z
  <2> HIDE DEF m
  <2>1. (MaxPages + m) * PageSize = MaxPages * PageSize + m * PageSize
    BY <1>3, <1>5
  <2> QED  BY <1>5, <2>1
<1> HIDE DEF b, z
<1>8. b + z <= Cardinality(S)
  BY <1>7
<1>9. Cardinality(D) <= b
  BY DEF b
<1> QED  BY <1>2, <1>6, <1>8, <1>9

LEMMA ClientPage ==
    ASSUME IsFiniteSet(Name), WireInv, MoveInv, NetInv, ClientInv, PageInv, Client
    PROVE  PageInv'
<1>1. Busy /\ line'.ans = NoAnswer /\ proto' = proto
  BY ClientKinds, ClientQuiet DEF Quiet, serverVars
<1>2. dir' = dir
  BY DEF Client, ForceFresh, Connect, ConnectFails, Reuse, Send, SendFails, NoAnswerComes, Lose,
         Garbled, LeftOver, GoOn, GotContent, NotThere, GotPage, GotUpload, GotETag, Rejected, Dial,
         DialFails, SendChunk, ChunkFails, EndBody, EndBodyFails, listVars
<1>3. SUFFICES ASSUME proto = "s3", Busy'
               PROVE  /\ token' \subseteq Directory(dir)
                      /\ faulty' \/ pages' * PageSize <= Cardinality(token')
  BY <1>1, <1>2 DEF PageInv
<1>4. token \subseteq Directory(dir) /\ (faulty \/ pages * PageSize <= Cardinality(token))
  BY <1>1, <1>3 DEF PageInv
<1>5. CASE UNCHANGED listVars /\ (faulty => faulty')
  BY <1>4, <1>5 DEF listVars
<1>6. CASE TurnsPage
  <2>1. Now.m = "LIST" /\ GotPage /\ call' = call
    BY <1>6 DEF TurnsPage
  <2>2. Receive(line.ans) /\ token' = token \cup line.ans.names /\ pages' = pages + 1
    BY <2>1 DEF GotPage
  <2>3. line.ans.more
    <3>1. \A r : Return(r) => ~Busy'
      BY DEF Return, Busy
    <3> QED  BY <1>3, <2>1, <3>1 DEF GotPage, Truncated
  <2>4. line.ans # NoAnswer /\ faulty' = faulty
    BY <2>2 DEF Receive, NoAnswer
  <2>5. /\ line.ans.names \subseteq Directory(dir)
        /\ \/ faulty
           \/ Cardinality(line.ans.names) = PageSize /\ line.ans.names \cap token = {}
    BY <1>1, <1>3, <2>1, <2>3, <2>4 DEF PageInv
  <2>6. faulty \/ pages' * PageSize <= Cardinality(token')
    <3>1. token \subseteq Name /\ line.ans.names \subseteq Name /\ pages \in Nat
      BY <2>4 DEF NetInv, AnswerType, ClientInv
    <3>2. ASSUME ~faulty PROVE (pages + 1) * PageSize <= Cardinality(token \cup line.ans.names)
      BY <1>4, <2>5, <3>1, <3>2, MorePaged
    <3> QED  BY <2>2, <3>2
  <2> QED  BY <1>4, <2>2, <2>4, <2>5, <2>6
<1>7. CASE Ends
  BY <1>3, <1>7 DEF Ends, Return, Busy
<1>8. CASE Waits \/ Repeats \/ Fails \/ \E x : Moves(x)
  <2>1. UNCHANGED listVars /\ (faulty => faulty')
    BY <1>8 DEF Waits, Repeats, Fails, Blamed, Moves
  <2> QED  BY <1>5, <2>1
<1> QED  BY <1>6, <1>7, <1>8, ClientKinds

\* What the client asks next of a directory.
LEMMA ListAsks ==
    ASSUME PlanInv, MoveInv, OpenInv, Busy, Now.m = "LIST", proto = "s3"
    PROVE  Now.path = dir
<1>1. Now = todo[1] /\ 1 \in 1 .. Len(todo)
  BY HeadTail
<1> QED  BY <1>1 DEF OpenInv

LEMMA AnswerPage ==
    ASSUME IsFiniteSet(Name), WireInv, PlanInv, HeldInv, SentInv, MoveInv, ReqInv, OpenInv, SiteInv,
           ClientInv, NEW b, Answers(b), Now.m = "LIST"
    PROVE  /\ proto = "s3" =>
                  /\ b.names \subseteq Directory(dir)
                  /\ b.more =>
                         \/ faulty'
                         \/ /\ Cardinality(b.names) = PageSize
                            /\ b.names \cap token = {}
                            /\ \E e \in Directory(dir) : e \notin token \cup b.names
           /\ proto = "webdav" => faulty' \/ ~b.more
<1> DEFINE r == line.req
<1>1. /\ r # NoRequest /\ Busy /\ r = Request /\ r.m = "LIST" /\ r.path = Now.path /\ r.tok = token
  <2>1. r # NoRequest
    BY DEF Answers, Unserved
  <2>2. Busy /\ r = Request
    BY <2>1 DEF SentInv, ReqInv
  <2> QED  BY <2>1, <2>2, RequestIs
<1>2. Now.path \in Seq(Name)
  BY <1>1, HeadTail DEF PlanInv, Steps
<1>3. \/ b = AnswerTo(r)
      \/ faulty' /\ (b.names = {} \/ b.names = AnswerTo(r).names)
  <2>1. \A st : [AnswerTo(r) EXCEPT !.st = st].names = AnswerTo(r).names
    BY DEF AnswerTo
  <2>2. [AnswerTo(r) EXCEPT !.st = "unframed", !.names = {}, !.more = FALSE].names = {}
    BY DEF AnswerTo
  <2>3. [AnswerTo(r) EXCEPT !.names = {}, !.more = TRUE].names = {}
    BY DEF AnswerTo
  <2>4. CASE b = [AnswerTo(r) EXCEPT !.st = b.st] /\ faulty'
    BY <2>1, <2>4
  <2>5. CASE /\ faulty'
             /\ \/ b = [AnswerTo(r) EXCEPT !.st = "unframed", !.names = {}, !.more = FALSE]
                \/ b = [AnswerTo(r) EXCEPT !.names = {}, !.more = TRUE]
    BY <2>2, <2>3, <2>5
  <2>6. Answered(b)
    BY DEF Answers
  <2> QED  BY ONLY <2>4, <2>5, <2>6 DEF Answered
<1>4. AnswerTo(r).names = Page(r)
  BY <1>1 DEF AnswerTo
<1>5. CASE proto = "s3"
  <2>1. r.path = dir /\ dir \in Seq(Name) /\ cols = {}
    BY <1>1, <1>2, <1>5, ListAsks DEF SiteInv
  <2>2. /\ Page(r) \subseteq Directory(dir) \ token
        /\ AnswerTo(r).more =>
               /\ Cardinality(Page(r)) = PageSize
               /\ \E e \in Directory(dir) : e \notin token \cup Page(r)
    BY <1>1, <1>5, <2>1, FullPage
  <2> QED  BY <1>3, <1>4, <1>5, <2>2
<1>6. CASE proto = "webdav"
  <2>1. ~AnswerTo(r).more
    BY <1>1, <1>2, <1>6, OnlyPage DEF HeldInv
  <2> QED  BY <1>3, <1>6, <2>1
<1> QED  BY <1>5, <1>6

LEMMA ServerPage ==
    ASSUME IsFiniteSet(Name), WireInv, PlanInv, HeldInv, SentInv, MoveInv, ReqInv, OpenInv, SiteInv,
           ClientInv, PageInv, Server
    PROVE  PageInv'
<1>1. UNCHANGED <<dir, token, pages>> /\ Busy' = Busy /\ Now' = Now /\ proto' = proto
  BY ServerKeeps, ServerAsked DEF listVars
<1>2. faulty => faulty'
  BY ServerKinds DEF Answers, Answered, Lingers, Closes
<1>3. CASE line'.ans = NoAnswer \/ line' = line
  BY <1>1, <1>2, <1>3 DEF PageInv
<1>4. ASSUME NEW b, Answers(b) PROVE PageInv'
  <2>1. line'.ans = b
    BY <1>4 DEF Answers
  <2> QED  BY <1>1, <1>2, <1>4, <2>1, AnswerPage DEF PageInv
<1>5. CASE Closes \/ \E r : Lingers(r)
  BY <1>3, <1>5 DEF Closes, Lingers, Quiet
<1> QED  BY <1>4, <1>5, ServerKinds

LEMMA CallerPage ==
    ASSUME WireInv, MoveInv, Caller PROVE PageInv'
<1>1. line' = Quiet /\ line'.ans = NoAnswer
  BY CallerKinds DEF Quiet
<1>2. CASE Shuts
  BY <1>1, <1>2 DEF Shuts, Busy, PageInv
<1>3. ASSUME NEW c, Begins(c) PROVE PageInv'
  <2>1. token' = {} /\ pages' = 0
    BY <1>3 DEF Begins, Ask
  <2>2. pages' * PageSize <= Cardinality(token')
    BY <2>1, SizeAssumption, FS_EmptySet
  <2> QED  BY <1>1, <2>1, <2>2 DEF PageInv
<1> QED  BY <1>2, <1>3, CallerKinds

LEMMA PageStep ==
    ASSUME IsFiniteSet(Name), WireInv, PlanInv, HeldInv, StoresInv, ReqInv, NetInv, ClientInv,
           OpenInv, SiteInv, PageInv, [Next]_vars
    PROVE  PageInv'
<1>1. CASE UNCHANGED vars
  <2>1. UNCHANGED <<proto, todo, call, line, dir, token, pages, faulty>>
    BY <1>1 DEF vars, serverVars, exchangeVars, netVars, listVars, historyVars
  <2>2. Busy' = Busy /\ Now' = Now
    BY <2>1 DEF Busy, Now
  <2> QED  BY <2>1, <2>2 DEF PageInv
<1>2. CASE Next
  BY <1>2, CallerPage, ClientPage, ServerPage DEF Next, StoresInv
<1> QED  BY <1>1, <1>2

-----------------------------------------------------------------------------
(* A call fails only if something went wrong.                              *)

\* A request that is carried out, and answered as it is, is answered well.
LEMMA ServedWell ==
    ASSUME HeadLength = FALSE, WireInv, PlanInv, StoresInv, ReqInv, UpInv, NetInv, ColsInv, OpenInv,
           UploadInv, Unserved
    PROVE  Now.m = "ABORT" \/ Accepts(Now.m, StatusOf(line.req))
<1> USE DEF StoresInv
<1> DEFINE r == line.req
<1>1. r # NoRequest /\ Busy /\ r = Request /\ r.m = Now.m /\ r.path = Now.path /\ r.m \in Method
      /\ proto \in {"webdav", "s3"}
  <2>1. r # NoRequest
    BY DEF Unserved
  <2> QED  BY <2>1 DEF SentInv, ReqInv, NetInv, Asked, RequestType, StoreInv
<1>2. \A m : ~Executed(m)
  BY DEF Unserved, Executed
<1>3. Goes(Now, Len(todo) = 1) /\ Ready(Now.m) /\ Now = todo[1] /\ 1 \in 1 .. Len(todo)
  BY <1>1, NowGoes, HeadTail
<1>4. CASE Now.m = "MKCOL"
  BY <1>1, <1>4 DEF Accepts, StatusOf
<1>5. CASE Now.m \in {"GET", "EXISTS"}
  BY <1>1, <1>5 DEF Accepts, StatusOf
<1>6. CASE Now.m = "LIST"
  BY <1>1, <1>6 DEF Accepts, StatusOf
<1>7. CASE Now.m = "DELETE"
  BY <1>1, <1>7 DEF Accepts, StatusOf
<1>8. CASE Now.m \in {"PUT", "STREAM"}
  <2>1. proto = "s3" \/ CanCreate(r.path)
    BY <1>1, <1>8 DEF ColsInv
  <2> QED  BY <1>1, <1>8, <2>1 DEF Accepts, StatusOf
<1>9. CASE Now.m \in {"INITIATE", "PART", "COMPLETE"}
  <2>1. proto = "s3" /\ call.op \in {"append", "finish"} /\ h # NoHandle
    BY <1>1, <1>3, <1>9 DEF Goes, MoveInv, CallInv
  <2>2. Live
    BY <1>1, <1>9, <2>1 DEF OpenInv, Live
  <2>3. CASE Now.m = "INITIATE"
    <3>1. h.upload = NoUpload
      BY <1>3, <2>3 DEF UpInv
    <3>2. FreeUploads # {}
      BY <1>2, <2>1, <2>2, <3>1 DEF UploadInv
    <3> QED  BY <1>1, <2>3, <3>2 DEF Accepts, StatusOf
  <2>4. CASE Now.m \in {"PART", "COMPLETE"}
    <3>1. h.upload # NoUpload
      BY <1>3, <2>1, <2>4 DEF Ready, OpenInv
    <3>2. Kept /\ r.up = h.upload
      BY <1>1, <1>2, <2>1, <2>2, <3>1, RequestIs DEF UploadInv
    <3>3. CASE Now.m = "PART"
      BY <1>1, <3>2, <3>3 DEF Accepts, StatusOf, Kept
    <3>4. CASE Now.m = "COMPLETE"
      <4>1. r.etags = h.etags /\ uploads[h.upload].parts = h.etags
        BY <1>1, <3>2, <3>4, RequestIs DEF Kept
      <4>2. h.etags # <<>> /\ h.etags \in Seq(Seq(Chunk))
        <5>1. h \in HandleType
          BY <2>2 DEF Live, MoveInv, HandleInv, Holds
        <5> QED  BY <1>1, <2>1, <2>2, <3>1, <3>4, <5>1, IsHandle DEF UploadInv
      <4>3. Len(h.etags) \in 1 .. Len(h.etags)
        BY <4>2
      <4>4. \A n \in 1 .. Len(h.etags) : n < Len(h.etags) => Len(h.etags[n]) >= PartSize
        BY <2>1, <2>2, <4>2 DEF UploadInv
      <4>5. Completes(r)
        BY <3>2, <4>1, <4>3, <4>4 DEF Completes, Kept
      <4> QED  BY <1>1, <3>4, <4>5 DEF Accepts, StatusOf
    <3> QED  BY <2>4, <3>3, <3>4
  <2> QED  BY <1>9, <2>3, <2>4
<1> QED  BY <1>1, <1>4, <1>5, <1>6, <1>7, <1>8, <1>9 DEF Method

\* Whatever makes a step fail, something went wrong.
LEMMA Blameless ==
    ASSUME ConnInv, FaultInv, Busy, Blamed
    PROVE  Now.m = "ABORT" \/ faulty'
BY DEF ConnInv, FaultInv, Blamed, Retries

LEMMA AdvanceFaults ==
    ASSUME FaultInv, Busy, NEW x, Advance(x), call.op = "finish" /\ x.failed => h.failed,
           line'.ans = NoAnswer, faulty => faulty'
    PROVE  FaultInv'
<1>1. call.op = "finish" /\ x.failed => faulty'
  BY DEF FaultInv
<1>2. Said("ok") # Said("error")
  BY DEF Said
<1>3. CASE Len(todo) = 1
  BY <1>1, <1>2, <1>3 DEF Advance, Return, Busy, FaultInv
<1>4. CASE Len(todo) # 1
  BY <1>1, <1>4 DEF Advance, FaultInv
<1> QED  BY <1>3, <1>4

LEMMA FailFaults ==
    ASSUME PlanInv, MoveInv, ConnInv, FaultInv, Busy, Fails
    PROVE  FaultInv'
<1>1. Now.m = "ABORT" \/ faulty'
  BY Blameless DEF Fails
<1>2. line'.ans = NoAnswer /\ (faulty => faulty') /\ StepFails
  BY DEF Fails, Blamed, Quiet
<1>3. CASE faulty'
  BY <1>2, <1>3 DEF FaultInv
<1>4. CASE Now.m = "ABORT"
  BY <1>2, <1>4, AdvanceFaults DEF StepFails
<1> QED  BY <1>1, <1>3, <1>4

LEMMA MoveFaults ==
    ASSUME PlanInv, MoveInv, FaultInv, Busy, NEW x, Moves(x)
    PROVE  FaultInv'
<1>1. call.op = "finish" /\ x.failed => h.failed
  <2>1. SUFFICES ASSUME call.op = "finish" PROVE x.failed => h.failed
    OBVIOUS
  <2>2. Goes(Now, Len(todo) = 1)
    BY NowGoes
  <2>3. h \in HandleType
    BY <2>1 DEF MoveInv, CallInv, HandleInv, Holds
  <2>4. \A u : [h EXCEPT !.upload = u].failed = h.failed
    BY <2>3 DEF HandleType
  <2>5. \A e : Emptied([h EXCEPT !.etags = Append(@, e)]).failed = h.failed
    BY <2>3 DEF HandleType, Emptied
  <2> QED  BY <2>1, <2>2, <2>4, <2>5 DEF Moves, Brings, Goes
<1> QED  BY <1>1, AdvanceFaults DEF Moves, Quiet

LEMMA EndFaults ==
    ASSUME IsFiniteSet(Name), \A p \in Seq(Name) : Cardinality(Directory(p)) <= MaxPages * PageSize,
           WireInv, StoreInv, NetInv, ClientInv, PageInv, FaultInv, Busy, Ends
    PROVE  FaultInv'
<1>1. line'.ans = NoAnswer /\ ~Busy' /\ faulty' = faulty /\ line.ans # NoAnswer
  BY DEF Ends, Receive, Quiet, Return, Busy, NoAnswer
<1>2. SUFFICES ASSUME reply' = Said("error"), ~faulty PROVE FALSE
  BY <1>1 DEF FaultInv
<1>3. Now.m = "LIST" /\ line.ans.more /\ ~MorePages
  BY <1>2 DEF Ends, Return
<1>4. proto = "s3"
  BY <1>1, <1>2, <1>3 DEF PageInv, StoreInv
<1> DEFINE S == token \cup line.ans.names
           D == Directory(dir)
<1>5. /\ token \subseteq D /\ pages * PageSize <= Cardinality(token)
      /\ line.ans.names \subseteq D /\ Cardinality(line.ans.names) = PageSize
      /\ line.ans.names \cap token = {} /\ \E e \in D : e \notin S
  BY <1>1, <1>2, <1>3, <1>4 DEF PageInv
<1>6. D \subseteq Name /\ Cardinality(D) <= MaxPages * PageSize /\ pages \in Nat
  BY DirectoryNames DEF ClientInv
<1> HIDE DEF D
<1>7. (pages + 1) * PageSize <= Cardinality(S)
  BY <1>5, <1>6, MorePaged
<1>8. pages + 1 < MaxPages
  <2>1. PICK e \in D : e \notin S
    BY <1>5
  <2>2. S \subseteq D /\ pages + 1 \in Nat
    BY <1>5, <1>6
  <2> HIDE DEF S
  <2> QED  BY <1>6, <1>7, <2>1, <2>2, PagesLast
<1> QED  BY <1>3, <1>8 DEF MorePages

LEMMA ServerFaults ==
    ASSUME HeadLength = FALSE, WireInv, PlanInv, StoresInv, ReqInv, UpInv, NetInv, ColsInv, OpenInv,
           UploadInv, FaultInv, Server
    PROVE  FaultInv'
<1>1. UNCHANGED <<call, h, reply>> /\ Busy' = Busy /\ Now' = Now /\ proto' = proto
  BY ServerKeeps, ServerAsked DEF serverVars
<1>2. faulty => faulty'
  BY ServerKinds DEF Answers, Answered, Lingers, Closes
<1>3. \A m, st : Accepts(m, st)' = Accepts(m, st)
  BY <1>1 DEF Accepts
<1>4. CASE line'.ans = NoAnswer \/ line' = line
  BY <1>1, <1>2, <1>3, <1>4 DEF FaultInv
<1>5. ASSUME NEW b, Answers(b) PROVE FaultInv'
  <2>1. line'.ans = b /\ Unserved /\ (faulty' \/ b = AnswerTo(line.req))
    BY <1>5 DEF Answers, Answered
  <2>2. AnswerTo(line.req).st = StatusOf(line.req)
    BY DEF AnswerTo
  <2>3. Now.m = "ABORT" \/ Accepts(Now.m, StatusOf(line.req))
    BY <2>1, ServedWell
  <2> QED  BY <1>1, <1>2, <1>3, <2>1, <2>2, <2>3 DEF FaultInv
<1>6. CASE Closes \/ \E r : Lingers(r)
  BY <1>4, <1>6 DEF Closes, Lingers, Quiet
<1> QED  BY <1>5, <1>6, ServerKinds

LEMMA CallerFaults ==
    ASSUME WireInv, MoveInv, FaultInv, Caller PROVE FaultInv'
<1>1. line'.ans = NoAnswer
  BY CallerKinds DEF Quiet
<1>2. CASE Shuts
  BY <1>1, <1>2 DEF Shuts, Busy, FaultInv
<1>3. ASSUME NEW c, Begins(c) PROVE FaultInv'
  <2>1. Ask(c) /\ Handled(c)
    BY <1>3 DEF Begins
  <2>2. reply' # Said("error") /\ (Busy' => call' = c)
    BY <2>1 DEF Ask, Said, Busy
  <2>3. c.op = "finish" => ~h'.failed
    BY <2>1 DEF Handled
  <2> QED  BY <1>1, <2>2, <2>3 DEF FaultInv
<1> QED  BY <1>2, <1>3, CallerKinds

LEMMA ClientFaults ==
    ASSUME IsFiniteSet(Name), \A p \in Seq(Name) : Cardinality(Directory(p)) <= MaxPages * PageSize,
           WireInv, PlanInv, StoresInv, ConnInv, NetInv, ClientInv, PageInv, FaultInv, Client
    PROVE  FaultInv'
<1>1. Busy
  BY ClientKinds
<1>2. CASE Waits \/ TurnsPage \/ Repeats
  <2>1. UNCHANGED <<call, h, reply>> /\ Busy' = Busy /\ (faulty => faulty')
    BY <1>2 DEF Waits, TurnsPage, Repeats, Receive, Busy
  <2>2. line'.ans = NoAnswer
    BY ClientQuiet DEF Quiet
  <2> QED  BY <2>1, <2>2 DEF FaultInv
<1>3. CASE Fails
  BY <1>1, <1>3, FailFaults DEF StoresInv
<1>4. CASE Ends
  BY <1>1, <1>4, EndFaults DEF StoresInv
<1>5. ASSUME NEW x, Moves(x) PROVE FaultInv'
  BY <1>1, <1>5, MoveFaults DEF StoresInv
<1> QED  BY <1>2, <1>3, <1>4, <1>5, ClientKinds

LEMMA FaultStep ==
    ASSUME HeadLength = FALSE, IsFiniteSet(Name),
           \A p \in Seq(Name) : Cardinality(Directory(p)) <= MaxPages * PageSize,
           WireInv, PlanInv, StoresInv, ReqInv, UpInv, ConnInv, ColsInv, NetInv, ClientInv, OpenInv,
           UploadInv, PageInv, FaultInv, [Next]_vars
    PROVE  FaultInv'
<1>1. CASE UNCHANGED vars
  <2>1. UNCHANGED <<proto, call, todo, h, reply, line, faulty>>
    BY <1>1 DEF vars, serverVars, exchangeVars, netVars, historyVars
  <2>2. Busy' = Busy /\ Now' = Now
    BY <2>1 DEF Busy, Now
  <2>3. \A m, st : Accepts(m, st)' = Accepts(m, st)
    BY <2>1 DEF Accepts
  <2> QED  BY <2>1, <2>2, <2>3 DEF FaultInv
<1>2. CASE Caller
  BY <1>2, CallerFaults DEF StoresInv
<1>3. CASE Client
  BY <1>3, ClientFaults
<1>4. CASE Server
  BY <1>4, ServerFaults
<1> QED  BY <1>1, <1>2, <1>3, <1>4 DEF Next

\* A call fails only if something went wrong while it was made: a connection
\* that was closed while idle is found out and replaced, collections are made
\* before what goes into them, and an upload is there, with its parts, until it
\* is completed.  Every HEAD is answered without a length, and no directory has
\* more in it than MAX_PAGES pages can list.
THEOREM OnlyFaults ==
    ASSUME HeadLength = FALSE, IsFiniteSet(Name), IsFiniteSet(Upload),
           \A p \in Seq(Name) : Cardinality(Directory(p)) <= MaxPages * PageSize
    PROVE  Spec => []OnlyFaultsFail
<1> DEFINE Inv == /\ WireInv /\ PlanInv /\ OnceInv /\ HeldInv /\ SoundInv /\ StoresInv
                  /\ ReqInv /\ UpInv /\ LateInv /\ CountInv /\ ConnInv /\ ColsInv
                  /\ NetInv /\ ClientInv /\ OpenInv /\ SiteInv /\ LateUpInv /\ UploadInv
                  /\ PageInv /\ FaultInv
<1>1. Init => Inv
  <2> SUFFICES ASSUME Init PROVE Inv
    OBVIOUS
  <2>1. /\ uploads = [u \in Upload |-> NoUpload] /\ ~Busy /\ abandoned = {} /\ cols = {}
        /\ line.req = NoRequest /\ line.ans = NoAnswer /\ token = {} /\ body = <<>>
        /\ h = NoHandle /\ call = Closed /\ 1 .. Len(todo) = {} /\ 1 .. Len(todo) - 1 = {}
    BY DEF Init, ServerInit, Busy, Quiet
  <2>2. NetInv
    BY <2>1 DEF NetInv
  <2>3. ConnInv
    BY DEF Init, ConnInv, Busy
  <2>4. ClientInv
    <3>1. /\ conn = "none" /\ own = "none" /\ at = "top" /\ fresh = FALSE /\ faulty = FALSE
          /\ ran = 0 /\ reply.rc = "ok" /\ dir = <<>> /\ listed = EmptyBag /\ pages = 0 /\ ~Busy
      BY DEF Init, Said, Busy
    <3>2. IsABag(EmptyBag)
      BY DEF IsABag, EmptyBag, SetToBag
    <3>3. fresh \in BOOLEAN /\ faulty \in BOOLEAN
      BY <3>1, Zenon
    <3> QED  BY <3>1, <3>2, <3>3, PagesAssumption DEF ClientInv
  <2>5. ColsInv /\ OpenInv
    BY <2>1 DEF ColsInv, OpenInv
  <2>6. SiteInv /\ LateUpInv /\ UploadInv /\ PageInv
    BY <2>1 DEF SiteInv, LateUpInv, UploadInv, Live, PageInv
  <2>7. FaultInv
    <3>1. reply # Said("error")
      BY DEF Init, Said
    <3> QED  BY <2>1, <3>1 DEF FaultInv
  <2> QED  BY <2>2, <2>3, <2>4, <2>5, <2>6, <2>7, InitCounts
<1>2. Inv /\ [Next]_vars => Inv'
  <2> SUFFICES ASSUME Inv, [Next]_vars PROVE Inv'
    OBVIOUS
  <2>1. WireInv' /\ PlanInv' /\ OnceInv' /\ HeldInv' /\ SoundInv' /\ StoresInv'
    BY WireStep, OnceStep, SoundStep, StoresStep
  <2>2. ReqInv' /\ UpInv' /\ LateInv' /\ CountInv' /\ ConnInv'
    BY ReqStep, UpStep, LateStep, CountStep, ConnStep DEF StoresInv
  <2>3. ColsInv' /\ NetInv' /\ ClientInv' /\ OpenInv' /\ SiteInv'
    BY ColsStep, NetStep, ClientStep, OpenStep, SiteStep DEF StoresInv
  <2>4. LateUpInv' /\ UploadInv'
    BY LateUpStep, UploadStep
  <2>5. PageInv' /\ FaultInv'
    BY PageStep, FaultStep
  <2> QED  BY <2>1, <2>2, <2>3, <2>4, <2>5
<1>3. Inv => OnlyFaultsFail
  BY DEF FaultInv, OnlyFaultsFail
<1> QED  BY <1>1, <1>2, <1>3, PTL DEF Spec
=============================================================================
