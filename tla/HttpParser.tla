----------------------------- MODULE HttpParser -----------------------------
(***************************************************************************)
(* The incremental response parser of http.c.  feed() gets the bytes as    *)
(* they come, cut anywhere, and keeps an unfinished line for the next call.*)
(*                                                                         *)
(* A byte is a token: a digit, "sp", "cr", "lf", ":", a header's name, or  *)
(* whatever a body holds.  A response that is refused is in state "bad".   *)
(***************************************************************************)
EXTENDS Integers, Sequences, SequencesExt, FiniteSets

CONSTANTS
    SizeMax,  \* a Content-Length beyond it is refused
    U64Max    \* and a chunk's size beyond it

ASSUME LimitAssumption == SizeMax \in Nat /\ U64Max \in Nat /\ SizeMax <= U64Max

Digits == <<"0", "1", "2", "3", "4", "5", "6", "7", "8", "9", "a", "b", "c", "d", "e", "f">>
IsDigit(t, base) == \E i \in 1 .. base : Digits[i] = t
DigitValue(t) == (CHOOSE i \in 1 .. 16 : Digits[i] = t) - 1

\* The one member of a set: what is bound there is computed once.
The(S) == CHOOSE x \in S : TRUE

FirstAt(s, t) ==             \* memchr(): where t is, or 0
    IF t \in Range(s) THEN CHOOSE i \in 1 .. Len(s) : s[i] = t /\ \A j \in 1 .. i - 1 : s[j] # t
    ELSE 0

\* parse_u64(), parse_hex64(): the digits s begins with
Run(s, base) ==
    LET n == CHOOSE k \in 0 .. Len(s) : /\ \A i \in 1 .. k : IsDigit(s[i], base)
                                        /\ k < Len(s) => ~IsDigit(s[k + 1], base)
    IN  SubSeq(s, 1, n)
Number(s, base) ==
    LET d == Run(s, base)
        upto[n \in 0 .. Len(d)] == IF n = 0 THEN 0 ELSE upto[n - 1] * base + DigitValue(d[n])
    IN  upto[Len(d)]

NoLength == -1
Fresh == [st |-> "status", code |-> 0, lines |-> <<>>, length |-> NoLength, chunked |-> FALSE,
          left |-> 0, body |-> <<>>, unframed |-> FALSE, line |-> <<>>]
Bad(r) == [r EXCEPT !.st = "bad"]

-----------------------------------------------------------------------------
(* populate_headers(): what the header lines say about the body.           *)

Stripped(v) == SubSeq(v, 1 + Cardinality({i \in 1 .. Len(v) : \A j \in 1 .. i : v[j] = "sp"}), Len(v))
GoodLength(v) ==
    /\ Run(v, 10) # <<>>
    /\ \A i \in Len(Run(v, 10)) + 1 .. Len(v) : v[i] = "sp"
    /\ Number(v, 10) <= SizeMax

Field(r, name, v) ==
    CASE name = <<"Content-Length">> ->
           IF GoodLength(v) THEN [r EXCEPT !.length = Number(v, 10)] ELSE Bad(r)
      [] name = <<"Transfer-Encoding">> ->
           [r EXCEPT !.chunked = @ \/ "chunked" \in Range(v)]
      [] OTHER -> r

Header(r, l) ==
    LET i == FirstAt(l, ":") IN
        IF r.st = "bad" \/ i = 0 THEN r
        ELSE The({Field(r, SubSeq(l, 1, i - 1), v) : v \in {Stripped(SubSeq(l, i + 1, Len(l)))}})

Headers(r) ==
    LET upto[n \in 0 .. Len(r.lines)] ==
            IF n = 0 THEN r ELSE The({Header(q, r.lines[n]) : q \in {upto[n - 1]}})
    IN  upto[Len(r.lines)]

EndHeaders(r) ==
    The({CASE q.st = "bad" -> q
           [] q.st # "bad" /\ q.chunked -> [q EXCEPT !.st = "size"]
           [] q.st # "bad" /\ ~q.chunked /\ q.length > 0 ->
                [q EXCEPT !.st = "body", !.left = q.length]
           [] OTHER -> [q EXCEPT !.st = "done", !.unframed = q.length = NoLength]
         : q \in {Headers(r)}})

-----------------------------------------------------------------------------
(* One line, one stretch of a body, and feed().                            *)

StatusLine(r, l) ==
    LET i == FirstAt(l, "sp") IN
        IF i = 0 \/ Len(l) - i < 3 THEN Bad(r)
        ELSE [r EXCEPT !.code = Number(SubSeq(l, i + 1, i + 3), 10), !.st = "headers"]

SizeLine(r, l) ==
    IF Number(l, 16) > U64Max THEN Bad(r)
    ELSE [r EXCEPT !.left = Number(l, 16), !.st = IF Number(l, 16) = 0 THEN "trailer" ELSE "data"]

AfterChunkAny(r, l) ==       \* mutant: whatever follows a chunk is skipped
    [r EXCEPT !.st = "size"]
AfterChunk(r, l) == IF l = <<>> THEN [r EXCEPT !.st = "size"] ELSE Bad(r)

Line(r, l) ==
    CASE r.st = "status" -> StatusLine(r, l)
      [] r.st = "headers" ->
           IF l = <<>> THEN EndHeaders(r) ELSE [r EXCEPT !.lines = Append(@, l)]
      [] r.st = "size" -> SizeLine(r, l)
      [] r.st = "crlf" -> AfterChunk(r, l)
      [] r.st = "trailer" -> IF l = <<>> THEN [r EXCEPT !.st = "done"] ELSE r

Chomp(l) == IF l # <<>> /\ l[Len(l)] = "cr" THEN SubSeq(l, 1, Len(l) - 1) ELSE l

\* take_line(): a line that ends in data, and what is done with the rest of it
WholeLineCut(r, d) ==        \* mutant: the CR is looked for in this piece only
    The({Line([r EXCEPT !.line = <<>>], r.line \o Chomp(l))
            : l \in {SubSeq(d, 1, FirstAt(d, "lf") - 1)}})
WholeLine(r, d) ==
    The({Line([r EXCEPT !.line = <<>>], Chomp(l))
            : l \in {r.line \o SubSeq(d, 1, FirstAt(d, "lf") - 1)}})
PartLine(r, d) == [r EXCEPT !.line = @ \o d]

Stretch(r, d) ==
    LET n == IF r.left < Len(d) THEN r.left ELSE Len(d) IN
    [r EXCEPT !.body = @ \o SubSeq(d, 1, n), !.left = @ - n,
              !.st = IF r.left > n THEN @ ELSE IF @ = "body" THEN "done" ELSE "crlf"]

\* One turn of feed()'s loop: the response and the rest of the piece.
Turn(r, d) ==
    CASE d = <<>> \/ r.st \in {"done", "bad"} -> <<r, d>>
      [] d # <<>> /\ r.st \in {"body", "data"} ->
           <<Stretch(r, d), SubSeq(d, (IF r.left < Len(d) THEN r.left ELSE Len(d)) + 1, Len(d))>>
      [] d # <<>> /\ r.st \notin {"body", "data", "done", "bad"} /\ FirstAt(d, "lf") = 0 ->
           <<PartLine(r, d), <<>>>>
      [] OTHER -> <<WholeLine(r, d), SubSeq(d, FirstAt(d, "lf") + 1, Len(d))>>

\* Every turn but an idle one uses up a byte.
Parse(r, d) ==
    LET after[n \in 0 .. Len(d)] ==
            IF n = 0 THEN <<r, d>> ELSE The({Turn(p[1], p[2]) : p \in {after[n - 1]}})
    IN  after[Len(d)][1]

\* amisnap_http_response_feed()
Feed(r, d) == IF r.st = "done" THEN Bad(r) ELSE Parse(r, d)
=============================================================================
