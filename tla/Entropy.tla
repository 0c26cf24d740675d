------------------------------ MODULE Entropy ------------------------------
(***************************************************************************)
(* The random numbers and the console of INIT and REKEY (random.c,         *)
(* drbg.c): timer.device, opened once and given back at the end; a pool    *)
(* everything is folded into; an HMAC-DRBG seeded from it; a line typed at *)
(* a console in RAW mode; and the calibration of the key derivation        *)
(* against the timer (main.c).                                             *)
(*                                                                         *)
(* The chain of a DRBG is what was fed to it: HMAC is injective.  What the *)
(* machine gives to the pool is always the same here, the timer's readings *)
(* too: the worst a frozen clock does.                                     *)
(***************************************************************************)
EXTENDS Integers, Sequences, SequencesExt, FiniteSets

CONSTANTS
    Strokes,     \* what may be typed, "erase" and "control" among it
    LineRoom,    \* characters the line's buffer takes: cap - 1
    MaxTyped,    \* keys typed at one prompt
    MaxDraws,    \* draws of one run
    MaxPool,     \* no prompt once so much is folded into the pool
    DrawBlocks,  \* sizes of a draw, in blocks of the DRBG
    Modulus,     \* the millisecond counter's modulus: 2^32
    Calibration, \* iterations of the timed run: 20000
    Target,      \* the milliseconds aimed at: 1500
    Fallback     \* iterations without a timer: 200000

ASSUME EntropyAssumption ==
    /\ Modulus \in Nat \ {0} /\ Calibration \in Nat \ {0} /\ Target \in Nat \ {0}
    /\ Fallback \in Nat \ {0} /\ LineRoom \in Nat /\ DrawBlocks \subseteq Nat
    /\ {"erase", "control"} \subseteq Strokes

VARIABLES
    timer,       \* "untried", "open", or "none": tried and not had
    resources,   \* what is held of the system: port, request, device
    pool,        \* all that was folded into the pool
    drbg,        \* the chain of the DRBG, <<>> before the first draw
    gCalls,      \* g_calls
    drawn,       \* the blocks given out
    console,     \* "cooked" or "raw"
    prompt,      \* "none", or the kind of line being read
    buffer,      \* the line so far
    typed,       \* ghost: the keys typed for it
    iterations   \* the calibration just made: [start, took, iters]

entropyVars == <<timer, resources, pool, drbg, gCalls, drawn, console, prompt, buffer, typed, iterations>>

EntropyInit ==
    /\ timer = "untried" /\ resources = {} /\ pool = <<>> /\ drbg = <<>> /\ gCalls = 0 /\ drawn = <<>>
    /\ console = "cooked" /\ prompt = "none" /\ buffer = <<>> /\ typed = <<>> /\ iterations = {}

TypingVars == <<console, prompt, buffer, typed>>
DrawVars == <<drbg, gCalls, drawn>>

-----------------------------------------------------------------------------
(* The timer: a port, a request and the device, or nothing.                *)

AfterFailureKept(got) == got    \* mutant: what was had is forgotten
AfterFailure(got) == {}

Gets(got) ==
    IF got = {"port", "request", "device"} THEN timer' = "open" /\ resources' = got
    ELSE timer' = "none" /\ resources' = AfterFailure(got)

TimerReady ==
    IF timer # "untried" THEN UNCHANGED <<timer, resources>>
    ELSE \E n \in 0 .. 3 : Gets({<<"port", "request", "device">>[i] : i \in 1 .. n})

\* amisnap_entropy_cleanup, on the way out.
Cleanup ==
    /\ prompt = "none" /\ timer # "untried"
    /\ timer' = "untried" /\ resources' = {}
    /\ pool' = <<>> /\ drbg' = <<>> /\ gCalls' = 0 /\ drawn' = <<>>
    /\ UNCHANGED <<TypingVars>> /\ iterations' = {}

-----------------------------------------------------------------------------
(* A draw: the pool is stirred, a copy of it seeds the DRBG or reseeds it, *)
(* and the blocks are V after each HMAC; the chain goes on behind them.    *)

Stirred == pool \o <<<<"call", gCalls + 1>>, <<"system">>, <<"eclock">>>>
Seeded(p) == Append(drbg, <<"seed", p>>)
Next1(chain) == Append(chain, <<"V">>)
Advanced(chain, n) == chain \o [i \in 1 .. n |-> <<"V">>]
BlocksOfOnce(chain, n) == [i \in 1 .. n |-> Next1(chain)]    \* mutant: one HMAC for all
BlocksOf(chain, n) == [i \in 1 .. n |-> Advanced(chain, i)]

Random ==
    /\ prompt = "none" /\ gCalls < MaxDraws
    /\ TimerReady
    /\ IF timer' # "open" THEN UNCHANGED <<pool, DrawVars>>
       ELSE \E n \in DrawBlocks :
            /\ gCalls' = gCalls + 1 /\ pool' = Stirred
            /\ drawn' = drawn \o BlocksOf(Seeded(pool'), n)
            /\ drbg' = Append(Advanced(Seeded(pool'), n), <<"next">>)
    /\ UNCHANGED <<TypingVars>> /\ iterations' = {}

-----------------------------------------------------------------------------
(* amisnap_read_passphrase and amisnap_read_line: the first refuses to     *)
(* read where the console echoes, the second reads all the same.           *)

Ask ==
    /\ prompt = "none" /\ typed = <<>> /\ Len(pool) <= MaxPool
    /\ \/ prompt' = "passphrase" /\ TimerReady /\ console' = "raw"
       \/ prompt' = "line" /\ console' \in {"raw", "cooked"} /\ UNCHANGED <<timer, resources>>
    /\ buffer' = <<>>
    /\ UNCHANGED <<pool, DrawVars, typed>> /\ iterations' = {}

KeyTakenAll(k) == IF k = "erase" /\ buffer # <<>> THEN Front(buffer)
               ELSE Append(buffer, k)    \* mutant: no room is asked for
KeyTaken(k) ==
    CASE k = "erase" -> IF buffer = <<>> THEN buffer ELSE Front(buffer)
      [] k = "control" -> buffer
      [] OTHER -> IF Len(buffer) < LineRoom THEN Append(buffer, k) ELSE buffer

Key ==
    /\ prompt # "none" /\ Len(typed) < MaxTyped
    /\ \E k \in Strokes : typed' = Append(typed, k) /\ buffer' = KeyTaken(k)
    /\ pool' = IF prompt = "passphrase" /\ timer = "open" THEN Append(pool, <<"eclock">>) ELSE pool
    /\ UNCHANGED <<timer, resources, DrawVars, console, prompt>> /\ iterations' = {}

\* Return, the end of the input or an error: all three end the line.
ConsoleAfterReturn(how) == IF how = "return" THEN "cooked" ELSE console    \* mutant
ConsoleAfter(how) == "cooked"

Entered ==
    /\ prompt # "none" /\ prompt' = "none"
    /\ \E how \in {"return", "eof"} : console' = ConsoleAfter(how)
    /\ UNCHANGED <<timer, resources, pool, DrawVars, buffer, typed>> /\ iterations' = {}

\* The line is used, and scrubbed.
Used ==
    /\ prompt = "none" /\ typed # <<>>
    /\ typed' = <<>> /\ buffer' = <<>>
    /\ UNCHANGED <<timer, resources, pool, DrawVars, console, prompt>> /\ iterations' = {}

-----------------------------------------------------------------------------
(* calibrate_and_wrap: the timed run, and the count it leads to.           *)

ElapsedForward(t0, t1) == IF t1 > t0 THEN t1 - t0 ELSE 0    \* mutant: a wrap looks like no time
Elapsed(t0, t1) == (t1 - t0 + Modulus) % Modulus

Iters(t0, elapsed) ==
    LET scaled == (Calibration * Target) \div elapsed
    IN  IF t0 = 0 \/ elapsed = 0 THEN Fallback
        ELSE IF scaled < 1 THEN 1 ELSE scaled

Calibrate ==
    /\ prompt = "none" /\ typed = <<>> /\ timer = "open" /\ gCalls = MaxDraws
    /\ \E t0, took \in 0 .. Modulus - 1 :
        iterations' = {[start |-> t0, took |-> took, iters |-> Iters(t0, Elapsed(t0, (t0 + took) % Modulus))]}
    /\ UNCHANGED <<timer, resources, pool, DrawVars, TypingVars>>

EntropyNext == Random \/ Ask \/ Key \/ Entered \/ Used \/ Calibrate \/ Cleanup

-----------------------------------------------------------------------------
\* No block is given out twice in a run, though nothing the machine offers to
\* the pool ever changes: keys, salts and nonces of one run are all distinct.
DrawsDiffer == \A i, j \in DOMAIN drawn : i # j => drawn[i] # drawn[j]

\* Nothing is kept: an opening that failed halfway gives back what it had (the
\* system would not), a timer that is not open holds nothing, and the console
\* is cooked again however a line ended.
NothingKept ==
    /\ timer # "open" => resources = {}
    /\ prompt = "none" => console = "cooked"

\* A key survives if at no time since it was typed were as many keys erased as
\* were typed from it on; they fitted if never more than the room were left.
Between(i, j, keys) == Cardinality({k \in i .. j : typed[k] \in keys})
Surplus(i, j) == Between(i, j, Strokes \ {"erase", "control"}) - Between(i, j, {"erase"})
Survives(i) ==
    /\ typed[i] \notin {"erase", "control"}
    /\ \A j \in i .. Len(typed) : Surplus(i, j) > 0
Survivors == {i \in DOMAIN typed : Survives(i)}
Fitted == \A i, j \in DOMAIN typed : Surplus(i, j) <= LineRoom

\* The line is what is typed at these places.
Reads(at) ==
    /\ Range(at) = Survivors /\ \A p, q \in DOMAIN at : p < q => at[p] < at[q]
    /\ \A p \in DOMAIN at : buffer[p] = typed[at[p]]

\* The line read is the keys typed, without those erased and without control
\* characters, if they always fitted, and never more than the room.
LineAsTyped ==
    /\ Len(buffer) <= LineRoom
    /\ Fitted => \E at \in [DOMAIN buffer -> Survivors] : Reads(at)

\* The count a calibration leads to is the one of the time it really took,
\* also when the millisecond counter wraps meanwhile: the count costs no more
\* than the target at that speed, one iteration more would.
CalibratedToTarget ==
    \A c \in iterations :
        /\ c.iters >= 1
        /\ c.start # 0 /\ c.took \in 1 .. Calibration * Target =>
               /\ c.iters * c.took <= Calibration * Target
               /\ (c.iters + 1) * c.took > Calibration * Target

\* What is drawn is fresh, what is typed is what was typed, what was measured
\* is what was used, and nothing stays open on any way out.
FreshAndAsTyped == DrawsDiffer /\ NothingKept /\ LineAsTyped /\ CalibratedToTarget
=============================================================================
