------------------------------ MODULE Process ------------------------------
(***************************************************************************)
(* One run of the program after the other (main.c, stackswap.c): a stack   *)
(* of its own, the arguments, the log, the command with the backends it    *)
(* opens, and the way out.  Exec gives nothing back for a program that     *)
(* ends: a library left open, a port, a stack or a repository's lock stays *)
(* until the machine is reset, and AmiSSL keeps a pointer into the process *)
(* that opened it.                                                         *)
(***************************************************************************)
EXTENDS Integers, Sequences, SequencesExt, FiniteSets

CONSTANTS
    Verbs,       \* the actions a run may be given, "other" for unknown ones
    Schemes,     \* what REPO and DEST may be: "dir", "http", "https", "s3"
    MaxRuns      \* runs of one boot

\* open_backend() takes what is neither http://, https:// nor s3:// for a directory.
ASSUME SchemeAssumption == Schemes \subseteq {"dir", "http", "https", "s3"}

VARIABLES
    phase,       \* "off", "args", "log", "command", "unwind", "exit"
    todo,        \* the steps the command has left
    urls,        \* the schemes of REPO and DEST
    held,        \* what is held of the system and of the repository
    latches,     \* g_socket_lib_open, g_tls_lib_open
    backends,    \* open backends: slot -> scheme
    stack,       \* the stack it runs on: "shell" or "own"
    rc,          \* the return code so far
    runs         \* runs begun

processVars == <<phase, todo, urls, held, latches, backends, stack, rc, runs>>

\* What each command does that can fail or holds something, in its order.
SnapshotPlan == <<"usage", "exclude", "repo", "key", "lock", "usage", "work", "usage", "report">>
ListPlan == <<"usage", "repo", "key", "report">>
VerifyPlan == <<"usage", "repo", "key", "work", "report">>
PrunePlan == <<"usage", "repo", "key", "lock", "work">>
RestorePlan == <<"usage", "repo", "dest", "key", "work", "report">>
InitPlan == <<"usage", "repo", "work", "draw", "prompt", "draw", "work">>
RekeyPlan == <<"usage", "repo", "work", "key", "prompt", "draw", "work">>
BenchmarkPlan == <<"usage", "clock", "work", "repo", "work">>
ApplyUaemPlan == <<"usage", "report">>

Plan(verb) ==
    CASE verb = "SNAPSHOT" -> SnapshotPlan
      [] verb = "LIST" -> ListPlan
      [] verb = "VERIFY" -> VerifyPlan
      [] verb = "PRUNE" -> PrunePlan
      [] verb = "RESTORE" -> RestorePlan
      [] verb = "INIT" -> InitPlan
      [] verb = "REKEY" -> RekeyPlan
      [] verb = "BENCHMARK" -> BenchmarkPlan
      [] verb = "APPLYUAEM" -> ApplyUaemPlan
      [] verb = "HELP" -> <<>>
      [] OTHER -> <<"unknown">>

ProcessInit ==
    /\ phase = "off" /\ todo = <<>> /\ urls = [repo |-> "dir", dest |-> "dir"]
    /\ held = {} /\ latches = {} /\ backends = [s \in {} |-> "dir"]
    /\ stack = "shell" /\ rc = 0 /\ runs = 0

-----------------------------------------------------------------------------
(* The way in.  Without memory for a larger stack the run goes on on the   *)
(* shell's; without arguments or log it ends at once.                      *)

Start ==
    /\ phase = "off" /\ stack = "shell" /\ runs < MaxRuns
    /\ runs' = runs + 1 /\ phase' = "args" /\ latches' = {} /\ rc' = 0
    /\ \/ held' = held \cup {"stack"} /\ stack' = "own"
       \/ UNCHANGED <<held, stack>>
    /\ UNCHANGED <<todo, urls, backends>>

ReadArgs ==
    /\ phase = "args"
    /\ \/ \E verb \in Verbs, r, d \in Schemes :
            /\ todo' = Plan(verb) /\ urls' = [repo |-> r, dest |-> d]
            /\ held' = held \cup {"rda", "args"} /\ phase' = "log" /\ UNCHANGED rc
       \/ \E code \in {10, 20} :    \* bad arguments; no memory
            rc' = code /\ phase' = "off" /\ UNCHANGED <<todo, urls, held>>
    /\ UNCHANGED <<latches, backends, stack, runs>>

OpenLog ==
    /\ phase = "log"
    /\ \/ phase' = "command" /\ held' \in {held, held \cup {"log"}} /\ UNCHANGED rc
       \/ phase' = "off" /\ rc' = 20 /\ held' = held \ {"args", "rda"}
    /\ UNCHANGED <<todo, urls, latches, backends, stack, runs>>

-----------------------------------------------------------------------------
(* The command.                                                            *)

NextStep(s) == phase = "command" /\ todo # <<>> /\ Head(todo) = s
GoOn == todo' = Tail(todo) /\ UNCHANGED <<phase, rc>>
GiveUp(code) == phase' = "unwind" /\ rc' = code /\ UNCHANGED todo

CommandVars == <<urls, stack, runs>>

\* The return code of a step that ends the command: 5 is WARN, 10 ERROR, 20 FAIL.
Codes(s) ==
    CASE s \in {"usage", "unknown"} -> {10}
      [] s = "prompt" -> {10, 20}
      [] s = "clock" -> {5}
      [] s = "report" -> {5, 20}
      [] OTHER -> {20}
PassOrEnd(s) == (s # "unknown" /\ GoOn) \/ \E code \in Codes(s) : GiveUp(code)

\* Steps that hold nothing afterwards: arguments (the overlap of source and
\* repository and COMPRESS are looked at with the lock held), reads and
\* writes of the repository, and the work itself, which may be degraded.
Advance ==
    /\ \E s \in {"usage", "unknown", "work", "report"} : NextStep(s) /\ PassOrEnd(s)
    /\ UNCHANGED <<CommandVars, held, latches, backends>>

LoadExclude ==
    /\ NextStep("exclude")
    /\ \/ GoOn /\ held' \in {held, held \cup {"exclude"}}
       \/ GiveUp(20) /\ UNCHANGED held
    /\ UNCHANGED <<CommandVars, latches, backends>>

\* The timer is opened by whoever needs it first: a prompt, a draw, a
\* measurement, or the passphrase of an encrypted repository.
UseTimer ==
    /\ \E s \in {"clock", "draw", "prompt", "key"} : NextStep(s) /\ PassOrEnd(s)
    /\ held' \in {held, held \cup {"timer"}}
    /\ UNCHANGED <<CommandVars, latches, backends>>

\* amisnap_repo_lock_acquire
TakeLock ==
    /\ NextStep("lock")
    /\ \/ GoOn /\ held' = held \cup {"lock"}
       \/ GiveUp(20) /\ UNCHANGED held
    /\ UNCHANGED <<CommandVars, latches, backends>>

\* open_backend: a library is opened when a scheme needs it and no earlier
\* backend of the run did; one that opened stays open if a later step of this
\* fails.
NeedsHttp(scheme) ==    \* mutant: s3 was forgotten
    CASE scheme = "http" -> {"socket"} [] scheme = "https" -> {"socket", "tls"} [] OTHER -> {}
Needs(scheme) ==
    CASE scheme \in {"http", "s3"} -> {"socket"} [] scheme = "https" -> {"socket", "tls"} [] OTHER -> {}

LatchedNever(lib) == latches    \* mutant: the flag is not set
Latched(lib) == latches \cup {lib}

OpenLibrary ==
    /\ \E slot \in {"repo", "dest"} : \E lib \in {"socket", "tls"} :
        /\ NextStep(slot)
        /\ lib \in Needs(urls[slot]) \ latches
        /\ lib = "tls" => Needs(urls[slot]) \ latches = {"tls"}
        /\ \/ held' = held \cup {lib} /\ latches' = Latched(lib) /\ UNCHANGED <<todo, phase, rc>>
           \/ GiveUp(20) /\ UNCHANGED <<held, latches>>
    /\ UNCHANGED <<CommandVars, backends>>

OpenBackend ==
    /\ \E slot \in {"repo", "dest"} :
        /\ NextStep(slot) /\ Needs(urls[slot]) \subseteq latches
        /\ \/ GoOn /\ backends' = [s \in DOMAIN backends \cup {slot} |-> urls[s]]
           \/ GiveUp(20) /\ UNCHANGED backends
    /\ UNCHANGED <<CommandVars, held, latches>>

Done ==
    /\ phase = "command" /\ todo = <<>>
    /\ phase' = "unwind" /\ rc' = 0
    /\ UNCHANGED <<todo, CommandVars, held, latches, backends>>

-----------------------------------------------------------------------------
(* The way back: every return of a command gives up what it has by then.   *)

HoldsLockButForUsage == "lock" \in held /\ rc # 10    \* mutant: one early return forgets it
HoldsLock == "lock" \in held

ReleaseLock ==
    /\ phase = "unwind" /\ HoldsLock
    /\ held' = held \ {"lock"}
    /\ UNCHANGED <<phase, todo, CommandVars, latches, backends, rc>>

CloseBackend ==
    /\ phase = "unwind" /\ ~HoldsLock /\ DOMAIN backends # {}
    /\ \E slot \in DOMAIN backends :
        /\ slot = "dest" => "repo" \notin DOMAIN backends
        /\ backends' = [s \in DOMAIN backends \ {slot} |-> backends[s]]
    /\ UNCHANGED <<phase, todo, CommandVars, held, latches, rc>>

Return ==
    /\ phase = "unwind" /\ ~HoldsLock /\ DOMAIN backends = {}
    /\ phase' = "exit" /\ held' = held \ {"exclude"} /\ todo' = <<>>
    /\ UNCHANGED <<CommandVars, latches, backends, rc>>

-----------------------------------------------------------------------------
(* The way out, one thing after the other: what real_main does in the end, *)
(* and the swap back to the shell's stack.                                 *)

Library == <<"tls", "socket">>
OrderSocketFirst == <<"socket", "tls", "timer", "log", "args", "rda">>    \* mutant
Order == <<"tls", "socket", "timer", "log", "args", "rda">>

\* A library is closed when its flag says so; the rest when it is there.
ClosesHeld(r) == r \in held /\ r # "timer"    \* mutant: entropy_cleanup is not called
Closes(r) == IF r \in Range(Library) THEN r \in latches ELSE r \in held

CloseNext ==
    /\ phase = "exit"
    /\ \E i \in DOMAIN Order :
        /\ Closes(Order[i]) /\ \A j \in 1 .. i - 1 : ~Closes(Order[j])
        /\ held' = held \ {Order[i]} /\ latches' = latches \ {Order[i]}
    /\ UNCHANGED <<phase, todo, CommandVars, backends, rc>>

MainReturns ==
    /\ phase = "exit" /\ \A i \in DOMAIN Order : ~Closes(Order[i])
    /\ phase' = "off"
    /\ UNCHANGED <<todo, CommandVars, held, latches, backends, rc>>

SwapBack ==
    /\ phase = "off" /\ stack = "own"
    /\ stack' = "shell" /\ held' = held \ {"stack"}
    /\ UNCHANGED <<phase, todo, urls, latches, backends, rc, runs>>

ProcessNext ==
    \/ Start \/ ReadArgs \/ OpenLog
    \/ Advance \/ LoadExclude \/ UseTimer \/ TakeLock \/ OpenLibrary \/ OpenBackend \/ Done
    \/ ReleaseLock \/ CloseBackend \/ Return \/ CloseNext \/ MainReturns \/ SwapBack

-----------------------------------------------------------------------------
\* Between two runs nothing is held, whatever the last one met: no library, no
\* device, no stack, no arguments, and no lock in a repository.
NothingLeftBehind == phase = "off" /\ stack = "shell" => held = {} /\ DOMAIN backends = {}

\* A backend of the network is open only while the libraries below it are.
StandsOnItsLibraries ==
    \A s \in DOMAIN backends :
        /\ backends[s] # "dir" => "socket" \in held
        /\ backends[s] = "https" => "tls" \in held

\* What others stand on goes last: the lock while its repository is open,
\* AmiSSL before the socket library it was given, both after every backend, the
\* arguments after what was named by them, the stack after all of it.
ClosedInOrder ==
    LET goes == held \ held'
    IN  /\ "lock" \in goes => "repo" \in DOMAIN backends
        /\ "socket" \in goes => "tls" \notin held /\ DOMAIN backends = {}
        /\ "tls" \in goes => DOMAIN backends = {}
        /\ "args" \in goes => held \subseteq {"args", "rda", "stack"}
        /\ "stack" \in goes => held = {"stack"} /\ stack' = "shell"

\* real_main(): whatever a command met, everything it opened is closed, in the
\* order in which one thing stands on another.
LeavesInOrder ==
    [][NothingLeftBehind' /\ StandsOnItsLibraries' /\ ClosedInOrder]_processVars
=============================================================================
