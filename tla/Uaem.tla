-------------------------------- MODULE Uaem --------------------------------
(***************************************************************************)
(* ACTION=APPLYUAEM (applyuaem.c): a walk over a tree that gives every     *)
(* entry with a sidecar the protection, date and comment the sidecar       *)
(* tells, and the line a sidecar is made of: its flags and its calendar    *)
(* date, which tools/amisnap_reader.py writes and the Amiga reads back.    *)
(* A name is a sequence, of which "uaem" is the suffix; a protection is a  *)
(* number of eight bits and the digits of a date are numbers.              *)
(***************************************************************************)
EXTENDS Integers, Sequences, SequencesExt, FiniteSets

CONSTANTS
    Trees,       \* the trees: functions from paths to what is there
    LastYear     \* the calendar is counted to the end of that year

\* A path is its names from the root on; what has something below it is a
\* directory, and a sidecar is a file with that suffix whose line tells
\* something, with or without a comment, or does not parse.
EntryNames == Seq(STRING) \ {<<>>}
ASSUME TreeAssumption ==
    \A t \in Trees :
        /\ DOMAIN t \subseteq Seq(EntryNames) /\ <<>> \in DOMAIN t
        /\ \A p \in DOMAIN t : \A n \in 0 .. Len(p) - 1 :
              SubSeq(p, 1, n) \in DOMAIN t /\ t[SubSeq(p, 1, n)] = <<"dir">>
        /\ \A p \in DOMAIN t :
              \/ t[p] \in {<<"dir">>, <<"file">>}
              \/ /\ p # <<>> /\ Last(Last(p)) = "uaem"
                 /\ t[p] = <<"sidecar", t[p][2], t[p][3]>> /\ t[p][3] \in BOOLEAN

VARIABLES
    day,         \* a day: [y, m, d]
    count,       \* days from 1978-01-01 to it, counted one by one
    tree,        \* the tree: path -> "dir", "file" or a sidecar's [tells]
    settings,    \* path -> part -> what it was last given, "old" at first
    walk,        \* the directories being walked: [dir, left], the innermost last
    tally,       \* amisnap_applyuaem_result: [applied, failed]
    refused,     \* ghost: the Set* calls that failed unheard: <<sidecar, part>>
    outcome      \* "none", or what the command returns

uaemVars == <<day, count, tree, settings, walk, tally, refused, outcome>>

-----------------------------------------------------------------------------
(* The calendar.                                                           *)

Since1970OfMarch(y, m, d) ==    \* mutant: January belongs to its own year
    LET era == y \div 400
        yoe == y - era * 400
        doy == (153 * (m + (IF m > 2 THEN -3 ELSE 9)) + 2) \div 5 + d - 1
    IN  era * 146097 + yoe * 365 + yoe \div 4 - yoe \div 100 + doy - 719468

\* days_from_civil: the year begins in March, an era has 400 years.
DaysFromCivil(y, m, d) ==
    LET year == IF m <= 2 THEN y - 1 ELSE y
        era == year \div 400
        yoe == year - era * 400
        doy == (153 * (m + (IF m > 2 THEN -3 ELSE 9)) + 2) \div 5 + d - 1
    IN  era * 146097 + yoe * 365 + yoe \div 4 - yoe \div 100 + doy - 719468

AmigaDays(y, m, d) == DaysFromCivil(y, m, d) - DaysFromCivil(1978, 1, 1)

Leap(y) == y % 4 = 0 /\ (y % 100 # 0 \/ y % 400 = 0)
MonthLength(y, m) ==
    CASE m = 2 -> IF Leap(y) THEN 29 ELSE 28
      [] m \in {4, 6, 9, 11} -> 30
      [] OTHER -> 31

NextDay(c) ==
    IF c.d < MonthLength(c.y, c.m) THEN [c EXCEPT !.d = @ + 1]
    ELSE IF c.m < 12 THEN [c EXCEPT !.m = @ + 1, !.d = 1]
    ELSE [y |-> c.y + 1, m |-> 1, d |-> 1]

-----------------------------------------------------------------------------
(* The line.  A letter of hspa stands for a bit that is set, one of rwed   *)
(* for one that is clear; the bits are 7 to 0.                             *)

Letters == <<"h", "s", "p", "a", "r", "w", "e", "d">>
Masks == <<128, 64, 32, 16, 8, 4, 2, 1>>
Bit(prot, i) == (prot \div Masks[i]) % 2
ShownWhenSet(i) == i <= 4

Flags(prot) == [i \in 1 .. 8 |-> IF (Bit(prot, i) = 1) = ShownWhenSet(i) THEN Letters[i] ELSE "-"]

Sum8(f) == f[1] + f[2] + f[3] + f[4] + f[5] + f[6] + f[7] + f[8]
ProtActiveHigh(flags) ==    \* mutant: all eight letters stand for a set bit
    Sum8([i \in 1 .. 8 |-> IF flags[i] = Letters[i] THEN Masks[i] ELSE 0])
Prot(flags) ==
    Sum8([i \in 1 .. 8 |-> IF (flags[i] = Letters[i]) = ShownWhenSet(i) THEN Masks[i] ELSE 0])

\* What the reader writes of an entry of that day; ticks are of the minute.
Written(c, e) ==
    [flags |-> Flags(e.prot % 256), y |-> c.y, m |-> c.m, d |-> c.d,
     hh |-> e.mins \div 60, mm |-> e.mins % 60, ss |-> e.ticks \div 50, cc |-> (e.ticks % 50) * 2]

\* parse_uaem_line, of a line with the right shape.
Parsed(l) ==
    [prot |-> Prot(l.flags), days |-> AmigaDays(l.y, l.m, l.d),
     mins |-> l.hh * 60 + l.mm, ticks |-> l.ss * 50 + l.cc \div 2]

NewDay ==
    /\ day.y <= LastYear
    /\ day' = NextDay(day) /\ count' = count + 1
    /\ UNCHANGED <<tree, settings, walk, tally, refused, outcome>>

-----------------------------------------------------------------------------
(* The walk: Lock and Examine for a directory, ExNext for each entry.      *)

Walking == outcome = "none"
Inner == walk[Len(walk)]
ChildrenOf(d) == {p \in DOMAIN tree : p # <<>> /\ Front(p) = d}
IsDir(p) == tree[p] = <<"dir">>
IsSidecar(p) == Len(tree[p]) = 3
\* Joining nothing to a directory gives the directory.
TargetOf(p) == IF Len(Last(p)) = 1 THEN Front(p) ELSE Append(Front(p), Front(Last(p)))
NamedUaemAny(p) == Last(Last(p)) = "uaem"    \* mutant: ".uaem" is a sidecar
NamedUaem(p) == Len(Last(p)) > 1 /\ Last(Last(p)) = "uaem"

\* SetComment(), SetFileDate() and SetProtection(), the first only for a line
\* that has a comment.
Parts == {"comment", "date", "prot"}
Calls(p) == {f \in Parts : f = "comment" => tree[p][3]}
Untouched == [f \in Parts |-> "old"]

UaemInit ==
    /\ day = [y |-> 1978, m |-> 1, d |-> 1] /\ count = 0
    /\ tree \in Trees /\ settings = [p \in DOMAIN tree |-> Untouched]
    /\ walk = <<>> /\ tally = [applied |-> 0, failed |-> 0] /\ refused = {} /\ outcome = "none"

Calendar == <<day, count>>
Settled == <<day, count, tree, refused>>

OpenRoot ==
    /\ Walking /\ walk = <<>>
    /\ \E ok \in BOOLEAN :
        IF ok THEN walk' = <<[dir |-> <<>>, left |-> ChildrenOf(<<>>)]>> /\ UNCHANGED outcome
              ELSE outcome' = "fail" /\ UNCHANGED walk
    /\ UNCHANGED <<Settled, settings, tally>>

Passed(p) == [walk EXCEPT ![Len(walk)].left = @ \ {p}]

\* A directory: one that does not open counts as a failure, and that is all.
EnterDir(p) ==
    /\ IsDir(p)
    /\ \/ walk' = Append(Passed(p), [dir |-> p, left |-> ChildrenOf(p)]) /\ UNCHANGED tally
       \/ walk' = Passed(p) /\ tally' = [tally EXCEPT !.failed = @ + 1]
    /\ UNCHANGED <<settings, refused>>

PassBy(p) ==
    /\ ~IsDir(p) /\ ~NamedUaem(p)
    /\ walk' = Passed(p) /\ UNCHANGED <<settings, tally, refused>>

\* apply_one_uaem: a sidecar that does not open, read or parse is a failure.
\* Each of the calls may fail by itself, all do when the target is not there,
\* and none of their results is looked at.
ApplyOne(p) ==
    /\ ~IsDir(p) /\ NamedUaem(p) /\ IsSidecar(p) /\ tree[p][2] # "unparsable"
    /\ walk' = Passed(p) /\ tally' = [tally EXCEPT !.applied = @ + 1]
    /\ \E done \in SUBSET Calls(p) :
        /\ TargetOf(p) \in DOMAIN tree \/ done = {}
        /\ refused' = refused \cup {<<p, f>> : f \in Calls(p) \ done}
        /\ settings' = [q \in DOMAIN settings |->
                          IF q = TargetOf(p)
                          THEN [f \in Parts |-> IF f \in done THEN tree[p][2] ELSE settings[q][f]]
                          ELSE settings[q]]

SkipOne(p) ==
    /\ ~IsDir(p) /\ NamedUaem(p)
    /\ walk' = Passed(p) /\ tally' = [tally EXCEPT !.failed = @ + 1]
    /\ UNCHANGED <<settings, refused>>

NextEntry ==
    /\ Walking /\ walk # <<>>
    /\ \E p \in Inner.left : EnterDir(p) \/ PassBy(p) \/ ApplyOne(p) \/ SkipOne(p)
    /\ UNCHANGED <<Calendar, tree, outcome>>

\* The end of a directory, or ExNext failing in the middle of it: then its
\* parent counts a failure, and for the root the walk has failed.
ResultCodeOk(t, broken) == IF broken THEN "fail" ELSE "ok"    \* mutant: failed entries do not count
ResultCode(t, broken) == IF broken THEN "fail" ELSE IF t.failed > 0 THEN "warn" ELSE "ok"

LeaveDir ==
    /\ Walking /\ walk # <<>>
    /\ \E broken \in {b \in BOOLEAN : Inner.left = {} \/ b} :
        IF Len(walk) = 1
        THEN outcome' = ResultCode(tally, broken) /\ walk' = <<>> /\ UNCHANGED tally
        ELSE /\ walk' = Front(walk) /\ UNCHANGED outcome
             /\ tally' = [tally EXCEPT !.failed = IF broken THEN @ + 1 ELSE @]
    /\ UNCHANGED <<Settled, settings>>

WalkNext == OpenRoot \/ NextEntry \/ LeaveDir
UaemNext == NewDay \/ WalkNext

-----------------------------------------------------------------------------
\* The day number a sidecar's date is read as is the number of days since
\* 1978-01-01, over leap years and the century that has none.
DaysAreCounted == AmigaDays(day.y, day.m, day.d) = count

\* A sidecar read back says what the entry it was written for had: the eight
\* bits of its protection and its date to the tick.
SidecarRoundTrips ==
    LET e == [prot |-> count % 256, mins |-> count % 1440, ticks |-> count % 3000]
    IN  Parsed(Written(day, e)) = [prot |-> e.prot, days |-> count, mins |-> e.mins, ticks |-> e.ticks]

\* Each part of an entry is what it was, or what its own sidecar tells of it.
OnlyItsOwn ==
    \A p \in DOMAIN tree : \A f \in Parts : settings[p][f] # "old" =>
        \E s \in DOMAIN tree : /\ ~IsDir(s) /\ s # <<>> /\ Len(Last(s)) > 1 /\ TargetOf(s) = p
                               /\ f \in Calls(s) /\ tree[s][2] = settings[p][f]

\* A sidecar of something; a part of what it tells is what the entry has.
OfSomething(s) == IsSidecar(s) /\ Len(Last(s)) > 1
Has(s, f) == TargetOf(s) \in DOMAIN tree /\ settings[TargetOf(s)][f] = tree[s][2]

\* APPLYUAEM returns OK when every sidecar in the tree, however deep, could be
\* parsed, and of what it tells every part is what the entry beside it now has
\* unless AmigaDOS refused that very call.  Calls that fail do not count:
\* EveryPartOrWarned is what applyuaem.h says of them.
OkMeansCalled ==
    outcome = "ok" =>
        \A s \in DOMAIN tree : OfSomething(s) =>
            tree[s][2] # "unparsable" /\ \A f \in Calls(s) : <<s, f>> \in refused \/ Has(s, f)

\* APPLYUAEM: what one tool wrote into a sidecar is what the entry beside it,
\* and no other, gets back, part by part; OK means that every call was made.
SidecarsAsWritten ==
    DaysAreCounted /\ SidecarRoundTrips /\ OnlyItsOwn /\ OkMeansCalled

\* applyuaem.h:27 of "failed": "found but couldn't be parsed, or the target
\* entry didn't exist / couldn't be modified".  OK then means that every entry
\* has all that its sidecar tells; the code counts such a sidecar as applied.
EveryPartOrWarned ==
    outcome = "ok" =>
        \A s \in DOMAIN tree : OfSomething(s) => \A f \in Calls(s) : Has(s, f)
=============================================================================
