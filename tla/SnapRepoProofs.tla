--------------------------- MODULE SnapRepoProofs ---------------------------
(***************************************************************************)
(* Proofs about SnapRepo for any number of processes, objects and snapshot *)
(* ids.  The safety theorems assume what repo.h documents of the advisory  *)
(* lock (LockGap = FALSE: one operator) and backend.h of exists() and      *)
(* list() (they fail instead of answering wrongly); the type theorem       *)
(* assumes none of this.                                                   *)
(***************************************************************************)
EXTENDS SnapRepo, TLAPS

-----------------------------------------------------------------------------
(* Type correctness.                                                       *)

\* There is a first snapshot id.
LEMMA OneIsId == 1 \in SnapId
  BY MaxIdAssumption DEF SnapId

\* Every value given to pc is a phase.
LEMMA PhaseFacts ==
    \A s \in {"idle", "check", "putlock", "stagedlock", "prev", "load", "scan",
              "store", "putobj", "stagedobj", "probe", "putmf", "stagedmf",
              "targets", "delete", "list", "mark", "sweep", "sweeptmp",
              "refused", "unlock"} : s \in Phase
  BY DEF Phase, Acquiring, Critical, SnapPhase, PrunePhase, FilePhase,
         NamePhase, MarkPhase, SweepPhase

\* The lock, the objects and the manifests have keys.
LEMMA KeyFacts ==
    /\ LockKey \in Key
    /\ \A o \in Object : ObjKey(o) \in Key
    /\ \A i \in SnapId : MfKey(i) \in Key
  BY DEF Key

\* Counting up from an id below the last one gives an id.
LEMMA NextId == ASSUME NEW i \in SnapId, i < MaxId PROVE i + 1 \in SnapId
  BY MaxIdAssumption DEF SnapId

\* Leaving a command keeps the types of everything a process remembers.
LocalsTyped ==
    /\ pc \in [Proc -> Phase]
    /\ op \in [Proc -> {"SNAPSHOT", "PRUNE"}]
    /\ cur \in [Proc -> Object \cup {NoObject}]
    /\ todo \in [Proc -> SUBSET Object]
    /\ file \in [Proc -> SUBSET Object]
    /\ draft \in [Proc -> SUBSET Object]
    /\ prev \in [Proc -> SUBSET Object]
    /\ id \in [Proc -> SnapId]
    /\ ids \in [Proc -> SUBSET SnapId]
    /\ mark \in [Proc -> SUBSET Object]
    /\ dels \in [Proc -> BOOLEAN]
    /\ \A p \in Proc : pc[p] \in {"putobj", "stagedobj"} => cur[p] \in Object

\* Leaving a command keeps the types of what the process remembers.
LEMMA LeaveType ==
    ASSUME TypeOK, NEW p \in Proc, NEW s \in {"idle", "unlock"}, Leave(p, s)
    PROVE  LocalsTyped'
  BY OneIsId, PhaseFacts DEF TypeOK, LocalsTyped, Leave, CloseFile, Goto

\* An empty repository is well typed.
LEMMA InitType == Init => TypeOK
<1> SUFFICES ASSUME Init PROVE TypeOK
  OBVIOUS
<1>1. objects \subseteq Object /\ committed \subseteq SnapId /\ tmp \subseteq Key
  BY DEF Init
<1>2. refs \in [SnapId -> SUBSET Object] /\ lock \in BOOLEAN
  BY DEF Init
<1>3. pc \in [Proc -> Phase]
  BY PhaseFacts DEF Init
<1>4. op \in [Proc -> {"SNAPSHOT", "PRUNE"}] /\ dels \in [Proc -> BOOLEAN]
  BY DEF Init
<1>5. cur \in [Proc -> Object \cup {NoObject}]
  BY DEF Init
<1>6. todo \in [Proc -> SUBSET Object] /\ file \in [Proc -> SUBSET Object]
  BY DEF Init
<1>7. draft \in [Proc -> SUBSET Object] /\ prev \in [Proc -> SUBSET Object]
  BY DEF Init
<1>8. id \in [Proc -> SnapId]
  BY OneIsId DEF Init
<1>9. ids \in [Proc -> SUBSET SnapId] /\ mark \in [Proc -> SUBSET Object]
  BY DEF Init
<1>10. \A p \in Proc : pc[p] \notin {"putobj", "stagedobj"}
  BY DEF Init
<1> QED
  BY <1>1, <1>2, <1>3, <1>4, <1>5, <1>6, <1>7, <1>8, <1>9, <1>10 DEF TypeOK

\* Every step keeps every variable's type, whatever the environment does.
LEMMA StepType == TypeOK /\ [Next]_vars => TypeOK'
<1> SUFFICES ASSUME TypeOK, [Next]_vars PROVE TypeOK'
  OBVIOUS
<1> USE PhaseFacts, KeyFacts DEF fileVars, snapVars, pruneVars, repoVars
<1>1. ASSUME NEW p \in Proc, Start(p) PROVE TypeOK'
  BY <1>1 DEF Start, TypeOK, At, Goto
<1>2. ASSUME NEW p \in Proc, LockFree(p) PROVE TypeOK'
  BY <1>2 DEF LockFree, TypeOK, At, Goto
<1>3. ASSUME NEW p \in Proc, LockRefused(p) PROVE TypeOK'
  <2>1. Leave(p, "idle")
    BY <1>3 DEF LockRefused
  <2>2. LocalsTyped'
    BY <2>1, LeaveType
  <2> QED BY <1>3, <2>2 DEF LockRefused, TypeOK, LocalsTyped, At
<1>4. ASSUME NEW p \in Proc, StageLock(p) PROVE TypeOK'
  BY <1>4 DEF StageLock, TypeOK, At, Goto
<1>5. ASSUME NEW p \in Proc, LockTaken(p) PROVE TypeOK'
  BY <1>5 DEF LockTaken, TypeOK, At, Goto
<1>6. ASSUME NEW p \in Proc, Unlock(p) PROVE TypeOK'
  <2>1. Leave(p, "idle")
    BY <1>6 DEF Unlock
  <2>2. LocalsTyped'
    BY <2>1, LeaveType
  <2> QED BY <1>6, <2>2 DEF Unlock, TypeOK, LocalsTyped, At
<1>7. ASSUME NEW p \in Proc, PickPrev(p) PROVE TypeOK'
  BY <1>7 DEF PickPrev, Newest, Listed, TypeOK, At, Goto
<1>8. ASSUME NEW p \in Proc, LoadPrev(p) PROVE TypeOK'
  BY <1>8 DEF LoadPrev, TypeOK, At, Goto
<1>9. ASSUME NEW p \in Proc, NoPrev(p) PROVE TypeOK'
  BY <1>9 DEF NoPrev, TypeOK, At, Goto
<1>10. ASSUME NEW p \in Proc, ReuseFile(p) PROVE TypeOK'
  BY <1>10 DEF ReuseFile, TypeOK, At, Goto
<1>11. ASSUME NEW p \in Proc, ReadFile(p) PROVE TypeOK'
  BY <1>11 DEF ReadFile, TypeOK, At, Goto
<1>12. ASSUME NEW p \in Proc, StoreHit(p) PROVE TypeOK'
  BY <1>12 DEF StoreHit, TypeOK, At, Goto
<1>13. ASSUME NEW p \in Proc, StoreMiss(p) PROVE TypeOK'
  BY <1>13 DEF StoreMiss, TypeOK, At, Goto
<1>14. ASSUME NEW p \in Proc, StageObject(p) PROVE TypeOK'
  BY <1>14 DEF StageObject, TypeOK, At, Goto
<1>15. ASSUME NEW p \in Proc, RenameObject(p) PROVE TypeOK'
  BY <1>15 DEF RenameObject, TypeOK, At, Goto
<1>16. ASSUME NEW p \in Proc, FileDone(p) PROVE TypeOK'
  BY <1>16 DEF FileDone, CloseFile, TypeOK, At, Goto
<1>17. ASSUME NEW p \in Proc, ScanDone(p) PROVE TypeOK'
  BY <1>17 DEF ScanDone, TypeOK, At, Goto
<1>18. ASSUME NEW p \in Proc, ProbeTaken(p) PROVE TypeOK'
  BY <1>18, NextId DEF ProbeTaken, TypeOK, At, Goto
<1>19. ASSUME NEW p \in Proc, ProbeExhausted(p) PROVE TypeOK'
  <2>1. Leave(p, "unlock")
    BY <1>19 DEF ProbeExhausted
  <2>2. LocalsTyped'
    BY <2>1, LeaveType
  <2> QED BY <1>19, <2>2 DEF ProbeExhausted, TypeOK, LocalsTyped, At
<1>20. ASSUME NEW p \in Proc, ProbeFree(p) PROVE TypeOK'
  BY <1>20 DEF ProbeFree, TypeOK, At, Goto
<1>21. ASSUME NEW p \in Proc, StageManifest(p) PROVE TypeOK'
  BY <1>21 DEF StageManifest, TypeOK, At, Goto
<1>22. ASSUME NEW p \in Proc, Commit(p) PROVE TypeOK'
  <2>1. Leave(p, "unlock")
    BY <1>22 DEF Commit
  <2>2. LocalsTyped'
    BY <2>1, LeaveType
  <2> QED BY <1>22, <2>2 DEF Commit, PublishManifest, TypeOK, LocalsTyped,
       At
<1>23. ASSUME NEW p \in Proc, ChooseSnapid(p) PROVE TypeOK'
  BY <1>23 DEF ChooseSnapid, TypeOK, At, Goto
<1>24. ASSUME NEW p \in Proc, ChooseKeepLast(p) PROVE TypeOK'
  BY <1>24 DEF ChooseKeepLast, AllButLast, Listed, TypeOK, At, Goto
<1>25. ASSUME NEW p \in Proc, DeleteManifest(p) PROVE TypeOK'
  BY <1>25 DEF DeleteManifest, RemoveManifest, Oldest, TypeOK, At, Goto
<1>26. ASSUME NEW p \in Proc, DeletesDone(p) PROVE TypeOK'
  BY <1>26 DEF DeletesDone, TypeOK, At, Goto
<1>27. ASSUME NEW p \in Proc, ListForMark(p) PROVE TypeOK'
  BY <1>27 DEF ListForMark, Listed, TypeOK, At, Goto
<1>28. ASSUME NEW p \in Proc, RefuseSweep(p) PROVE TypeOK'
  BY <1>28 DEF RefuseSweep, TypeOK, At, Goto
<1>29. ASSUME NEW p \in Proc, MarkOne(p) PROVE TypeOK'
  BY <1>29 DEF MarkOne, TypeOK, At, Goto
<1>30. ASSUME NEW p \in Proc, MarkDone(p) PROVE TypeOK'
  BY <1>30 DEF MarkDone, TypeOK, At, Goto
<1>31. ASSUME NEW p \in Proc, SweepObject(p) PROVE TypeOK'
  BY <1>31 DEF SweepObject, TypeOK, At, Goto
<1>32. ASSUME NEW p \in Proc, ObjectsSwept(p) PROVE TypeOK'
  BY <1>32 DEF ObjectsSwept, Listed, TypeOK, At, Goto
<1>33. ASSUME NEW p \in Proc, SweepTmp(p) PROVE TypeOK'
  BY <1>33 DEF SweepTmp, TypeOK, At, Goto
<1>34. ASSUME NEW p \in Proc, PruneDone(p) PROVE TypeOK'
  <2>1. Leave(p, "unlock")
    BY <1>34 DEF PruneDone
  <2>2. LocalsTyped'
    BY <2>1, LeaveType
  <2> QED BY <1>34, <2>2 DEF PruneDone, Listed, TypeOK, LocalsTyped, At
<1>35. ASSUME NEW p \in Proc, LockFail(p) PROVE TypeOK'
  <2>1. Leave(p, "idle")
    BY <1>35 DEF LockFail
  <2>2. LocalsTyped'
    BY <2>1, LeaveType
  <2> QED BY <1>35, <2>2 DEF LockFail, TypeOK, LocalsTyped, At
<1>36. ASSUME NEW p \in Proc, FileFail(p) PROVE TypeOK'
  BY <1>36 DEF FileFail, CloseFile, TypeOK, At, Goto
<1>37. ASSUME NEW p \in Proc, SnapFail(p) PROVE TypeOK'
  <2>1. Leave(p, "unlock")
    BY <1>37 DEF SnapFail
  <2>2. LocalsTyped'
    BY <2>1, LeaveType
  <2> QED BY <1>37, <2>2 DEF SnapFail, PublishManifest, TypeOK, LocalsTyped,
       At
<1>38. ASSUME NEW p \in Proc, PruneFail(p) PROVE TypeOK'
  <2>1. Leave(p, "unlock")
    BY <1>38 DEF PruneFail
  <2>2. LocalsTyped'
    BY <2>1, LeaveType
  <2> QED BY <1>38, <2>2 DEF PruneFail, RemoveManifest, Oldest, TypeOK,
       LocalsTyped, At
<1>39. ASSUME NEW p \in Proc, Crash(p) PROVE TypeOK'
  <2>1. Leave(p, "idle")
    BY <1>39 DEF Crash
  <2>2. LocalsTyped'
    BY <2>1, LeaveType
  <2> QED BY <1>39, <2>2 DEF Crash, TypeOK, LocalsTyped, At
<1>40. CASE RemoveStaleLock
  BY <1>40 DEF RemoveStaleLock, TypeOK
<1>41. CASE UNCHANGED vars
  BY <1>41 DEF vars, TypeOK
<1> HIDE DEF fileVars, snapVars, pruneVars, repoVars
<1> QED
  BY <1>1, <1>2, <1>3, <1>4, <1>5, <1>6, <1>7, <1>8, <1>9, <1>10, <1>11,
       <1>12, <1>13, <1>14, <1>15, <1>16, <1>17, <1>18, <1>19, <1>20, <1>21,
       <1>22, <1>23, <1>24, <1>25, <1>26, <1>27, <1>28, <1>29, <1>30, <1>31,
       <1>32, <1>33, <1>34, <1>35, <1>36, <1>37, <1>38, <1>39, <1>40, <1>41
       DEF Next, LockStep, SnapStep, PruneStep, FailStep

\* Every variable keeps its type, whatever the environment does.
THEOREM TypeCorrect == Spec => []TypeOK
  BY InitType, StepType, PTL DEF Spec

-----------------------------------------------------------------------------
(* Safety.  A step of process p leaves the memory of the others alone, and *)
(* changes the repository only while p holds the lock or is acquiring it;  *)
(* since at most one process does, what the others know stays true.        *)

Kept(p) ==
    \A q \in Proc : q # p =>
        /\ pc'[q] = pc[q] /\ draft'[q] = draft[q] /\ prev'[q] = prev[q]
        /\ file'[q] = file[q] /\ todo'[q] = todo[q] /\ id'[q] = id[q]
        /\ ids'[q] = ids[q] /\ mark'[q] = mark[q]

Stays(p) ==
    /\ pc'[p] \in Holding => pc[p] \in Holding
    /\ pc[p] \in Holding \/ UNCHANGED repoVars

Good(p) == Kept(p) /\ Stays(p) /\ ProcInv(p)' /\ NoDanglingRef'

\* The processes a step does not belong to.
LEMMA OthersKeep ==
    ASSUME IInv, NEW p \in Proc, Kept(p), pc[p] \in Holding \/ UNCHANGED repoVars,
           NEW q \in Proc, q # p
    PROVE  ProcInv(q)'
<1>1. CASE pc[p] \in Holding
  <2> USE DEF Holding, Acquiring, Critical, SnapPhase, PrunePhase, FilePhase,
              NamePhase, MarkPhase, SweepPhase
  <2>1. /\ pc[q] \notin Holding /\ pc'[q] = pc[q]
        /\ mark'[q] = {} /\ draft'[q] = {} /\ prev'[q] = {}
    BY <1>1 DEF IInv, OneHolder, Kept, ProcInv
  <2> QED
    BY <2>1 DEF ProcInv
<1>2. CASE UNCHANGED repoVars
  <2>1. Referenced' = Referenced
    BY <1>2 DEF repoVars, Referenced
  <2> QED
    BY <1>2, <2>1 DEF IInv, Kept, ProcInv, repoVars
<1> QED
  BY <1>1, <1>2

\* Putting a good step together.
LEMMA GoodStep ==
    ASSUME IInv, TypeOK', NEW p \in Proc, Good(p)
    PROVE  IInv'
<1>1. OneHolder'
  BY DEF IInv, OneHolder, Good, Kept, Stays
<1>2. ASSUME NEW q \in Proc, q # p PROVE ProcInv(q)'
  BY <1>2, OthersKeep DEF Good, Stays
<1> QED
  BY <1>1, <1>2 DEF IInv, Good

\* The inductive invariant holds in an empty repository.
LEMMA InitInv == Init => IInv
<1> SUFFICES ASSUME Init PROVE IInv
  OBVIOUS
<1> USE DEF Init, Holding, Acquiring, Critical, SnapPhase, PrunePhase, FilePhase,
            NamePhase, MarkPhase, SweepPhase
<1>1. OneHolder /\ NoDanglingRef
  BY DEF OneHolder, NoDanglingRef
<1>2. \A p \in Proc : ProcInv(p)
  BY DEF ProcInv
<1> QED
  BY <1>1, <1>2, InitType DEF IInv

\* Passing the test of the lock: nobody else holds it or is acquiring it.
LEMMA LockFreeKeeps ==
    ASSUME LockGap = FALSE, ExistsHonest = TRUE, ListHonest = TRUE, IInv, TypeOK',
           NEW p \in Proc, LockFree(p)
    PROVE  IInv'
<1> USE DEF Holding, Acquiring, Critical, SnapPhase, PrunePhase, FilePhase,
            NamePhase, MarkPhase, SweepPhase
<1>1. Kept(p) /\ UNCHANGED repoVars /\ pc'[p] = "putlock"
  BY DEF LockFree, Kept, Goto, IInv, TypeOK, fileVars, snapVars, pruneVars, repoVars
<1>2. \A q \in Proc : pc[q] \notin Holding
  BY DEF LockFree, SaysAbsent, IInv, ProcInv
<1>3. OneHolder'
  BY <1>1, <1>2 DEF OneHolder, Kept
<1>4. NoDanglingRef'
  BY <1>1 DEF IInv, NoDanglingRef, repoVars
<1>5. ProcInv(p)'
  BY <1>1 DEF IInv, LockFree, ProcInv, At, fileVars, snapVars, pruneVars, repoVars
<1>6. ASSUME NEW q \in Proc, q # p PROVE ProcInv(q)'
  BY <1>1, <1>6, OthersKeep
<1> QED
  BY <1>3, <1>4, <1>5, <1>6 DEF IInv

\* Every step of a command, of a failure or of the environment is a good step.
LEMMA StepGood ==
    ASSUME ExistsHonest = TRUE, ListHonest = TRUE, IInv, NEW p \in Proc
    PROVE  /\ Start(p) => Good(p)
           /\ LockStep(p) => Good(p) \/ LockFree(p)
           /\ SnapStep(p) \/ PruneStep(p) \/ FailStep(p) => Good(p)
<1> USE DEF IInv, TypeOK, At, Goto, Good, Kept, Stays, NoDanglingRef, ProcInv,
            Holding, Acquiring, Critical, SnapPhase, PrunePhase, FilePhase,
            NamePhase, MarkPhase, SweepPhase,
            repoVars, fileVars, snapVars, pruneVars
<1>1. ASSUME Start(p) PROVE Good(p)
  BY <1>1 DEF Start
<1>2. ASSUME LockRefused(p) PROVE Good(p)
  BY <1>2 DEF LockRefused, Leave, CloseFile
<1>3. ASSUME StageLock(p) PROVE Good(p)
  BY <1>3 DEF StageLock
<1>4. ASSUME LockTaken(p) PROVE Good(p)
  BY <1>4 DEF LockTaken
<1>5. ASSUME Unlock(p) PROVE Good(p)
  BY <1>5 DEF Unlock, Leave, CloseFile
<1>6. ASSUME PickPrev(p) PROVE Good(p)
  BY <1>6 DEF PickPrev, Newest, Listed
<1>7. ASSUME LoadPrev(p) PROVE Good(p)
  BY <1>7 DEF LoadPrev
<1>8. ASSUME NoPrev(p) PROVE Good(p)
  BY <1>8 DEF NoPrev
<1>9. ASSUME ReuseFile(p) PROVE Good(p)
  BY <1>9 DEF ReuseFile
<1>10. ASSUME ReadFile(p) PROVE Good(p)
  BY <1>10 DEF ReadFile
<1>11. ASSUME StoreHit(p) PROVE Good(p)
  BY <1>11 DEF StoreHit, SaysPresent
<1>12. ASSUME StoreMiss(p) PROVE Good(p)
  BY <1>12 DEF StoreMiss
<1>13. ASSUME StageObject(p) PROVE Good(p)
  BY <1>13 DEF StageObject
<1>14. ASSUME RenameObject(p) PROVE Good(p)
  BY <1>14 DEF RenameObject
<1>15. ASSUME FileDone(p) PROVE Good(p)
  BY <1>15 DEF FileDone, CloseFile
<1>16. ASSUME ScanDone(p) PROVE Good(p)
  BY <1>16 DEF ScanDone
<1>17. ASSUME ProbeTaken(p) PROVE Good(p)
  BY <1>17 DEF ProbeTaken
<1>18. ASSUME ProbeExhausted(p) PROVE Good(p)
  BY <1>18 DEF ProbeExhausted, Leave, CloseFile
<1>19. ASSUME ProbeFree(p) PROVE Good(p)
  BY <1>19 DEF ProbeFree, SaysAbsent
<1>20. ASSUME StageManifest(p) PROVE Good(p)
  BY <1>20 DEF StageManifest
<1>21. ASSUME Commit(p) PROVE Good(p)
  BY <1>21 DEF Commit, PublishManifest, Leave, CloseFile
<1>22. ASSUME ChooseSnapid(p) PROVE Good(p)
  BY <1>22 DEF ChooseSnapid
<1>23. ASSUME ChooseKeepLast(p) PROVE Good(p)
  BY <1>23 DEF ChooseKeepLast, AllButLast, Listed
<1>24. ASSUME DeleteManifest(p) PROVE Good(p)
  BY <1>24 DEF DeleteManifest, RemoveManifest, Oldest
<1>25. ASSUME DeletesDone(p) PROVE Good(p)
  BY <1>25 DEF DeletesDone
<1>26. ASSUME ListForMark(p) PROVE Good(p)
  BY <1>26 DEF ListForMark, Listed, Referenced
<1>27. ASSUME RefuseSweep(p) PROVE Good(p)
  BY <1>27 DEF RefuseSweep
<1>28. ASSUME MarkOne(p) PROVE Good(p)
  BY <1>28 DEF MarkOne, Referenced
<1>29. ASSUME MarkDone(p) PROVE Good(p)
  BY <1>29 DEF MarkDone, Referenced
<1>30. ASSUME SweepObject(p) PROVE Good(p)
  BY <1>30 DEF SweepObject, Referenced
<1>31. ASSUME ObjectsSwept(p) PROVE Good(p)
  BY <1>31 DEF ObjectsSwept, Listed, Referenced
<1>32. ASSUME SweepTmp(p) PROVE Good(p)
  BY <1>32 DEF SweepTmp, Referenced
<1>33. ASSUME PruneDone(p) PROVE Good(p)
  BY <1>33 DEF PruneDone, Listed, Leave, CloseFile
<1>34. ASSUME LockFail(p) PROVE Good(p)
  BY <1>34 DEF LockFail, Leave, CloseFile
<1>35. ASSUME FileFail(p) PROVE Good(p)
  BY <1>35 DEF FileFail, CloseFile
<1>36. ASSUME SnapFail(p) PROVE Good(p)
  BY <1>36 DEF SnapFail, PublishManifest, Leave, CloseFile
<1>37. ASSUME PruneFail(p) PROVE Good(p)
  BY <1>37 DEF PruneFail, RemoveManifest, Oldest, Leave, CloseFile,
       Referenced
<1>38. ASSUME Crash(p) PROVE Good(p)
  BY <1>38 DEF Crash, Leave, CloseFile
<1> HIDE DEF Good
<1> QED
  BY <1>1, <1>2, <1>3, <1>4, <1>5, <1>6, <1>7, <1>8, <1>9, <1>10, <1>11,
       <1>12, <1>13, <1>14, <1>15, <1>16, <1>17, <1>18, <1>19, <1>20, <1>21,
       <1>22, <1>23, <1>24, <1>25, <1>26, <1>27, <1>28, <1>29, <1>30, <1>31,
       <1>32, <1>33, <1>34, <1>35, <1>36, <1>37, <1>38 DEF LockStep,
       SnapStep, PruneStep, FailStep

\* Every step keeps the inductive invariant.
LEMMA StepInv ==
    ASSUME LockGap = FALSE, ExistsHonest = TRUE, ListHonest = TRUE, IInv, [Next]_vars
    PROVE  IInv'
<1>1. TypeOK'
  BY StepType DEF IInv
<1>2. ASSUME NEW p \in Proc, LockFree(p) PROVE IInv'
  BY <1>1, <1>2, LockFreeKeeps
<1>3. ASSUME NEW p \in Proc, Good(p) PROVE IInv'
  BY <1>1, <1>3, GoodStep
<1>4. CASE RemoveStaleLock
  <2> USE DEF Critical, SnapPhase, PrunePhase, FilePhase, NamePhase, MarkPhase,
              SweepPhase
  <2>1. OneHolder' /\ NoDanglingRef' /\ Referenced' = Referenced
    BY <1>4 DEF IInv, RemoveStaleLock, OneHolder, NoDanglingRef, Referenced
  <2>2. ASSUME NEW p \in Proc PROVE ProcInv(p)'
    BY <1>4, <2>1, <2>2 DEF IInv, RemoveStaleLock, ProcInv, At, fileVars, snapVars,
                            pruneVars
  <2> QED
    BY <1>1, <2>1, <2>2 DEF IInv
<1>5. CASE UNCHANGED vars
  <2>1. OneHolder' /\ NoDanglingRef' /\ Referenced' = Referenced
    BY <1>5 DEF IInv, vars, repoVars, OneHolder, NoDanglingRef, Referenced
  <2>2. ASSUME NEW p \in Proc PROVE ProcInv(p)'
    BY <1>5, <2>1, <2>2 DEF IInv, vars, repoVars, fileVars, snapVars, pruneVars, ProcInv
  <2> QED
    BY <1>1, <2>1, <2>2 DEF IInv
<1> QED
  BY <1>2, <1>3, <1>4, <1>5, StepGood DEF Next

\* The inductive invariant holds in every reachable state.
THEOREM Inductive ==
    ASSUME LockGap = FALSE, ExistsHonest = TRUE, ListHonest = TRUE
    PROVE  Spec => []IInv
<1>1. IInv /\ [Next]_vars => IInv'
  BY StepInv
<1> QED
  BY <1>1, InitInv, PTL DEF Spec

\* No manifest refers to an object that is not in the repository, whatever
\* is interrupted, fails or crashes (format.md, "Snapshot commit protocol").
THEOREM NothingDangles ==
    ASSUME LockGap = FALSE, ExistsHonest = TRUE, ListHonest = TRUE
    PROVE  Spec => []NoDanglingRef
<1>1. IInv => NoDanglingRef
  BY DEF IInv
<1> QED
  BY <1>1, Inductive, PTL

\* At most one command is at work, and the lock file is there while it is.
THEOREM Exclusion ==
    ASSUME LockGap = FALSE, ExistsHonest = TRUE, ListHonest = TRUE
    PROVE  Spec => []LockExclusive
<1>1. IInv => LockExclusive
  BY DEF IInv, OneHolder, ProcInv, Holding, LockExclusive
<1> QED
  BY <1>1, Inductive, PTL

\* A sweep that has gone through objects/ leaves exactly what the remaining
\* manifests refer to (prune.h).
THEOREM SweepExact ==
    ASSUME LockGap = FALSE, ExistsHonest = TRUE, ListHonest = TRUE
    PROVE  Spec => []SweepIsExact
<1>1. IInv => SweepIsExact
  BY DEF IInv, ProcInv, NoDanglingRef, Referenced, SweepIsExact, At, SweepPhase
<1> QED
  BY <1>1, Inductive, PTL

\* Nothing a running snapshot relies on is swept away under it.
THEOREM SnapshotSafe ==
    ASSUME LockGap = FALSE, ExistsHonest = TRUE, ListHonest = TRUE
    PROVE  Spec => []RunningSnapshotIsSafe
<1>1. IInv => RunningSnapshotIsSafe
  BY DEF IInv, ProcInv, RunningSnapshotIsSafe
<1> QED
  BY <1>1, Inductive, PTL

-----------------------------------------------------------------------------
(* What a step does to the committed snapshots: nothing, publish one under *)
(* a free name, or remove one.                                             *)

\* What a step can do to the committed snapshots: nothing, add one under
\* a free name, or remove one (amisnap_repo_writer_finish, amisnap_prune_execute).
LEMMA CommitShape ==
    ASSUME IInv, [Next]_vars
    PROVE  \/ UNCHANGED <<committed, refs>>
           \/ \E p \in Proc : id[p] \notin committed /\ PublishManifest(p)
           \/ \E i \in SnapId : RemoveManifest(i)
<1> USE DEF repoVars
<1>1. ASSUME NEW p \in Proc, Commit(p) \/ SnapFail(p)
      PROVE  \/ UNCHANGED <<committed, refs>>
             \/ id[p] \notin committed /\ PublishManifest(p)
  BY <1>1 DEF Commit, SnapFail, IInv, ProcInv, At
<1>2. ASSUME NEW p \in Proc, DeleteManifest(p) \/ PruneFail(p)
      PROVE  \/ UNCHANGED <<committed, refs>>
             \/ \E i \in SnapId : RemoveManifest(i)
  <2>1. Oldest(ids[p]) \subseteq SnapId
    BY DEF IInv, TypeOK, Oldest
  <2> QED
    BY <1>2, <2>1 DEF DeleteManifest, PruneFail
<1>3. ASSUME NEW p \in Proc, Start(p) \/ LockStep(p) PROVE UNCHANGED <<committed, refs>>
  BY <1>3 DEF Start, LockStep, LockFree, LockRefused, StageLock, LockTaken, Unlock
<1>4. ASSUME NEW p \in Proc, SnapStep(p), ~Commit(p) PROVE UNCHANGED <<committed, refs>>
  BY <1>4 DEF SnapStep, PickPrev, LoadPrev, NoPrev, ReuseFile, ReadFile, StoreHit,
              StoreMiss, StageObject, RenameObject, FileDone, ScanDone, ProbeTaken,
              ProbeExhausted, ProbeFree, StageManifest
<1>5. ASSUME NEW p \in Proc, PruneStep(p), ~DeleteManifest(p)
      PROVE  UNCHANGED <<committed, refs>>
  BY <1>5 DEF PruneStep, ChooseSnapid, ChooseKeepLast, DeletesDone, ListForMark,
              RefuseSweep, MarkOne, MarkDone, SweepObject, ObjectsSwept, SweepTmp,
              PruneDone
<1>6. ASSUME NEW p \in Proc, FailStep(p), ~SnapFail(p), ~PruneFail(p)
      PROVE  UNCHANGED <<committed, refs>>
  BY <1>6 DEF FailStep, LockFail, FileFail, Crash
<1>7. CASE RemoveStaleLock \/ UNCHANGED vars
  BY <1>7 DEF RemoveStaleLock, vars
<1> QED
  BY <1>1, <1>2, <1>3, <1>4, <1>5, <1>6, <1>7 DEF Next

\* A committed snapshot is never written over (format.md, "the writer
\* increments ticks until free").
THEOREM Immutable ==
    ASSUME LockGap = FALSE, ExistsHonest = TRUE, ListHonest = TRUE
    PROVE  Spec => CommittedIsFixed
<1>1. IInv /\ [Next]_vars =>
         [\A i \in committed \cap committed' : refs'[i] = refs[i]]_vars
  <2> SUFFICES ASSUME IInv, [Next]_vars, NEW i \in committed \cap committed'
               PROVE  refs'[i] = refs[i]
    OBVIOUS
  <2> QED
    BY CommitShape DEF PublishManifest, RemoveManifest, IInv, TypeOK
<1> QED
  BY <1>1, Inductive, PTL DEF Spec, CommittedIsFixed

-----------------------------------------------------------------------------
(* Refinement.                                                             *)

\* What the mapping makes of a state without dangling references.
LEMMA Mapping ==
    ASSUME NoDanglingRef
    PROVE  /\ Restorable = committed
           /\ Contents = [i \in SnapId |-> IF i \in committed THEN refs[i] ELSE {}]
  BY DEF NoDanglingRef, Restorable, Contents

\* The same in the next state.
LEMMA MappingNext ==
    ASSUME NoDanglingRef'
    PROVE  /\ Restorable' = committed'
           /\ Contents' = [i \in SnapId |-> IF i \in committed' THEN refs'[i] ELSE {}]
  BY DEF NoDanglingRef, Restorable, Contents

\* An empty repository is an empty store.
LEMMA StoreInit == Init => Store!StoreInit
  BY DEF Init, Store!StoreInit, Restorable, Contents

\* Every step of the repository is a step of the store, or leaves it as it is.
LEMMA StoreStep ==
    ASSUME IInv, [Next]_vars, IInv'
    PROVE  [Store!StoreNext]_(Store!storeVars)
<1> USE DEF Store!StoreNext, Store!storeVars, Store!Add, Store!Delete
<1>1. /\ Restorable = committed
      /\ Contents = [i \in SnapId |-> IF i \in committed THEN refs[i] ELSE {}]
  BY Mapping DEF IInv
<1>2. /\ Restorable' = committed'
      /\ Contents' = [i \in SnapId |-> IF i \in committed' THEN refs'[i] ELSE {}]
  BY MappingNext DEF IInv
<1>3. CASE UNCHANGED <<committed, refs>>
  BY <1>1, <1>2, <1>3
<1>4. ASSUME NEW p \in Proc, id[p] \notin committed, PublishManifest(p)
      PROVE  Store!StoreNext
  <2>1. id[p] \in SnapId /\ draft[p] \in SUBSET Object /\ refs \in [SnapId -> SUBSET Object]
    BY DEF IInv, TypeOK
  <2>2. Store!Add(id[p], draft[p])
    BY <1>1, <1>2, <1>4, <2>1 DEF PublishManifest
  <2> QED
    BY <2>1, <2>2
<1>5. ASSUME NEW i \in SnapId, RemoveManifest(i)
      PROVE  Store!StoreNext \/ UNCHANGED Store!storeVars
  <2>1. refs \in [SnapId -> SUBSET Object]
    BY DEF IInv, TypeOK
  <2>2. CASE i \in committed
    <3>1. Store!Delete(i)
      BY <1>1, <1>2, <1>5, <2>1, <2>2 DEF RemoveManifest
    <3> QED
      BY <3>1
  <2>3. CASE i \notin committed
    BY <1>1, <1>2, <1>5, <2>1, <2>3 DEF RemoveManifest
  <2> QED
    BY <2>2, <2>3
<1> QED
  BY <1>3, <1>4, <1>5, CommitShape

\* The repository implements the abstract store of snapshots.
THEOREM Implements ==
    ASSUME LockGap = FALSE, ExistsHonest = TRUE, ListHonest = TRUE
    PROVE  Spec => ImplementsStore
<1>1. IInv /\ [Next]_vars /\ IInv' => [Store!StoreNext]_(Store!storeVars)
  BY StoreStep
<1> QED
  BY <1>1, StoreInit, Inductive, PTL DEF Spec, ImplementsStore, Store!StoreSpec
=============================================================================
