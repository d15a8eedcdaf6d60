------------------------- MODULE InstallStoreProofs -------------------------
(***************************************************************************)
(* Proofs about InstallStore, for any number of processes, subjects and    *)
(* files and any bounds.                                                   *)
(***************************************************************************)
EXTENDS InstallStore, FiniteSetTheorems, TLAPS

(***************************************************************************)
(* Types.                                                                  *)
(***************************************************************************)

LEMMA EmptyTreeType ==
  /\ NoTree \in Tree
  /\ \A p \in Procs : EmptyTree(p) \in Tree
  BY DEF NoTree, EmptyTree, Tree, FileState, Files

LEMMA SetFileType ==
  ASSUME NEW t \in Tree, NEW f \in Files, NEW state \in FileState
  PROVE  SetFile(t, f, state) \in Tree
  BY DEF SetFile, Tree, Files

LEMMA SettledType ==
  ASSUME NEW t \in Tree
  PROVE  Settled(t) \in Tree
  BY DEF Settled, Tree, FileState, Files

LEMMA QuarantineType ==
  ASSUME TypeOK, NEW p \in Procs, attempt[p] \in Attempts
  PROVE  Quarantine(p) \in Tree
  BY DEF TypeOK, Quarantine

\* Replacing the tree at a quarantine path keeps the type of staging.
LEMMA SetQuarantineType ==
  ASSUME TypeOK, NEW p \in Procs, NEW t \in Tree, SetQuarantine(p, t)
  PROVE  staging' \in [Subjects -> [Attempts -> Tree]]
  BY DEF TypeOK, SetQuarantine

LEMMA TypeInit == Init => TypeOK
  <1> SUFFICES ASSUME Init PROVE TypeOK
    OBVIOUS
  <1>1. AnySubject \in Subjects
    BY ConstantsAssumption DEF AnySubject
  <1>2. NoTree \in Tree
    BY EmptyTreeType
  <1>3. [publisher |-> Unsigned, subject |-> AnySubject] \in Evidence
    BY <1>1, ConstantsAssumption DEF Evidence
  <1> QED
    BY <1>1, <1>2, <1>3, ConstantsAssumption DEF Init, TypeOK, Receipt, Critical, Building

(***************************************************************************)
(* The types, with what the steps rely on about their own locals, are      *)
(* inductive on their own.                                                 *)
(***************************************************************************)

TypeInv == TypeOK /\ LocalOK

LEMMA TypeInvInit == Init => TypeInv
  <1> SUFFICES ASSUME Init PROVE TypeInv
    OBVIOUS
  <1>1. TypeOK
    BY TypeInit
  <1>2. LocalOK
    BY DEF Init, LocalOK, Building
  <1> QED
    BY <1>1, <1>2 DEF TypeInv

LEMMA TypeInvNext == TypeInv /\ [Next]_vars => TypeInv'
  <1> SUFFICES ASSUME TypeInv, [Next]_vars PROVE TypeInv'
    OBVIOUS
  <1> USE ConstantsAssumption DEF TypeInv, TypeOK, LocalOK, disk, request, local,
        budget, vars, Goto, Sets, Fault, Critical, Building, Refusals
  <1>0. ASSUME NEW p \in Procs, Return(p)
          PROVE  receipts' \subseteq Receipt
    <2>1. requests[p] \in 1 .. MaxRequests
      BY <1>0 DEF Return
    <2>2. [by |-> p, nth |-> requests[p], subject |-> subject[p], evidence |-> evidence[p],
           reused |-> outcome[p] = "reused"] \in Receipt
      BY <2>1 DEF Receipt
    <2> QED
      BY <1>0, <2>2 DEF Return
  <1>1. ASSUME NEW p \in Procs, NEW s \in Subjects, NEW e \in Evidence, Refuse(p, s, e)
        PROVE  TypeInv'
    BY <1>1 DEF Refuse
  <1>2. ASSUME NEW p \in Procs, SubjectLocked(p) PROVE TypeInv'
    BY <1>2 DEF SubjectLocked
  <1>3. ASSUME NEW p \in Procs, AcquireLock(p) PROVE TypeInv'
    BY <1>3 DEF AcquireLock
  <1>4. ASSUME NEW p \in Procs, AcquireLockFails(p) PROVE TypeInv'
    BY <1>4 DEF AcquireLockFails
  <1>5. ASSUME NEW p \in Procs, FindPublished(p) PROVE TypeInv'
    BY <1>5 DEF FindPublished
  <1>6. ASSUME NEW p \in Procs, FindAbsent(p) PROVE TypeInv'
    BY <1>6 DEF FindAbsent
  <1>7. ASSUME NEW p \in Procs, Reuse(p) PROVE TypeInv'
    BY <1>7 DEF Reuse
  <1>8. ASSUME NEW p \in Procs, SkipTakenStaging(p) PROVE TypeInv'
    BY <1>8 DEF SkipTakenStaging
  <1>9. ASSUME NEW p \in Procs, StagingUnavailable(p) PROVE TypeInv'
    BY <1>9 DEF StagingUnavailable
  <1>10. ASSUME NEW p \in Procs, MaterializationConflict(p) PROVE TypeInv'
    BY <1>10 DEF MaterializationConflict
  <1>11. ASSUME NEW p \in Procs, SyncFileGone(p) PROVE TypeInv'
    BY <1>11 DEF SyncFileGone
  <1>12. ASSUME NEW p \in Procs, VerifyStaged(p) PROVE TypeInv'
    BY <1>12 DEF VerifyStaged
  <1>13. ASSUME NEW p \in Procs, StageVerificationFails(p) PROVE TypeInv'
    BY <1>13 DEF StageVerificationFails
  <1>14. ASSUME NEW p \in Procs, RecordConflict(p) PROVE TypeInv'
    BY <1>14 DEF RecordConflict
  <1>15. ASSUME NEW p \in Procs, SealRecordFails(p) PROVE TypeInv'
    BY <1>15 DEF SealRecordFails
  <1>16. ASSUME NEW p \in Procs, BuildFails(p) PROVE TypeInv'
    BY <1>16 DEF BuildFails, BuildErrors
  <1>17. ASSUME NEW p \in Procs, ReusePublished(p) PROVE TypeInv'
    <2>1. CASE MatchesExisting(p)
      BY <1>17, <2>1 DEF ReusePublished
    <2>2. CASE ~MatchesExisting(p)
      BY <1>17, <2>2 DEF ReusePublished
    <2> QED
      BY <2>1, <2>2
  <1>18. ASSUME NEW p \in Procs, SyncPromotion(p) PROVE TypeInv'
    BY <1>18 DEF SyncPromotion
  <1>19. ASSUME NEW p \in Procs, SyncPromotionFails(p) PROVE TypeInv'
    BY <1>19 DEF SyncPromotionFails
  <1>20. ASSUME NEW p \in Procs, ConfirmPromotion(p) PROVE TypeInv'
    <2>1. CASE MatchesExisting(p)
      BY <1>20, <2>1 DEF ConfirmPromotion
    <2>2. CASE ~MatchesExisting(p)
      BY <1>20, <2>2 DEF ConfirmPromotion
    <2> QED
      BY <2>1, <2>2
  <1>21. ASSUME NEW p \in Procs, CleanupFails(p) PROVE TypeInv'
    BY <1>21 DEF CleanupFails
  <1>22. ASSUME NEW p \in Procs, ReleaseLock(p) PROVE TypeInv'
    <2>1. receipts' \subseteq Receipt
      BY <1>22, <1>0 DEF ReleaseLock
    <2> QED
      BY <1>22, <2>1 DEF ReleaseLock, Return
  <1>23. ASSUME NEW p \in Procs, ReleaseLockFails(p) PROVE TypeInv'
    <2>1. receipts' \subseteq Receipt
      BY <1>23, <1>0 DEF ReleaseLockFails
    <2> QED
      BY <1>23, <2>1 DEF ReleaseLockFails, Return
  <1>24. ASSUME NEW p \in Procs, Crash(p) PROVE TypeInv'
    BY <1>24 DEF Crash
  <1>25. ASSUME NEW p \in Procs, NEW s \in Subjects, NEW e \in Evidence, Submit(p, s, e)
        PROVE  TypeInv'
    BY <1>25 DEF Submit
  <1>26. ASSUME NEW s \in Subjects, HostRemovesLock(s) PROVE TypeInv'
    BY <1>26 DEF HostRemovesLock
  <1>27. CASE UNCHANGED vars
    BY <1>27
  <1>28. ASSUME NEW p \in Procs, CreateStaging(p) PROVE TypeInv'
    <2>1. staging' \in [Subjects -> [Attempts -> Tree]]
      BY <1>28, EmptyTreeType, SetQuarantineType DEF CreateStaging
    <2>2. attempt[p] \in Attempts
      BY <1>28 DEF CreateStaging, Attempts
    <2> QED
      BY <1>28, <2>1, <2>2 DEF CreateStaging
  <1>29. ASSUME NEW p \in Procs, CreateStagingFails(p) PROVE TypeInv'
    <2>1. staging' \in [Subjects -> [Attempts -> Tree]]
      BY <1>29, EmptyTreeType, SetQuarantineType DEF CreateStagingFails
    <2>2. attempt[p] \in Attempts
      BY <1>29 DEF CreateStagingFails, Attempts
    <2> QED
      BY <1>29, <2>1, <2>2 DEF CreateStagingFails
  <1>30. ASSUME NEW p \in Procs, PromoteFindsPublished(p) PROVE TypeInv'
    <2>1. staging' \in [Subjects -> [Attempts -> Tree]]
      BY <1>30, EmptyTreeType, SetQuarantineType DEF PromoteFindsPublished
    <2> QED
      BY <1>30, <2>1 DEF PromoteFindsPublished
  <1>31. ASSUME NEW p \in Procs, Cleanup(p) PROVE TypeInv'
    <2>1. staging' \in [Subjects -> [Attempts -> Tree]]
      BY <1>31, EmptyTreeType, SetQuarantineType DEF Cleanup
    <2> QED
      BY <1>31, <2>1 DEF Cleanup
  <1>32. ASSUME NEW p \in Procs, Promote(p) PROVE TypeInv'
    <2>1. staging' \in [Subjects -> [Attempts -> Tree]]
      BY <1>32, EmptyTreeType, SetQuarantineType DEF Promote
    <2>2. Quarantine(p) \in Tree
      BY <1>32, QuarantineType DEF Promote
    <2> QED
      BY <1>32, <2>1, <2>2 DEF Promote
  <1>33. ASSUME NEW p \in Procs, WriteFile(p) PROVE TypeInv'
    <2>1. Quarantine(p) \in Tree
      BY <1>33, QuarantineType DEF WriteFile
    <2>2. SetFile(Quarantine(p), cursor[p], "dirty") \in Tree
      BY <1>33, <2>1, SetFileType DEF WriteFile, FileState
    <2>3. staging' \in [Subjects -> [Attempts -> Tree]]
      BY <1>33, <2>2, SetQuarantineType DEF WriteFile
    <2> QED
      BY <1>33, <2>3 DEF WriteFile
  <1>34. ASSUME NEW p \in Procs, SyncFile(p) PROVE TypeInv'
    <2>1. Quarantine(p) \in Tree
      BY <1>34, QuarantineType DEF SyncFile
    <2>2. SetFile(Quarantine(p), cursor[p], "synced") \in Tree
      BY <1>34, <2>1, SetFileType DEF SyncFile, FileState
    <2>3. staging' \in [Subjects -> [Attempts -> Tree]]
      BY <1>34, <2>2, SetQuarantineType DEF SyncFile
    <2>4. cursor' \in [Procs -> 1 .. NumFiles + 1]
      BY <1>34 DEF SyncFile, Files
    <2> QED
      BY <1>34, <2>3, <2>4 DEF SyncFile
  <1>35. ASSUME NEW p \in Procs, WriteRecord(p) PROVE TypeInv'
    <2>1. Quarantine(p) \in Tree
      BY <1>35, QuarantineType DEF WriteRecord
    <2>2. [Quarantine(p) EXCEPT !.evidence = evidence[p]] \in Tree
      BY <1>35, <2>1 DEF Tree
    <2>3. staging' \in [Subjects -> [Attempts -> Tree]]
      BY <1>35, <2>2, SetQuarantineType DEF WriteRecord
    <2> QED
      BY <1>35, <2>3 DEF WriteRecord
  <1>36. ASSUME NEW p \in Procs, SealRecord(p) PROVE TypeInv'
    <2>1. Quarantine(p) \in Tree
      BY <1>36, QuarantineType DEF SealRecord
    <2>2. [Quarantine(p) EXCEPT !.sealed = @ \/ Quarantine(p).owner = p] \in Tree
      BY <1>36, <2>1 DEF Tree
    <2>3. staging' \in [Subjects -> [Attempts -> Tree]]
      BY <1>36, <2>2, SetQuarantineType DEF SealRecord
    <2> QED
      BY <1>36, <2>3 DEF SealRecord
  <1>37. ASSUME PowerLoss PROVE TypeInv'
    <2>1. PICK undone \in SUBSET {s \in Subjects : final[s] # NoTree /\ ~durable[s]},
               back \in [Subjects -> Attempts] : Rebooted(undone, back)
      BY <1>37 DEF PowerLoss
    <2>2. final' \in [Subjects -> Tree]
      BY <2>1, EmptyTreeType, SettledType DEF Rebooted
    <2>3. staging' \in [Subjects -> [Attempts -> Tree]]
      BY <2>1, SettledType DEF Rebooted
    <2>4. durable' \in [Subjects -> BOOLEAN]
      BY <2>1 DEF Rebooted
    <2> QED
      BY <1>37, <2>2, <2>3, <2>4 DEF PowerLoss
  <1>38. ASSUME NEW p \in Procs, OpenLockFails(p) PROVE TypeInv'
    BY <1>38 DEF OpenLockFails
  <1>39. ASSUME NEW p \in Procs, LookupFails(p) PROVE TypeInv'
    BY <1>39 DEF LookupFails
  <1>40. ASSUME NEW p \in Procs, PromoteFindsPublishedLeaves(p) PROVE TypeInv'
    BY <1>40 DEF PromoteFindsPublishedLeaves
  <1>41. ASSUME NEW p \in Procs, ReadExistingFails(p) PROVE TypeInv'
    BY <1>41 DEF ReadExistingFails
  <1> QED
    BY <1>1, <1>2, <1>3, <1>4, <1>5, <1>6, <1>7, <1>8, <1>9, <1>10,
       <1>11, <1>12, <1>13, <1>14, <1>15, <1>16, <1>17, <1>18, <1>19, <1>20,
       <1>21, <1>22, <1>23, <1>24, <1>25, <1>26, <1>27, <1>28, <1>29, <1>30,
       <1>31, <1>32, <1>33, <1>34, <1>35, <1>36, <1>37, <1>38, <1>39, <1>40,
       <1>41 DEF Next, Step, FaultStep

\* Types, and what each process relies on about its locals.
THEOREM TypeInvInvariant == Spec => []TypeInv
  BY TypeInvInit, TypeInvNext, PTL DEF Spec

\* Type correctness.
THEOREM TypeCorrect == Spec => []TypeOK
  BY TypeInvInvariant, PTL DEF TypeInv

(***************************************************************************)
(* Published trees are complete, whatever becomes of the locks.            *)
(***************************************************************************)

\* A process keeps what it has built while nobody touches its tree.
LEMMA BuildsOwnFrame ==
  ASSUME NEW q \in Procs, BuildsOwn(q),
         pc'[q] = pc[q], subject'[q] = subject[q], evidence'[q] = evidence[q],
         attempt'[q] = attempt[q], cursor'[q] = cursor[q],
         final'[subject[q]] = NoTree => final[subject[q]] = NoTree,
         final[subject[q]] = NoTree /\ pc[q] \in Building \cup {"cleanup"} =>
           Quarantine(q)' = Quarantine(q)
  PROVE  BuildsOwn(q)'
  BY DEF BuildsOwn, Building, Quarantine

\* A process that writes at its path, or creates a tree there, disturbs no
\* other process that still has a chance to publish.
LEMMA OthersBuild ==
  ASSUME TypeInv,
         NEW p \in Procs, BuildsOwn(p),
         pc[p] \in Building \cup {"cleanup"} \/ Quarantine(p) = NoTree,
         NEW t, SetQuarantine(p, t),
         UNCHANGED <<subject, evidence, attempt>>,
         \A s \in Subjects : final'[s] = NoTree => final[s] = NoTree,
         NEW q \in Procs, q # p, BuildsOwn(q), pc'[q] = pc[q], cursor'[q] = cursor[q]
  PROVE  BuildsOwn(q)'
  <1>1. ASSUME final[subject[q]] = NoTree, pc[q] \in Building \cup {"cleanup"}
        PROVE  Quarantine(q)' = Quarantine(q)
    <2>1. Quarantine(q).owner = q /\ attempt[q] \in Attempts
      BY <1>1 DEF BuildsOwn, TypeInv, LocalOK
    <2>2. CASE subject[p] = subject[q] /\ attempt[p] = attempt[q]
      <3>1. Quarantine(p).owner = q
        BY <2>1, <2>2 DEF Quarantine
      <3>2. Quarantine(p).owner \in {p, Nobody}
        BY <1>1, <2>2 DEF BuildsOwn, NoTree, EmptyTree
      <3> QED
        BY <3>1, <3>2, ConstantsAssumption
    <2>3. CASE subject[p] # subject[q] \/ attempt[p] # attempt[q]
      BY <2>1, <2>3 DEF SetQuarantine, Quarantine, TypeInv, TypeOK
    <2> QED
      BY <2>2, <2>3
  <1>2. final'[subject[q]] = NoTree => final[subject[q]] = NoTree
    BY DEF TypeInv, TypeOK
  <1> QED
    BY <1>1, <1>2, BuildsOwnFrame

Inv == PublishedComplete /\ \A p \in Procs : BuildsOwn(p) /\ SeesPublished(p)

LEMMA InvInit == Init => Inv
  BY DEF Init, Inv, PublishedComplete, BuildsOwn, SeesPublished, Building

\* A step of p that touches no tree only has to keep p's own part.
LEMMA OneMoves ==
  ASSUME Inv, NEW p \in Procs, UNCHANGED <<staging, final>>,
         \A q \in Procs \ {p} : /\ pc'[q] = pc[q]
                                /\ subject'[q] = subject[q]
                                /\ evidence'[q] = evidence[q]
                                /\ attempt'[q] = attempt[q]
                                /\ cursor'[q] = cursor[q],
         BuildsOwn(p)', SeesPublished(p)'
  PROVE  Inv'
  <1> USE DEF Inv
  <1>1. PublishedComplete'
    BY DEF PublishedComplete, Complete
  <1>2. ASSUME NEW q \in Procs, q # p PROVE BuildsOwn(q)'
    BY <1>2, BuildsOwnFrame DEF Quarantine
  <1>3. ASSUME NEW q \in Procs, q # p PROVE SeesPublished(q)'
    BY <1>3 DEF SeesPublished
  <1> QED
    BY <1>1, <1>2, <1>3

\* A step of p that writes at its own path: the other processes keep what
\* they have, and what is published is not touched.
LEMMA OneBuilds ==
  ASSUME TypeInv, Inv, NEW p \in Procs,
         pc[p] \in Building \cup {"cleanup"} \/ Quarantine(p) = NoTree,
         NEW t, SetQuarantine(p, t),
         UNCHANGED <<final, subject, evidence, attempt>>,
         \A q \in Procs \ {p} : pc'[q] = pc[q] /\ cursor'[q] = cursor[q],
         BuildsOwn(p)', SeesPublished(p)'
  PROVE  Inv'
  <1> USE DEF Inv
  <1>1. PublishedComplete'
    BY DEF PublishedComplete, Complete
  <1>2. ASSUME NEW q \in Procs, q # p PROVE BuildsOwn(q)'
    BY <1>2, OthersBuild
  <1>3. ASSUME NEW q \in Procs, q # p PROVE SeesPublished(q)'
    BY <1>3 DEF SeesPublished
  <1> QED
    BY <1>1, <1>2, <1>3

\* What a process finds at its path after it wrote there.
LEMMA OwnPath ==
  ASSUME TypeInv, NEW p \in Procs, attempt[p] \in Attempts, NEW t, SetQuarantine(p, t),
         UNCHANGED <<subject, attempt>>
  PROVE  Quarantine(p)' = t
  BY DEF TypeInv, TypeOK, SetQuarantine, Quarantine

LEMMA InvNext == TypeInv /\ Inv /\ [Next]_vars => Inv'
  <1> SUFFICES ASSUME TypeInv, Inv, [Next]_vars PROVE Inv'
    OBVIOUS
  <1> USE DEF Goto, Sets, disk, request, local, budget
  <1>1. ASSUME NEW p \in Procs, SubjectLocked(p) PROVE Inv'
    <2>1. BuildsOwn(p)' /\ SeesPublished(p)'
      BY <1>1 DEF SubjectLocked, Inv, BuildsOwn, SeesPublished, Quarantine, Building, TypeInv, TypeOK
    <2> QED
      BY <1>1, <2>1, OneMoves DEF SubjectLocked, TypeInv, TypeOK
  <1>2. ASSUME NEW p \in Procs, AcquireLock(p) PROVE Inv'
    <2>1. BuildsOwn(p)' /\ SeesPublished(p)'
      BY <1>2 DEF AcquireLock, Inv, BuildsOwn, SeesPublished, Quarantine, Building, TypeInv, TypeOK
    <2> QED
      BY <1>2, <2>1, OneMoves DEF AcquireLock, TypeInv, TypeOK
  <1>3. ASSUME NEW p \in Procs, AcquireLockFails(p) PROVE Inv'
    <2>1. BuildsOwn(p)' /\ SeesPublished(p)'
      BY <1>3 DEF AcquireLockFails, Inv, BuildsOwn, SeesPublished, Quarantine, Building, TypeInv, TypeOK
    <2> QED
      BY <1>3, <2>1, OneMoves DEF AcquireLockFails, TypeInv, TypeOK
  <1>4. ASSUME NEW p \in Procs, FindPublished(p) PROVE Inv'
    <2>1. BuildsOwn(p)' /\ SeesPublished(p)'
      BY <1>4 DEF FindPublished, Inv, BuildsOwn, SeesPublished, Quarantine, Building, TypeInv, TypeOK
    <2> QED
      BY <1>4, <2>1, OneMoves DEF FindPublished, TypeInv, TypeOK
  <1>5. ASSUME NEW p \in Procs, FindAbsent(p) PROVE Inv'
    <2>1. BuildsOwn(p)' /\ SeesPublished(p)'
      BY <1>5 DEF FindAbsent, Inv, BuildsOwn, SeesPublished, Quarantine, Building, TypeInv, TypeOK
    <2> QED
      BY <1>5, <2>1, OneMoves DEF FindAbsent, TypeInv, TypeOK
  <1>6. ASSUME NEW p \in Procs, Reuse(p) PROVE Inv'
    <2>1. BuildsOwn(p)' /\ SeesPublished(p)'
      BY <1>6 DEF Reuse, Inv, BuildsOwn, SeesPublished, Quarantine, Building, TypeInv, TypeOK
    <2> QED
      BY <1>6, <2>1, OneMoves DEF Reuse, TypeInv, TypeOK
  <1>7. ASSUME NEW p \in Procs, SkipTakenStaging(p) PROVE Inv'
    <2>1. BuildsOwn(p)' /\ SeesPublished(p)'
      BY <1>7 DEF SkipTakenStaging, Inv, BuildsOwn, SeesPublished, Quarantine, Building, TypeInv, TypeOK
    <2> QED
      BY <1>7, <2>1, OneMoves DEF SkipTakenStaging, TypeInv, TypeOK
  <1>8. ASSUME NEW p \in Procs, StagingUnavailable(p) PROVE Inv'
    <2>1. BuildsOwn(p)' /\ SeesPublished(p)'
      BY <1>8 DEF StagingUnavailable, Inv, BuildsOwn, SeesPublished, Quarantine, Building, TypeInv, TypeOK
    <2> QED
      BY <1>8, <2>1, OneMoves DEF StagingUnavailable, TypeInv, TypeOK
  <1>9. ASSUME NEW p \in Procs, MaterializationConflict(p) PROVE Inv'
    <2>1. BuildsOwn(p)' /\ SeesPublished(p)'
      BY <1>9 DEF MaterializationConflict, Inv, BuildsOwn, SeesPublished, Quarantine, Building, TypeInv, TypeOK
    <2> QED
      BY <1>9, <2>1, OneMoves DEF MaterializationConflict, TypeInv, TypeOK
  <1>10. ASSUME NEW p \in Procs, SyncFileGone(p) PROVE Inv'
    <2>1. BuildsOwn(p)' /\ SeesPublished(p)'
      BY <1>10 DEF SyncFileGone, Inv, BuildsOwn, SeesPublished, Quarantine, Building, TypeInv, TypeOK
    <2> QED
      BY <1>10, <2>1, OneMoves DEF SyncFileGone, TypeInv, TypeOK
  <1>11. ASSUME NEW p \in Procs, VerifyStaged(p) PROVE Inv'
    <2>1. BuildsOwn(p)' /\ SeesPublished(p)'
      BY <1>11, ConstantsAssumption DEF VerifyStaged, Files, Inv, BuildsOwn, SeesPublished, Quarantine, Building, TypeInv, TypeOK
    <2> QED
      BY <1>11, <2>1, OneMoves DEF VerifyStaged, TypeInv, TypeOK
  <1>12. ASSUME NEW p \in Procs, StageVerificationFails(p) PROVE Inv'
    <2>1. BuildsOwn(p)' /\ SeesPublished(p)'
      BY <1>12 DEF StageVerificationFails, Inv, BuildsOwn, SeesPublished, Quarantine, Building, TypeInv, TypeOK
    <2> QED
      BY <1>12, <2>1, OneMoves DEF StageVerificationFails, TypeInv, TypeOK
  <1>13. ASSUME NEW p \in Procs, RecordConflict(p) PROVE Inv'
    <2>1. BuildsOwn(p)' /\ SeesPublished(p)'
      BY <1>13 DEF RecordConflict, Inv, BuildsOwn, SeesPublished, Quarantine, Building, TypeInv, TypeOK
    <2> QED
      BY <1>13, <2>1, OneMoves DEF RecordConflict, TypeInv, TypeOK
  <1>14. ASSUME NEW p \in Procs, SealRecordFails(p) PROVE Inv'
    <2>1. BuildsOwn(p)' /\ SeesPublished(p)'
      BY <1>14 DEF SealRecordFails, Inv, BuildsOwn, SeesPublished, Quarantine, Building, TypeInv, TypeOK
    <2> QED
      BY <1>14, <2>1, OneMoves DEF SealRecordFails, TypeInv, TypeOK
  <1>15. ASSUME NEW p \in Procs, BuildFails(p) PROVE Inv'
    <2>1. BuildsOwn(p)' /\ SeesPublished(p)'
      BY <1>15 DEF BuildFails, BuildErrors, Inv, BuildsOwn, SeesPublished, Quarantine, Building, TypeInv, TypeOK
    <2> QED
      BY <1>15, <2>1, OneMoves DEF BuildFails, BuildErrors, TypeInv, TypeOK
  <1>16. ASSUME NEW p \in Procs, ReusePublished(p) PROVE Inv'
    <2>1. BuildsOwn(p)' /\ SeesPublished(p)'
      BY <1>16 DEF ReusePublished, Inv, BuildsOwn, SeesPublished, Quarantine, Building, TypeInv, TypeOK
    <2> QED
      BY <1>16, <2>1, OneMoves DEF ReusePublished, TypeInv, TypeOK
  <1>17. ASSUME NEW p \in Procs, SyncPromotion(p) PROVE Inv'
    <2>1. BuildsOwn(p)' /\ SeesPublished(p)'
      BY <1>17 DEF SyncPromotion, Inv, BuildsOwn, SeesPublished, Quarantine, Building, TypeInv, TypeOK
    <2> QED
      BY <1>17, <2>1, OneMoves DEF SyncPromotion, TypeInv, TypeOK
  <1>18. ASSUME NEW p \in Procs, SyncPromotionFails(p) PROVE Inv'
    <2>1. BuildsOwn(p)' /\ SeesPublished(p)'
      BY <1>18 DEF SyncPromotionFails, Inv, BuildsOwn, SeesPublished, Quarantine, Building, TypeInv, TypeOK
    <2> QED
      BY <1>18, <2>1, OneMoves DEF SyncPromotionFails, TypeInv, TypeOK
  <1>19. ASSUME NEW p \in Procs, ConfirmPromotion(p) PROVE Inv'
    <2>1. BuildsOwn(p)' /\ SeesPublished(p)'
      BY <1>19 DEF ConfirmPromotion, Inv, BuildsOwn, SeesPublished, Quarantine, Building, TypeInv, TypeOK
    <2> QED
      BY <1>19, <2>1, OneMoves DEF ConfirmPromotion, TypeInv, TypeOK
  <1>20. ASSUME NEW p \in Procs, CleanupFails(p) PROVE Inv'
    <2>1. BuildsOwn(p)' /\ SeesPublished(p)'
      BY <1>20 DEF CleanupFails, Inv, BuildsOwn, SeesPublished, Quarantine, Building, TypeInv, TypeOK
    <2> QED
      BY <1>20, <2>1, OneMoves DEF CleanupFails, TypeInv, TypeOK
  <1>21. ASSUME NEW p \in Procs, ReleaseLock(p) PROVE Inv'
    <2>1. BuildsOwn(p)' /\ SeesPublished(p)'
      BY <1>21 DEF ReleaseLock, Return, Inv, BuildsOwn, SeesPublished, Quarantine, Building, TypeInv, TypeOK
    <2> QED
      BY <1>21, <2>1, OneMoves DEF ReleaseLock, Return, TypeInv, TypeOK
  <1>22. ASSUME NEW p \in Procs, ReleaseLockFails(p) PROVE Inv'
    <2>1. BuildsOwn(p)' /\ SeesPublished(p)'
      BY <1>22 DEF ReleaseLockFails, Return, Inv, BuildsOwn, SeesPublished, Quarantine, Building, TypeInv, TypeOK
    <2> QED
      BY <1>22, <2>1, OneMoves DEF ReleaseLockFails, Return, TypeInv, TypeOK
  <1>23. ASSUME NEW p \in Procs, Crash(p) PROVE Inv'
    <2>1. BuildsOwn(p)' /\ SeesPublished(p)'
      BY <1>23 DEF Crash, Inv, BuildsOwn, SeesPublished, Quarantine, Building, TypeInv, TypeOK
    <2> QED
      BY <1>23, <2>1, OneMoves DEF Crash, TypeInv, TypeOK
  <1>24. ASSUME NEW p \in Procs, NEW s \in Subjects, NEW e \in Evidence, Submit(p, s, e)
        PROVE  Inv'
    <2>1. BuildsOwn(p)' /\ SeesPublished(p)'
      BY <1>24 DEF Submit, BuildsOwn, SeesPublished, Building, TypeInv, TypeOK
    <2> QED
      BY <1>24, <2>1, OneMoves DEF Submit, TypeInv, TypeOK
  <1>25. ASSUME NEW p \in Procs, NEW s \in Subjects, NEW e \in Evidence, Refuse(p, s, e)
        PROVE  Inv'
    <2>1. BuildsOwn(p)' /\ SeesPublished(p)'
      BY <1>25 DEF Refuse, Inv, BuildsOwn, SeesPublished, Quarantine
    <2> QED
      BY <1>25, <2>1, OneMoves DEF Refuse
  <1>26. ASSUME NEW s \in Subjects, HostRemovesLock(s) PROVE Inv'
    BY <1>26 DEF HostRemovesLock, Inv, PublishedComplete, Complete, BuildsOwn, SeesPublished, Quarantine
  <1>27. CASE UNCHANGED vars
    <2>1. PublishedComplete'
      BY <1>27 DEF vars, Inv, PublishedComplete, Complete
    <2>2. ASSUME NEW q \in Procs PROVE BuildsOwn(q)'
      BY <1>27, BuildsOwnFrame DEF vars, Inv, Quarantine
    <2>3. ASSUME NEW q \in Procs PROVE SeesPublished(q)'
      BY <1>27 DEF vars, Inv, SeesPublished
    <2> QED
      BY <2>1, <2>2, <2>3 DEF Inv
  <1>28. ASSUME NEW p \in Procs, CreateStaging(p) PROVE Inv'
    <2>1. attempt[p] \in Attempts
      BY <1>28, ConstantsAssumption DEF CreateStaging, Attempts, TypeInv, TypeOK
    <2>2. Quarantine(p)' = EmptyTree(p)
      BY <1>28, <2>1, OwnPath DEF CreateStaging
    <2>3. pc[p] = "stage" /\ cursor[p] = 1
      BY <1>28 DEF CreateStaging, TypeInv, LocalOK
    <2>4. BuildsOwn(p)' /\ SeesPublished(p)'
      BY <1>28, <2>2, <2>3, ConstantsAssumption DEF CreateStaging, EmptyTree, Files, BuildsOwn, SeesPublished, Building, TypeInv, TypeOK
    <2> QED
      <3>1. \A q \in Procs \ {p} : pc'[q] = pc[q] /\ cursor'[q] = cursor[q]
        BY <1>28 DEF CreateStaging, TypeInv, TypeOK
      <3> QED
        BY <1>28, <2>4, <3>1, OneBuilds DEF CreateStaging
  <1>29. ASSUME NEW p \in Procs, CreateStagingFails(p) PROVE Inv'
    <2>1. attempt[p] \in Attempts
      BY <1>29, ConstantsAssumption DEF CreateStagingFails, Attempts, TypeInv, TypeOK
    <2>2. Quarantine(p)' = EmptyTree(p)
      BY <1>29, <2>1, OwnPath DEF CreateStagingFails
    <2>3. pc[p] = "stage" /\ cursor[p] = 1
      BY <1>29 DEF CreateStagingFails, TypeInv, LocalOK
    <2>4. BuildsOwn(p)' /\ SeesPublished(p)'
      BY <1>29, <2>2, <2>3, ConstantsAssumption DEF CreateStagingFails, EmptyTree, Files, BuildsOwn, SeesPublished, Building, TypeInv, TypeOK
    <2> QED
      BY <1>29, <2>4, OneBuilds DEF CreateStagingFails, TypeInv, TypeOK
  <1>30. ASSUME NEW p \in Procs, WriteFile(p) PROVE Inv'
    <2>1. pc[p] \in Building /\ attempt[p] \in Attempts
      BY <1>30 DEF WriteFile, Building, TypeInv, LocalOK
    <2>2. Quarantine(p) \in Tree
      BY <2>1, QuarantineType DEF TypeInv
    <2>3. Quarantine(p)' = SetFile(Quarantine(p), cursor[p], "dirty")
      BY <1>30, <2>1, OwnPath DEF WriteFile
    <2>4. BuildsOwn(p)' /\ SeesPublished(p)'
      BY <1>30, <2>2, <2>3, ConstantsAssumption DEF WriteFile, SetFile, Files, Tree, Inv, BuildsOwn, SeesPublished, Building, TypeInv, TypeOK
    <2> QED
      BY <1>30, <2>1, <2>4, OneBuilds DEF WriteFile, TypeInv, TypeOK
  <1>31. ASSUME NEW p \in Procs, WriteRecord(p) PROVE Inv'
    <2>1. pc[p] \in Building /\ attempt[p] \in Attempts
      BY <1>31 DEF WriteRecord, Building, TypeInv, LocalOK
    <2>2. Quarantine(p) \in Tree
      BY <2>1, QuarantineType DEF TypeInv
    <2>3. Quarantine(p)' = [Quarantine(p) EXCEPT !.evidence = evidence[p]]
      BY <1>31, <2>1, OwnPath DEF WriteRecord
    <2>4. BuildsOwn(p)' /\ SeesPublished(p)'
      BY <1>31, <2>2, <2>3, ConstantsAssumption DEF WriteRecord, Files, Tree, Inv, BuildsOwn, SeesPublished, Building, TypeInv, TypeOK
    <2> QED
      BY <1>31, <2>1, <2>4, OneBuilds DEF WriteRecord, TypeInv, TypeOK
  <1>32. ASSUME NEW p \in Procs, SealRecord(p) PROVE Inv'
    <2>1. pc[p] \in Building /\ attempt[p] \in Attempts
      BY <1>32 DEF SealRecord, Building, TypeInv, LocalOK
    <2>2. Quarantine(p) \in Tree
      BY <2>1, QuarantineType DEF TypeInv
    <2>3. Quarantine(p)' = [Quarantine(p) EXCEPT !.sealed = @ \/ Quarantine(p).owner = p]
      BY <1>32, <2>1, OwnPath DEF SealRecord
    <2>4. BuildsOwn(p)' /\ SeesPublished(p)'
      <3>1. /\ Quarantine(p)'.owner = Quarantine(p).owner
            /\ Quarantine(p)'.files = Quarantine(p).files
            /\ Quarantine(p)'.evidence = Quarantine(p).evidence
            /\ Quarantine(p).owner = p => Quarantine(p)'.sealed
        BY <2>2, <2>3, Zenon DEF Tree
      <3>2. pc[p] = "seal" /\ pc'[p] = "rename" /\ final' = final /\ evidence' = evidence
            /\ subject' = subject
        BY <1>32 DEF SealRecord, TypeInv, TypeOK
      <3> QED
        BY <3>1, <3>2 DEF Inv, BuildsOwn, SeesPublished, Building
    <2> QED
      BY <1>32, <2>1, <2>4, OneBuilds DEF SealRecord, TypeInv, TypeOK
  <1>33. ASSUME NEW p \in Procs, SyncFile(p) PROVE Inv'
    <2>1. pc[p] \in Building /\ attempt[p] \in Attempts /\ cursor[p] \in Files
      BY <1>33 DEF SyncFile, Building, TypeInv, LocalOK
    <2>2. Quarantine(p) \in Tree
      BY <2>1, QuarantineType DEF TypeInv
    <2>3. CASE Quarantine(p).owner = p
      <3>1. Quarantine(p)' = SetFile(Quarantine(p), cursor[p], "synced")
        BY <1>33, <2>1, <2>3, OwnPath DEF SyncFile
      <3>2. BuildsOwn(p)' /\ SeesPublished(p)'
        BY <1>33, <2>1, <2>2, <3>1, ConstantsAssumption DEF SyncFile, SetFile, Files, Tree, Inv, BuildsOwn, SeesPublished, Building, TypeInv, TypeOK
      <3> QED
        BY <1>33, <2>1, <2>3, <3>2, OneBuilds DEF SyncFile, TypeInv, TypeOK
    <2>4. CASE Quarantine(p).owner # p
      <3>1. BuildsOwn(p)' /\ SeesPublished(p)'
        BY <1>33, <2>4 DEF SyncFile, Inv, BuildsOwn, SeesPublished, Building, TypeInv, TypeOK
      <3> QED
        BY <1>33, <2>4, <3>1, OneMoves DEF SyncFile, TypeInv, TypeOK
    <2> QED
      BY <2>3, <2>4
  <1>34. ASSUME NEW p \in Procs, Cleanup(p) PROVE Inv'
    <2>1. BuildsOwn(p)' /\ SeesPublished(p)'
      BY <1>34 DEF Cleanup, BuildsOwn, SeesPublished, Building, TypeInv, TypeOK
    <2> QED
      BY <1>34, <2>1, OneBuilds DEF Cleanup, TypeInv, TypeOK
  <1>35. ASSUME NEW p \in Procs, PromoteFindsPublished(p) PROVE Inv'
    <2>1. BuildsOwn(p)' /\ SeesPublished(p)'
      BY <1>35 DEF PromoteFindsPublished, BuildsOwn, SeesPublished, Building, TypeInv, TypeOK
    <2> QED
      BY <1>35, <2>1, OneBuilds DEF PromoteFindsPublished, Building, TypeInv, TypeOK
  <1>36. ASSUME NEW p \in Procs, Promote(p) PROVE Inv'
    <2>1. pc[p] \in Building /\ pc[p] = "rename" /\ final[subject[p]] = NoTree
      BY <1>36 DEF Promote, Building
    <2>2. Quarantine(p).owner = p /\ Complete(Quarantine(p))
      BY <2>1 DEF Inv, BuildsOwn, Complete
    <2>3. Quarantine(p).evidence \in Evidence /\ Quarantine(p).evidence.subject = subject[p]
      BY <2>1 DEF Inv, BuildsOwn, TypeInv, TypeOK, LocalOK
    <2>4. \A s \in Subjects : final'[s] = IF s = subject[p] THEN Quarantine(p) ELSE final[s]
      BY <1>36 DEF Promote, TypeInv, TypeOK
    <2>5. PublishedComplete'
      BY <2>2, <2>3, <2>4 DEF Inv, PublishedComplete, Complete
    <2>6. \A s \in Subjects : final'[s] = NoTree => final[s] = NoTree
      BY <2>1, <2>4
    <2>7. final'[subject[p]] # NoTree
      BY <1>36, <2>4 DEF Promote, TypeInv, TypeOK
    <2>8. BuildsOwn(p)' /\ SeesPublished(p)'
      BY <1>36, <2>7 DEF Promote, BuildsOwn, SeesPublished, Building, TypeInv, TypeOK
    <2>9. ASSUME NEW q \in Procs, q # p PROVE BuildsOwn(q)'
      BY <1>36, <2>1, <2>6, <2>9, OthersBuild DEF Promote, Inv, TypeInv, TypeOK
    <2>10. ASSUME NEW q \in Procs, q # p PROVE SeesPublished(q)'
      BY <1>36, <2>6, <2>10 DEF Promote, Inv, SeesPublished, TypeInv, TypeOK
    <2> QED
      BY <2>5, <2>8, <2>9, <2>10 DEF Inv
  <1>37. ASSUME PowerLoss PROVE Inv'
    <2>1. PICK undone \in SUBSET {s \in Subjects : final[s] # NoTree /\ ~durable[s]},
               back \in [Subjects -> Attempts] : Rebooted(undone, back)
      BY <1>37 DEF PowerLoss
    <2>2. ASSUME NEW s \in Subjects, final'[s] # NoTree
          PROVE  /\ Complete(final'[s])
                 /\ final'[s].evidence \in Evidence
                 /\ final'[s].evidence.subject = s
      <3>1. final'[s] = Settled(final[s]) /\ final[s] \in Tree
        BY <2>1, <2>2 DEF Rebooted, TypeInv, TypeOK
      <3>2. Settled(NoTree) = NoTree
        <4>1. NoTree \in Tree /\ ~NoTree.sealed /\ NoTree.evidence = NoEvidence
          BY EmptyTreeType DEF NoTree, EmptyTree
        <4>2. [f \in Files |-> IF NoTree.files[f] = "synced" THEN "synced" ELSE "none"]
                = NoTree.files
          BY DEF NoTree, EmptyTree
        <4> QED
          BY <4>1, <4>2 DEF Settled, Tree
      <3>3. final[s] # NoTree
        BY <2>2, <3>1, <3>2
      <3> QED
        BY <3>1, <3>3 DEF Inv, PublishedComplete, Complete, Settled, Tree
    <2>3. ASSUME NEW p \in Procs PROVE BuildsOwn(p)' /\ SeesPublished(p)'
      BY <1>37 DEF PowerLoss, BuildsOwn, SeesPublished, Building
    <2> QED
      BY <2>2, <2>3 DEF Inv, PublishedComplete
  <1>38. ASSUME NEW p \in Procs, OpenLockFails(p) PROVE Inv'
    <2>1. BuildsOwn(p)' /\ SeesPublished(p)'
      BY <1>38 DEF OpenLockFails, Inv, BuildsOwn, SeesPublished, Quarantine, Building, TypeInv, TypeOK
    <2> QED
      BY <1>38, <2>1, OneMoves DEF OpenLockFails, TypeInv, TypeOK
  <1>39. ASSUME NEW p \in Procs, LookupFails(p) PROVE Inv'
    <2>1. BuildsOwn(p)' /\ SeesPublished(p)'
      BY <1>39 DEF LookupFails, Inv, BuildsOwn, SeesPublished, Quarantine, Building, TypeInv, TypeOK
    <2> QED
      BY <1>39, <2>1, OneMoves DEF LookupFails, TypeInv, TypeOK
  <1>40. ASSUME NEW p \in Procs, PromoteFindsPublishedLeaves(p) PROVE Inv'
    <2>1. BuildsOwn(p)' /\ SeesPublished(p)'
      BY <1>40 DEF PromoteFindsPublishedLeaves, Inv, BuildsOwn, SeesPublished, Quarantine, Building, TypeInv, TypeOK
    <2> QED
      BY <1>40, <2>1, OneMoves DEF PromoteFindsPublishedLeaves, TypeInv, TypeOK
  <1>41. ASSUME NEW p \in Procs, ReadExistingFails(p) PROVE Inv'
    <2>1. BuildsOwn(p)' /\ SeesPublished(p)'
      BY <1>41 DEF ReadExistingFails, Inv, BuildsOwn, SeesPublished, Quarantine, Building, TypeInv, TypeOK
    <2> QED
      BY <1>41, <2>1, OneMoves DEF ReadExistingFails, TypeInv, TypeOK
  <1> QED
    BY <1>1, <1>2, <1>3, <1>4, <1>5, <1>6, <1>7, <1>8, <1>9, <1>10,
       <1>11, <1>12, <1>13, <1>14, <1>15, <1>16, <1>17, <1>18, <1>19, <1>20,
       <1>21, <1>22, <1>23, <1>24, <1>25, <1>26, <1>27, <1>28, <1>29, <1>30,
       <1>31, <1>32, <1>33, <1>34, <1>35, <1>36, <1>37, <1>38, <1>39, <1>40, <1>41 DEF Next, Step, FaultStep

(***************************************************************************)
(* What is published stays published, and receipts last.                   *)
(***************************************************************************)

LEMMA CompleteSettles ==
  ASSUME NEW t \in Tree, Complete(t)
  PROVE  Settled(t) = t
  <1>1. [f \in Files |-> IF t.files[f] = "synced" THEN "synced" ELSE "none"] = t.files
    BY DEF Complete, Tree
  <1>2. t.sealed
    BY DEF Complete
  <1> QED
    BY <1>1, <1>2 DEF Settled, Tree

\* Only a promotion and a power loss change what is published; besides them,
\* only the sync of a promotion changes what is durable.
LEMMA FinalChanges ==
  ASSUME [Next]_vars, ~PowerLoss, \A p \in Procs : ~Promote(p)
  PROVE  UNCHANGED final /\ (UNCHANGED durable \/ \E p \in Procs : SyncPromotion(p))
  <1> USE DEF disk, Return
  <1>1. ASSUME NEW p \in Procs,
               \/ SubjectLocked(p) \/ AcquireLock(p) \/ FindPublished(p) \/ FindAbsent(p)
               \/ Reuse(p) \/ SkipTakenStaging(p) \/ CreateStaging(p) \/ StagingUnavailable(p)
        PROVE  UNCHANGED <<final, durable>>
    BY <1>1 DEF SubjectLocked, AcquireLock, FindPublished, FindAbsent, Reuse, SkipTakenStaging, CreateStaging, StagingUnavailable
  <1>2. ASSUME NEW p \in Procs,
               \/ WriteFile(p) \/ MaterializationConflict(p) \/ SyncFile(p) \/ SyncFileGone(p)
               \/ VerifyStaged(p) \/ StageVerificationFails(p) \/ WriteRecord(p) \/ RecordConflict(p)
        PROVE  UNCHANGED <<final, durable>>
    BY <1>2 DEF WriteFile, MaterializationConflict, SyncFile, SyncFileGone, VerifyStaged, StageVerificationFails, WriteRecord, RecordConflict
  <1>3. ASSUME NEW p \in Procs,
               \/ SealRecord(p) \/ SealRecordFails(p) \/ PromoteFindsPublished(p) \/ ReusePublished(p)
               \/ Cleanup(p) \/ AcquireLockFails(p) \/ CreateStagingFails(p) \/ BuildFails(p)
        PROVE  UNCHANGED <<final, durable>>
    BY <1>3 DEF SealRecord, SealRecordFails, PromoteFindsPublished, ReusePublished, Cleanup, AcquireLockFails, CreateStagingFails, BuildFails
  <1>4. ASSUME NEW p \in Procs,
               \/ SyncPromotionFails(p) \/ CleanupFails(p) \/ Crash(p)
               \/ ConfirmPromotion(p) \/ ReleaseLock(p) \/ ReleaseLockFails(p)
        PROVE  UNCHANGED <<final, durable>>
    BY <1>4 DEF SyncPromotionFails, CleanupFails, Crash, ConfirmPromotion, ReleaseLock, ReleaseLockFails
  <1>5. ASSUME NEW p \in Procs, NEW s \in Subjects, NEW e \in Evidence,
               Submit(p, s, e) \/ Refuse(p, s, e)
        PROVE  UNCHANGED <<final, durable>>
    BY <1>5 DEF Submit, Refuse
  <1>6. ASSUME NEW s \in Subjects, HostRemovesLock(s) PROVE UNCHANGED <<final, durable>>
    BY <1>6 DEF HostRemovesLock
  <1>7. CASE UNCHANGED vars
    BY <1>7 DEF vars
  <1>8. ASSUME NEW p \in Procs, SyncPromotion(p)
        PROVE  UNCHANGED final
    BY <1>8 DEF SyncPromotion
  <1>9. ASSUME NEW p \in Procs,
               \/ OpenLockFails(p) \/ LookupFails(p)
               \/ PromoteFindsPublishedLeaves(p) \/ ReadExistingFails(p)
        PROVE  UNCHANGED <<final, durable>>
    BY <1>9 DEF OpenLockFails, LookupFails, PromoteFindsPublishedLeaves, ReadExistingFails
  <1> QED
    BY <1>1, <1>2, <1>3, <1>4, <1>5, <1>6, <1>7, <1>8, <1>9 DEF Next, Step, FaultStep

LEMMA KeepsPublishedNext == TypeInv /\ Inv /\ [Next]_vars => KeepsPublished
  <1> SUFFICES ASSUME TypeInv, Inv, [Next]_vars,
                      NEW s \in Subjects, final[s] # NoTree
               PROVE  \/ final'[s] = final[s]
                      \/ ~durable[s] /\ losses' = losses + 1 /\ final'[s] = NoTree
    BY DEF KeepsPublished
  <1>1. ASSUME NEW p \in Procs, Promote(p) PROVE final'[s] = final[s]
    BY <1>1 DEF Promote, TypeInv, TypeOK
  <1>2. ASSUME PowerLoss
        PROVE  \/ final'[s] = final[s]
               \/ ~durable[s] /\ losses' = losses + 1 /\ final'[s] = NoTree
    <2>1. PICK undone \in SUBSET {u \in Subjects : final[u] # NoTree /\ ~durable[u]},
               back \in [Subjects -> Attempts] : Rebooted(undone, back)
      BY <1>2 DEF PowerLoss
    <2>2. Settled(final[s]) = final[s]
      BY CompleteSettles DEF Inv, PublishedComplete, TypeInv, TypeOK
    <2> QED
      BY <1>2, <2>1, <2>2 DEF Rebooted, PowerLoss
  <1> QED
    BY <1>1, <1>2, FinalChanges

\* The same, seen from a durable subject: nothing changes it any more.
LEMMA DurableLasts ==
  ASSUME TypeInv, Inv, ReceiptInv, [Next]_vars, NEW s \in Subjects, durable[s]
  PROVE  durable'[s] /\ final'[s] = final[s]
  <1>1. final[s] # NoTree
    BY DEF ReceiptInv
  <1>2. final'[s] = final[s]
    BY <1>1, KeepsPublishedNext DEF KeepsPublished
  <1>3. ASSUME NEW p \in Procs, Promote(p) PROVE durable'[s]
    BY <1>1, <1>3 DEF Promote, TypeInv, TypeOK
  <1>4. ASSUME PowerLoss PROVE durable'[s]
    BY <1>1, <1>4 DEF PowerLoss, Rebooted
  <1>5. ASSUME NEW p \in Procs, SyncPromotion(p) PROVE durable'[s]
    BY <1>5 DEF SyncPromotion, TypeInv, TypeOK
  <1> QED
    BY <1>2, <1>3, <1>4, <1>5, FinalChanges

\* A subject becomes durable only while it is published.
LEMMA DurableIsPublished ==
  ASSUME TypeInv, Inv, ReceiptInv, [Next]_vars, NEW s \in Subjects, durable'[s]
  PROVE  final'[s] # NoTree
  <1>1. CASE durable[s]
    BY <1>1, DurableLasts DEF ReceiptInv
  <1>2. CASE ~durable[s]
    <2>1. ASSUME NEW p \in Procs, SyncPromotion(p) PROVE final'[s] # NoTree
      BY <1>2, <2>1 DEF SyncPromotion, Goto, Inv, SeesPublished, TypeInv, TypeOK
    <2>2. ASSUME PowerLoss PROVE final'[s] # NoTree
      <3>1. final[s] # NoTree /\ final'[s] = Settled(final[s])
        BY <2>2 DEF PowerLoss, Rebooted
      <3>2. Settled(final[s]) = final[s]
        BY <3>1, CompleteSettles DEF Inv, PublishedComplete, TypeInv, TypeOK
      <3> QED
        BY <3>1, <3>2
    <2>3. ASSUME NEW p \in Procs, Promote(p) PROVE ~durable'[s]
      BY <1>2, <2>3 DEF Promote, TypeInv, TypeOK
    <2> QED
      BY <1>2, <2>1, <2>2, <2>3, FinalChanges
  <1> QED
    BY <1>1, <1>2

\* What a process relies on about durability and about its own receipt.
ReceiptOf(p) ==
  /\ pc[p] = "confirm" => durable[subject[p]]
  /\ outcome[p] = "fresh" =>
       /\ pc[p] = "release"
       /\ durable[subject[p]]
       /\ final[subject[p]].evidence = evidence[p]

\* A step that starts no confirmation, decides on no fresh receipt and hands
\* out no receipt.
NoNewReceipt ==
  /\ receipts' = receipts
  /\ \A q \in Procs :
       /\ pc'[q] = "confirm" => pc[q] = "confirm" /\ subject'[q] = subject[q]
       /\ outcome'[q] = "fresh" => /\ outcome[q] = "fresh"
                                   /\ pc'[q] = "release"
                                   /\ subject'[q] = subject[q]
                                   /\ evidence'[q] = evidence[q]

LEMMA ReceiptFrame ==
  ASSUME TypeInv, Inv, ReceiptInv, [Next]_vars, NoNewReceipt
  PROVE  ReceiptInv'
  <1>1. ASSUME NEW q \in Procs PROVE ReceiptOf(q)'
    <2>1. ReceiptOf(q) /\ subject[q] \in Subjects
      BY DEF ReceiptInv, ReceiptOf, TypeInv, TypeOK
    <2> QED
      BY <2>1, DurableLasts DEF NoNewReceipt, ReceiptOf
  <1>2. ASSUME NEW r \in receipts', ~r.reused
        PROVE  durable'[r.subject] /\ final'[r.subject].evidence = r.evidence
    <2>1. r \in receipts /\ r.subject \in Subjects
      BY <1>2 DEF NoNewReceipt, TypeInv, TypeOK, Receipt
    <2> QED
      BY <1>2, <2>1, DurableLasts DEF ReceiptInv, FreshReceiptLasts
  <1> QED
    BY <1>1, <1>2, DurableIsPublished DEF ReceiptInv, ReceiptOf, FreshReceiptLasts

LEMMA ReceiptNext == TypeInv /\ Inv /\ ReceiptInv /\ [Next]_vars => ReceiptInv'
  <1> SUFFICES ASSUME TypeInv, Inv, ReceiptInv, [Next]_vars PROVE ReceiptInv'
    OBVIOUS
  <1> USE DEF Goto, Sets, Building, disk, request, local, TypeInv, TypeOK
  <1>1. ASSUME NEW p \in Procs,
               \/ SubjectLocked(p) \/ AcquireLock(p) \/ FindPublished(p)
               \/ FindAbsent(p)
        PROVE  NoNewReceipt
    BY <1>1 DEF SubjectLocked, AcquireLock, FindPublished, FindAbsent, ReceiptInv, NoNewReceipt
  <1>2. ASSUME NEW p \in Procs,
               \/ Reuse(p) \/ SkipTakenStaging(p) \/ CreateStaging(p)
               \/ StagingUnavailable(p)
        PROVE  NoNewReceipt
    BY <1>2 DEF Reuse, SkipTakenStaging, CreateStaging, StagingUnavailable, ReceiptInv, NoNewReceipt
  <1>3. ASSUME NEW p \in Procs,
               \/ WriteFile(p) \/ MaterializationConflict(p) \/ SyncFile(p)
               \/ SyncFileGone(p)
        PROVE  NoNewReceipt
    BY <1>3 DEF WriteFile, MaterializationConflict, SyncFile, SyncFileGone, ReceiptInv, NoNewReceipt
  <1>4. ASSUME NEW p \in Procs,
               \/ VerifyStaged(p) \/ StageVerificationFails(p) \/ WriteRecord(p)
               \/ RecordConflict(p)
        PROVE  NoNewReceipt
    BY <1>4 DEF VerifyStaged, StageVerificationFails, WriteRecord, RecordConflict, ReceiptInv, NoNewReceipt
  <1>5. ASSUME NEW p \in Procs,
               \/ SealRecord(p) \/ SealRecordFails(p) \/ Promote(p)
               \/ PromoteFindsPublished(p)
        PROVE  NoNewReceipt
    BY <1>5 DEF SealRecord, SealRecordFails, Promote, PromoteFindsPublished, ReceiptInv, NoNewReceipt
  <1>6. ASSUME NEW p \in Procs,
               \/ ReusePublished(p) \/ Cleanup(p) \/ AcquireLockFails(p)
               \/ CreateStagingFails(p)
        PROVE  NoNewReceipt
    BY <1>6 DEF ReusePublished, Cleanup, AcquireLockFails, CreateStagingFails, ReceiptInv, NoNewReceipt
  <1>7. ASSUME NEW p \in Procs,
               \/ BuildFails(p) \/ SyncPromotionFails(p) \/ CleanupFails(p)
               \/ Crash(p)
        PROVE  NoNewReceipt
    BY <1>7 DEF BuildFails, BuildErrors, SyncPromotionFails, CleanupFails, Crash, ReceiptInv, NoNewReceipt
  <1>8. ASSUME NEW p \in Procs, NEW s \in Subjects, NEW e \in Evidence,
               Submit(p, s, e) \/ Refuse(p, s, e)
        PROVE  NoNewReceipt
    BY <1>8 DEF Submit, Refuse, ReceiptInv, NoNewReceipt
  <1>9. ASSUME NEW s \in Subjects, HostRemovesLock(s) PROVE NoNewReceipt
    BY <1>9 DEF HostRemovesLock, ReceiptInv, NoNewReceipt
  <1>10. ASSUME PowerLoss PROVE NoNewReceipt
    BY <1>10 DEF PowerLoss, NoNewReceipt
  <1>11. ASSUME UNCHANGED vars PROVE NoNewReceipt
    BY <1>11 DEF vars, ReceiptInv, NoNewReceipt
  <1>12. ASSUME NEW p \in Procs, SyncPromotion(p) PROVE ReceiptInv'
    <2>1. ASSUME NEW q \in Procs PROVE ReceiptOf(q)'
      BY <1>12, <2>1 DEF SyncPromotion, ReceiptInv, ReceiptOf
    <2>2. FreshReceiptLasts'
      BY <1>12 DEF SyncPromotion, ReceiptInv, FreshReceiptLasts, Receipt
    <2> QED
      BY <2>1, <2>2, DurableIsPublished DEF ReceiptInv, ReceiptOf
  <1>13. ASSUME NEW p \in Procs, ConfirmPromotion(p) PROVE ReceiptInv'
    <2>1. CASE MatchesExisting(p)
      <3>1. ASSUME NEW q \in Procs PROVE ReceiptOf(q)'
        BY <1>13, <2>1, <3>1 DEF ConfirmPromotion, MatchesExisting, ReceiptInv, ReceiptOf
      <3>2. FreshReceiptLasts'
        BY <1>13 DEF ConfirmPromotion, ReceiptInv, FreshReceiptLasts
      <3> QED
        BY <3>1, <3>2, DurableIsPublished DEF ReceiptInv, ReceiptOf
    <2>2. CASE ~MatchesExisting(p)
      <3>1. NoNewReceipt
        BY <1>13, <2>2 DEF ConfirmPromotion, ReceiptInv, NoNewReceipt
      <3> QED
        BY <3>1, ReceiptFrame
    <2> QED
      BY <2>1, <2>2
  <1>14. ASSUME NEW p \in Procs, Return(p), UNCHANGED final, UNCHANGED durable PROVE ReceiptInv'
    <2>1. ASSUME NEW q \in Procs PROVE ReceiptOf(q)'
      BY <1>14, <2>1 DEF Return, ReceiptInv, ReceiptOf
    <2>2. ASSUME NEW r \in receipts', ~r.reused
          PROVE  durable[r.subject] /\ final[r.subject].evidence = r.evidence
      <3>1. CASE r \in receipts
        BY <2>2, <3>1 DEF ReceiptInv, FreshReceiptLasts
      <3>2. CASE r \notin receipts
        <4>1. /\ outcome[p] \in {"fresh", "reused"}
              /\ r = [by |-> p, nth |-> requests[p], subject |-> subject[p],
                      evidence |-> evidence[p], reused |-> outcome[p] = "reused"]
          BY <1>14, <2>2, <3>2 DEF Return
        <4>2. outcome[p] = "fresh" /\ r.subject = subject[p] /\ r.evidence = evidence[p]
          BY <2>2, <4>1
        <4> QED
          BY <4>2 DEF ReceiptInv
      <3> QED
        BY <3>1, <3>2
    <2> QED
      BY <1>14, <2>1, <2>2, DurableIsPublished DEF ReceiptInv, ReceiptOf, FreshReceiptLasts
  <1>15. ASSUME NEW p \in Procs, ReleaseLock(p) \/ ReleaseLockFails(p) PROVE ReceiptInv'
    BY <1>14, <1>15 DEF ReleaseLock, ReleaseLockFails, Return
  <1>16. ASSUME NEW p \in Procs,
               \/ OpenLockFails(p) \/ LookupFails(p)
               \/ PromoteFindsPublishedLeaves(p) \/ ReadExistingFails(p)
        PROVE  NoNewReceipt
    BY <1>16 DEF OpenLockFails, LookupFails, PromoteFindsPublishedLeaves, ReadExistingFails,
                  ReceiptInv, NoNewReceipt
  <1> QED
    BY <1>1, <1>2, <1>3, <1>4, <1>5, <1>6, <1>7, <1>8, <1>9, <1>10, <1>11, <1>12, <1>13, <1>15, <1>16,
       ReceiptFrame DEF Next, Step, FaultStep

\* The inductive invariant, IInv of InstallStore, which TLC checks as well.
THEOREM IInvInvariant == Spec => []IInv
  <1>1. Init => TypeInv /\ Inv /\ ReceiptInv
    BY TypeInvInit, InvInit DEF Init, ReceiptInv, FreshReceiptLasts
  <1>2. TypeInv /\ Inv /\ ReceiptInv /\ [Next]_vars => (TypeInv /\ Inv /\ ReceiptInv)'
    BY TypeInvNext, InvNext, ReceiptNext
  <1>3. TypeInv /\ Inv /\ ReceiptInv => IInv
    BY DEF TypeInv, Inv, IInv
  <1> QED
    BY <1>1, <1>2, <1>3, PTL DEF Spec

\* Every published subject is whole and carries evidence about itself: no
\* interleaving, kill, power loss or removed lock exposes a partial tree
\* under sha256/ (stage_bundle, the rename in install_bundle_with_publisher).
THEOREM PublishedCompleteInvariant == Spec => []PublishedComplete
  BY IInvInvariant, PTL DEF IInv

\* A receipt with reused = false is never taken back: the subject stays
\* published with that evidence (sync_directory before the receipt).
THEOREM FreshReceiptsLast == Spec => []FreshReceiptLasts
  BY IInvInvariant, PTL DEF IInv, ReceiptInv

\* A published tree is never replaced, repaired or removed; only a power loss
\* takes back a promotion that was not synced yet.
THEOREM PublishedIsImmutable == Spec => Immutable
  <1>1. IInv /\ [Next]_vars => KeepsPublished
    BY KeepsPublishedNext DEF IInv, TypeInv, Inv
  <1>2. IInv /\ [Next]_vars => [KeepsPublished]_vars
    BY <1>1
  <1> QED
    BY <1>2, IInvInvariant, PTL DEF Spec, Immutable

-----------------------------------------------------------------------------
(* What the subject lock excludes, that every answer to a caller is true,  *)
(* what leftovers cost, and that the store implements ContentStore.        *)


(***************************************************************************)
(* Whose step it is. A step of p leaves the locals of the others alone,    *)
(* and, in the store, whatever is not of p's subject.                      *)
(***************************************************************************)

Moves(p) == Step(p) \/ FaultStep(p) \/ Crash(p)

KeepsLocals(q) ==
  /\ pc'[q] = pc[q] /\ attempt'[q] = attempt[q] /\ cursor'[q] = cursor[q]
  /\ subject'[q] = subject[q] /\ evidence'[q] = evidence[q] /\ outcome'[q] = outcome[q]

KeepsSubject(s) ==
  locks'[s] = locks[s] /\ staging'[s] = staging[s] /\ final'[s] = final[s] /\ durable'[s] = durable[s]

KeepsBudget(p) ==
  /\ crashes' \in {crashes, crashes + 1} /\ faults' \in {faults, faults + 1} /\ losses' = losses

OwnMove(p) ==
  /\ \A q \in Procs \ {p} : KeepsLocals(q)
  /\ \A s \in Subjects \ {subject[p]} : KeepsSubject(s)
  /\ subject'[p] = subject[p] /\ evidence'[p] = evidence[p]
  /\ pc[p] \in Critical \cup {"lock"}
  /\ pc[p] = "lock" => /\ UNCHANGED <<staging, final, durable>>
                       /\ UNCHANGED locks \/ locks[subject[p]] = Nobody
  /\ KeepsBudget(p)

LEMMA MovesOwn ==
  ASSUME TypeInv, NEW p \in Procs, Moves(p)
  PROVE  OwnMove(p)
  <1> USE DEF OwnMove, KeepsLocals, KeepsSubject, KeepsBudget, Goto, Sets, Fault, Critical, Building,
              disk, request, local, budget, TypeInv, TypeOK
  <1>1. CASE \/ SubjectLocked(p) \/ AcquireLock(p) \/ OpenLockFails(p) \/ AcquireLockFails(p)
    BY <1>1 DEF SubjectLocked, AcquireLock, OpenLockFails, AcquireLockFails
  <1>2. CASE FindPublished(p) \/ FindAbsent(p) \/ LookupFails(p) \/ Reuse(p) \/ SkipTakenStaging(p)
             \/ StagingUnavailable(p)
    BY <1>2 DEF FindPublished, FindAbsent, LookupFails, Reuse, SkipTakenStaging, StagingUnavailable
  <1>3. CASE CreateStaging(p) \/ CreateStagingFails(p)
    BY <1>3 DEF CreateStaging, CreateStagingFails, SetQuarantine
  <1>4. CASE WriteFile(p) \/ SyncFile(p)
    BY <1>4 DEF WriteFile, SyncFile, SetQuarantine
  <1>5. CASE \/ MaterializationConflict(p) \/ SyncFileGone(p) \/ VerifyStaged(p)
             \/ StageVerificationFails(p) \/ RecordConflict(p) \/ SealRecordFails(p)
    BY <1>5 DEF MaterializationConflict, SyncFileGone, VerifyStaged, StageVerificationFails,
                RecordConflict, SealRecordFails
  <1>6. CASE WriteRecord(p) \/ SealRecord(p)
    BY <1>6 DEF WriteRecord, SealRecord, SetQuarantine
  <1>7. CASE BuildFails(p)
    BY <1>7 DEF BuildFails
  <1>8. CASE Promote(p)
    BY <1>8 DEF Promote, SetQuarantine
  <1>9. CASE PromoteFindsPublished(p) \/ PromoteFindsPublishedLeaves(p)
    BY <1>9 DEF PromoteFindsPublished, PromoteFindsPublishedLeaves, SetQuarantine
  <1>10. CASE ReusePublished(p) \/ ConfirmPromotion(p)
    BY <1>10 DEF ReusePublished, ConfirmPromotion
  <1>11. CASE SyncPromotion(p) \/ SyncPromotionFails(p) \/ ReadExistingFails(p)
    BY <1>11 DEF SyncPromotion, SyncPromotionFails, ReadExistingFails
  <1>12. CASE Cleanup(p) \/ CleanupFails(p)
    BY <1>12 DEF Cleanup, CleanupFails, SetQuarantine
  <1>13. CASE ReleaseLock(p) \/ ReleaseLockFails(p)
    BY <1>13 DEF ReleaseLock, ReleaseLockFails, Return
  <1>14. CASE Crash(p)
    BY <1>14 DEF Crash
  <1> QED
    BY <1>1, <1>2, <1>3, <1>4, <1>5, <1>6, <1>7, <1>8, <1>9, <1>10, <1>11, <1>12, <1>13, <1>14
       DEF Moves, Step, FaultStep

(***************************************************************************)
(* The lock, as long as the host only removes stale ones: who is between   *)
(* acquiring and releasing owns the lock file, its subject is unpublished  *)
(* while it stages and builds, and it finds at its path what it has built  *)
(* so far and nothing more.                                                *)
(***************************************************************************)

Holds(p) ==
  /\ pc[p] \in Critical => locks[subject[p]] = p
  /\ pc[p] \in {"stage"} \cup Building => final[subject[p]] = NoTree
  /\ pc[p] # "reverify"
  /\ pc[p] \in {"sync_root", "confirm", "cleanup"} /\ final[subject[p]] # NoTree =>
       Quarantine(p) = NoTree
  /\ pc[p] = "write" => \A f \in Files : f >= cursor[p] => Quarantine(p).files[f] = "none"
  /\ pc[p] = "sync" => \A f \in Files : f > cursor[p] => Quarantine(p).files[f] = "none"
  /\ pc[p] \in {"write", "sync", "record"} => Quarantine(p).evidence = NoEvidence

AllHold == ~LiveLockRemoval => \A p \in Procs : Holds(p)

\* A holder's subject is out of reach for the steps of the others.
LEMMA OthersKeepSubject ==
  ASSUME TypeInv, NEW p \in Procs, Moves(p), NEW q \in Procs \ {p}, Holds(p), Holds(q),
         pc[q] \in Critical
  PROVE  KeepsSubject(subject[q])
  <1>1. OwnMove(p)
    BY MovesOwn
  <1>2. CASE subject[q] # subject[p]
    BY <1>1, <1>2 DEF OwnMove, TypeInv, TypeOK
  <1>3. CASE subject[q] = subject[p]
    <2>1. locks[subject[p]] = q
      BY <1>3 DEF Holds
    <2>2. pc[p] = "lock"
      BY <1>1, <2>1 DEF OwnMove, Holds
    <2>3. UNCHANGED <<locks, staging, final, durable>>
      BY <1>1, <2>1, <2>2, ConstantsAssumption DEF OwnMove
    <2> QED
      BY <2>3 DEF KeepsSubject
  <1> QED
    BY <1>2, <1>3

LEMMA HoldsFrame ==
  ASSUME NEW q \in Procs, Holds(q), KeepsLocals(q),
         pc[q] \in Critical => KeepsSubject(subject[q])
  PROVE  Holds(q)'
  BY DEF Holds, KeepsLocals, KeepsSubject, Quarantine, Critical, Building

\* Writing or syncing one file leaves the rest of the tree alone.
LEMMA SetFileKeeps ==
  ASSUME NEW t \in Tree, NEW f \in Files, NEW state
  PROVE  /\ \A g \in Files \ {f} : SetFile(t, f, state).files[g] = t.files[g]
         /\ SetFile(t, f, state).evidence = t.evidence
  BY DEF SetFile, Tree

\* What a step of the holder itself does to it.
LEMMA HoldsOwn ==
  ASSUME TypeInv, Inv, NEW p \in Procs, Moves(p), Holds(p)
  PROVE  Holds(p)'
  <1> USE DEF Holds, Goto, Sets, Fault, Critical, Building, disk, request, local, TypeInv, TypeOK
  <1>1. CASE \/ SubjectLocked(p) \/ AcquireLock(p) \/ OpenLockFails(p) \/ AcquireLockFails(p)
    BY <1>1 DEF SubjectLocked, AcquireLock, OpenLockFails, AcquireLockFails
  <1>2. CASE FindPublished(p) \/ FindAbsent(p) \/ LookupFails(p) \/ Reuse(p) \/ SkipTakenStaging(p)
             \/ StagingUnavailable(p)
    BY <1>2 DEF FindPublished, FindAbsent, LookupFails, Reuse, SkipTakenStaging, StagingUnavailable
  <1>3. CASE CreateStaging(p) \/ CreateStagingFails(p)
    <2>1. attempt[p] \in Attempts
      BY <1>3, ConstantsAssumption DEF CreateStaging, CreateStagingFails, Attempts
    <2>2. Quarantine(p)' = EmptyTree(p)
      BY <1>3, <2>1, OwnPath DEF CreateStaging, CreateStagingFails
    <2> QED
      BY <1>3, <2>1, <2>2 DEF CreateStaging, CreateStagingFails, EmptyTree
  <1>4. CASE WriteFile(p)
    <2>1. Quarantine(p) \in Tree /\ cursor[p] \in Files /\ attempt[p] \in Attempts
      BY <1>4, QuarantineType DEF WriteFile, LocalOK
    <2>2. Quarantine(p)' = SetFile(Quarantine(p), cursor[p], "dirty")
      BY <1>4, <2>1, OwnPath DEF WriteFile
    <2> QED
      BY <1>4, <2>1, <2>2 DEF WriteFile, SetFile, Tree, Files
  <1>5. CASE SyncFile(p)
    <2>1. Quarantine(p) \in Tree /\ cursor[p] \in Files /\ attempt[p] \in Attempts
      BY <1>5, QuarantineType DEF SyncFile, LocalOK
    <2>2. Quarantine(p)' = SetFile(Quarantine(p), cursor[p], "synced") \/ Quarantine(p)' = Quarantine(p)
      BY <1>5, <2>1, OwnPath DEF SyncFile, Quarantine
    <2>3. /\ \A f \in Files : f >= cursor[p] + 1 => Quarantine(p)'.files[f] = Quarantine(p).files[f]
          /\ Quarantine(p)'.evidence = Quarantine(p).evidence
      BY <2>1, <2>2, SetFileKeeps DEF Files
    <2>4. cursor'[p] = cursor[p] + 1 /\ \A f \in Files : f >= cursor[p] + 1 => f > cursor[p]
      BY <1>5, <2>1 DEF SyncFile, Files
    <2>5. pc[p] = "sync" /\ pc'[p] = "write"
      BY <1>5 DEF SyncFile
    <2>6. locks'[subject'[p]] = p /\ final'[subject'[p]] = NoTree
      BY <1>5, <2>5 DEF SyncFile
    <2>7. /\ \A f \in Files : f >= cursor'[p] => Quarantine(p)'.files[f] = "none"
          /\ Quarantine(p)'.evidence = NoEvidence
      BY <2>3, <2>4, <2>5
    <2> QED
      BY <2>5, <2>6, <2>7
  <1>6. CASE \/ MaterializationConflict(p) \/ SyncFileGone(p) \/ VerifyStaged(p)
             \/ StageVerificationFails(p) \/ RecordConflict(p) \/ SealRecordFails(p)
    BY <1>6 DEF MaterializationConflict, SyncFileGone, VerifyStaged, StageVerificationFails,
                RecordConflict, SealRecordFails, Quarantine
  <1>7. CASE WriteRecord(p) \/ SealRecord(p)
    BY <1>7 DEF WriteRecord, SealRecord
  <1>8. CASE BuildFails(p)
    BY <1>8 DEF BuildFails
  <1>9. CASE Promote(p)
    <2>1. Quarantine(p)' = NoTree
      BY <1>9, OwnPath DEF Promote, LocalOK
    <2> QED
      BY <1>9, <2>1 DEF Promote
  <1>10. CASE PromoteFindsPublished(p) \/ PromoteFindsPublishedLeaves(p)
    BY <1>10 DEF PromoteFindsPublished, PromoteFindsPublishedLeaves
  <1>11. CASE ReusePublished(p) \/ ConfirmPromotion(p)
    BY <1>11 DEF ReusePublished, ConfirmPromotion, Quarantine
  <1>12. CASE SyncPromotion(p) \/ SyncPromotionFails(p) \/ ReadExistingFails(p)
    BY <1>12 DEF SyncPromotion, SyncPromotionFails, ReadExistingFails, Quarantine
  <1>13. CASE Cleanup(p) \/ CleanupFails(p)
    BY <1>13 DEF Cleanup, CleanupFails
  <1>14. CASE ReleaseLock(p) \/ ReleaseLockFails(p)
    BY <1>14 DEF ReleaseLock, ReleaseLockFails, Return
  <1>15. CASE Crash(p)
    BY <1>15 DEF Crash
  <1> QED
    BY <1>1, <1>2, <1>3, <1>4, <1>5, <1>6, <1>7, <1>8, <1>9, <1>10, <1>11, <1>12, <1>13, <1>14,
       <1>15 DEF Moves, Step, FaultStep

LEMMA AllHoldNext == TypeInv /\ Inv /\ AllHold /\ [Next]_vars => AllHold'
  <1> SUFFICES ASSUME TypeInv, Inv, [Next]_vars, ~LiveLockRemoval, NEW q \in Procs,
                      \A p \in Procs : Holds(p)
               PROVE  Holds(q)'
    BY DEF AllHold
  <1>1. ASSUME NEW p \in Procs, Moves(p) PROVE Holds(q)'
    <2>1. CASE p = q
      BY <1>1, <2>1, HoldsOwn
    <2>2. CASE p # q
      <3>1. KeepsLocals(q)
        BY <1>1, <2>2, MovesOwn DEF OwnMove
      <3> QED
        BY <1>1, <2>2, <3>1, OthersKeepSubject, HoldsFrame
    <2> QED
      BY <2>1, <2>2
  <1>2. ASSUME NEW p \in Procs, NEW s \in Subjects, NEW e \in Evidence, Submit(p, s, e) \/ Refuse(p, s, e)
        PROVE  Holds(q)'
    <2>1. CASE Submit(p, s, e) /\ p = q
      BY <2>1 DEF Submit, Goto, Holds, Critical, Building, TypeInv, TypeOK
    <2>2. CASE Refuse(p, s, e) \/ p # q
      BY <1>2, <2>2, HoldsFrame DEF Submit, Refuse, Goto, KeepsLocals, KeepsSubject, disk, local,
                                    request, TypeInv, TypeOK
    <2> QED
      BY <1>2, <2>1, <2>2
  <1>3. ASSUME NEW s \in Subjects, HostRemovesLock(s) PROVE Holds(q)'
    BY <1>3, HoldsFrame DEF HostRemovesLock, KeepsLocals, KeepsSubject, local, request, TypeInv, TypeOK
  <1>4. CASE PowerLoss
    BY <1>4 DEF PowerLoss, Holds, Critical, Building
  <1>5. CASE UNCHANGED vars
    BY <1>5, HoldsFrame DEF vars, disk, local, request, KeepsLocals, KeepsSubject
  <1> QED
    BY <1>1, <1>2, <1>3, <1>4, <1>5 DEF Next, Moves

\* With a host that leaves live locks alone, whoever is past the lock holds it and
\* works in a tree of its own, as far along as its program counter says.
THEOREM AllHoldInvariant == Spec => []AllHold
  <1>1. Init => AllHold
    BY DEF Init, AllHold, Holds, Critical, Building
  <1>2. IInv /\ AllHold /\ [Next]_vars => AllHold'
    BY AllHoldNext DEF IInv, TypeInv, Inv
  <1> QED
    BY <1>1, <1>2, IInvInvariant, PTL DEF Spec

\* The subject lock serialises requests for a subject, and keeps others off
\* the holder's quarantine, so cleanup_staging never removes another
\* process's work (acquire_subject_lock, SubjectLock::drop).
THEOREM LocksExcludeOthers == Spec => []LocksExclude
  <1>1. IInv /\ AllHold => LocksExclude
    <2> SUFFICES ASSUME IInv, ~LiveLockRemoval, NEW p \in Procs, Holds(p)
                 PROVE  /\ pc[p] \in Critical => locks[subject[p]] = p
                        /\ pc[p] \in Building => Quarantine(p).owner = p
                        /\ pc[p] = "cleanup" => Quarantine(p).owner \in {p, Nobody}
      BY DEF LocksExclude, LockHeld, OwnQuarantine, AllHold
    <2> QED
      BY DEF Holds, IInv, BuildsOwn, Building, NoTree, EmptyTree
  <1> QED
    BY <1>1, IInvInvariant, AllHoldInvariant, PTL

(***************************************************************************)
(* Answers. An outcome stands while the request cleans up and releases the *)
(* lock, and it says what the store shows. Between the rename and the      *)
(* receipt that reports it, a process is publishing: one process at most   *)
(* does so for a subject, and none once such a receipt is out.             *)
(***************************************************************************)

Spurious == {"MaterializationConflict", "StageVerification", "RecordMismatch"}

Answered(p) ==
  /\ outcome[p] # "none" => pc[p] \in {"cleanup", "release"}
  /\ outcome[p] \in {"fresh", "reused"} =>
       pc[p] = "release" /\ final[subject[p]].evidence = evidence[p]
  /\ faults = 0 /\ outcome[p] = "ExistingInstallationMismatch" =>
       final[subject[p]] # NoTree /\ final[subject[p]].evidence # evidence[p]
  /\ faults = 0 /\ ~LiveLockRemoval => outcome[p] \notin Spurious

Publishing(p) == pc[p] \in {"sync_root", "confirm"} \/ outcome[p] = "fresh"

OnePublishes ==
  /\ \A p, q \in Procs : Publishing(p) /\ Publishing(q) /\ subject[p] = subject[q] => p = q
  /\ \A r \in receipts, p \in Procs : ~r.reused /\ Publishing(p) => subject[p] # r.subject
  /\ OneFreshReceipt

AnswerInv == OnePublishes /\ (\A p \in Procs : Answered(p)) /\ ReceiptsAgree

\* An installation record is what tells a published subject from an absent one.
LEMMA RecordIsPublished ==
  ASSUME TypeInv, Inv, NEW s \in Subjects
  PROVE  final[s].evidence \in Evidence <=> final[s] # NoTree
  <1>1. final[s] # NoTree => final[s].evidence \in Evidence
    BY DEF Inv, PublishedComplete
  <1>2. NoTree.evidence = NoEvidence
    BY DEF NoTree, EmptyTree
  <1> QED
    BY <1>1, <1>2, EvidenceAssumption

\* What is published stays, except through a power loss.
LEMMA MovesKeepPublished ==
  ASSUME TypeInv, Inv, NEW p \in Procs, Moves(p), NEW s \in Subjects, final[s] # NoTree
  PROVE  final'[s] = final[s]
  <1>1. [Next]_vars
    BY DEF Moves, Next
  <1>2. losses' = losses /\ losses \in Nat
    BY MovesOwn, ConstantsAssumption DEF OwnMove, KeepsBudget, TypeInv, TypeOK
  <1> QED
    BY <1>1, <1>2, KeepsPublishedNext DEF KeepsPublished

LEMMA AnsweredFrame ==
  ASSUME TypeInv, Inv, NEW q \in Procs, Answered(q), pc'[q] = pc[q], outcome'[q] = outcome[q],
         outcome[q] # "none" => subject'[q] = subject[q] /\ evidence'[q] = evidence[q],
         faults' = 0 => faults = 0,
         final[subject[q]] # NoTree => final'[subject[q]] = final[subject[q]]
  PROVE  Answered(q)'
  <1>1. evidence[q] \in Evidence /\ subject[q] \in Subjects
    BY DEF TypeInv, TypeOK
  <1>2. outcome[q] \in {"fresh", "reused"} => final[subject[q]] # NoTree
    BY <1>1, RecordIsPublished DEF Answered
  <1> QED
    BY <1>2 DEF Answered

\* What a step of the process itself answers.
LEMMA AnsweredOwn ==
  ASSUME TypeInv, Inv, AllHold, NEW p \in Procs, Moves(p), Answered(p)
  PROVE  Answered(p)'
  <1> USE DEF Answered, Spurious, Goto, Sets, Fault, disk, request, local, TypeInv, TypeOK
  <1>0. Inv /\ BuildsOwn(p) /\ SeesPublished(p) /\ (~LiveLockRemoval => Holds(p))
    BY DEF Inv, AllHold
  <1>1. CASE \/ SubjectLocked(p) \/ AcquireLock(p) \/ OpenLockFails(p) \/ AcquireLockFails(p)
    BY <1>1 DEF SubjectLocked, AcquireLock, OpenLockFails, AcquireLockFails
  <1>2. CASE FindPublished(p) \/ FindAbsent(p) \/ LookupFails(p) \/ SkipTakenStaging(p)
             \/ StagingUnavailable(p)
    BY <1>2 DEF FindPublished, FindAbsent, LookupFails, SkipTakenStaging, StagingUnavailable
  <1>3. CASE CreateStaging(p) \/ CreateStagingFails(p)
    BY <1>3 DEF CreateStaging, CreateStagingFails
  <1>4. ASSUME pc[p] \in {"reuse", "reverify", "confirm"}, ~MatchesExisting(p)
        PROVE  final[subject[p]] # NoTree /\ final[subject[p]].evidence # evidence[p]
    BY <1>0, <1>4 DEF SeesPublished, MatchesExisting, Inv, PublishedComplete, Complete, Written
  <1>5. CASE Reuse(p)
    BY <1>4, <1>5 DEF Reuse, MatchesExisting
  <1>6. CASE ReusePublished(p) \/ ConfirmPromotion(p)
    BY <1>4, <1>6 DEF ReusePublished, ConfirmPromotion, MatchesExisting
  <1>7. CASE WriteFile(p) \/ SyncFile(p) \/ SyncFileGone(p) \/ VerifyStaged(p) \/ WriteRecord(p)
             \/ SealRecord(p)
    BY <1>7 DEF WriteFile, SyncFile, SyncFileGone, VerifyStaged, WriteRecord, SealRecord
  <1>8. CASE MaterializationConflict(p) \/ StageVerificationFails(p) \/ RecordConflict(p)
             \/ SealRecordFails(p)
    <2>1. LiveLockRemoval
      <3>1. ASSUME ~LiveLockRemoval
            PROVE  /\ pc[p] \in Building => Quarantine(p).owner = p /\ Quarantine(p) # NoTree
                   /\ pc[p] = "write" =>
                        /\ \A f \in Files : f < cursor[p] => Quarantine(p).files[f] = "synced"
                        /\ \A f \in Files : f >= cursor[p] => Quarantine(p).files[f] = "none"
                   /\ pc[p] \in {"write", "record"} => Quarantine(p).evidence = NoEvidence
                   /\ pc[p] = "seal" => Written(Quarantine(p)) /\ Quarantine(p).evidence = evidence[p]
        BY <1>0, <3>1, ConstantsAssumption DEF Holds, BuildsOwn, Building, NoTree, EmptyTree, Written
      <3>2. CASE MaterializationConflict(p)
        BY <3>1, <3>2, ConstantsAssumption DEF MaterializationConflict, Building, Files
      <3>3. CASE StageVerificationFails(p)
        BY <3>1, <3>3, ConstantsAssumption DEF StageVerificationFails, Written, Files
      <3>4. CASE RecordConflict(p) \/ SealRecordFails(p)
        BY <3>1, <3>4 DEF RecordConflict, SealRecordFails, Building
      <3> QED
        BY <1>8, <3>2, <3>3, <3>4
    <2> QED
      BY <1>8, <2>1 DEF MaterializationConflict, StageVerificationFails, RecordConflict, SealRecordFails
  <1>9. CASE BuildFails(p)
    <2>1. faults' # 0 /\ pc'[p] = "cleanup" /\ outcome'[p] \in {"Io", "MaterializationConflict", "StageVerification"}
      BY <1>9, ConstantsAssumption DEF BuildFails, BuildErrors, Building
    <2> QED
      BY <2>1
  <1>10. CASE Promote(p) \/ PromoteFindsPublished(p) \/ PromoteFindsPublishedLeaves(p)
    BY <1>10 DEF Promote, PromoteFindsPublished, PromoteFindsPublishedLeaves
  <1>11. CASE SyncPromotion(p) \/ SyncPromotionFails(p) \/ ReadExistingFails(p)
    BY <1>11, ConstantsAssumption DEF SyncPromotion, SyncPromotionFails, ReadExistingFails
  <1>12. CASE Cleanup(p) \/ CleanupFails(p)
    <2>1. pc[p] = "cleanup" /\ pc'[p] = "release" /\ UNCHANGED <<final, subject, evidence, outcome>>
      BY <1>12 DEF Cleanup, CleanupFails
    <2>2. faults' = 0 => faults = 0
      BY <1>12, ConstantsAssumption DEF Cleanup, CleanupFails, budget
    <2> QED
      BY <2>1, <2>2
  <1>13. CASE ReleaseLock(p) \/ ReleaseLockFails(p)
    BY <1>13 DEF ReleaseLock, ReleaseLockFails, Return
  <1>14. CASE Crash(p)
    BY <1>14 DEF Crash
  <1> QED
    BY <1>1, <1>2, <1>3, <1>5, <1>6, <1>7, <1>8, <1>9, <1>10, <1>11, <1>12, <1>13, <1>14
       DEF Moves, Step, FaultStep

LEMMA AllAnsweredNext ==
  TypeInv /\ Inv /\ AllHold /\ (\A p \in Procs : Answered(p)) /\ [Next]_vars =>
    \A p \in Procs : Answered(p)'
  <1> SUFFICES ASSUME TypeInv, Inv, AllHold, \A p \in Procs : Answered(p), [Next]_vars,
                      NEW q \in Procs
               PROVE  Answered(q)'
    OBVIOUS
  <1>0. subject[q] \in Subjects /\ faults \in Nat
    BY ConstantsAssumption DEF TypeInv, TypeOK
  <1>1. ASSUME NEW p \in Procs, Moves(p) PROVE Answered(q)'
    <2>1. CASE p = q
      BY <1>1, <2>1, AnsweredOwn
    <2>2. CASE p # q
      <3>1. KeepsLocals(q) /\ (faults' = 0 => faults = 0)
        BY <1>0, <1>1, <2>2, MovesOwn DEF OwnMove, KeepsBudget
      <3>2. final[subject[q]] # NoTree => final'[subject[q]] = final[subject[q]]
        BY <1>0, <1>1, MovesKeepPublished
      <3> QED
        BY <3>1, <3>2, AnsweredFrame DEF KeepsLocals
    <2> QED
      BY <2>1, <2>2
  <1>2. ASSUME NEW p \in Procs, NEW s \in Subjects, NEW e \in Evidence, Submit(p, s, e)
        PROVE  Answered(q)'
    <2>1. CASE p = q
      BY <1>2, <2>1 DEF Submit, Goto, Answered, Spurious, TypeInv, TypeOK
    <2>2. CASE p # q
      BY <1>2, <2>2, AnsweredFrame DEF Submit, Goto, disk, TypeInv, TypeOK
    <2> QED
      BY <2>1, <2>2
  <1>3. ASSUME NEW p \in Procs, NEW s \in Subjects, NEW e \in Evidence, Refuse(p, s, e)
        PROVE  Answered(q)'
    BY <1>3, AnsweredFrame DEF Refuse, disk, local, request
  <1>4. ASSUME NEW s \in Subjects, HostRemovesLock(s) PROVE Answered(q)'
    BY <1>4, AnsweredFrame DEF HostRemovesLock, local, request, budget
  <1>5. CASE PowerLoss
    BY <1>5 DEF PowerLoss, Answered, Spurious
  <1>6. CASE UNCHANGED vars
    BY <1>6, AnsweredFrame DEF vars, disk, local, request, budget
  <1> QED
    BY <1>1, <1>2, <1>3, <1>4, <1>5, <1>6 DEF Next, Moves

\* The receipt of a request that is about to return.
NewReceipt(p) ==
  [by |-> p, nth |-> requests[p], subject |-> subject[p], evidence |-> evidence[p],
   reused |-> outcome[p] = "reused"]

Returns(p) ==
  /\ outcome[p] \in {"fresh", "reused"} /\ receipts' = receipts \cup {NewReceipt(p)}
  /\ pc'[p] = "idle" /\ outcome'[p] = "none"
  /\ UNCHANGED <<final, durable>>

\* Only the return of a successful request adds a receipt, and only a promotion
\* of an unpublished subject makes a process a publishing one.
LEMMA MovesAnswer ==
  ASSUME TypeInv, NEW p \in Procs, Moves(p), Answered(p)
  PROVE  /\ UNCHANGED receipts \/ Returns(p)
         /\ Publishing(p)' => Publishing(p) \/ final[subject[p]] = NoTree
  <1> USE DEF Publishing, Returns, NewReceipt, Goto, Sets, disk, request, local, TypeInv, TypeOK
  <1>1. CASE \/ SubjectLocked(p) \/ AcquireLock(p) \/ OpenLockFails(p) \/ AcquireLockFails(p)
    BY <1>1 DEF SubjectLocked, AcquireLock, OpenLockFails, AcquireLockFails
  <1>2. CASE FindPublished(p) \/ FindAbsent(p) \/ LookupFails(p) \/ Reuse(p) \/ SkipTakenStaging(p)
             \/ StagingUnavailable(p)
    BY <1>2 DEF FindPublished, FindAbsent, LookupFails, Reuse, SkipTakenStaging, StagingUnavailable
  <1>3. CASE CreateStaging(p) \/ CreateStagingFails(p)
    BY <1>3 DEF CreateStaging, CreateStagingFails
  <1>4. CASE WriteFile(p) \/ SyncFile(p) \/ WriteRecord(p) \/ SealRecord(p)
    BY <1>4 DEF WriteFile, SyncFile, WriteRecord, SealRecord
  <1>5. CASE \/ MaterializationConflict(p) \/ SyncFileGone(p) \/ VerifyStaged(p)
             \/ StageVerificationFails(p) \/ RecordConflict(p) \/ SealRecordFails(p)
    BY <1>5 DEF MaterializationConflict, SyncFileGone, VerifyStaged, StageVerificationFails,
                RecordConflict, SealRecordFails
  <1>6. CASE BuildFails(p)
    <2>1. UNCHANGED receipts /\ pc'[p] = "cleanup" /\ outcome'[p] # "fresh"
      BY <1>6 DEF BuildFails, BuildErrors, Building
    <2> QED
      BY <2>1
  <1>7. CASE Promote(p) \/ PromoteFindsPublished(p) \/ PromoteFindsPublishedLeaves(p)
    BY <1>7 DEF Promote, PromoteFindsPublished, PromoteFindsPublishedLeaves
  <1>8. CASE ReusePublished(p) \/ ConfirmPromotion(p)
    BY <1>8 DEF ReusePublished, ConfirmPromotion
  <1>9. CASE SyncPromotion(p) \/ SyncPromotionFails(p) \/ ReadExistingFails(p)
    BY <1>9 DEF SyncPromotion, SyncPromotionFails, ReadExistingFails
  <1>10. CASE Cleanup(p) \/ CleanupFails(p)
    BY <1>10 DEF Cleanup, CleanupFails
  <1>11. CASE ReleaseLock(p) \/ ReleaseLockFails(p)
    BY <1>11 DEF ReleaseLock, ReleaseLockFails, Return
  <1>12. CASE Crash(p)
    BY <1>12 DEF Crash
  <1> QED
    BY <1>1, <1>2, <1>3, <1>4, <1>5, <1>6, <1>7, <1>8, <1>9, <1>10, <1>11, <1>12
       DEF Moves, Step, FaultStep

LEMMA OnePublishesNext ==
  ASSUME TypeInv, Inv, ReceiptInv, AnswerInv, NEW p \in Procs, Moves(p)
  PROVE  OnePublishes'
  <1>1. /\ UNCHANGED receipts \/ Returns(p)
        /\ Publishing(p)' => Publishing(p) \/ final[subject[p]] = NoTree
    BY MovesAnswer DEF AnswerInv
  <1>2. /\ \A q \in Procs : subject'[q] = subject[q]
        /\ \A q \in Procs \ {p} : Publishing(q)' <=> Publishing(q)
    BY MovesOwn DEF OwnMove, KeepsLocals, Publishing
  <1>3. ASSUME NEW q \in Procs, Publishing(q) PROVE final[subject[q]] # NoTree
    <2>1. outcome[q] = "fresh" => final[subject[q]].evidence \in Evidence
      BY DEF AnswerInv, Answered, TypeInv, TypeOK
    <2>2. outcome[q] = "fresh" => final[subject[q]] # NoTree
      BY <2>1, RecordIsPublished DEF TypeInv, TypeOK
    <2> QED
      BY <1>3, <2>2 DEF Publishing, Inv, SeesPublished
  <1>4. ASSUME NEW r \in receipts, ~r.reused PROVE final[r.subject] # NoTree
    BY <1>4 DEF ReceiptInv, FreshReceiptLasts, TypeInv, TypeOK, Receipt
  <1>5. ASSUME NEW r \in receipts', ~r.reused, r \notin receipts
        PROVE  Publishing(p) /\ ~Publishing(p)' /\ r = NewReceipt(p) /\ r.subject = subject[p]
    <2>1. Returns(p) /\ r = NewReceipt(p)
      BY <1>1, <1>5 DEF Returns
    <2>2. r.subject = subject[p] /\ outcome[p] = "fresh"
      BY <1>5, <2>1 DEF Returns, NewReceipt
    <2> QED
      BY <2>1, <2>2 DEF Returns, Publishing
  <1>6. ASSUME NEW q \in Procs, NEW o \in Procs, Publishing(q)', Publishing(o)',
               subject'[q] = subject'[o]
        PROVE  q = o
    BY <1>1, <1>2, <1>3, <1>6 DEF AnswerInv, OnePublishes
  <1>7. ASSUME NEW r \in receipts', NEW q \in Procs, ~r.reused, Publishing(q)'
        PROVE  subject'[q] # r.subject
    <2>1. CASE r \in receipts
      BY <1>1, <1>2, <1>4, <1>7, <2>1 DEF AnswerInv, OnePublishes
    <2>2. CASE r \notin receipts
      BY <1>2, <1>5, <1>7, <2>2 DEF AnswerInv, OnePublishes
    <2> QED
      BY <2>1, <2>2
  <1>8. ASSUME NEW r \in receipts', NEW o \in receipts', ~r.reused, ~o.reused, r.subject = o.subject
        PROVE  r = o
    BY <1>5, <1>8 DEF AnswerInv, OnePublishes, OneFreshReceipt
  <1> QED
    BY <1>6, <1>7, <1>8 DEF OnePublishes, OneFreshReceipt

LEMMA ReceiptsAgreeNext ==
  ASSUME TypeInv, Inv, AnswerInv, NEW p \in Procs, Moves(p)
  PROVE  ReceiptsAgree'
  <1>1. UNCHANGED receipts \/ Returns(p)
    BY MovesAnswer DEF AnswerInv
  <1>2. losses' = losses
    BY MovesOwn DEF OwnMove, KeepsBudget
  <1> SUFFICES ASSUME losses = 0, NEW r \in receipts'
               PROVE  final'[r.subject].evidence = r.evidence
    BY <1>2 DEF ReceiptsAgree
  <1>3. CASE r \in receipts
    <2>1. r.subject \in Subjects /\ final[r.subject].evidence \in Evidence
      BY <1>3 DEF AnswerInv, ReceiptsAgree, TypeInv, TypeOK, Receipt
    <2> QED
      BY <1>3, <2>1, RecordIsPublished, MovesKeepPublished DEF AnswerInv, ReceiptsAgree
  <1>4. CASE r \notin receipts
    BY <1>1, <1>4 DEF Returns, NewReceipt, AnswerInv, Answered
  <1> QED
    BY <1>3, <1>4

LEMMA AnswerInvNext ==
  TypeInv /\ Inv /\ ReceiptInv /\ AllHold /\ AnswerInv /\ [Next]_vars => AnswerInv'
  <1> SUFFICES ASSUME TypeInv, Inv, ReceiptInv, AllHold, AnswerInv, [Next]_vars
               PROVE  OnePublishes' /\ ReceiptsAgree'
    BY AllAnsweredNext DEF AnswerInv
  <1>1. ASSUME NEW p \in Procs, Moves(p) PROVE OnePublishes' /\ ReceiptsAgree'
    BY <1>1, OnePublishesNext, ReceiptsAgreeNext
  <1>2. ASSUME NEW p \in Procs, NEW s \in Subjects, NEW e \in Evidence, Submit(p, s, e)
        PROVE  OnePublishes' /\ ReceiptsAgree'
    <2>1. ~Publishing(p)' /\ \A q \in Procs \ {p} : /\ Publishing(q)' <=> Publishing(q)
                                                    /\ subject'[q] = subject[q]
      BY <1>2 DEF Submit, Goto, Publishing, AnswerInv, Answered, TypeInv, TypeOK
    <2> QED
      BY <1>2, <2>1 DEF Submit, disk, AnswerInv, OnePublishes, OneFreshReceipt, ReceiptsAgree
  <1>3. ASSUME NEW p \in Procs, NEW s \in Subjects, NEW e \in Evidence, Refuse(p, s, e)
        PROVE  OnePublishes' /\ ReceiptsAgree'
    BY <1>3 DEF Refuse, disk, local, request, AnswerInv, OnePublishes, Publishing, OneFreshReceipt,
                ReceiptsAgree
  <1>4. ASSUME NEW s \in Subjects, HostRemovesLock(s) PROVE OnePublishes' /\ ReceiptsAgree'
    BY <1>4 DEF HostRemovesLock, local, request, budget, AnswerInv, OnePublishes, Publishing,
                OneFreshReceipt, ReceiptsAgree
  <1>5. CASE PowerLoss
    <2>1. \A q \in Procs : ~Publishing(q)'
      BY <1>5 DEF PowerLoss, Publishing
    <2>2. losses' # 0 /\ receipts' = receipts
      BY <1>5, ConstantsAssumption DEF PowerLoss, TypeInv, TypeOK
    <2> QED
      BY <2>1, <2>2 DEF AnswerInv, OnePublishes, OneFreshReceipt, ReceiptsAgree
  <1>6. CASE UNCHANGED vars
    BY <1>6 DEF vars, disk, local, request, budget, AnswerInv, OnePublishes, Publishing,
                OneFreshReceipt, ReceiptsAgree
  <1> QED
    BY <1>1, <1>2, <1>3, <1>4, <1>5, <1>6 DEF Next, Moves

\* One process at most is between the rename of a subject and its receipt, and what
\* each is about to answer is true of the store.
THEOREM AnswerInvInvariant == Spec => []AnswerInv
  <1>1. Init => AnswerInv
    BY DEF Init, AnswerInv, OnePublishes, Publishing, OneFreshReceipt, Answered, Spurious, ReceiptsAgree
  <1>2. IInv /\ AllHold /\ AnswerInv /\ [Next]_vars => AnswerInv'
    BY AnswerInvNext DEF IInv, TypeInv, Inv
  <1> QED
    BY <1>1, <1>2, IInvInvariant, AllHoldInvariant, PTL DEF Spec

\* What a caller is told is true of the store, in every interleaving: no two
\* receipts claim the publication, without a power loss all receipts of a
\* subject agree, and a refusal over the contents has its cause in a failed
\* call or in another provenance (verify_existing_installation, stage_bundle).
THEOREM AnswersTrue == Spec => []AnswersAreTrue
  <1>1. AnswerInv => AnswersAreTrue
    BY DEF AnswerInv, OnePublishes, Answered, Spurious, AnswersAreTrue, NoSpuriousRefusal,
           MismatchIsProvenance
  <1> QED
    BY <1>1, AnswerInvInvariant, PTL

(***************************************************************************)
(* Leftovers. A quarantine name is abandoned when it holds a tree that no  *)
(* process is building or cleaning up. Every kill, failed call and power   *)
(* loss abandons at most one name of a subject, and nothing else does.     *)
(***************************************************************************)

Spent == crashes + faults + losses

Busy(p) == pc[p] \in Building \cup {"cleanup"}

Abandoned(s) ==
  {a \in Attempts : /\ staging[s][a] # NoTree
                    /\ \A p \in Procs : Busy(p) /\ subject[p] = s => attempt[p] # a}

\* A stale lock: the file is there and nobody is behind it.
Stale(s) == locks[s] # Nobody /\ \A p \in Procs : pc[p] \in Critical => subject[p] # s

LeftInv ==
  ~LiveLockRemoval =>
    /\ \A s \in Subjects : Cardinality(Abandoned(s)) <= Spent
    /\ \A s \in Subjects : Stale(s) => Spent > 0
    /\ \A p \in Procs :
         /\ pc[p] \in {"idle", "lock", "check"} => attempt[p] = 0
         /\ pc[p] = "stage" =>
              \A a \in Attempts : a < attempt[p] => staging[subject[p]][a] # NoTree
         /\ outcome[p] = "StagingUnavailable" => Spent >= MaxAttempts

LEMMA SpentType == TypeInv => Spent \in Nat
  BY ConstantsAssumption DEF TypeInv, TypeOK, Spent

LEMMA AbandonedFinite ==
  /\ IsFiniteSet(Attempts) /\ Cardinality(Attempts) = MaxAttempts
  /\ \A s \in Subjects : IsFiniteSet(Abandoned(s)) /\ Cardinality(Abandoned(s)) \in Nat
  <1>1. IsFiniteSet(Attempts) /\ Cardinality(Attempts) = MaxAttempts
    BY FS_Interval, ConstantsAssumption DEF Attempts
  <1>2. \A s \in Subjects : Abandoned(s) \subseteq Attempts
    BY DEF Abandoned
  <1> QED
    BY <1>1, <1>2, FS_Subset, FS_CardinalityType

\* A set that gains one element at most.
LEMMA OneMore ==
  ASSUME NEW A, IsFiniteSet(A), NEW x, NEW B, B \subseteq A \cup {x}
  PROVE  Cardinality(B) \in Nat /\ Cardinality(B) <= Cardinality(A) + 1
  <1>0. Cardinality(A) \in Nat
    BY FS_CardinalityType
  <1>1. IsFiniteSet(A \cup {x}) /\ Cardinality(A \cup {x}) <= Cardinality(A) + 1
    <2>1. /\ IsFiniteSet(A \cup {x})
          /\ Cardinality(A \cup {x}) = IF x \in A THEN Cardinality(A) ELSE Cardinality(A) + 1
      BY FS_AddElement
    <2> QED
      BY <1>0, <2>1
  <1>2. IsFiniteSet(B) /\ Cardinality(B) <= Cardinality(A \cup {x})
    BY <1>1, FS_Subset
  <1>3. Cardinality(B) \in Nat /\ Cardinality(A \cup {x}) \in Nat
    BY <1>1, <1>2, FS_CardinalityType
  <1> QED
    BY <1>0, <1>1, <1>2, <1>3

\* A step that costs nothing leaves no tree at its path that it has not
\* found there, unless it goes on to work on it, and no lock behind.
Tidy(p) ==
  /\ Spent' = Spent
  /\ attempt[p] \in Attempts /\ staging'[subject[p]][attempt[p]] # NoTree =>
       \/ Busy(p)' /\ attempt'[p] = attempt[p]
       \/ ~Busy(p) /\ staging' = staging
  /\ locks'[subject[p]] # Nobody => pc'[p] \in Critical \/ (pc[p] \notin Critical /\ locks' = locks)

LEMMA MovesKeepPaths ==
  ASSUME TypeInv, NEW p \in Procs, Moves(p), NEW a \in Attempts, a # attempt[p]
  PROVE  staging'[subject[p]][a] = staging[subject[p]][a]
  <1>1. (\E t : SetQuarantine(p, t)) \/ UNCHANGED staging
    BY DEF Moves, Step, FaultStep, disk, Return, SubjectLocked, AcquireLock, OpenLockFails, AcquireLockFails,
       FindPublished, FindAbsent, LookupFails, Reuse, SkipTakenStaging, StagingUnavailable,
       CreateStaging, CreateStagingFails, WriteFile, SyncFile, MaterializationConflict, SyncFileGone,
       VerifyStaged, StageVerificationFails, RecordConflict, SealRecordFails, WriteRecord, SealRecord,
       BuildFails, Promote, PromoteFindsPublished, PromoteFindsPublishedLeaves, ReusePublished,
       ConfirmPromotion, SyncPromotion, SyncPromotionFails, ReadExistingFails, Cleanup, CleanupFails,
       ReleaseLock, ReleaseLockFails, Crash
  <1> QED
    BY <1>1 DEF SetQuarantine, TypeInv, TypeOK

LEMMA FailuresSpend ==
  ASSUME TypeInv, NEW p \in Procs, FaultStep(p) \/ Crash(p)
  PROVE  Spent' = Spent + 1
  <1>1. \/ faults' = faults + 1 /\ UNCHANGED <<crashes, losses>>
        \/ crashes' = crashes + 1 /\ UNCHANGED <<faults, losses>>
    BY DEF FaultStep, Fault, OpenLockFails, AcquireLockFails, LookupFails, CreateStagingFails, BuildFails,
       PromoteFindsPublishedLeaves, SyncPromotionFails, ReadExistingFails, CleanupFails, ReleaseLockFails,
       Crash
  <1>2. crashes \in Nat /\ faults \in Nat /\ losses \in Nat
    BY ConstantsAssumption DEF TypeInv, TypeOK
  <1> QED
    BY <1>1, <1>2 DEF Spent

LEMMA StepsAreTidy ==
  ASSUME TypeInv, NEW p \in Procs, Step(p)
  PROVE  Tidy(p)
  <1>0. Spent' = Spent
    BY DEF Step, Spent, budget, Return, SubjectLocked, AcquireLock, FindPublished, FindAbsent, Reuse,
       SkipTakenStaging, CreateStaging, StagingUnavailable, WriteFile, MaterializationConflict, SyncFile,
       SyncFileGone, VerifyStaged, StageVerificationFails, WriteRecord, RecordConflict, SealRecord,
       SealRecordFails, Promote, PromoteFindsPublished, ReusePublished, SyncPromotion, ConfirmPromotion,
       Cleanup, ReleaseLock
  <1> USE <1>0 DEF Tidy, Busy, Goto, disk, request, local, TypeInv, TypeOK, Critical, Building
  <1>1. CASE SubjectLocked(p) \/ AcquireLock(p)
    BY <1>1 DEF SubjectLocked, AcquireLock
  <1>2. CASE FindPublished(p) \/ FindAbsent(p) \/ Reuse(p) \/ SkipTakenStaging(p)
             \/ StagingUnavailable(p)
    BY <1>2 DEF FindPublished, FindAbsent, Reuse, SkipTakenStaging, StagingUnavailable
  <1>3. CASE CreateStaging(p) \/ WriteFile(p) \/ SyncFile(p) \/ WriteRecord(p) \/ SealRecord(p)
    BY <1>3 DEF CreateStaging, WriteFile, SyncFile, WriteRecord, SealRecord
  <1>4. CASE \/ MaterializationConflict(p) \/ SyncFileGone(p) \/ VerifyStaged(p)
             \/ StageVerificationFails(p) \/ RecordConflict(p) \/ SealRecordFails(p)
    BY <1>4 DEF MaterializationConflict, SyncFileGone, VerifyStaged, StageVerificationFails,
                RecordConflict, SealRecordFails
  <1>5. CASE Promote(p) \/ PromoteFindsPublished(p) \/ Cleanup(p)
    <2>1. attempt[p] \in Attempts /\ SetQuarantine(p, NoTree) /\ UNCHANGED <<subject, attempt>>
      BY <1>5 DEF Promote, PromoteFindsPublished, Cleanup, LocalOK
    <2>2. staging'[subject[p]][attempt[p]] = NoTree
      BY <2>1 DEF SetQuarantine
    <2>3. pc'[p] \in Critical
      BY <1>5 DEF Promote, PromoteFindsPublished, Cleanup
    <2> QED
      BY <2>2, <2>3
  <1>6. CASE ReusePublished(p) \/ ConfirmPromotion(p)
    BY <1>6 DEF ReusePublished, ConfirmPromotion
  <1>7. CASE SyncPromotion(p)
    BY <1>7 DEF SyncPromotion
  <1>8. CASE ReleaseLock(p)
    BY <1>8 DEF ReleaseLock, Return
  <1> QED
    BY <1>1, <1>2, <1>3, <1>4, <1>5, <1>6, <1>7, <1>8 DEF Step

\* The names of the moving process's subject.
LEMMA AbandonedNext ==
  ASSUME TypeInv, NEW p \in Procs, Moves(p), NEW s \in Subjects, Cardinality(Abandoned(s)) <= Spent
  PROVE  Cardinality(Abandoned(s)') <= Spent'
  <1>0. /\ IsFiniteSet(Abandoned(s)) /\ Cardinality(Abandoned(s)) \in Nat /\ Spent \in Nat
        /\ Spent' = Spent + 1 \/ Tidy(p)
    BY AbandonedFinite, SpentType, FailuresSpend, StepsAreTidy DEF Moves
  <1>1. /\ \A q \in Procs \ {p} : KeepsLocals(q)
        /\ subject'[p] = subject[p]
        /\ s # subject[p] => staging'[s] = staging[s]
    BY MovesOwn DEF OwnMove, KeepsSubject
  <1>2. \A a \in Attempts \ {attempt[p]} : staging'[s][a] = staging[s][a]
    BY <1>1, MovesKeepPaths
  <1>3. Abandoned(s)' \subseteq Abandoned(s) \cup {attempt[p]}
    <2> SUFFICES ASSUME NEW a \in Attempts, a # attempt[p], staging'[s][a] # NoTree,
                        \A q \in Procs : Busy(q)' /\ subject'[q] = s => attempt'[q] # a
                 PROVE  a \in Abandoned(s)
      BY DEF Abandoned
    <2>1. ASSUME NEW q \in Procs, q # p, Busy(q), subject[q] = s PROVE attempt[q] # a
      BY <1>1, <2>1 DEF KeepsLocals, Busy
    <2> QED
      BY <1>2, <2>1 DEF Abandoned
  <1>4. CASE Spent' = Spent + 1
    <2>1. Cardinality(Abandoned(s)') \in Nat /\ Cardinality(Abandoned(s)') <= Cardinality(Abandoned(s)) + 1
      BY <1>0, <1>3, OneMore
    <2> QED
      BY <1>0, <1>4, <2>1
  <1>5. CASE Tidy(p)
    <2>1. attempt[p] \in Abandoned(s)' => attempt[p] \in Abandoned(s)
      <3> SUFFICES ASSUME attempt[p] \in Attempts, staging'[s][attempt[p]] # NoTree,
                          \A q \in Procs : Busy(q)' /\ subject'[q] = s => attempt'[q] # attempt[p]
                   PROVE  attempt[p] \in Abandoned(s)
        BY DEF Abandoned
      <3>1. ASSUME NEW q \in Procs, q # p, Busy(q), subject[q] = s PROVE attempt[q] # attempt[p]
        BY <1>1, <3>1 DEF KeepsLocals, Busy
      <3>2. CASE subject[p] = s
        BY <1>1, <1>5, <3>1, <3>2 DEF Tidy, Abandoned
      <3>3. CASE subject[p] # s
        BY <1>1, <3>1, <3>3 DEF Abandoned
      <3> QED
        BY <3>2, <3>3
    <2>2. Abandoned(s)' \subseteq Abandoned(s)
      BY <1>3, <2>1
    <2>3. Cardinality(Abandoned(s)') <= Cardinality(Abandoned(s)) /\ Cardinality(Abandoned(s)') \in Nat
      BY <1>0, <2>2, FS_Subset, FS_CardinalityType
    <2> QED
      BY <1>0, <1>5, <2>3 DEF Tidy
  <1> QED
    BY <1>0, <1>4, <1>5

\* There is nothing to find where there was nothing.
LEMMA EmptySettles == Settled(NoTree) = NoTree
  <1> DEFINE t == NoTree
  <1>1. t.evidence = NoEvidence /\ t.sealed = FALSE /\ t.files = [f \in Files |-> "none"]
    BY DEF NoTree, EmptyTree
  <1>2. [f \in Files |-> IF t.files[f] = "synced" THEN "synced" ELSE "none"] = t.files
    BY <1>1
  <1>3. t \in Tree
    BY EmptyTreeType
  <1> QED
    BY <1>1, <1>2, <1>3 DEF Settled, Tree

\* A power loss abandons the name that its subject's holder was working at, or
\* the one a promotion is taken back to: a holder at work has not promoted.
LEMMA AbandonedPowerLoss ==
  ASSUME TypeInv, \A p \in Procs : Holds(p), PowerLoss, NEW s \in Subjects,
         Cardinality(Abandoned(s)) <= Spent
  PROVE  Cardinality(Abandoned(s)') <= Spent'
  <1>0. IsFiniteSet(Abandoned(s)) /\ Cardinality(Abandoned(s)) \in Nat /\ Spent \in Nat
    BY AbandonedFinite, SpentType
  <1>1. Spent' = Spent + 1
    BY ConstantsAssumption DEF PowerLoss, Spent, TypeInv, TypeOK
  <1>2. PICK undone \in SUBSET {u \in Subjects : final[u] # NoTree /\ ~durable[u]},
             back \in [Subjects -> Attempts] : Rebooted(undone, back)
    BY DEF PowerLoss
  <1>3. ASSUME NEW a \in Attempts, ~(s \in undone /\ a = back[s]), staging'[s][a] # NoTree
        PROVE  staging[s][a] # NoTree
    <2>1. staging'[s][a] = Settled(staging[s][a])
      BY <1>2, <1>3 DEF Rebooted
    <2>2. Settled(NoTree) = NoTree
      BY EmptySettles
    <2> QED
      BY <1>3, <2>1, <2>2
  <1>4. ASSUME NEW p \in Procs, NEW q \in Procs, Busy(p), Busy(q), subject[p] = s, subject[q] = s
        PROVE  p = q
    BY <1>4 DEF Busy, Holds, Critical
  <1>5. CASE s \in undone
    <2>1. ASSUME NEW p \in Procs, Busy(p), subject[p] = s, attempt[p] \in Attempts
          PROVE  staging[s][attempt[p]] = NoTree
      BY <1>5, <2>1 DEF Busy, Holds, Quarantine
    <2>2. Abandoned(s)' \subseteq Abandoned(s) \cup {back[s]}
      BY <1>3, <2>1 DEF Abandoned
    <2>3. Cardinality(Abandoned(s)') \in Nat /\ Cardinality(Abandoned(s)') <= Cardinality(Abandoned(s)) + 1
      BY <1>0, <2>2, OneMore
    <2> QED
      BY <1>0, <1>1, <2>3
  <1>6. CASE s \notin undone /\ \A p \in Procs : Busy(p) => subject[p] # s
    <2>1. Abandoned(s)' \subseteq Abandoned(s) \cup {0}
      BY <1>3, <1>6 DEF Abandoned
    <2>2. Cardinality(Abandoned(s)') \in Nat /\ Cardinality(Abandoned(s)') <= Cardinality(Abandoned(s)) + 1
      BY <1>0, <2>1, OneMore
    <2> QED
      BY <1>0, <1>1, <2>2
  <1>7. ASSUME s \notin undone, NEW p \in Procs, Busy(p), subject[p] = s
        PROVE  Cardinality(Abandoned(s)') <= Spent'
    <2>1. Abandoned(s)' \subseteq Abandoned(s) \cup {attempt[p]}
      BY <1>3, <1>4, <1>7 DEF Abandoned
    <2>2. Cardinality(Abandoned(s)') \in Nat /\ Cardinality(Abandoned(s)') <= Cardinality(Abandoned(s)) + 1
      BY <1>0, <2>1, OneMore
    <2> QED
      BY <1>0, <1>1, <2>2
  <1> QED
    BY <1>5, <1>6, <1>7

\* How a process comes to try a quarantine name, and to have tried them all.
LEMMA MovesStage ==
  ASSUME TypeInv, NEW p \in Procs, Moves(p)
  PROVE  /\ pc'[p] \in {"idle", "lock", "check"} =>
              attempt'[p] = 0 \/ (pc[p] \in {"idle", "lock", "check"} /\ attempt'[p] = attempt[p])
         /\ pc'[p] = "stage" => FindAbsent(p) \/ SkipTakenStaging(p)
         /\ outcome'[p] = "StagingUnavailable" =>
              outcome[p] = "StagingUnavailable" \/ StagingUnavailable(p)
  <1> USE DEF Goto, Sets, disk, request, local, TypeInv, TypeOK
  <1>1. CASE \/ SubjectLocked(p) \/ AcquireLock(p) \/ OpenLockFails(p) \/ AcquireLockFails(p)
    BY <1>1 DEF SubjectLocked, AcquireLock, OpenLockFails, AcquireLockFails
  <1>2. CASE FindPublished(p) \/ LookupFails(p) \/ Reuse(p) \/ CreateStaging(p) \/ CreateStagingFails(p)
    BY <1>2 DEF FindPublished, LookupFails, Reuse, CreateStaging, CreateStagingFails
  <1>3. CASE FindAbsent(p) \/ SkipTakenStaging(p) \/ StagingUnavailable(p)
    BY <1>3 DEF FindAbsent, SkipTakenStaging, StagingUnavailable
  <1>4. CASE WriteFile(p) \/ SyncFile(p) \/ WriteRecord(p) \/ SealRecord(p)
    BY <1>4 DEF WriteFile, SyncFile, WriteRecord, SealRecord
  <1>5. CASE \/ MaterializationConflict(p) \/ SyncFileGone(p) \/ VerifyStaged(p)
             \/ StageVerificationFails(p) \/ RecordConflict(p) \/ SealRecordFails(p)
    BY <1>5 DEF MaterializationConflict, SyncFileGone, VerifyStaged, StageVerificationFails,
                RecordConflict, SealRecordFails
  <1>6. CASE BuildFails(p)
    <2>1. pc'[p] = "cleanup" /\ outcome'[p] # "StagingUnavailable"
      BY <1>6 DEF BuildFails, BuildErrors, Building
    <2> QED
      BY <2>1
  <1>7. CASE Promote(p) \/ PromoteFindsPublished(p) \/ PromoteFindsPublishedLeaves(p)
    BY <1>7 DEF Promote, PromoteFindsPublished, PromoteFindsPublishedLeaves
  <1>8. CASE ReusePublished(p) \/ ConfirmPromotion(p)
    BY <1>8 DEF ReusePublished, ConfirmPromotion
  <1>9. CASE SyncPromotion(p) \/ SyncPromotionFails(p) \/ ReadExistingFails(p)
    BY <1>9 DEF SyncPromotion, SyncPromotionFails, ReadExistingFails
  <1>10. CASE Cleanup(p) \/ CleanupFails(p)
    BY <1>10 DEF Cleanup, CleanupFails
  <1>11. CASE ReleaseLock(p) \/ ReleaseLockFails(p)
    BY <1>11 DEF ReleaseLock, ReleaseLockFails, Return
  <1>12. CASE Crash(p)
    BY <1>12 DEF Crash
  <1> QED
    BY <1>1, <1>2, <1>3, <1>4, <1>5, <1>6, <1>7, <1>8, <1>9, <1>10, <1>11, <1>12
       DEF Moves, Step, FaultStep

\* A holder that has found every name taken has found every name abandoned.
LEMMA AllTaken ==
  ASSUME TypeInv, \A q \in Procs : Holds(q), NEW p \in Procs, StagingUnavailable(p),
         \A a \in Attempts : a < attempt[p] => staging[subject[p]][a] # NoTree,
         Cardinality(Abandoned(subject[p])) <= Spent
  PROVE  Spent >= MaxAttempts
  <1>1. pc[p] = "stage" /\ attempt[p] = MaxAttempts /\ subject[p] \in Subjects
    BY DEF StagingUnavailable, Goto, TypeInv, TypeOK
  <1>2. \A a \in Attempts : staging[subject[p]][a] # NoTree
    BY <1>1, ConstantsAssumption DEF Attempts
  <1>3. \A q \in Procs : Busy(q) => subject[q] # subject[p]
    BY <1>1 DEF Busy, Holds, Critical, Building
  <1>4. Abandoned(subject[p]) = Attempts
    BY <1>2, <1>3 DEF Abandoned
  <1> QED
    BY <1>4, AbandonedFinite

LEMMA LeftMoves ==
  ASSUME TypeInv, Inv, AllHold, ~LiveLockRemoval, LeftInv, NEW p \in Procs, Moves(p)
  PROVE  LeftInv'
  <1>0. /\ \A q \in Procs : Holds(q)
        /\ OwnMove(p)
        /\ Spent \in Nat
        /\ Spent' = Spent + 1 \/ Tidy(p)
        /\ Spent' \in Nat /\ Spent' >= Spent
    BY MovesOwn, SpentType, FailuresSpend, StepsAreTidy DEF AllHold, Moves, Tidy
  <1>1. ASSUME NEW s \in Subjects PROVE Cardinality(Abandoned(s)') <= Spent'
    BY <1>1, AbandonedNext DEF LeftInv
  <1>2. ASSUME NEW s \in Subjects, Stale(s)' PROVE Spent' > 0
    <2>1. CASE Spent' = Spent + 1
      BY <1>0, <2>1
    <2>2. CASE Tidy(p)
      <3>1. Stale(s)
        <4>1. CASE s = subject[p]
          BY <1>0, <1>2, <2>2, <4>1 DEF Tidy, OwnMove, KeepsLocals, Stale
        <4>2. CASE s # subject[p]
          BY <1>0, <1>2, <4>2 DEF OwnMove, KeepsLocals, KeepsSubject, Stale
        <4> QED
          BY <4>1, <4>2
      <3> QED
        BY <2>2, <3>1 DEF LeftInv, Tidy
    <2> QED
      BY <1>0, <2>1, <2>2
  <1>3. ASSUME NEW q \in Procs, pc'[q] \in {"idle", "lock", "check"} PROVE attempt'[q] = 0
    <2>1. CASE q = p
      BY <1>3, <2>1, MovesStage DEF LeftInv
    <2>2. CASE q # p
      BY <1>0, <1>3, <2>2 DEF OwnMove, KeepsLocals, LeftInv
    <2> QED
      BY <2>1, <2>2
  <1>4. ASSUME NEW q \in Procs, pc'[q] = "stage", NEW a \in Attempts, a < attempt'[q]
        PROVE  staging'[subject'[q]][a] # NoTree
    <2>1. CASE q = p
      <3>1. CASE FindAbsent(p)
        BY <1>4, <2>1, <3>1, ConstantsAssumption DEF FindAbsent, Goto, local, Attempts, LeftInv
      <3>2. CASE SkipTakenStaging(p)
        <4>1. attempt[p] \in Nat /\ attempt'[p] = attempt[p] + 1 /\ pc[p] = "stage"
              /\ UNCHANGED <<staging, subject>> /\ staging[subject[p]][attempt[p]] # NoTree
          BY <3>2, ConstantsAssumption DEF SkipTakenStaging, Quarantine, disk, request, TypeInv, TypeOK
        <4>2. a = attempt[p] \/ a < attempt[p]
          BY <1>4, <2>1, <4>1, ConstantsAssumption DEF Attempts
        <4> QED
          BY <2>1, <4>1, <4>2 DEF LeftInv
      <3> QED
        BY <1>4, <2>1, <3>1, <3>2, MovesStage
    <2>2. CASE q # p
      <3>1. KeepsLocals(q)
        BY <1>0, <2>2 DEF OwnMove
      <3>2. KeepsSubject(subject[q])
        BY <1>0, <1>4, <2>2, <3>1, OthersKeepSubject DEF KeepsLocals, Critical
      <3> QED
        BY <1>4, <3>1, <3>2 DEF KeepsLocals, KeepsSubject, LeftInv
    <2> QED
      BY <2>1, <2>2
  <1>5. ASSUME NEW q \in Procs, outcome'[q] = "StagingUnavailable" PROVE Spent' >= MaxAttempts
    <2>1. CASE outcome[q] = "StagingUnavailable"
      <3>1. Spent >= MaxAttempts
        BY <2>1 DEF LeftInv
      <3> QED
        BY <1>0, <3>1, ConstantsAssumption
    <2>2. CASE outcome[q] # "StagingUnavailable"
      <3>1. q = p
        BY <1>0, <1>5, <2>2 DEF OwnMove, KeepsLocals
      <3>2. StagingUnavailable(p)
        BY <1>5, <2>2, <3>1, MovesStage
      <3>3. pc[p] = "stage" /\ subject[p] \in Subjects
        BY <3>2 DEF StagingUnavailable, Goto, TypeInv, TypeOK
      <3>4. Spent >= MaxAttempts
        BY <1>0, <3>2, <3>3, AllTaken DEF LeftInv
      <3> QED
        BY <1>0, <3>4, ConstantsAssumption
    <2> QED
      BY <2>1, <2>2
  <1> QED
    BY <1>1, <1>2, <1>3, <1>4, <1>5 DEF LeftInv

LEMMA LeftFrame ==
  ASSUME LeftInv, UNCHANGED <<staging, subject, attempt, Spent>>,
         \A s \in Subjects : Stale(s)' => Stale(s),
         \A q \in Procs : pc'[q] = pc[q] /\ outcome'[q] = outcome[q]
  PROVE  LeftInv'
  <1>1. ASSUME NEW s \in Subjects PROVE Abandoned(s)' = Abandoned(s)
    BY DEF Abandoned, Busy
  <1> QED
    BY <1>1 DEF LeftInv

LEMMA LeftInvNext == TypeInv /\ Inv /\ AllHold /\ LeftInv /\ [Next]_vars => LeftInv'
  <1> SUFFICES ASSUME TypeInv, Inv, AllHold, LeftInv, [Next]_vars, ~LiveLockRemoval
               PROVE  LeftInv'
    BY DEF LeftInv
  <1>1. ASSUME NEW p \in Procs, Moves(p) PROVE LeftInv'
    BY <1>1, LeftMoves
  <1>2. ASSUME NEW p \in Procs, NEW s \in Subjects, NEW e \in Evidence, Submit(p, s, e)
        PROVE  LeftInv'
    <2>1. /\ pc[p] = "idle" /\ pc'[p] = "lock" /\ UNCHANGED <<disk, attempt, outcome, Spent>>
          /\ \A q \in Procs \ {p} : pc'[q] = pc[q] /\ subject'[q] = subject[q]
      BY <1>2 DEF Submit, Goto, Spent, TypeInv, TypeOK
    <2>2. ASSUME NEW o \in Subjects PROVE Abandoned(o)' = Abandoned(o) /\ (Stale(o)' => Stale(o))
      BY <2>1 DEF Abandoned, Busy, Stale, Building, Critical, disk
    <2> QED
      BY <2>1, <2>2 DEF LeftInv, disk
  <1>3. ASSUME NEW p \in Procs, NEW s \in Subjects, NEW e \in Evidence, Refuse(p, s, e)
        PROVE  LeftInv'
    BY <1>3, LeftFrame DEF Refuse, disk, local, request, Spent, Stale
  <1>4. ASSUME NEW s \in Subjects, HostRemovesLock(s) PROVE LeftInv'
    BY <1>4, LeftFrame DEF HostRemovesLock, local, request, budget, Spent, Stale, TypeInv, TypeOK
  <1>5. CASE PowerLoss
    <2>1. Spent' \in Nat /\ Spent' > 0
      BY <1>5, ConstantsAssumption DEF PowerLoss, Spent, TypeInv, TypeOK
    <2>2. \A s \in Subjects : Cardinality(Abandoned(s)') <= Spent'
      BY <1>5, AbandonedPowerLoss DEF AllHold, LeftInv
    <2>3. \A q \in Procs : pc'[q] = "idle" /\ outcome'[q] = "none" /\ attempt'[q] = 0
      BY <1>5 DEF PowerLoss
    <2> QED
      BY <2>1, <2>2, <2>3 DEF LeftInv
  <1>6. CASE UNCHANGED vars
    BY <1>6, LeftFrame DEF vars, disk, local, request, budget, Spent, Stale
  <1> QED
    BY <1>1, <1>2, <1>3, <1>4, <1>5, <1>6 DEF Next, Moves

\* Locks and quarantine names that nobody answers for never outnumber the kills,
\* power losses and failed calls.
THEOREM LeftInvInvariant == Spec => []LeftInv
  <1>1. Init => LeftInv
    <2> SUFFICES ASSUME Init PROVE LeftInv
      OBVIOUS
    <2>1. Spent = 0
      BY DEF Init, Spent
    <2>2. \A s \in Subjects : Abandoned(s) = {} /\ ~Stale(s)
      BY DEF Init, Abandoned, Stale
    <2>3. \A s \in Subjects : Cardinality(Abandoned(s)) <= Spent
      BY <2>1, <2>2, FS_EmptySet
    <2>4. \A p \in Procs : pc[p] = "idle" /\ attempt[p] = 0 /\ outcome[p] = "none"
      BY DEF Init
    <2> QED
      BY <2>2, <2>3, <2>4 DEF LeftInv
  <1>2. IInv /\ AllHold /\ LeftInv /\ [Next]_vars => LeftInv'
    BY LeftInvNext DEF IInv, TypeInv, Inv
  <1> QED
    BY <1>1, <1>2, IInvInvariant, AllHoldInvariant, PTL DEF Spec

\* What is left behind was paid for: a stale lock and each abandoned quarantine
\* name cost a kill, a power loss or a failed call, so StagingUnavailable means
\* that MaxAttempts of them have happened (stage_bundle, cleanup_staging).
THEOREM LeftoversCostFaults == Spec => []LeftoversAreFaults
  <1>1. LeftInv => LeftoversAreFaults
    BY DEF LeftInv, Stale, Spent, LeftoversAreFaults
  <1> QED
    BY <1>1, LeftInvInvariant, PTL

(***************************************************************************)
(* The store implements ContentStore: the rename publishes, the sync of    *)
(* sha256/ persists, the return of a successful request acknowledges, a    *)
(* power loss loses, and every other step changes nothing its callers can  *)
(* see.                                                                    *)
(***************************************************************************)

Published == [s \in Subjects |-> final[s].evidence]

LEMMA PublishedType ==
  ASSUME TypeInv, Inv, NEW s \in Subjects
  PROVE  /\ final[s] = NoTree => Published[s] = NoEvidence
         /\ final[s] # NoTree => Published[s] # NoEvidence
  <1>1. NoTree.evidence = NoEvidence
    BY DEF NoTree, EmptyTree
  <1> QED
    BY <1>1, RecordIsPublished, EvidenceAssumption DEF Published

LEMMA PromotePublishes ==
  ASSUME TypeInv, Inv, NEW p \in Procs, Promote(p)
  PROVE  Abstract!Publish(subject[p], evidence[p])
  <1> DEFINE s == subject[p]
  <1>1. /\ s \in Subjects /\ final[s] = NoTree /\ pc[p] = "rename"
        /\ final' = [final EXCEPT ![s] = Quarantine(p)]
        /\ durable' = [durable EXCEPT ![s] = FALSE] /\ receipts' = receipts
    BY DEF Promote, Goto, TypeInv, TypeOK
  <1>2. Quarantine(p).evidence = evidence[p]
    BY <1>1 DEF Inv, BuildsOwn, Building
  <1>3. Published' = [Published EXCEPT ![s] = evidence[p]]
    BY <1>1, <1>2 DEF Published, TypeInv, TypeOK
  <1>4. evidence[p].subject = s
    BY DEF TypeInv, LocalOK
  <1>5. Published[s] = NoEvidence
    BY <1>1, PublishedType
  <1> QED
    BY <1>1, <1>3, <1>4, <1>5 DEF Abstract!Publish, Published

LEMMA SyncPersists ==
  ASSUME TypeInv, Inv, NEW p \in Procs, SyncPromotion(p)
  PROVE  Abstract!Persist(subject[p])
  <1>1. /\ subject[p] \in Subjects /\ pc[p] = "sync_root" /\ UNCHANGED <<final, receipts>>
        /\ durable' = [durable EXCEPT ![subject[p]] = TRUE]
    BY DEF SyncPromotion, Goto, TypeInv, TypeOK
  <1>2. Published[subject[p]] # NoEvidence
    BY <1>1, PublishedType DEF Inv, SeesPublished
  <1>3. Published' = Published
    BY <1>1 DEF Published
  <1> QED
    BY <1>1, <1>2, <1>3 DEF Abstract!Persist, Published

LEMMA ReturnAcknowledges ==
  ASSUME TypeInv, ReceiptInv, AnswerInv, NEW p \in Procs, Returns(p), receipts' \subseteq Receipt
  PROVE  \E r \in Receipt : Abstract!Acknowledge(r)
  <1> DEFINE r == NewReceipt(p)
  <1>1. r \in Receipt /\ r.subject = subject[p] /\ r.evidence = evidence[p]
        /\ (~r.reused => outcome[p] = "fresh") /\ subject[p] \in Subjects
    BY DEF Returns, NewReceipt, TypeInv, TypeOK
  <1>2. Published[r.subject] = r.evidence
    BY <1>1 DEF Published, AnswerInv, Answered, Returns
  <1>3. ~r.reused => durable[r.subject] /\ \A q \in receipts : q.subject = r.subject => q.reused
    BY <1>1 DEF ReceiptInv, AnswerInv, OnePublishes, Publishing
  <1>4. Published' = Published
    BY DEF Returns, Published
  <1> HIDE DEF r
  <1>5. receipts' = receipts \cup {r} /\ UNCHANGED durable
    BY DEF Returns, r
  <1>6. Abstract!Acknowledge(r)
    BY <1>2, <1>3, <1>4, <1>5 DEF Abstract!Acknowledge, Published
  <1> QED
    BY <1>1, <1>6

LEMMA PowerLossLoses ==
  ASSUME TypeInv, Inv, PowerLoss
  PROVE  Abstract!Lose
  <1>1. PICK undone \in SUBSET {s \in Subjects : final[s] # NoTree /\ ~durable[s]},
             back \in [Subjects -> Attempts] : Rebooted(undone, back)
    BY DEF PowerLoss
  <1>2. undone \in SUBSET {s \in Subjects : Published[s] # NoEvidence /\ ~durable[s]}
    BY PublishedType
  <1>3. ASSUME NEW s \in Subjects
        PROVE  final'[s] = IF s \in undone THEN NoTree ELSE final[s]
    <2>1. final[s] # NoTree => Settled(final[s]) = final[s]
      BY CompleteSettles DEF Inv, PublishedComplete, TypeInv, TypeOK
    <2>2. Settled(final[s]) = final[s]
      BY <2>1, EmptySettles
    <2> QED
      BY <1>1, <2>2 DEF Rebooted
  <1>4. Published' = [s \in Subjects |-> IF s \in undone THEN NoEvidence ELSE Published[s]]
    <2>1. NoTree.evidence = NoEvidence
      BY DEF NoTree, EmptyTree
    <2> QED
      BY <1>3, <2>1 DEF Published
  <1>5. durable' = [s \in Subjects |-> Published'[s] # NoEvidence]
    <2>1. durable' = [s \in Subjects |-> s \notin undone /\ final[s] # NoTree]
      BY <1>1 DEF Rebooted
    <2>2. \A s \in Subjects : Published'[s] # NoEvidence <=> s \notin undone /\ final[s] # NoTree
      BY <1>4, PublishedType
    <2> QED
      BY <2>1, <2>2
  <1>6. receipts' = receipts
    BY DEF PowerLoss
  <1> QED
    BY <1>2, <1>4, <1>5, <1>6 DEF Abstract!Lose, Published

LEMMA ContentStoreStep ==
  ASSUME TypeInv, Inv, ReceiptInv, AnswerInv, [Next]_vars, TypeInv'
  PROVE  [Abstract!Next]_(Abstract!vars)
  <1>1. ASSUME NEW p \in Procs, Promote(p) PROVE Abstract!Next
    <2>1. subject[p] \in Subjects /\ evidence[p] \in Evidence
      BY DEF TypeInv, TypeOK
    <2> QED
      <3>1. Abstract!Publish(subject[p], evidence[p])
        BY <1>1, PromotePublishes
      <3>2. \E s \in Subjects, e \in Evidence : Abstract!Publish(s, e)
        BY <2>1, <3>1 DEF Abstract!Publish
      <3> QED
        BY <3>2 DEF Abstract!Next
  <1>2. ASSUME NEW p \in Procs, SyncPromotion(p) PROVE Abstract!Next
    <2>1. subject[p] \in Subjects
      BY DEF TypeInv, TypeOK
    <2> QED
      BY <1>2, <2>1, SyncPersists DEF Abstract!Next
  <1>3. CASE PowerLoss
    BY <1>3, PowerLossLoses DEF Abstract!Next
  <1>4. ASSUME NEW p \in Procs, Returns(p) PROVE Abstract!Next
    BY <1>4, ReturnAcknowledges DEF Abstract!Next, TypeInv, TypeOK
  <1>5. CASE UNCHANGED <<final, durable, receipts>>
    BY <1>5 DEF Abstract!vars
  <1>6. ASSUME ~PowerLoss, \A p \in Procs : ~Promote(p) /\ ~SyncPromotion(p) /\ ~Returns(p)
        PROVE  UNCHANGED <<final, durable, receipts>>
    <2>1. UNCHANGED <<final, durable>>
      BY <1>6, FinalChanges
    <2>2. ASSUME NEW p \in Procs, Moves(p) PROVE UNCHANGED receipts
      BY <1>6, <2>2, MovesAnswer DEF AnswerInv
    <2>3. UNCHANGED receipts
      BY <1>6, <2>2 DEF Next, Moves, vars, Submit, Refuse, HostRemovesLock
    <2> QED
      BY <2>1, <2>3
  <1> QED
    BY <1>1, <1>2, <1>3, <1>4, <1>5, <1>6

\* Whatever its processes, locks and quarantine directories go through, the
\* store is a write-once register per subject with truthful receipts: every
\* step of the code is a step of ContentStore, or changes nothing of it.
THEOREM StoreImplementsContentStore == Spec => ImplementsContentStore
  <1>1. Init => Abstract!Init
    <2>1. NoTree.evidence = NoEvidence
      BY DEF NoTree, EmptyTree
    <2> QED
      BY <2>1 DEF Init, Abstract!Init
  <1>2. IInv /\ AnswerInv /\ [Next]_vars /\ IInv' => [Abstract!Next]_(Abstract!vars)
    BY ContentStoreStep DEF IInv, TypeInv, Inv
  <1> QED
    BY <1>1, <1>2, IInvInvariant, AnswerInvInvariant, PTL DEF Spec, ImplementsContentStore, Abstract!Spec

=============================================================================
