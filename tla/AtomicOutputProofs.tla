------------------------- MODULE AtomicOutputProofs -------------------------
(***************************************************************************)
(* Proofs about AtomicOutput, for any number of invocations, process       *)
(* identifiers and inodes and any bounds, with and without --force.        *)
(***************************************************************************)
EXTENDS AtomicOutput, FiniteSetTheorems, TLAPS

LEMMA Initially == Init => IInv
  BY OutputAssumption DEF Init, IInv, TypeOK, Names, Live, OwnTemp, TargetWhole

(***************************************************************************)
(* Types.                                                                  *)
(***************************************************************************)

LEMMA TypeNext == IInv /\ [Next]_vars => TypeOK'
  <1> SUFFICES ASSUME IInv, [Next]_vars PROVE TypeOK'
    OBVIOUS
  <1> USE OutputAssumption DEF IInv, TypeOK, Names, Goto, Fail, AfterError, Errors, bounds, Live, Temp
  <1>1. ASSUME NEW p \in Procs, FirstCheck(p) PROVE TypeOK'
    BY <1>1 DEF FirstCheck, CheckTarget
  <1>2. ASSUME NEW p \in Procs, TempTaken(p) PROVE TypeOK'
    BY <1>2 DEF TempTaken
  <1>3. ASSUME NEW p \in Procs, WriteTemp(p) PROVE TypeOK'
    BY <1>3 DEF WriteTemp
  <1>4. ASSUME NEW p \in Procs, SyncTemp(p) PROVE TypeOK'
    <2>1. /\ pc[p] = "sync"
          /\ file' = [file EXCEPT ![staged[p]].state = "synced"]
          /\ UNCHANGED <<dir, force, pid, staged, bounds>>
      BY <1>4 DEF SyncTemp
    <2>2. \/ pc' = [pc EXCEPT ![p] = "commit"] /\ UNCHANGED outcome
          \/ pc' = [pc EXCEPT ![p] = "drop"] /\ outcome' = [outcome EXCEPT ![p] = "Io"]
      BY <1>4 DEF SyncTemp
    <2>3. staged[p] \in Inodes /\ file' \in [Inodes -> [by : Procs \cup {Old, Special, None},
                                                       state : {"partial", "written", "synced"}]]
      BY <2>1
    <2>4. /\ pc' \in [Procs -> {"idle", "check", "create", "write", "sync", "commit", "rename",
                       "unlink", "validate", "withdraw", "remove", "drop", "syncdir", "done"}]
          /\ outcome' \in [Procs -> {"none", "ok", "killed"} \cup Errors]
      BY <2>2
    <2> QED
      BY <2>1, <2>3, <2>4
  <1>5. ASSUME NEW p \in Procs, SecondCheck(p) PROVE TypeOK'
    BY <1>5 DEF SecondCheck, CheckTarget
  <1>6. ASSUME NEW p \in Procs, Rename(p) PROVE TypeOK'
    BY <1>6 DEF Rename
  <1>7. ASSUME NEW p \in Procs, RenameRefused(p) PROVE TypeOK'
    BY <1>7 DEF RenameRefused
  <1>8. ASSUME NEW p \in Procs, Link(p) PROVE TypeOK'
    BY <1>8 DEF Link
  <1>9. ASSUME NEW p \in Procs, LinkExists(p) PROVE TypeOK'
    BY <1>9 DEF LinkExists
  <1>10. ASSUME NEW p \in Procs, RemoveTemp(p) PROVE TypeOK'
    BY <1>10 DEF RemoveTemp
  <1>11. ASSUME NEW p \in Procs, Validate(p) PROVE TypeOK'
    BY <1>11 DEF Validate
  <1>12. ASSUME NEW p \in Procs, SyncDirectory(p) PROVE TypeOK'
    BY <1>12 DEF SyncDirectory
  <1>13. ASSUME NEW p \in Procs, Withdraw(p) PROVE TypeOK'
    BY <1>13 DEF Withdraw
  <1>14. ASSUME NEW p \in Procs, RemoveTarget(p) PROVE TypeOK'
    BY <1>14 DEF RemoveTarget
  <1>15. ASSUME NEW p \in Procs, DropTemp(p) PROVE TypeOK'
    BY <1>15 DEF DropTemp
  <1>16. ASSUME NEW p \in Procs, CallFails(p) PROVE TypeOK'
    BY <1>16 DEF CallFails
  <1>17. ASSUME NEW p \in Procs, GuardFails(p) PROVE TypeOK'
    BY <1>17 DEF GuardFails
  <1>18. ASSUME NEW p \in Procs, Crash(p) PROVE TypeOK'
    BY <1>18 DEF Crash
  <1>19. ASSUME NEW p \in Procs, NEW i \in Inodes, CreateTemp(p, i) PROVE TypeOK'
    BY <1>19 DEF CreateTemp
  <1>20. ASSUME NEW p \in Procs, NEW f \in BOOLEAN, NEW k \in Pids, Start(p, f, k) PROVE TypeOK'
    BY <1>20 DEF Start
  <1>21. ASSUME NEW kind \in {Old, Special}, NEW i \in Inodes, Appear(kind, i) PROVE TypeOK'
    BY <1>21 DEF Appear
  <1>22. CASE UNCHANGED vars
    BY <1>22 DEF vars
  <1> HIDE DEF IInv, TypeOK, Names, Goto, Fail, AfterError, Errors, bounds, Live, Temp
  <1> QED
    BY <1>1, <1>2, <1>3, <1>4, <1>5, <1>6, <1>7, <1>8, <1>9, <1>10,
       <1>11, <1>12, <1>13, <1>14, <1>15, <1>16, <1>17, <1>18, <1>19, <1>20,
       <1>21, <1>22 DEF Next, Step

(***************************************************************************)
(* The invariant.                                                          *)
(***************************************************************************)

LEMMA IInvNext == IInv /\ [Next]_vars => IInv'
  <1> SUFFICES ASSUME IInv, [Next]_vars PROVE IInv'
    OBVIOUS
  <1> USE OutputAssumption DEF IInv, OwnTemp, TargetWhole, Goto, Fail, AfterError, Live, Temp, Names, bounds
  <1>0. TypeOK'
    BY TypeNext
  <1>1. ASSUME NEW p \in Procs, FirstCheck(p) PROVE IInv'
    <2>1. UNCHANGED <<dir, file, force, pid, staged, bounds>>
      BY <1>1 DEF FirstCheck, CheckTarget
    <2>2. pc' = [pc EXCEPT ![p] = "create"] \/ pc' = [pc EXCEPT ![p] = "done"]
      BY <1>1 DEF FirstCheck, CheckTarget
    <2>3. pc[p] = "check"
      BY <1>1 DEF FirstCheck
    <2> QED
      BY <1>0, <2>1, <2>2, <2>3 DEF TypeOK
  <1>2. ASSUME NEW p \in Procs, TempTaken(p) PROVE IInv'
    BY <1>0, <1>2 DEF TempTaken, TypeOK
  <1>3. ASSUME NEW p \in Procs, WriteTemp(p) PROVE IInv'
    BY <1>0, <1>3 DEF WriteTemp, TypeOK
  <1>4. ASSUME NEW p \in Procs, SyncTemp(p) PROVE IInv'
    <2>1. /\ pc[p] = "sync"
          /\ file' = [file EXCEPT ![staged[p]].state = "synced"]
          /\ UNCHANGED <<dir, force, pid, staged, bounds>>
      BY <1>4 DEF SyncTemp
    <2>2. \/ pc' = [pc EXCEPT ![p] = "commit"] /\ UNCHANGED outcome
          \/ pc' = [pc EXCEPT ![p] = "drop"] /\ outcome' = [outcome EXCEPT ![p] = "Io"]
      BY <1>4 DEF SyncTemp
    <2>3. /\ staged[p] \in Inodes
          /\ \A i \in Inodes : /\ file'[i].by = file[i].by
                             /\ file[i].state = "synced" => file'[i].state = "synced"
          /\ file'[staged[p]].state = "synced"
      BY <2>1 DEF TypeOK
    <2>4. /\ pc'[p] \in {"commit", "drop"}
          /\ \A q \in Procs \ {p} : pc'[q] = pc[q]
          /\ \A q \in Procs : Live(q)' => Live(q)
      <3>1. pc'[p] \in {"commit", "drop"}
        BY <2>2 DEF TypeOK
      <3>2. \A q \in Procs \ {p} : pc'[q] = pc[q]
        BY <2>2 DEF TypeOK
      <3> QED
        BY <2>1, <3>1, <3>2
    <2>5. /\ \A q \in Procs : Live(q)' => pid'[q] \in Pids
          /\ \A q, r \in Procs : Live(q)' /\ Live(r)' /\ pid'[q] = pid'[r] => q = r
      BY <2>1, <2>4
    <2>6. ASSUME NEW q \in Procs, pc'[q] \in {"write", "sync", "commit", "rename", "unlink"}
          PROVE  /\ dir'[pid'[q]] = staged'[q] /\ file'[staged'[q]].by = q
                 /\ pc'[q] \in {"write", "sync"} => dir'[Target] # staged'[q]
                 /\ pc'[q] \in {"commit", "rename", "unlink"} => file'[staged'[q]].state = "synced"
                 /\ staged'[q] \in Inodes
                 /\ pc'[q] = "rename" => force'[q]
      <3>1. CASE q = p
        <4>1. dir[pid[p]] = staged[p] /\ file[staged[p]].by = p
          BY <2>1
        <4> QED
          BY <4>1, <2>1, <2>3, <2>4, <3>1
      <3>2. CASE q # p
        BY <2>1, <2>3, <2>4, <2>6, <3>2
      <3> QED
        BY <3>1, <3>2
    <2>7. TargetWhole'
      BY <2>1, <2>3 DEF TypeOK
    <2> QED
      BY <1>0, <2>5, <2>6, <2>7
  <1>5. ASSUME NEW p \in Procs, SecondCheck(p) PROVE IInv'
    <2>1. UNCHANGED <<dir, file, force, pid, staged, bounds>>
      BY <1>5 DEF SecondCheck, CheckTarget
    <2>2. pc' = [pc EXCEPT ![p] = "rename"] \/ pc' = [pc EXCEPT ![p] = "drop"]
      BY <1>5 DEF SecondCheck, CheckTarget
    <2>3. pc[p] = "commit" /\ force[p]
      BY <1>5 DEF SecondCheck
    <2>4. CASE pc' = [pc EXCEPT ![p] = "rename"]
      BY <1>0, <2>1, <2>3, <2>4 DEF TypeOK
    <2>5. CASE pc' = [pc EXCEPT ![p] = "drop"]
      BY <1>0, <2>1, <2>3, <2>5 DEF TypeOK
    <2> QED
      BY <2>2, <2>4, <2>5
  <1>6. ASSUME NEW p \in Procs, Rename(p) PROVE IInv'
    BY <1>0, <1>6 DEF Rename, TypeOK
  <1>7. ASSUME NEW p \in Procs, RenameRefused(p) PROVE IInv'
    BY <1>0, <1>7 DEF RenameRefused, TypeOK
  <1>8. ASSUME NEW p \in Procs, Link(p) PROVE IInv'
    BY <1>0, <1>8 DEF Link, TypeOK
  <1>9. ASSUME NEW p \in Procs, LinkExists(p) PROVE IInv'
    BY <1>0, <1>9 DEF LinkExists, TypeOK
  <1>10. ASSUME NEW p \in Procs, RemoveTemp(p) PROVE IInv'
    BY <1>0, <1>10 DEF RemoveTemp, TypeOK
  <1>11. ASSUME NEW p \in Procs, Validate(p) PROVE IInv'
    BY <1>0, <1>11 DEF Validate, TypeOK
  <1>12. ASSUME NEW p \in Procs, SyncDirectory(p) PROVE IInv'
    BY <1>0, <1>12 DEF SyncDirectory, TypeOK
  <1>13. ASSUME NEW p \in Procs, Withdraw(p) PROVE IInv'
    BY <1>0, <1>13 DEF Withdraw, TypeOK
  <1>14. ASSUME NEW p \in Procs, RemoveTarget(p) PROVE IInv'
    BY <1>0, <1>14 DEF RemoveTarget, TypeOK
  <1>15. ASSUME NEW p \in Procs, DropTemp(p) PROVE IInv'
    BY <1>0, <1>15 DEF DropTemp, TypeOK
  <1>16. ASSUME NEW p \in Procs, CallFails(p) PROVE IInv'
    BY <1>0, <1>16 DEF CallFails, TypeOK
  <1>17. ASSUME NEW p \in Procs, GuardFails(p) PROVE IInv'
    BY <1>0, <1>17 DEF GuardFails, TypeOK
  <1>18. ASSUME NEW p \in Procs, Crash(p) PROVE IInv'
    BY <1>0, <1>18 DEF Crash, TypeOK
  <1>19. ASSUME NEW p \in Procs, NEW i \in Inodes, CreateTemp(p, i) PROVE IInv'
    <2>1. /\ pc[p] = "create" /\ pc' = [pc EXCEPT ![p] = "write"]
          /\ dir' = [dir EXCEPT ![pid[p]] = i]
          /\ file' = [file EXCEPT ![i] = [by |-> p, state |-> "partial"]]
          /\ staged' = [staged EXCEPT ![p] = i]
          /\ UNCHANGED <<pid, force>>
      BY <1>19 DEF CreateTemp
    <2>2. /\ \A n \in Names : dir[n] # i
          /\ \A q \in Procs : pc[q] \in {"write", "sync"} => staged[q] # i
      BY <1>19 DEF CreateTemp, Free
    <2>3. pid[p] \in Pids /\ pid[p] # Target
      BY <2>1
    <2>4. \A q \in Procs : Live(q)' => Live(q) /\ pid'[q] = pid[q]
      BY <2>1 DEF TypeOK
    <2>5. /\ \A q \in Procs : Live(q)' => pid'[q] \in Pids
          /\ \A q, r \in Procs : Live(q)' /\ Live(r)' /\ pid'[q] = pid'[r] => q = r
      BY <2>4
    <2>6. ASSUME NEW q \in Procs, pc'[q] \in {"write", "sync", "commit", "rename", "unlink"}
          PROVE  /\ dir'[pid'[q]] = staged'[q] /\ file'[staged'[q]].by = q
                 /\ pc'[q] \in {"write", "sync"} => dir'[Target] # staged'[q]
                 /\ pc'[q] \in {"commit", "rename", "unlink"} => file'[staged'[q]].state = "synced"
                 /\ staged'[q] \in Inodes
                 /\ pc'[q] = "rename" => force'[q]
      <3>1. CASE q = p
        BY <2>1, <2>2, <2>3, <2>6, <3>1 DEF TypeOK
      <3>2. CASE q # p
        BY <2>1, <2>2, <2>3, <2>6, <3>2 DEF TypeOK
      <3> QED
        BY <3>1, <3>2
    <2>7. TargetWhole'
      BY <2>1, <2>2, <2>3 DEF TypeOK
    <2> QED
      BY <1>0, <2>5, <2>6, <2>7
  <1>20. ASSUME NEW p \in Procs, NEW f \in BOOLEAN, NEW k \in Pids, Start(p, f, k) PROVE IInv'
    BY <1>0, <1>20 DEF Start, TypeOK
  <1>21. ASSUME NEW kind \in {Old, Special}, NEW i \in Inodes, Appear(kind, i) PROVE IInv'
    BY <1>0, <1>21 DEF Appear, Free, TypeOK
  <1>22. CASE UNCHANGED vars
    BY <1>0, <1>22 DEF vars, TypeOK
  <1> HIDE DEF IInv, OwnTemp, TargetWhole, Goto, Fail, AfterError, Live, Temp, Names, bounds
  <1> QED
    BY <1>1, <1>2, <1>3, <1>4, <1>5, <1>6, <1>7, <1>8, <1>9, <1>10,
       <1>11, <1>12, <1>13, <1>14, <1>15, <1>16, <1>17, <1>18, <1>19, <1>20,
       <1>21, <1>22 DEF Next, Step

\* Type correctness.
THEOREM TypeCorrect == Spec => []TypeOK
  BY Initially, IInvNext, PTL DEF Spec, IInv

\* What stands at the target is always a whole, synced file: the temporary
\* name is the process's own and stage_file syncs before either commit.
THEOREM TargetAlwaysWhole == Spec => []TargetWhole
  BY Initially, IInvNext, PTL DEF Spec, IInv

(***************************************************************************)
(* Replacing an existing output.                                           *)
(***************************************************************************)

LEMMA ReplaceStep ==
  ASSUME IInv, Next, dir[Target] # None, dir'[Target] \notin {dir[Target], None}
  PROVE  \E p \in Procs : pc[p] = "rename" /\ force[p] /\ dir'[Target] = staged[p]
  <1> USE DEF IInv, OwnTemp, Live, Temp, Goto, Names
  <1>1. ~UNCHANGED dir
    OBVIOUS
  <1>2. ASSUME NEW p \in Procs, pc[p] \in {"create", "unlink", "drop"}
        PROVE  pid[p] # Target
    BY <1>2, OutputAssumption
  <1>3. ASSUME NEW p \in Procs, NEW i \in Inodes, CreateTemp(p, i) PROVE FALSE
    BY <1>2, <1>3 DEF CreateTemp, TypeOK
  <1>4. ASSUME NEW p \in Procs, RemoveTemp(p) \/ DropTemp(p) PROVE FALSE
    BY <1>2, <1>4 DEF RemoveTemp, DropTemp, TypeOK
  <1>5. ASSUME NEW p \in Procs, Link(p) \/ RemoveTarget(p) PROVE FALSE
    BY <1>5 DEF Link, RemoveTarget, TypeOK
  <1>6. ASSUME NEW p \in Procs, Rename(p)
        PROVE  pc[p] = "rename" /\ force[p] /\ dir'[Target] = staged[p]
    <2>1. pid[p] # Target
      BY <1>6, OutputAssumption DEF Rename
    <2> QED
      BY <1>6, <2>1 DEF Rename, TypeOK
  <1>7. ASSUME NEW kind \in {Old, Special}, NEW i \in Inodes, Appear(kind, i) PROVE FALSE
    BY <1>7 DEF Appear
  <1>8. \E p \in Procs : \/ \E i \in Inodes : CreateTemp(p, i)
                         \/ RemoveTemp(p) \/ DropTemp(p) \/ Link(p) \/ RemoveTarget(p) \/ Rename(p)
    BY <1>1, <1>7 DEF Next, Step, FirstCheck, CheckTarget, TempTaken, WriteTemp, SyncTemp,
       SecondCheck, RenameRefused, LinkExists, Validate, SyncDirectory, Withdraw, CallFails,
       GuardFails, Crash, Start
  <1> QED
    BY <1>3, <1>4, <1>5, <1>6, <1>8

\* An existing output gives way to another file only by the rename of a
\* forced invocation, and then to the file that invocation staged.
THEOREM ReplacedByForceOnly == Spec => OnlyForceReplaces
  <1>1. IInv /\ [Next]_vars =>
          [dir[Target] # None /\ dir'[Target] \notin {dir[Target], None} =>
             \E p \in Procs : pc[p] = "rename" /\ force[p] /\ dir'[Target] = staged[p]]_vars
    BY ReplaceStep
  <1> QED
    BY <1>1, Initially, IInvNext, PTL DEF Spec, OnlyForceReplaces

-----------------------------------------------------------------------------
(* What failures cost (temporary files left behind), what an error says    *)
(* when nothing failed, and that an output written without --force is a    *)
(* slot one invocation fills.                                              *)


(***************************************************************************)
(* Names. Temporary names have inodes of their own, the temporary name is  *)
(* gone once a commit is through, and who commits has staged a file.       *)
(***************************************************************************)

Named ==
  /\ \A k, l \in Pids : dir[k] # None /\ dir[k] = dir[l] => k = l
  /\ \A p \in Procs : pc[p] \in {"validate", "syncdir"} => dir[Temp(p)] = None
  /\ \A p \in Procs : pc[p] \in {"unlink", "validate", "withdraw", "remove", "syncdir"} =>
       staged[p] # None

LEMMA NamedNext == IInv /\ Named /\ [Next]_vars => Named'
  <1> SUFFICES ASSUME IInv, Named, [Next]_vars PROVE Named'
    OBVIOUS
  <1> USE OutputAssumption DEF IInv, TypeOK, OwnTemp, Named, Goto, Fail, AfterError, Live, Temp, Names, bounds
  <1>1. ASSUME NEW p \in Procs, FirstCheck(p) \/ TempTaken(p) \/ SecondCheck(p) PROVE Named'
    BY <1>1 DEF FirstCheck, CheckTarget, TempTaken, SecondCheck
  <1>2. ASSUME NEW p \in Procs, WriteTemp(p) PROVE Named'
    BY <1>2 DEF WriteTemp
  <1>3. ASSUME NEW p \in Procs, SyncTemp(p) PROVE Named'
    BY <1>3 DEF SyncTemp
  <1>4. ASSUME NEW p \in Procs, Rename(p) PROVE Named'
    BY <1>4 DEF Rename
  <1>5. ASSUME NEW p \in Procs, RenameRefused(p) \/ LinkExists(p) PROVE Named'
    BY <1>5 DEF RenameRefused, LinkExists
  <1>6. ASSUME NEW p \in Procs, Link(p) PROVE Named'
    BY <1>6 DEF Link
  <1>7. ASSUME NEW p \in Procs, RemoveTemp(p) PROVE Named'
    BY <1>7 DEF RemoveTemp
  <1>8. ASSUME NEW p \in Procs, Validate(p) PROVE Named'
    BY <1>8 DEF Validate
  <1>9. ASSUME NEW p \in Procs, SyncDirectory(p) \/ Withdraw(p) PROVE Named'
    BY <1>9 DEF SyncDirectory, Withdraw
  <1>10. ASSUME NEW p \in Procs, RemoveTarget(p) PROVE Named'
    BY <1>10 DEF RemoveTarget
  <1>11. ASSUME NEW p \in Procs, DropTemp(p) PROVE Named'
    BY <1>11 DEF DropTemp
  <1>12. ASSUME NEW p \in Procs, CallFails(p) PROVE Named'
    BY <1>12 DEF CallFails
  <1>13. ASSUME NEW p \in Procs, GuardFails(p) \/ Crash(p) PROVE Named'
    BY <1>13 DEF GuardFails, Crash
  <1>14. ASSUME NEW p \in Procs, NEW i \in Inodes, CreateTemp(p, i) PROVE Named'
    BY <1>14 DEF CreateTemp, Free
  <1>15. ASSUME NEW p \in Procs, NEW f \in BOOLEAN, NEW k \in Pids, Start(p, f, k) PROVE Named'
    BY <1>15 DEF Start
  <1>16. ASSUME NEW kind \in {Old, Special}, NEW i \in Inodes, Appear(kind, i) PROVE Named'
    BY <1>16 DEF Appear
  <1>17. CASE UNCHANGED vars
    BY <1>17 DEF vars
  <1> HIDE DEF IInv, TypeOK, OwnTemp, Named, Goto, Fail, AfterError, Live, Temp, Names, bounds
  <1> QED
    BY <1>1, <1>2, <1>3, <1>4, <1>5, <1>6, <1>7, <1>8, <1>9, <1>10, <1>11, <1>12, <1>13,
       <1>14, <1>15, <1>16, <1>17 DEF Next, Step

(***************************************************************************)
(* Litter. A step that costs nothing adds none; any step adds at most the  *)
(* temporary name of the process that takes it.                            *)
(***************************************************************************)

Cost == crashes + faults

Answers(p) == Live(p) /\ pc[p] # "check"

LEMMA LitterAnswers ==
  /\ Litter = {k \in Pids : dir[k] # None /\ \A p \in Procs : Answers(p) => pid[p] # k}
  /\ Litter' = {k \in Pids : dir'[k] # None /\ \A p \in Procs : Answers(p)' => pid'[p] # k}
  BY DEF Litter, Answers

\* A step of p touches p's own names only.
OwnStep(p) ==
  /\ \A k \in Pids \ {pid[p]} : dir'[k] = dir[k]
  /\ \A q \in Procs \ {p} : pc'[q] = pc[q]
  /\ pid' = pid

\* p takes its temporary file along, or removes it, or has never had one.
Tidies(p) ==
  \/ dir'[pid[p]] = None
  \/ Answers(p)'
  \/ ~Answers(p) /\ dir'[pid[p]] = dir[pid[p]]

LEMMA StepTidies ==
  ASSUME IInv, Named, NEW p \in Procs, Step(p)
  PROVE  OwnStep(p) /\ Tidies(p) /\ UNCHANGED <<crashes, faults>>
  <1> USE OutputAssumption DEF IInv, TypeOK, Named, Goto, Fail, AfterError, Live, Temp, Names, bounds,
          OwnStep, Tidies, Answers
  <1>1. CASE FirstCheck(p) \/ TempTaken(p) \/ SecondCheck(p)
    BY <1>1 DEF FirstCheck, CheckTarget, TempTaken, SecondCheck
  <1>2. CASE \E i \in Inodes : CreateTemp(p, i)
    BY <1>2 DEF CreateTemp
  <1>3. CASE WriteTemp(p) \/ SyncTemp(p)
    BY <1>3 DEF WriteTemp, SyncTemp
  <1>4. CASE Rename(p) \/ RenameRefused(p)
    BY <1>4 DEF Rename, RenameRefused
  <1>5. CASE Link(p) \/ LinkExists(p) \/ RemoveTemp(p)
    BY <1>5 DEF Link, LinkExists, RemoveTemp
  <1>6. CASE Validate(p)
    BY <1>6 DEF Validate
  <1>7. CASE SyncDirectory(p) \/ Withdraw(p)
    BY <1>7 DEF SyncDirectory, Withdraw
  <1>8. CASE RemoveTarget(p) \/ DropTemp(p)
    BY <1>8 DEF RemoveTarget, DropTemp
  <1> QED
    BY <1>1, <1>2, <1>3, <1>4, <1>5, <1>6, <1>7, <1>8 DEF Step

\* A call that fails, and a kill, cost one.
LEMMA CostlyStep ==
  ASSUME IInv, NEW p \in Procs, CallFails(p) \/ GuardFails(p) \/ Crash(p)
  PROVE  OwnStep(p) /\ dir' = dir /\ Cost' = Cost + 1
  <1> USE DEF IInv, TypeOK, Fail, OwnStep, Cost
  <1>1. CASE CallFails(p)
    BY <1>1 DEF CallFails
  <1>2. CASE GuardFails(p)
    BY <1>2 DEF GuardFails
  <1>3. CASE Crash(p)
    BY <1>3 DEF Crash
  <1> QED
    BY <1>1, <1>2, <1>3

\* A start and a file at the target change nothing about it.
LEMMA FreeStep ==
  ASSUME IInv, \/ \E p \in Procs, f \in BOOLEAN, k \in Pids : Start(p, f, k)
               \/ \E kind \in {Old, Special}, i \in Inodes : Appear(kind, i)
               \/ UNCHANGED vars
  PROVE  Litter' = Litter /\ Cost' = Cost
  <1>1. ASSUME NEW p \in Procs, NEW f \in BOOLEAN, NEW k \in Pids, Start(p, f, k)
        PROVE  Litter' = Litter /\ Cost' = Cost
    <2>1. dir' = dir /\ crashes' = crashes /\ faults' = faults
      BY <1>1 DEF Start, bounds
    <2>2. \A q \in Procs : Answers(q)' <=> Answers(q)
      BY <1>1 DEF Start, Goto, Answers, Live, IInv, TypeOK
    <2>3. \A q \in Procs : Answers(q) => pid'[q] = pid[q]
      BY <1>1 DEF Start, Goto, Answers, Live, IInv, TypeOK
    <2>4. Litter' = Litter
      BY <2>1, <2>2, <2>3, LitterAnswers
    <2> QED
      BY <2>1, <2>4 DEF Cost
  <1>2. ASSUME NEW kind \in {Old, Special}, NEW i \in Inodes, Appear(kind, i)
        PROVE  Litter' = Litter /\ Cost' = Cost
    <2>1. /\ pc' = pc /\ pid' = pid /\ crashes' = crashes /\ faults' = faults
          /\ \A k \in Pids : dir'[k] = dir[k]
      BY <1>2, OutputAssumption DEF Appear, Names, IInv, TypeOK
    <2> QED
      BY <2>1, LitterAnswers DEF Cost, Answers, Live
  <1>3. ASSUME UNCHANGED vars PROVE Litter' = Litter /\ Cost' = Cost
    BY <1>3 DEF vars, bounds, Litter, Live, Cost
  <1> QED
    BY <1>1, <1>2, <1>3

LitterInv == Named /\ IsFiniteSet(Litter) /\ Cardinality(Litter) <= Cost

\* A set that gains one element at most.
LEMMA OneMore ==
  ASSUME NEW A, IsFiniteSet(A), NEW x, NEW B, B \subseteq A \cup {x}
  PROVE  IsFiniteSet(B) /\ Cardinality(B) \in Nat /\ Cardinality(A) \in Nat /\ Cardinality(B) <= Cardinality(A) + 1
  <1>1. /\ IsFiniteSet(A \cup {x})
        /\ Cardinality(A \cup {x}) = IF x \in A THEN Cardinality(A) ELSE Cardinality(A) + 1
    BY FS_AddElement
  <1>2. IsFiniteSet(B) /\ Cardinality(B) <= Cardinality(A \cup {x})
    BY <1>1, FS_Subset
  <1>3. Cardinality(A) \in Nat /\ Cardinality(B) \in Nat
    BY <1>2, FS_CardinalityType
  <1> QED
    BY <1>1, <1>2, <1>3

LEMMA LitterNext == IInv /\ LitterInv /\ [Next]_vars => LitterInv'
  <1> SUFFICES ASSUME IInv, LitterInv, [Next]_vars PROVE LitterInv'
    OBVIOUS
  <1>0. Named' /\ Cost \in Nat /\ IsFiniteSet(Litter)
    BY NamedNext, OutputAssumption DEF LitterInv, IInv, TypeOK, Cost
  <1>1. ASSUME Litter' \subseteq Litter, Cost' = Cost PROVE LitterInv'
    <2>1. IsFiniteSet(Litter') /\ Cardinality(Litter') <= Cardinality(Litter)
      BY <1>0, <1>1, FS_Subset
    <2>2. Cardinality(Litter) \in Nat /\ Cardinality(Litter') \in Nat
      BY <1>0, <2>1, FS_CardinalityType
    <2> QED
      BY <1>0, <1>1, <2>1, <2>2 DEF LitterInv
  <1>2. ASSUME NEW p \in Procs, CallFails(p) \/ GuardFails(p) \/ Crash(p) PROVE LitterInv'
    <2>1. OwnStep(p) /\ dir' = dir /\ Cost' = Cost + 1
      BY <1>2, CostlyStep
    <2>2. Litter' \subseteq Litter \cup {pid[p]}
      BY <2>1, LitterAnswers DEF OwnStep, Answers, Live
    <2>3. IsFiniteSet(Litter') /\ Cardinality(Litter') <= Cardinality(Litter) + 1
          /\ Cardinality(Litter) \in Nat /\ Cardinality(Litter') \in Nat
      BY <1>0, <2>2, OneMore
    <2> QED
      BY <1>0, <2>1, <2>3 DEF LitterInv
  <1>3. ASSUME NEW p \in Procs, Step(p) PROVE LitterInv'
    <2>1. OwnStep(p) /\ Tidies(p) /\ Cost' = Cost
      BY <1>3, StepTidies DEF LitterInv, Cost
    <2>2. ASSUME NEW k \in Litter' PROVE k \in Litter
      <3>1. k \in Pids /\ dir'[k] # None /\ \A q \in Procs : Answers(q)' => pid[q] # k
        BY <2>1, <2>2, LitterAnswers DEF OwnStep
      <3>2. dir[k] # None /\ ~(Answers(p) /\ pid[p] = k)
        BY <2>1, <3>1 DEF OwnStep, Tidies
      <3>3. \A q \in Procs \ {p} : Answers(q)' <=> Answers(q)
        BY <2>1 DEF OwnStep, Answers, Live
      <3> QED
        BY <3>1, <3>2, <3>3, LitterAnswers
    <2> QED
      BY <1>1, <2>1, <2>2
  <1>4. CASE \/ \E p \in Procs, f \in BOOLEAN, k \in Pids : Start(p, f, k)
             \/ \E kind \in {Old, Special}, i \in Inodes : Appear(kind, i)
             \/ UNCHANGED vars
    BY <1>1, <1>4, FreeStep
  <1> QED
    BY <1>2, <1>3, <1>4 DEF Next

LEMMA LitterInit == Init => LitterInv
  <1> SUFFICES ASSUME Init PROVE LitterInv
    OBVIOUS
  <1>1. Litter = {} /\ Cost = 0
    BY DEF Init, Litter, Names, Cost
  <1>2. IsFiniteSet(Litter) /\ Cardinality(Litter) = 0
    BY <1>1, FS_EmptySet
  <1>3. Named
    BY DEF Init, Named, Names
  <1> QED
    BY <1>1, <1>2, <1>3 DEF LitterInv

\* "Cleans temporary files after failure": the temporary files that no
\* running invocation answers for never outnumber the kills and failed calls.
THEOREM LitterHasCost == Spec => []NoLitter
  <1>1. LitterInv => NoLitter
    BY DEF LitterInv, NoLitter, Cost
  <1> QED
    BY <1>1, Initially, IInvNext, LitterInit, LitterNext, PTL DEF Spec

(***************************************************************************)
(* Errors. While nothing failed, was killed or appeared, each temporary    *)
(* file has a live owner, the target is the file of an invocation that has *)
(* committed, and whatever disturbs an invocation is one of those.         *)
(***************************************************************************)

Calm == crashes = 0 /\ faults = 0 /\ appears = 0

AfterCommit == {"unlink", "validate", "withdraw", "remove", "drop", "syncdir", "done"}

Committed(q) == staged[q] # None /\ pc[q] \in AfterCommit

Raced(p) == \E q \in Procs \ {p} : Committed(q)

Keeping == {"write", "sync", "commit", "rename", "unlink", "withdraw", "remove", "drop"}

Owned == \A k \in Pids : dir[k] # None =>
  \E q \in Procs : pid[q] = k /\ pc[q] \in Keeping /\ staged[q] # None

TargetCommitted == dir[Target] # None => \E q \in Procs : Committed(q) /\ file[dir[Target]].by = q

CommitStands(p) == dir[Target] = staged[p] /\ file[staged[p]].by = p

Undisturbed == \A p \in Procs : pc[p] \in {"unlink", "validate"} => Raced(p) \/ CommitStands(p)

ErrorsRaced == \A p \in Procs : outcome[p] \in Errors => Raced(p)

CalmInv == Owned /\ TargetCommitted /\ Undisturbed /\ ErrorsRaced

RaceInv == Named /\ (Calm => CalmInv)

LEMMA CommittedStays == IInv /\ [Next]_vars => \A q \in Procs : Committed(q) => Committed(q)'
  <1> SUFFICES ASSUME IInv, [Next]_vars, NEW q \in Procs, Committed(q) PROVE Committed(q)'
    OBVIOUS
  <1> USE DEF IInv, TypeOK, Committed, AfterCommit, Goto, Fail, AfterError
  <1>1. ASSUME NEW p \in Procs, FirstCheck(p) \/ TempTaken(p) \/ SecondCheck(p) PROVE Committed(q)'
    BY <1>1 DEF FirstCheck, CheckTarget, TempTaken, SecondCheck
  <1>2. ASSUME NEW p \in Procs, WriteTemp(p) \/ SyncTemp(p) PROVE Committed(q)'
    BY <1>2 DEF WriteTemp, SyncTemp
  <1>3. ASSUME NEW p \in Procs, Rename(p) \/ RenameRefused(p) \/ LinkExists(p) PROVE Committed(q)'
    BY <1>3 DEF Rename, RenameRefused, LinkExists
  <1>4. ASSUME NEW p \in Procs, Link(p) \/ RemoveTemp(p) PROVE Committed(q)'
    BY <1>4 DEF Link, RemoveTemp
  <1>5. ASSUME NEW p \in Procs, Validate(p) PROVE Committed(q)'
    BY <1>5 DEF Validate
  <1>6. ASSUME NEW p \in Procs, SyncDirectory(p) \/ Withdraw(p) \/ RemoveTarget(p) \/ DropTemp(p)
        PROVE  Committed(q)'
    BY <1>6 DEF SyncDirectory, Withdraw, RemoveTarget, DropTemp
  <1>7. ASSUME NEW p \in Procs, CallFails(p) PROVE Committed(q)'
    BY <1>7 DEF CallFails
  <1>8. ASSUME NEW p \in Procs, GuardFails(p) \/ Crash(p) PROVE Committed(q)'
    BY <1>8 DEF GuardFails, Crash
  <1>9. ASSUME NEW p \in Procs, NEW i \in Inodes, CreateTemp(p, i) PROVE Committed(q)'
    BY <1>9 DEF CreateTemp
  <1>10. ASSUME NEW p \in Procs, NEW f \in BOOLEAN, NEW k \in Pids, Start(p, f, k) PROVE Committed(q)'
    BY <1>10 DEF Start
  <1>11. ASSUME NEW kind \in {Old, Special}, NEW i \in Inodes, Appear(kind, i) PROVE Committed(q)'
    BY <1>11 DEF Appear
  <1>12. CASE UNCHANGED vars
    BY <1>12 DEF vars
  <1> HIDE DEF IInv, TypeOK, Committed, AfterCommit, Goto, Fail, AfterError
  <1> QED
    BY <1>1, <1>2, <1>3, <1>4, <1>5, <1>6, <1>7, <1>8, <1>9, <1>10, <1>11, <1>12 DEF Next, Step

LEMMA RacedStays ==
  ASSUME IInv, [Next]_vars, NEW p \in Procs, Raced(p) PROVE Raced(p)'
  BY CommittedStays DEF Raced

\* A file at the target, while all is calm, is that of another invocation
\* that has committed, not of one that is still before its commit.
LEMMA TargetRaces ==
  ASSUME IInv, CalmInv, NEW p \in Procs, pc[p] \notin AfterCommit, dir[Target] # None
  PROVE  Raced(p) /\ ~TargetIs(Special)
  <1>1. PICK q \in Procs : Committed(q) /\ file[dir[Target]].by = q
    BY DEF CalmInv, TargetCommitted
  <1>2. q # p
    BY <1>1 DEF Committed
  <1> QED
    BY <1>1, <1>2, OutputAssumption DEF Raced, TargetIs

\* No other name is linked to the file that a process is writing.
LEMMA OneLink ==
  ASSUME IInv, Named, NEW p \in Procs, pc[p] = "sync"
  PROVE  Links(staged[p]) = 1
  <1>1. /\ pid[p] \in Pids /\ dir[pid[p]] = staged[p] /\ dir[Target] # staged[p]
        /\ staged[p] \in Inodes
    BY DEF IInv, OwnTemp, Temp, Live
  <1>2. {n \in Names : dir[n] = staged[p]} = {pid[p]}
    BY <1>1, OutputAssumption DEF Named, Names
  <1> QED
    BY <1>2, FS_Singleton DEF Links

\* A second name of a committed file is a committed invocation's temporary.
LEMMA SecondLinkRaces ==
  ASSUME IInv, Named, CalmInv, NEW p \in Procs, pc[p] = "validate", CommitStands(p),
         Links(staged[p]) # 1
  PROVE  Raced(p)
  <1>1. staged[p] \in Inodes /\ dir[Target] = staged[p] /\ Target \in Names
    BY DEF Named, IInv, TypeOK, CommitStands, Names
  <1>2. {n \in Names : dir[n] = staged[p]} # {Target}
    BY FS_Singleton DEF Links
  <1>3. PICK k \in Pids : dir[k] = staged[p]
    BY <1>1, <1>2 DEF Names
  <1>4. PICK q \in Procs : pid[q] = k /\ pc[q] \in Keeping /\ staged[q] # None
    BY <1>1, <1>3, OutputAssumption DEF CalmInv, Owned
  <1>5. q # p
    BY <1>4 DEF Keeping
  <1>6. pc[q] \in {"write", "sync", "commit", "rename"} => file[dir[k]].by = q
    BY <1>4 DEF IInv, OwnTemp, Temp
  <1>7. Committed(q)
    BY <1>1, <1>3, <1>4, <1>5, <1>6 DEF CommitStands, Committed, Keeping, AfterCommit
  <1> QED
    BY <1>5, <1>7 DEF Raced

\* What a step of p does to the target: nothing, or p has committed.
SameTarget ==
  /\ dir'[Target] = dir[Target]
  /\ dir[Target] # None => file'[dir[Target]].by = file[dir[Target]].by

CommitsTarget(p) ==
  /\ Committed(p)' /\ staged' = staged /\ file' = file
  /\ dir'[Target] = None \/ CommitStands(p)'

LEMMA TargetStep ==
  ASSUME IInv, Named, NEW p \in Procs, Step(p)
  PROVE  SameTarget \/ CommitsTarget(p)
  <1> USE OutputAssumption DEF IInv, TypeOK, OwnTemp, Named, Goto, Fail, AfterError, Live, Temp, Names
  <1>0. pc[p] \notin {"idle", "done"} => pid[p] \in Pids /\ pid[p] # Target
    OBVIOUS
  <1>1. CASE FirstCheck(p) \/ TempTaken(p) \/ SecondCheck(p)
    BY <1>1 DEF FirstCheck, CheckTarget, TempTaken, SecondCheck, SameTarget
  <1>2. CASE \E i \in Inodes : CreateTemp(p, i)
    BY <1>0, <1>2 DEF CreateTemp, Free, SameTarget
  <1>3. CASE WriteTemp(p)
    BY <1>3 DEF WriteTemp, SameTarget
  <1>4. CASE SyncTemp(p)
    <2>1. dir' = dir /\ file' = [file EXCEPT ![staged[p]].state = "synced"]
      BY <1>4 DEF SyncTemp
    <2> QED
      BY <2>1 DEF SameTarget
  <1>5. CASE Rename(p)
    BY <1>0, <1>5 DEF Rename, CommitsTarget, CommitStands, Committed, AfterCommit
  <1>6. CASE RenameRefused(p) \/ LinkExists(p)
    BY <1>6 DEF RenameRefused, LinkExists, SameTarget
  <1>7. CASE Link(p)
    BY <1>0, <1>7 DEF Link, CommitsTarget, CommitStands, Committed, AfterCommit
  <1>8. CASE RemoveTemp(p) \/ DropTemp(p)
    BY <1>0, <1>8 DEF RemoveTemp, DropTemp, SameTarget
  <1>9. CASE Validate(p) \/ SyncDirectory(p) \/ Withdraw(p)
    BY <1>9 DEF Validate, SyncDirectory, Withdraw, SameTarget
  <1>10. CASE RemoveTarget(p)
    BY <1>10 DEF RemoveTarget, CommitsTarget, Committed, AfterCommit
  <1> HIDE DEF IInv, TypeOK, OwnTemp, Named, Goto, Fail, AfterError, Live, Temp, Names
  <1> QED
    BY <1>1, <1>2, <1>3, <1>4, <1>5, <1>6, <1>7, <1>8, <1>9, <1>10 DEF Step

\* A step moves only its process, which keeps or removes its temporary file.
LEMMA KeepingStep ==
  ASSUME IInv, Named, NEW p \in Procs, Step(p)
  PROVE  /\ staged'[p] # None \/ staged'[p] = staged[p]
         /\ \A q \in Procs \ {p} : staged'[q] = staged[q] /\ outcome'[q] = outcome[q] /\ pc'[q] = pc[q]
         /\ dir'[pid[p]] # None /\ pid[p] \in Pids =>
              \/ pc'[p] \in Keeping /\ staged'[p] # None
              \/ dir'[pid[p]] = dir[pid[p]] /\ pc[p] \notin Keeping
  <1> USE OutputAssumption DEF IInv, TypeOK, Named, Goto, Fail, AfterError, Live, Temp, Names, Keeping
  <1>1. CASE FirstCheck(p) \/ TempTaken(p) \/ SecondCheck(p)
    BY <1>1 DEF FirstCheck, CheckTarget, TempTaken, SecondCheck
  <1>2. CASE \E i \in Inodes : CreateTemp(p, i)
    BY <1>2 DEF CreateTemp
  <1>3. CASE WriteTemp(p) \/ SyncTemp(p)
    BY <1>3 DEF WriteTemp, SyncTemp
  <1>4. CASE Rename(p) \/ RenameRefused(p)
    BY <1>4 DEF Rename, RenameRefused
  <1>5. CASE Link(p) \/ LinkExists(p) \/ RemoveTemp(p)
    BY <1>5 DEF Link, LinkExists, RemoveTemp
  <1>6. CASE Validate(p)
    BY <1>6 DEF Validate
  <1>7. CASE SyncDirectory(p) \/ Withdraw(p)
    BY <1>7 DEF SyncDirectory, Withdraw
  <1>8. CASE RemoveTarget(p) \/ DropTemp(p)
    BY <1>8 DEF RemoveTarget, DropTemp
  <1> HIDE DEF IInv, TypeOK, Named, Goto, Fail, AfterError, Live, Temp, Names, Keeping
  <1> QED
    BY <1>1, <1>2, <1>3, <1>4, <1>5, <1>6, <1>7, <1>8 DEF Step

\* While all is calm, a process only fails because another one has committed.
LEMMA FailsRaced ==
  ASSUME IInv, Named, CalmInv, NEW p \in Procs, Step(p), outcome'[p] \in Errors
  PROVE  Raced(p)
  <1> USE DEF Goto, Errors
  <1>0. outcome[p] \in Errors => Raced(p)
    BY DEF CalmInv, ErrorsRaced
  <1>1. CASE UNCHANGED outcome
    BY <1>0, <1>1
  <1>2. CASE SyncDirectory(p)
    BY <1>2 DEF SyncDirectory, IInv, TypeOK
  <1>3. CASE (FirstCheck(p) \/ SecondCheck(p) \/ RenameRefused(p) \/ LinkExists(p)) /\ ~UNCHANGED outcome
    <2>1. pc[p] \notin AfterCommit /\ dir[Target] # None
      BY <1>3 DEF FirstCheck, SecondCheck, CheckTarget, RenameRefused, LinkExists, TargetIs, AfterCommit
    <2> QED
      BY <2>1, TargetRaces
  <1>4. CASE TempTaken(p)
    <2>1. pc[p] = "create" /\ dir[pid[p]] # None /\ pid[p] \in Pids
      BY <1>4 DEF TempTaken, Temp, IInv, Live
    <2>2. PICK q \in Procs : pid[q] = pid[p] /\ pc[q] \in Keeping
      BY <2>1 DEF CalmInv, Owned
    <2> QED
      BY <2>1, <2>2 DEF IInv, Live, Keeping
  <1>5. CASE SyncTemp(p) /\ ~UNCHANGED outcome
    BY <1>5, OneLink DEF SyncTemp
  <1>6. CASE Validate(p) /\ ~UNCHANGED outcome
    <2>1. pc[p] = "validate"
      BY <1>6 DEF Validate
    <2>2. CASE ~CommitStands(p)
      BY <2>1, <2>2 DEF CalmInv, Undisturbed
    <2>3. CASE CommitStands(p)
      <3>1. dir[Target] # None /\ ~TargetIs(Special) /\ dir[Target] = staged[p]
        BY <2>1, <2>3, OutputAssumption DEF CommitStands, Named, TargetIs
      <3>2. Links(staged[p]) # 1
        BY <1>6, <3>1 DEF Validate
      <3> QED
        BY <2>1, <2>3, <3>2, SecondLinkRaces
    <2> QED
      BY <2>2, <2>3
  <1> HIDE DEF Goto, Errors
  <1>7. Step(p) => \/ UNCHANGED outcome \/ SyncDirectory(p) \/ TempTaken(p) \/ RenameRefused(p)
                   \/ FirstCheck(p) \/ SecondCheck(p) \/ LinkExists(p) \/ SyncTemp(p) \/ Validate(p)
    BY DEF Step, CreateTemp, WriteTemp, Rename, Link, RemoveTemp, Withdraw, RemoveTarget, DropTemp
  <1> QED
    BY <1>1, <1>2, <1>3, <1>4, <1>5, <1>6, <1>7

\* A process that is past its commit has just committed, or has before.
LEMMA CommitStep ==
  ASSUME IInv, NEW p \in Procs, Step(p), pc'[p] \in {"unlink", "validate"}
  PROVE  CommitStands(p)' \/ (pc[p] = "unlink" /\ UNCHANGED <<file, staged>> /\ dir'[Target] = dir[Target])
  <1> USE OutputAssumption DEF IInv, TypeOK, OwnTemp, Live, Temp, Names, Goto
  <1>1. CASE Rename(p) \/ Link(p)
    BY <1>1 DEF Rename, Link, CommitStands
  <1>2. CASE RemoveTemp(p)
    BY <1>2 DEF RemoveTemp
  <1>3. Rename(p) \/ Link(p) \/ RemoveTemp(p)
    BY DEF Step, FirstCheck, CheckTarget, Fail, AfterError, TempTaken, CreateTemp, WriteTemp, SyncTemp,
       SecondCheck, RenameRefused, LinkExists, Validate, SyncDirectory, Withdraw, RemoveTarget, DropTemp
  <1> QED
    BY <1>1, <1>2, <1>3

LEMMA CalmStep ==
  ASSUME IInv, Named, CalmInv, NEW p \in Procs, Step(p)
  PROVE  CalmInv'
  <1>0. /\ \A q \in Procs : (Committed(q) => Committed(q)') /\ (Raced(q) => Raced(q)')
        /\ OwnStep(p) /\ (SameTarget \/ CommitsTarget(p))
        /\ \A q \in Procs \ {p} : staged'[q] = staged[q] /\ outcome'[q] = outcome[q] /\ pc'[q] = pc[q]
    <2>1. [Next]_vars
      BY DEF Next
    <2> QED
      BY <2>1, CommittedStays, RacedStays, StepTidies, TargetStep, KeepingStep
  <1>1. Owned'
    <2> SUFFICES ASSUME NEW k \in Pids, dir'[k] # None
                 PROVE  \E q \in Procs : pid'[q] = k /\ pc'[q] \in Keeping /\ staged'[q] # None
      BY DEF Owned
    <2>1. CASE k = pid[p] /\ pc'[p] \in Keeping /\ staged'[p] # None
      BY <1>0, <2>1 DEF OwnStep
    <2>2. CASE ~(k = pid[p] /\ pc'[p] \in Keeping /\ staged'[p] # None)
      <3>1. dir'[k] = dir[k] /\ (k = pid[p] => pc[p] \notin Keeping)
        BY <1>0, <2>2, KeepingStep DEF OwnStep
      <3>2. PICK q \in Procs : pid[q] = k /\ pc[q] \in Keeping /\ staged[q] # None
        BY <3>1 DEF CalmInv, Owned
      <3>3. q # p
        BY <3>1, <3>2
      <3> QED
        BY <1>0, <3>2, <3>3 DEF OwnStep
    <2> QED
      BY <2>1, <2>2
  <1>2. TargetCommitted'
    BY <1>0 DEF CalmInv, TargetCommitted, SameTarget, CommitsTarget, CommitStands
  <1>3. Undisturbed'
    <2> SUFFICES ASSUME NEW q \in Procs, pc'[q] \in {"unlink", "validate"}
                 PROVE  Raced(q)' \/ CommitStands(q)'
      BY DEF Undisturbed
    <2>1. CASE q = p
      <3>1. CommitStands(p)' \/ (pc[p] = "unlink" /\ UNCHANGED <<file, staged>> /\ dir'[Target] = dir[Target])
        BY <2>1, CommitStep
      <3>2. pc[p] = "unlink" => Raced(p) \/ CommitStands(p)
        BY DEF CalmInv, Undisturbed
      <3> QED
        BY <1>0, <2>1, <3>1, <3>2 DEF CommitStands
    <2>2. CASE q # p
      <3>1. Raced(q) \/ CommitStands(q)
        BY <1>0, <2>2 DEF CalmInv, Undisturbed
      <3>2. CASE CommitsTarget(p)
        BY <2>2, <3>2 DEF CommitsTarget, Raced
      <3>3. CASE SameTarget /\ CommitStands(q)
        <4>1. dir[Target] # None /\ staged'[q] = staged[q]
          BY <1>0, <2>2, <3>3 DEF CommitStands, Named
        <4> QED
          BY <3>3, <4>1 DEF SameTarget, CommitStands
      <3> QED
        BY <1>0, <3>1, <3>2, <3>3
    <2> QED
      BY <2>1, <2>2
  <1>4. ErrorsRaced'
    <2> SUFFICES ASSUME NEW q \in Procs, outcome'[q] \in Errors PROVE Raced(q)'
      BY DEF ErrorsRaced
    <2>1. Raced(q)
      BY <1>0, FailsRaced DEF CalmInv, ErrorsRaced
    <2> QED
      BY <1>0, <2>1
  <1> QED
    BY <1>1, <1>2, <1>3, <1>4 DEF CalmInv

LEMMA RaceNext == IInv /\ RaceInv /\ [Next]_vars => RaceInv'
  <1> SUFFICES ASSUME IInv, RaceInv, [Next]_vars PROVE RaceInv'
    OBVIOUS
  <1>0. Named'
    BY NamedNext DEF RaceInv
  <1>1. ASSUME NEW p \in Procs, Step(p), Calm' PROVE CalmInv'
    <2>1. Calm
      <3>1. UNCHANGED bounds
        BY <1>1 DEF Step, FirstCheck, CheckTarget, TempTaken, CreateTemp, WriteTemp, SyncTemp,
           SecondCheck, Rename, RenameRefused, Link, LinkExists, RemoveTemp, Validate, SyncDirectory,
           Withdraw, RemoveTarget, DropTemp
      <3> QED
        BY <1>1, <3>1 DEF Calm, bounds
    <2> QED
      BY <1>1, <2>1, CalmStep DEF RaceInv
  <1>2. ASSUME NEW p \in Procs, CallFails(p) \/ GuardFails(p) \/ Crash(p) PROVE ~Calm'
    BY <1>2 DEF CallFails, GuardFails, Crash, Calm, IInv, TypeOK
  <1>3. ASSUME NEW kind \in {Old, Special}, NEW i \in Inodes, Appear(kind, i) PROVE ~Calm'
    BY <1>3 DEF Appear, Calm, IInv, TypeOK
  <1>4. ASSUME NEW p \in Procs, NEW f \in BOOLEAN, NEW k \in Pids, Start(p, f, k), Calm' PROVE CalmInv'
    <2>1. /\ UNCHANGED <<dir, file, staged, outcome, bounds>> /\ pc[p] = "idle"
          /\ \A q \in Procs : pc'[q] = pc[q] \/ (pc[q] = "idle" /\ pc'[q] = "check")
          /\ \A q \in Procs : pc[q] # "idle" => pid'[q] = pid[q]
      BY <1>4 DEF Start, Goto, IInv, TypeOK
    <2>2. CalmInv /\ \A q \in Procs : Committed(q)' <=> Committed(q)
      BY <1>4, <2>1 DEF RaceInv, Calm, bounds, Committed, AfterCommit
    <2>3. Owned'
      BY <2>1, <2>2 DEF CalmInv, Owned, Keeping
    <2>4. TargetCommitted' /\ ErrorsRaced' /\ \A q \in Procs : Raced(q)' <=> Raced(q)
      BY <2>1, <2>2 DEF CalmInv, TargetCommitted, ErrorsRaced, Raced
    <2>5. Undisturbed'
      BY <2>1, <2>2, <2>4 DEF CalmInv, Undisturbed, CommitStands
    <2> QED
      BY <2>3, <2>4, <2>5 DEF CalmInv
  <1>5. ASSUME UNCHANGED vars, Calm' PROVE CalmInv'
    BY <1>5 DEF vars, bounds, RaceInv, Calm, CalmInv, Owned, TargetCommitted, Undisturbed, ErrorsRaced, Raced,
       Committed, CommitStands
  <1> QED
    BY <1>0, <1>1, <1>2, <1>3, <1>4, <1>5 DEF Next, RaceInv

LEMMA RaceInit == Init => RaceInv
  BY OutputAssumption DEF Init, RaceInv, Named, Names, CalmInv, Owned, TargetCommitted, Undisturbed,
     ErrorsRaced, Errors

\* "Target exists" and every other error, when no call failed, nothing was
\* killed and nobody else made a file, is about another invocation that has
\* committed, or, once there has been an error, that has ended: write_atomic
\* never trips over its own files.
THEOREM ErrorsHaveCause == Spec => []ErrorsAreRaces
  <1>1. IInv /\ RaceInv => ErrorsAreRaces
    BY DEF IInv, TypeOK, RaceInv, Calm, CalmInv, ErrorsRaced, Raced, Committed, AfterCommit, ErrorsAreRaces
  <1> QED
    BY <1>1, Initially, IInvNext, RaceInit, RaceNext, PTL DEF Spec

(***************************************************************************)
(* The slot. As long as nobody asks for --force nothing takes the place of *)
(* a committed file but its own withdrawal, so each step is one of         *)
(* OutputSlot or none. Whether somebody has asked is remembered in force.  *)
(***************************************************************************)

Holding == {"unlink", "validate", "withdraw", "remove", "syncdir"}

Holds(p) == dir[Target] = staged[p] /\ staged[p] \in Inodes /\ file[staged[p]].by = p

SlotInv ==
  /\ \A p \in Procs : force[p] = FALSE
  /\ \A p \in Procs : pc[p] \in Holding => Holds(p)
  /\ \A p \in Procs : outcome[p] = "ok" => pc[p] = "done"

SlotWhileUnforced ==
  /\ \A p \in Procs : pc[p] = "idle" => force[p] = FALSE
  /\ Unforced => SlotInv

Content == IF dir[Target] = None THEN None ELSE file[dir[Target]].by

Succeeded == {p \in Procs : outcome[p] = "ok"}

\* A step leaves the target and its bytes alone, or is a commit, a
\* withdrawal or the creation of a file by somebody else.
LEMMA SlotMoves ==
  ASSUME IInv, SlotInv, [Next]_vars
  PROVE  \/ SameTarget
         \/ \E p \in Procs : Link(p) \/ RemoveTarget(p)
         \/ \E kind \in {Old, Special}, i \in Inodes : Appear(kind, i)
  <1> USE OutputAssumption DEF IInv, TypeOK, OwnTemp, Live, Temp, Names, Goto, SameTarget
  <1>0. \A p \in Procs : pc[p] \notin {"idle", "done"} => pid[p] \in Pids /\ pid[p] # Target
    OBVIOUS
  <1>1. ASSUME NEW p \in Procs, \E i \in Inodes : CreateTemp(p, i) PROVE SameTarget
    BY <1>0, <1>1 DEF CreateTemp, Free
  <1>2. ASSUME NEW p \in Procs, WriteTemp(p) PROVE SameTarget
    BY <1>2 DEF WriteTemp
  <1>3. ASSUME NEW p \in Procs, SyncTemp(p) PROVE SameTarget
    <2>1. dir' = dir /\ file' = [file EXCEPT ![staged[p]].state = "synced"]
      BY <1>3 DEF SyncTemp
    <2> QED
      BY <2>1
  <1>4. ASSUME NEW p \in Procs, Rename(p) PROVE FALSE
    BY <1>4 DEF Rename, SlotInv
  <1>5. ASSUME NEW p \in Procs, RemoveTemp(p) \/ DropTemp(p) PROVE SameTarget
    BY <1>0, <1>5 DEF RemoveTemp, DropTemp
  <1>6. ASSUME UNCHANGED <<dir, file>> PROVE SameTarget
    BY <1>6
  <1> HIDE DEF IInv, TypeOK, OwnTemp, Live, Temp, Names, Goto, SameTarget
  <1>7. \/ UNCHANGED <<dir, file>>
        \/ \E p \in Procs : \/ \E i \in Inodes : CreateTemp(p, i)
                            \/ WriteTemp(p) \/ SyncTemp(p) \/ Rename(p) \/ RemoveTemp(p) \/ DropTemp(p)
                            \/ Link(p) \/ RemoveTarget(p)
        \/ \E kind \in {Old, Special}, i \in Inodes : Appear(kind, i)
    BY DEF Next, Step, FirstCheck, CheckTarget, TempTaken, SecondCheck, RenameRefused, LinkExists,
       Validate, SyncDirectory, Withdraw, CallFails, GuardFails, Crash, Start, vars
  <1> QED
    BY <1>1, <1>2, <1>3, <1>4, <1>5, <1>6, <1>7

\* What a commit, a withdrawal and a stranger do to the slot.
LEMMA SlotChanges ==
  ASSUME IInv, SlotInv, NEW p \in Procs
  PROVE  /\ Link(p) => Content = None /\ Content' = p /\ Holds(p)' /\ UNCHANGED <<file, staged>>
         /\ RemoveTarget(p) => Content = p /\ Content' = None /\ pc'[p] \notin Holding
  BY OutputAssumption DEF IInv, TypeOK, OwnTemp, Live, Temp, Names, Goto, Link, RemoveTarget, SlotInv,
     Holds, Holding, Content

\* Who holds the target has held it before or has just made the link; who
\* reports success is done, and reports it once.
SlotLocal(q) ==
  /\ force'[q] = FALSE
  /\ pc'[q] \in Holding => (pc[q] \in Holding /\ staged'[q] = staged[q]) \/ Link(q)
  /\ outcome'[q] = "ok" => pc'[q] = "done"
  /\ SyncDirectory(q) \/ (outcome'[q] = "ok" <=> outcome[q] = "ok")

LEMMA SlotLocals ==
  ASSUME Unforced', IInv, SlotInv, [Next]_vars, NEW q \in Procs
  PROVE  SlotLocal(q)
  <1>0. force' \in [Procs -> BOOLEAN] => force'[q] = FALSE
    BY DEF Unforced
  <1> USE <1>0 DEF IInv, TypeOK, Goto, Fail, AfterError, Errors, Live, Holding, SlotInv, SlotLocal
  <1>1. ASSUME NEW p \in Procs, FirstCheck(p) \/ TempTaken(p) \/ SecondCheck(p) PROVE SlotLocal(q)
    BY <1>1 DEF FirstCheck, CheckTarget, TempTaken, SecondCheck
  <1>2. ASSUME NEW p \in Procs, NEW i \in Inodes, CreateTemp(p, i) PROVE SlotLocal(q)
    BY <1>2 DEF CreateTemp
  <1>3. ASSUME NEW p \in Procs, WriteTemp(p) \/ SyncTemp(p) PROVE SlotLocal(q)
    BY <1>3 DEF WriteTemp, SyncTemp
  <1>4. ASSUME NEW p \in Procs, Rename(p) \/ RenameRefused(p) \/ LinkExists(p) PROVE SlotLocal(q)
    BY <1>4 DEF Rename, RenameRefused, LinkExists
  <1>5. ASSUME NEW p \in Procs, Link(p) PROVE SlotLocal(q)
    BY <1>5 DEF Link
  <1>6. ASSUME NEW p \in Procs, RemoveTemp(p) \/ Withdraw(p) PROVE SlotLocal(q)
    BY <1>6 DEF RemoveTemp, Withdraw
  <1>7. ASSUME NEW p \in Procs, Validate(p) PROVE SlotLocal(q)
    BY <1>7 DEF Validate
  <1>8. ASSUME NEW p \in Procs, SyncDirectory(p) PROVE SlotLocal(q)
    BY <1>8 DEF SyncDirectory
  <1>9. ASSUME NEW p \in Procs, RemoveTarget(p) \/ DropTemp(p) PROVE SlotLocal(q)
    BY <1>9 DEF RemoveTarget, DropTemp
  <1>10. ASSUME NEW p \in Procs, CallFails(p) PROVE SlotLocal(q)
    BY <1>10 DEF CallFails
  <1>11. ASSUME NEW p \in Procs, GuardFails(p) \/ Crash(p) PROVE SlotLocal(q)
    BY <1>11 DEF GuardFails, Crash
  <1>12. ASSUME NEW p \in Procs, NEW f \in BOOLEAN, NEW k \in Pids, Start(p, f, k) PROVE SlotLocal(q)
    BY <1>12 DEF Start
  <1>13. ASSUME NEW kind \in {Old, Special}, NEW i \in Inodes, Appear(kind, i) PROVE SlotLocal(q)
    BY <1>13 DEF Appear
  <1>14. CASE UNCHANGED vars
    BY <1>14 DEF vars
  <1> HIDE DEF IInv, TypeOK, Goto, Fail, AfterError, Errors, Live, Holding, SlotInv, SlotLocal
  <1> QED
    BY <1>1, <1>2, <1>3, <1>4, <1>5, <1>6, <1>7, <1>8, <1>9, <1>10, <1>11, <1>12, <1>13, <1>14 DEF Next, Step

LEMMA SlotInvNext == Unforced' /\ IInv /\ SlotInv /\ [Next]_vars => SlotInv'
  <1> SUFFICES ASSUME Unforced', IInv, SlotInv, [Next]_vars PROVE SlotInv'
    OBVIOUS
  <1>1. ASSUME NEW q \in Procs, pc'[q] \in Holding PROVE Holds(q)'
    <2>1. CASE Link(q)
      BY <2>1, SlotChanges
    <2>2. CASE ~Link(q)
      <3>1. Holds(q) /\ pc[q] \in Holding /\ staged'[q] = staged[q]
        BY <1>1, <2>2, SlotLocals DEF SlotInv, SlotLocal
      <3>2. Content = q /\ dir[Target] # None
        BY <3>1, OutputAssumption DEF Holds, Content
      <3>3. CASE SameTarget
        BY <3>1, <3>2, <3>3 DEF Holds, SameTarget
      <3>4. ASSUME NEW p \in Procs, Link(p) \/ RemoveTarget(p) PROVE FALSE
        <4>1. Content = p
          BY <3>2, <3>4, SlotChanges, OutputAssumption
        <4>2. Link(p)
          BY <1>1, <3>2, <3>4, <4>1, SlotChanges
        <4> QED
          BY <3>2, <4>2, SlotChanges, OutputAssumption
      <3>5. ASSUME NEW kind \in {Old, Special}, NEW i \in Inodes, Appear(kind, i) PROVE FALSE
        BY <3>2, <3>5 DEF Appear
      <3> QED
        BY <3>3, <3>4, <3>5, SlotMoves
    <2> QED
      BY <2>1, <2>2
  <1> QED
    BY <1>1, SlotLocals DEF SlotInv, SlotLocal

LEMMA SlotInit == Init => SlotWhileUnforced
  BY DEF Init, SlotWhileUnforced, SlotInv, Holding

\* A flag is set when an invocation starts, and never taken back.
LEMMA ForceStays ==
  ASSUME IInv, SlotWhileUnforced, [Next]_vars, NEW q \in Procs
  PROVE  /\ force'[q] = FALSE => force[q] = FALSE
         /\ pc'[q] = "idle" => force'[q] = FALSE
  <1> USE DEF IInv, TypeOK, SlotWhileUnforced
  <1>1. ASSUME NEW p \in Procs, NEW f \in BOOLEAN, NEW k \in Pids, Start(p, f, k)
        PROVE  pc[p] = "idle" /\ pc'[p] # "idle" /\ \A r \in Procs \ {p} : force'[r] = force[r] /\ pc'[r] = pc[r]
    BY <1>1 DEF Start, Goto
  <1>2. ASSUME NEW p \in Procs, Step(p) PROVE UNCHANGED force /\ (pc'[q] = "idle" => pc[q] = "idle")
    <2> USE DEF Goto, Fail, AfterError
    <2>1. CASE FirstCheck(p) \/ TempTaken(p) \/ SecondCheck(p)
      BY <2>1 DEF FirstCheck, CheckTarget, TempTaken, SecondCheck
    <2>2. CASE (\E i \in Inodes : CreateTemp(p, i)) \/ WriteTemp(p) \/ SyncTemp(p)
      BY <2>2 DEF CreateTemp, WriteTemp, SyncTemp
    <2>3. CASE Rename(p) \/ RenameRefused(p) \/ Link(p) \/ LinkExists(p) \/ RemoveTemp(p)
      BY <2>3 DEF Rename, RenameRefused, Link, LinkExists, RemoveTemp
    <2>4. CASE Validate(p)
      BY <2>4 DEF Validate
    <2>5. CASE SyncDirectory(p) \/ Withdraw(p) \/ RemoveTarget(p) \/ DropTemp(p)
      BY <2>5 DEF SyncDirectory, Withdraw, RemoveTarget, DropTemp
    <2> QED
      BY <1>2, <2>1, <2>2, <2>3, <2>4, <2>5 DEF Step
  <1>3. ASSUME NEW p \in Procs, CallFails(p) \/ GuardFails(p) \/ Crash(p)
        PROVE  UNCHANGED force /\ (pc'[q] = "idle" => pc[q] = "idle")
    BY <1>3 DEF CallFails, GuardFails, Crash, Fail, AfterError, Live
  <1>4. ASSUME NEW kind \in {Old, Special}, NEW i \in Inodes, Appear(kind, i) PROVE UNCHANGED <<force, pc>>
    BY <1>4 DEF Appear
  <1> QED
    BY <1>1, <1>2, <1>3, <1>4 DEF Next, vars

LEMMA SlotStep ==
  ASSUME Unforced', IInv, SlotInv, [Next]_vars
  PROVE  [Abstract!Next]_(Abstract!vars)
  <1>1. ASSUME NEW p \in Procs, SyncDirectory(p) PROVE Abstract!Next
    <2>1. Holds(p) /\ UNCHANGED <<dir, file>> /\ outcome' = [outcome EXCEPT ![p] = "ok"]
      BY <1>1 DEF SyncDirectory, Goto, SlotInv, Holding
    <2>2. Content = p /\ Content' = Content
      BY <2>1, OutputAssumption DEF Holds, Content
    <2>3. Succeeded' = Succeeded \cup {p}
      BY <2>1 DEF Succeeded, IInv, TypeOK
    <2>4. Abstract!Acknowledge(p)
      BY <2>2, <2>3 DEF Abstract!Acknowledge, Content, Succeeded
    <2> QED
      BY <2>4 DEF Abstract!Next
  <1>2. ASSUME \A p \in Procs : ~SyncDirectory(p) PROVE Succeeded' = Succeeded
    BY <1>2, SlotLocals DEF SlotLocal, Succeeded
  <1>3. ASSUME NEW p \in Procs, Link(p), Succeeded' = Succeeded PROVE Abstract!Next
    <2>1. Content = None /\ Content' = p
      BY <1>3, SlotChanges
    <2>2. Abstract!Fill(p)
      BY <1>3, <2>1 DEF Abstract!Fill, Content, Succeeded
    <2> QED
      BY <2>2 DEF Abstract!Next
  <1>4. ASSUME NEW p \in Procs, RemoveTarget(p), Succeeded' = Succeeded PROVE Abstract!Next
    <2>1. Content = p /\ Content' = None
      BY <1>4, SlotChanges
    <2>2. p \notin Succeeded
      BY <1>4 DEF RemoveTarget, Goto, SlotInv, Succeeded
    <2>3. Abstract!TakeBack(p)
      BY <1>4, <2>1, <2>2 DEF Abstract!TakeBack, Content, Succeeded
    <2> QED
      BY <2>3 DEF Abstract!Next
  <1>5. ASSUME NEW kind \in {Old, Special}, NEW i \in Inodes, Appear(kind, i), Succeeded' = Succeeded
        PROVE  Abstract!Next
    <2>1. Content = None /\ Content' = kind
      BY <1>5, OutputAssumption DEF Appear, Content, IInv, TypeOK, Names
    <2>2. Abstract!Fill(kind)
      BY <1>5, <2>1 DEF Abstract!Fill, Content, Succeeded
    <2> QED
      BY <2>2 DEF Abstract!Next
  <1>6. ASSUME SameTarget, Succeeded' = Succeeded PROVE UNCHANGED Abstract!vars
    <2>1. Content' = Content
      BY <1>6 DEF SameTarget, Content
    <2> QED
      BY <1>6, <2>1 DEF Abstract!vars, Content, Succeeded
  <1> QED
    BY <1>1, <1>2, <1>3, <1>4, <1>5, <1>6, SlotMoves

\* What holds as long as nobody has asked for --force still holds then.
LEMMA SlotWhileUnforcedNext == IInv /\ SlotWhileUnforced /\ [Next]_vars => SlotWhileUnforced'
  <1> SUFFICES ASSUME IInv, SlotWhileUnforced, [Next]_vars PROVE SlotWhileUnforced'
    OBVIOUS
  <1>1. \A q \in Procs : pc'[q] = "idle" => force'[q] = FALSE
    BY ForceStays
  <1>2. ASSUME Unforced' PROVE SlotInv'
    <2>1. Unforced
      BY <1>2, ForceStays, TypeNext DEF Unforced, IInv, TypeOK
    <2> QED
      BY <1>2, <2>1, SlotInvNext DEF SlotWhileUnforced
  <1> QED
    BY <1>1, <1>2 DEF SlotWhileUnforced

\* As long as nobody asks for --force, write_atomic implements the slot: one
\* invocation or a stranger fills it, nobody else's content is taken back or
\* replaced, and only who holds it reports success.
THEOREM OutputIsSlot == Spec => ImplementsOutputSlot
  <1>1. Init => Abstract!Init
    BY OutputAssumption DEF Init, Abstract!Init, Names
  <1>2. IInv /\ SlotWhileUnforced /\ [Next]_vars => [Unforced' => Abstract!Next]_(Abstract!vars)
    <2> SUFFICES ASSUME IInv, SlotWhileUnforced, [Next]_vars, Unforced' PROVE [Abstract!Next]_(Abstract!vars)
      OBVIOUS
    <2>1. Unforced
      BY ForceStays, TypeNext DEF Unforced, IInv, TypeOK
    <2> QED
      BY <2>1, SlotStep DEF SlotWhileUnforced
  <1> QED
    BY <1>1, <1>2, Initially, IInvNext, SlotInit, SlotWhileUnforcedNext, PTL
    DEF Spec, ImplementsOutputSlot

\* Where nobody ever does, that is all there is to it: write_atomic refines
\* OutputSlot.
THEOREM UnforcedRefinesSlot == ~MayForce => (Spec => Abstract!Spec)
  <1> SUFFICES ASSUME ~MayForce PROVE Spec => Abstract!Spec
    OBVIOUS
  <1>1. Init => Unforced
    BY DEF Init, Unforced
  <1>2. IInv /\ Unforced /\ [Next]_vars => Unforced'
    <2> SUFFICES ASSUME IInv, Unforced, [Next]_vars, NEW q \in Procs PROVE ~force'[q]
      BY DEF Unforced
    <2>1. ASSUME NEW p \in Procs, NEW f \in BOOLEAN, NEW k \in Pids, Start(p, f, k) PROVE ~force'[q]
      BY <2>1 DEF Start, Unforced, IInv, TypeOK
    <2>2. CASE UNCHANGED force
      BY <2>2 DEF Unforced
    <2> QED
      BY <2>1, <2>2 DEF Next, Step, FirstCheck, CheckTarget, CreateTemp, TempTaken, WriteTemp, SyncTemp,
         SecondCheck, Rename, RenameRefused, Link, LinkExists, RemoveTemp, Validate, SyncDirectory,
         Withdraw, RemoveTarget, DropTemp, CallFails, GuardFails, Crash, Appear, Goto, Fail, vars
  <1>3. Unforced' /\ [Unforced' => Abstract!Next]_(Abstract!vars) => [Abstract!Next]_(Abstract!vars)
    OBVIOUS
  <1> QED
    BY <1>1, <1>2, <1>3, Initially, IInvNext, OutputIsSlot, PTL
    DEF Spec, ImplementsOutputSlot, Abstract!Spec
=============================================================================
