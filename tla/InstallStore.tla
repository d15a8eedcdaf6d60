---------------------------- MODULE InstallStore ----------------------------
(***************************************************************************)
(* The Linux content-addressed installation store                          *)
(* (crates/invokrum-install-linux/src/store.rs).                           *)
(*                                                                         *)
(* Several installer processes share one store directory:                  *)
(*                                                                         *)
(*   .locks/<subject>.lock          created exclusively, removed by Drop   *)
(*   .staging/<subject>.<attempt>/  private quarantine trees               *)
(*   sha256/<subject>/              published trees                        *)
(*                                                                         *)
(* One action is one filesystem step of install_bundle_with_publisher that *)
(* another process, a kill or a power loss can separate from the next.     *)
(* The files of a subject are determined by the subject (it is the digest  *)
(* of the manifest), so a file has no contents here, only how far it got   *)
(* to the disk; what differs between two requests for one subject is the   *)
(* publisher evidence of the installation record.                          *)
(***************************************************************************)
EXTENDS Integers, FiniteSets

CONSTANTS
  Procs,            \* installer processes sharing the store
  Subjects,         \* bundle subjects (manifest digests)
  Reserved,         \* subjects whose bundle uses the reserved record path
  Publishers,       \* publisher identities, Unsigned among them
  Unsigned,         \* no publisher: a v1 "not-provided" record
  Nobody,           \* no process
  NoEvidence,       \* no installation record
  NumFiles,         \* files of a bundle, written in path order
  MaxAttempts,      \* MAX_STAGING_ATTEMPTS
  LiveLockRemoval,  \* may the host remove a lock that is still held?
  MaxRequests,      \* bound: requests per process
  MaxCrashes,       \* bound: kills of a process inside a request
  MaxFaults,        \* bound: failing filesystem calls
  MaxLosses         \* bound: power losses

ASSUME ConstantsAssumption ==
  /\ Subjects # {}
  /\ Reserved \subseteq Subjects
  /\ Unsigned \in Publishers
  /\ Nobody \notin Procs
  /\ NumFiles \in Nat \ {0}
  /\ MaxAttempts \in Nat
  /\ LiveLockRemoval \in BOOLEAN
  /\ MaxRequests \in Nat
  /\ MaxCrashes \in Nat
  /\ MaxFaults \in Nat
  /\ MaxLosses \in Nat

Files    == 1 .. NumFiles
Attempts == 0 .. MaxAttempts - 1

\* The part of an installation record that two requests can disagree on.
Evidence == [publisher : Publishers, subject : Subjects]

ASSUME EvidenceAssumption == NoEvidence \notin Evidence

\* "dirty" is written and not yet synced.
FileState == {"none", "dirty", "synced"}

\* owner is a ghost: the process that created the tree; Nobody for no tree.
Tree == [owner    : Procs \cup {Nobody},
         files    : [Files -> FileState],
         evidence : Evidence \cup {NoEvidence},
         sealed   : BOOLEAN]

EmptyTree(p) == [owner    |-> p,
                 files    |-> [f \in Files |-> "none"],
                 evidence |-> NoEvidence,
                 sealed   |-> FALSE]

NoTree == EmptyTree(Nobody)

Written(t)  == \A f \in Files : t.files[f] # "none"
Complete(t) == (\A f \in Files : t.files[f] = "synced") /\ t.sealed

VARIABLES
  \* the store directory
  locks,      \* the creator of each subject's lock file, or Nobody
  staging,    \* quarantine trees by subject and attempt
  final,      \* published trees by subject
  durable,    \* has sha256/ been synced since the subject appeared in it?
  \* each process's activation of install_bundle_with_publisher
  pc, subject, evidence, attempt, cursor, outcome,
  \* observations and bounds
  receipts,   \* every receipt returned to a caller
  requests, crashes, faults, losses

disk    == <<locks, staging, final, durable>>
request == <<subject, evidence>>
local   == <<request, attempt, cursor>>
budget  == <<requests, crashes, faults, losses>>
vars    == <<disk, pc, local, outcome, receipts, budget>>

Receipt == [by : Procs, nth : 1 .. MaxRequests, subject : Subjects,
            evidence : Evidence, reused : BOOLEAN]

Building == {"write", "sync", "record", "seal", "rename"}
Critical == Building \cup {"check", "reuse", "stage", "reverify", "sync_root",
                           "confirm", "cleanup", "release"}
Refusals == {"StagingUnavailable", "MaterializationConflict",
             "StageVerification", "RecordMismatch",
             "ExistingInstallationMismatch", "Io"}

TypeOK ==
  /\ locks \in [Subjects -> Procs \cup {Nobody}]
  /\ staging \in [Subjects -> [Attempts -> Tree]]
  /\ final \in [Subjects -> Tree]
  /\ durable \in [Subjects -> BOOLEAN]
  /\ pc \in [Procs -> {"idle", "lock"} \cup Critical]
  /\ subject \in [Procs -> Subjects]
  /\ evidence \in [Procs -> Evidence]
  /\ attempt \in [Procs -> 0 .. MaxAttempts]
  /\ cursor \in [Procs -> 1 .. NumFiles + 1]
  /\ outcome \in [Procs -> {"none", "fresh", "reused"} \cup Refusals]
  /\ receipts \subseteq Receipt
  /\ requests \in [Procs -> 0 .. MaxRequests]
  /\ crashes \in 0 .. MaxCrashes
  /\ faults \in 0 .. MaxFaults
  /\ losses \in 0 .. MaxLosses

\* What an idle process last worked on does not matter.
AnySubject == CHOOSE s \in Subjects : TRUE

Init ==
  /\ locks = [s \in Subjects |-> Nobody]
  /\ staging = [s \in Subjects |-> [a \in Attempts |-> NoTree]]
  /\ final = [s \in Subjects |-> NoTree]
  /\ durable = [s \in Subjects |-> FALSE]
  /\ pc = [p \in Procs |-> "idle"]
  /\ subject = [p \in Procs |-> AnySubject]
  /\ evidence = [p \in Procs |-> [publisher |-> Unsigned, subject |-> AnySubject]]
  /\ attempt = [p \in Procs |-> 0]
  /\ cursor = [p \in Procs |-> 1]
  /\ outcome = [p \in Procs |-> "none"]
  /\ receipts = {}
  /\ requests = [p \in Procs |-> 0]
  /\ crashes = 0
  /\ faults = 0
  /\ losses = 0

-----------------------------------------------------------------------------
(* Helpers of the steps.                                                   *)

Goto(p, from, to) == pc[p] = from /\ pc' = [pc EXCEPT ![p] = to]

\* A filesystem call fails; MaxFaults bounds how often.
Fault == faults < MaxFaults /\ faults' = faults + 1 /\ UNCHANGED <<requests, crashes, losses>>

Sets(p, result) == outcome' = [outcome EXCEPT ![p] = result]

\* The tree at the process's quarantine path, whoever created it.
Quarantine(p) == staging[subject[p]][attempt[p]]

SetQuarantine(p, tree) ==
  staging' = [staging EXCEPT ![subject[p]][attempt[p]] = tree]

SetFile(t, f, state) == [t EXCEPT !.files = [t.files EXCEPT ![f] = state]]

\* Mutant: the installation record is not compared.
MatchesAnyRecord(p) == Written(final[subject[p]])

\* verify_existing_installation: exact file set and byte-exact record.
MatchesExisting(p) ==
  /\ Written(final[subject[p]])
  /\ final[subject[p]].evidence = evidence[p]

-----------------------------------------------------------------------------
(* Entering a request: checks, directories, subject lock.                  *)

\* The caller starts an install that passes the checks before the lock.
Submit(p, s, e) ==
  /\ Goto(p, "idle", "lock")
  /\ requests[p] < MaxRequests
  /\ e.subject = s
  /\ s \notin Reserved
  /\ requests' = [requests EXCEPT ![p] = @ + 1]
  /\ subject' = [subject EXCEPT ![p] = s]
  /\ evidence' = [evidence EXCEPT ![p] = e]
  /\ UNCHANGED <<disk, attempt, cursor, outcome, receipts, crashes, faults, losses>>

\* PublisherSubjectMismatch, ReservedMetadataPath.
Refuse(p, s, e) ==
  /\ pc[p] = "idle"
  /\ requests[p] < MaxRequests
  /\ e.publisher = Unsigned => e.subject = s
  /\ e.subject # s \/ s \in Reserved
  /\ requests' = [requests EXCEPT ![p] = @ + 1]
  /\ UNCHANGED <<disk, pc, local, outcome, receipts, crashes, faults, losses>>

\* Mutant: wait for the lock instead of refusing.
SubjectLockedWaits(p) ==
  /\ pc[p] = "lock"
  /\ locks[subject[p]] # Nobody
  /\ UNCHANGED vars

\* SubjectLocked: the lock file exists, whoever left it there.
SubjectLocked(p) ==
  /\ Goto(p, "lock", "idle")
  /\ locks[subject[p]] # Nobody
  /\ UNCHANGED <<disk, local, outcome, receipts, budget>>

\* Mutant: the lock file is opened without create_new.
AcquireLockShared(p) ==
  /\ Goto(p, "lock", "check")
  /\ locks' = [locks EXCEPT ![subject[p]] = p]
  /\ UNCHANGED <<staging, final, durable, local, outcome, receipts, budget>>

AcquireLock(p) ==
  /\ Goto(p, "lock", "check")
  /\ locks[subject[p]] = Nobody
  /\ locks' = [locks EXCEPT ![subject[p]] = p]
  /\ UNCHANGED <<staging, final, durable, local, outcome, receipts, budget>>

\* The lock file is created but syncing it, or .locks/, fails: the early
\* return leaves it behind with no guard to remove it.
AcquireLockFails(p) ==
  /\ Goto(p, "lock", "idle")
  /\ Fault
  /\ locks[subject[p]] = Nobody
  /\ locks' = [locks EXCEPT ![subject[p]] = p]
  /\ UNCHANGED <<staging, final, durable, local, outcome, receipts>>

\* Checking .locks/, or opening the lock file, fails.
OpenLockFails(p) ==
  /\ Goto(p, "lock", "idle")
  /\ Fault
  /\ UNCHANGED <<disk, local, outcome, receipts>>

-----------------------------------------------------------------------------
(* Holding the lock: reuse what is published, or quarantine a tree.        *)

FindPublished(p) ==
  /\ Goto(p, "check", "reuse")
  /\ final[subject[p]] # NoTree
  /\ UNCHANGED <<disk, local, outcome, receipts, budget>>

FindAbsent(p) ==
  /\ Goto(p, "check", "stage")
  /\ final[subject[p]] = NoTree
  /\ UNCHANGED <<disk, local, outcome, receipts, budget>>

\* Looking for the subject, or a quarantine mkdir, fails: nothing is created.
LookupFails(p) ==
  /\ pc[p] \in {"check", "stage"}
  /\ Fault
  /\ pc' = [pc EXCEPT ![p] = "release"]
  /\ Sets(p, "Io")
  /\ UNCHANGED <<disk, local, receipts>>

\* Mutant: a reused installation is reported as a new one.
ReuseAsFresh(p) ==
  /\ Goto(p, "reuse", "release")
  /\ Sets(p, IF MatchesExisting(p) THEN "fresh" ELSE "ExistingInstallationMismatch")
  /\ UNCHANGED <<disk, local, receipts, budget>>

\* Neither branch syncs anything.
Reuse(p) ==
  /\ Goto(p, "reuse", "release")
  /\ Sets(p, IF MatchesExisting(p) THEN "reused" ELSE "ExistingInstallationMismatch")
  /\ UNCHANGED <<disk, local, receipts, budget>>

\* Mutant: the first taken name is an error.
SkipTakenStagingGivesUp(p) ==
  /\ Goto(p, "stage", "release")
  /\ attempt[p] < MaxAttempts
  /\ Quarantine(p) # NoTree
  /\ Sets(p, "StagingUnavailable")
  /\ UNCHANGED <<disk, local, receipts, budget>>

\* mkdir finds the name taken: try the next attempt.
SkipTakenStaging(p) ==
  /\ pc[p] = "stage"
  /\ attempt[p] < MaxAttempts
  /\ Quarantine(p) # NoTree
  /\ attempt' = [attempt EXCEPT ![p] = @ + 1]
  /\ UNCHANGED <<disk, pc, request, cursor, outcome, receipts, budget>>

CreateStaging(p) ==
  /\ Goto(p, "stage", "write")
  /\ attempt[p] < MaxAttempts
  /\ Quarantine(p) = NoTree
  /\ SetQuarantine(p, EmptyTree(p))
  /\ UNCHANGED <<locks, final, durable, local, outcome, receipts, budget>>

\* Created, but its mode cannot be set or .staging/ not synced: the early
\* return comes before the code that cleans up.
CreateStagingFails(p) ==
  /\ Goto(p, "stage", "release")
  /\ Fault
  /\ attempt[p] < MaxAttempts
  /\ Quarantine(p) = NoTree
  /\ SetQuarantine(p, EmptyTree(p))
  /\ Sets(p, "Io")
  /\ UNCHANGED <<locks, final, durable, local, receipts>>

StagingUnavailable(p) ==
  /\ Goto(p, "stage", "release")
  /\ attempt[p] = MaxAttempts
  /\ Sets(p, "StagingUnavailable")
  /\ UNCHANGED <<disk, local, receipts, budget>>

-----------------------------------------------------------------------------
(* Building the quarantine tree (stage_bundle).                            *)

\* create_new, then write_all.
WriteFile(p) ==
  /\ Goto(p, "write", "sync")
  /\ cursor[p] \in Files
  /\ Quarantine(p) # NoTree
  /\ Quarantine(p).files[cursor[p]] = "none"
  /\ SetQuarantine(p, SetFile(Quarantine(p), cursor[p], "dirty"))
  /\ UNCHANGED <<locks, final, durable, local, outcome, receipts, budget>>

\* The file exists already, or the directory is gone.
MaterializationConflict(p) ==
  /\ Goto(p, "write", "cleanup")
  /\ cursor[p] \in Files
  /\ Quarantine(p) = NoTree \/ Quarantine(p).files[cursor[p]] # "none"
  /\ Sets(p, "MaterializationConflict")
  /\ UNCHANGED <<disk, local, receipts, budget>>

\* Mutant: no sync_all.
SyncFileNever(p) ==
  /\ Goto(p, "sync", "write")
  /\ Quarantine(p).files[cursor[p]] # "none"
  /\ cursor' = [cursor EXCEPT ![p] = @ + 1]
  /\ UNCHANGED <<disk, request, attempt, outcome, receipts, budget>>

\* sync_all, set_permissions and the sync of the parent directory. Only the
\* process's own open file is synced: in a tree another process has put at
\* the path in the meantime, the file stays as it is.
SyncFile(p) ==
  /\ Goto(p, "sync", "write")
  /\ Quarantine(p).files[cursor[p]] # "none"
  /\ IF Quarantine(p).owner = p
       THEN SetQuarantine(p, SetFile(Quarantine(p), cursor[p], "synced"))
       ELSE UNCHANGED staging
  /\ cursor' = [cursor EXCEPT ![p] = @ + 1]
  /\ UNCHANGED <<locks, final, durable, request, attempt, outcome, receipts, budget>>

SyncFileGone(p) ==
  /\ Goto(p, "sync", "cleanup")
  /\ Quarantine(p).files[cursor[p]] = "none"
  /\ Sets(p, "Io")
  /\ UNCHANGED <<disk, local, receipts, budget>>

\* Reopen the quarantine and verify it against the subject: every declared
\* file and nothing else, so no record yet.
VerifyStaged(p) ==
  /\ Goto(p, "write", "record")
  /\ cursor[p] = NumFiles + 1
  /\ Written(Quarantine(p))
  /\ Quarantine(p).evidence = NoEvidence
  /\ UNCHANGED <<disk, local, outcome, receipts, budget>>

StageVerificationFails(p) ==
  /\ Goto(p, "write", "cleanup")
  /\ cursor[p] = NumFiles + 1
  /\ ~Written(Quarantine(p)) \/ Quarantine(p).evidence # NoEvidence
  /\ Sets(p, "StageVerification")
  /\ UNCHANGED <<disk, local, receipts, budget>>

WriteRecord(p) ==
  /\ Goto(p, "record", "seal")
  /\ Quarantine(p) # NoTree
  /\ Quarantine(p).evidence = NoEvidence
  /\ SetQuarantine(p, [Quarantine(p) EXCEPT !.evidence = evidence[p]])
  /\ UNCHANGED <<locks, final, durable, local, outcome, receipts, budget>>

RecordConflict(p) ==
  /\ Goto(p, "record", "cleanup")
  /\ Quarantine(p) = NoTree \/ Quarantine(p).evidence # NoEvidence
  /\ Sets(p, "MaterializationConflict")
  /\ UNCHANGED <<disk, local, receipts, budget>>

\* Sync the record, reread and compare it, recheck modes, sync the tree.
SealRecord(p) ==
  /\ Goto(p, "seal", "rename")
  /\ Written(Quarantine(p))
  /\ Quarantine(p).evidence = evidence[p]
  /\ SetQuarantine(p, [Quarantine(p) EXCEPT !.sealed = @ \/ Quarantine(p).owner = p])
  /\ UNCHANGED <<locks, final, durable, local, outcome, receipts, budget>>

SealRecordFails(p) ==
  /\ Goto(p, "seal", "cleanup")
  /\ ~Written(Quarantine(p)) \/ Quarantine(p).evidence # evidence[p]
  /\ Sets(p, "RecordMismatch")
  /\ UNCHANGED <<disk, local, receipts, budget>>

\* The errors an I/O failure comes back as: whatever fails in opening a file
\* is a conflict, whatever fails in reading back a failed verification.
BuildErrors(p) ==
  CASE pc[p] = "record" \/ (pc[p] = "write" /\ cursor[p] \in Files) -> {"Io", "MaterializationConflict"}
    [] pc[p] = "seal" \/ (pc[p] = "write" /\ cursor[p] \notin Files) -> {"Io", "StageVerification"}
    [] pc[p] \in {"sync", "rename"} -> {"Io"}

\* Any step of the build, or the rename itself, fails. (A rename can also
\* find the quarantine gone with nothing published; BuildsOwn excludes it.)
BuildFails(p) ==
  /\ pc[p] \in Building
  /\ Fault
  /\ pc' = [pc EXCEPT ![p] = "cleanup"]
  /\ \E error \in BuildErrors(p) : Sets(p, error)
  /\ UNCHANGED <<disk, local, receipts>>

-----------------------------------------------------------------------------
(* Promotion.                                                              *)

\* Mutant: the rename replaces what is published.
PromoteReplaces(p) ==
  /\ Goto(p, "rename", "sync_root")
  /\ Quarantine(p) # NoTree
  /\ final' = [final EXCEPT ![subject[p]] = Quarantine(p)]
  /\ SetQuarantine(p, NoTree)
  /\ durable' = [durable EXCEPT ![subject[p]] = FALSE]
  /\ UNCHANGED <<locks, local, outcome, receipts, budget>>

\* rename(staging, final) does not replace a directory that is not empty.
Promote(p) ==
  /\ Goto(p, "rename", "sync_root")
  /\ Quarantine(p) # NoTree
  /\ final[subject[p]] = NoTree
  /\ final' = [final EXCEPT ![subject[p]] = Quarantine(p)]
  /\ SetQuarantine(p, NoTree)
  /\ durable' = [durable EXCEPT ![subject[p]] = FALSE]
  /\ UNCHANGED <<locks, local, outcome, receipts, budget>>

\* Someone published first: drop the quarantine tree, whoever's it is now.
PromoteFindsPublished(p) ==
  /\ Goto(p, "rename", "reverify")
  /\ final[subject[p]] # NoTree
  /\ SetQuarantine(p, NoTree)
  /\ UNCHANGED <<locks, final, durable, local, outcome, receipts, budget>>

\* The same, but the quarantine tree cannot be removed; ignored.
PromoteFindsPublishedLeaves(p) ==
  /\ Goto(p, "rename", "reverify")
  /\ Fault
  /\ final[subject[p]] # NoTree
  /\ UNCHANGED <<disk, local, outcome, receipts>>

ReusePublished(p) ==
  /\ pc[p] = "reverify"
  /\ IF MatchesExisting(p)
       THEN Goto(p, "reverify", "release") /\ Sets(p, "reused")
       ELSE Goto(p, "reverify", "cleanup") /\ Sets(p, "ExistingInstallationMismatch")
  /\ UNCHANGED <<disk, local, receipts, budget>>

\* Mutant: sha256/ is not synced after the rename.
SyncPromotionNever(p) ==
  /\ Goto(p, "sync_root", "confirm")
  /\ UNCHANGED <<disk, local, outcome, receipts, budget>>

SyncPromotion(p) ==
  /\ Goto(p, "sync_root", "confirm")
  /\ durable' = [durable EXCEPT ![subject[p]] = TRUE]
  /\ UNCHANGED <<locks, staging, final, local, outcome, receipts, budget>>

\* Mutant: the promotion is rolled back.
SyncPromotionRollsBack(p) ==
  /\ Goto(p, "sync_root", "cleanup")
  /\ Fault
  /\ Sets(p, "Io")
  /\ final' = [final EXCEPT ![subject[p]] = NoTree]
  /\ UNCHANGED <<locks, staging, durable, local, receipts>>

\* An error although the subject is published.
SyncPromotionFails(p) ==
  /\ Goto(p, "sync_root", "cleanup")
  /\ Fault
  /\ Sets(p, "Io")
  /\ UNCHANGED <<disk, local, receipts>>

ConfirmPromotion(p) ==
  /\ pc[p] = "confirm"
  /\ IF MatchesExisting(p)
       THEN Goto(p, "confirm", "release") /\ Sets(p, "fresh")
       ELSE Goto(p, "confirm", "cleanup") /\ Sets(p, "ExistingInstallationMismatch")
  /\ UNCHANGED <<disk, local, receipts, budget>>

\* Reading the published tree fails: verify_existing_installation reports
\* every failure as a mismatch, also right after a promotion.
ReadExistingFails(p) ==
  /\ pc[p] \in {"reuse", "reverify", "confirm"}
  /\ Fault
  /\ pc' = [pc EXCEPT ![p] = IF pc[p] = "reuse" THEN "release" ELSE "cleanup"]
  /\ Sets(p, "ExistingInstallationMismatch")
  /\ UNCHANGED <<disk, local, receipts>>

-----------------------------------------------------------------------------
(* Leaving a request.                                                      *)

\* cleanup_staging removes whatever stands at the quarantine path.
Cleanup(p) ==
  /\ Goto(p, "cleanup", "release")
  /\ SetQuarantine(p, NoTree)
  /\ UNCHANGED <<locks, final, durable, local, outcome, receipts, budget>>

\* remove_dir_all fails and the error is ignored.
CleanupFails(p) ==
  /\ Goto(p, "cleanup", "release")
  /\ Fault
  /\ UNCHANGED <<disk, local, outcome, receipts>>

\* SubjectLock::drop removes the lock file by name, then the call returns.
Return(p) ==
  /\ Goto(p, "release", "idle")
  /\ Sets(p, "none")
  /\ attempt' = [attempt EXCEPT ![p] = 0]
  /\ cursor' = [cursor EXCEPT ![p] = 1]
  /\ receipts' = IF outcome[p] \in {"fresh", "reused"}
                   THEN receipts \cup {[by |-> p, nth |-> requests[p],
                                        subject |-> subject[p],
                                        evidence |-> evidence[p],
                                        reused |-> outcome[p] = "reused"]}
                   ELSE receipts
  /\ UNCHANGED <<staging, final, durable, request>>

\* Mutant: the lock guard is forgotten instead of dropped.
ReleaseLockForgotten(p) == Return(p) /\ UNCHANGED <<locks, budget>>

ReleaseLock(p) ==
  /\ Return(p)
  /\ locks' = [locks EXCEPT ![subject[p]] = Nobody]
  /\ UNCHANGED budget

\* The removal fails and the error is ignored.
ReleaseLockFails(p) ==
  /\ Return(p)
  /\ Fault
  /\ UNCHANGED locks

-----------------------------------------------------------------------------
(* The environment: kills, power losses and the host's lock policy.        *)

\* The process is killed: the store stays as it is.
Crash(p) ==
  /\ pc[p] # "idle"
  /\ crashes < MaxCrashes
  /\ crashes' = crashes + 1
  /\ pc' = [pc EXCEPT ![p] = "idle"]
  /\ Sets(p, "none")
  /\ attempt' = [attempt EXCEPT ![p] = 0]
  /\ cursor' = [cursor EXCEPT ![p] = 1]
  /\ UNCHANGED <<disk, request, receipts, requests, faults, losses>>

\* What a reboot finds of a tree: only what was synced.
Settled(t) ==
  [t EXCEPT !.files = [f \in Files |-> IF t.files[f] = "synced" THEN "synced" ELSE "none"],
            !.evidence = IF t.sealed THEN t.evidence ELSE NoEvidence]

\* The store after a reboot: what is on the disk of each tree, with the
\* promotions in undone taken back to a free quarantine name.
Rebooted(undone, back) ==
  /\ \A s \in undone : staging[s][back[s]] = NoTree
  /\ final' = [s \in Subjects |-> IF s \in undone THEN NoTree ELSE Settled(final[s])]
  /\ durable' = [s \in Subjects |-> s \notin undone /\ final[s] # NoTree]
  /\ staging' = [s \in Subjects |-> [a \in Attempts |->
                   IF s \in undone /\ a = back[s] THEN Settled(final[s])
                                                  ELSE Settled(staging[s][a])]]

\* Every process dies; a promotion that was not synced may be undone.
PowerLoss ==
  /\ losses < MaxLosses
  /\ losses' = losses + 1
  /\ \E undone \in SUBSET {s \in Subjects : final[s] # NoTree /\ ~durable[s]},
        back \in [Subjects -> Attempts] : Rebooted(undone, back)
  /\ pc' = [p \in Procs |-> "idle"]
  /\ outcome' = [p \in Procs |-> "none"]
  /\ attempt' = [p \in Procs |-> 0]
  /\ cursor' = [p \in Procs |-> 1]
  /\ UNCHANGED <<locks, request, receipts, requests, crashes, faults>>

\* Stale-lock recovery is host policy: a careful host only removes a lock
\* when no installer of that subject is running.
HostRemovesLock(s) ==
  /\ locks[s] # Nobody
  /\ LiveLockRemoval \/ \A p \in Procs : pc[p] \in Critical => subject[p] # s
  /\ locks' = [locks EXCEPT ![s] = Nobody]
  /\ UNCHANGED <<staging, final, durable, pc, local, outcome, receipts, budget>>

-----------------------------------------------------------------------------
\* The steps the code takes when nothing fails.
Step(p) ==
  \/ SubjectLocked(p) \/ AcquireLock(p)
  \/ FindPublished(p) \/ FindAbsent(p) \/ Reuse(p)
  \/ SkipTakenStaging(p) \/ CreateStaging(p) \/ StagingUnavailable(p)
  \/ WriteFile(p) \/ MaterializationConflict(p) \/ SyncFile(p) \/ SyncFileGone(p)
  \/ VerifyStaged(p) \/ StageVerificationFails(p)
  \/ WriteRecord(p) \/ RecordConflict(p) \/ SealRecord(p) \/ SealRecordFails(p)
  \/ Promote(p) \/ PromoteFindsPublished(p) \/ ReusePublished(p)
  \/ SyncPromotion(p) \/ ConfirmPromotion(p)
  \/ Cleanup(p) \/ ReleaseLock(p)

FaultStep(p) ==
  \/ OpenLockFails(p) \/ AcquireLockFails(p) \/ LookupFails(p) \/ CreateStagingFails(p)
  \/ BuildFails(p) \/ PromoteFindsPublishedLeaves(p) \/ SyncPromotionFails(p)
  \/ ReadExistingFails(p) \/ CleanupFails(p) \/ ReleaseLockFails(p)

Next ==
  \/ \E p \in Procs : Step(p) \/ FaultStep(p) \/ Crash(p)
  \/ \E p \in Procs, s \in Subjects, e \in Evidence : Submit(p, s, e) \/ Refuse(p, s, e)
  \/ \E s \in Subjects : HostRemovesLock(s)
  \/ PowerLoss

Spec == Init /\ [][Next]_vars

\* The operating system keeps scheduling a process that is running.
FairSpec == Spec /\ \A p \in Procs : WF_vars(Step(p))

-----------------------------------------------------------------------------
(* Invariants.                                                             *)

\* Every published subject is whole: all files and the record are on the
\* disk, and the record binds evidence for that very subject. It holds
\* through kills and power losses, and even if the host breaks live locks:
\* the rename that does not replace, not the lock, carries it.
PublishedComplete ==
  \A s \in Subjects : final[s] # NoTree =>
    /\ Complete(final[s])
    /\ final[s].evidence \in Evidence
    /\ final[s].evidence.subject = s

\* The subject lock (acquire_subject_lock, SubjectLock::drop) serialises
\* requests for a subject as long as the host only removes stale locks:
\* no process between acquiring and releasing loses its lock file.
LockHeld ==
  ~LiveLockRemoval =>
    \A p \in Procs : pc[p] \in Critical => locks[subject[p]] = p

\* A process that builds, promotes or cleans up finds at its quarantine path
\* its own tree or nothing: cleanup_staging, which goes by path and runs
\* after a failed promotion too, never removes another process's work.
OwnQuarantine ==
  ~LiveLockRemoval =>
    \A p \in Procs :
      /\ pc[p] \in Building => Quarantine(p).owner = p
      /\ pc[p] = "cleanup" => Quarantine(p).owner \in {p, Nobody}

\* A lock keeps others off the subject and off the holder's quarantine.
LocksExclude == LockHeld /\ OwnQuarantine

\* Concurrency, kills and power losses never surface as content errors: with
\* the lock respected, materialization conflicts and failed verifications
\* of the quarantine do not happen to a verified bundle.
NoSpuriousRefusal ==
  ~LiveLockRemoval /\ faults = 0 =>
    \A p \in Procs :
      outcome[p] \notin {"MaterializationConflict", "StageVerification", "RecordMismatch"}

\* Unless a read fails, ExistingInstallationMismatch is only ever reported
\* for another provenance, never for a tree some install left incomplete.
MismatchIsProvenance ==
  faults = 0 =>
    \A p \in Procs : outcome[p] = "ExistingInstallationMismatch" =>
      /\ final[subject[p]] # NoTree
      /\ final[subject[p]].evidence # evidence[p]

\* A receipt that says "reused: false" is a promise for good: from then on
\* the subject stays published with that evidence, power losses included.
FreshReceiptLasts ==
  \A r \in receipts : ~r.reused =>
    /\ durable[r.subject]
    /\ final[r.subject].evidence = r.evidence

\* At most one caller is ever told that it published a subject.
OneFreshReceipt ==
  \A r, q \in receipts : ~r.reused /\ ~q.reused /\ r.subject = q.subject => r = q

\* Without a power loss every receipt for a subject carries the same
\* provenance, whoever asked and in whatever order.
ReceiptsAgree ==
  losses = 0 =>
    \A r \in receipts : final[r.subject].evidence = r.evidence

\* What a caller is told, receipt or refusal, is true of the store, and was not
\* brought about by the others.
AnswersAreTrue == NoSpuriousRefusal /\ MismatchIsProvenance /\ OneFreshReceipt /\ ReceiptsAgree

\* A lock file without a running holder, and a quarantine directory nobody
\* is working in, cost a kill, a power loss or a failed call each: requests
\* that run to completion leave nothing behind, so a subject runs out of
\* quarantine names only after MaxAttempts such events.
LeftoversAreFaults ==
  ~LiveLockRemoval =>
    /\ \A p \in Procs : outcome[p] = "StagingUnavailable" =>
         crashes + faults + losses >= MaxAttempts
    /\ \A s \in Subjects :
         locks[s] # Nobody /\ (\A p \in Procs : pc[p] \in Critical => subject[p] # s) =>
           crashes + faults + losses > 0

(* The inductive invariant behind them.                                    *)

LocalOK ==
  \A p \in Procs :
    /\ evidence[p].subject = subject[p]
    /\ pc[p] # "idle" => requests[p] # 0
    /\ pc[p] \in {"idle", "lock", "check", "stage"} => cursor[p] = 1
    /\ pc[p] = "sync" => cursor[p] \in Files
    /\ pc[p] \in Building \cup {"reverify", "sync_root", "confirm", "cleanup"} =>
         attempt[p] \in Attempts

\* While its subject is unpublished, a process that builds or cleans up has
\* its own tree at its path, as far along as its program counter says. Once
\* the subject is published the path may be anyone's, and rename refuses.
BuildsOwn(p) ==
  final[subject[p]] = NoTree =>
    /\ pc[p] \in Building \cup {"cleanup"} => Quarantine(p).owner = p
    /\ pc[p] \in {"write", "sync"} =>
         \A f \in Files : f < cursor[p] => Quarantine(p).files[f] = "synced"
    /\ pc[p] \in {"record", "seal", "rename"} =>
         \A f \in Files : Quarantine(p).files[f] = "synced"
    /\ pc[p] = "seal" => Quarantine(p).evidence = evidence[p]
    /\ pc[p] = "rename" => Quarantine(p).sealed /\ Quarantine(p).evidence = evidence[p]

SeesPublished(p) ==
  pc[p] \in {"reuse", "reverify", "sync_root", "confirm"} => final[subject[p]] # NoTree

\* What stands behind a receipt: a subject is durable only while published,
\* from the sync of a promotion to its receipt it is durable, and a request
\* about to return "fresh" finds its own evidence published.
ReceiptInv ==
  /\ \A s \in Subjects : durable[s] => final[s] # NoTree
  /\ \A p \in Procs : pc[p] = "confirm" => durable[subject[p]]
  /\ \A p \in Procs : outcome[p] = "fresh" =>
       /\ pc[p] = "release"
       /\ durable[subject[p]]
       /\ final[subject[p]].evidence = evidence[p]
  /\ FreshReceiptLasts

IInv ==
  /\ TypeOK
  /\ LocalOK
  /\ PublishedComplete
  /\ \A p \in Procs : BuildsOwn(p) /\ SeesPublished(p)
  /\ ReceiptInv

-----------------------------------------------------------------------------
(* Action properties.                                                      *)

\* "never upgrades, downgrades, rewrites, repairs": a published tree changes
\* only by a power loss undoing a promotion that was not synced.
KeepsPublished ==
  \A s \in Subjects : final[s] # NoTree =>
    \/ final'[s] = final[s]
    \/ ~durable[s] /\ losses' = losses + 1 /\ final'[s] = NoTree

Immutable == [][KeepsPublished]_vars

-----------------------------------------------------------------------------
(* Liveness.                                                               *)

\* Every request that is not killed returns: nobody waits for a lock, so a
\* stale one cannot block an installer.
Terminates == \A p \in Procs : pc[p] # "idle" ~> pc[p] = "idle"

\* Leftovers of earlier failures do not stop a later install: when nothing
\* fails any more, a request that got the lock ends with its subject
\* published, past any number of abandoned quarantine trees, unless every
\* quarantine name is taken.
InstallsOnceQuiet ==
  LET Quiet == crashes = MaxCrashes /\ faults = MaxFaults /\ losses = MaxLosses
  IN  \A s \in Subjects :
        Quiet /\ (\E p \in Procs : pc[p] = "check" /\ subject[p] = s) ~>
          final[s] # NoTree \/ \A a \in Attempts : staging[s][a] # NoTree

-----------------------------------------------------------------------------
(* The abstract specification.                                             *)

Abstract == INSTANCE ContentStore
  WITH published <- [s \in Subjects |-> final[s].evidence], Receipts <- Receipt

\* The store is a write-once register per subject with truthful receipts,
\* whatever its processes, locks and quarantine directories go through.
ImplementsContentStore == Abstract!Spec

=============================================================================
