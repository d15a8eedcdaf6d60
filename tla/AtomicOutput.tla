---------------------------- MODULE AtomicOutput ----------------------------
(***************************************************************************)
(* write_atomic of the CLI (crates/invokrum-cli/src/output.rs): several    *)
(* invocations write one output file of one directory, with and without    *)
(* --force. An action is one file-system call.                             *)
(*                                                                         *)
(* The directory maps names to inodes: the target, and one temporary name  *)
(* per process identifier. The kernel never gives two live processes the   *)
(* same identifier, but reuses that of a dead one; it also reuses the      *)
(* number of an inode without names and open files, and inode numbers are  *)
(* all the code compares.                                                  *)
(***************************************************************************)
EXTENDS Integers, FiniteSets

CONSTANTS
  Procs,        \* invocations
  Pids,         \* process identifiers
  Inodes,       \* inode numbers
  None,         \* no inode, no process
  Target,       \* the name of the output
  Old,          \* a regular file somebody else made
  Special,      \* a symbolic link or directory somebody else made
  MayForce,     \* is --force used at all?
  MaxCrashes,   \* bound: kills
  MaxFaults,    \* bound: failing calls
  MaxAppears    \* bound: files that others create at the target

ASSUME OutputAssumption ==
  /\ Target \notin Pids
  /\ None \notin Inodes \cup Procs
  /\ Old # Special /\ {Old, Special} \cap (Procs \cup {None}) = {}
  /\ MayForce \in BOOLEAN
  /\ MaxCrashes \in Nat /\ MaxFaults \in Nat /\ MaxAppears \in Nat

Names == Pids \cup {Target}

VARIABLES
  dir,      \* the directory
  file,     \* by inode: whose bytes, and how far they got
  pc, force, pid,
  staged,   \* identity of the process's own file (Metadata in the code)
  outcome,
  crashes, faults, appears

bounds == <<crashes, faults, appears>>
vars == <<dir, file, pc, force, pid, staged, outcome, bounds>>

Errors == {"TargetExists", "TargetSymbolicLink", "TargetNotRegular", "Io"}

TypeOK ==
  /\ dir \in [Names -> Inodes \cup {None}]
  /\ file \in [Inodes -> [by : Procs \cup {Old, Special, None},
                          state : {"partial", "written", "synced"}]]
  /\ pc \in [Procs -> {"idle", "check", "create", "write", "sync", "commit", "rename",
                       "unlink", "validate", "withdraw", "remove", "drop", "syncdir", "done"}]
  /\ force \in [Procs -> BOOLEAN]
  /\ pid \in [Procs -> Pids \cup {None}]
  /\ staged \in [Procs -> Inodes \cup {None}]
  /\ outcome \in [Procs -> {"none", "ok", "killed"} \cup Errors]
  /\ crashes \in 0 .. MaxCrashes
  /\ faults \in 0 .. MaxFaults
  /\ appears \in 0 .. MaxAppears

Init ==
  /\ dir = [n \in Names |-> None]
  /\ file = [i \in Inodes |-> [by |-> None, state |-> "partial"]]
  /\ pc = [p \in Procs |-> "idle"]
  /\ force = [p \in Procs |-> FALSE]
  /\ pid = [p \in Procs |-> None]
  /\ staged = [p \in Procs |-> None]
  /\ outcome = [p \in Procs |-> "none"]
  /\ crashes = 0 /\ faults = 0 /\ appears = 0

-----------------------------------------------------------------------------
Live(p) == pc[p] \notin {"idle", "done"}

Links(i) == Cardinality({n \in Names : dir[n] = i})

\* No name and no open file; stage_file closes its file when it returns.
Free(i) ==
  /\ \A n \in Names : dir[n] # i
  /\ \A p \in Procs : pc[p] \in {"write", "sync"} => staged[p] # i

\* temporary_path
Temp(p) == pid[p]

Goto(p, from, to) == pc[p] = from /\ pc' = [pc EXCEPT ![p] = to]

\* Where an error return leads, through the guards that are armed.
AfterError(p) ==
  CASE pc[p] \in {"check", "syncdir"}                                -> "done"
    [] pc[p] = "unlink" \/ (pc[p] = "validate" /\ ~force[p])         -> "withdraw"
    [] OTHER                                                         -> "drop"

Fail(p, error) ==
  /\ pc' = [pc EXCEPT ![p] = AfterError(p)]
  /\ outcome' = [outcome EXCEPT ![p] = error]

TargetIs(kind) == dir[Target] # None /\ file[dir[Target]].by = kind

\* check_target
CheckTarget(p, next) ==
  /\ CASE dir[Target] = None         -> pc' = [pc EXCEPT ![p] = next] /\ UNCHANGED outcome
       [] TargetIs(Special)          -> Fail(p, "TargetSymbolicLink")
       [] OTHER -> IF force[p] THEN pc' = [pc EXCEPT ![p] = next] /\ UNCHANGED outcome
                               ELSE Fail(p, "TargetExists")
  /\ UNCHANGED <<dir, file, force, pid, staged, bounds>>

-----------------------------------------------------------------------------
Start(p, f, k) ==
  /\ Goto(p, "idle", "check")
  /\ \A q \in Procs : Live(q) => pid[q] # k
  /\ f => MayForce
  /\ force' = [force EXCEPT ![p] = f]
  /\ pid' = [pid EXCEPT ![p] = k]
  /\ UNCHANGED <<dir, file, staged, outcome, bounds>>

FirstCheck(p) == pc[p] = "check" /\ CheckTarget(p, "create")

CreateTemp(p, i) ==
  /\ Goto(p, "create", "write")
  /\ dir[Temp(p)] = None
  /\ Free(i)
  /\ dir' = [dir EXCEPT ![Temp(p)] = i]
  /\ file' = [file EXCEPT ![i] = [by |-> p, state |-> "partial"]]
  /\ staged' = [staged EXCEPT ![p] = i]
  /\ UNCHANGED <<force, pid, outcome, bounds>>

\* Mutant: the guard is armed only once the file is created.
TempTakenUnguarded(p) ==
  /\ Goto(p, "create", "done")
  /\ dir[Temp(p)] # None
  /\ outcome' = [outcome EXCEPT ![p] = "Io"]
  /\ UNCHANGED <<dir, file, force, pid, staged, bounds>>

\* create_new finds the name taken: by a leftover of a dead process.
TempTaken(p) ==
  /\ pc[p] = "create"
  /\ dir[Temp(p)] # None
  /\ Fail(p, "Io")
  /\ UNCHANGED <<dir, file, force, pid, staged, bounds>>

WriteTemp(p) ==
  /\ Goto(p, "write", "sync")
  /\ file' = [file EXCEPT ![staged[p]].state = "written"]
  /\ UNCHANGED <<dir, force, pid, staged, outcome, bounds>>

\* Mutant: no sync_all.
SyncTempNever(p) ==
  /\ Goto(p, "sync", "commit")
  /\ UNCHANGED <<dir, file, force, pid, staged, outcome, bounds>>

\* sync_all, validate_staged_metadata
SyncTemp(p) ==
  /\ pc[p] = "sync"
  /\ file' = [file EXCEPT ![staged[p]].state = "synced"]
  /\ IF Links(staged[p]) = 1
       THEN Goto(p, "sync", "commit") /\ UNCHANGED outcome
       ELSE Fail(p, "Io")
  /\ UNCHANGED <<dir, force, pid, staged, bounds>>

\* commit_replace
SecondCheck(p) == pc[p] = "commit" /\ force[p] /\ CheckTarget(p, "rename")

Rename(p) ==
  /\ Goto(p, "rename", "validate")
  /\ dir[Temp(p)] # None
  /\ dir' = [dir EXCEPT ![Target] = dir[Temp(p)], ![Temp(p)] = None]
  /\ UNCHANGED <<file, force, pid, staged, outcome, bounds>>

\* A directory has appeared at the target since the check.
RenameRefused(p) ==
  /\ pc[p] = "rename"
  /\ TargetIs(Special)
  /\ Fail(p, "Io")
  /\ UNCHANGED <<dir, file, force, pid, staged, bounds>>

\* Mutant: a rename instead of the hard link.
LinkClobbers(p) ==
  /\ Goto(p, "commit", "unlink")
  /\ ~force[p]
  /\ dir[Temp(p)] # None
  /\ dir' = [dir EXCEPT ![Target] = dir[Temp(p)]]
  /\ UNCHANGED <<file, force, pid, staged, outcome, bounds>>

\* commit_no_clobber
Link(p) ==
  /\ Goto(p, "commit", "unlink")
  /\ ~force[p]
  /\ dir[Target] = None
  /\ dir[Temp(p)] # None
  /\ dir' = [dir EXCEPT ![Target] = dir[Temp(p)]]
  /\ UNCHANGED <<file, force, pid, staged, outcome, bounds>>

\* Mutant: the guard of the temporary is disarmed before the commit.
LinkExistsUnguarded(p) ==
  /\ Goto(p, "commit", "done")
  /\ ~force[p]
  /\ dir[Target] # None
  /\ outcome' = [outcome EXCEPT ![p] = "TargetExists"]
  /\ UNCHANGED <<dir, file, force, pid, staged, bounds>>

LinkExists(p) ==
  /\ pc[p] = "commit"
  /\ ~force[p]
  /\ dir[Target] # None
  /\ Fail(p, "TargetExists")
  /\ UNCHANGED <<dir, file, force, pid, staged, bounds>>

\* Mutant: the temporary name stays after the hard link.
RemoveTempNever(p) ==
  /\ Goto(p, "unlink", "validate")
  /\ UNCHANGED <<dir, file, force, pid, staged, outcome, bounds>>

RemoveTemp(p) ==
  /\ Goto(p, "unlink", "validate")
  /\ dir' = [dir EXCEPT ![Temp(p)] = None]
  /\ UNCHANGED <<file, force, pid, staged, outcome, bounds>>

\* validate_committed_target
Validate(p) ==
  /\ pc[p] = "validate"
  /\ CASE dir[Target] = None                -> Fail(p, "Io")
       [] TargetIs(Special)                 -> Fail(p, "TargetSymbolicLink")
       [] OTHER ->
            CASE dir[Target] # staged[p]    -> Fail(p, "TargetNotRegular")
              [] Links(staged[p]) # 1       -> Fail(p, "Io")
              [] OTHER -> Goto(p, "validate", "syncdir") /\ UNCHANGED outcome
  /\ UNCHANGED <<dir, file, force, pid, staged, bounds>>

SyncDirectory(p) ==
  /\ Goto(p, "syncdir", "done")
  /\ outcome' = [outcome EXCEPT ![p] = "ok"]
  /\ UNCHANGED <<dir, file, force, pid, staged, bounds>>

\* FileGuard::drop of the committed target: look, then remove by name.
Withdraw(p) ==
  /\ Goto(p, "withdraw", IF dir[Target] = staged[p] THEN "remove" ELSE "drop")
  /\ UNCHANGED <<dir, file, force, pid, staged, outcome, bounds>>

RemoveTarget(p) ==
  /\ Goto(p, "remove", "drop")
  /\ dir' = [dir EXCEPT ![Target] = None]
  /\ UNCHANGED <<file, force, pid, staged, outcome, bounds>>

\* FileGuard::drop of the temporary, created by this process or not.
DropTemp(p) ==
  /\ Goto(p, "drop", "done")
  /\ dir' = [dir EXCEPT ![Temp(p)] = None]
  /\ UNCHANGED <<file, force, pid, staged, outcome, bounds>>

-----------------------------------------------------------------------------
\* Any call fails; also the parent directory may have been replaced.
CallFails(p) ==
  /\ pc[p] \in {"check", "create", "write", "sync", "commit", "rename", "unlink",
                "validate", "syncdir"}
  /\ faults < MaxFaults
  /\ faults' = faults + 1
  /\ Fail(p, "Io")
  /\ UNCHANGED <<dir, file, force, pid, staged, crashes, appears>>

\* A guard cannot remove its file; ignored.
GuardFails(p) ==
  /\ pc[p] \in {"remove", "drop"}
  /\ faults < MaxFaults
  /\ faults' = faults + 1
  /\ pc' = [pc EXCEPT ![p] = IF pc[p] = "remove" THEN "drop" ELSE "done"]
  /\ UNCHANGED <<dir, file, force, pid, staged, outcome, crashes, appears>>

Crash(p) ==
  /\ Live(p)
  /\ crashes < MaxCrashes
  /\ crashes' = crashes + 1
  /\ pc' = [pc EXCEPT ![p] = "done"]
  /\ outcome' = [outcome EXCEPT ![p] = "killed"]
  /\ UNCHANGED <<dir, file, force, pid, staged, faults, appears>>

\* Somebody else creates the target.
Appear(kind, i) ==
  /\ appears < MaxAppears
  /\ appears' = appears + 1
  /\ dir[Target] = None
  /\ Free(i)
  /\ dir' = [dir EXCEPT ![Target] = i]
  /\ file' = [file EXCEPT ![i] = [by |-> kind, state |-> "synced"]]
  /\ UNCHANGED <<pc, force, pid, staged, outcome, crashes, faults>>

Step(p) ==
  \/ FirstCheck(p) \/ (\E i \in Inodes : CreateTemp(p, i)) \/ TempTaken(p)
  \/ WriteTemp(p) \/ SyncTemp(p)
  \/ SecondCheck(p) \/ Rename(p) \/ RenameRefused(p)
  \/ Link(p) \/ LinkExists(p) \/ RemoveTemp(p)
  \/ Validate(p) \/ SyncDirectory(p)
  \/ Withdraw(p) \/ RemoveTarget(p) \/ DropTemp(p)

Next ==
  \/ \E p \in Procs : Step(p) \/ CallFails(p) \/ GuardFails(p) \/ Crash(p)
  \/ \E p \in Procs, f \in BOOLEAN, k \in Pids : Start(p, f, k)
  \/ \E kind \in {Old, Special}, i \in Inodes : Appear(kind, i)

Spec == Init /\ [][Next]_vars

\* The operating system keeps scheduling a process that is running.
FairSpec == Spec /\ \A p \in Procs : WF_vars(Step(p))

-----------------------------------------------------------------------------
\* "Write atomically": what stands at the target is a whole file that was
\* synced before it got its name, whatever fails or is killed when.
TargetWhole == dir[Target] # None => file[dir[Target]].state = "synced"

\* Until it commits or fails, a process finds its own file at its temporary
\* name, so what it renames or links is what it wrote.
OwnTemp ==
  \A p \in Procs : pc[p] \in {"write", "sync", "commit", "rename", "unlink"} =>
    dir[Temp(p)] = staged[p] /\ file[staged[p]].by = p

\* What TargetWhole rests on: live processes have temporary names of their
\* own, and a file is synced before its inode can be at the target.
IInv ==
  /\ TypeOK
  /\ \A p \in Procs : Live(p) => pid[p] \in Pids
  /\ \A p, q \in Procs : Live(p) /\ Live(q) /\ pid[p] = pid[q] => p = q
  /\ OwnTemp
  /\ \A p \in Procs :
       /\ pc[p] \in {"write", "sync"} => dir[Target] # staged[p]
       /\ pc[p] \in {"commit", "rename", "unlink"} => file[staged[p]].state = "synced"
       /\ pc[p] \in {"write", "sync", "commit", "rename", "unlink"} => staged[p] \in Inodes
       /\ pc[p] = "rename" => force[p]
  /\ TargetWhole

\* "cleans temporary files after failure": each temporary file no running
\* process answers for cost a kill or a failed call.
Litter ==
  {k \in Pids : /\ dir[k] # None
                /\ \A p \in Procs : Live(p) /\ pc[p] # "check" => pid[p] # k}

NoLitter == Cardinality(Litter) <= crashes + faults

\* With nothing failing, an error is about the target: somebody else made
\* it, or another invocation has a file of its own and is past its commit or at
\* its end. Of the first error of a history that means that the other has
\* committed; later, the other may be one that was itself refused.
ErrorsAreRaces ==
  crashes = 0 /\ faults = 0 =>
    \A p \in Procs : outcome[p] \in Errors =>
      \/ appears > 0
      \/ \E q \in Procs \ {p} : staged[q] # None /\ pc[q] \in {"unlink", "validate", "withdraw",
                                                             "remove", "drop", "syncdir", "done"}

\* "An existing output is never replaced implicitly": another file takes the
\* place of an existing one only by the rename of a forced invocation.
OnlyForceReplaces ==
  [][dir[Target] # None /\ dir'[Target] \notin {dir[Target], None} =>
       \E p \in Procs : pc[p] = "rename" /\ force[p] /\ dir'[Target] = staged[p]]_vars

\* Every invocation ends.
Terminates == \A p \in Procs : Live(p) ~> pc[p] = "done"

\* The leftover of a killed process costs the next process with its
\* identifier one failure: after that the temporary name is free again.
LeftoverClears ==
  \A k \in Pids :
    crashes = MaxCrashes /\ faults = MaxFaults /\ (\E p \in Procs : pc[p] = "create" /\ pid[p] = k)
      ~> dir[k] = None

\* An invocation ends, and what a killed one left behind goes in time.
EndsAndClears == Terminates /\ LeftoverClears

-----------------------------------------------------------------------------
\* As long as nobody asks for --force, the output is a slot that one invocation
\* fills.
Abstract == INSTANCE OutputSlot
  WITH content <- IF dir[Target] = None THEN None ELSE file[dir[Target]].by,
       acknowledged <- {p \in Procs : outcome[p] = "ok"}

Unforced == \A p \in Procs : ~force[p]

ImplementsOutputSlot == Abstract!Init /\ [][Unforced' => Abstract!Next]_(Abstract!vars)
=============================================================================
