------------------------------ MODULE MCMaking ------------------------------
(***************************************************************************)
(* Instances of StoreRoot and of AtomicOutput for TLC: processes that make *)
(* the directories of one store, or one output file, at the same time, and *)
(* all get to an end. The two share no state, so one run checks them as    *)
(* alternatives: `part` says which of the two moves, and the other rests   *)
(* in an initial state of its own.                                         *)
(***************************************************************************)
EXTENDS StoreRoot

CONSTANTS k1, k2, i1, i2, i3, None, Target, Old, Special
-----------------------------------------------------------------------------
(* StoreRoot: stores that are absent, begun or complete, and each way in   *)
(* which one path can be wrong.                                            *)

Absent == [s \in Paths |-> "absent"]
Begun  == [Absent EXCEPT !["root"] = "readable", ![".staging"] = "private"]

MCStartTrees ==
  {Absent, Begun} \cup {[Absent EXCEPT !["root"] = t] : t \in Things} \cup
  {[Begun EXCEPT ![s] = t] : s \in Subs, t \in Things \ {"absent"}}
-----------------------------------------------------------------------------
VARIABLES
  part, dir, file, outputPc, force, pid, staged, outputOutcome, crashes, faults, appears

outputVars ==
  <<dir, file, outputPc, force, pid, staged, outputOutcome, crashes, faults, appears>>

Output == INSTANCE AtomicOutput WITH
  pc <- outputPc, outcome <- outputOutcome,
  Pids <- {k1, k2}, Inodes <- {i1, i2, i3}, MayForce <- TRUE,
  MaxCrashes <- 1, MaxFaults <- 1, MaxAppears <- 1

ASSUME RootAssumption == StoreRootAssumption

\* A store at rest is an unsafe one, of which OpensInTheEnd says nothing.
RootRests == umaskStrips = FALSE /\ start = [Absent EXCEPT !["root"] = "shared"] /\ Init

MCInit ==
  \/ part = "root" /\ Output!Init /\ Init
  \/ part = "output" /\ RootRests /\ Output!Init

MCNext ==
  /\ UNCHANGED part
  /\ \/ part = "root" /\ Next /\ UNCHANGED outputVars
     \/ part = "output" /\ Output!Next /\ UNCHANGED vars

\* The fairness of both.
MCFairness ==
  \A p \in Procs :
    /\ WF_vars(part = "root" /\ Step(p)) /\ WF_vars(part = "root" /\ Retry(p))
    /\ WF_outputVars(part = "output" /\ Output!Step(p))

MCSpec == MCInit /\ [][MCNext]_<<part, vars, outputVars>> /\ MCFairness

\* Each writer of an output ends, and the leftover of a killed one costs one
\* later invocation with its identifier a failure and is then gone (write_atomic).
EndsAndClears == Output!EndsAndClears
=============================================================================
