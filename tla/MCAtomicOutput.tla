--------------------------- MODULE MCAtomicOutput ---------------------------
(***************************************************************************)
(* Instances of AtomicOutput for TLC.                                      *)
(***************************************************************************)
EXTENDS AtomicOutput, TLC

\* Invocations, identifiers and inode numbers are interchangeable.
Symmetry == Permutations(Procs) \cup Permutations(Pids) \cup Permutations(Inodes)
=============================================================================
