--------------------------- MODULE MCInstallStore ---------------------------
(***************************************************************************)
(* Instances of InstallStore for TLC.                                      *)
(***************************************************************************)
EXTENDS InstallStore, TLC

\* Processes, and publishers other than Unsigned, are interchangeable.
Symmetry == Permutations(Procs)
=============================================================================
