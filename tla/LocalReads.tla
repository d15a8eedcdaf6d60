----------------------------- MODULE LocalReads -----------------------------
(***************************************************************************)
(* The two levels at which the adapter reads a candidate directory: the    *)
(* walk over the tree (CandidateTree), and the reading of one file         *)
(* (StableRead), which the walk takes as one moment or a refusal. Each has *)
(* a disk of its own; they are joined by what ReadsAreSound promises.      *)
(***************************************************************************)
EXTENDS CandidateTree

CONSTANTS Inodes, Elsewhere, None, InitialDisk, Limit

VARIABLES
  policy, files, entry, rootPinned, parentReal, fileChanges, before, fd, opened, strayed,
  bytes, readPc, outcome, offered

fileVars == <<policy, files, entry, rootPinned, parentReal, fileChanges, before, fd, opened,
              strayed, bytes, readPc, outcome, offered>>

File == INSTANCE StableRead WITH disk <- files, changes <- fileChanges, pc <- readPc

ASSUME FileAssumption == File!ReadAssumption /\ File!DiskAssumption

\* A read that succeeds is of one moment, never holds more than it may, and is
\* exact when nobody interferes (read_declared_file, load_source).
ReadsAreSound == File!ReadsAreSound
=============================================================================
