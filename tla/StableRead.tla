----------------------------- MODULE StableRead -----------------------------
(***************************************************************************)
(* Reading one file from a directory that others may be writing:           *)
(* read_declared_file of crates/invokrum-acquisition-linux ("candidate")   *)
(* and load_source of crates/invokrum-fs ("pack"). Both look the path up,  *)
(* open it, read, and look again; every system call is a step, and between *)
(* any two of them files are written, replaced or linked, and the root or  *)
(* the directory of the file are exchanged.                                *)
(*                                                                         *)
(* A change of a file changes its time stamps. Both adapters rest on this, *)
(* and so does the model: two changes never carry the same stamp.          *)
(***************************************************************************)
EXTENDS Naturals, Sequences

CONSTANTS
  Inodes,
  Elsewhere,   \* the file the path leads to past an exchanged directory
  None,
  InitialDisk, \* what the inodes may be at first
  Limit,       \* maximum_bytes, in blocks
  MaxChanges   \* bound: changes by others while the file is read

\* What is assumed of the constants.
ReadAssumption ==
  /\ Elsewhere \in Inodes /\ None \notin Inodes
  /\ Limit \in Nat /\ MaxChanges \in Nat

\* A special file is a FIFO here: it is the one whose open(2) waits.
Inode == [kind : {"file", "symlink", "fifo"}, sameDevice : BOOLEAN, links : Nat,
          data : Seq(Nat), stamp : Nat]

\* ... and of the disk: what it starts with is older than any change.
DiskAssumption ==
  InitialDisk \subseteq {disk \in [Inodes -> Inode] : \A i \in Inodes : disk[i].stamp = 0}

VARIABLES
  policy,             \* "candidate" or "pack": who reads
  disk, entry,        \* the inodes, and the one the file's name stands for
  rootPinned, parentReal, changes,
  before, fd, opened, \* the first lookup, the open file, its metadata
  strayed,            \* was the file opened past an exchanged directory?
  bytes, pc, outcome,
  offered             \* the files the path has led to, with their data (ghost)

world  == <<disk, entry, rootPinned, parentReal, changes>>
reader == <<policy, before, fd, opened, strayed, bytes, pc, outcome>>
vars   == <<world, reader, offered>>

\* LocalCandidateError; SourceFailureKind, whose ChangedDuringRead is
\* Changed or RootChanged here and whose NotFound is Missing.
Refusals == {"Missing", "SymbolicLink", "NotRegular", "HardLink", "DeviceBoundary", "TooLarge",
             "OpenFailed", "Changed", "RootChanged", "RootEscape"}

TypeOK ==
  /\ policy \in {"candidate", "pack"}
  /\ disk \in [Inodes -> Inode]
  /\ entry \in (Inodes \ {Elsewhere}) \cup {None} /\ {before, fd} \subseteq Inodes \cup {None}
  /\ rootPinned \in BOOLEAN /\ parentReal \in BOOLEAN /\ strayed \in BOOLEAN
  /\ changes \in 0 .. MaxChanges
  /\ bytes \in Seq(Nat)
  /\ pc \in {"root", "parent", "last", "lookup", "open", "blocked", "fstat", "target", "read",
             "restat", "relookup", "reroot", "done"}
  /\ outcome \in {"none", "ok"} \cup Refusals

\* Where the path leads now, its last link not followed.
Named == IF rootPinned /\ parentReal THEN entry ELSE Elsewhere

\* ... and followed: every symbolic link leads out.
Followed == IF Named # None /\ disk[Named].kind = "symlink" THEN Elsewhere ELSE Named

\* The file that the path stands for, where it should be.
Offer ==
  IF rootPinned /\ parentReal /\ entry # None
    THEN {[inode |-> entry, data |-> disk[entry].data]} ELSE {}

Init ==
  /\ policy \in {"candidate", "pack"}
  /\ disk \in InitialDisk
  /\ entry \in (Inodes \ {Elsewhere}) \cup {None}
  /\ rootPinned \in BOOLEAN /\ parentReal \in BOOLEAN /\ changes = 0
  /\ before = None /\ fd = None /\ opened = None /\ strayed = FALSE
  /\ bytes = <<>> /\ pc = "root" /\ outcome = "none"
  /\ offered = Offer

-----------------------------------------------------------------------------
Refuse(error) == pc' = "done" /\ outcome' = error
Pass(to)      == pc' = to /\ UNCHANGED outcome

\* The verdict of a check: refused for `error`, or passed on.
Check(error, to) == IF error = "ok" THEN Pass(to) ELSE Refuse(error)

\* validate_regular_metadata; verify_file_metadata, which asks for the device
\* before the links
Metadata(i) ==
  LET linked  == disk[i].links # 1
      foreign == ~disk[i].sameDevice
  IN IF disk[i].kind # "file"                                        THEN "NotRegular"
     ELSE IF foreign /\ (policy = "pack" \/ ~linked)                 THEN "DeviceBoundary"
     ELSE IF linked                                                  THEN "HardLink"
     ELSE IF policy = "candidate" /\ Len(disk[i].data) > Limit       THEN "TooLarge"
     ELSE "ok"

VerifyRoot ==
  /\ pc = "root"
  /\ IF rootPinned THEN Pass("parent") ELSE Refuse("RootChanged")
  /\ UNCHANGED <<world, before, fd, opened, strayed, bytes, offered>>

\* validate_components, verify_components: the directory of the file
VerifyParent ==
  /\ pc = "parent"
  /\ IF parentReal \/ ~rootPinned
       THEN Pass(IF policy = "pack" THEN "last" ELSE "lookup")
       ELSE Refuse("SymbolicLink")
  /\ UNCHANGED <<world, before, fd, opened, strayed, bytes, offered>>

\* verify_components: the file itself, and canonicalize
VerifyLast ==
  /\ pc = "last"
  /\ Check(CASE Named = None                   -> "Missing"
             [] disk[Named].kind = "symlink"   -> "SymbolicLink"
             [] ~disk[Named].sameDevice        -> "DeviceBoundary"
             [] ~parentReal /\ rootPinned      -> "RootEscape"
             [] OTHER                          -> "ok", "lookup")
  /\ UNCHANGED <<world, before, fd, opened, strayed, bytes, offered>>

\* Mutant: special files are left to the check of the open file.
LookupUnchecked ==
  LET i == IF policy = "pack" THEN Followed ELSE Named IN
  /\ pc = "lookup"
  /\ before' = i
  /\ Check(CASE i = None              -> "Missing"
             [] disk[i].kind = "fifo" -> "ok"
             [] OTHER                 -> Metadata(i), "open")
  /\ UNCHANGED <<world, fd, opened, strayed, bytes, offered>>

Lookup ==
  LET i == IF policy = "pack" THEN Followed ELSE Named IN
  /\ pc = "lookup"
  /\ before' = i
  /\ Check(IF i = None THEN "Missing" ELSE Metadata(i), "open")
  /\ UNCHANGED <<world, fd, opened, strayed, bytes, offered>>

\* A candidate is opened with O_NOFOLLOW. Neither policy asks for O_NONBLOCK: a
\* FIFO that has come since the lookup holds the reader up.
Open ==
  /\ pc = "open"
  /\ IF Followed = None \/ (policy = "candidate" /\ Followed # Named)
       THEN /\ Refuse(IF policy = "pack" THEN "Missing" ELSE "OpenFailed")
            /\ UNCHANGED <<fd, strayed>>
       ELSE /\ Pass(IF disk[Followed].kind = "fifo" THEN "blocked" ELSE "fstat")
            /\ fd' = Followed
            /\ strayed' = (Followed = Elsewhere /\ rootPinned)
  /\ UNCHANGED <<world, before, opened, bytes, offered>>

Fstat ==
  /\ pc = "fstat"
  /\ opened' = disk[fd]
  /\ Check(CASE policy = "pack" /\ Metadata(fd) # "ok" -> Metadata(fd)
             [] fd # before -> "Changed"
             [] OTHER -> Metadata(fd), "target")
  /\ UNCHANGED <<world, before, fd, strayed, bytes, offered>>

\* readlink of /proc/self/fd: the open file still has the expected path
\* (candidate), has any path below the root (pack).
AtTarget ==
  /\ ~strayed
  /\ policy = "candidate"               => Named = fd
  /\ policy = "pack" /\ fd # Elsewhere  => rootPinned /\ parentReal

VerifyTarget ==
  /\ pc = "target"
  /\ IF AtTarget THEN Pass("read") ELSE Refuse("RootEscape")
  /\ UNCHANGED <<world, before, fd, opened, strayed, bytes, offered>>

\* take(maximum_bytes + 1)
More == Len(bytes) < Len(disk[fd].data) /\ Len(bytes) < Limit + 1

Read ==
  /\ pc = "read"
  /\ IF More
       THEN bytes' = Append(bytes, disk[fd].data[Len(bytes) + 1]) /\ UNCHANGED <<pc, outcome>>
       ELSE Check(IF Len(bytes) > Limit THEN "TooLarge" ELSE "ok", "restat") /\ UNCHANGED bytes
  /\ UNCHANGED <<world, before, fd, opened, strayed, offered>>

\* Mutant: the time stamps are not compared.
SameSnapshotBySize ==
  /\ Len(disk[fd].data) = Len(opened.data)
  /\ policy = "candidate" => Len(disk[fd].data) = Len(bytes) /\ disk[fd].links = opened.links

\* same_stable_metadata and the length, same_snapshot
SameSnapshot ==
  /\ disk[fd].stamp = opened.stamp
  /\ Len(disk[fd].data) = Len(opened.data)
  /\ policy = "candidate" => Len(disk[fd].data) = Len(bytes) /\ disk[fd].links = opened.links

Restat ==
  /\ pc = "restat"
  /\ IF SameSnapshot THEN Pass("relookup") ELSE Refuse("Changed")
  /\ UNCHANGED <<world, before, fd, opened, strayed, bytes, offered>>

RelookupVerdict ==
  CASE Named = None -> "Changed"
    [] policy = "pack" /\ disk[Named].kind = "symlink" -> "SymbolicLink"
    [] policy = "pack" /\ Metadata(Named) # "ok"       -> Metadata(Named)
    [] Named # fd   -> "Changed"
    [] OTHER        -> "ok"

Relookup ==
  /\ pc = "relookup"
  /\ Check(RelookupVerdict, "reroot")
  /\ UNCHANGED <<world, before, fd, opened, strayed, bytes, offered>>

Reroot ==
  /\ pc = "reroot"
  /\ Refuse(IF rootPinned THEN "ok" ELSE "RootChanged")
  /\ UNCHANGED <<world, before, fd, opened, strayed, bytes, offered>>

-----------------------------------------------------------------------------
(* The others.                                                             *)

Change ==
  /\ changes < MaxChanges /\ pc # "done"
  /\ changes' = changes + 1
  /\ offered' = offered \cup Offer'

\* Blocks that are written are new: `changes` tells them apart.
Store(i, data) == disk' = [disk EXCEPT ![i].data = data, ![i].stamp = changes + 1]

WriteFile ==
  /\ \E i \in Inodes :
       /\ disk[i].kind = "file"
       /\ \/ \E k \in DOMAIN disk[i].data : Store(i, [disk[i].data EXCEPT ![k] = 10 + changes])
          \/ Store(i, Append(disk[i].data, 10 + changes))
          \/ disk[i].data # <<>> /\ Store(i, <<>>)
  /\ UNCHANGED <<entry, rootPinned, parentReal, reader>>
  /\ Change

LinkFile ==
  /\ \E i \in Inodes : disk' = [disk EXCEPT ![i].links = @ + 1, ![i].stamp = changes + 1]
  /\ UNCHANGED <<entry, rootPinned, parentReal, reader>>
  /\ Change

\* rename over the name, or unlink: the old file loses a link
ReplaceEntry ==
  /\ entry' \in ((Inodes \ {Elsewhere}) \cup {None}) \ {entry}
  /\ disk' = IF entry = None \/ disk[entry].links = 0 THEN disk
             ELSE [disk EXCEPT ![entry].links = @ - 1, ![entry].stamp = changes + 1]
  /\ UNCHANGED <<rootPinned, parentReal, reader>>
  /\ Change

\* The directory makes way for a link to one outside, and comes back.
ReplaceParent ==
  /\ parentReal' = ~parentReal
  /\ UNCHANGED <<disk, entry, rootPinned, reader>>
  /\ Change

\* The root makes way for another directory with a file of that path. It
\* does not come back: two looks at it, one before and one after the read,
\* cannot tell ("assumes the host supplies a stable mount namespace").
ReplaceRoot ==
  /\ rootPinned
  /\ rootPinned' = FALSE
  /\ UNCHANGED <<disk, entry, parentReal, reader>>
  /\ Change

\* Somebody opens the FIFO for writing, which lets the reader's open return.
WriterComes ==
  /\ pc = "blocked"
  /\ Pass("fstat")
  /\ UNCHANGED <<world, policy, before, fd, opened, strayed, bytes, offered>>

Reads  ==
  /\ UNCHANGED policy
  /\ \/ VerifyRoot \/ VerifyParent \/ VerifyLast \/ Lookup \/ Open \/ Fstat \/ VerifyTarget
     \/ Read \/ Restat \/ Relookup \/ Reroot
Others == WriterComes \/ WriteFile \/ LinkFile \/ ReplaceEntry \/ ReplaceParent \/ ReplaceRoot

Next == Reads \/ Others
Spec == Init /\ [][Next]_vars /\ WF_vars(Reads)

-----------------------------------------------------------------------------
\* A read that succeeds is atomic: it returns all that one file held at the
\* moment its descriptor was examined, and that file has been at the path
\* within the pinned root. Nothing is pieced together of several moments, and
\* nothing comes from elsewhere. A candidate was at the path with just these
\* bytes; a pack source may have been moved away, rewritten, read, rewritten
\* and moved back, as it is only looked up before and after.
ReadIsAtomic ==
  outcome = "ok" =>
    /\ bytes = opened.data
    /\ \E o \in offered : o.inode = fd /\ (policy = "candidate" => o.data = bytes)

\* However the file grows, no more than one block past the limit is held.
Bounded == Len(bytes) <= Limit + 1

\* A file that nobody touches is returned just as it is, or refused for
\* what it is: there are no false alarms and none is missed.
QuietIsExact ==
  pc = "done" /\ changes = 0 =>
    IF /\ rootPinned /\ parentReal /\ entry # None
       /\ disk[entry].kind = "file" /\ disk[entry].links = 1 /\ disk[entry].sameDevice
       /\ Len(disk[entry].data) <= Limit
      THEN outcome = "ok" /\ bytes = disk[entry].data
      ELSE outcome \in Refusals \ {"Changed", "RootEscape", "OpenFailed"}

\* A read is of one moment, never holds more than it may, and is exact when
\* nobody interferes.
ReadsAreSound == TypeOK /\ ReadIsAtomic /\ Bounded /\ QuietIsExact

\* The read comes to an end, whatever the others do; or it waits in open(2), but
\* only at a FIFO that somebody put there after the read began.
ReadEnds == <>(pc = "done" \/ (pc = "blocked" /\ changes > 0))
=============================================================================
