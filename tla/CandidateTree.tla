--------------------------- MODULE CandidateTree ---------------------------
(***************************************************************************)
(* load_candidate of crates/invokrum-acquisition-linux/src/lib.rs: the     *)
(* tree under a candidate root is walked, directory by directory, and must *)
(* be the tree its manifest declares; then the declared files are read.    *)
(* Other processes change the tree meanwhile.                              *)
(*                                                                         *)
(* A directory is an inode with an entry for every name and a stamp that   *)
(* every change of an entry renews. Reading one file is StableRead's: here *)
(* it either happens at one moment or is refused. The root stays what it   *)
(* is; what happens when it is exchanged, or when a FIFO takes the place   *)
(* of what is about to be opened, is StableRead's as well.                 *)
(***************************************************************************)
EXTENDS Naturals, Sequences, FiniteSets, EarlyReturn

CONSTANTS
  Dirs, Root,      \* directory inodes
  Names,           \* names in the order they are sorted in
  Lower(_),        \* to_ascii_lowercase of a name
  Manifests,       \* sets of declared paths
  AllowedFiles,    \* what load_with_allowed_file may permit, <<>> for load
  InitialTrees,
  Changes,         \* what others may do: [dir, name, thing]
  MaxDepth,        \* MAX_DIRECTORY_DEPTH
  MaxEntries,      \* MAX_VISIBLE_ENTRIES
  MaxChanges       \* bound: changes during a load

\* What an entry may be, besides a directory: "big" is a regular file over its
\* limit, "linked" one with a second hard link, "foreign" on another device.
NotDirs == {"absent", "file", "big", "linked", "foreign", "symlink", "other"}
Things  == NotDirs \cup Dirs
NameSet == {Names[i] : i \in DOMAIN Names}

\* What is assumed of the constants.
CandidateTreeAssumption ==
  /\ Root \in Dirs /\ Dirs \cap NotDirs = {} /\ {MaxDepth, MaxEntries, MaxChanges} \subseteq Nat
  /\ Names \in Seq(NameSet) /\ \A i, j \in DOMAIN Names : Names[i] = Names[j] => i = j
  /\ \A m \in Manifests : m \subseteq Seq(NameSet) /\ IsFiniteSet(m)
  /\ AllowedFiles \subseteq Seq(NameSet)
  /\ InitialTrees \subseteq [Dirs -> [NameSet -> Things]]
  /\ Changes \subseteq [dir : Dirs, name : NameSet, thing : Things]

VARIABLES
  tree, stamp,     \* by directory
  declared, allowed,
  open,            \* the directories being inspected, outermost first
  observed,        \* files seen
  logical,         \* ObservedTree::logical_paths
  entries,         \* entries seen
  pc, read, verdict,
  changes,         \* how often others changed the tree
  changed, visited \* ghosts: which entries they changed, directories inspected

disk == <<tree, stamp, changes, changed>>
walk == <<declared, allowed, open, observed, logical, entries, pc, read, verdict, visited>>
vars == <<disk, walk>>

Refusals ==
  {"TraversalLimitExceeded", "TreeChanged", "SymbolicLink", "DeviceBoundary",
   "UndeclaredEntry", "NonRegularFile", "HardLinkedFile", "FileTooLarge",
   "LogicalPathCollision", "MissingDeclaredFile", "FileRefused"}
-----------------------------------------------------------------------------
\* ExpectedTree
Files         == declared \cup ({allowed} \ {<<>>})
Directories   == UNION {{SubSeq(p, 1, n) : n \in 1 .. Len(p) - 1} : p \in Files}
Folded(path)  == [i \in DOMAIN path |-> Lower(path[i])]
TooDeep       == \E p \in Files : Len(p) > MaxDepth + 1

\* What is at a path now, through whatever directories are there now.
Resolve(t, path) ==
  LET at[n \in 0 .. Len(path)] ==
        IF n = 0 THEN Root
        ELSE IF at[n - 1] \in Dirs THEN t[at[n - 1]][path[n]] ELSE "absent"
  IN at[Len(path)]

\* The names in a directory, in order.
NamesIn(contents) ==
  LET upTo[i \in 0 .. Len(Names)] ==
        IF i = 0 THEN <<>>
        ELSE IF contents[Names[i]] = "absent" THEN upTo[i - 1] ELSE Append(upTo[i - 1], Names[i])
  IN upTo[Len(Names)]
Listing(dir)      == NamesIn(tree[dir])

Frame(path, dir) == [path |-> path, dir |-> dir, stamp |-> stamp[dir], left |-> <<>>]
Top     == open[Len(open)]
Entry   == tree[Top.dir][Top.left[1]]
Logical == Append(Top.path, Top.left[1])
Pop     == SubSeq(open, 1, Len(open) - 1)
Rest    == [open EXCEPT ![Len(open)].left = Tail(@)]

Init ==
  /\ tree \in InitialTrees /\ stamp = [d \in Dirs |-> 0] /\ changes = 0 /\ changed = {}
  /\ declared \in Manifests /\ allowed \in AllowedFiles
  /\ open = <<>> /\ observed = {} /\ logical = {} /\ entries = 0
  /\ pc = "start" /\ read = {} /\ verdict = Ok /\ visited = {}

Stop(why) == pc' = "done" /\ verdict' = why

Refuse(why) ==
  /\ Stop(why)
  /\ UNCHANGED <<disk, declared, allowed, open, observed, logical, entries, read, visited>>

\* ExpectedTree::from_manifest, then inspect_directory for the root: it is opened
\* and its metadata kept.
Start ==
  /\ pc = "start"
  /\ IF TooDeep THEN Refuse("TraversalLimitExceeded")
     ELSE /\ open' = <<Frame(<<>>, Root)>> /\ pc' = "list"
          /\ UNCHANGED <<disk, declared, allowed, observed, logical, entries, read, verdict, visited>>

\* read_dir through the descriptor: all entries are collected and counted.
List ==
  /\ pc = "list"
  /\ LET names == Listing(Top.dir)
     IN IF entries + Len(names) > MaxEntries
        THEN Refuse("TraversalLimitExceeded")
        ELSE /\ open' = [open EXCEPT ![Len(open)].left = names]
             /\ visited' = visited \cup {[path |-> Top.path, dir |-> Top.dir, names |-> names]}
             /\ pc' = "entry" /\ entries' = entries + Len(names)
             /\ UNCHANGED <<disk, declared, allowed, observed, logical, read, verdict>>

\* Mutant: what is not declared is passed over when it is a file.
EntryRefusalLenient ==
  FirstOf(<<
    When(\E p \in logical \ {Logical} : Folded(p) = Folded(Logical), "LogicalPathCollision"),
    When(Entry = "absent", "TreeChanged"),
    When(Entry = "symlink", "SymbolicLink"),
    When(Entry = "foreign", "DeviceBoundary"),
    When(Entry \in Dirs /\ Logical \notin Directories, "UndeclaredEntry"),
    When(Entry = "other", "NonRegularFile"),
    When(Entry = "linked", "HardLinkedFile"),
    When(Entry = "big", "FileTooLarge")>>)

\* What is refused of one entry, looked up in the open directory by its name.
EntryRefusal ==
  FirstOf(<<
    When(\E p \in logical \ {Logical} : Folded(p) = Folded(Logical), "LogicalPathCollision"),
    When(Entry = "absent", "TreeChanged"),
    When(Entry = "symlink", "SymbolicLink"),
    When(Entry = "foreign", "DeviceBoundary"),
    When(Entry \in Dirs /\ Logical \notin Directories, "UndeclaredEntry"),
    When(Entry = "other", "NonRegularFile"),
    When(Entry = "linked", "HardLinkedFile"),
    When(Entry \notin Dirs /\ Logical \notin Files, "UndeclaredEntry"),
    When(Entry = "big", "FileTooLarge")>>)

RefuseEntry ==
  /\ pc = "entry" /\ Top.left # <<>> /\ EntryRefusal # Ok
  /\ Refuse(EntryRefusal)

SeeFile ==
  /\ pc = "entry" /\ Top.left # <<>> /\ EntryRefusal = Ok /\ Entry \notin Dirs
  /\ logical' = logical \cup {Logical} /\ observed' = observed \cup {Logical}
  /\ open' = Rest
  /\ UNCHANGED <<disk, declared, allowed, entries, pc, read, verdict, visited>>

\* A declared directory: its own inspection comes before the next entry.
SeeDirectory ==
  /\ pc = "entry" /\ Top.left # <<>> /\ EntryRefusal = Ok /\ Entry \in Dirs
  /\ logical' = logical \cup {Logical}
  /\ pc' = "enter"
  /\ UNCHANGED <<disk, declared, allowed, open, observed, entries, read, verdict, visited>>

\* inspect_directory for a directory in another: by its whole path, and the
\* descriptor must still be at that path.
Enter ==
  /\ pc = "enter" /\ Resolve(tree, Logical) \in Dirs /\ Len(open) <= MaxDepth
  /\ open' = Append(Rest, Frame(Logical, Resolve(tree, Logical)))
  /\ pc' = "list"
  /\ UNCHANGED <<disk, declared, allowed, observed, logical, entries, read, verdict, visited>>

EnterFails ==
  /\ pc = "enter" /\ (Resolve(tree, Logical) \notin Dirs \/ Len(open) > MaxDepth)
  /\ Refuse(IF Len(open) > MaxDepth THEN "TraversalLimitExceeded" ELSE "TreeChanged")

\* Mutant: the descriptor's metadata are not compared once more.
LeaveUnchecked ==
  /\ pc = "entry" /\ Top.left = <<>>
  /\ open' = Pop
  /\ pc' = IF Len(open) = 1 THEN "count" ELSE "entry"
  /\ UNCHANGED <<disk, declared, allowed, observed, logical, entries, read, verdict, visited>>

\* All entries seen: the directory must have the metadata it was opened with.
Leave ==
  /\ pc = "entry" /\ Top.left = <<>>
  /\ IF stamp[Top.dir] # Top.stamp
     THEN Refuse("TreeChanged")
     ELSE /\ open' = Pop
          /\ pc' = IF Len(open) = 1 THEN "count" ELSE "entry"
          /\ UNCHANGED <<disk, declared, allowed, observed, logical, entries, read, verdict, visited>>

\* Mutant: a declared file that is not there is left to the reading, if at all.
CountNothing ==
  /\ pc = "count"
  /\ pc' = "read" /\ read' = declared \ observed
  /\ UNCHANGED <<disk, declared, allowed, open, observed, logical, entries, verdict, visited>>

\* All declared files and the allowed one must have been seen.
Count ==
  /\ pc = "count"
  /\ IF Files \subseteq observed
     THEN /\ pc' = "read"
          /\ UNCHANGED <<disk, declared, allowed, open, observed, logical, entries, read, verdict, visited>>
     ELSE Refuse("MissingDeclaredFile")

\* One declared file after another; the allowed one is not read.
ReadFile ==
  /\ pc = "read"
  /\ \E p \in declared \ read :
       IF Resolve(tree, p) = "file"
       THEN /\ read' = read \cup {p}
            /\ UNCHANGED <<disk, declared, allowed, open, observed, logical, entries, pc, verdict, visited>>
       ELSE Refuse("FileRefused")

Finish ==
  /\ pc = "read" /\ read = declared
  /\ Stop(Ok)
  /\ UNCHANGED <<disk, declared, allowed, open, observed, logical, entries, read, visited>>

Step ==
  \/ Start \/ List \/ RefuseEntry \/ SeeFile \/ SeeDirectory \/ Enter \/ EnterFails
  \/ Leave \/ Count \/ ReadFile \/ Finish

\* Others add, remove or replace an entry.
Change ==
  /\ changes < MaxChanges /\ pc # "done" /\ changes' = changes + 1
  /\ \E c \in Changes :
       /\ tree[c.dir][c.name] # c.thing
       /\ tree' = [tree EXCEPT ![c.dir][c.name] = c.thing]
       /\ stamp' = [stamp EXCEPT ![c.dir] = @ + 1]
       /\ changed' = changed \cup {<<c.dir, c.name>>}
  /\ UNCHANGED walk

Next == Step \/ Change

Spec == Init /\ [][Next]_vars /\ WF_vars(Step)
-----------------------------------------------------------------------------
Loaded == pc = "done" /\ verdict = Ok

TypeOK ==
  /\ tree \in [Dirs -> [NameSet -> Things]] /\ stamp \in [Dirs -> 0 .. MaxChanges]
  /\ pc \in {"start", "list", "entry", "enter", "count", "read", "done"}
  /\ verdict \in Refusals \cup {Ok}
  /\ entries <= MaxEntries /\ Len(open) <= MaxDepth + 1
  /\ observed \subseteq logical /\ read \subseteq declared

\* No file or directory that the manifest does not name, and no link, escapes
\* the load when it is there from beginning to end: whatever happens to other
\* entries meanwhile, the load is refused (inspect_directory).
StrangersAreSeen ==
  Loaded =>
    \A p \in Directories \cup {<<>>} : \A n \in NameSet :
      LET path == Append(p, n)
          Touched == \E i \in 1 .. Len(path) :
                       <<Resolve(tree, SubSeq(path, 1, i - 1)), path[i]>> \in changed
      IN Resolve(tree, p) \in Dirs /\ ~Touched =>
           \/ Resolve(tree, path) = "absent"
           \/ Resolve(tree, path) = "file" /\ path \in Files
           \/ Resolve(tree, path) \in Dirs /\ path \in Directories

\* A directory that passes has, when it is left, the very entries it was listed
\* with: what was listed is what it held at one moment.
ListingIsOneMoment ==
  [][\A i \in DOMAIN open :
       i = Len(open) /\ open' = Pop =>
         \E v \in visited : v.path = Top.path /\ v.dir = Top.dir /\ v.names = Listing(Top.dir)]_vars

\* The directories on the way to the one being inspected have not been changed.
WayStands == \A i \in DOMAIN open : stamp[open[i].dir] = open[i].stamp

\* A directory that has been inspected is still where it was found when the one
\* it is in is left, unless a directory further up has been changed: then it may
\* have been looked up along another way, and the load is refused there. Nothing
\* that was moved in or out of the tree meanwhile passes for a part of it.
DirectoriesStay ==
  [][open # <<>> /\ open' = Pop /\ WayStands =>
       \A v \in visited : Len(v.path) = Len(Top.path) + 1
                          /\ SubSeq(v.path, 1, Len(Top.path)) = Top.path =>
         tree[Top.dir][v.path[Len(v.path)]] = v.dir]_vars

\* Every directory that passes was, as a whole, a part of the tree.
WalkIsSteady == []TypeOK /\ ListingIsOneMoment /\ DirectoriesStay

\* The declared directories that are there, and the paths of all that is in them.
Present == {p \in Directories \cup {<<>>} : Resolve(tree, p) \in Dirs}
Below(d) == {n \in NameSet : tree[d][n] # "absent"}
Paths   == UNION {{Append(p, n) : n \in Below(Resolve(tree, p))} : p \in Present}

\* Left alone, the load succeeds when the tree is exactly what is declared and
\* within the limits, and fails otherwise.
Exact ==
  /\ ~TooDeep
  /\ Paths \ Directories = Files /\ \A p \in Files : Resolve(tree, p) = "file"
  /\ \A p \in Paths \cap Directories : Resolve(tree, p) \in Dirs
  /\ \A p, q \in Paths : Folded(p) = Folded(q) => p = q
  /\ Cardinality(Paths) <= MaxEntries
QuietIsExact == pc = "done" /\ changed = {} => (verdict = Ok <=> Exact)

\* A load ends, whatever others do meanwhile (short of putting a FIFO in the
\* place of what was just looked up, see StableRead).
LoadEnds == <>(pc = "done")
=============================================================================
