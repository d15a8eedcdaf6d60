---------------------------- MODULE MCLocalRead ----------------------------
(***************************************************************************)
(* The instance of LocalReads for TLC. CandidateTree and StableRead share  *)
(* no state, so one run checks them as alternatives: `part` says which of  *)
(* the two moves, and the other rests in an initial state of its own.      *)
(***************************************************************************)
EXTENDS LocalReads

CONSTANTS root, d1, d2, d3, file, other, link, outside
-----------------------------------------------------------------------------
(* CandidateTree: a tree of two levels, sound or with one thing wrong, and *)
(* another directory that may take d's place; or of three levels, where a  *)
(* directory can be looked up along a way that was changed meanwhile.      *)

MCDirs == {root, d1, d2, d3}

MCNames == <<"A", "a", "b", "d", "u">>
MCAllowedFiles == {<<>>, <<"u">>}
MCLower(n) == IF n = "A" THEN "a" ELSE n

Empty == [n \in {"A", "a", "b", "d", "u"} |-> "absent"]
Sound == [x \in MCDirs |-> CASE x = root -> [Empty EXCEPT !["a"] = "file", !["d"] = d1]
                             [] OTHER    -> [Empty EXCEPT !["b"] = "file"]]

Nested == [Sound EXCEPT ![root]["a"] = "absent", ![d1]["d"] = d2]

MCManifests ==
  {{<<"a">>, <<"d", "b">>}, {<<"a">>, <<"A">>}, {<<"d", "b">>, <<"d", "d", "b">>},
   {<<"d", "b">>, <<"d", "d", "d", "b">>}}

MCInitialTrees ==
  {Sound, [Sound EXCEPT ![root]["d"] = "absent", ![root]["A"] = "file"],
   Nested, [Nested EXCEPT ![d2]["d"] = d3],
   [Sound EXCEPT ![d1]["a"] = "file", ![d1]["d"] = "file", ![d1]["u"] = "file"]} \cup
  {[Sound EXCEPT ![root]["a"] = t] : t \in NotDirs} \cup
  {[Sound EXCEPT ![root]["u"] = t] : t \in Things \ {d1, d3, root}} \cup
  {[Sound EXCEPT ![d1]["u"] = t] : t \in {"file", "symlink", d2}}

MCChanges ==
  {[dir |-> root, name |-> "a", thing |-> t] : t \in {"absent", "file", "symlink"}} \cup
  {[dir |-> root, name |-> "u", thing |-> t] : t \in {"absent", "file"}} \cup
  {[dir |-> root, name |-> "d", thing |-> t] : t \in {"absent", d1, d2, "file"}} \cup
  {[dir |-> d1, name |-> "b", thing |-> t] : t \in {"absent", "linked"}} \cup
  {[dir |-> d1, name |-> "u", thing |-> t] : t \in {"absent", "file"}}
-----------------------------------------------------------------------------
(* StableRead: a file of every sort, another that may take its place, and  *)
(* a symbolic link.                                                        *)

MCInodes == {file, other, link, outside}

Plain(data) == [kind |-> "file", sameDevice |-> TRUE, links |-> 1, data |-> data, stamp |-> 0]

\* Two blocks are as much as may be read.
MCInitialDisk ==
  {[i \in MCInodes |-> CASE i = file  -> f
                       [] i = other -> Plain(<<3, 4>>)
                       [] i = link  -> [Plain(<<>>) EXCEPT !.kind = "symlink"]
                       [] OTHER     -> Plain(<<5, 6>>)] :
     f \in {Plain(<<>>), Plain(<<1, 2>>), Plain(<<1, 2, 3>>),
            [Plain(<<1, 2>>) EXCEPT !.links = 2], [Plain(<<1, 2>>) EXCEPT !.sameDevice = FALSE],
            [Plain(<<>>) EXCEPT !.kind = "fifo"]}}
-----------------------------------------------------------------------------
VARIABLE part

ASSUME LocalAssumption == CandidateTreeAssumption

TreeRests ==
  tree = Sound /\ declared = {<<"a">>, <<"d", "b">>} /\ allowed = <<>> /\ Init

FileRests ==
  /\ policy = "pack" /\ rootPinned = TRUE /\ parentReal = TRUE /\ entry = other
  /\ files \in {d \in MCInitialDisk : d[file] = Plain(<<>>)} /\ File!Init

MCInit ==
  \/ part = "file" /\ TreeRests /\ File!Init
  \/ part = "tree" /\ FileRests /\ Init

MCNext ==
  /\ UNCHANGED part
  /\ \/ part = "file" /\ File!Next /\ UNCHANGED vars
     \/ part = "tree" /\ Next /\ UNCHANGED fileVars

\* The fairness of both: the walk, or the reader, runs on.
MCFairness == WF_vars(part = "tree" /\ Step) /\ WF_fileVars(part = "file" /\ File!Reads)

MCSpec == MCInit /\ [][MCNext]_<<part, vars, fileVars>> /\ MCFairness

\* What is begun ends, whatever others do; or it waits in open(2), but only at a
\* FIFO that somebody put there after the read began.
LoadsEnd == (part = "tree" => LoadEnds) /\ (part = "file" => File!ReadEnds)
=============================================================================
