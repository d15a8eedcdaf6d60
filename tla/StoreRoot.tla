----------------------------- MODULE StoreRoot -----------------------------
(***************************************************************************)
(* How a store comes to be: prepare_store_root of                          *)
(* crates/invokrum-install-delivery/src/lib.rs, then open_store and        *)
(* ensure_private_directory of crates/invokrum-install-linux/src/store.rs. *)
(* Several first installs do this at once, any of them may be killed, and  *)
(* whoever asked for a refused one may ask again.                          *)
(*                                                                         *)
(* What is at a path: nothing, a directory by its mode, a file or a link.  *)
(* Nobody else changes the paths while this goes on, as the documentation  *)
(* asks of the host.                                                       *)
(***************************************************************************)
EXTENDS Naturals, Sequences, FiniteSets, EarlyReturn

CONSTANTS
  Procs,
  StartTrees,   \* what may be there at the start, by path
  MaxKills      \* bound: processes killed

\* The root, then the directories that open_store wants, in its order.
Order == <<"root", ".staging", ".locks", "sha256">>
Paths == {Order[i] : i \in DOMAIN Order}
Subs  == Paths \ {"root"}

\* The modes that matter: 0700; 0755, not writable by others; 0775; and one
\* that lacks a bit of the owner's.
Directories == {"private", "readable", "shared", "stripped"}
Things      == Directories \cup {"absent", "file", "link"}

\* What is assumed of the constants.
StoreRootAssumption ==
  /\ MaxKills \in Nat
  /\ StartTrees \subseteq [Paths -> Things]

VARIABLES
  umaskStrips, \* does the umask take bits from the owner?
  at,        \* what is at each path
  synced,    \* has the root been synced since the path appeared in it?
  pc, next,  \* by process: its step, and the path it is about
  outcome,
  start, made, lost, kills  \* ghosts: the first tree, who made a path, who found
                            \* one made by another when about to make it

vars == <<umaskStrips, at, synced, pc, next, outcome, start, made, lost, kills>>

Failures == {"Prepare", "RootUnavailable", "RootSymbolicLink", "RootNotDirectory",
             "StorePathUnsafe", "Io"}

Path(p) == Order[next[p]]

\* protected_root_mode, safe_private_directory
ProtectedRoot(thing) == thing \in {"private", "readable"}

SafePrivate(thing) == thing = "private"

Goto(p, step) == pc' = [pc EXCEPT ![p] = step]

Refuse(p, why) ==
  /\ Goto(p, "refused")
  /\ outcome' = [outcome EXCEPT ![p] = why]

Init ==
  /\ umaskStrips \in BOOLEAN
  /\ start \in StartTrees /\ at = start
  /\ synced = {s \in Subs : start[s] # "absent"}
  /\ pc = [p \in Procs |-> "prepare"] /\ next = [p \in Procs |-> 1]
  /\ outcome = [p \in Procs |-> Ok]
  /\ made = [p \in Procs |-> {}] /\ lost = [p \in Procs |-> <<>>] /\ kills = 0

\* prepare_store_root: is there anything at all? Its parents are made as well,
\* which does not fail when another process makes them first.
Prepare(p) ==
  /\ pc[p] = "prepare"
  /\ Goto(p, IF at["root"] = "absent" THEN "make" ELSE "open")
  /\ UNCHANGED <<at, synced, next, outcome, start, made, lost, kills>>

\* mkdir with mode 0700, and when another process was faster.
Make(p) ==
  /\ pc[p] = "make" /\ at[Path(p)] = "absent"
  /\ at' = [at EXCEPT ![Path(p)] = IF umaskStrips THEN "stripped" ELSE "private"]
  /\ synced' = synced \ {Path(p)}
  /\ made' = [made EXCEPT ![p] = @ \cup {Path(p)}]
  /\ Goto(p, "secure")
  /\ UNCHANGED <<next, outcome, start, lost, kills>>

\* Mutant: a process that was slower waits for the path to go away.
MakeLosesNever(p) ==
  /\ pc[p] = "make" /\ at[Path(p)] # "absent"
  /\ FALSE /\ UNCHANGED vars

MakeLoses(p) ==
  /\ pc[p] = "make" /\ at[Path(p)] # "absent"
  /\ lost' = [lost EXCEPT ![p] = Append(@, Path(p))]
  /\ Refuse(p, IF Path(p) = "root" THEN "Prepare" ELSE "Io")
  /\ UNCHANGED <<at, synced, next, start, made, kills>>

\* Mutant: the mode is left as the umask made it.
SecureNothing(p) ==
  /\ pc[p] = "secure"
  /\ Goto(p, IF Path(p) = "root" THEN "open" ELSE "recheck")
  /\ UNCHANGED <<at, synced, next, outcome, start, made, lost, kills>>

\* set_permissions(0700)
Secure(p) ==
  /\ pc[p] = "secure"
  /\ at' = [at EXCEPT ![Path(p)] = "private"]
  /\ Goto(p, IF Path(p) = "root" THEN "open" ELSE "recheck")
  /\ UNCHANGED <<synced, next, outcome, start, made, lost, kills>>

\* open_store, up to ensure_store_root.
OpenRefusal ==
  FirstOf(<<
    When(at["root"] = "absent", "RootUnavailable"),
    When(at["root"] = "link", "RootSymbolicLink"),
    When(at["root"] = "file", "RootNotDirectory"),
    When(~ProtectedRoot(at["root"]), "StorePathUnsafe")>>)

Open(p) ==
  /\ pc[p] = "open"
  /\ IF OpenRefusal = Ok
     THEN /\ Goto(p, "look") /\ next' = [next EXCEPT ![p] = 2]
          /\ UNCHANGED outcome
     ELSE Refuse(p, OpenRefusal) /\ UNCHANGED next
  /\ UNCHANGED <<at, synced, start, made, lost, kills>>

\* On to the next directory, or done.
Advance(p) ==
  IF next[p] = Len(Order)
  THEN Goto(p, "opened") /\ UNCHANGED next
  ELSE Goto(p, "look") /\ next' = [next EXCEPT ![p] = @ + 1]

\* ensure_private_directory: the directory as it is found ...
Look(p) ==
  /\ pc[p] = "look"
  /\ CASE at[Path(p)] = "absent"    -> Goto(p, "make") /\ UNCHANGED <<next, outcome>>
       [] SafePrivate(at[Path(p)])  -> Advance(p) /\ UNCHANGED outcome
       [] OTHER -> Refuse(p, "StorePathUnsafe") /\ UNCHANGED next
  /\ UNCHANGED <<at, synced, start, made, lost, kills>>

\* ... or as it was made, which is then synced.
Recheck(p) ==
  /\ pc[p] = "recheck"
  /\ SafePrivate(at[Path(p)])
  /\ Goto(p, "sync")
  /\ UNCHANGED <<at, synced, next, outcome, start, made, lost, kills>>

\* Mutant: only the last directory is synced.
SyncLast(p) ==
  /\ pc[p] = "sync"
  /\ synced' = IF next[p] = Len(Order) THEN synced \cup {Path(p)} ELSE synced
  /\ Advance(p)
  /\ UNCHANGED <<at, outcome, start, made, lost, kills>>

Sync(p) ==
  /\ pc[p] = "sync"
  /\ synced' = synced \cup {s \in Subs : at[s] # "absent"}
  /\ Advance(p)
  /\ UNCHANGED <<at, outcome, start, made, lost, kills>>

Kill(p) ==
  /\ pc[p] \notin {"opened", "refused", "killed"} /\ kills < MaxKills
  /\ kills' = kills + 1
  /\ Goto(p, "killed")
  /\ UNCHANGED <<umaskStrips, at, synced, next, outcome, start, made, lost>>

\* The command is given again.
Retry(p) ==
  /\ pc[p] = "refused"
  /\ Goto(p, "prepare")
  /\ next' = [next EXCEPT ![p] = 1]
  /\ outcome' = [outcome EXCEPT ![p] = Ok]
  /\ UNCHANGED <<umaskStrips, at, synced, start, made, lost, kills>>

Step(p) ==
  /\ UNCHANGED umaskStrips
  /\ \/ Prepare(p) \/ Make(p) \/ MakeLoses(p) \/ Secure(p) \/ Open(p)
     \/ Look(p) \/ Recheck(p) \/ Sync(p)

Next == \E p \in Procs : Step(p) \/ Kill(p) \/ Retry(p)

\* A process that was not killed runs on, and who was refused asks again.
Fairness == \A p \in Procs : WF_vars(Step(p)) /\ WF_vars(Retry(p))

Spec == Init /\ [][Next]_vars /\ Fairness
-----------------------------------------------------------------------------
Steps == {"prepare", "make", "secure", "open", "look", "recheck", "sync",
          "opened", "refused", "killed"}

\* What is not as it should be at the start, and a directory that a process has
\* made and not yet made private, or never will since it was killed.
Unsafe     == {s \in Paths :
                 start[s] \notin {"absent", "private"} /\ <<s, start[s]>> # <<"root", "readable">>}
Unfinished == {Path(p) : p \in {q \in Procs : pc[q] \in {"secure", "killed"}
                                              /\ Path(q) \in made[q]}}

TypeOK ==
  /\ umaskStrips \in BOOLEAN /\ at \in [Paths -> Things] /\ synced \subseteq Subs
  /\ pc \in [Procs -> Steps] /\ next \in [Procs -> DOMAIN Order]
  /\ outcome \in [Procs -> Failures \cup {Ok}]
  /\ \A p \in Procs : (outcome[p] # Ok) <=> (pc[p] = "refused")
  /\ \A p \in Procs : pc[p] = "recheck" => at[Path(p)] = "private"
  /\ kills \in 0 .. MaxKills

\* A directory that an install makes belongs to its user alone from its first
\* moment: at no point between mkdir and chmod, or after a kill there, does it
\* admit anyone else (the mode given to DirBuilder).
PrivateFromBirth ==
  \A p \in Procs : \A s \in made[p] : at[s] \in {"private", "stripped"}

\* An opened store has its four directories, each as private as it must be,
\* whoever made them and however the processes took turns.
OpenedIsPrivate ==
  \A p \in Procs : pc[p] = "opened" =>
    at["root"] \in {"private", "readable"} /\ \A s \in Subs : at[s] = "private"

\* Racing processes never make each other call the store unsafe: that happens
\* when it was so from the start, or when the umask takes bits from the owner
\* and the path's maker has not come to its chmod yet, or was killed before it.
UnsafeHasCause ==
  [][\A p \in Procs : pc[p] # "refused" /\ outcome'[p] = "StorePathUnsafe" =>
       Unsafe # {} \/ (umaskStrips /\ Path(p) \in Unfinished)]_vars

\* A process may be refused because another was faster, but the path is there from
\* then on, so never twice over one path: whoever asks again four times is through.
LostOnlyOnce ==
  \A p \in Procs :
    /\ \A i \in DOMAIN lost[p] : at[lost[p][i]] # "absent"
    /\ \A i, j \in DOMAIN lost[p] : i # j => lost[p][i] # lost[p][j]

\* The directories of an opened store survive a power loss, except one that
\* another process has made and not synced: that one is used as it is found.
\* The root's own name is never synced by this code.
OpenedIsDurable ==
  \A p \in Procs : pc[p] = "opened" =>
    \A s \in Subs \ synced : \E q \in Procs \ {p} : s \in made[q] /\ pc[q] # "opened"

\* An opened store is private, was so all along, and survives a power loss.
PrivateAndDurable == TypeOK /\ PrivateFromBirth /\ OpenedIsPrivate /\ OpenedIsDurable

\* A refusal has a cause outside the race, or does not come again.
RefusedForCause == []LostOnlyOnce /\ UnsafeHasCause

\* Whoever asks often enough gets the store, unless it was unsafe from the
\* start or a kill under such an umask has left a directory stripped for good.
OpensInTheEnd ==
  \A p \in Procs :
    <>(pc[p] \in {"opened", "killed"} \/ Unsafe # {} \/ (umaskStrips /\ kills > 0))
=============================================================================
