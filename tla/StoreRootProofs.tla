-------------------------- MODULE StoreRootProofs --------------------------
(***************************************************************************)
(* Proofs about StoreRoot, for any number of processes, any set of trees   *)
(* to start from, and any number of kills.                                 *)
(***************************************************************************)
EXTENDS StoreRoot, TLAPS

(***************************************************************************)
(* The invariant. A path that has become private stays so, hence what a    *)
(* process has found of the directories behind it is still true; a path    *)
(* that is not what it was at the start is still in its maker's hands.     *)
(***************************************************************************)

\* The steps of ensure_private_directory, once the root has been opened, and of
\* making a directory.
Ensuring == {"look", "recheck", "sync", "opened"}
Making   == {"secure", "recheck", "sync"}

\* Process p has seen to the path that is i-th in the order.
Seen(p, i) == IF i = 1 THEN at["root"] \in {"private", "readable"} ELSE at[Order[i]] = "private"

\* What a process has behind it is as it must be.
BehindInv(p) ==
  /\ pc[p] \in {"prepare", "open"} => next[p] = 1
  /\ pc[p] \in Ensuring => next[p] # 1
  /\ pc[p] \notin {"refused", "killed"} => \A i \in 1 .. next[p] - 1 : Seen(p, i)
  /\ pc[p] = "sync" => Seen(p, next[p])
  /\ pc[p] = "opened" => next[p] = Len(Order) /\ Seen(p, next[p])

\* Who is making a directory has made it.
MakingInv(p) == pc[p] \in Making => Path(p) \in made[p]

\* A directory that is not synced is on its maker's way to be, or never will be.
SyncInv ==
  \A s \in Subs \ synced :
    \/ at[s] = "absent"
    \/ \E q \in Procs : /\ s \in made[q]
                        /\ pc[q] = "killed" \/ (pc[q] \in Making /\ Path(q) = s)

\* What is at a path is what was there at the start, or is private, or lacks the
\* bits that the umask took until its maker gives them, who may have been killed.
CauseInv ==
  \A s \in Paths :
    \/ at[s] = start[s] \/ at[s] = "private"
    \/ at[s] = "stripped" /\ umaskStrips /\ s \in Unfinished

\* Who was once too slow for a path does not go to make it again.
LostInv(p) == pc[p] = "make" => \A i \in DOMAIN lost[p] : lost[p][i] # Path(p)

\* The ghosts.
GhostInv ==
  /\ start \in [Paths -> Things]
  /\ made \in [Procs -> SUBSET Paths] /\ lost \in [Procs -> Seq(Paths)]

PInv ==
  /\ TypeOK /\ GhostInv /\ PrivateFromBirth /\ LostOnlyOnce
  /\ \A p \in Procs : BehindInv(p) /\ MakingInv(p) /\ LostInv(p)
  /\ SyncInv /\ CauseInv

-----------------------------------------------------------------------------
\* The four paths and their order.
LEMMA OrderFacts ==
  /\ Len(Order) = 4 /\ DOMAIN Order = 1 .. 4
  /\ Order[1] = "root" /\ Order[2] = ".staging" /\ Order[3] = ".locks" /\ Order[4] = "sha256"
  /\ Paths = {"root", ".staging", ".locks", "sha256"}
  /\ Subs = {".staging", ".locks", "sha256"}
<1>1. Len(Order) = 4 /\ DOMAIN Order = 1 .. 4
  BY DEF Order
<1>2. Order[1] = "root" /\ Order[2] = ".staging" /\ Order[3] = ".locks" /\ Order[4] = "sha256"
  BY DEF Order
<1>3. Paths = {"root", ".staging", ".locks", "sha256"}
  BY <1>1, <1>2 DEF Paths
<1> QED
  BY <1>1, <1>2, <1>3 DEF Subs

\* Of four checks, the first that applies gives the refusal.
LEMMA FirstOfFour ==
  ASSUME NEW checks, DOMAIN checks = 1 .. 4
  PROVE  \/ FirstOf(checks) = Ok /\ \A i \in 1 .. 4 : ~checks[i].applies
         \/ \E i \in 1 .. 4 : /\ checks[i].applies /\ FirstOf(checks) = checks[i].refusal
                              /\ \A j \in 1 .. 4 : j < i => ~checks[j].applies
<1> DEFINE hits == {i \in DOMAIN checks : checks[i].applies}
           first == CHOOSE i \in hits : \A j \in hits : i <= j
<1>1. CASE hits = {}
  BY <1>1 DEF FirstOf
<1>2. CASE hits # {}
  <2>1. \E i \in hits : \A j \in hits : i <= j
    <3>1. hits \subseteq 1 .. 4
      OBVIOUS
    <3> HIDE DEF hits
    <3>2. CASE 1 \in hits
      BY <3>1, <3>2
    <3>3. CASE 1 \notin hits /\ 2 \in hits
      BY <3>1, <3>3
    <3>4. CASE 1 \notin hits /\ 2 \notin hits /\ 3 \in hits
      BY <3>1, <3>4
    <3>5. CASE 1 \notin hits /\ 2 \notin hits /\ 3 \notin hits
      <4>1. \A j \in hits : j = 4
        BY <3>1, <3>5
      <4>2. 4 \in hits
        BY <1>2, <4>1
      <4> QED
        BY <4>1, <4>2
    <3> QED
      BY <3>2, <3>3, <3>4, <3>5
  <2>2. first \in hits /\ \A j \in hits : first <= j
    BY <2>1, Zenon
  <2>3. FirstOf(checks) = checks[first].refusal
    BY <1>2, Zenon DEF FirstOf
  <2>4. \A j \in 1 .. 4 : j < first => j \notin hits
    <3> HIDE DEF first
    <3>1. hits \subseteq 1 .. 4
      OBVIOUS
    <3> HIDE DEF hits
    <3> QED
      BY <2>2, <3>1
  <2>5. first \in 1 .. 4 /\ checks[first].applies
    BY <2>2, Zenon
  <2> HIDE DEF first
  <2> QED
    BY <2>3, <2>4, <2>5
<1> QED
  BY <1>1, <1>2

\* What open_store says of the root.
LEMMA OpenRefuses ==
  ASSUME TypeOK
  PROVE  /\ OpenRefusal \in Failures \cup {Ok}
         /\ OpenRefusal = Ok => at["root"] \in {"private", "readable"}
         /\ OpenRefusal = "StorePathUnsafe" => at["root"] \in {"shared", "stripped"}
<1> DEFINE checks == <<When(at["root"] = "absent", "RootUnavailable"),
                       When(at["root"] = "link", "RootSymbolicLink"),
                       When(at["root"] = "file", "RootNotDirectory"),
                       When(~ProtectedRoot(at["root"]), "StorePathUnsafe")>>
<1>1. OpenRefusal = FirstOf(checks) /\ DOMAIN checks = 1 .. 4
  BY DEF OpenRefusal
<1>2. /\ checks[1].applies <=> at["root"] = "absent"
      /\ checks[2].applies <=> at["root"] = "link"
      /\ checks[3].applies <=> at["root"] = "file"
      /\ checks[4].applies <=> at["root"] \notin {"private", "readable"}
  BY DEF When, ProtectedRoot
<1>3. /\ checks[1].refusal = "RootUnavailable" /\ checks[2].refusal = "RootSymbolicLink"
      /\ checks[3].refusal = "RootNotDirectory" /\ checks[4].refusal = "StorePathUnsafe"
  BY DEF When
<1>4. at["root"] \in Things
  BY OrderFacts DEF TypeOK
<1> HIDE DEF checks
<1>5. CASE FirstOf(checks) = Ok /\ \A i \in 1 .. 4 : ~checks[i].applies
  <2>1. at["root"] \in {"private", "readable"}
    BY <1>2, <1>5
  <2> QED
    BY <1>1, <1>5, <2>1 DEF Ok
<1>6. ASSUME NEW i \in 1 .. 4, checks[i].applies, FirstOf(checks) = checks[i].refusal,
             \A j \in 1 .. 4 : j < i => ~checks[j].applies
      PROVE  /\ OpenRefusal \in Failures
             /\ OpenRefusal = "StorePathUnsafe" => at["root"] \in {"shared", "stripped"}
  <2>1. i = 1 \/ i = 2 \/ i = 3 \/ i = 4
    OBVIOUS
  <2>2. CASE i # 4
    BY <1>1, <1>3, <1>6, <2>1, <2>2 DEF Failures
  <2>3. CASE i = 4
    <3>1. ~checks[1].applies /\ ~checks[2].applies /\ ~checks[3].applies
      BY <1>6, <2>3
    <3>2. at["root"] \in {"shared", "stripped"}
      BY <1>2, <1>4, <1>6, <2>3, <3>1 DEF Things, Directories
    <3> QED
      BY <1>1, <1>3, <1>6, <2>3, <3>2 DEF Failures
  <2> QED
    BY <2>2, <2>3
<1> QED
  BY <1>1, <1>5, <1>6, FirstOfFour DEF Failures, Ok

-----------------------------------------------------------------------------
(***************************************************************************)
(* What a move of one process changes.                                     *)
(***************************************************************************)
Moves(p) == Step(p) \/ Kill(p) \/ Retry(p)

\* What belongs to the other processes stays.
OthersStay(p) ==
  \A q \in Procs \ {p} :
    /\ pc'[q] = pc[q] /\ next'[q] = next[q] /\ outcome'[q] = outcome[q]
    /\ made'[q] = made[q] /\ lost'[q] = lost[q]

\* The variables keep their types.
Typed ==
  /\ umaskStrips \in BOOLEAN /\ start \in [Paths -> Things] /\ at \in [Paths -> Things]
  /\ synced \subseteq Subs
  /\ pc \in [Procs -> Steps] /\ next \in [Procs -> 1 .. 4]
  /\ outcome \in [Procs -> Failures \cup {Ok}]
  /\ made \in [Procs -> SUBSET Paths] /\ lost \in [Procs -> Seq(Paths)]
  /\ kills \in 0 .. MaxKills

\* Every move is of this shape.
LEMMA MovesAreTyped ==
  ASSUME StoreRootAssumption, TypeOK, GhostInv, NEW p \in Procs, Moves(p)
  PROVE  Typed' /\ OthersStay(p) /\ UNCHANGED <<umaskStrips, start>>
<1>1. Typed
  BY OrderFacts DEF TypeOK, GhostInv, Typed
<1>2. Path(p) \in Paths
  BY <1>1, OrderFacts DEF Typed, Path
<1> USE DEF Typed, OthersStay, Goto, Refuse, Steps, Failures
<1>3. CASE UNCHANGED umaskStrips /\ Prepare(p)
  BY <1>1, <1>3 DEF Prepare
<1>4. CASE UNCHANGED umaskStrips /\ Make(p)
  <2>1. at' \in [Paths -> Things] /\ made' \in [Procs -> SUBSET Paths] /\ synced' \subseteq Subs
    BY <1>1, <1>2, <1>4 DEF Make, Things, Directories
  <2> QED
    BY <1>1, <1>4, <2>1 DEF Make
<1>5. CASE UNCHANGED umaskStrips /\ MakeLoses(p)
  <2>1. lost' \in [Procs -> Seq(Paths)]
    BY <1>1, <1>2, <1>5 DEF MakeLoses
  <2> QED
    BY <1>1, <1>5, <2>1 DEF MakeLoses
<1>6. CASE UNCHANGED umaskStrips /\ Secure(p)
  <2>1. at' \in [Paths -> Things]
    BY <1>1, <1>2, <1>6 DEF Secure, Things, Directories
  <2> QED
    BY <1>1, <1>6, <2>1 DEF Secure
<1>7. CASE UNCHANGED umaskStrips /\ Open(p)
  <2>1. CASE OpenRefusal = Ok
    <3>1. /\ pc' = [pc EXCEPT ![p] = "look"] /\ next' = [next EXCEPT ![p] = 2]
          /\ UNCHANGED <<at, synced, outcome, start, made, lost, kills>>
      BY <1>7, <2>1 DEF Open
    <3> QED
      BY <1>1, <1>7, <3>1
  <2>2. CASE OpenRefusal # Ok
    BY <1>1, <1>7, <2>2, OpenRefuses DEF Open
  <2> QED
    BY <2>1, <2>2
<1>8. ASSUME Advance(p) PROVE /\ pc' \in [Procs -> Steps] /\ next' \in [Procs -> 1 .. 4]
                              /\ \A q \in Procs \ {p} : pc'[q] = pc[q] /\ next'[q] = next[q]
  <2>1. CASE next[p] = Len(Order)
    BY <1>1, <1>8, <2>1 DEF Advance
  <2>2. CASE next[p] # Len(Order)
    <3>1. next[p] + 1 \in 1 .. 4
      <4>1. next[p] \in 1 .. 4 /\ next[p] # 4
        BY <1>1, <2>2, OrderFacts
      <4> QED
        BY <4>1
    <3>2. next' = [next EXCEPT ![p] = next[p] + 1]
      BY <1>8, <2>2 DEF Advance
    <3> QED
      BY <1>1, <1>8, <2>2, <3>1, <3>2 DEF Advance
  <2> QED
    BY <2>1, <2>2
<1>9. CASE UNCHANGED umaskStrips /\ Look(p)
  <2>1. CASE Advance(p) /\ UNCHANGED outcome
    BY <1>1, <1>8, <1>9, <2>1 DEF Look
  <2>2. CASE UNCHANGED <<next, outcome>> /\ Goto(p, "make")
    BY <1>1, <1>9, <2>2 DEF Look
  <2>3. CASE UNCHANGED next /\ Refuse(p, "StorePathUnsafe")
    BY <1>1, <1>9, <2>3 DEF Look
  <2> QED
    BY <1>9, <2>1, <2>2, <2>3 DEF Look
<1>10. CASE UNCHANGED umaskStrips /\ Recheck(p)
  BY <1>1, <1>10 DEF Recheck
<1>11. CASE UNCHANGED umaskStrips /\ Sync(p)
  <2>1. synced' \subseteq Subs
    BY <1>1, <1>11 DEF Sync
  <2> QED
    BY <1>1, <1>8, <1>11, <2>1 DEF Sync
<1>12. CASE Kill(p)
  <2>1. kills' \in 0 .. MaxKills
    BY <1>1, <1>12 DEF Kill, StoreRootAssumption
  <2> QED
    BY <1>1, <1>12, <2>1 DEF Kill
<1>13. CASE Retry(p)
  BY <1>1, <1>13 DEF Retry
<1> QED
  BY <1>3, <1>4, <1>5, <1>6, <1>7, <1>9, <1>10, <1>11, <1>12, <1>13 DEF Moves, Step

\* Nothing is taken away, and what is private stays so.
PathsGrow ==
  \A s \in Paths :
    /\ at[s] # "absent" => at'[s] # "absent"
    /\ at[s] \in {"private", "stripped"} => at'[s] \in {"private", "stripped"}
    /\ at[s] = "private" => at'[s] = "private"
    /\ at[s] \in {"private", "readable"} => at'[s] \in {"private", "readable"}

LEMMA MovesGrow ==
  ASSUME Typed, NEW p \in Procs, Moves(p)
  PROVE  PathsGrow
<1>1. CASE Make(p)
  BY <1>1 DEF Make, Typed, PathsGrow
<1>2. CASE Secure(p)
  BY <1>2 DEF Secure, Typed, PathsGrow
<1>3. CASE ~Make(p) /\ ~Secure(p)
  <2>1. UNCHANGED at
    BY <1>3 DEF Moves, Step, Prepare, MakeLoses, Open, Look, Recheck, Sync, Kill, Retry
  <2> QED
    BY <2>1 DEF PathsGrow
<1> QED
  BY <1>1, <1>2, <1>3

\* What a process has behind it stays as it is while others move.
LEMMA SeenStays ==
  ASSUME PathsGrow, NEW p, NEW i \in 1 .. 4, Seen(p, i)
  PROVE  Seen(p, i)'
<1>1. Order[i] \in Paths
  BY OrderFacts
<1> QED
  BY <1>1, OrderFacts DEF Seen, PathsGrow

\* A process that comes to an outcome other than "ok" is refused, and only then.
LEMMA MovesRefuse ==
  ASSUME StoreRootAssumption, TypeOK, GhostInv, NEW p \in Procs, Moves(p)
  PROVE  (outcome'[p] # Ok) <=> (pc'[p] = "refused")
<1>1. /\ pc \in [Procs -> Steps] /\ next \in [Procs -> 1 .. 4]
      /\ outcome \in [Procs -> Failures \cup {Ok}]
      /\ (outcome[p] # Ok) <=> (pc[p] = "refused")
  BY OrderFacts DEF TypeOK
<1>2. Ok \notin Failures
  BY DEF Ok, Failures
<1> USE DEF Goto, Refuse
<1>3. CASE Prepare(p) \/ Make(p) \/ Secure(p) \/ Recheck(p) \/ Sync(p) \/ Kill(p) \/ Retry(p)
  BY <1>1, <1>3 DEF Prepare, Make, Secure, Recheck, Sync, Kill, Retry, Advance
<1>4. CASE MakeLoses(p)
  BY <1>1, <1>4 DEF MakeLoses, Ok
<1>5. CASE Open(p)
  <2>1. CASE OpenRefusal = Ok
    BY <1>1, <1>5, <2>1 DEF Open
  <2>2. CASE OpenRefusal # Ok
    BY <1>1, <1>5, <2>2 DEF Open
  <2> QED
    BY <2>1, <2>2
<1>6. CASE Look(p)
  <2>1. \/ pc'[p] \in {"make", "look", "opened"} /\ UNCHANGED outcome
        \/ pc'[p] = "refused" /\ outcome'[p] = "StorePathUnsafe"
    BY <1>1, <1>6 DEF Look, Advance
  <2> QED
    BY <1>1, <1>6, <2>1 DEF Look, Ok
<1> QED
  BY <1>3, <1>4, <1>5, <1>6 DEF Moves, Step

\* The step a process takes, and what it is about afterwards.
LEMMA MovesGo ==
  ASSUME Typed, NEW p \in Procs, Moves(p)
  PROVE  \/ /\ pc[p] = "prepare" /\ next'[p] = next[p]
            /\ pc'[p] = "open" \/ (pc'[p] = "make" /\ at["root"] = "absent")
         \/ pc[p] = "make" /\ pc'[p] = "secure" /\ next'[p] = next[p]
         \/ pc[p] = "secure" /\ Path(p) = "root" /\ pc'[p] = "open" /\ next'[p] = next[p]
         \/ pc[p] = "secure" /\ Path(p) # "root" /\ pc'[p] = "recheck" /\ next'[p] = next[p]
         \/ pc[p] = "open" /\ OpenRefusal = Ok /\ pc'[p] = "look" /\ next'[p] = 2
         \/ /\ pc[p] = "look" /\ at[Path(p)] = "absent"
            /\ pc'[p] = "make" /\ next'[p] = next[p]
         \/ pc[p] = "recheck" /\ at[Path(p)] = "private" /\ pc'[p] = "sync" /\ next'[p] = next[p]
         \/ /\ pc[p] = "sync" \/ (pc[p] = "look" /\ at[Path(p)] = "private")
            /\ \/ next[p] = 4 /\ pc'[p] = "opened" /\ next'[p] = next[p]
               \/ next[p] # 4 /\ pc'[p] = "look" /\ next'[p] = next[p] + 1
         \/ /\ pc[p] \in {"make", "open", "look"}
            /\ pc'[p] = "refused" /\ next'[p] = next[p]
         \/ /\ pc[p] \notin {"opened", "refused", "killed"}
            /\ pc'[p] = "killed" /\ next'[p] = next[p]
         \/ pc[p] = "refused" /\ pc'[p] = "prepare" /\ next'[p] = 1
<1>1. pc \in [Procs -> Steps] /\ next \in [Procs -> 1 .. 4] /\ Len(Order) = 4
  BY OrderFacts DEF Typed
<1> USE DEF Goto, Refuse
<1>2. CASE Prepare(p) \/ Make(p) \/ MakeLoses(p) \/ Secure(p)
  BY <1>1, <1>2 DEF Prepare, Make, MakeLoses, Secure
<1>3. CASE Open(p)
  BY <1>1, <1>3 DEF Open
<1>4. CASE Look(p)
  <2>1. CASE at[Path(p)] = "private" /\ Advance(p)
    BY <1>1, <1>4, <2>1 DEF Look, Advance
  <2>2. CASE at[Path(p)] = "absent" /\ Goto(p, "make") /\ UNCHANGED next
    BY <1>1, <1>4, <2>2 DEF Look
  <2>3. CASE Refuse(p, "StorePathUnsafe") /\ UNCHANGED next
    BY <1>1, <1>4, <2>3 DEF Look
  <2> QED
    BY <1>4, <2>1, <2>2, <2>3 DEF Look, SafePrivate
<1>5. CASE Sync(p)
  BY <1>1, <1>5 DEF Sync, Advance
<1>6. CASE Recheck(p) \/ Kill(p) \/ Retry(p)
  BY <1>1, <1>6 DEF Recheck, SafePrivate, Kill, Retry
<1> QED
  BY <1>2, <1>3, <1>4, <1>5, <1>6 DEF Moves, Step

\* What the process has behind it.
LEMMA BehindKeeps ==
  ASSUME StoreRootAssumption, PInv, NEW p \in Procs, Moves(p)
  PROVE  BehindInv(p)'
<1>1. Typed /\ TypeOK /\ BehindInv(p)
  BY OrderFacts DEF PInv, TypeOK, GhostInv, Typed
<1>2. next[p] \in 1 .. 4 /\ next'[p] \in 1 .. 4
  BY <1>1, MovesAreTyped DEF PInv, Typed
<1>3. \A i \in 1 .. 4 : Seen(p, i) => Seen(p, i)'
  BY <1>1, MovesGrow, SeenStays
<1>4. (Path(p) = "root") <=> (next[p] = 1)
  BY <1>2, OrderFacts DEF Path
<1>5. Len(Order) = 4
  BY OrderFacts
<1>6. at[Path(p)] = "private" => Seen(p, next[p])
  BY <1>2, OrderFacts DEF Path, Seen
<1>7. OpenRefusal = Ok => Seen(p, 1)
  BY <1>1, OpenRefuses DEF Seen
<1>8. /\ pc'[p] \in {"prepare", "open"} => next'[p] = 1
      /\ pc'[p] \in Ensuring => next'[p] # 1
  BY <1>1, <1>2, <1>4, MovesGo DEF BehindInv, Ensuring
<1>9. ASSUME NEW i \in 1 .. 4, pc'[p] \notin {"refused", "killed"}, i <= next'[p] - 1
      PROVE  Seen(p, i)'
  <2>1. CASE pc[p] = "refused"
    BY <1>1, <1>2, <1>9, <2>1, MovesGo
  <2>2. CASE pc[p] # "refused"
    <3>1. pc[p] # "killed"
      BY <1>1, <1>9, MovesGo
    <3>2. \A j \in 1 .. next[p] - 1 : Seen(p, j)
      BY <1>1, <2>2, <3>1 DEF BehindInv
    <3>3. CASE next'[p] = next[p]
      <4>1. i \in 1 .. next[p] - 1
        BY <1>2, <1>9, <3>3
      <4> QED
        BY <1>3, <3>2, <4>1
    <3>4. CASE pc[p] = "open"
      <4>1. i = 1 \/ next'[p] = next[p]
        BY <1>1, <1>2, <1>9, <3>4, MovesGo
      <4>2. CASE i = 1 /\ next'[p] # next[p]
        BY <1>1, <1>3, <1>7, <1>9, <3>4, <4>2, MovesGo
      <4> QED
        BY <3>3, <4>1, <4>2
    <3>5. CASE pc[p] # "open" /\ next'[p] # next[p]
      <4>1. /\ next'[p] = next[p] + 1
            /\ pc[p] = "sync" \/ at[Path(p)] = "private"
        BY <1>1, <2>2, <3>5, MovesGo
      <4>2. Seen(p, next[p])
        BY <1>1, <1>6, <4>1 DEF BehindInv
      <4>3. i \in 1 .. next[p] - 1 \/ i = next[p]
        BY <1>2, <1>9, <4>1
      <4> QED
        BY <1>3, <3>2, <4>2, <4>3
    <3> QED
      BY <3>3, <3>4, <3>5
  <2> QED
    BY <2>1, <2>2
<1>10. ASSUME NEW i \in 1 .. 4, i = next'[p], pc'[p] \in {"sync", "opened"}
       PROVE  Seen(p, i)' /\ (pc'[p] = "opened" => i = 4)
  <2>1. /\ next'[p] = next[p]
        /\ pc[p] = "sync" \/ at[Path(p)] = "private"
        /\ pc'[p] = "opened" => next[p] = 4
    BY <1>1, <1>10, MovesGo
  <2>2. Seen(p, next[p])
    BY <1>1, <1>6, <2>1 DEF BehindInv
  <2> QED
    BY <1>3, <1>10, <2>1, <2>2
<1>11. PICK n \in 1 .. 4 : n = next'[p]
  BY <1>2
<1>12. pc'[p] \notin {"refused", "killed"} => \A i \in 1 .. n - 1 : Seen(p, i)'
  <2>1. \A i \in 1 .. n - 1 : i \in 1 .. 4 /\ i <= n - 1
    OBVIOUS
  <2> QED
    BY <1>9, <1>11, <2>1
<1>13. pc'[p] \in {"sync", "opened"} => Seen(p, n)' /\ (pc'[p] = "opened" => n = 4)
  BY <1>10, <1>11
<1> QED
  BY <1>5, <1>8, <1>11, <1>12, <1>13 DEF BehindInv, Seen

\* The variables are typed, and the paths of the processes are paths.
LEMMA PInvTypes ==
  ASSUME PInv
  PROVE  Typed /\ TypeOK /\ GhostInv /\ \A q \in Procs : Path(q) \in Paths
<1>1. Typed
  BY OrderFacts DEF PInv, TypeOK, GhostInv, Typed
<1>2. \A q \in Procs : Path(q) \in Paths
  BY <1>1, OrderFacts DEF Typed, Path
<1> QED
  BY <1>1, <1>2 DEF PInv

\* Only Make and Secure change what is at a path, only Make and Sync what is synced,
\* only Make what a process has made, and only MakeLoses where it was too slow.
LEMMA MovesLeave ==
  ASSUME NEW p \in Procs, Moves(p)
  PROVE  /\ ~Make(p) /\ ~Secure(p) => UNCHANGED at
         /\ ~Make(p) /\ ~Sync(p) => UNCHANGED synced
         /\ ~Make(p) => UNCHANGED made
         /\ ~MakeLoses(p) => UNCHANGED lost
BY DEF Moves, Step, Prepare, Make, MakeLoses, Secure, Open, Look, Recheck, Sync, Kill, Retry

\* What others have behind them, and have made, stays.
LEMMA OthersKeep ==
  ASSUME StoreRootAssumption, PInv, NEW p \in Procs, Moves(p), NEW q \in Procs \ {p}
  PROVE  BehindInv(q)' /\ MakingInv(q)' /\ LostInv(q)'
<1>1. Typed /\ PathsGrow /\ OthersStay(p)
  BY PInvTypes, MovesAreTyped, MovesGrow
<1>2. pc'[q] = pc[q] /\ next'[q] = next[q] /\ made'[q] = made[q] /\ lost'[q] = lost[q]
  BY <1>1 DEF OthersStay
<1>3. \A i \in 1 .. 4 : Seen(q, i) => Seen(q, i)'
  BY <1>1, SeenStays
<1>4. PICK n \in 1 .. 4 : n = next[q]
  BY <1>1 DEF Typed
<1>5. BehindInv(q)'
  <2>1. \A i \in 1 .. n - 1 : i \in 1 .. 4
    OBVIOUS
  <2>2. /\ pc[q] \in {"prepare", "open"} => n = 1
        /\ pc[q] \in Ensuring => n # 1
        /\ pc[q] \notin {"refused", "killed"} => \A i \in 1 .. n - 1 : Seen(q, i)
        /\ pc[q] = "sync" => Seen(q, n)
        /\ pc[q] = "opened" => n = Len(Order) /\ Seen(q, n)
    BY <1>4 DEF PInv, BehindInv
  <2>3. /\ pc[q] \notin {"refused", "killed"} => \A i \in 1 .. n - 1 : Seen(q, i)'
        /\ pc[q] = "sync" => Seen(q, n)'
        /\ pc[q] = "opened" => n = Len(Order) /\ Seen(q, n)'
    BY <1>3, <2>1, <2>2
  <2> QED
    BY <1>2, <1>4, <2>2, <2>3 DEF BehindInv, Seen
<1>6. MakingInv(q)'
  BY <1>2 DEF PInv, MakingInv, Path
<1>7. LostInv(q)'
  <2>1. \A i \in DOMAIN lost[q] : lost[q][i] \in Paths
    BY <1>1 DEF Typed
  <2> QED
    BY <1>1, <1>2, <2>1 DEF PInv, LostInv, Path, PathsGrow
<1> QED
  BY <1>5, <1>6, <1>7

\* The types.
LEMMA TypeKeeps ==
  ASSUME StoreRootAssumption, PInv, NEW p \in Procs, Moves(p)
  PROVE  TypeOK' /\ GhostInv'
<1>1. Typed /\ TypeOK /\ Typed' /\ OthersStay(p) /\ PathsGrow
  BY PInvTypes, MovesAreTyped, MovesGrow
<1>2. ASSUME NEW q \in Procs PROVE (outcome'[q] # Ok) <=> (pc'[q] = "refused")
  BY <1>1, PInvTypes, MovesRefuse DEF TypeOK, OthersStay
<1>3. ASSUME NEW q \in Procs, pc'[q] = "recheck" PROVE at'[Path(q)'] = "private"
  <2>1. CASE q = p
    <3>1. pc[p] = "secure" /\ next'[p] = next[p]
      BY <1>1, <1>3, <2>1, MovesGo
    <3>2. Secure(p)
      BY <1>1, <1>3, <2>1, <3>1
         DEF Moves, Step, Prepare, Make, MakeLoses, Secure, Open, Look, Recheck, Sync, Kill, Retry,
             Goto, Typed
    <3>3. Path(q)' = Path(p) /\ Path(p) \in Paths
      BY <2>1, <3>1, PInvTypes DEF Path
    <3> QED
      BY <1>1, <3>2, <3>3 DEF Secure, Typed
  <2>2. CASE q # p
    <3>1. pc[q] = "recheck" /\ Path(q)' = Path(q) /\ Path(q) \in Paths
      BY <1>1, <1>3, <2>2, PInvTypes DEF OthersStay, Path
    <3> QED
      BY <1>1, <3>1 DEF TypeOK, PathsGrow
  <2> QED
    BY <2>1, <2>2
<1>4. TypeOK'
  BY <1>1, <1>2, <1>3, OrderFacts DEF TypeOK, Typed
<1> QED
  BY <1>1, <1>4 DEF GhostInv, Typed

\* Who is making a directory has made it; and what was made belongs to its user.
LEMMA MakingKeeps ==
  ASSUME StoreRootAssumption, PInv, NEW p \in Procs, Moves(p)
  PROVE  MakingInv(p)' /\ PrivateFromBirth'
<1>1. Typed /\ Typed' /\ OthersStay(p) /\ PathsGrow /\ \A q \in Procs : Path(q) \in Paths
  BY PInvTypes, MovesAreTyped, MovesGrow
<1>2. CASE Make(p)
  <2>1. /\ pc[p] = "make" /\ next'[p] = next[p] /\ made'[p] = made[p] \cup {Path(p)}
        /\ at'[Path(p)] \in {"private", "stripped"}
    BY <1>1, <1>2 DEF Make, Typed
  <2>2. MakingInv(p)'
    BY <2>1 DEF MakingInv, Path
  <2>3. ASSUME NEW q \in Procs, NEW s \in made'[q] PROVE at'[s] \in {"private", "stripped"}
    <3>1. s \in made[q] \/ s = Path(p)
      BY <1>1, <2>1, <2>3 DEF OthersStay
    <3>2. CASE s \in made[q]
      BY <1>1, <3>2 DEF PInv, PrivateFromBirth, PathsGrow, Typed
    <3> QED
      BY <2>1, <3>1, <3>2
  <2> QED
    BY <2>2, <2>3 DEF PrivateFromBirth
<1>3. CASE ~Make(p)
  <2>1. UNCHANGED made
    BY <1>3, MovesLeave
  <2>2. PrivateFromBirth'
    BY <1>1, <2>1 DEF PInv, PrivateFromBirth, PathsGrow, Typed
  <2>3. pc'[p] \in Making => pc[p] \in Making /\ next'[p] = next[p]
    <3>1. pc[p] = "make" => pc'[p] # "secure"
      BY <1>1, <1>3
         DEF Moves, Step, Prepare, MakeLoses, Secure, Open, Look, Recheck, Sync, Kill, Retry,
             Goto, Refuse, Typed
    <3> QED
      BY <1>1, <3>1, MovesGo DEF Making
  <2> QED
    BY <2>1, <2>2, <2>3 DEF PInv, MakingInv, Path
<1> QED
  BY <1>2, <1>3

\* Who was too slow for a path.
LEMMA LostKeeps ==
  ASSUME StoreRootAssumption, PInv, NEW p \in Procs, Moves(p)
  PROVE  LostInv(p)' /\ LostOnlyOnce'
<1>1. Typed /\ Typed' /\ OthersStay(p) /\ PathsGrow /\ \A q \in Procs : Path(q) \in Paths
  BY PInvTypes, MovesAreTyped, MovesGrow
<1>2. \A q \in Procs : /\ \A i \in DOMAIN lost[q] : lost[q][i] \in Paths /\ at[lost[q][i]] # "absent"
                       /\ \A i, j \in DOMAIN lost[q] : i # j => lost[q][i] # lost[q][j]
  BY <1>1 DEF PInv, LostInv, LostOnlyOnce, Typed
<1>3. CASE MakeLoses(p)
  <2>1. /\ pc[p] = "make" /\ at[Path(p)] # "absent" /\ pc'[p] = "refused"
        /\ lost'[p] = Append(lost[p], Path(p))
    BY <1>1, <1>3 DEF MakeLoses, Refuse, Goto, Typed
  <2>2. lost[p] \in Seq(Paths) /\ Path(p) \in Paths
    BY <1>1 DEF Typed
  <2>3. \A i \in DOMAIN lost[p] : lost[p][i] # Path(p)
    BY <2>1 DEF PInv, LostInv
  <2>4. /\ DOMAIN lost'[p] = DOMAIN lost[p] \cup {Len(lost[p]) + 1}
        /\ lost'[p][Len(lost[p]) + 1] = Path(p)
        /\ \A i \in DOMAIN lost[p] : lost'[p][i] = lost[p][i] /\ i # Len(lost[p]) + 1
    BY <2>1, <2>2
  <2>5. \A i \in DOMAIN lost'[p] : at'[lost'[p][i]] # "absent"
    BY <1>1, <1>2, <2>1, <2>2, <2>4 DEF PathsGrow
  <2>6. \A i, j \in DOMAIN lost'[p] : i # j => lost'[p][i] # lost'[p][j]
    BY <1>2, <2>3, <2>4
  <2>7. \A q \in Procs \ {p} : lost'[q] = lost[q]
    BY <1>1 DEF OthersStay
  <2>8. LostOnlyOnce'
    BY <1>1, <1>2, <2>5, <2>6, <2>7 DEF LostOnlyOnce, PathsGrow
  <2> QED
    BY <2>1, <2>5, <2>8 DEF LostInv
<1>4. CASE ~MakeLoses(p)
  <2>1. UNCHANGED lost
    BY <1>4, MovesLeave
  <2>2. LostOnlyOnce' /\ \A i \in DOMAIN lost'[p] : at'[lost'[p][i]] # "absent"
    BY <1>1, <1>2, <2>1 DEF LostOnlyOnce, PathsGrow
  <2>3. ASSUME pc'[p] = "make" PROVE \A i \in DOMAIN lost'[p] : lost'[p][i] # Path(p)'
    <3>1. /\ next'[p] = next[p]
          /\ \/ pc[p] = "look" /\ at[Path(p)] = "absent"
             \/ pc[p] = "prepare" /\ at["root"] = "absent"
      <4>1. pc'[p] \notin {"secure", "open", "recheck", "look", "sync", "opened", "refused",
                           "killed", "prepare"}
        BY <2>3
      <4> QED
        BY <1>1, <4>1, MovesGo
    <3>2. pc[p] = "prepare" => Path(p) = "root"
      BY OrderFacts DEF PInv, BehindInv, Path
    <3>3. at[Path(p)] = "absent" /\ Path(p)' = Path(p)
      BY <3>1, <3>2 DEF Path
    <3> QED
      BY <1>2, <2>1, <3>3
  <2> QED
    BY <2>2, <2>3 DEF LostInv
<1> QED
  BY <1>3, <1>4

\* What is not synced.
LEMMA SyncKeeps ==
  ASSUME StoreRootAssumption, PInv, NEW p \in Procs, Moves(p)
  PROVE  SyncInv'
<1>1. Typed /\ Typed' /\ OthersStay(p) /\ PathsGrow /\ \A q \in Procs : Path(q) \in Paths
  BY PInvTypes, MovesAreTyped, MovesGrow
<1>2. SUFFICES ASSUME NEW s \in Subs \ synced', at'[s] # "absent"
               PROVE  \E q \in Procs : /\ s \in made'[q]
                                       /\ \/ pc'[q] = "killed"
                                          \/ pc'[q] \in Making /\ Path(q)' = s
  BY DEF SyncInv
<1>3. ASSUME NEW q \in Procs \ {p}, s \in made[q],
             pc[q] = "killed" \/ (pc[q] \in Making /\ Path(q) = s)
      PROVE  /\ s \in made'[q]
             /\ pc'[q] = "killed" \/ (pc'[q] \in Making /\ Path(q)' = s)
  BY <1>1, <1>3 DEF OthersStay, Path
<1>4. s \in Paths /\ s # "root"
  BY OrderFacts
<1>5. CASE s \in synced \/ at[s] = "absent"
  <2>1. pc'[p] \in {"secure", "recheck"} /\ Path(p) = s /\ next'[p] = next[p] /\ s \in made'[p]
    <3>1. CASE Make(p)
      <4>1. s = Path(p)
        BY <1>1, <1>2, <1>4, <1>5, <3>1 DEF Make, Typed
      <4> QED
        BY <1>1, <3>1, <4>1 DEF Make, Goto, Typed
    <3>2. CASE Secure(p) /\ ~Make(p)
      <4>1. UNCHANGED <<synced, made>> /\ ~Sync(p) /\ pc[p] = "secure"
        BY <3>2 DEF Secure, Sync
      <4>2. s = Path(p)
        BY <1>1, <1>2, <1>4, <1>5, <3>2, <4>1 DEF Secure, Typed
      <4>3. s \in made[p]
        BY <4>1, <4>2 DEF PInv, MakingInv, Making
      <4> QED
        BY <1>1, <1>4, <3>2, <4>1, <4>2, <4>3 DEF Secure, Goto, Typed
    <3>3. CASE ~Make(p) /\ ~Secure(p)
      <4>1. UNCHANGED at /\ (s \in synced => s \in synced')
        BY <1>5, <3>3, MovesLeave DEF Sync
      <4> QED
        BY <1>2, <1>5, <4>1
    <3> QED
      BY <3>1, <3>2, <3>3
  <2> QED
    BY <2>1 DEF Making, Path
<1>6. CASE s \notin synced /\ at[s] # "absent"
  <2>1. PICK q \in Procs : /\ s \in made[q]
                           /\ pc[q] = "killed" \/ (pc[q] \in Making /\ Path(q) = s)
    BY <1>6 DEF PInv, SyncInv
  <2>2. CASE q = p
    <3>1. ~Sync(p)
      <4>1. Sync(p) => s \in synced'
        BY <1>6 DEF Sync
      <4> QED
        BY <1>2, <4>1
    <3>2. pc[p] \in {"killed", "secure", "recheck"} \/ pc'[p] = "killed"
      <4>1. pc[p] = "sync" => Sync(p) \/ pc'[p] = "killed"
        BY <1>1
           DEF Moves, Step, Prepare, Make, MakeLoses, Secure, Open, Look, Recheck, Kill, Retry,
               Goto, Typed
      <4> QED
        BY <2>1, <2>2, <3>1, <4>1 DEF Making
    <3>3. pc[p] # "killed"
      BY <1>1, MovesGo
    <3>4. Path(p) = s
      BY <2>1, <2>2, <3>3
    <3>5. pc'[p] = "killed" \/ (pc'[p] \in Making /\ next'[p] = next[p])
      <4>1. CASE pc'[p] = "killed"
        BY <4>1
      <4>2. CASE pc'[p] # "killed"
        <5>1. pc[p] \in {"secure", "recheck"} /\ Path(p) # "root"
          BY <1>4, <3>2, <3>3, <3>4, <4>2
        <5>2. pc'[p] \in {"recheck", "sync"} /\ next'[p] = next[p]
          BY <1>1, <4>2, <5>1, MovesGo
        <5> QED
          BY <5>2 DEF Making
      <4> QED
        BY <4>1, <4>2
    <3>6. s \in made'[p]
      <4>1. made[p] \subseteq made'[p]
        <5>1. CASE Make(p)
          BY <1>1, <5>1 DEF Make, Typed
        <5>2. CASE ~Make(p)
          BY <5>2, MovesLeave
        <5> QED
          BY <5>1, <5>2
      <4> QED
        BY <2>1, <2>2, <4>1
    <3> QED
      BY <3>4, <3>5, <3>6 DEF Path
  <2> QED
    BY <1>3, <2>1, <2>2
<1> QED
  BY <1>5, <1>6

\* A path whose maker has not given it its bits.
LEMMA UnfinishedIs ==
  ASSUME NEW s
  PROVE  /\ s \in Unfinished <=>
              \E q \in Procs : pc[q] \in {"secure", "killed"} /\ Path(q) \in made[q] /\ Path(q) = s
         /\ s \in Unfinished' <=>
              \E q \in Procs : /\ pc'[q] \in {"secure", "killed"}
                               /\ Path(q)' \in made'[q] /\ Path(q)' = s
BY DEF Unfinished

\* What has become of the paths of the start.
LEMMA CauseKeeps ==
  ASSUME StoreRootAssumption, PInv, NEW p \in Procs, Moves(p)
  PROVE  CauseInv'
<1>1. Typed /\ Typed' /\ OthersStay(p) /\ \A q \in Procs : Path(q) \in Paths
  BY PInvTypes, MovesAreTyped
<1>2. UNCHANGED <<umaskStrips, start>>
  BY PInvTypes, MovesAreTyped
<1>3. SUFFICES ASSUME NEW s \in Paths, at'[s] # start[s], at'[s] # "private"
               PROVE  at'[s] = "stripped" /\ umaskStrips /\ s \in Unfinished'
  BY <1>2 DEF CauseInv
<1>4. CASE Make(p) /\ Path(p) = s
  <2>1. /\ pc'[p] = "secure" /\ Path(p)' = s /\ s \in made'[p]
        /\ at'[s] = IF umaskStrips THEN "stripped" ELSE "private"
    BY <1>1, <1>4 DEF Make, Goto, Path, Typed
  <2> QED
    BY <1>3, <2>1, UnfinishedIs
<1>5. CASE ~(Make(p) /\ Path(p) = s)
  <2>1. ~Secure(p) \/ Path(p) # s
    BY <1>1, <1>3 DEF Secure, Typed
  <2>2. at'[s] = at[s]
    <3>1. CASE ~Make(p) /\ ~Secure(p)
      BY <3>1, MovesLeave
    <3>2. CASE Make(p)
      BY <1>1, <1>5, <3>2 DEF Make, Typed
    <3>3. CASE Secure(p)
      BY <1>1, <2>1, <3>3 DEF Secure, Typed
    <3> QED
      BY <3>1, <3>2, <3>3
  <2>3. at[s] = "stripped" /\ umaskStrips /\ s \in Unfinished
    BY <1>3, <2>2 DEF PInv, CauseInv
  <2>4. PICK q \in Procs : /\ pc[q] \in {"secure", "killed"}
                           /\ Path(q) \in made[q] /\ Path(q) = s
    BY <2>3, UnfinishedIs
  <2>5. pc'[q] \in {"secure", "killed"} /\ Path(q)' = s /\ s \in made'[q]
    <3>1. CASE q # p
      BY <1>1, <2>4, <3>1 DEF OthersStay, Path
    <3>2. CASE q = p
      <4>1. pc[p] = "secure" /\ pc'[p] = "killed" /\ next'[p] = next[p]
        <5>1. pc[p] = "secure"
          BY <1>1, <2>4, <3>2, MovesGo
        <5>2. ~Secure(p)
          BY <2>1, <2>4, <3>2
        <5>3. Kill(p)
          BY <5>1, <5>2 DEF Moves, Step, Prepare, Make, MakeLoses, Open, Look, Recheck, Sync, Retry
        <5> QED
          BY <1>1, <5>1, <5>3 DEF Kill, Goto, Typed
      <4>2. UNCHANGED made
        BY <4>1, MovesLeave DEF Make
      <4> QED
        BY <2>4, <3>2, <4>1, <4>2 DEF Path
    <3> QED
      BY <3>1, <3>2
  <2>6. s \in Unfinished'
    BY <2>5, UnfinishedIs
  <2> QED
    BY <1>2, <2>2, <2>3, <2>6
<1> QED
  BY <1>4, <1>5

-----------------------------------------------------------------------------
\* The invariant holds at the start ...
LEMMA InitEstablishes ==
  ASSUME StoreRootAssumption, Init
  PROVE  PInv
<1> USE DEF Init
<1>1. start \in [Paths -> Things] /\ at = start
  BY DEF StoreRootAssumption
<1>2. \A p \in Procs : pc[p] = "prepare" /\ next[p] = 1 /\ made[p] = {} /\ lost[p] = <<>>
  OBVIOUS
<1>3. TypeOK /\ GhostInv
  <2>1. kills \in 0 .. MaxKills
    BY DEF StoreRootAssumption
  <2>2. pc \in [Procs -> Steps] /\ next \in [Procs -> DOMAIN Order]
        /\ outcome \in [Procs -> Failures \cup {Ok}]
    BY OrderFacts DEF Steps
  <2>3. made \in [Procs -> SUBSET Paths] /\ lost \in [Procs -> Seq(Paths)]
    OBVIOUS
  <2>4. synced \subseteq Subs
    OBVIOUS
  <2>5. \A p \in Procs : /\ (outcome[p] # Ok) <=> (pc[p] = "refused")
                         /\ pc[p] # "recheck"
    OBVIOUS
  <2> QED
    BY <1>1, <2>1, <2>2, <2>3, <2>4, <2>5 DEF TypeOK, GhostInv
<1>4. PrivateFromBirth /\ LostOnlyOnce
  BY <1>2 DEF PrivateFromBirth, LostOnlyOnce
<1>5. \A p \in Procs : BehindInv(p) /\ MakingInv(p) /\ LostInv(p)
  <2>1. \A i \in 1 .. 1 - 1 : FALSE
    OBVIOUS
  <2> QED
    BY <1>2, <2>1 DEF BehindInv, Ensuring, MakingInv, Making, LostInv
<1>6. SyncInv /\ CauseInv
  BY <1>1 DEF SyncInv, CauseInv
<1> QED
  BY <1>3, <1>4, <1>5, <1>6 DEF PInv

\* ... and at every later moment, whoever moves.
LEMMA StepsKeep ==
  ASSUME StoreRootAssumption, PInv, [Next]_vars
  PROVE  PInv'
<1>1. ASSUME NEW p \in Procs, Moves(p) PROVE PInv'
  <2>1. TypeOK' /\ GhostInv' /\ PrivateFromBirth' /\ LostOnlyOnce' /\ SyncInv' /\ CauseInv'
    BY <1>1, TypeKeeps, MakingKeeps, LostKeeps, SyncKeeps, CauseKeeps
  <2>2. BehindInv(p)' /\ MakingInv(p)' /\ LostInv(p)'
    BY <1>1, BehindKeeps, MakingKeeps, LostKeeps
  <2>3. \A q \in Procs \ {p} : BehindInv(q)' /\ MakingInv(q)' /\ LostInv(q)'
    BY <1>1, OthersKeep
  <2> QED
    BY <2>1, <2>2, <2>3 DEF PInv
<1>2. CASE UNCHANGED vars
  BY <1>2
     DEF vars, PInv, TypeOK, GhostInv, PrivateFromBirth, LostOnlyOnce, BehindInv, Seen, MakingInv,
         LostInv, SyncInv, CauseInv, Unfinished, Path
<1> QED
  BY <1>1, <1>2 DEF Next, Moves

\* An opened store is as private as it must be, and durable.
LEMMA OpenedIsSound ==
  ASSUME PInv
  PROVE  OpenedIsPrivate /\ OpenedIsDurable
<1>1. ASSUME NEW p \in Procs, pc[p] = "opened"
      PROVE  at["root"] \in {"private", "readable"} /\ \A s \in Subs : at[s] = "private"
  <2>1. next[p] = 4 /\ Seen(p, 4) /\ \A i \in 1 .. 3 : Seen(p, i)
    <3>1. next[p] = 4 /\ Seen(p, next[p]) /\ \A i \in 1 .. next[p] - 1 : Seen(p, i)
      BY <1>1, OrderFacts DEF PInv, BehindInv
    <3> QED
      BY <3>1
  <2>2. Seen(p, 1) /\ Seen(p, 2) /\ Seen(p, 3)
    BY <2>1
  <2> QED
    BY <2>1, <2>2, OrderFacts DEF Seen
<1>2. OpenedIsPrivate
  BY <1>1 DEF OpenedIsPrivate
<1>3. ASSUME NEW p \in Procs, pc[p] = "opened", NEW s \in Subs \ synced
      PROVE  \E q \in Procs \ {p} : s \in made[q] /\ pc[q] # "opened"
  <2>1. at[s] # "absent"
    BY <1>1, <1>3
  <2>2. PICK q \in Procs : s \in made[q] /\ pc[q] \in Making \cup {"killed"}
    BY <2>1 DEF PInv, SyncInv
  <2> QED
    BY <1>3, <2>2 DEF Making
<1> QED
  BY <1>2, <1>3 DEF OpenedIsDurable

\* An opened store is private, was so all along, and survives a power loss
\* (prepare_store_root, ensure_private_directory), however many processes open it
\* at once and wherever they are killed.
THEOREM StorePrivateAndDurable ==
  ASSUME StoreRootAssumption
  PROVE  Spec => []PrivateAndDurable
<1>1. Init => PInv
  BY InitEstablishes
<1>2. PInv /\ [Next]_vars => PInv'
  BY StepsKeep
<1>3. PInv => PrivateAndDurable
  BY OpenedIsSound DEF PInv, PrivateAndDurable
<1> QED
  BY <1>1, <1>2, <1>3, PTL DEF Spec

\* Who calls the store unsafe has found a path that was so at the start, or one
\* that still lacks what the umask took.
LEMMA UnsafeCaused ==
  ASSUME StoreRootAssumption, PInv, NEW p \in Procs, Moves(p),
         pc[p] # "refused", outcome'[p] = "StorePathUnsafe"
  PROVE  Unsafe # {} \/ (umaskStrips /\ Path(p) \in Unfinished)
<1>1. Typed /\ TypeOK /\ Path(p) \in Paths
  BY PInvTypes
<1>2. outcome[p] = Ok /\ Ok # "StorePathUnsafe"
  BY <1>1 DEF TypeOK, Ok
<1>3. at[Path(p)] \notin {"absent", "private"} /\ <<Path(p), at[Path(p)]>> # <<"root", "readable">>
  <2>1. Open(p) \/ Look(p)
    BY <1>1, <1>2
       DEF Moves, Step, Prepare, Make, MakeLoses, Secure, Recheck, Sync, Kill, Retry, Refuse, Typed
  <2>2. CASE Open(p)
    <3>1. OpenRefusal = "StorePathUnsafe"
      BY <1>1, <1>2, <2>2 DEF Open, Refuse, Typed
    <3>2. Path(p) = "root"
      BY <2>2, OrderFacts DEF PInv, BehindInv, Open, Path
    <3> QED
      BY <1>1, <3>1, <3>2, OpenRefuses
  <2>3. CASE Look(p)
    <3>1. pc[p] = "look" /\ next[p] # 1
      BY <2>3 DEF Look, PInv, BehindInv, Ensuring
    <3>2. Path(p) # "root"
      BY <1>1, <3>1, OrderFacts DEF Path, Typed
    <3>3. at[Path(p)] \notin {"absent", "private"}
      BY <1>1, <1>2, <2>3 DEF Look, SafePrivate, Advance, Typed
    <3> QED
      BY <3>2, <3>3
  <2> QED
    BY <2>1, <2>2, <2>3
<1>4. CASE at[Path(p)] = start[Path(p)]
  BY <1>1, <1>3, <1>4 DEF Unsafe
<1>5. CASE at[Path(p)] # start[Path(p)]
  BY <1>1, <1>3, <1>5 DEF PInv, CauseInv
<1> QED
  BY <1>4, <1>5

\* A refusal has a cause outside the race, or does not come again: processes that
\* open a store at once do not make each other call it unsafe, and nobody is too
\* slow for one path twice.
THEOREM RefusalsHaveCause ==
  ASSUME StoreRootAssumption
  PROVE  Spec => RefusedForCause
<1>1. Init => PInv
  BY InitEstablishes
<1>2. PInv /\ [Next]_vars => PInv'
  BY StepsKeep
<1>3. PInv => LostOnlyOnce
  BY DEF PInv
<1>4. PInv /\ [Next]_vars =>
        [\A p \in Procs : pc[p] # "refused" /\ outcome'[p] = "StorePathUnsafe" =>
           Unsafe # {} \/ (umaskStrips /\ Path(p) \in Unfinished)]_vars
  <2> SUFFICES ASSUME PInv, Next, NEW p \in Procs,
                      pc[p] # "refused", outcome'[p] = "StorePathUnsafe"
               PROVE  Unsafe # {} \/ (umaskStrips /\ Path(p) \in Unfinished)
    OBVIOUS
  <2>1. PICK q \in Procs : Moves(q)
    BY DEF Next, Moves
  <2>2. CASE q = p
    BY <2>1, <2>2, UnsafeCaused
  <2>3. CASE q # p
    <3>1. outcome[p] = "StorePathUnsafe"
      BY <2>1, <2>3, PInvTypes, MovesAreTyped DEF OthersStay
    <3> QED
      BY <3>1, PInvTypes DEF TypeOK, Ok
  <2> QED
    BY <2>2, <2>3
<1> QED
  BY <1>1, <1>2, <1>3, <1>4, PTL DEF Spec, RefusedForCause, UnsafeHasCause

=============================================================================
