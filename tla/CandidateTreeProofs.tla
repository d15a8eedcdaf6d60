------------------------ MODULE CandidateTreeProofs ------------------------
(***************************************************************************)
(* Proofs about CandidateTree, for trees of any number of directories and  *)
(* names, any limits, and any number of changes while a load goes on.      *)
(*                                                                         *)
(* 1. What the recursive functions of the model compute, by induction over *)
(*    a set of numbers: Resolve goes on from the way to a path by one      *)
(*    entry, NamesIn lists a directory's names, each once.                 *)
(* 2. The moves: every step of Next is one of a few changes of the stack   *)
(*    and of what is noted, and the proofs below go by these.              *)
(* 3. Nothing is overlooked: NoStrangerEscapes.                            *)
(* 4. The walk is steady: ListedAtOneMoment, StaysInPlace, WalkSteady.     *)
(* 5. A tree that nobody touches is judged for what it is: QuietExact.     *)
(*                                                                         *)
(* The inductive invariant IInv is put together of the parts of 2 to 5.    *)
(*                                                                         *)
(* 6. StableRead, the reading of one file: ReadsSound.                     *)
(***************************************************************************)
EXTENDS LocalReads, SequenceTheorems, FiniteSetTheorems, WellFoundedInduction, TLAPS

-----------------------------------------------------------------------------
(***************************************************************************)
(* Induction over numbers and paths, and the recursive functions.          *)
(***************************************************************************)

\* A set of numbers has a least one.
LEMMA LeastExists ==
  ASSUME NEW S \in SUBSET Nat, S # {}
  PROVE  \E i \in S : \A j \in S : i <= j
<1>1. PICK i \in S : \A j \in S : ~(<<j, i>> \in OpToRel(<, Nat))
  BY NatLessThanWellFounded, WFMin
<1>2. \A j \in S : ~(j < i)
  BY <1>1 DEF OpToRel
<1> QED
  BY <1>2

\* Induction, on a set of numbers.
LEMMA NatInduct ==
  ASSUME NEW S, 0 \in S, \A n \in Nat : n \in S => n + 1 \in S
  PROVE  Nat \subseteq S
<1> SUFFICES ASSUME Nat \ S # {} PROVE FALSE
  OBVIOUS
<1> DEFINE U == Nat \ S
<1>1. PICK m \in U : \A j \in U : m <= j
  BY LeastExists
<1>2. m \in Nat /\ m # 0 /\ m - 1 \in Nat /\ m - 1 < m
  BY <1>1
<1>3. m - 1 \in S
  BY <1>1, <1>2
<1>4. (m - 1) + 1 \in S
  BY <1>2, <1>3
<1> QED
  BY <1>1, <1>2, <1>4

\* The recursion of Resolve, up to a name of the path.
WayStep(t, path, f, n) ==
  IF n = 0 THEN Root ELSE IF f[n - 1] \in Dirs THEN t[f[n - 1]][path[n]] ELSE "absent"

IsWay(f, t, path, m) == f = [n \in 0 .. m |-> WayStep(t, path, f, n)]

LEMMA WayExists ==
  ASSUME NEW t, NEW path
  PROVE  \A m \in Nat : \E f : IsWay(f, t, path, m)
<1> DEFINE S == {m \in Nat : \E f : IsWay(f, t, path, m)}
<1>1. 0 \in S
  <2>1. IsWay([n \in 0 .. 0 |-> Root], t, path, 0)
    BY DEF IsWay, WayStep
  <2> QED
    BY <2>1
<1>2. ASSUME NEW m \in Nat, m \in S  PROVE m + 1 \in S
  <2>1. PICK f : IsWay(f, t, path, m)
    BY <1>2
  <2> DEFINE g == [n \in 0 .. m + 1 |-> IF n <= m THEN f[n] ELSE WayStep(t, path, f, n)]
  <2>2. \A n \in 0 .. m : f[n] = WayStep(t, path, f, n)
    BY <2>1 DEF IsWay
  <2>3. \A n \in 0 .. m : g[n] = f[n]
    OBVIOUS
  <2>4. g[m + 1] = WayStep(t, path, f, m + 1)
    OBVIOUS
  <2>5. DOMAIN g = 0 .. m + 1 /\ g = [n \in 0 .. m + 1 |-> g[n]]
    OBVIOUS
  <2> HIDE DEF g
  <2>6. \A n \in 0 .. m + 1 : WayStep(t, path, g, n) = WayStep(t, path, f, n)
    <3> SUFFICES ASSUME NEW n \in 0 .. m + 1
                 PROVE  WayStep(t, path, g, n) = WayStep(t, path, f, n)
      OBVIOUS
    <3>1. n = 0 \/ n - 1 \in 0 .. m
      OBVIOUS
    <3> QED
      BY <2>3, <3>1 DEF WayStep
  <2>7. \A n \in 0 .. m + 1 : g[n] = WayStep(t, path, g, n)
    <3> SUFFICES ASSUME NEW n \in 0 .. m + 1 PROVE g[n] = WayStep(t, path, g, n)
      OBVIOUS
    <3>1. n \in 0 .. m \/ n = m + 1
      OBVIOUS
    <3> QED
      BY <2>2, <2>3, <2>4, <2>6, <3>1
  <2>8. IsWay(g, t, path, m + 1)
    BY <2>5, <2>7 DEF IsWay
  <2> QED
    BY <2>8
<1> HIDE DEF S
<1>3. Nat \subseteq S
  BY <1>1, <1>2, NatInduct
<1> QED
  BY <1>3 DEF S

LEMMA ResolveIsWay ==
  ASSUME NEW t, NEW path, Len(path) \in Nat
  PROVE  \E f : IsWay(f, t, path, Len(path)) /\ Resolve(t, path) = f[Len(path)]
<1> DEFINE at == CHOOSE f : f = [n \in 0 .. Len(path) |->
                     IF n = 0 THEN Root
                     ELSE IF f[n - 1] \in Dirs THEN t[f[n - 1]][path[n]] ELSE "absent"]
<1>1. Resolve(t, path) = at[Len(path)]
  BY DEF Resolve
<1>2. IsWay(at, t, path, Len(path))
  <2> DEFINE P(f) == IsWay(f, t, path, Len(path))
  <2>1. \E f : P(f)
    BY WayExists
  <2>2. at = CHOOSE f : P(f)
    BY DEF IsWay, WayStep
  <2>3. P(CHOOSE f : P(f))
    <3> HIDE DEF P
    <3> QED
      BY <2>1
  <2> HIDE DEF at
  <2> QED
    BY <2>2, <2>3
<1> HIDE DEF at
<1> QED
  BY <1>1, <1>2

\* Two ways along the same names agree.
LEMMA WaysAgree ==
  ASSUME NEW t, NEW p, NEW q, NEW m \in Nat, \A n \in 1 .. m : p[n] = q[n]
  PROVE  \A f, g : IsWay(f, t, p, m) /\ IsWay(g, t, q, m + 1) => f[m] = g[m]
<1> SUFFICES ASSUME NEW f, NEW g, IsWay(f, t, p, m), IsWay(g, t, q, m + 1)
             PROVE  f[m] = g[m]
  OBVIOUS
<1> DEFINE S == {n \in Nat : n <= m => f[n] = g[n]}
<1>1. \A n \in 0 .. m : f[n] = WayStep(t, p, f, n) /\ g[n] = WayStep(t, q, g, n)
  <2>1. \A n \in 0 .. m : n \in 0 .. m + 1
    OBVIOUS
  <2>2. \A n \in 0 .. m : f[n] = WayStep(t, p, f, n)
    BY DEF IsWay
  <2>3. \A n \in 0 .. m + 1 : g[n] = WayStep(t, q, g, n)
    BY DEF IsWay
  <2> QED
    BY <2>1, <2>2, <2>3
<1>2. 0 \in S
  BY <1>1 DEF WayStep
<1>3. ASSUME NEW n \in Nat, n \in S  PROVE n + 1 \in S
  <2>1. CASE n + 1 <= m
    <3>1. f[n] = g[n] /\ n + 1 \in 0 .. m /\ n + 1 \in 1 .. m /\ (n + 1) - 1 = n /\ n + 1 # 0
      BY <1>3, <2>1
    <3>2. f[n + 1] = g[n + 1]
      BY <1>1, <3>1 DEF WayStep
    <3> QED
      BY <3>2
  <2> QED
    BY <2>1
<1> HIDE DEF S
<1>4. Nat \subseteq S
  BY <1>2, <1>3, NatInduct
<1> QED
  BY <1>4 DEF S

\* Resolve goes name by name.
LEMMA ResolveSteps ==
  ASSUME NEW t
  PROVE  /\ Resolve(t, <<>>) = Root
         /\ \A path \in Seq(NameSet), n \in NameSet :
              Resolve(t, Append(path, n)) =
                IF Resolve(t, path) \in Dirs THEN t[Resolve(t, path)][n] ELSE "absent"
<1>1. Resolve(t, <<>>) = Root
  <2>1. Len(<<>>) = 0
    OBVIOUS
  <2>2. PICK f : IsWay(f, t, <<>>, 0) /\ Resolve(t, <<>>) = f[0]
    BY <2>1, ResolveIsWay
  <2> QED
    BY <2>2 DEF IsWay, WayStep
<1>2. ASSUME NEW path \in Seq(NameSet), NEW n \in NameSet
      PROVE  Resolve(t, Append(path, n)) =
               IF Resolve(t, path) \in Dirs THEN t[Resolve(t, path)][n] ELSE "absent"
  <2> DEFINE q == Append(path, n)
             m == Len(path)
  <2>1. /\ q \in Seq(NameSet) /\ Len(q) = m + 1 /\ m \in Nat /\ q[m + 1] = n
        /\ \A i \in 1 .. m : path[i] = q[i]
    BY AppendProperties
  <2> HIDE DEF q
  <2>2. PICK f : IsWay(f, t, path, m) /\ Resolve(t, path) = f[m]
    BY <2>1, ResolveIsWay
  <2>3. PICK g : IsWay(g, t, q, m + 1) /\ Resolve(t, q) = g[m + 1]
    <3>1. Len(q) \in Nat
      BY <2>1
    <3> QED
      BY <2>1, <3>1, ResolveIsWay
  <2>4. f[m] = g[m]
    <3>1. m \in Nat /\ \A i \in 1 .. m : path[i] = q[i]
      BY <2>1
    <3> HIDE DEF m
    <3>2. \A v, w : IsWay(v, t, path, m) /\ IsWay(w, t, q, m + 1) => v[m] = w[m]
      BY <3>1, WaysAgree
    <3> QED
      BY <2>2, <2>3, <3>2
  <2>5. g[m + 1] = WayStep(t, q, g, m + 1)
    BY <2>1, <2>3 DEF IsWay
  <2>6. (m + 1) - 1 = m /\ m + 1 # 0
    BY <2>1
  <2>7. g[m + 1] = IF g[m] \in Dirs THEN t[g[m]][n] ELSE "absent"
    BY <2>1, <2>5, <2>6 DEF WayStep
  <2> QED
    BY <2>2, <2>3, <2>4, <2>7 DEF q
<1> QED
  BY <1>1, <1>2

\* Induction on paths.
LEMMA PathInduct ==
  ASSUME NEW S, <<>> \in S,
         \A p \in Seq(NameSet), n \in NameSet : p \in S => Append(p, n) \in S
  PROVE  Seq(NameSet) \subseteq S
<1> DEFINE U == {m \in Nat : \A p \in Seq(NameSet) : Len(p) = m => p \in S}
<1>1. 0 \in U
  BY EmptySeq
<1>2. ASSUME NEW m \in Nat, m \in U  PROVE m + 1 \in U
  <2> SUFFICES ASSUME NEW p \in Seq(NameSet), Len(p) = m + 1 PROVE p \in S
    OBVIOUS
  <2>1. p # <<>>
    OBVIOUS
  <2>2. PICK q \in Seq(NameSet), n \in NameSet : p = Append(q, n)
    BY <2>1, SequenceEmptyOrAppend
  <2>3. Len(q) = m
    <3>1. Len(p) = Len(q) + 1 /\ Len(q) \in Nat
      BY <2>2, AppendProperties
    <3> QED
      BY <3>1
  <2> QED
    BY <1>2, <2>2, <2>3
<1> HIDE DEF U
<1>3. Nat \subseteq U
  BY <1>1, <1>2, NatInduct
<1> QED
  BY <1>3 DEF U

\* Nobody has changed an entry on the way along a path.
Untouched(t, done, path) ==
  \A i \in 1 .. Len(path) : <<Resolve(t, SubSeq(path, 1, i - 1)), path[i]>> \notin done

LEMMA UntouchedSteps ==
  ASSUME NEW t, NEW done
  PROVE  /\ Untouched(t, done, <<>>)
         /\ \A p \in Seq(NameSet), n \in NameSet :
              Untouched(t, done, Append(p, n)) <=>
                Untouched(t, done, p) /\ <<Resolve(t, p), n>> \notin done
<1>1. Untouched(t, done, <<>>)
  BY DEF Untouched
<1>2. ASSUME NEW p \in Seq(NameSet), NEW n \in NameSet
      PROVE  Untouched(t, done, Append(p, n)) <=>
               Untouched(t, done, p) /\ <<Resolve(t, p), n>> \notin done
  <2> DEFINE q == Append(p, n)
             m == Len(p)
  <2>1. /\ q \in Seq(NameSet) /\ Len(q) = m + 1 /\ m \in Nat /\ q[m + 1] = n
        /\ \A i \in 1 .. m : q[i] = p[i]
    BY AppendProperties
  <2>2. \A i \in 1 .. m + 1 : SubSeq(q, 1, i - 1) = SubSeq(p, 1, i - 1)
    <3> HIDE DEF q
    <3> SUFFICES ASSUME NEW i \in 1 .. m + 1
                 PROVE  SubSeq(q, 1, i - 1) = SubSeq(p, 1, i - 1)
      OBVIOUS
    <3>1. SubSeq(q, 1, i - 1) = [j \in 1 .. i - 1 |-> q[j]]
      <4>1. \A j \in 1 .. i - 1 : q[1 + j - 1] = q[j]
        OBVIOUS
      <4> QED
        BY <2>1, <4>1
    <3>2. SubSeq(p, 1, i - 1) = [j \in 1 .. i - 1 |-> p[j]]
      <4>1. \A j \in 1 .. i - 1 : p[1 + j - 1] = p[j]
        OBVIOUS
      <4> QED
        BY <2>1, <4>1
    <3>3. \A j \in 1 .. i - 1 : q[j] = p[j]
      BY <2>1
    <3> QED
      BY <3>1, <3>2, <3>3
  <2>3. SubSeq(p, 1, m) = p
    <3>1. SubSeq(p, 1, Len(p)) = p
      BY SubSeqFull
    <3> QED
      BY <3>1
  <2>4. (m + 1) - 1 = m /\ 1 .. m + 1 = (1 .. m) \cup {m + 1}
    BY <2>1
  <2>5. Untouched(t, done, q) <=>
          /\ \A i \in 1 .. m : <<Resolve(t, SubSeq(p, 1, i - 1)), p[i]>> \notin done
          /\ <<Resolve(t, p), n>> \notin done
    <3> HIDE DEF q
    <3>1. Untouched(t, done, q) <=>
            \A i \in 1 .. m + 1 : <<Resolve(t, SubSeq(q, 1, i - 1)), q[i]>> \notin done
      BY <2>1 DEF Untouched
    <3>2. \A i \in 1 .. m + 1 : Resolve(t, SubSeq(q, 1, i - 1)) = Resolve(t, SubSeq(p, 1, i - 1))
      BY <2>2
    <3>3. Resolve(t, SubSeq(p, 1, (m + 1) - 1)) = Resolve(t, p) /\ m + 1 \in 1 .. m + 1
      BY <2>1, <2>3, <2>4
    <3> HIDE DEF m
    <3> QED
      BY <2>1, <2>4, <3>1, <3>2, <3>3
  <2> QED
    BY <2>5 DEF Untouched
<1> QED
  BY <1>1, <1>2

\* Where a path leads is left alone by changes that are not on its way.
LEMMA UntouchedStays ==
  ASSUME NEW t, NEW u, NEW done, NEW more, done \subseteq more,
         \A d \in Dirs, n \in NameSet : <<d, n>> \notin more => u[d][n] = t[d][n]
  PROVE  \A p \in Seq(NameSet) :
           Untouched(u, more, p) => Untouched(t, done, p) /\ Resolve(u, p) = Resolve(t, p)
<1> DEFINE good(p) == Untouched(u, more, p) => Untouched(t, done, p) /\ Resolve(u, p) = Resolve(t, p)
           S == {p \in Seq(NameSet) : good(p)}
<1>1. <<>> \in S
  BY ResolveSteps, UntouchedSteps, EmptySeq
<1>2. \A v : \A path \in Seq(NameSet), n \in NameSet :
        Resolve(v, Append(path, n)) =
          IF Resolve(v, path) \in Dirs THEN v[Resolve(v, path)][n] ELSE "absent"
  BY ResolveSteps
<1>3. ASSUME NEW p \in Seq(NameSet), NEW n \in NameSet, p \in S  PROVE Append(p, n) \in S
  <2> DEFINE q == Append(p, n)
  <2>1. q \in Seq(NameSet)
    BY AppendProperties
  <2> SUFFICES ASSUME Untouched(u, more, q)
               PROVE  Untouched(t, done, q) /\ Resolve(u, q) = Resolve(t, q)
    BY <2>1
  <2>2. Untouched(u, more, p) /\ <<Resolve(u, p), n>> \notin more
    BY UntouchedSteps
  <2>3. Untouched(t, done, p) /\ Resolve(u, p) = Resolve(t, p)
    BY <1>3, <2>2
  <2>4. Untouched(t, done, q)
    BY <2>2, <2>3, UntouchedSteps
  <2>5. Resolve(t, p) \in Dirs => u[Resolve(t, p)][n] = t[Resolve(t, p)][n]
    BY <2>2, <2>3
  <2>6. Resolve(u, q) = Resolve(t, q)
    <3>1. Resolve(u, q) = IF Resolve(u, p) \in Dirs THEN u[Resolve(u, p)][n] ELSE "absent"
      BY <1>2, Zenon
    <3>2. Resolve(t, q) = IF Resolve(t, p) \in Dirs THEN t[Resolve(t, p)][n] ELSE "absent"
      BY <1>2, Zenon
    <3> HIDE DEF q
    <3> QED
      BY <2>3, <2>5, <3>1, <3>2
  <2> QED
    BY <2>4, <2>6
<1> HIDE DEF S
<1>4. Seq(NameSet) \subseteq S
  BY <1>1, <1>3, PathInduct
<1> QED
  BY <1>4 DEF S

\* The recursion of NamesIn, up to a name in the order.
ListStep(contents, f, i) ==
  IF i = 0 THEN <<>>
  ELSE IF contents[Names[i]] = "absent" THEN f[i - 1] ELSE Append(f[i - 1], Names[i])

IsList(f, contents, m) == f = [i \in 0 .. m |-> ListStep(contents, f, i)]

LEMMA ListExists ==
  ASSUME NEW contents
  PROVE  \A m \in Nat : \E f : IsList(f, contents, m)
<1> DEFINE S == {m \in Nat : \E f : IsList(f, contents, m)}
<1>1. 0 \in S
  <2>1. IsList([i \in 0 .. 0 |-> <<>>], contents, 0)
    BY DEF IsList, ListStep
  <2> QED
    BY <2>1
<1>2. ASSUME NEW m \in Nat, m \in S  PROVE m + 1 \in S
  <2>1. PICK f : IsList(f, contents, m)
    BY <1>2
  <2> DEFINE g == [i \in 0 .. m + 1 |-> IF i <= m THEN f[i] ELSE ListStep(contents, f, i)]
  <2>2. \A i \in 0 .. m : f[i] = ListStep(contents, f, i)
    BY <2>1 DEF IsList
  <2>3. \A i \in 0 .. m : g[i] = f[i]
    OBVIOUS
  <2>4. g[m + 1] = ListStep(contents, f, m + 1)
    OBVIOUS
  <2>5. DOMAIN g = 0 .. m + 1 /\ g = [i \in 0 .. m + 1 |-> g[i]]
    OBVIOUS
  <2> HIDE DEF g
  <2>6. \A i \in 0 .. m + 1 : ListStep(contents, g, i) = ListStep(contents, f, i)
    <3> SUFFICES ASSUME NEW i \in 0 .. m + 1
                 PROVE  ListStep(contents, g, i) = ListStep(contents, f, i)
      OBVIOUS
    <3>1. i = 0 \/ i - 1 \in 0 .. m
      OBVIOUS
    <3> QED
      BY <2>3, <3>1 DEF ListStep
  <2>7. \A i \in 0 .. m + 1 : g[i] = ListStep(contents, g, i)
    <3> SUFFICES ASSUME NEW i \in 0 .. m + 1 PROVE g[i] = ListStep(contents, g, i)
      OBVIOUS
    <3>1. i \in 0 .. m \/ i = m + 1
      OBVIOUS
    <3> QED
      BY <2>2, <2>3, <2>4, <2>6, <3>1
  <2>8. IsList(g, contents, m + 1)
    BY <2>5, <2>7 DEF IsList
  <2> QED
    BY <2>8
<1> HIDE DEF S
<1>3. Nat \subseteq S
  BY <1>1, <1>2, NatInduct
<1> QED
  BY <1>3 DEF S

\* A listing has every name that is there, once.
LEMMA NamesListed ==
  ASSUME CandidateTreeAssumption, NEW contents
  PROVE  /\ NamesIn(contents) \in Seq(NameSet)
         /\ \A n \in NameSet : contents[n] # "absent" =>
              \E k \in DOMAIN NamesIn(contents) : NamesIn(contents)[k] = n
         /\ \A k \in DOMAIN NamesIn(contents) : contents[NamesIn(contents)[k]] # "absent"
         /\ \A k, l \in DOMAIN NamesIn(contents) :
              NamesIn(contents)[k] = NamesIn(contents)[l] => k = l
<1> DEFINE N == Len(Names)
           upTo == CHOOSE f : f = [i \in 0 .. Len(Names) |->
                     IF i = 0 THEN <<>>
                     ELSE IF contents[Names[i]] = "absent" THEN f[i - 1]
                     ELSE Append(f[i - 1], Names[i])]
<1>1. /\ N \in Nat /\ DOMAIN Names = 1 .. N /\ \A i \in 1 .. N : Names[i] \in NameSet
      /\ \A i, j \in 1 .. N : Names[i] = Names[j] => i = j
      /\ \A n \in NameSet : \E i \in 1 .. N : Names[i] = n
  BY DEF CandidateTreeAssumption, NameSet
<1>2. NamesIn(contents) = upTo[N]
  BY DEF NamesIn
<1>3. IsList(upTo, contents, N)
  <2> DEFINE P(f) == IsList(f, contents, N)
  <2>1. \E f : P(f)
    BY <1>1, ListExists
  <2>2. upTo = CHOOSE f : P(f)
    BY DEF IsList, ListStep
  <2>3. P(CHOOSE f : P(f))
    <3> HIDE DEF P
    <3> QED
      BY <2>1
  <2> HIDE DEF upTo
  <2> QED
    BY <2>2, <2>3
<1> HIDE DEF upTo, N
<1>4. \A i \in 0 .. N : upTo[i] = ListStep(contents, upTo, i)
  BY <1>3 DEF IsList
<1> DEFINE Fits(i) ==
             /\ upTo[i] \in Seq(NameSet)
             /\ \A j \in 1 .. i : contents[Names[j]] # "absent" =>
                  \E k \in DOMAIN upTo[i] : upTo[i][k] = Names[j]
             /\ \A k \in DOMAIN upTo[i] : \E j \in 1 .. i : upTo[i][k] = Names[j] /\ contents[Names[j]] # "absent"
             /\ \A k, l \in DOMAIN upTo[i] : upTo[i][k] = upTo[i][l] => k = l
           S == {i \in Nat : i <= N => Fits(i)}
<1>5. 0 \in S
  <2>1. upTo[0] = <<>>
    BY <1>1, <1>4 DEF ListStep
  <2>2. Fits(0)
    BY <2>1
  <2> QED
    BY <2>2
<1>6. ASSUME NEW i \in Nat, i \in S  PROVE i + 1 \in S
  <2> SUFFICES ASSUME i + 1 <= N PROVE Fits(i + 1)
    OBVIOUS
  <2>1. /\ i \in 0 .. N /\ i + 1 \in 0 .. N /\ i + 1 \in 1 .. N /\ (i + 1) - 1 = i /\ i + 1 # 0
        /\ i <= N /\ 1 .. i + 1 = (1 .. i) \cup {i + 1}
    BY <1>1
  <2>2. Fits(i)
    BY <1>6, <2>1
  <2> DEFINE s == upTo[i]
             n == Names[i + 1]
  <2>3. upTo[i + 1] = IF contents[n] = "absent" THEN s ELSE Append(s, n)
    BY <1>4, <2>1 DEF ListStep
  <2>4. n \in NameSet /\ \A j \in 1 .. i : Names[j] # n
    BY <1>1, <2>1
  <2>5. /\ s \in Seq(NameSet)
        /\ \A j \in 1 .. i : contents[Names[j]] # "absent" => \E k \in DOMAIN s : s[k] = Names[j]
        /\ \A k \in DOMAIN s : \E j \in 1 .. i : s[k] = Names[j] /\ contents[Names[j]] # "absent"
        /\ \A k, l \in DOMAIN s : s[k] = s[l] => k = l
    BY <2>2
  <2> HIDE DEF s, n, S
  <2>6. CASE contents[n] = "absent"
    <3>1. upTo[i + 1] = s
      BY <2>3, <2>6
    <3>2. \A j \in 1 .. i + 1 : contents[Names[j]] # "absent" => \E k \in DOMAIN s : s[k] = Names[j]
      BY <2>1, <2>5, <2>6 DEF n
    <3>3. \A k \in DOMAIN s : \E j \in 1 .. i + 1 : s[k] = Names[j] /\ contents[Names[j]] # "absent"
      BY <2>1, <2>5
    <3> QED
      BY <2>5, <3>1, <3>2, <3>3
  <2>7. CASE contents[n] # "absent"
    <3> DEFINE m == Len(s)
               t == Append(s, n)
    <3>1. upTo[i + 1] = t
      BY <2>3, <2>7
    <3>2. /\ t \in Seq(NameSet) /\ m \in Nat /\ DOMAIN s = 1 .. m /\ DOMAIN t = 1 .. m + 1
          /\ t[m + 1] = n /\ \A k \in 1 .. m : t[k] = s[k]
      <4>1. t \in Seq(NameSet) /\ Len(t) = m + 1 /\ t[m + 1] = n /\ \A k \in 1 .. m : t[k] = s[k]
        BY <2>4, <2>5, AppendProperties
      <4> HIDE DEF t
      <4> QED
        BY <2>5, <4>1
    <3> HIDE DEF t, m
    <3>3. m + 1 \in 1 .. m + 1 /\ 1 .. m + 1 = (1 .. m) \cup {m + 1} /\ i + 1 \in 1 .. i + 1
      BY <2>1, <3>2
    <3>4. \A j \in 1 .. i + 1 : contents[Names[j]] # "absent" => \E k \in DOMAIN t : t[k] = Names[j]
      <4> SUFFICES ASSUME NEW j \in 1 .. i + 1, contents[Names[j]] # "absent"
                   PROVE  \E k \in DOMAIN t : t[k] = Names[j]
        OBVIOUS
      <4>1. CASE j \in 1 .. i
        <5>1. PICK k \in DOMAIN s : s[k] = Names[j]
          BY <2>5, <4>1
        <5>2. k \in DOMAIN t /\ t[k] = Names[j]
          BY <3>2, <3>3, <5>1
        <5> QED
          BY <5>2
      <4>2. CASE j = i + 1
        <5>1. m + 1 \in DOMAIN t /\ t[m + 1] = Names[j]
          BY <3>2, <3>3, <4>2 DEF n
        <5> QED
          BY <5>1
      <4> QED
        BY <2>1, <4>1, <4>2
    <3>5. \A k \in DOMAIN t : \E j \in 1 .. i + 1 : t[k] = Names[j] /\ contents[Names[j]] # "absent"
      <4> SUFFICES ASSUME NEW k \in DOMAIN t
                   PROVE  \E j \in 1 .. i + 1 : t[k] = Names[j] /\ contents[Names[j]] # "absent"
        OBVIOUS
      <4>1. CASE k \in 1 .. m
        <5>1. PICK j \in 1 .. i : s[k] = Names[j] /\ contents[Names[j]] # "absent"
          BY <2>5, <3>2, <4>1
        <5>2. j \in 1 .. i + 1 /\ t[k] = Names[j]
          BY <2>1, <3>2, <4>1, <5>1
        <5> QED
          BY <5>1, <5>2
      <4>2. CASE k = m + 1
        BY <2>7, <3>2, <3>3, <4>2 DEF n
      <4> QED
        BY <3>2, <3>3, <4>1, <4>2
    <3>6. \A k \in 1 .. m : t[k] # n
      <4> SUFFICES ASSUME NEW k \in 1 .. m PROVE t[k] # n
        OBVIOUS
      <4>1. PICK j \in 1 .. i : s[k] = Names[j]
        BY <2>5, <3>2
      <4> QED
        BY <2>4, <3>2, <4>1
    <3>7. \A k, l \in DOMAIN t : t[k] = t[l] => k = l
      <4> SUFFICES ASSUME NEW k \in DOMAIN t, NEW l \in DOMAIN t, t[k] = t[l] PROVE k = l
        OBVIOUS
      <4>1. (k \in 1 .. m \/ k = m + 1) /\ (l \in 1 .. m \/ l = m + 1)
        BY <3>2, <3>3
      <4>2. CASE k \in 1 .. m /\ l \in 1 .. m
        BY <2>5, <3>2, <4>2
      <4> QED
        BY <3>2, <3>6, <4>1, <4>2
    <3> QED
      BY <3>1, <3>2, <3>4, <3>5, <3>7
  <2> QED
    BY <2>6, <2>7
<1> HIDE DEF S
<1>7. Nat \subseteq S
  BY <1>5, <1>6, NatInduct
<1>8. Fits(N)
  BY <1>1, <1>7 DEF S
<1>9. \A n \in NameSet : contents[n] # "absent" => \E k \in DOMAIN upTo[N] : upTo[N][k] = n
  BY <1>1, <1>8
<1> QED
  BY <1>2, <1>8, <1>9

(***************************************************************************)
(* The stack of the directories being inspected, and how a step changes it.*)
(***************************************************************************)

Frames    == [path : Seq(NameSet), dir : Dirs, stamp : Nat, left : Seq(NameSet)]
Inspected == [path : Seq(NameSet), dir : Dirs, names : Seq(NameSet)]

\* The names still to be seen in a directory.
Waiting(f) == {f.left[k] : k \in DOMAIN f.left}

\* Every directory is one below the one before it.
StackInv ==
  /\ tree \in [Dirs -> [NameSet -> Things]] /\ stamp \in [Dirs -> Nat]
  /\ declared \in Manifests /\ allowed \in AllowedFiles
  /\ open \in Seq(Frames) /\ visited \subseteq Inspected
  /\ \A i \in DOMAIN open : Len(open[i].path) = i - 1

\* Where a load stands, and what its stack is there.
WalkInv ==
  /\ pc \in {"start", "list", "entry", "enter", "count", "read", "done"}
  /\ pc \in {"list", "entry", "enter"} => open # <<>>
  /\ pc = "start" => open = <<>> /\ visited = {}
  /\ pc = "list" => Top.left = <<>>
  /\ pc = "enter" => Top.left # <<>> /\ Logical \in Directories
  /\ pc \in {"count", "read"} \/ Loaded => open = <<>>
  /\ verdict # Ok => pc = "done"

BaseInv == StackInv /\ WalkInv

\* The last directory of the stack has these names left.
LastLeft(s, names) == [s EXCEPT ![Len(s)].left = names]

LEMMA LastReplaced ==
  ASSUME NEW s \in Seq(Frames), s # <<>>, NEW names \in Seq(NameSet)
  PROVE  /\ LastLeft(s, names) \in Seq(Frames)
         /\ Len(LastLeft(s, names)) = Len(s) /\ DOMAIN LastLeft(s, names) = DOMAIN s
         /\ Len(s) \in DOMAIN s /\ LastLeft(s, names)[Len(s)].left = names
         /\ \A i \in DOMAIN s : /\ LastLeft(s, names)[i].path = s[i].path
                                /\ LastLeft(s, names)[i].dir = s[i].dir
                                /\ LastLeft(s, names)[i].stamp = s[i].stamp
                                /\ i # Len(s) => LastLeft(s, names)[i] = s[i]
<1> DEFINE t == LastLeft(s, names)
           last == s[Len(s)]
           new  == [path |-> last.path, dir |-> last.dir, stamp |-> last.stamp, left |-> names]
<1>1. Len(s) \in Nat \ {0} /\ DOMAIN s = 1 .. Len(s) /\ Len(s) \in DOMAIN s
  OBVIOUS
<1>2. last \in Frames
  BY <1>1
<1>3. [last EXCEPT !.left = names] = new
  <2> HIDE DEF last
  <2>1. last = [path |-> last.path, dir |-> last.dir, stamp |-> last.stamp, left |-> last.left]
    BY <1>2 DEF Frames
  <2> QED
    BY <2>1
<1>4. t = [s EXCEPT ![Len(s)] = new]
  BY <1>3, Zenon DEF LastLeft
<1>5. new \in Frames
  <2> HIDE DEF last
  <2> QED
    BY <1>2 DEF Frames
<1>6. new.path = last.path /\ new.dir = last.dir /\ new.stamp = last.stamp /\ new.left = names
  OBVIOUS
<1> HIDE DEF new, t
<1>7. t \in Seq(Frames) /\ Len(t) = Len(s) /\ DOMAIN t = DOMAIN s
  <2> HIDE DEF last
  <2> QED
    BY <1>1, <1>4, <1>5
<1>8. \A i \in DOMAIN s : t[i] = IF i = Len(s) THEN new ELSE s[i]
  BY <1>1, <1>4
<1>9. \A i \in DOMAIN s : /\ t[i].path = s[i].path /\ t[i].dir = s[i].dir /\ t[i].stamp = s[i].stamp
                          /\ i # Len(s) => t[i] = s[i]
  BY <1>6, <1>8
<1> QED
  BY <1>1, <1>6, <1>7, <1>8, <1>9 DEF t

LEMMA StackFacts ==
  ASSUME StackInv
  PROVE  /\ Len(open) \in Nat /\ DOMAIN open = 1 .. Len(open)
         /\ open # <<>> => Len(open) \in DOMAIN open /\ Len(open) # 0 /\ Top = open[Len(open)] /\ Top \in Frames
         /\ \A i \in DOMAIN open : open[i] \in Frames
BY DEF StackInv, Top

\* What a frame has.
LEMMA FrameFacts ==
  ASSUME NEW f \in Frames
  PROVE  /\ f.path \in Seq(NameSet) /\ f.dir \in Dirs /\ f.stamp \in Nat /\ f.left \in Seq(NameSet)
         /\ Waiting(f) \subseteq NameSet
         /\ f.left # <<>> =>
              /\ f.left[1] \in NameSet /\ f.left[1] \in Waiting(f) /\ 1 \in DOMAIN f.left
              /\ Tail(f.left) \in Seq(NameSet) /\ DOMAIN Tail(f.left) = 1 .. Len(f.left) - 1
              /\ DOMAIN f.left = 1 .. Len(f.left) /\ Len(f.left) \in Nat
              /\ \A k \in DOMAIN Tail(f.left) : /\ k + 1 \in DOMAIN f.left /\ k + 1 # 1
                                                /\ Tail(f.left)[k] = f.left[k + 1]
              /\ \A k \in DOMAIN f.left : k # 1 =>
                   k - 1 \in DOMAIN Tail(f.left) /\ Tail(f.left)[k - 1] = f.left[k]
<1>1. f.path \in Seq(NameSet) /\ f.dir \in Dirs /\ f.stamp \in Nat /\ f.left \in Seq(NameSet)
  BY DEF Frames
<1> DEFINE s == f.left
<1>2. s \in Seq(NameSet)
  BY <1>1
<1>3. Waiting(f) = {s[k] : k \in DOMAIN s}
  BY DEF Waiting
<1> HIDE DEF s
<1>4. Waiting(f) \subseteq NameSet
  BY <1>2, <1>3
<1>5. ASSUME s # <<>>
      PROVE  /\ s[1] \in NameSet /\ s[1] \in Waiting(f) /\ 1 \in DOMAIN s
             /\ Tail(s) \in Seq(NameSet) /\ DOMAIN Tail(s) = 1 .. Len(s) - 1
             /\ DOMAIN s = 1 .. Len(s) /\ Len(s) \in Nat
             /\ \A k \in DOMAIN Tail(s) : k + 1 \in DOMAIN s /\ k + 1 # 1 /\ Tail(s)[k] = s[k + 1]
             /\ \A k \in DOMAIN s : k # 1 => k - 1 \in DOMAIN Tail(s) /\ Tail(s)[k - 1] = s[k]
  <2>1. 1 \in DOMAIN s /\ s[1] \in NameSet /\ DOMAIN s = 1 .. Len(s) /\ Len(s) \in Nat
    BY <1>2, <1>5
  <2>2. s[1] \in Waiting(f)
    BY <1>3, <2>1
  <2>3. /\ Tail(s) \in Seq(NameSet) /\ Len(Tail(s)) = Len(s) - 1
        /\ \A k \in 1 .. Len(Tail(s)) : Tail(s)[k] = s[k + 1]
    BY <1>2, <1>5, HeadTailProperties
  <2>4. DOMAIN Tail(s) = 1 .. Len(s) - 1
    BY <2>3
  <2>5. \A k \in 1 .. Len(s) - 1 : k + 1 \in DOMAIN s /\ k + 1 # 1 /\ Tail(s)[k] = s[k + 1]
    <3>1. \A k \in 1 .. Len(s) - 1 : k + 1 \in 1 .. Len(s) /\ k + 1 # 1
      BY <2>1
    <3>2. \A k \in 1 .. Len(s) - 1 : Tail(s)[k] = s[k + 1]
      BY <2>3
    <3> QED
      BY <2>1, <3>1, <3>2
  <2>6. \A k \in DOMAIN s : k # 1 => k - 1 \in 1 .. Len(s) - 1 /\ (k - 1) + 1 = k
    BY <2>1
  <2>7. \A k \in DOMAIN s : k # 1 => k - 1 \in DOMAIN Tail(s) /\ Tail(s)[k - 1] = s[k]
    BY <2>4, <2>5, <2>6
  <2> QED
    BY <2>1, <2>2, <2>3, <2>4, <2>5, <2>7
<1> QED
  BY <1>1, <1>4, <1>5 DEF s

-----------------------------------------------------------------------------
(***************************************************************************)
(* What a step does to the stack and to what is noted. The rest of what is *)
(* proved here goes by these moves.                                        *)
(***************************************************************************)

Kept == UNCHANGED <<tree, stamp, changes, changed, declared, allowed>>

\* Nothing but where the last directory stands.
Reseen(names) ==
  /\ open' \in Seq(Frames) /\ Len(open') = Len(open) /\ DOMAIN open' = DOMAIN open
  /\ Len(open) \in DOMAIN open /\ open'[Len(open)].left = names
  /\ \A i \in DOMAIN open : /\ open'[i].path = open[i].path /\ open'[i].dir = open[i].dir
                            /\ open'[i].stamp = open[i].stamp
                            /\ i # Len(open) => open'[i] = open[i]

Refused ==
  /\ Kept /\ UNCHANGED <<open, visited>> /\ pc # "done" /\ pc' = "done"
  /\ verdict' \in Refusals

RootOpened ==
  /\ Kept /\ UNCHANGED <<visited, verdict>> /\ pc = "start" /\ pc' = "list"
  /\ open' \in Seq(Frames) /\ Len(open') = 1 /\ DOMAIN open' = {1}
  /\ open'[1].path = <<>> /\ open'[1].dir = Root
  /\ open'[1].stamp = stamp[Root] /\ open'[1].left = <<>>

Listed ==
  /\ Kept /\ UNCHANGED verdict /\ pc = "list" /\ pc' = "entry"
  /\ Reseen(Listing(Top.dir)) /\ Listing(Top.dir) \in Seq(NameSet)
  /\ visited' = visited \cup {[path |-> Top.path, dir |-> Top.dir, names |-> Listing(Top.dir)]}

FileSeen ==
  /\ Kept /\ UNCHANGED <<visited, verdict>> /\ pc = "entry" /\ pc' = "entry"
  /\ Top.left # <<>> /\ Entry = "file" /\ Logical \in Files /\ Reseen(Tail(Top.left))

DirectorySeen ==
  /\ Kept /\ UNCHANGED <<open, visited, verdict>> /\ pc = "entry" /\ pc' = "enter"
  /\ Top.left # <<>> /\ Logical \in Directories

Entered ==
  /\ Kept /\ UNCHANGED <<visited, verdict>> /\ pc = "enter" /\ pc' = "list"
  /\ Resolve(tree, Logical) \in Dirs /\ Len(open) <= MaxDepth
  /\ open' \in Seq(Frames) /\ Len(open') = Len(open) + 1 /\ DOMAIN open' = 1 .. Len(open) + 1
  /\ Len(open) \in DOMAIN open /\ open'[Len(open)].left = Tail(Top.left)
  /\ \A i \in DOMAIN open : /\ i \in DOMAIN open'
                            /\ open'[i].path = open[i].path /\ open'[i].dir = open[i].dir
                            /\ open'[i].stamp = open[i].stamp
                            /\ i # Len(open) => open'[i] = open[i]
  /\ open'[Len(open')].path = Logical /\ open'[Len(open')].dir = Resolve(tree, Logical)
  /\ open'[Len(open')].stamp = stamp[Resolve(tree, Logical)] /\ open'[Len(open')].left = <<>>

Passed ==
  /\ Kept /\ UNCHANGED <<visited, verdict>> /\ pc = "entry" /\ Top.left = <<>>
  /\ pc' = IF Len(open) = 1 THEN "count" ELSE "entry"
  /\ stamp[Top.dir] = Top.stamp
  /\ open' \in Seq(Frames) /\ Len(open') = Len(open) - 1 /\ DOMAIN open' = 1 .. Len(open) - 1
  /\ \A i \in DOMAIN open' : open'[i] = open[i] /\ i \in DOMAIN open /\ i # Len(open)

WalkOver ==
  /\ Kept /\ UNCHANGED <<open, visited, verdict>>
  /\ pc \in {"count", "read"} /\ pc' \in {"read", "done"}

EntryChanged ==
  /\ UNCHANGED <<declared, allowed, open, visited, pc, verdict>>
  /\ changes' = changes + 1 /\ changes < MaxChanges
  /\ \E d \in Dirs, n \in NameSet, x \in Things :
       /\ tree' = [tree EXCEPT ![d][n] = x] /\ stamp' = [stamp EXCEPT ![d] = stamp[d] + 1]
       /\ changed' = changed \cup {<<d, n>>}

Move ==
  \/ Refused \/ RootOpened \/ Listed \/ FileSeen \/ DirectorySeen \/ Entered \/ Passed
  \/ WalkOver \/ EntryChanged

-----------------------------------------------------------------------------
\* A chain of checks is Ok when none applies, and else one that applies speaks.
LEMMA FirstOfNine ==
  ASSUME NEW checks, DOMAIN checks = 1 .. 9
  PROVE  \/ FirstOf(checks) = Ok /\ \A i \in 1 .. 9 : ~checks[i].applies
         \/ \E i \in 1 .. 9 : checks[i].applies /\ FirstOf(checks) = checks[i].refusal
<1> DEFINE hits  == {i \in DOMAIN checks : checks[i].applies}
           first == CHOOSE i \in hits : \A j \in hits : i <= j
<1>1. CASE hits = {}
  BY <1>1 DEF FirstOf
<1>2. CASE hits # {}
  <2>1. first \in hits
    <3> HIDE DEF hits
    <3>1. hits \in SUBSET Nat
      BY DEF hits
    <3>2. \E i \in hits : \A j \in hits : i <= j
      BY <1>2, <3>1, LeastExists
    <3> QED
      BY <3>2
  <2>2. FirstOf(checks) = checks[first].refusal
    BY <1>2 DEF FirstOf
  <2> HIDE DEF first
  <2> QED
    BY <2>1, <2>2
<1> QED
  BY <1>1, <1>2

LEMMA EntryRefusals ==
  /\ EntryRefusal \in Refusals \cup {Ok}
  /\ EntryRefusal = Ok =>
       /\ Entry \notin {"absent", "symlink", "foreign", "other", "linked", "big"}
       /\ Entry \in Dirs => Logical \in Directories
       /\ Entry \notin Dirs => Logical \in Files
       /\ ~\E p \in logical \ {Logical} : Folded(p) = Folded(Logical)
  /\ EntryRefusal # Ok =>
       \/ \E p \in logical \ {Logical} : Folded(p) = Folded(Logical)
       \/ Entry \in {"absent", "symlink", "foreign", "other", "linked", "big"}
       \/ Entry \in Dirs /\ Logical \notin Directories
       \/ Entry \notin Dirs /\ Logical \notin Files
<1> DEFINE met     == \E p \in logical \ {Logical} : Folded(p) = Folded(Logical)
           gone    == Entry = "absent"
           aside   == Entry = "symlink"
           abroad  == Entry = "foreign"
           below   == Entry \in Dirs /\ Logical \notin Directories
           odd     == Entry = "other"
           shared  == Entry = "linked"
           strange == Entry \notin Dirs /\ Logical \notin Files
           large   == Entry = "big"
           checks  == <<When(met, "LogicalPathCollision"),
                        When(gone, "TreeChanged"),
                        When(aside, "SymbolicLink"),
                        When(abroad, "DeviceBoundary"),
                        When(below, "UndeclaredEntry"),
                        When(odd, "NonRegularFile"),
                        When(shared, "HardLinkedFile"),
                        When(strange, "UndeclaredEntry"),
                        When(large, "FileTooLarge")>>
<1>1. EntryRefusal = FirstOf(checks)
  BY DEF EntryRefusal
<1> HIDE DEF met, gone, aside, abroad, below, odd, shared, strange, large
<1>a. DOMAIN checks = 1 .. 9
  OBVIOUS
<1>b. /\ checks[1] = When(met, "LogicalPathCollision")
      /\ checks[2] = When(gone, "TreeChanged")
      /\ checks[3] = When(aside, "SymbolicLink")
      /\ checks[4] = When(abroad, "DeviceBoundary")
      /\ checks[5] = When(below, "UndeclaredEntry")
      /\ checks[6] = When(odd, "NonRegularFile")
      /\ checks[7] = When(shared, "HardLinkedFile")
      /\ checks[8] = When(strange, "UndeclaredEntry")
      /\ checks[9] = When(large, "FileTooLarge")
  OBVIOUS
<1>c. /\ When(met, "LogicalPathCollision").applies <=> met
      /\ When(gone, "TreeChanged").applies <=> gone
      /\ When(aside, "SymbolicLink").applies <=> aside
      /\ When(abroad, "DeviceBoundary").applies <=> abroad
      /\ When(below, "UndeclaredEntry").applies <=> below
      /\ When(odd, "NonRegularFile").applies <=> odd
      /\ When(shared, "HardLinkedFile").applies <=> shared
      /\ When(strange, "UndeclaredEntry").applies <=> strange
      /\ When(large, "FileTooLarge").applies <=> large
  <2>1. When(met, "LogicalPathCollision").applies <=> met
    BY DEF When
  <2>2. When(gone, "TreeChanged").applies <=> gone
    BY DEF When
  <2>3. When(aside, "SymbolicLink").applies <=> aside
    BY DEF When
  <2>4. When(abroad, "DeviceBoundary").applies <=> abroad
    BY DEF When
  <2>5. When(below, "UndeclaredEntry").applies <=> below
    BY DEF When
  <2>6. When(odd, "NonRegularFile").applies <=> odd
    BY DEF When
  <2>7. When(shared, "HardLinkedFile").applies <=> shared
    BY DEF When
  <2>8. When(strange, "UndeclaredEntry").applies <=> strange
    BY DEF When
  <2>9. When(large, "FileTooLarge").applies <=> large
    BY DEF When
  <2> QED
    BY <2>1, <2>2, <2>3, <2>4, <2>5, <2>6, <2>7, <2>8, <2>9
<1>d. \A i \in 1 .. 9 : checks[i].refusal \in Refusals
  <2>1. /\ When(met, "LogicalPathCollision").refusal = "LogicalPathCollision"
        /\ When(gone, "TreeChanged").refusal = "TreeChanged"
        /\ When(aside, "SymbolicLink").refusal = "SymbolicLink"
        /\ When(abroad, "DeviceBoundary").refusal = "DeviceBoundary"
        /\ When(below, "UndeclaredEntry").refusal = "UndeclaredEntry"
        /\ When(odd, "NonRegularFile").refusal = "NonRegularFile"
        /\ When(shared, "HardLinkedFile").refusal = "HardLinkedFile"
        /\ When(strange, "UndeclaredEntry").refusal = "UndeclaredEntry"
        /\ When(large, "FileTooLarge").refusal = "FileTooLarge"
    BY DEF When
  <2> HIDE DEF checks
  <2>2. \A i \in 1 .. 9 : i = 1 \/ i = 2 \/ i = 3 \/ i = 4 \/ i = 5 \/ i = 6 \/ i = 7 \/ i = 8 \/ i = 9
    OBVIOUS
  <2> QED
    BY <1>b, <2>1, <2>2 DEF Refusals
<1> HIDE DEF checks
<1>2. /\ DOMAIN checks = 1 .. 9 /\ \A i \in 1 .. 9 : checks[i].refusal \in Refusals
      /\ checks[1].applies <=> met
      /\ checks[2].applies <=> gone
      /\ checks[3].applies <=> aside
      /\ checks[4].applies <=> abroad
      /\ checks[5].applies <=> below
      /\ checks[6].applies <=> odd
      /\ checks[7].applies <=> shared
      /\ checks[8].applies <=> strange
      /\ checks[9].applies <=> large
  BY <1>a, <1>b, <1>c, <1>d
<1>3. \A i \in 1 .. 9 : checks[i].refusal # Ok
  BY <1>2 DEF Refusals, Ok
<1>4. \/ FirstOf(checks) = Ok /\ \A i \in 1 .. 9 : ~checks[i].applies
      \/ \E i \in 1 .. 9 : checks[i].applies /\ FirstOf(checks) = checks[i].refusal
  BY <1>2, FirstOfNine
<1>5. CASE FirstOf(checks) = Ok /\ \A i \in 1 .. 9 : ~checks[i].applies
  <2>1. 1 \in 1 .. 9 /\ 2 \in 1 .. 9 /\ 3 \in 1 .. 9 /\ 4 \in 1 .. 9 /\ 5 \in 1 .. 9 /\ 6 \in 1 .. 9
        /\ 7 \in 1 .. 9 /\ 8 \in 1 .. 9 /\ 9 \in 1 .. 9
    OBVIOUS
  <2> QED
    BY <1>1, <1>2, <1>5, <2>1 DEF met, gone, aside, abroad, below, odd, shared, strange, large
<1>6. CASE \E i \in 1 .. 9 : checks[i].applies /\ FirstOf(checks) = checks[i].refusal
  <2>1. PICK i \in 1 .. 9 : checks[i].applies /\ FirstOf(checks) = checks[i].refusal
    BY <1>6
  <2>2. i = 1 \/ i = 2 \/ i = 3 \/ i = 4 \/ i = 5 \/ i = 6 \/ i = 7 \/ i = 8 \/ i = 9
    OBVIOUS
  <2>3. met \/ gone \/ aside \/ abroad \/ below \/ odd \/ shared \/ strange \/ large
    BY <1>2, <2>1, <2>2
  <2> QED
    BY <1>1, <1>2, <1>3, <2>1, <2>3
       DEF met, gone, aside, abroad, below, odd, shared, strange, large
<1> QED
  BY <1>4, <1>5, <1>6

-----------------------------------------------------------------------------
LEMMA StartMoves ==
  ASSUME CandidateTreeAssumption, BaseInv, Start
  PROVE  Refused \/ RootOpened
<1>1. CASE TooDeep
  BY <1>1 DEF Start, Refuse, Stop, disk, Refused, Kept, Refusals
<1>2. CASE ~TooDeep
  <2> DEFINE f == [path |-> <<>>, dir |-> Root, stamp |-> stamp[Root], left |-> <<>>]
  <2>1. Kept /\ UNCHANGED <<visited, verdict>> /\ open' = <<f>> /\ pc = "start" /\ pc' = "list"
    BY <1>2 DEF Start, Frame, disk, Kept
  <2>2. f \in Frames
    <3>1. <<>> \in Seq(NameSet) /\ stamp[Root] \in Nat /\ Root \in Dirs
      BY EmptySeq DEF CandidateTreeAssumption, BaseInv, StackInv
    <3> QED
      BY <3>1 DEF Frames
  <2>3. f.path = <<>> /\ f.dir = Root /\ f.stamp = stamp[Root] /\ f.left = <<>>
    OBVIOUS
  <2> HIDE DEF f
  <2>4. open' \in Seq(Frames) /\ Len(open') = 1 /\ DOMAIN open' = {1} /\ open'[1] = f
    BY <2>1, <2>2
  <2> QED
    BY <2>1, <2>3, <2>4 DEF RootOpened
<1> QED
  BY <1>1, <1>2

LEMMA LastMoves ==
  ASSUME StackInv, open # <<>>, NEW names \in Seq(NameSet), open' = LastLeft(open, names)
  PROVE  Reseen(names)
<1>1. open \in Seq(Frames)
  BY DEF StackInv
<1> QED
  BY <1>1, LastReplaced DEF Reseen

LEMMA ListMoves ==
  ASSUME CandidateTreeAssumption, BaseInv, List
  PROVE  Refused \/ Listed
<1> DEFINE names == Listing(Top.dir)
<1>1. CASE entries + Len(names) > MaxEntries
  <2>1. pc = "list" /\ Refuse("TraversalLimitExceeded")
    BY <1>1 DEF List
  <2> QED
    BY <2>1 DEF Refuse, Stop, disk, Refused, Kept, Refusals
<1>2. CASE ~(entries + Len(names) > MaxEntries)
  <2>1. names \in Seq(NameSet)
    BY NamesListed DEF Listing
  <2>2. /\ pc = "list" /\ pc' = "entry" /\ UNCHANGED verdict /\ Kept
        /\ open' = LastLeft(open, names)
        /\ visited' = visited \cup {[path |-> Top.path, dir |-> Top.dir, names |-> names]}
    BY <1>2 DEF List, LastLeft, Kept, disk
  <2> HIDE DEF names
  <2>3. open # <<>>
    BY <2>2 DEF BaseInv, WalkInv
  <2>4. Reseen(names)
    BY <2>1, <2>2, <2>3, LastMoves DEF BaseInv
  <2> QED
    BY <2>1, <2>2, <2>4 DEF Listed, names
<1> QED
  BY <1>1, <1>2

\* What the walk is at, in terms of the last directory.
LEMMA AtEntry ==
  ASSUME BaseInv, pc \in {"entry", "enter"}, Top.left # <<>>
  PROVE  /\ open # <<>> /\ Len(open) \in DOMAIN open /\ Top = open[Len(open)] /\ Top \in Frames
         /\ Top.left[1] \in NameSet /\ Top.left[1] \in Waiting(Top)
         /\ Tail(Top.left) \in Seq(NameSet)
         /\ Logical \in Seq(NameSet) /\ Logical = Append(Top.path, Top.left[1])
         /\ Len(Logical) = Len(open)
<1>1. open # <<>>
  BY DEF BaseInv, WalkInv
<1>2. Len(open) \in DOMAIN open /\ Len(open) \in Nat /\ Top = open[Len(open)] /\ Top \in Frames
  BY <1>1, StackFacts DEF BaseInv
<1>3. Len(Top.path) = Len(open) - 1
  BY <1>2 DEF BaseInv, StackInv
<1>4. /\ Top.left[1] \in NameSet /\ Top.left[1] \in Waiting(Top) /\ Top.path \in Seq(NameSet)
      /\ Tail(Top.left) \in Seq(NameSet)
  BY <1>2, FrameFacts
<1>5. Logical = Append(Top.path, Top.left[1])
  BY DEF Logical
<1>6. Append(Top.path, Top.left[1]) \in Seq(NameSet) /\ Len(Append(Top.path, Top.left[1])) = Len(Top.path) + 1
  BY <1>4, AppendProperties
<1>7. Len(Logical) = Len(open)
  BY <1>2, <1>3, <1>5, <1>6
<1> QED
  BY <1>1, <1>2, <1>4, <1>5, <1>6, <1>7

LEMMA EntryMoves ==
  ASSUME CandidateTreeAssumption, BaseInv, RefuseEntry \/ SeeFile \/ SeeDirectory
  PROVE  Refused \/ FileSeen \/ DirectorySeen
<1>0. pc = "entry" /\ Top.left # <<>>
  BY DEF RefuseEntry, SeeFile, SeeDirectory
<1>1. CASE RefuseEntry
  <2>1. EntryRefusal \in Refusals
    BY <1>1, EntryRefusals DEF RefuseEntry
  <2>2. Refuse(EntryRefusal)
    BY <1>1 DEF RefuseEntry
  <2> QED
    BY <1>0, <2>1, <2>2 DEF Refuse, Stop, disk, Refused, Kept
<1>2. CASE SeeFile
  <2>1. /\ EntryRefusal = Ok /\ Entry \notin Dirs /\ pc' = pc /\ UNCHANGED <<visited, verdict>> /\ Kept
        /\ open' = LastLeft(open, Tail(open[Len(open)].left))
    BY <1>2 DEF SeeFile, Rest, LastLeft, Kept, disk
  <2>2. /\ open # <<>> /\ Top = open[Len(open)] /\ Top \in Frames /\ Tail(Top.left) \in Seq(NameSet)
        /\ Top.left[1] \in NameSet
    BY <1>0, AtEntry
  <2>3. Reseen(Tail(Top.left))
    BY <2>1, <2>2, LastMoves DEF BaseInv
  <2>4. Entry \in Things
    <3>1. Top.dir \in Dirs
      BY <2>2, FrameFacts
    <3> QED
      BY <2>2, <3>1 DEF Entry, BaseInv, StackInv
  <2>5. Entry = "file" /\ Logical \in Files
    BY <2>1, <2>4, EntryRefusals DEF Things, NotDirs
  <2> QED
    BY <1>0, <2>1, <2>3, <2>5 DEF FileSeen
<1>3. CASE SeeDirectory
  BY <1>0, <1>3, EntryRefusals DEF SeeDirectory, DirectorySeen, Kept, disk
<1> QED
  BY <1>1, <1>2, <1>3

LEMMA EnterMoves ==
  ASSUME CandidateTreeAssumption, BaseInv, Enter
  PROVE  Entered
<1> DEFINE d == Resolve(tree, Logical)
           f == [path |-> Logical, dir |-> d, stamp |-> stamp[d], left |-> <<>>]
<1>1. /\ Kept /\ UNCHANGED <<visited, verdict>> /\ pc = "enter" /\ pc' = "list"
      /\ d \in Dirs /\ Len(open) <= MaxDepth
      /\ open' = Append(Rest, f) /\ Rest = LastLeft(open, Tail(open[Len(open)].left))
  BY DEF Enter, Frame, disk, Kept, Rest, LastLeft
<1>2. Top.left # <<>>
  BY <1>1 DEF BaseInv, WalkInv
<1>3. /\ open # <<>> /\ Top = open[Len(open)] /\ Tail(Top.left) \in Seq(NameSet)
      /\ Logical \in Seq(NameSet)
  BY <1>1, <1>2, AtEntry
<1>4. f \in Frames
  <2>1. stamp[d] \in Nat /\ <<>> \in Seq(NameSet)
    BY <1>1, EmptySeq DEF BaseInv, StackInv
  <2> HIDE DEF d
  <2> QED
    BY <1>1, <1>3, <2>1 DEF Frames
<1>5. f.path = Logical /\ f.dir = d /\ f.stamp = stamp[d] /\ f.left = <<>>
  OBVIOUS
<1> HIDE DEF f
<1>6. /\ Rest \in Seq(Frames) /\ Len(Rest) = Len(open) /\ DOMAIN Rest = DOMAIN open
      /\ Len(open) \in DOMAIN open /\ Rest[Len(open)].left = Tail(Top.left)
      /\ \A i \in DOMAIN open : /\ Rest[i].path = open[i].path /\ Rest[i].dir = open[i].dir
                                /\ Rest[i].stamp = open[i].stamp
                                /\ i # Len(open) => Rest[i] = open[i]
  <2>1. open \in Seq(Frames)
    BY DEF BaseInv, StackInv
  <2> QED
    BY <1>1, <1>3, <2>1, LastReplaced
<1>7. /\ open' \in Seq(Frames) /\ Len(open') = Len(open) + 1 /\ Len(open) \in Nat
      /\ open'[Len(open) + 1] = f /\ \A i \in DOMAIN open : open'[i] = Rest[i]
      /\ DOMAIN open = 1 .. Len(open)
  <2>1. /\ Append(Rest, f) \in Seq(Frames) /\ Len(Append(Rest, f)) = Len(Rest) + 1
        /\ Append(Rest, f)[Len(Rest) + 1] = f
        /\ \A i \in 1 .. Len(Rest) : Append(Rest, f)[i] = Rest[i]
    BY <1>4, <1>6, AppendProperties
  <2>2. Len(open) \in Nat /\ DOMAIN open = 1 .. Len(open)
    BY DEF BaseInv, StackInv
  <2> QED
    BY <1>1, <1>6, <2>1, <2>2
<1>8. DOMAIN open' = 1 .. Len(open) + 1
  BY <1>7
<1>9. \A i \in DOMAIN open : i \in DOMAIN open'
  BY <1>7, <1>8
<1>10. \A i \in DOMAIN open : /\ open'[i].path = open[i].path /\ open'[i].dir = open[i].dir
                              /\ open'[i].stamp = open[i].stamp
                              /\ i # Len(open) => open'[i] = open[i]
  BY <1>6, <1>7
<1> QED
  BY <1>1, <1>5, <1>6, <1>7, <1>8, <1>9, <1>10 DEF Entered

LEMMA LeaveMoves ==
  ASSUME BaseInv, Leave
  PROVE  Refused \/ Passed
<1>1. CASE stamp[Top.dir] # Top.stamp
  BY <1>1 DEF Leave, Refuse, Stop, disk, Refused, Kept, Refusals
<1>2. CASE stamp[Top.dir] = Top.stamp
  <2>1. /\ Kept /\ UNCHANGED <<visited, verdict>> /\ pc = "entry" /\ Top.left = <<>>
        /\ open' = SubSeq(open, 1, Len(open) - 1) /\ pc' = IF Len(open) = 1 THEN "count" ELSE "entry"
    BY <1>2 DEF Leave, Pop, disk, Kept
  <2>2. open # <<>> /\ open \in Seq(Frames)
    BY <2>1 DEF BaseInv, WalkInv, StackInv
  <2>3. PICK n \in Nat : Len(open) = n + 1 /\ n = Len(open) - 1
    <3>1. Len(open) \in Nat \ {0}
      BY <2>2
    <3> QED
      BY <3>1
  <2>4. \A i \in 1 .. n : open[i] \in Frames /\ i \in DOMAIN open /\ i # Len(open)
    BY <2>2, <2>3
  <2>5. /\ SubSeq(open, 1, n) \in Seq(Frames)
        /\ Len(SubSeq(open, 1, n)) = IF 1 <= n THEN n - 1 + 1 ELSE 0
        /\ \A i \in 1 .. n - 1 + 1 : SubSeq(open, 1, n)[i] = open[1 + i - 1]
    BY <2>3, <2>4, SubSeqProperties
  <2>6. (IF 1 <= n THEN n - 1 + 1 ELSE 0) = n /\ n - 1 + 1 = n /\ \A i \in 1 .. n : 1 + i - 1 = i
    OBVIOUS
  <2>7. Len(SubSeq(open, 1, n)) = n /\ \A i \in 1 .. n : SubSeq(open, 1, n)[i] = open[i]
    BY <2>5, <2>6
  <2>8. DOMAIN SubSeq(open, 1, n) = 1 .. n
    BY <2>5, <2>7, LenProperties
  <2>9. open' = SubSeq(open, 1, n)
    BY <2>1, <2>3
  <2>10. /\ open' \in Seq(Frames) /\ Len(open') = Len(open) - 1 /\ DOMAIN open' = 1 .. Len(open) - 1
         /\ \A i \in DOMAIN open' : open'[i] = open[i] /\ i \in DOMAIN open /\ i # Len(open)
    BY <2>3, <2>4, <2>5, <2>7, <2>8, <2>9
  <2> QED
    BY <1>2, <2>1, <2>10 DEF Passed
<1> QED
  BY <1>1, <1>2

LEMMA ChangeMoves ==
  ASSUME CandidateTreeAssumption, Change
  PROVE  EntryChanged
<1>1. PICK c \in Changes : /\ tree' = [tree EXCEPT ![c.dir][c.name] = c.thing]
                           /\ stamp' = [stamp EXCEPT ![c.dir] = stamp[c.dir] + 1]
                           /\ changed' = changed \cup {<<c.dir, c.name>>}
  BY DEF Change
<1>2. c.dir \in Dirs /\ c.name \in NameSet /\ c.thing \in Things
  BY DEF CandidateTreeAssumption
<1>3. \E d \in Dirs, n \in NameSet, x \in Things :
        /\ tree' = [tree EXCEPT ![d][n] = x] /\ stamp' = [stamp EXCEPT ![d] = stamp[d] + 1]
        /\ changed' = changed \cup {<<d, n>>}
  BY <1>1, <1>2
<1> QED
  BY <1>3 DEF Change, EntryChanged, walk

LEMMA NextMoves ==
  ASSUME CandidateTreeAssumption, BaseInv, Next
  PROVE  Move
<1>1. CASE Start
  BY <1>1, StartMoves DEF Move
<1>2. CASE List
  BY <1>2, ListMoves DEF Move
<1>3. CASE RefuseEntry \/ SeeFile \/ SeeDirectory
  BY <1>3, EntryMoves DEF Move
<1>4. CASE Enter
  BY <1>4, EnterMoves DEF Move
<1>5. CASE Leave
  BY <1>5, LeaveMoves DEF Move
<1>6. CASE EnterFails \/ Count \/ ReadFile \/ Finish
  <2>1. CASE EnterFails
    <3>1. PICK why \in {"TraversalLimitExceeded", "TreeChanged"} : pc = "enter" /\ Refuse(why)
      BY <2>1 DEF EnterFails
    <3> QED
      BY <3>1 DEF Refuse, Stop, disk, Refused, Kept, Refusals, Move
  <2>2. CASE Count
    BY <2>2 DEF Count, Refuse, Stop, disk, Refused, WalkOver, Kept, Refusals, Move
  <2>3. CASE ReadFile
    <3>1. CASE Refuse("FileRefused")
      BY <2>3, <3>1 DEF ReadFile, Refuse, Stop, disk, Refused, Kept, Refusals, Move
    <3>2. CASE ~Refuse("FileRefused")
      <4>1. UNCHANGED <<disk, declared, allowed, open, pc, verdict, visited>> /\ pc = "read"
        BY <2>3, <3>2 DEF ReadFile
      <4> QED
        BY <4>1 DEF disk, WalkOver, Kept, Move
    <3> QED
      BY <3>1, <3>2
  <2>4. CASE Finish
    <3>1. verdict = Ok /\ verdict' = Ok
      BY <2>4 DEF Finish, Stop, BaseInv, WalkInv
    <3> QED
      BY <2>4, <3>1 DEF Finish, Stop, disk, WalkOver, Kept, Move
  <2> QED
    BY <1>6, <2>1, <2>2, <2>3, <2>4
<1>7. CASE Change
  BY <1>7, ChangeMoves DEF Move
<1> QED
  BY <1>1, <1>2, <1>3, <1>4, <1>5, <1>6, <1>7 DEF Next, Step

LEMMA BaseStarts ==
  ASSUME CandidateTreeAssumption, Init
  PROVE  BaseInv
<1>1. open = <<>> /\ visited = {} /\ pc = "start" /\ verdict = Ok
  BY DEF Init
<1>2. StackInv
  BY <1>1 DEF CandidateTreeAssumption, Init, StackInv
<1>3. WalkInv
  BY <1>1 DEF WalkInv, Loaded
<1> QED
  BY <1>2, <1>3 DEF BaseInv

\* What is declared does not change.
LEMMA SameTargets ==
  ASSUME UNCHANGED <<declared, allowed>>
  PROVE  Files' = Files /\ Directories' = Directories
<1>1. Files' = Files
  BY DEF Files
<1> QED
  BY <1>1 DEF Directories

LEMMA BaseKept ==
  ASSUME BaseInv, Move
  PROVE  BaseInv'
<1>0. Len(open) \in Nat /\ DOMAIN open = 1 .. Len(open) /\ open \in Seq(Frames)
  BY DEF BaseInv, StackInv
<1>1. CASE Refused \/ WalkOver
  <2>1. StackInv'
    BY <1>1 DEF Refused, WalkOver, Kept, BaseInv, StackInv
  <2>2. WalkInv'
    <3>1. verdict' # Ok => pc' = "done"
      BY <1>1 DEF Refused, WalkOver, BaseInv, WalkInv
    <3>2. pc' \in {"read", "done"} /\ (pc' = "read" \/ verdict' = Ok => open' = <<>>)
      BY <1>1 DEF Refused, WalkOver, BaseInv, WalkInv, Refusals, Ok
    <3> QED
      BY <3>1, <3>2 DEF WalkInv, Loaded
  <2> QED
    BY <2>1, <2>2 DEF BaseInv
<1>2. CASE RootOpened
  <2>1. StackInv'
    <3>1. \A i \in DOMAIN open' : Len(open'[i].path) = i - 1
      BY <1>2 DEF RootOpened
    <3> QED
      BY <1>2, <3>1 DEF RootOpened, Kept, BaseInv, StackInv
  <2>2. open' # <<>> /\ pc' = "list" /\ verdict' = verdict /\ verdict = Ok
    <3>1. Len(open') # 0
      BY <1>2 DEF RootOpened
    <3>2. open' # <<>>
      BY <3>1
    <3> QED
      BY <1>2, <3>2 DEF RootOpened, BaseInv, WalkInv
  <2>3. Top'.left = <<>>
    BY <1>2 DEF RootOpened, Top
  <2>4. WalkInv'
    BY <2>2, <2>3 DEF WalkInv, Loaded
  <2> QED
    BY <2>1, <2>4 DEF BaseInv
<1>3. CASE Listed
  <2>1. open # <<>> /\ Top \in Frames
    BY <1>3, StackFacts DEF Listed, BaseInv, WalkInv
  <2> DEFINE v == [path |-> Top.path, dir |-> Top.dir, names |-> Listing(Top.dir)]
  <2>2. v \in Inspected
    <3>1. Top.path \in Seq(NameSet) /\ Top.dir \in Dirs /\ Listing(Top.dir) \in Seq(NameSet)
      BY <1>3, <2>1, FrameFacts DEF Listed
    <3> QED
      BY <3>1 DEF Inspected
  <2>3. visited' = visited \cup {v}
    BY <1>3 DEF Listed
  <2> HIDE DEF v
  <2>4. StackInv'
    BY <1>3, <2>2, <2>3 DEF Listed, Reseen, Kept, BaseInv, StackInv
  <2>5. open' # <<>> /\ pc' = "entry" /\ verdict' = verdict /\ verdict = Ok
    BY <1>0, <1>3 DEF Listed, Reseen, BaseInv, WalkInv
  <2>6. WalkInv'
    BY <2>5 DEF WalkInv, Loaded
  <2> QED
    BY <2>4, <2>6 DEF BaseInv
<1>4. CASE FileSeen
  <2>1. StackInv'
    BY <1>4 DEF FileSeen, Reseen, Kept, BaseInv, StackInv
  <2>2. open' # <<>> /\ pc' = "entry" /\ verdict' = verdict /\ verdict = Ok
    BY <1>0, <1>4 DEF FileSeen, Reseen, BaseInv, WalkInv
  <2>3. WalkInv'
    BY <2>2 DEF WalkInv, Loaded
  <2> QED
    BY <2>1, <2>3 DEF BaseInv
<1>5. CASE DirectorySeen
  <2>1. StackInv'
    BY <1>5 DEF DirectorySeen, Kept, BaseInv, StackInv
  <2>2. open' = open /\ open # <<>> /\ pc' = "enter" /\ verdict' = verdict /\ verdict = Ok
    BY <1>5 DEF DirectorySeen, BaseInv, WalkInv
  <2>3. Top' = Top /\ Logical' = Logical /\ Directories' = Directories
    BY <1>5, SameTargets DEF DirectorySeen, Kept, Top, Logical
  <2>4. Top.left # <<>> /\ Logical \in Directories
    BY <1>5 DEF DirectorySeen
  <2>5. WalkInv'
    BY <2>2, <2>3, <2>4 DEF WalkInv, Loaded
  <2> QED
    BY <2>1, <2>5 DEF BaseInv
<1>6. CASE Entered
  <2>1. Len(Logical) = Len(open)
    BY <1>6, AtEntry DEF Entered, BaseInv, WalkInv
  <2>2. \A i \in DOMAIN open' : Len(open'[i].path) = i - 1
    <3>1. \A i \in DOMAIN open : Len(open'[i].path) = i - 1
      BY <1>6 DEF Entered, BaseInv, StackInv
    <3>2. \A i \in DOMAIN open' : i \in DOMAIN open \/ i = Len(open) + 1
      BY <1>0, <1>6 DEF Entered
    <3>3. Len(open'[Len(open) + 1].path) = Len(open) /\ (Len(open) + 1) - 1 = Len(open)
      BY <1>0, <1>6, <2>1 DEF Entered
    <3> QED
      BY <3>1, <3>2, <3>3
  <2>3. StackInv'
    BY <1>6, <2>2 DEF Entered, Kept, BaseInv, StackInv
  <2>4. open' # <<>> /\ pc' = "list" /\ verdict' = verdict /\ verdict = Ok
    BY <1>0, <1>6 DEF Entered, BaseInv, WalkInv
  <2>5. Top'.left = <<>>
    BY <1>6 DEF Entered, Top
  <2>6. WalkInv'
    BY <2>4, <2>5 DEF WalkInv, Loaded
  <2> QED
    BY <2>3, <2>6 DEF BaseInv
<1>7. CASE Passed
  <2>1. StackInv'
    BY <1>7 DEF Passed, Kept, BaseInv, StackInv
  <2>2. /\ pc' \in {"count", "entry"} /\ verdict' = verdict /\ verdict = Ok
        /\ pc' = "count" => open' = <<>>
        /\ pc' = "entry" => open' # <<>>
    <3>1. open # <<>> /\ verdict = Ok
      BY <1>7 DEF Passed, BaseInv, WalkInv
    <3>2. Len(open) # 0
      BY <1>0, <3>1
    <3>3. pc' = "entry" => Len(open') # 0
      BY <1>0, <1>7, <3>2 DEF Passed
    <3>4. pc' = "count" => Len(open') = 0
      BY <1>0, <1>7 DEF Passed
    <3>5. open' \in Seq(Frames)
      BY <1>7 DEF Passed
    <3> QED
      BY <1>7, <3>1, <3>3, <3>4, <3>5 DEF Passed
  <2>3. WalkInv'
    BY <2>2 DEF WalkInv, Loaded
  <2> QED
    BY <2>1, <2>3 DEF BaseInv
<1>8. CASE EntryChanged
  <2>1. PICK d \in Dirs, n \in NameSet, x \in Things :
          tree' = [tree EXCEPT ![d][n] = x] /\ stamp' = [stamp EXCEPT ![d] = stamp[d] + 1]
    BY <1>8 DEF EntryChanged
  <2>2. tree' \in [Dirs -> [NameSet -> Things]] /\ stamp' \in [Dirs -> Nat]
    BY <2>1 DEF BaseInv, StackInv
  <2>3. StackInv'
    BY <1>8, <2>2 DEF EntryChanged, BaseInv, StackInv
  <2>4. Top' = Top /\ Logical' = Logical /\ Directories' = Directories
    BY <1>8, SameTargets DEF EntryChanged, Top, Logical
  <2>5. WalkInv'
    BY <1>8, <2>4 DEF EntryChanged, BaseInv, WalkInv, Loaded
  <2> QED
    BY <2>3, <2>5 DEF BaseInv
<1> QED
  BY <1>1, <1>2, <1>3, <1>4, <1>5, <1>6, <1>7, <1>8 DEF Move

-----------------------------------------------------------------------------
(***************************************************************************)
(* Nothing is overlooked. As long as nobody changes an entry on the way to *)
(* it, a directory is found where it is; and whatever is in an inspected   *)
(* directory is still to be seen, or is declared and, if it is a directory,*)
(* inspected as well. When the stack is empty nothing is left to be seen.  *)
(***************************************************************************)

Live(path) == Untouched(tree, changed, path)

FoundInv ==
  /\ \A i \in DOMAIN open : Live(open[i].path) => Resolve(tree, open[i].path) = open[i].dir
  /\ \A v \in visited : Live(v.path) => Resolve(tree, v.path) = v.dir

Pending(path, n) == \E i \in DOMAIN open : open[i].path = path /\ n \in Waiting(open[i])

Reached(path) == (\E v \in visited : v.path = path) \/ (pc = "list" /\ Top.path = path)

\* What becomes of a name in an inspected directory.
Accounted(path, n) ==
  \/ Resolve(tree, Append(path, n)) = "absent"
  \/ Pending(path, n)
  \/ Resolve(tree, Append(path, n)) = "file" /\ Append(path, n) \in Files
  \/ /\ Resolve(tree, Append(path, n)) \in Dirs /\ Append(path, n) \in Directories
     /\ Reached(Append(path, n))

SeenInv ==
  /\ pc # "start" => Reached(<<>>)
  /\ \A v \in visited, n \in NameSet : Live(Append(v.path, n)) => Accounted(v.path, n)

SInv == BaseInv /\ FoundInv /\ (verdict = Ok => SeenInv)

\* A way that is still untouched leads where it led.
LEMMA StillFound ==
  ASSUME BaseInv, Move
  PROVE  \A p \in Seq(NameSet) : Live(p)' => Live(p) /\ Resolve(tree', p) = Resolve(tree, p)
<1>1. /\ changed \subseteq changed'
      /\ \A d \in Dirs, n \in NameSet : <<d, n>> \notin changed' => tree'[d][n] = tree[d][n]
  <2>1. CASE Kept
    BY <2>1 DEF Kept
  <2>2. CASE EntryChanged
    <3>1. PICK d \in Dirs, n \in NameSet, x \in Things :
            tree' = [tree EXCEPT ![d][n] = x] /\ changed' = changed \cup {<<d, n>>}
      BY <2>2 DEF EntryChanged
    <3>2. tree \in [Dirs -> [NameSet -> Things]]
      BY DEF BaseInv, StackInv
    <3>3. \A e \in Dirs, m \in NameSet : e # d \/ m # n => tree'[e][m] = tree[e][m]
      BY <3>1, <3>2
    <3> QED
      BY <3>1, <3>3
  <2>3. Kept \/ EntryChanged
    BY DEF Move, Refused, RootOpened, Listed, FileSeen, DirectorySeen, Entered, Passed, WalkOver
  <2> QED
    BY <2>1, <2>2, <2>3
<1>2. \A p \in Seq(NameSet) : Untouched(tree', changed', p) =>
         Untouched(tree, changed, p) /\ Resolve(tree', p) = Resolve(tree, p)
  BY <1>1, UntouchedStays
<1> QED
  BY <1>2 DEF Live

\* A directory has its path from where it was opened, and is where it was found.
LEMMA FoundKept ==
  ASSUME BaseInv, FoundInv, Move
  PROVE  FoundInv'
<1>1. \A i \in DOMAIN open : open[i].path \in Seq(NameSet)
  <2>1. \A i \in DOMAIN open : open[i] \in Frames
    BY StackFacts DEF BaseInv
  <2> QED
    BY <2>1, FrameFacts
<1>2. \A v \in visited : v.path \in Seq(NameSet)
  BY DEF BaseInv, StackInv, Inspected
<1>3. \A i \in DOMAIN open :
        Untouched(tree', changed', open[i].path) => Resolve(tree', open[i].path) = open[i].dir
  <2> SUFFICES ASSUME NEW i \in DOMAIN open, NEW p, p = open[i].path, Untouched(tree', changed', p)
               PROVE  Resolve(tree', p) = open[i].dir
    OBVIOUS
  <2>1. Live(p) /\ Resolve(tree', p) = Resolve(tree, p)
    BY <1>1, StillFound DEF Live
  <2> QED
    BY <2>1 DEF FoundInv
<1>4. \A v \in visited :
        Untouched(tree', changed', v.path) => Resolve(tree', v.path) = v.dir
  <2> SUFFICES ASSUME NEW v \in visited, NEW p, p = v.path, Untouched(tree', changed', p)
               PROVE  Resolve(tree', p) = v.dir
    OBVIOUS
  <2>1. Live(p) /\ Resolve(tree', p) = Resolve(tree, p)
    BY <1>2, StillFound DEF Live
  <2> QED
    BY <2>1 DEF FoundInv
<1>5. \A i \in DOMAIN open' :
        Untouched(tree', changed', open'[i].path) => Resolve(tree', open'[i].path) = open'[i].dir
  <2>1. CASE RootOpened
    <3>1. DOMAIN open' = {1} /\ open'[1].path = <<>> /\ open'[1].dir = Root
      BY <2>1 DEF RootOpened
    <3>2. Resolve(tree', <<>>) = Root
      BY ResolveSteps
    <3> QED
      BY <3>1, <3>2
  <2>2. CASE Entered
    <3>1. tree' = tree /\ DOMAIN open' = 1 .. Len(open) + 1 /\ DOMAIN open = 1 .. Len(open)
          /\ Len(open) \in Nat /\ Len(open') = Len(open) + 1
      BY <2>2, StackFacts DEF Entered, Kept, BaseInv
    <3>2. \A i \in DOMAIN open' : i \in DOMAIN open \/ i = Len(open')
      BY <3>1
    <3>3. open'[Len(open')].path = Logical /\ open'[Len(open')].dir = Resolve(tree, Logical)
      BY <2>2 DEF Entered
    <3>4. \A i \in DOMAIN open : open'[i].path = open[i].path /\ open'[i].dir = open[i].dir
      BY <2>2 DEF Entered
    <3> QED
      BY <1>3, <3>1, <3>2, <3>3, <3>4
  <2>3. CASE Listed \/ FileSeen
    <3>1. DOMAIN open' = DOMAIN open
          /\ \A i \in DOMAIN open : open'[i].path = open[i].path /\ open'[i].dir = open[i].dir
      BY <2>3 DEF Listed, FileSeen, Reseen
    <3> QED
      BY <1>3, <3>1
  <2>4. CASE Passed
    <3>1. \A i \in DOMAIN open' : open'[i] = open[i] /\ i \in DOMAIN open
      BY <2>4 DEF Passed
    <3> QED
      BY <1>3, <3>1
  <2>5. CASE Refused \/ DirectorySeen \/ WalkOver \/ EntryChanged
    <3>1. open' = open
      BY <2>5 DEF Refused, DirectorySeen, WalkOver, EntryChanged
    <3> QED
      BY <1>3, <3>1
  <2> QED
    BY <2>1, <2>2, <2>3, <2>4, <2>5 DEF Move
<1>6. \A v \in visited' :
        Untouched(tree', changed', v.path) => Resolve(tree', v.path) = v.dir
  <2>1. CASE Listed
    <3> DEFINE v0 == [path |-> Top.path, dir |-> Top.dir, names |-> Listing(Top.dir)]
    <3>1. visited' = visited \cup {v0}
      BY <2>1 DEF Listed
    <3>2. v0.path = Top.path /\ v0.dir = Top.dir
      OBVIOUS
    <3>3. Len(open) \in DOMAIN open /\ Top = open[Len(open)]
      BY <2>1 DEF Listed, Reseen, Top
    <3> HIDE DEF v0
    <3> QED
      BY <1>3, <1>4, <3>1, <3>2, <3>3
  <2>2. CASE ~Listed
    <3>1. visited' = visited
      BY <2>2 DEF Move, Refused, RootOpened, FileSeen, DirectorySeen, Entered, Passed, WalkOver, EntryChanged
    <3> QED
      BY <1>4, <3>1
  <2> QED
    BY <2>1, <2>2
<1> QED
  BY <1>5, <1>6 DEF FoundInv, Live

\* The names waiting are the first one and the others.
LEMMA WaitingFirst ==
  ASSUME NEW f \in Frames, f.left # <<>>, NEW g, g.left = Tail(f.left)
  PROVE  \A n \in Waiting(f) : n = f.left[1] \/ n \in Waiting(g)
<1> SUFFICES ASSUME NEW k \in DOMAIN f.left PROVE f.left[k] = f.left[1] \/ f.left[k] \in Waiting(g)
  BY DEF Waiting
<1>1. CASE k = 1
  BY <1>1
<1>2. CASE k # 1
  <2>1. k - 1 \in DOMAIN g.left /\ g.left[k - 1] = f.left[k]
    BY <1>2, FrameFacts
  <2> QED
    BY <2>1 DEF Waiting
<1> QED
  BY <1>1, <1>2

LEMMA NoneWaiting ==
  ASSUME NEW f, f.left = <<>>
  PROVE  Waiting(f) = {}
BY DEF Waiting

\* What is still to be seen at a name may have been moved on, but not lost.
LEMMA StillAccounted ==
  ASSUME BaseInv, Move,
         NEW p \in Seq(NameSet), NEW n \in NameSet, Untouched(tree', changed', Append(p, n)),
         Live(Append(p, n)) => Accounted(p, n),
         Pending(p, n) => Pending(p, n)' \/ Accounted(p, n)',
         Reached(Append(p, n)) => Reached(Append(p, n))'
  PROVE  Accounted(p, n)'
<1> DEFINE q == Append(p, n)
<1>1. q \in Seq(NameSet)
  BY AppendProperties
<1>2. Live(q) /\ Resolve(tree', q) = Resolve(tree, q)
  BY <1>1, StillFound DEF Live
<1>3. UNCHANGED <<declared, allowed>>
  BY DEF Move, Refused, RootOpened, Listed, FileSeen, DirectorySeen, Entered, Passed, WalkOver,
         EntryChanged, Kept
<1>4. Files' = Files /\ Directories' = Directories
  BY <1>3, SameTargets
<1>5. \/ Resolve(tree, q) = "absent"
      \/ Pending(p, n)
      \/ Resolve(tree, q) = "file" /\ q \in Files
      \/ Resolve(tree, q) \in Dirs /\ q \in Directories /\ Reached(q)
  BY <1>2 DEF Accounted
<1> HIDE DEF q
<1>6. Reached(q) => Reached(q)'
  BY DEF q
<1>7. Accounted(p, n)' <=>
        \/ Resolve(tree', q) = "absent"
        \/ Pending(p, n)'
        \/ Resolve(tree', q) = "file" /\ q \in Files'
        \/ Resolve(tree', q) \in Dirs /\ q \in Directories' /\ Reached(q)'
  BY DEF Accounted, q
<1> QED
  BY <1>2, <1>4, <1>5, <1>6, <1>7

\* What is at a name in the directory being inspected, if its way is untouched.
LEMMA LookedUp ==
  ASSUME BaseInv, FoundInv, open # <<>>, NEW n \in NameSet, Live(Append(Top.path, n))
  PROVE  Resolve(tree, Append(Top.path, n)) = tree[Top.dir][n]
<1>1. Top \in Frames /\ Len(open) \in DOMAIN open /\ Top = open[Len(open)]
  BY StackFacts DEF BaseInv
<1>2. Top.path \in Seq(NameSet) /\ Top.dir \in Dirs
  BY <1>1, FrameFacts
<1> DEFINE p == Top.path
<1>3. Live(p)
  BY <1>2, UntouchedSteps DEF Live
<1>4. Resolve(tree, p) = Top.dir
  BY <1>1, <1>3 DEF FoundInv
<1>5. Resolve(tree, Append(p, n)) =
        IF Resolve(tree, p) \in Dirs THEN tree[Resolve(tree, p)][n] ELSE "absent"
  BY <1>2, ResolveSteps
<1> QED
  BY <1>2, <1>4, <1>5

\* What was reached stays so.
LEMMA ReachedKept ==
  ASSUME BaseInv, Move, ~Refused
  PROVE  \A p : Reached(p) => Reached(p)'
<1> SUFFICES ASSUME NEW p, Reached(p) PROVE Reached(p)'
  OBVIOUS
<1>1. visited \subseteq visited'
  BY DEF Move, RootOpened, Listed, FileSeen, DirectorySeen, Entered, Passed, WalkOver, EntryChanged
<1>2. CASE \E v \in visited : v.path = p
  BY <1>1, <1>2 DEF Reached
<1>3. CASE pc = "list" /\ Top.path = p
  <2>1. CASE Listed
    <3> DEFINE v == [path |-> Top.path, dir |-> Top.dir, names |-> Listing(Top.dir)]
    <3>1. v \in visited' /\ v.path = p
      BY <1>3, <2>1 DEF Listed
    <3> HIDE DEF v
    <3> QED
      BY <3>1 DEF Reached
  <2>2. CASE EntryChanged
    <3>1. pc' = "list" /\ Top' = Top
      BY <1>3, <2>2 DEF EntryChanged, Top
    <3> QED
      BY <1>3, <3>1 DEF Reached
  <2>3. Listed \/ EntryChanged
    BY <1>3 DEF Move, RootOpened, FileSeen, DirectorySeen, Entered, Passed, WalkOver
  <2> QED
    BY <2>1, <2>2, <2>3
<1> QED
  BY <1>2, <1>3 DEF Reached

\* A name that is waiting waits on, or is the one looked at in this step.
LEMMA WaitsOn ==
  ASSUME BaseInv, Move, NEW p, NEW n, Pending(p, n)
  PROVE  \/ Pending(p, n)'
         \/ (FileSeen \/ Entered) /\ p = Top.path /\ n = Top.left[1]
<1>1. PICK i \in DOMAIN open : open[i].path = p /\ n \in Waiting(open[i])
  BY DEF Pending
<1>2. Len(open) \in Nat /\ DOMAIN open = 1 .. Len(open) /\ \A j \in DOMAIN open : open[j] \in Frames
  BY StackFacts DEF BaseInv
<1>3. CASE RootOpened
  BY <1>1, <1>3 DEF RootOpened, BaseInv, WalkInv
<1>4. CASE Listed
  <2>1. open[Len(open)].left = <<>>
    BY <1>4 DEF Listed, BaseInv, WalkInv, Top
  <2>2. i # Len(open)
    BY <1>1, <2>1, NoneWaiting
  <2>3. i \in DOMAIN open' /\ open'[i] = open[i]
    BY <1>4, <2>2 DEF Listed, Reseen
  <2> QED
    BY <1>1, <2>3 DEF Pending
<1>5. CASE Passed
  <2>1. open[Len(open)].left = <<>>
    BY <1>5 DEF Passed, Top
  <2>2. i # Len(open)
    BY <1>1, <2>1, NoneWaiting
  <2>3. i \in DOMAIN open'
    BY <1>2, <1>5, <2>2 DEF Passed
  <2>4. open'[i] = open[i]
    BY <1>5, <2>3 DEF Passed
  <2> QED
    BY <1>1, <2>3, <2>4 DEF Pending
<1>6. CASE Refused \/ DirectorySeen \/ WalkOver \/ EntryChanged
  <2>1. open' = open
    BY <1>6 DEF Refused, DirectorySeen, WalkOver, EntryChanged
  <2> QED
    BY <1>1, <2>1 DEF Pending
<1>7. CASE FileSeen \/ Entered
  <2>1. /\ Top.left # <<>> /\ i \in DOMAIN open' /\ Len(open) \in DOMAIN open'
        /\ open'[i].path = open[i].path
        /\ i # Len(open) => open'[i] = open[i]
        /\ open'[Len(open)].left = Tail(Top.left)
    <3>1. CASE FileSeen
      BY <3>1 DEF FileSeen, Reseen, Kept
    <3>2. CASE Entered
      BY <3>2 DEF Entered, Kept, BaseInv, WalkInv
    <3> QED
      BY <1>7, <3>1, <3>2
  <2>2. CASE i # Len(open)
    BY <1>1, <2>1, <2>2 DEF Pending
  <2>3. CASE i = Len(open)
    <3>1. Top = open[i] /\ Top \in Frames
      BY <1>2, <2>3 DEF Top
    <3>2. n = Top.left[1] \/ n \in Waiting(open'[i])
      <4>1. \A m \in Waiting(Top) : m = Top.left[1] \/ m \in Waiting(open'[i])
        BY <2>1, <2>3, <3>1, WaitingFirst
      <4> QED
        BY <1>1, <3>1, <4>1
    <3>3. CASE n \in Waiting(open'[i])
      BY <1>1, <2>1, <3>3 DEF Pending
    <3> QED
      BY <1>1, <1>7, <3>1, <3>2, <3>3
  <2> QED
    BY <2>2, <2>3
<1> QED
  BY <1>3, <1>4, <1>5, <1>6, <1>7 DEF Move

\* A name that is waiting waits on, or is accounted for.
LEMMA PendingKept ==
  ASSUME BaseInv, FoundInv, Move, ~Refused, NEW p \in Seq(NameSet), NEW n \in NameSet,
         Untouched(tree', changed', Append(p, n)), Pending(p, n)
  PROVE  Pending(p, n)' \/ Accounted(p, n)'
<1> SUFFICES ASSUME (FileSeen \/ Entered), p = Top.path, n = Top.left[1]
             PROVE  Accounted(p, n)'
  BY WaitsOn
<1> DEFINE q == Append(p, n)
<1>1. Logical = q /\ UNCHANGED <<tree, changed>>
  BY DEF Logical, FileSeen, Entered, Kept
<1>2. CASE FileSeen
  <2>1. Live(Append(Top.path, n)) /\ open # <<>>
    BY <1>1, <1>2 DEF Live, FileSeen, BaseInv, WalkInv
  <2>2. Resolve(tree, Append(Top.path, n)) = tree[Top.dir][n]
    BY <2>1, LookedUp
  <2>3. Resolve(tree, q) = "file" /\ q \in Files
    BY <1>1, <1>2, <2>2 DEF FileSeen, Entry
  <2>4. Files' = Files
    BY <1>2, SameTargets DEF FileSeen, Kept
  <2> QED
    BY <1>1, <2>3, <2>4 DEF Accounted
<1>3. CASE Entered
  <2>1. Resolve(tree, q) \in Dirs /\ pc' = "list" /\ q \in Directories
    BY <1>1, <1>3 DEF Entered, BaseInv, WalkInv
  <2>2. Top'.path = q
    BY <1>1, <1>3 DEF Entered, Top
  <2>3. Directories' = Directories
    BY <1>3, SameTargets DEF Entered, Kept
  <2>4. Reached(q)'
    BY <2>1, <2>2 DEF Reached
  <2> QED
    BY <1>1, <2>1, <2>3, <2>4 DEF Accounted
<1> QED
  BY <1>2, <1>3

LEMMA SeenKept ==
  ASSUME CandidateTreeAssumption, SInv, Move, verdict' = Ok
  PROVE  SeenInv'
<1>1. ~Refused /\ BaseInv /\ FoundInv
  BY DEF Refused, Refusals, Ok, SInv
<1>2. SeenInv
  <2>1. verdict' = verdict
    BY <1>1 DEF Move, RootOpened, Listed, FileSeen, DirectorySeen, Entered, Passed, WalkOver, EntryChanged
  <2> QED
    BY <2>1 DEF SInv
<1>3. pc' # "start" => Reached(<<>>)'
  <2>1. CASE RootOpened
    <3>1. pc' = "list" /\ Top'.path = <<>>
      BY <2>1 DEF RootOpened, Top
    <3> QED
      BY <3>1 DEF Reached
  <2>2. CASE ~RootOpened
    <3>1. pc' # "start" => pc # "start"
      BY <1>1, <2>2 DEF Move, Listed, FileSeen, DirectorySeen, Entered, Passed, WalkOver, EntryChanged
    <3>2. \A p : Reached(p) => Reached(p)'
      BY <1>1, ReachedKept
    <3> QED
      BY <1>2, <3>1, <3>2 DEF SeenInv
  <2> QED
    BY <2>1, <2>2
<1>4. ASSUME NEW p \in Seq(NameSet), NEW n \in NameSet, \E v \in visited : v.path = p,
             Untouched(tree', changed', Append(p, n))
      PROVE  Accounted(p, n)'
  <2>1. Live(Append(p, n)) => Accounted(p, n)
    BY <1>2, <1>4 DEF SeenInv
  <2>2. Pending(p, n) => Pending(p, n)' \/ Accounted(p, n)'
    BY <1>1, <1>4, PendingKept
  <2>3. Reached(Append(p, n)) => Reached(Append(p, n))'
    <3>1. \A q : Reached(q) => Reached(q)'
      BY <1>1, ReachedKept
    <3> QED
      BY <3>1
  <2> QED
    BY <1>1, <1>4, <2>1, <2>2, <2>3, StillAccounted
<1>5. ASSUME Listed, NEW p, p = Top.path, NEW n \in NameSet, Untouched(tree', changed', Append(p, n))
      PROVE  Accounted(p, n)'
  <2>1. open # <<>> /\ UNCHANGED <<tree, changed>> /\ Len(open) \in DOMAIN open /\ Top = open[Len(open)]
    BY <1>1, <1>5 DEF Listed, Kept, Reseen, Top, BaseInv, WalkInv
  <2>2. Resolve(tree, Append(p, n)) = tree[Top.dir][n]
    <3>1. Live(Append(Top.path, n))
      BY <1>5, <2>1 DEF Live
    <3> QED
      BY <1>1, <1>5, <2>1, <3>1, LookedUp
  <2>3. CASE tree[Top.dir][n] = "absent"
    <3>1. Resolve(tree', Append(p, n)) = "absent"
      BY <2>1, <2>2, <2>3
    <3> QED
      BY <3>1 DEF Accounted
  <2>4. CASE tree[Top.dir][n] # "absent"
    <3>1. PICK k \in DOMAIN Listing(Top.dir) : Listing(Top.dir)[k] = n
      BY <2>4, NamesListed DEF Listing
    <3>2. /\ Len(open) \in DOMAIN open' /\ open'[Len(open)].left = Listing(Top.dir)
          /\ open'[Len(open)].path = p
      BY <1>5, <2>1 DEF Listed, Reseen
    <3>3. n \in Waiting(open'[Len(open)])
      BY <3>1, <3>2 DEF Waiting
    <3>4. Pending(p, n)'
      BY <3>2, <3>3 DEF Pending
    <3> QED
      BY <3>4 DEF Accounted
  <2> QED
    BY <2>3, <2>4
<1>6. ASSUME NEW v \in visited', NEW n \in NameSet, Untouched(tree', changed', Append(v.path, n))
      PROVE  Accounted(v.path, n)'
  <2>1. PICK p : p = v.path
    OBVIOUS
  <2>2. \A w \in visited : w.path \in Seq(NameSet)
    BY <1>1 DEF BaseInv, StackInv, Inspected
  <2>3. CASE v \in visited
    <3>1. Accounted(p, n)'
      BY <1>4, <1>6, <2>1, <2>2, <2>3
    <3> QED
      BY <2>1, <3>1
  <2>4. CASE v \notin visited
    <3>1. Listed
      BY <2>4 DEF Move, Refused, RootOpened, FileSeen, DirectorySeen, Entered, Passed, WalkOver, EntryChanged
    <3>2. v = [path |-> Top.path, dir |-> Top.dir, names |-> Listing(Top.dir)]
      BY <2>4, <3>1 DEF Listed
    <3>3. p = Top.path
      BY <2>1, <3>2
    <3>4. Accounted(p, n)'
      BY <1>5, <1>6, <2>1, <3>1, <3>3
    <3> QED
      BY <2>1, <3>4
  <2> QED
    BY <2>3, <2>4
<1>7. ASSUME NEW v \in visited', NEW n \in NameSet, Live(Append(v.path, n))'
      PROVE  Accounted(v.path, n)'
  BY <1>6, <1>7 DEF Live
<1> QED
  BY <1>3, <1>7 DEF SeenInv

\* When the walk is over, every directory that can be reached untouched has been
\* inspected: the root has, and with a directory those that are in it.
LEMMA AllReached ==
  ASSUME CandidateTreeAssumption, SInv, Loaded \/ pc \in {"count", "read"}
  PROVE  \A p \in Seq(NameSet) : Live(p) /\ Resolve(tree, p) \in Dirs => \E v \in visited : v.path = p
<1> DEFINE S == {p \in Seq(NameSet) :
                   Live(p) /\ Resolve(tree, p) \in Dirs => \E v \in visited : v.path = p}
<1>0. "absent" \notin Dirs /\ "file" \notin Dirs
  BY DEF CandidateTreeAssumption, NotDirs
<1>1. SeenInv /\ open = <<>> /\ pc \notin {"list", "start"}
  BY DEF SInv, Loaded, BaseInv, WalkInv
<1>2. \A p : Reached(p) => \E v \in visited : v.path = p
  BY <1>1 DEF Reached
<1>3. <<>> \in S
  <2>1. \E v \in visited : v.path = <<>>
    BY <1>1, <1>2 DEF SeenInv
  <2> QED
    BY <2>1, EmptySeq
<1>4. ASSUME NEW p \in Seq(NameSet), NEW n \in NameSet, p \in S  PROVE Append(p, n) \in S
  <2> DEFINE q == Append(p, n)
  <2>1. q \in Seq(NameSet)
    BY AppendProperties
  <2>2. ASSUME Live(q), Resolve(tree, q) \in Dirs  PROVE \E v \in visited : v.path = q
    <3>1. Live(p)
      BY <2>2, UntouchedSteps DEF Live
    <3>2. Resolve(tree, q) = IF Resolve(tree, p) \in Dirs THEN tree[Resolve(tree, p)][n] ELSE "absent"
      BY ResolveSteps
    <3>3. CASE Resolve(tree, p) \in Dirs
      <4>1. PICK v \in visited : v.path = p
        BY <1>4, <3>1, <3>3
      <4>2. Accounted(p, n)
        BY <1>1, <2>2, <4>1 DEF SeenInv
      <4> QED
        <5>1. ~Pending(p, n)
          BY <1>1 DEF Pending
        <5>2. \/ Resolve(tree, q) = "absent" \/ Resolve(tree, q) = "file" \/ Reached(q)
          BY <4>2, <5>1 DEF Accounted
        <5> HIDE DEF q
        <5> QED
          BY <1>0, <1>2, <2>2, <5>2
    <3>4. CASE Resolve(tree, p) \notin Dirs
      BY <1>0, <2>2, <3>2, <3>4
    <3> QED
      BY <3>3, <3>4
  <2> QED
    BY <2>1, <2>2
<1> HIDE DEF S
<1>5. Seq(NameSet) \subseteq S
  BY <1>3, <1>4, PathInduct
<1> QED
  BY <1>5 DEF S

\* The paths of what is declared are sequences of names.
LEMMA TargetPaths ==
  ASSUME CandidateTreeAssumption, BaseInv
  PROVE  Files \subseteq Seq(NameSet) /\ Directories \subseteq Seq(NameSet)
<1>1. Files \subseteq Seq(NameSet)
  BY DEF CandidateTreeAssumption, BaseInv, StackInv, Files
<1>2. ASSUME NEW p \in Seq(NameSet), NEW n \in 1 .. Len(p) - 1  PROVE SubSeq(p, 1, n) \in Seq(NameSet)
  <2>1. \A i \in 1 .. n : p[i] \in NameSet
    OBVIOUS
  <2> QED
    BY <2>1, SubSeqProperties
<1> QED
  BY <1>1, <1>2 DEF Directories

LEMMA StrangersSeen ==
  ASSUME CandidateTreeAssumption, SInv
  PROVE  StrangersAreSeen
<1> SUFFICES ASSUME Loaded, NEW p \in Directories \cup {<<>>}, NEW n \in NameSet,
                    Resolve(tree, p) \in Dirs, Untouched(tree, changed, Append(p, n))
             PROVE  \/ Resolve(tree, Append(p, n)) = "absent"
                    \/ Resolve(tree, Append(p, n)) = "file" /\ Append(p, n) \in Files
                    \/ Resolve(tree, Append(p, n)) \in Dirs /\ Append(p, n) \in Directories
  BY DEF StrangersAreSeen, Untouched
<1>1. SeenInv /\ open = <<>>
  BY DEF SInv, Loaded, BaseInv, WalkInv
<1>2. p \in Seq(NameSet)
  BY TargetPaths, EmptySeq DEF SInv
<1>3. Live(p) /\ Live(Append(p, n))
  BY <1>2, UntouchedSteps DEF Live
<1>4. PICK v \in visited : v.path = p
  BY <1>2, <1>3, AllReached
<1>5. Accounted(p, n)
  BY <1>1, <1>3, <1>4 DEF SeenInv
<1> QED
  BY <1>1, <1>5 DEF Accounted, Pending

-----------------------------------------------------------------------------
(***************************************************************************)
(* The walk is steady. A stamp only grows; as long as a directory has the  *)
(* stamp it was opened with, it has the entries it was listed with, and as *)
(* long as those above it have theirs, it is where it was found. A name is *)
(* looked at once, so no two directories are inspected under one path.     *)
(***************************************************************************)

StampInv ==
  /\ changes \in 0 .. MaxChanges /\ \A d \in Dirs : stamp[d] <= changes
  /\ \A i \in DOMAIN open : open[i].stamp <= stamp[open[i].dir]

\* What is noted of an inspected directory is what it holds, by its stamp.
Noted(f) ==
  stamp[f.dir] = f.stamp =>
    \E v \in visited : v.path = f.path /\ v.dir = f.dir /\ v.names = Listing(f.dir)

ListedInv ==
  \A i \in DOMAIN open : i # Len(open) \/ pc \in {"entry", "enter"} => Noted(open[i])

\* The directories down to the i-th have not been changed since they were opened.
Stands(i) == \A j \in 1 .. i : stamp[open[j].dir] = open[j].stamp

\* Each directory was found in the one before it, under a name already looked at.
ChainInv ==
  /\ open # <<>> => open[1].dir = Root
  /\ \A i \in DOMAIN open \ {Len(open)} : \E m \in NameSet :
       /\ open[i + 1].path = Append(open[i].path, m) /\ m \notin Waiting(open[i])
       /\ Stands(i) => tree[open[i].dir][m] = open[i + 1].dir

\* What is still waiting, or just opened, has not been inspected; what has been
\* inspected was found in a directory that has been.
FreshInv ==
  /\ \A i \in DOMAIN open : \A m \in Waiting(open[i]), v \in visited :
       v.path # Append(open[i].path, m)
  /\ pc = "list" => \A v \in visited : v.path # Top.path
  /\ \A i \in DOMAIN open : \A k, l \in DOMAIN open[i].left :
       open[i].left[k] = open[i].left[l] => k = l
  /\ \A v \in visited : v.path = <<>> \/ \E w \in visited, n \in NameSet : v.path = Append(w.path, n)
  /\ \A i \in DOMAIN open : i # Len(open) \/ pc \in {"entry", "enter"} =>
       \E v \in visited : v.path = open[i].path

\* What was inspected in a directory that stands is in it still.
StayInv ==
  \A i \in DOMAIN open, v \in visited, m \in NameSet :
    v.path = Append(open[i].path, m) /\ Stands(i) => tree[open[i].dir][m] = v.dir

LInv == BaseInv /\ StampInv /\ ListedInv /\ ChainInv /\ FreshInv /\ StayInv

\* A directory that stays on the stack keeps what it was opened with, and has no
\* other names left than it had, unless it has just been listed.
LEMMA FramesKept ==
  ASSUME BaseInv, Move
  PROVE  \A i \in DOMAIN open : i \in DOMAIN open' =>
           /\ open'[i].path = open[i].path /\ open'[i].dir = open[i].dir
           /\ open'[i].stamp = open[i].stamp
           /\ ~(Listed /\ i = Len(open)) => Waiting(open'[i]) \subseteq Waiting(open[i])
<1> SUFFICES ASSUME NEW i \in DOMAIN open, i \in DOMAIN open'
             PROVE  /\ open'[i].path = open[i].path /\ open'[i].dir = open[i].dir
                    /\ open'[i].stamp = open[i].stamp
                    /\ ~(Listed /\ i = Len(open)) => Waiting(open'[i]) \subseteq Waiting(open[i])
  OBVIOUS
<1>1. CASE RootOpened
  BY <1>1 DEF RootOpened, BaseInv, WalkInv
<1>2. CASE Listed
  <2>1. /\ open'[i].path = open[i].path /\ open'[i].dir = open[i].dir /\ open'[i].stamp = open[i].stamp
        /\ i # Len(open) => open'[i] = open[i]
    BY <1>2 DEF Listed, Reseen
  <2> QED
    BY <1>2, <2>1
<1>3. CASE FileSeen \/ Entered
  <2>1. /\ open'[i].path = open[i].path /\ open'[i].dir = open[i].dir /\ open'[i].stamp = open[i].stamp
        /\ i # Len(open) => open'[i] = open[i]
        /\ open'[Len(open)].left = Tail(Top.left)
        /\ pc \in {"entry", "enter"} /\ Top.left # <<>>
    <3>1. CASE FileSeen
      BY <3>1 DEF FileSeen, Reseen
    <3>2. CASE Entered
      BY <3>2 DEF Entered, BaseInv, WalkInv
    <3> QED
      BY <1>3, <3>1, <3>2
  <2>2. CASE i # Len(open)
    BY <2>1, <2>2
  <2>3. CASE i = Len(open)
    <3>1. Top = open[i] /\ Top \in Frames
      BY <2>1, <2>3, AtEntry
    <3>2. open'[i].left = Tail(open[i].left) /\ open[i].left # <<>>
      BY <2>1, <2>3, <3>1
    <3>3. ASSUME NEW k \in DOMAIN open'[i].left PROVE open'[i].left[k] \in Waiting(open[i])
      <4>1. k + 1 \in DOMAIN open[i].left /\ open'[i].left[k] = open[i].left[k + 1]
        BY <3>1, <3>2, <3>3, FrameFacts
      <4> QED
        BY <4>1 DEF Waiting
    <3>4. Waiting(open'[i]) \subseteq Waiting(open[i])
      BY <3>3 DEF Waiting
    <3> QED
      BY <2>1, <3>4
  <2> QED
    BY <2>2, <2>3
<1>4. CASE Passed
  BY <1>4 DEF Passed
<1>5. CASE Refused \/ DirectorySeen \/ WalkOver \/ EntryChanged
  <2>1. open' = open
    BY <1>5 DEF Refused, DirectorySeen, WalkOver, EntryChanged
  <2> QED
    BY <2>1
<1> QED
  BY <1>1, <1>2, <1>3, <1>4, <1>5 DEF Move

\* The stack grows by one directory, or not at all.
LEMMA StackGrows ==
  ASSUME BaseInv, Move
  PROVE  /\ Len(open) \in Nat /\ DOMAIN open = 1 .. Len(open)
         /\ Len(open') \in Nat /\ DOMAIN open' = 1 .. Len(open')
         /\ \/ RootOpened /\ Len(open) = 0 /\ Len(open') = 1 /\ visited = {}
            \/ Entered /\ Len(open') = Len(open) + 1 /\ Len(open) # 0
            \/ Passed /\ Len(open') = Len(open) - 1
            \/ ~RootOpened /\ ~Entered /\ ~Passed /\ Len(open') = Len(open)
<1>1. Len(open) \in Nat /\ DOMAIN open = 1 .. Len(open)
  BY DEF BaseInv, StackInv
<1>2. Len(open') \in Nat /\ DOMAIN open' = 1 .. Len(open')
  <2>1. BaseInv'
    BY BaseKept
  <2> QED
    BY <2>1 DEF BaseInv, StackInv
<1>3. CASE RootOpened
  <2>1. open = <<>> /\ visited = {} /\ Len(open') = 1
    BY <1>3 DEF RootOpened, BaseInv, WalkInv
  <2> QED
    BY <1>1, <1>2, <1>3, <2>1
<1>4. CASE Entered
  <2>1. Len(open) \in DOMAIN open /\ Len(open') = Len(open) + 1
    BY <1>4 DEF Entered
  <2>2. Len(open) # 0
    BY <1>1, <2>1
  <2> QED
    BY <1>1, <1>2, <1>4, <2>1, <2>2
<1>5. CASE Passed
  BY <1>1, <1>2, <1>5 DEF Passed
<1>6. CASE Listed \/ FileSeen \/ Refused \/ DirectorySeen \/ WalkOver \/ EntryChanged
  <2>1. Len(open') = Len(open) /\ DOMAIN open' = DOMAIN open
    BY <1>6 DEF Listed, FileSeen, Reseen, Refused, DirectorySeen, WalkOver, EntryChanged
  <2>2. CASE RootOpened \/ Entered \/ Passed
    BY <1>3, <1>4, <1>5, <2>2
  <2> QED
    BY <1>1, <1>2, <2>1, <2>2
<1> QED
  BY <1>3, <1>4, <1>5, <1>6 DEF Move

\* A step of the walk leaves the disk alone; a change gives one directory a stamp
\* that it never had, and leaves the others alone.
LEMMA DiskKept ==
  ASSUME CandidateTreeAssumption, BaseInv, StampInv, Move
  PROVE  /\ \A d \in Dirs : stamp[d] <= stamp'[d] /\ stamp[d] \in Nat /\ stamp'[d] \in Nat
         /\ \A d \in Dirs : stamp'[d] = stamp[d] => tree'[d] = tree[d]
         /\ changes' \in 0 .. MaxChanges /\ \A d \in Dirs : stamp'[d] <= changes'
<1>1. stamp \in [Dirs -> Nat] /\ tree \in [Dirs -> [NameSet -> Things]]
  BY DEF BaseInv, StackInv
<1>2. CASE Kept
  BY <1>1, <1>2 DEF Kept, StampInv
<1>3. CASE EntryChanged
  <2>1. PICK e \in Dirs, n \in NameSet, x \in Things :
          tree' = [tree EXCEPT ![e][n] = x] /\ stamp' = [stamp EXCEPT ![e] = stamp[e] + 1]
    BY <1>3 DEF EntryChanged
  <2>2. /\ \A d \in Dirs : d # e => stamp'[d] = stamp[d] /\ tree'[d] = tree[d]
        /\ stamp'[e] = stamp[e] + 1
    BY <1>1, <2>1
  <2>3. changes' = changes + 1 /\ changes < MaxChanges /\ changes \in 0 .. MaxChanges
    BY <1>3 DEF EntryChanged, StampInv
  <2>4. \A d \in Dirs : stamp[d] \in Nat /\ stamp[d] <= changes
    BY <1>1 DEF StampInv
  <2>5. changes' \in 0 .. MaxChanges /\ changes' = changes + 1 /\ changes \in Nat
    <3>1. MaxChanges \in Nat
      BY DEF CandidateTreeAssumption
    <3> QED
      BY <2>3, <3>1
  <2>6. \A d \in Dirs : \/ stamp'[d] = stamp[d] /\ tree'[d] = tree[d]
                        \/ stamp'[d] = stamp[d] + 1
    BY <2>2
  <2> QED
    BY <2>4, <2>5, <2>6
<1>4. Kept \/ EntryChanged
  BY DEF Move, Refused, RootOpened, Listed, FileSeen, DirectorySeen, Entered, Passed, WalkOver
<1> QED
  BY <1>2, <1>3, <1>4

\* A frame is new, and has the stamp of its directory, or was there before.
LEMMA FrameComes ==
  ASSUME BaseInv, Move
  PROVE  \A i \in DOMAIN open' : i \in DOMAIN open \/
           /\ open'[i].left = <<>> /\ i = Len(open') /\ i = Len(open) + 1
           /\ open'[i].stamp = stamp'[open'[i].dir] /\ pc' = "list"
<1> SUFFICES ASSUME NEW i \in DOMAIN open', i \notin DOMAIN open
             PROVE  /\ open'[i].left = <<>> /\ i = Len(open') /\ i = Len(open) + 1
                    /\ open'[i].stamp = stamp'[open'[i].dir] /\ pc' = "list"
  OBVIOUS
<1>0. /\ i \in 1 .. Len(open') /\ i \notin 1 .. Len(open)
      /\ Len(open) \in Nat /\ Len(open') \in Nat
  BY StackGrows
<1>1. RootOpened \/ Entered
  <2>1. Len(open') > Len(open)
    BY <1>0
  <2>2. RootOpened \/ Entered \/ Len(open') = Len(open) - 1 \/ Len(open') = Len(open)
    BY StackGrows
  <2>3. Len(open') # Len(open) - 1 /\ Len(open') # Len(open)
    BY <1>0, <2>1
  <2> QED
    BY <2>2, <2>3
<1>2. CASE RootOpened
  <2>1. i = 1 /\ Len(open) = 0 /\ i = Len(open')
    <3>1. open = <<>> /\ Len(open') = 1
      BY <1>2 DEF RootOpened, BaseInv, WalkInv
    <3> QED
      BY <1>0, <3>1
  <2> QED
    BY <1>2, <2>1 DEF RootOpened, Kept
<1>3. CASE Entered
  <2>1. i = Len(open') /\ i = Len(open) + 1
    <3>1. Len(open') = Len(open) + 1
      BY <1>3 DEF Entered
    <3> QED
      BY <1>0, <3>1
  <2> QED
    BY <1>3, <2>1 DEF Entered, Kept
<1> QED
  BY <1>1, <1>2, <1>3

LEMMA StampKept ==
  ASSUME CandidateTreeAssumption, BaseInv, StampInv, Move
  PROVE  StampInv'
<1>1. ASSUME NEW i \in DOMAIN open' PROVE open'[i].stamp <= stamp'[open'[i].dir]
  <2>1. BaseInv'
    BY BaseKept
  <2>2. open'[i].dir \in Dirs /\ open'[i].stamp \in Nat /\ stamp'[open'[i].dir] \in Nat
    <3>1. open'[i] \in Frames /\ stamp' \in [Dirs -> Nat]
      BY <2>1 DEF BaseInv, StackInv
    <3>2. open'[i].dir \in Dirs /\ open'[i].stamp \in Nat
      BY <3>1, FrameFacts
    <3> QED
      BY <3>1, <3>2
  <2>3. CASE i \in DOMAIN open
    <3>1. open'[i].dir = open[i].dir /\ open'[i].stamp = open[i].stamp
      BY <2>3, FramesKept
    <3>2. open[i].stamp <= stamp[open[i].dir] /\ stamp[open[i].dir] <= stamp'[open[i].dir] /\ stamp[open[i].dir] \in Nat
      BY <2>2, <2>3, <3>1, DiskKept DEF StampInv
    <3> QED
      BY <2>2, <3>1, <3>2
  <2>4. CASE i \notin DOMAIN open
    BY <2>2, <2>4, FrameComes
  <2> QED
    BY <2>3, <2>4
<1> QED
  BY <1>1, DiskKept DEF StampInv

\* A directory that has the stamp it was opened with had it before, and has not
\* been changed.
LEMMA FrameStood ==
  ASSUME CandidateTreeAssumption, BaseInv, StampInv, Move
  PROVE  \A i \in DOMAIN open : stamp'[open[i].dir] = open[i].stamp =>
           stamp[open[i].dir] = open[i].stamp /\ tree'[open[i].dir] = tree[open[i].dir]
<1> SUFFICES ASSUME NEW i \in DOMAIN open, stamp'[open[i].dir] = open[i].stamp
             PROVE  stamp[open[i].dir] = open[i].stamp /\ tree'[open[i].dir] = tree[open[i].dir]
  OBVIOUS
<1>1. open[i].dir \in Dirs /\ open[i].stamp \in Nat
  BY StackFacts, FrameFacts DEF BaseInv
<1>2. /\ stamp[open[i].dir] <= stamp'[open[i].dir] /\ stamp[open[i].dir] \in Nat
      /\ open[i].stamp <= stamp[open[i].dir]
  BY <1>1, DiskKept DEF StampInv
<1>3. stamp[open[i].dir] = open[i].stamp
  BY <1>1, <1>2
<1> QED
  BY <1>1, <1>3, DiskKept

LEMMA StoodBefore ==
  ASSUME CandidateTreeAssumption, BaseInv, StampInv, Move
  PROVE  \A i \in DOMAIN open : i \in DOMAIN open' /\ Stands(i)' =>
           Stands(i) /\ tree'[open[i].dir] = tree[open[i].dir]
<1> SUFFICES ASSUME NEW i \in DOMAIN open, i \in DOMAIN open', Stands(i)'
             PROVE  Stands(i) /\ tree'[open[i].dir] = tree[open[i].dir]
  OBVIOUS
<1>1. \A j \in 1 .. i : j \in DOMAIN open /\ j \in DOMAIN open'
  <2>1. i \in 1 .. Len(open) /\ i \in 1 .. Len(open') /\ Len(open) \in Nat /\ Len(open') \in Nat
    BY StackGrows
  <2>2. \A j \in 1 .. i : j \in 1 .. Len(open) /\ j \in 1 .. Len(open')
    BY <2>1
  <2> QED
    BY <2>2, StackGrows
<1>2. \A j \in 1 .. i : stamp'[open'[j].dir] = open'[j].stamp
  BY DEF Stands
<1>3. \A j \in 1 .. i : stamp'[open[j].dir] = open[j].stamp
  BY <1>1, <1>2, FramesKept
<1>4. i \in 1 .. i
  <2>1. i \in 1 .. Len(open) /\ Len(open) \in Nat
    BY StackGrows
  <2> QED
    BY <2>1
<1> QED
  BY <1>1, <1>3, <1>4, FrameStood DEF Stands

\* A directory that is listed had been before, or is the last one in this step.
LEMMA ListedBefore ==
  ASSUME BaseInv, Move
  PROVE  \A i \in DOMAIN open' : i # Len(open') \/ pc' \in {"entry", "enter"} =>
           /\ i \in DOMAIN open
           /\ ~(Listed /\ i = Len(open)) => i # Len(open) \/ pc \in {"entry", "enter"}
<1> SUFFICES ASSUME NEW i \in DOMAIN open', i # Len(open') \/ pc' \in {"entry", "enter"}
             PROVE  /\ i \in DOMAIN open
                    /\ ~(Listed /\ i = Len(open)) => i # Len(open) \/ pc \in {"entry", "enter"}
  OBVIOUS
<1>1. i \in DOMAIN open
  BY FrameComes
<1>2. CASE Listed
  BY <1>1, <1>2
<1>3. CASE Entered \/ FileSeen \/ DirectorySeen \/ Passed
  BY <1>1, <1>3 DEF Entered, FileSeen, DirectorySeen, Passed
<1>4. CASE RootOpened
  BY <1>1, <1>4 DEF RootOpened, BaseInv, WalkInv
<1>5. CASE Refused \/ WalkOver \/ EntryChanged
  BY <1>1, <1>5 DEF Refused, WalkOver, EntryChanged
<1> QED
  BY <1>2, <1>3, <1>4, <1>5 DEF Move

\* What was noted stays noted while nobody changes it.
LEMMA ListedKept ==
  ASSUME CandidateTreeAssumption, BaseInv, StampInv, ListedInv, Move
  PROVE  ListedInv'
<1> SUFFICES ASSUME NEW i \in DOMAIN open', i # Len(open') \/ pc' \in {"entry", "enter"},
                    stamp'[open'[i].dir] = open'[i].stamp
             PROVE  \E v \in visited' : /\ v.path = open'[i].path /\ v.dir = open'[i].dir
                                        /\ v.names = NamesIn(tree'[open'[i].dir])
  BY DEF ListedInv, Noted, Listing
<1>1. i \in DOMAIN open
  BY FrameComes
<1>2. open'[i].path = open[i].path /\ open'[i].dir = open[i].dir /\ open'[i].stamp = open[i].stamp
  BY <1>1, FramesKept
<1>3. stamp[open[i].dir] = open[i].stamp /\ tree'[open[i].dir] = tree[open[i].dir]
  BY <1>1, <1>2, FrameStood
<1>4. CASE Listed /\ i = Len(open)
  <2> DEFINE v == [path |-> Top.path, dir |-> Top.dir, names |-> Listing(Top.dir)]
  <2>1. v \in visited' /\ Top = open[i]
    BY <1>4 DEF Listed, Top
  <2>2. v.path = open[i].path /\ v.dir = open[i].dir /\ v.names = NamesIn(tree[open[i].dir])
    BY <2>1 DEF Listing
  <2> QED
    BY <1>2, <1>3, <2>1, <2>2
<1>5. CASE ~(Listed /\ i = Len(open))
  <2>1. visited \subseteq visited'
    BY DEF Move, Refused, RootOpened, Listed, FileSeen, DirectorySeen, Entered, Passed, WalkOver, EntryChanged
  <2>2. Noted(open[i])
    <3>1. i # Len(open) \/ pc \in {"entry", "enter"}
      BY <1>5, ListedBefore
    <3> QED
      BY <1>1, <3>1 DEF ListedInv
  <2> QED
    BY <1>2, <1>3, <2>1, <2>2 DEF Noted, Listing
<1> QED
  BY <1>4, <1>5

\* Along directories that stand a path leads to where it led.
LEMMA WayFound ==
  ASSUME BaseInv, ChainInv
  PROVE  \A i \in DOMAIN open : Stands(i) => Resolve(tree, open[i].path) = open[i].dir
<1> DEFINE S == {i \in Nat : i + 1 \in DOMAIN open /\ Stands(i + 1) =>
                               Resolve(tree, open[i + 1].path) = open[i + 1].dir}
<1>1. Len(open) \in Nat /\ DOMAIN open = 1 .. Len(open) /\ \A j \in DOMAIN open : open[j] \in Frames
  BY StackFacts DEF BaseInv
<1>2. 0 \in S
  <2> SUFFICES ASSUME 1 \in DOMAIN open PROVE Resolve(tree, open[1].path) = open[1].dir
    OBVIOUS
  <2>1. open # <<>> /\ open[1].dir = Root
    <3>1. open # <<>>
      BY <1>1
    <3> QED
      BY <3>1 DEF ChainInv
  <2>2. open[1].path \in Seq(NameSet) /\ Len(open[1].path) = 0
    <3>1. open[1] \in Frames /\ Len(open[1].path) = 1 - 1
      BY <1>1 DEF BaseInv, StackInv
    <3> QED
      BY <3>1, FrameFacts
  <2>3. open[1].path = <<>>
    BY <2>2, EmptySeq
  <2> QED
    BY <2>1, <2>3, ResolveSteps
<1>3. ASSUME NEW i \in Nat, i \in S  PROVE i + 1 \in S
  <2> SUFFICES ASSUME (i + 1) + 1 \in DOMAIN open, Stands((i + 1) + 1)
               PROVE  Resolve(tree, open[(i + 1) + 1].path) = open[(i + 1) + 1].dir
    OBVIOUS
  <2>1. i + 1 \in DOMAIN open \ {Len(open)}
    <3>1. (i + 1) + 1 \in 1 .. Len(open) /\ Len(open) \in Nat
      BY <1>1
    <3>2. i + 1 \in 1 .. Len(open) /\ i + 1 # Len(open)
      BY <3>1
    <3> QED
      BY <1>1, <3>2
  <2>2. Stands(i + 1)
    BY DEF Stands
  <2>3. Resolve(tree, open[i + 1].path) = open[i + 1].dir
    BY <1>3, <2>1, <2>2
  <2>4. PICK m \in NameSet : /\ open[(i + 1) + 1].path = Append(open[i + 1].path, m)
                             /\ tree[open[i + 1].dir][m] = open[(i + 1) + 1].dir
    BY <2>1, <2>2 DEF ChainInv
  <2>5. open[i + 1].path \in Seq(NameSet) /\ open[i + 1].dir \in Dirs
    BY <1>1, <2>1, FrameFacts
  <2>6. Resolve(tree, Append(open[i + 1].path, m)) =
          IF Resolve(tree, open[i + 1].path) \in Dirs
          THEN tree[Resolve(tree, open[i + 1].path)][m] ELSE "absent"
    BY <2>5, ResolveSteps
  <2> QED
    BY <2>3, <2>4, <2>5, <2>6
<1> HIDE DEF S
<1>4. Nat \subseteq S
  BY <1>2, <1>3, NatInduct
<1>5. ASSUME NEW i \in DOMAIN open, Stands(i)  PROVE Resolve(tree, open[i].path) = open[i].dir
  <2>1. i - 1 \in Nat /\ (i - 1) + 1 = i
    BY <1>1
  <2>2. i - 1 \in S
    BY <1>4, <2>1
  <2> QED
    BY <1>5, <2>1, <2>2 DEF S
<1> QED
  BY <1>5

\* The paths of the stack, and of what was inspected.
LEMMA PathFacts ==
  ASSUME BaseInv
  PROVE  /\ \A i \in DOMAIN open : open[i].path \in Seq(NameSet) /\ open[i].dir \in Dirs
                                   /\ Len(open[i].path) = i - 1 /\ Waiting(open[i]) \subseteq NameSet
         /\ \A v \in visited : v.path \in Seq(NameSet)
         /\ \A p, q \in Seq(NameSet), m, n \in NameSet :
              /\ Append(p, m) = Append(q, n) <=> p = q /\ m = n
              /\ Append(p, m) \in Seq(NameSet) /\ Append(p, m) # <<>> /\ Len(Append(p, m)) = Len(p) + 1
<1>1. \A i \in DOMAIN open : open[i] \in Frames /\ Len(open[i].path) = i - 1
  BY DEF BaseInv, StackInv
<1>2. \A v \in visited : v.path \in Seq(NameSet)
  BY DEF BaseInv, StackInv, Inspected
<1>3. \A p, q \in Seq(NameSet), m, n \in NameSet :
        /\ Append(p, m) = Append(q, n) <=> p = q /\ m = n
        /\ Append(p, m) \in Seq(NameSet) /\ Append(p, m) # <<>> /\ Len(Append(p, m)) = Len(p) + 1
  BY AppendInjective, AppendProperties
<1> QED
  BY <1>1, <1>2, <1>3, FrameFacts

\* The directory that the last one is in, and its name there.
LEMMA UnderLast ==
  ASSUME BaseInv, ChainInv, open # <<>>
  PROVE  \A i \in DOMAIN open, m \in NameSet : Append(open[i].path, m) = Top.path =>
           /\ i # Len(open) /\ m \notin Waiting(open[i])
           /\ Stands(i) => tree[open[i].dir][m] = Top.dir
<1> SUFFICES ASSUME NEW i \in DOMAIN open, NEW m \in NameSet, Append(open[i].path, m) = Top.path
             PROVE  /\ i # Len(open) /\ m \notin Waiting(open[i])
                    /\ Stands(i) => tree[open[i].dir][m] = Top.dir
  OBVIOUS
<1>1. /\ Len(open) \in Nat /\ DOMAIN open = 1 .. Len(open) /\ Len(open) \in DOMAIN open
      /\ Top = open[Len(open)]
  BY StackFacts DEF BaseInv
<1>2. Len(Append(open[i].path, m)) = Len(open[i].path) + 1 /\ Len(open[i].path) = i - 1
      /\ Len(Top.path) = Len(open) - 1
  <2>1. open[i].path \in Seq(NameSet) /\ Len(open[i].path) = i - 1
    BY PathFacts
  <2>2. Len(open[Len(open)].path) = Len(open) - 1
    BY <1>1, PathFacts
  <2>3. Len(Append(open[i].path, m)) = Len(open[i].path) + 1
    BY <2>1, PathFacts
  <2> QED
    BY <1>1, <2>1, <2>2, <2>3
<1>3. i + 1 = Len(open) /\ i # Len(open)
  <2>1. i \in 1 .. Len(open)
    BY <1>1
  <2>2. (i - 1) + 1 = Len(open) - 1
    BY <1>2
  <2> QED
    BY <1>1, <2>1, <2>2
<1>4. PICK n \in NameSet : /\ open[i + 1].path = Append(open[i].path, n) /\ n \notin Waiting(open[i])
                           /\ Stands(i) => tree[open[i].dir][n] = open[i + 1].dir
  BY <1>3 DEF ChainInv
<1>5. m = n
  <2>1. Append(open[i].path, m) = Append(open[i].path, n) /\ open[i].path \in Seq(NameSet)
    BY <1>1, <1>3, <1>4, PathFacts
  <2> QED
    BY <2>1, PathFacts
<1> QED
  BY <1>1, <1>3, <1>4, <1>5

LEMMA ChainKept ==
  ASSUME CandidateTreeAssumption, BaseInv, StampInv, ChainInv, FreshInv, Move
  PROVE  ChainInv'
<1>1. ASSUME open' # <<>> PROVE open'[1].dir = Root
  <2>1. CASE RootOpened
    BY <2>1 DEF RootOpened
  <2>2. CASE ~RootOpened
    <3>1. Len(open') # 0 /\ Len(open) \in Nat /\ Len(open') \in Nat
      <4>1. open' \in Seq(Frames)
        BY BaseKept DEF BaseInv, StackInv
      <4>2. Len(open') # 0
        BY <1>1, <4>1, EmptySeq
      <4> QED
        BY <4>2, StackGrows
    <3>2. Len(open) # 0
      <4>1. \/ Len(open') = Len(open) + 1 /\ Len(open) # 0
            \/ Len(open') = Len(open) - 1
            \/ Len(open') = Len(open)
        BY <2>2, StackGrows
      <4> QED
        BY <3>1, <4>1
    <3>3. 1 \in DOMAIN open /\ 1 \in DOMAIN open'
      <4>1. 1 \in 1 .. Len(open) /\ 1 \in 1 .. Len(open')
        BY <3>1, <3>2
      <4> QED
        BY <4>1, StackGrows
    <3>4. open[1].dir = Root
      <4>1. open # <<>>
        BY <3>2
      <4> QED
        BY <4>1 DEF ChainInv
    <3> QED
      BY <3>3, <3>4, FramesKept
  <2> QED
    BY <2>1, <2>2
<1>2. ASSUME NEW i \in DOMAIN open', i # Len(open')
      PROVE  \E m \in NameSet :
               /\ open'[i + 1].path = Append(open'[i].path, m) /\ m \notin Waiting(open'[i])
               /\ Stands(i)' => tree'[open'[i].dir][m] = open'[i + 1].dir
  <2>1. /\ Len(open) \in Nat /\ DOMAIN open = 1 .. Len(open)
        /\ Len(open') \in Nat /\ DOMAIN open' = 1 .. Len(open')
    BY StackGrows
  <2>2. i \in DOMAIN open
    BY <1>2, FrameComes
  <2>3. i + 1 \in DOMAIN open'
    <3>1. i \in 1 .. Len(open')
      BY <2>1
    <3>2. i + 1 \in 1 .. Len(open')
      BY <1>2, <2>1, <3>1
    <3> QED
      BY <2>1, <3>2
  <2>4. /\ open'[i].path = open[i].path /\ open'[i].dir = open[i].dir
        /\ Stands(i)' => Stands(i) /\ tree'[open[i].dir] = tree[open[i].dir]
    BY <2>2, FramesKept, StoodBefore
  <2>5. CASE i # Len(open)
    <3>1. i + 1 \in DOMAIN open
      <4>1. i \in 1 .. Len(open)
        BY <2>1, <2>2
      <4>2. i + 1 \in 1 .. Len(open)
        BY <2>1, <2>5, <4>1
      <4> QED
        BY <2>1, <4>2
    <3>2. PICK m \in NameSet : /\ open[i + 1].path = Append(open[i].path, m) /\ m \notin Waiting(open[i])
                               /\ Stands(i) => tree[open[i].dir][m] = open[i + 1].dir
      BY <2>2, <2>5 DEF ChainInv
    <3>3. open'[i + 1].path = open[i + 1].path /\ open'[i + 1].dir = open[i + 1].dir
      BY <2>3, <3>1, FramesKept
    <3>4. Waiting(open'[i]) \subseteq Waiting(open[i])
      BY <2>2, <2>5, FramesKept
    <3> QED
      BY <2>4, <3>2, <3>3, <3>4
  <2>6. CASE i = Len(open)
    <3>1. Entered
      <4>1. Len(open') # Len(open) - 1 /\ Len(open') # Len(open) /\ Len(open) # 0
        <5>1. i \in 1 .. Len(open') /\ i \in 1 .. Len(open)
          BY <2>1, <2>2
        <5>2. i # Len(open') /\ i = Len(open)
          BY <1>2, <2>6
        <5>3. \A a, b \in Nat : b \in 1 .. a /\ b # a => a # b - 1 /\ a # b /\ b # 0
          OBVIOUS
        <5> QED
          BY <2>1, <5>1, <5>2, <5>3
      <4>2. Entered \/ Len(open) = 0 \/ Len(open') = Len(open) - 1 \/ Len(open') = Len(open)
        BY StackGrows
      <4> QED
        BY <4>1, <4>2
    <3>2. /\ pc = "enter" /\ tree' = tree /\ Len(open') = Len(open) + 1
          /\ open'[Len(open')].path = Logical /\ open'[Len(open')].dir = Resolve(tree, Logical)
          /\ open'[Len(open)].left = Tail(Top.left) /\ Top.left # <<>>
      BY <3>1 DEF Entered, Kept, BaseInv, WalkInv
    <3> DEFINE m == open[i].left[1]
    <3>3. /\ Top = open[i] /\ m \in NameSet /\ Logical = Append(open[i].path, m) /\ open[i] \in Frames
          /\ open[i].left # <<>>
      BY <2>6, <3>2, AtEntry
    <3>4. open'[i + 1].path = Append(open'[i].path, m) /\ open'[i + 1].dir = Resolve(tree, Logical)
      BY <2>4, <2>6, <3>2, <3>3
    <3>5. m \notin Waiting(open'[i])
      <4> SUFFICES ASSUME NEW k \in DOMAIN Tail(open[i].left), Tail(open[i].left)[k] = m
                   PROVE  FALSE
        BY <2>6, <3>2, <3>3 DEF Waiting
      <4>1. /\ k + 1 \in DOMAIN open[i].left /\ k + 1 # 1 /\ 1 \in DOMAIN open[i].left
            /\ open[i].left[k + 1] = m
        BY <3>3, FrameFacts
      <4> QED
        BY <2>2, <4>1 DEF FreshInv
    <3>6. ASSUME Stands(i)'  PROVE tree'[open'[i].dir][m] = open'[i + 1].dir
      <4>1. Resolve(tree, open[i].path) = open[i].dir
        BY <2>2, <2>4, <3>6, WayFound
      <4>2. open[i].path \in Seq(NameSet) /\ open[i].dir \in Dirs
        BY <2>2, PathFacts
      <4>3. Resolve(tree, Append(open[i].path, m)) =
              IF Resolve(tree, open[i].path) \in Dirs THEN tree[Resolve(tree, open[i].path)][m] ELSE "absent"
        BY <3>3, <4>2, ResolveSteps
      <4> QED
        BY <2>4, <3>2, <3>3, <3>4, <4>1, <4>2, <4>3
    <3> QED
      BY <3>3, <3>4, <3>5, <3>6
  <2> QED
    BY <2>5, <2>6
<1> QED
  BY <1>1, <1>2 DEF ChainInv

\* What a directory has left is what it had, or all but the first of it.
LEMMA LeftKept ==
  ASSUME BaseInv, Move, ~Listed
  PROVE  \A i \in DOMAIN open' :
           \/ open'[i].left = <<>>
           \/ i \in DOMAIN open /\ open'[i].left = open[i].left
           \/ i \in DOMAIN open /\ open[i].left # <<>> /\ open'[i].left = Tail(open[i].left)
<1> SUFFICES ASSUME NEW i \in DOMAIN open', i \in DOMAIN open
             PROVE  \/ open'[i].left = open[i].left
                    \/ open[i].left # <<>> /\ open'[i].left = Tail(open[i].left)
  BY FrameComes
<1>1. CASE RootOpened
  BY <1>1 DEF RootOpened, BaseInv, WalkInv
<1>2. CASE FileSeen
  <2>1. /\ i # Len(open) => open'[i] = open[i]
        /\ open'[Len(open)].left = Tail(open[Len(open)].left) /\ open[Len(open)].left # <<>>
    BY <1>2 DEF FileSeen, Reseen, Top
  <2> QED
    BY <2>1
<1>3. CASE Entered
  <2>1. /\ i # Len(open) => open'[i] = open[i]
        /\ open'[Len(open)].left = Tail(open[Len(open)].left) /\ open[Len(open)].left # <<>>
    BY <1>3 DEF Entered, Top, BaseInv, WalkInv
  <2> QED
    BY <2>1
<1>4. CASE Passed
  BY <1>4 DEF Passed
<1>5. CASE Refused \/ DirectorySeen \/ WalkOver \/ EntryChanged
  <2>1. open' = open
    BY <1>5 DEF Refused, DirectorySeen, WalkOver, EntryChanged
  <2> QED
    BY <2>1
<1> QED
  BY <1>1, <1>2, <1>3, <1>4, <1>5 DEF Move

LEMMA FreshKept ==
  ASSUME CandidateTreeAssumption, BaseInv, StampInv, ChainInv, FreshInv, Move, ~Listed
  PROVE  FreshInv'
<1>1. visited' = visited
  BY DEF Move, Refused, RootOpened, FileSeen, DirectorySeen, Entered, Passed, WalkOver, EntryChanged
<1>2. ASSUME NEW i \in DOMAIN open', NEW m \in Waiting(open'[i]), NEW v \in visited
      PROVE  v.path # Append(open'[i].path, m)
  <2>1. i \in DOMAIN open
    BY <1>2, FrameComes, NoneWaiting
  <2>2. m \in Waiting(open[i]) /\ open'[i].path = open[i].path
    BY <1>2, <2>1, FramesKept
  <2> QED
    BY <2>1, <2>2 DEF FreshInv
<1>3. ASSUME pc' = "list", NEW v \in visited  PROVE v.path # Top'.path
  <2>1. CASE RootOpened
    BY <1>3, <2>1 DEF RootOpened, BaseInv, WalkInv
  <2>2. CASE Entered
    <3>1. Top'.path = Logical /\ Top.left # <<>> /\ pc = "enter"
      BY <2>2 DEF Entered, Top, BaseInv, WalkInv
    <3>2. /\ Len(open) \in DOMAIN open /\ Top = open[Len(open)] /\ Top.left[1] \in Waiting(Top)
          /\ Logical = Append(Top.path, Top.left[1])
      BY <3>1, AtEntry
    <3>3. v.path # Append(open[Len(open)].path, Top.left[1])
      BY <3>2 DEF FreshInv
    <3> QED
      BY <3>1, <3>2, <3>3
  <2>3. CASE EntryChanged
    BY <1>3, <2>3 DEF EntryChanged, Top, FreshInv
  <2> QED
    BY <1>3, <2>1, <2>2, <2>3 DEF Move, Refused, FileSeen, DirectorySeen, Passed, WalkOver
<1>4. ASSUME NEW i \in DOMAIN open', NEW k \in DOMAIN open'[i].left, NEW l \in DOMAIN open'[i].left,
             open'[i].left[k] = open'[i].left[l]
      PROVE  k = l
  <2>1. CASE open'[i].left = <<>>
    BY <1>4, <2>1
  <2>2. CASE i \in DOMAIN open /\ open'[i].left = open[i].left
    BY <1>4, <2>2 DEF FreshInv
  <2>3. CASE i \in DOMAIN open /\ open[i].left # <<>> /\ open'[i].left = Tail(open[i].left)
    <3>1. open[i] \in Frames
      BY <2>3, StackFacts DEF BaseInv
    <3> DEFINE s == open[i].left
    <3>2. /\ k + 1 \in DOMAIN s /\ l + 1 \in DOMAIN s /\ s[k + 1] = s[l + 1]
          /\ DOMAIN Tail(s) = 1 .. Len(s) - 1 /\ Len(s) \in Nat
      BY <1>4, <2>3, <3>1, FrameFacts
    <3>3. k + 1 = l + 1
      BY <2>3, <3>2 DEF FreshInv
    <3>4. k \in 1 .. Len(s) - 1 /\ l \in 1 .. Len(s) - 1
      BY <1>4, <2>3, <3>2
    <3> HIDE DEF s
    <3> QED
      BY <3>2, <3>3, <3>4
  <2> QED
    BY <2>1, <2>2, <2>3, LeftKept
<1>5. \A v \in visited : v.path = <<>> \/ \E w \in visited, n \in NameSet : v.path = Append(w.path, n)
  BY DEF FreshInv
<1>6. ASSUME NEW i \in DOMAIN open', i # Len(open') \/ pc' \in {"entry", "enter"}
      PROVE  \E v \in visited : v.path = open'[i].path
  <2>1. i \in DOMAIN open /\ (i # Len(open) \/ pc \in {"entry", "enter"})
    BY <1>6, ListedBefore
  <2>2. open'[i].path = open[i].path
    BY <2>1, FramesKept
  <2> QED
    BY <2>1, <2>2 DEF FreshInv
<1> QED
  BY <1>1, <1>2, <1>3, <1>4, <1>5, <1>6 DEF FreshInv

\* The directory that is listed is one that was not, in one that was.
LEMMA FreshListed ==
  ASSUME CandidateTreeAssumption, BaseInv, StampInv, ChainInv, FreshInv, Listed
  PROVE  FreshInv'
<1> DEFINE v0 == [path |-> Top.path, dir |-> Top.dir, names |-> Listing(Top.dir)]
           p0 == Top.path
           last == Len(open)
<1>1. /\ visited' = visited \cup {v0} /\ v0.path = p0 /\ pc = "list" /\ pc' = "entry" /\ open # <<>>
      /\ DOMAIN open' = DOMAIN open /\ Len(open') = last
      /\ open'[last].left = Listing(Top.dir)
      /\ \A i \in DOMAIN open : /\ open'[i].path = open[i].path
                                /\ i # last => open'[i] = open[i]
  BY DEF Listed, Reseen, BaseInv, WalkInv
<1>2. /\ last \in DOMAIN open /\ DOMAIN open = 1 .. last /\ last \in Nat /\ Top = open[last]
      /\ p0 \in Seq(NameSet) /\ Len(p0) = last - 1
  <2>1. last \in DOMAIN open /\ DOMAIN open = 1 .. last /\ last \in Nat /\ Top = open[last]
    BY <1>1, StackFacts DEF BaseInv
  <2>2. open[last].path \in Seq(NameSet) /\ Len(open[last].path) = last - 1
    BY <2>1, PathFacts
  <2> QED
    BY <2>1, <2>2
<1>a. /\ \A p, q \in Seq(NameSet), m, n \in NameSet : Append(p, m) = Append(q, n) => p = q
      /\ \A p \in Seq(NameSet), m \in NameSet : Append(p, m) # <<>> /\ Len(Append(p, m)) = Len(p) + 1
      /\ \A v \in visited : v.path \in Seq(NameSet)
  BY PathFacts
<1> HIDE DEF v0, p0, last
<1>3. ASSUME NEW i \in DOMAIN open', NEW m \in Waiting(open'[i]), NEW v \in visited'
      PROVE  v.path # Append(open'[i].path, m)
  <2>1. i \in DOMAIN open /\ open'[i].path = open[i].path
    BY <1>1, <1>3
  <2>2. m \in NameSet
    <3>1. open'[i] \in Frames
      BY <1>1, <1>3, <2>1, BaseKept, StackFacts DEF Move, BaseInv, Listed, Reseen
    <3> QED
      BY <1>3, <3>1, FrameFacts
  <2>3. CASE i # last
    <3>1. m \in Waiting(open[i])
      BY <1>1, <1>3, <2>1, <2>3
    <3>2. CASE v \in visited
      BY <2>1, <3>1, <3>2 DEF FreshInv
    <3>3. CASE v = v0
      <4> SUFFICES ASSUME Append(open[i].path, m) = Top.path PROVE FALSE
        BY <1>1, <2>1, <3>3 DEF p0
      <4>1. m \notin Waiting(open[i])
        BY <1>1, <2>1, <2>2, UnderLast
      <4> QED
        BY <3>1, <4>1
    <3> QED
      BY <1>1, <1>3, <3>2, <3>3
  <2>4. CASE i = last
    <3>1. open'[i].path = p0
      BY <1>2, <2>1, <2>4 DEF p0
    <3> SUFFICES ASSUME v.path = Append(p0, m) PROVE FALSE
      BY <3>1
    <3>2. CASE v \in visited
      <4>1. v.path # <<>>
        BY <1>2, <1>a, <2>2
      <4>2. PICK w \in visited, n \in NameSet : v.path = Append(w.path, n)
        BY <3>2, <4>1 DEF FreshInv
      <4>3. w.path = p0
        <5>1. w.path \in Seq(NameSet) /\ Append(w.path, n) = Append(p0, m)
          BY <1>a, <4>2
        <5> QED
          BY <1>2, <1>a, <2>2, <4>2, <5>1
      <4> QED
        BY <1>1, <4>2, <4>3 DEF FreshInv, p0
    <3>3. CASE v = v0
      <4>1. Len(Append(p0, m)) = Len(p0) + 1
        BY <1>2, <1>a, <2>2
      <4> QED
        BY <1>1, <1>2, <3>3, <4>1
    <3> QED
      BY <1>1, <1>3, <3>2, <3>3
  <2> QED
    BY <2>3, <2>4
<1>4. ASSUME NEW i \in DOMAIN open', NEW k \in DOMAIN open'[i].left, NEW l \in DOMAIN open'[i].left,
             open'[i].left[k] = open'[i].left[l]
      PROVE  k = l
  <2>1. CASE i # last
    BY <1>1, <1>4, <2>1 DEF FreshInv
  <2>2. CASE i = last
    <3>1. open'[i].left = NamesIn(tree[Top.dir])
      BY <1>1, <2>2 DEF Listing
    <3> QED
      BY <1>4, <3>1, NamesListed
  <2> QED
    BY <2>1, <2>2
<1>5. ASSUME NEW v \in visited'
      PROVE  v.path = <<>> \/ \E w \in visited', n \in NameSet : v.path = Append(w.path, n)
  <2>1. CASE v \in visited
    BY <1>1, <2>1 DEF FreshInv
  <2>2. CASE v = v0
    <3>1. CASE last = 1
      <4>1. Len(p0) = 0
        BY <1>2, <3>1
      <4> QED
        BY <1>1, <1>2, <2>2, <4>1, EmptySeq
    <3>2. CASE last # 1
      <4>1. last - 1 \in DOMAIN open \ {last} /\ (last - 1) + 1 = last
        <5>1. last - 1 \in 1 .. last /\ last - 1 # last /\ (last - 1) + 1 = last
          <6>1. last \in 1 .. last
            BY <1>2
          <6> QED
            BY <1>2, <3>2, <6>1
        <5> QED
          BY <1>2, <5>1
      <4> DEFINE i == last - 1
      <4>2. PICK n \in NameSet : open[i + 1].path = Append(open[i].path, n)
        BY <4>1 DEF ChainInv, last
      <4>3. PICK w \in visited : w.path = open[i].path
        BY <4>1 DEF FreshInv, last
      <4>4. v.path = Append(w.path, n)
        BY <1>1, <1>2, <2>2, <4>1, <4>2, <4>3 DEF p0
      <4> QED
        BY <1>1, <4>3, <4>4
    <3> QED
      BY <3>1, <3>2
  <2> QED
    BY <1>1, <1>5, <2>1, <2>2
<1>6. ASSUME NEW i \in DOMAIN open'
      PROVE  \E v \in visited' : v.path = open'[i].path
  <2>1. CASE i # last
    BY <1>1, <1>6, <2>1 DEF FreshInv
  <2>2. CASE i = last
    BY <1>1, <1>2, <1>6, <2>2 DEF p0
  <2> QED
    BY <2>1, <2>2
<1> QED
  BY <1>1, <1>3, <1>4, <1>5, <1>6 DEF FreshInv

LEMMA StayKept ==
  ASSUME CandidateTreeAssumption, BaseInv, StampInv, ChainInv, FreshInv, StayInv, Move
  PROVE  StayInv'
<1> SUFFICES ASSUME NEW i \in DOMAIN open', NEW v \in visited', NEW m \in NameSet,
                    v.path = Append(open'[i].path, m), Stands(i)'
             PROVE  tree'[open'[i].dir][m] = v.dir
  BY DEF StayInv
<1>1. CASE i \in DOMAIN open
  <2>1. /\ open'[i].path = open[i].path /\ open'[i].dir = open[i].dir
        /\ Stands(i) /\ tree'[open[i].dir] = tree[open[i].dir]
    BY <1>1, FramesKept, StoodBefore
  <2>2. CASE v \in visited
    BY <1>1, <2>1, <2>2 DEF StayInv
  <2>3. CASE v \notin visited
    <3>1. Listed
      BY <2>3 DEF Move, Refused, RootOpened, FileSeen, DirectorySeen, Entered, Passed, WalkOver, EntryChanged
    <3>2. v = [path |-> Top.path, dir |-> Top.dir, names |-> Listing(Top.dir)]
      BY <2>3, <3>1 DEF Listed
    <3>3. v.path = Top.path /\ v.dir = Top.dir
      BY <3>2
    <3>4. open # <<>>
      BY <3>1 DEF Listed, BaseInv, WalkInv
    <3>5. tree[open[i].dir][m] = Top.dir
      BY <1>1, <2>1, <3>3, <3>4, UnderLast
    <3> QED
      BY <2>1, <3>3, <3>5
  <2> QED
    BY <2>2, <2>3
<1>2. CASE i \notin DOMAIN open
  <2>1. pc' = "list" /\ i = Len(open') /\ ~Listed
    BY <1>2, FrameComes DEF Listed
  <2>2. FreshInv' /\ BaseInv'
    BY <2>1, FreshKept, BaseKept
  <2>3. Top'.path = open'[i].path /\ open'[i].path \in Seq(NameSet)
    <3>1. open'[i] \in Frames
      BY <2>2 DEF BaseInv, StackInv
    <3> QED
      BY <2>1, <3>1, FrameFacts DEF Top
  <2>4. v.path # <<>>
    BY <2>3, AppendProperties
  <2>5. PICK w \in visited', n \in NameSet : v.path = Append(w.path, n)
    BY <2>2, <2>4 DEF FreshInv
  <2>6. w.path \in Seq(NameSet)
    BY <2>2 DEF BaseInv, StackInv, Inspected
  <2>7. w.path = open'[i].path
    <3>1. \A p, q \in Seq(NameSet), k, l \in NameSet : Append(p, k) = Append(q, l) => p = q
      BY PathFacts
    <3> QED
      BY <2>3, <2>5, <2>6, <3>1
  <2> QED
    BY <2>1, <2>2, <2>3, <2>7 DEF FreshInv
<1> QED
  BY <1>1, <1>2

-----------------------------------------------------------------------------
(***************************************************************************)
(* A tree that nobody touches is judged for what it is: each thing that is *)
(* noted is one that is there, whatever is left behind has been noted, and *)
(* each refusal has its cause in the tree.                                 *)
(***************************************************************************)

Known == Directories \cup {<<>>}

\* What is in the tree: the names in a declared directory.
LEMMA PathsAre ==
  ASSUME CandidateTreeAssumption, BaseInv
  PROVE  /\ Paths \subseteq Seq(NameSet) /\ Known \subseteq Seq(NameSet)
         /\ \A q \in Paths : \E p \in Known, n \in NameSet : q = Append(p, n)
         /\ \A p \in Seq(NameSet), n \in NameSet :
              Append(p, n) \in Paths <=> p \in Known /\ Resolve(tree, Append(p, n)) # "absent"
         /\ \A q \in Paths : Resolve(tree, q) # "absent"
<1>1. Known \subseteq Seq(NameSet)
  BY TargetPaths, EmptySeq DEF Known
<1>2. \A q : q \in Paths <=> \E p \in Known : /\ Resolve(tree, p) \in Dirs
                                              /\ \E n \in NameSet : /\ tree[Resolve(tree, p)][n] # "absent"
                                                                    /\ q = Append(p, n)
  BY DEF Paths, Present, Below, Known
<1>3. \A p \in Seq(NameSet), n \in NameSet :
        Resolve(tree, Append(p, n)) # "absent" <=>
          Resolve(tree, p) \in Dirs /\ tree[Resolve(tree, p)][n] # "absent"
  BY ResolveSteps
<1>4. \A q \in Paths : \E p \in Known, n \in NameSet :
                         q = Append(p, n) /\ Resolve(tree, Append(p, n)) # "absent"
  BY <1>1, <1>2, <1>3
<1>5. ASSUME NEW p \in Seq(NameSet), NEW n \in NameSet
      PROVE  Append(p, n) \in Paths <=> p \in Known /\ Resolve(tree, Append(p, n)) # "absent"
  <2>1. ASSUME Append(p, n) \in Paths PROVE p \in Known /\ Resolve(tree, Append(p, n)) # "absent"
    <3>1. PICK r \in Known, m \in NameSet :
            Append(p, n) = Append(r, m) /\ Resolve(tree, Append(r, m)) # "absent"
      BY <1>4, <2>1
    <3>2. r = p
      <4>1. r \in Seq(NameSet)
        BY <1>1
      <4> QED
        BY <3>1, <4>1, PathFacts
    <3> QED
      BY <3>1, <3>2
  <2>2. ASSUME p \in Known, Resolve(tree, Append(p, n)) # "absent" PROVE Append(p, n) \in Paths
    BY <1>2, <1>3, <2>2
  <2> QED
    BY <2>1, <2>2
<1>6. \A q \in Paths : q \in Seq(NameSet)
  <2>1. \A p \in Known, n \in NameSet : Append(p, n) \in Seq(NameSet)
    BY <1>1, AppendProperties
  <2> QED
    BY <1>4, <2>1
<1> QED
  BY <1>1, <1>4, <1>5, <1>6

\* What is looked for in the tree does not change while the tree does not.
LEMMA SamePaths ==
  ASSUME UNCHANGED <<tree, declared, allowed>>
  PROVE  /\ Paths' = Paths /\ (Exact' <=> Exact) /\ Known' = Known /\ (TooDeep' <=> TooDeep)
         /\ Files' = Files /\ Directories' = Directories
<1>1. Files' = Files /\ Directories' = Directories
  BY SameTargets
<1>2. Paths' = Paths
  BY <1>1 DEF Paths, Present, Below
<1>3. Known' = Known /\ (TooDeep' <=> TooDeep)
  BY <1>1 DEF Known, TooDeep
<1> QED
  BY <1>1, <1>2, <1>3 DEF Exact

\* In a tree that is as declared, what is there is a declared file or directory.
LEMMA ExactPaths ==
  ASSUME CandidateTreeAssumption, BaseInv, Exact, NEW q \in Paths
  PROVE  /\ q \in Directories <=> Resolve(tree, q) \in Dirs
         /\ Resolve(tree, q) \notin Dirs => q \in Files /\ Resolve(tree, q) = "file"
<1>1. "file" \notin Dirs
  BY DEF CandidateTreeAssumption, NotDirs
<1>2. q \in Directories => Resolve(tree, q) \in Dirs
  BY DEF Exact
<1>3. q \notin Directories => q \in Files /\ Resolve(tree, q) = "file"
  BY DEF Exact
<1> QED
  BY <1>1, <1>2, <1>3

-----------------------------------------------------------------------------
\* The elements of a function's range are finitely many if its domain's are.
LEMMA FiniteImage ==
  ASSUME NEW S, IsFiniteSet(S), NEW f, DOMAIN f = S, f = [x \in S |-> f[x]]
  PROVE  IsFiniteSet({f[x] : x \in S})
<1> DEFINE T == {f[x] : x \in S}
<1>1. f \in Surjection(S, T)
  BY DEF Surjection
<1> QED
  BY <1>1, FS_Surjection

LEMMA PathsFinite ==
  ASSUME CandidateTreeAssumption, BaseInv
  PROVE  IsFiniteSet(Paths)
<1>1. IsFiniteSet(Files) /\ Files \subseteq Seq(NameSet)
  <2>1. IsFiniteSet(declared) /\ IsFiniteSet({allowed})
    BY FS_Singleton DEF CandidateTreeAssumption, BaseInv, StackInv
  <2>2. IsFiniteSet({allowed} \ {<<>>})
    BY <2>1, FS_Difference
  <2>3. IsFiniteSet(Files)
    BY <2>1, <2>2, FS_Union DEF Files
  <2> QED
    BY <2>3, TargetPaths
<1>2. ASSUME NEW p \in Files  PROVE IsFiniteSet({SubSeq(p, 1, n) : n \in 1 .. Len(p) - 1})
  <2> DEFINE S == 1 .. Len(p) - 1
             f == [n \in S |-> SubSeq(p, 1, n)]
  <2>1. IsFiniteSet(S)
    <3>1. Len(p) \in Nat
      BY <1>1
    <3>2. Len(p) - 1 \in Int
      BY <3>1
    <3> QED
      BY <3>2, FS_Interval
  <2>2. DOMAIN f = S /\ f = [n \in S |-> f[n]] /\ {f[n] : n \in S} = {SubSeq(p, 1, n) : n \in S}
    OBVIOUS
  <2>3. IsFiniteSet({f[n] : n \in S})
    <3> HIDE DEF f, S
    <3> QED
      BY <2>1, <2>2, FiniteImage
  <2> QED
    BY <2>2, <2>3
<1>3. IsFiniteSet(Directories)
  <2> DEFINE f == [p \in Files |-> {SubSeq(p, 1, n) : n \in 1 .. Len(p) - 1}]
  <2>1. DOMAIN f = Files /\ f = [p \in Files |-> f[p]] /\ \A p \in Files : IsFiniteSet(f[p])
    BY <1>2
  <2>2. Directories = UNION {f[p] : p \in Files}
    BY DEF Directories
  <2> HIDE DEF f
  <2>3. IsFiniteSet({f[p] : p \in Files})
    BY <1>1, <2>1, FiniteImage
  <2>4. \A T \in {f[p] : p \in Files} : IsFiniteSet(T)
    BY <2>1
  <2> QED
    BY <2>2, <2>3, <2>4, FS_UNION
<1>4. IsFiniteSet(NameSet)
  <2>1. Names \in Seq(NameSet)
    BY DEF CandidateTreeAssumption
  <2>2. IsFiniteSet(DOMAIN Names) /\ Names = [i \in DOMAIN Names |-> Names[i]]
    <3>1. DOMAIN Names = 1 .. Len(Names) /\ Len(Names) \in Nat
      BY <2>1
    <3>2. IsFiniteSet(1 .. Len(Names))
      BY <3>1, FS_Interval
    <3> QED
      BY <2>1, <3>1, <3>2
  <2>3. IsFiniteSet({Names[i] : i \in DOMAIN Names})
    BY <2>2, FiniteImage
  <2> QED
    BY <2>3 DEF NameSet
<1>5. IsFiniteSet(Known \X NameSet)
  <2>1. IsFiniteSet(Known)
    BY <1>3, FS_Singleton, FS_Union DEF Known
  <2> QED
    BY <1>4, <2>1, FS_Product
<1> DEFINE S == Known \X NameSet
           f == [x \in S |-> Append(x[1], x[2])]
<1>6. DOMAIN f = S /\ f = [x \in S |-> f[x]]
  OBVIOUS
<1>7. Paths \subseteq {f[x] : x \in S}
  <2> SUFFICES ASSUME NEW q \in Paths PROVE \E x \in S : q = f[x]
    OBVIOUS
  <2>1. PICK p \in Known, n \in NameSet : q = Append(p, n)
    BY PathsAre
  <2>2. <<p, n>> \in S /\ f[<<p, n>>] = Append(p, n)
    OBVIOUS
  <2> QED
    BY <2>1, <2>2
<1>8. IsFiniteSet({f[x] : x \in S})
  <2> HIDE DEF f
  <2> QED
    BY <1>5, <1>6, FiniteImage
<1> QED
  BY <1>7, <1>8, FS_Subset

-----------------------------------------------------------------------------
\* All that has been listed, each path once.
Counted == {q \in Seq(NameSet) : \E v \in visited : \E k \in DOMAIN v.names : q = Append(v.path, v.names[k])}

CountInv == IsFiniteSet(Counted) /\ Cardinality(Counted) = entries

\* The paths of the names in a directory.
Under(p, names) == {Append(p, names[k]) : k \in DOMAIN names}

\* A directory has as many paths in it as it has names.
LEMMA UnderCounted ==
  ASSUME NEW p \in Seq(NameSet), NEW names \in Seq(NameSet),
         \A k, l \in DOMAIN names : names[k] = names[l] => k = l
  PROVE  IsFiniteSet(Under(p, names)) /\ Cardinality(Under(p, names)) = Len(names)
<1> DEFINE S == 1 .. Len(names)
           T == Under(p, names)
           f == [k \in S |-> Append(p, names[k])]
<1>1. DOMAIN names = S /\ Len(names) \in Nat
  OBVIOUS
<1>2. \A k, l \in S : f[k] = f[l] => k = l
  <2> SUFFICES ASSUME NEW k \in S, NEW l \in S, f[k] = f[l] PROVE k = l
    OBVIOUS
  <2>1. names[k] \in NameSet /\ names[l] \in NameSet /\ Append(p, names[k]) = Append(p, names[l])
    BY <1>1
  <2>2. \A m, n \in NameSet : Append(p, m) = Append(p, n) => m = n
    BY AppendProperties
  <2>3. names[k] = names[l]
    BY <2>1, <2>2
  <2> QED
    BY <1>1, <2>3
<1>3. f \in [S -> T] /\ \A t \in T : \E k \in S : f[k] = t
  BY <1>1 DEF Under
<1> HIDE DEF f, T
<1>4. f \in Bijection(S, T)
  BY <1>2, <1>3 DEF Bijection, Injection, Surjection, IsInjective
<1>5. ExistsBijection(S, T)
  BY <1>4 DEF ExistsBijection
<1>6. IsFiniteSet(S) /\ Cardinality(S) = Len(names)
  <2>1. \A n \in Nat : /\ IsFiniteSet(1 .. n)
                       /\ Cardinality(1 .. n) = IF 1 > n THEN 0 ELSE n - 1 + 1
    BY FS_Interval
  <2> QED
    BY <1>1, <2>1
<1> HIDE DEF S
<1>7. IsFiniteSet(T) /\ Cardinality(T) = Cardinality(S)
  BY <1>5, <1>6, FS_Bijection
<1> QED
  BY <1>6, <1>7 DEF T

\* What is about to be listed adds as many paths as it has names.
LEMMA ListingCounts ==
  ASSUME CandidateTreeAssumption, BaseInv, FreshInv, CountInv, pc = "list"
  PROVE  LET all == Counted \cup Under(Top.path, Listing(Top.dir))
         IN IsFiniteSet(all) /\ Cardinality(all) = entries + Len(Listing(Top.dir))
<1> DEFINE p == Top.path
           names == Listing(Top.dir)
           T == Under(p, names)
<1>1. p \in Seq(NameSet) /\ names \in Seq(NameSet)
  <2>1. open # <<>>
    BY DEF BaseInv, WalkInv
  <2>2. Top \in Frames
    BY <2>1, StackFacts DEF BaseInv
  <2> QED
    BY <2>2, FrameFacts, NamesListed DEF Listing
<1>2. \A k, l \in DOMAIN names : names[k] = names[l] => k = l
  BY NamesListed DEF Listing
<1>3. \A v \in visited : v.path # p
  BY DEF FreshInv
<1> HIDE DEF p, names
<1>4. IsFiniteSet(T) /\ Cardinality(T) = Len(names)
  BY <1>1, <1>2, UnderCounted
<1>5. Counted \cap T = {}
  <2> SUFFICES ASSUME NEW q \in Counted, q \in T PROVE FALSE
    OBVIOUS
  <2>1. PICK v \in visited : \E k \in DOMAIN v.names : q = Append(v.path, v.names[k])
    BY DEF Counted
  <2>2. PICK k \in DOMAIN v.names : q = Append(v.path, v.names[k])
    BY <2>1
  <2>3. PICK l \in DOMAIN names : q = Append(p, names[l])
    BY DEF Under
  <2>4. v.path \in Seq(NameSet) /\ v.names \in Seq(NameSet)
    BY DEF BaseInv, StackInv, Inspected
  <2>5. v.names[k] \in NameSet /\ names[l] \in NameSet
    BY <1>1, <2>2, <2>3, <2>4
  <2>6. v.path = p
    <3>1. \A r, s \in Seq(NameSet), m, n \in NameSet : Append(r, m) = Append(s, n) => r = s
      BY PathFacts
    <3>2. Append(v.path, v.names[k]) = Append(p, names[l])
      BY <2>2, <2>3
    <3> QED
      BY <1>1, <2>4, <2>5, <3>1, <3>2
  <2> QED
    BY <1>3, <2>6
<1>6. /\ IsFiniteSet(Counted \cup T)
      /\ Cardinality(Counted \cup T) = Cardinality(Counted) + Cardinality(T) - Cardinality(Counted \cap T)
  BY <1>4, FS_Union DEF CountInv
<1>7. Cardinality(Counted \cap T) = 0
  BY <1>5, FS_EmptySet
<1>8. Cardinality(Counted) = entries /\ entries \in Nat /\ Len(names) \in Nat
  <2>1. Cardinality(Counted) \in Nat
    BY FS_CardinalityType DEF CountInv
  <2> QED
    BY <1>1, <2>1 DEF CountInv
<1>9. Cardinality(Counted \cup T) = entries + Len(names)
  BY <1>4, <1>6, <1>7, <1>8
<1> QED
  BY <1>6, <1>9 DEF p, names

LEMMA CountKept ==
  ASSUME CandidateTreeAssumption, BaseInv, FreshInv, CountInv, Next
  PROVE  CountInv'
<1>1. CASE UNCHANGED <<visited, entries>>
  <2>1. Counted' = Counted
    BY <1>1 DEF Counted
  <2> QED
    BY <1>1, <2>1 DEF CountInv
<1>2. CASE ~UNCHANGED <<visited, entries>>
  <2>1. List
    BY <1>2 DEF Next, Step, Start, RefuseEntry, SeeFile, SeeDirectory, Enter, EnterFails, Leave,
                Count, ReadFile, Finish, Change, Refuse, walk
  <2> DEFINE names == Listing(Top.dir)
             w     == [path |-> Top.path, dir |-> Top.dir, names |-> names]
  <2>2. pc = "list" /\ visited' = visited \cup {w} /\ entries' = entries + Len(names)
    BY <1>2, <2>1 DEF List, Refuse
  <2>3. Counted' = Counted \cup Under(Top.path, names)
    <3>1. names \in Seq(NameSet) /\ Top.path \in Seq(NameSet)
      <4>1. open # <<>>
        BY <2>2 DEF BaseInv, WalkInv
      <4>2. Top \in Frames
        BY <4>1, StackFacts DEF BaseInv
      <4> QED
        BY <4>2, FrameFacts, NamesListed DEF Listing
    <3>2. w.path = Top.path /\ w.names = names
      OBVIOUS
    <3>3. Under(Top.path, names) \subseteq Seq(NameSet)
      <4>1. \A k \in DOMAIN names : Append(Top.path, names[k]) \in Seq(NameSet)
        <5>1. \A k \in DOMAIN names : names[k] \in NameSet
          BY <3>1
        <5> QED
          BY <3>1, <5>1, AppendProperties
      <4> QED
        BY <4>1 DEF Under
    <3> HIDE DEF w, names
    <3>4. Counted' = {q \in Seq(NameSet) :
                        \E v \in visited' : \E k \in DOMAIN v.names : q = Append(v.path, v.names[k])}
      BY DEF Counted
    <3> QED
      BY <2>2, <3>2, <3>3, <3>4 DEF Counted, Under
  <2>4. /\ IsFiniteSet(Counted \cup Under(Top.path, names))
        /\ Cardinality(Counted \cup Under(Top.path, names)) = entries + Len(names)
    BY <2>2, ListingCounts
  <2> QED
    BY <2>2, <2>3, <2>4 DEF CountInv
<1> QED
  BY <1>1, <1>2

-----------------------------------------------------------------------------
\* What is noted of the directories is what they hold.
WalkedInv ==
  changed = {} =>
    /\ changes = 0
    /\ \A v \in visited : v.path \in Known /\ v.names = Listing(v.dir)
    /\ \A i \in DOMAIN open : /\ open[i].path \in Known
                              /\ \A n \in Waiting(open[i]) : tree[open[i].dir][n] # "absent"

\* What is noted of their entries is there.
ThereInv ==
  changed = {} =>
    /\ logical \subseteq Paths /\ \A p \in observed : Resolve(tree, p) = "file"
    /\ pc = "enter" => Entry \in Dirs /\ Logical \in logical

\* A step that leaves nothing changed has found nothing changed.
LEMMA NoneElse ==
  ASSUME Move, changed' = {}
  PROVE  Kept /\ changed = {}
<1>1. ~EntryChanged
  BY DEF EntryChanged
<1>2. Kept
  BY <1>1 DEF Move, Refused, RootOpened, Listed, FileSeen, DirectorySeen, Entered, Passed, WalkOver
<1> QED
  BY <1>2 DEF Kept

\* In a tree nobody has changed every way leads where it led when it was walked.
LEMMA AllLive ==
  ASSUME BaseInv, FoundInv, changed = {}
  PROVE  /\ \A p : Live(p)
         /\ \A i \in DOMAIN open : Resolve(tree, open[i].path) = open[i].dir
         /\ \A v \in visited : Resolve(tree, v.path) = v.dir
         /\ open # <<>> => \A n \in NameSet : Resolve(tree, Append(Top.path, n)) = tree[Top.dir][n]
<1>1. \A p : Live(p)
  BY DEF Live, Untouched
<1> QED
  BY <1>1, LookedUp DEF FoundInv

\* The entry looked at is at its path, and that is one of the tree's.
LEMMA EntryThere ==
  ASSUME CandidateTreeAssumption, BaseInv, FoundInv, WalkedInv, changed = {},
         pc \in {"entry", "enter"}, Top.left # <<>>
  PROVE  Entry = Resolve(tree, Logical) /\ Entry # "absent" /\ Logical \in Paths
<1> DEFINE p == Top.path
           n == Top.left[1]
<1>1. /\ open # <<>> /\ Len(open) \in DOMAIN open /\ Top = open[Len(open)] /\ n \in NameSet
      /\ n \in Waiting(Top) /\ Logical = Append(p, n) /\ p \in Seq(NameSet)
  BY AtEntry, FrameFacts
<1>2. Resolve(tree, Append(p, n)) = Entry
  BY <1>1, AllLive DEF Entry
<1>3. Entry # "absent" /\ p \in Known
  BY <1>1 DEF WalkedInv, Entry
<1> HIDE DEF p, n
<1>4. Append(p, n) \in Paths
  BY <1>1, <1>2, <1>3, PathsAre
<1> QED
  BY <1>1, <1>2, <1>3, <1>4

LEMMA WalkedKept ==
  ASSUME CandidateTreeAssumption, BaseInv, WalkedInv, Move
  PROVE  WalkedInv'
<1> SUFFICES ASSUME changed' = {}
             PROVE  /\ changes' = 0
                    /\ \A v \in visited' : v.path \in Known' /\ v.names = Listing(v.dir)'
                    /\ \A i \in DOMAIN open' :
                         /\ open'[i].path \in Known'
                         /\ \A n \in Waiting(open'[i]) : tree'[open'[i].dir][n] # "absent"
  BY DEF WalkedInv
<1>1. Kept /\ changed = {}
  BY NoneElse
<1>2. tree' = tree /\ Known' = Known /\ changes' = 0 /\ \A d : Listing(d)' = Listing(d)
  BY <1>1, SamePaths DEF Kept, WalkedInv, Listing
<1>3. ASSUME NEW i \in DOMAIN open'
      PROVE  open'[i].path \in Known /\ \A n \in Waiting(open'[i]) : tree[open'[i].dir][n] # "absent"
  <2>1. CASE i \in DOMAIN open /\ ~(Listed /\ i = Len(open))
    <3>1. /\ open'[i].path = open[i].path /\ open'[i].dir = open[i].dir
          /\ Waiting(open'[i]) \subseteq Waiting(open[i])
      BY <2>1, FramesKept
    <3> QED
      BY <1>1, <2>1, <3>1 DEF WalkedInv
  <2>2. CASE i \in DOMAIN open /\ Listed /\ i = Len(open)
    <3>1. open'[i].path = open[i].path /\ open'[i].dir = open[i].dir /\ open'[i].left = Listing(open[i].dir)
      BY <2>2 DEF Listed, Reseen, Top
    <3>2. \A k \in DOMAIN Listing(open[i].dir) : tree[open[i].dir][Listing(open[i].dir)[k]] # "absent"
      BY NamesListed DEF Listing
    <3> QED
      BY <1>1, <2>2, <3>1, <3>2 DEF WalkedInv, Waiting
  <2>3. CASE i \notin DOMAIN open
    <3>1. open'[i].left = <<>> /\ i = Len(open') /\ i = Len(open) + 1
      BY <2>3, FrameComes
    <3>2. Waiting(open'[i]) = {}
      BY <3>1, NoneWaiting
    <3>3. RootOpened \/ Entered
      <4>1. Len(open) \in Nat /\ Len(open') = Len(open) + 1
        BY <3>1, StackGrows
      <4>2. Len(open') # Len(open) - 1 /\ Len(open') # Len(open)
        BY <4>1
      <4> QED
        BY <4>2, StackGrows
    <3>4. open'[i].path \in Known
      <4>1. CASE RootOpened
        BY <3>1, <4>1 DEF RootOpened, Known
      <4>2. CASE Entered
        BY <3>1, <4>2 DEF Entered, Known, BaseInv, WalkInv
      <4> QED
        BY <3>3, <4>1, <4>2
    <3> QED
      BY <3>2, <3>4
  <2> QED
    BY <2>1, <2>2, <2>3
<1>4. ASSUME NEW v \in visited'  PROVE v.path \in Known /\ v.names = Listing(v.dir)
  <2>1. CASE v \in visited
    BY <1>1, <2>1 DEF WalkedInv
  <2>2. CASE v \notin visited
    <3>1. Listed
      BY <2>2 DEF Move, Refused, RootOpened, FileSeen, DirectorySeen, Entered, Passed, WalkOver, EntryChanged
    <3>2. v = [path |-> Top.path, dir |-> Top.dir, names |-> Listing(Top.dir)]
      BY <2>2, <3>1 DEF Listed
    <3>3. v.path = Top.path /\ v.dir = Top.dir /\ v.names = Listing(Top.dir)
      BY <3>2
    <3>4. Top.path \in Known
      BY <1>1, <3>1 DEF Listed, Reseen, Top, WalkedInv
    <3> QED
      BY <3>3, <3>4
  <2> QED
    BY <2>1, <2>2
<1> QED
  BY <1>2, <1>3, <1>4

\* What is noted of entries only grows, by an entry that is taken.
LEMMA NotesGrow ==
  ASSUME CandidateTreeAssumption, BaseInv, Next
  PROVE  \/ UNCHANGED <<logical, observed>> /\ (pc' = "enter" => pc = "enter" /\ UNCHANGED open)
         \/ SeeFile \/ SeeDirectory
BY DEF Next, Step, Start, List, RefuseEntry, Enter, EnterFails, Leave, Count, ReadFile, Finish, Change,
       Refuse, Stop, walk

LEMMA ThereKept ==
  ASSUME CandidateTreeAssumption, BaseInv, FoundInv, WalkedInv, ThereInv, Next
  PROVE  ThereInv'
<1> SUFFICES ASSUME changed' = {}
             PROVE  /\ logical' \subseteq Paths' /\ \A p \in observed' : Resolve(tree', p) = "file"
                    /\ pc' = "enter" => Entry' \in Dirs /\ Logical' \in logical'
  BY DEF ThereInv
<1>1. Move
  BY NextMoves
<1>2. Kept /\ changed = {}
  BY <1>1, NoneElse
<1>3. tree' = tree /\ Paths' = Paths
  BY <1>2, SamePaths DEF Kept
<1>4. CASE UNCHANGED <<logical, observed>> /\ (pc' = "enter" => pc = "enter" /\ UNCHANGED open)
  <2>1. pc' = "enter" => pc = "enter" /\ Entry' = Entry /\ Logical' = Logical
    BY <1>3, <1>4 DEF Entry, Logical, Top
  <2> QED
    BY <1>2, <1>3, <1>4, <2>1 DEF ThereInv
<1>5. CASE SeeFile \/ SeeDirectory
  <2>1. /\ pc = "entry" /\ Top.left # <<>> /\ logical' = logical \cup {Logical}
        /\ Entry = Resolve(tree, Logical) /\ Logical \in Paths
    BY <1>2, <1>5, EntryThere DEF SeeFile, SeeDirectory
  <2>2. CASE SeeFile
    <3>1. observed' = observed \cup {Logical} /\ pc' = pc /\ EntryRefusal = Ok /\ Entry \notin Dirs
      BY <2>2 DEF SeeFile
    <3>2. Entry = "file"
      <4>1. tree \in [Dirs -> [NameSet -> Things]] /\ Top.dir \in Dirs /\ Top.left[1] \in NameSet
        BY <2>1, AtEntry, FrameFacts DEF BaseInv, StackInv
      <4>2. Entry \in Things
        BY <4>1 DEF Entry
      <4> QED
        BY <3>1, <4>2, EntryRefusals DEF Things, NotDirs
    <3> QED
      BY <1>2, <1>3, <2>1, <3>1, <3>2 DEF ThereInv
  <2>3. CASE SeeDirectory
    <3>1. observed' = observed /\ open' = open /\ Entry \in Dirs
      BY <2>3 DEF SeeDirectory
    <3>2. Entry' = Entry /\ Logical' = Logical
      BY <1>3, <3>1 DEF Entry, Logical, Top
    <3> QED
      BY <1>2, <1>3, <2>1, <3>1, <3>2 DEF ThereInv
  <2> QED
    BY <1>5, <2>2, <2>3
<1> QED
  BY <1>4, <1>5, NotesGrow

\* What is waiting no longer has been marked: a file as seen, a directory by its
\* path, and nothing else passes.
MarkedInv ==
  changed = {} /\ verdict = Ok =>
    \A v \in visited, n \in NameSet :
      \/ Resolve(tree, Append(v.path, n)) = "absent"
      \/ Pending(v.path, n)
      \/ /\ Append(v.path, n) \in logical
         /\ Resolve(tree, Append(v.path, n)) = "file" => Append(v.path, n) \in observed

\* No two of the paths that are marked differ in case alone.
ApartInv == \A p, q \in logical : Folded(p) = Folded(q) => p = q

\* What the checks at the beginning and the end have shown.
DoneInv ==
  /\ pc \notin {"start", "done"} \/ Loaded => ~TooDeep
  /\ pc = "read" \/ Loaded => Files \subseteq observed

LEMMA MarkedKept ==
  ASSUME CandidateTreeAssumption, BaseInv, FoundInv, WalkedInv, ThereInv, MarkedInv, Next
  PROVE  MarkedInv'
<1> SUFFICES ASSUME changed' = {}, verdict' = Ok, NEW v \in visited', NEW n \in NameSet
             PROVE  \/ Resolve(tree', Append(v.path, n)) = "absent"
                    \/ Pending(v.path, n)'
                    \/ /\ Append(v.path, n) \in logical'
                       /\ Resolve(tree', Append(v.path, n)) = "file" => Append(v.path, n) \in observed'
  BY DEF MarkedInv
<1>1. Move /\ ~Refused
  BY NextMoves DEF Refused, Refusals, Ok
<1>2. Kept /\ changed = {} /\ tree' = tree
  BY <1>1, NoneElse DEF Kept
<1>3. verdict = Ok
  BY <1>1 DEF Move, RootOpened, Listed, FileSeen, DirectorySeen, Entered, Passed, WalkOver, EntryChanged
<1>4. logical \subseteq logical' /\ observed \subseteq observed'
  BY NotesGrow DEF SeeFile, SeeDirectory
<1>5. PICK p : p = v.path
  OBVIOUS
<1> DEFINE q == Append(p, n)
<1> SUFFICES \/ Resolve(tree, q) = "absent" \/ Pending(p, n)'
             \/ q \in logical' /\ (Resolve(tree, q) = "file" => q \in observed')
  BY <1>2, <1>5
<1>6. CASE v \in visited
  <2>1. \/ Resolve(tree, q) = "absent" \/ Pending(p, n)
        \/ q \in logical /\ (Resolve(tree, q) = "file" => q \in observed)
    BY <1>2, <1>3, <1>5, <1>6 DEF MarkedInv
  <2>2. CASE Pending(p, n) /\ ~Pending(p, n)'
    <3>1. (FileSeen \/ Entered) /\ p = Top.path /\ n = Top.left[1]
      BY <1>1, <2>2, WaitsOn
    <3>2. q = Logical
      BY <3>1 DEF Logical
    <3>3. CASE FileSeen
      <4>1. SeeFile
        BY <3>3, <1>2 DEF FileSeen, Kept, Next, Step, Start, List, RefuseEntry, SeeDirectory, Enter,
              EnterFails, Leave, Count, ReadFile, Finish, Change, Refuse, Stop
      <4> QED
        BY <3>2, <4>1 DEF SeeFile
    <3>4. CASE Entered
      <4>1. pc = "enter" /\ Top.left # <<>>
        BY <3>4 DEF Entered, BaseInv, WalkInv
      <4>2. Entry = Resolve(tree, q) /\ Entry \in Dirs /\ q \in logical
        BY <1>2, <3>2, <4>1, EntryThere DEF ThereInv
      <4>3. "file" \notin Dirs
        BY DEF CandidateTreeAssumption, NotDirs
      <4> QED
        BY <1>4, <4>2, <4>3
    <3> QED
      BY <3>1, <3>3, <3>4
  <2> HIDE DEF q
  <2> QED
    BY <1>4, <2>1, <2>2
<1>7. CASE v \notin visited
  <2>1. Listed
    BY <1>1, <1>7 DEF Move, RootOpened, FileSeen, DirectorySeen, Entered, Passed, WalkOver, EntryChanged
  <2>2. v = [path |-> Top.path, dir |-> Top.dir, names |-> Listing(Top.dir)]
    BY <1>7, <2>1 DEF Listed
  <2>3. p = Top.path
    BY <1>5, <2>2
  <2>4. open # <<>> /\ Len(open) \in DOMAIN open /\ Top = open[Len(open)]
    BY <2>1 DEF Listed, Reseen, Top, BaseInv, WalkInv
  <2>5. Resolve(tree, q) = tree[Top.dir][n]
    BY <1>2, <2>3, <2>4, AllLive
  <2>6. CASE tree[Top.dir][n] # "absent"
    <3>1. PICK k \in DOMAIN Listing(Top.dir) : Listing(Top.dir)[k] = n
      BY <2>6, NamesListed DEF Listing
    <3>2. /\ Len(open) \in DOMAIN open' /\ open'[Len(open)].left = Listing(Top.dir)
          /\ open'[Len(open)].path = p
      BY <2>1, <2>3, <2>4 DEF Listed, Reseen
    <3>3. n \in Waiting(open'[Len(open)])
      BY <3>1, <3>2 DEF Waiting
    <3> QED
      BY <3>2, <3>3 DEF Pending
  <2> QED
    BY <2>5, <2>6
<1> QED
  BY <1>6, <1>7

LEMMA ApartKept ==
  ASSUME CandidateTreeAssumption, BaseInv, ApartInv, Next
  PROVE  ApartInv'
<1>1. CASE UNCHANGED logical
  BY <1>1 DEF ApartInv, Folded
<1>2. CASE SeeFile \/ SeeDirectory
  <2>1. logical' = logical \cup {Logical} /\ EntryRefusal = Ok
    BY <1>2 DEF SeeFile, SeeDirectory
  <2>2. \A p \in logical : Folded(p) = Folded(Logical) => p = Logical
    BY <2>1, EntryRefusals
  <2>3. ApartInv' <=> \A p, q \in logical' : Folded(p) = Folded(q) => p = q
    BY DEF ApartInv, Folded
  <2>4. \A p, q \in logical : Folded(p) = Folded(q) => p = q
    BY DEF ApartInv
  <2> QED
    BY <2>1, <2>2, <2>3, <2>4
<1> QED
  BY <1>1, <1>2, NotesGrow

LEMMA DoneKept ==
  ASSUME CandidateTreeAssumption, BaseInv, DoneInv, Next
  PROVE  DoneInv'
<1>1. Files' = Files /\ (TooDeep' <=> TooDeep)
  <2>1. UNCHANGED <<declared, allowed>>
    BY DEF Next, Step, Start, List, RefuseEntry, SeeFile, SeeDirectory, Enter, EnterFails, Leave,
           Count, ReadFile, Finish, Change, Refuse, walk
  <2> QED
    BY <2>1, SameTargets DEF TooDeep
<1>2. observed \subseteq observed'
  BY NotesGrow DEF SeeFile, SeeDirectory
<1>3. ASSUME pc' \notin {"start", "done"} \/ Loaded'
      PROVE  (Start /\ ~TooDeep) \/ pc \notin {"start", "done"} \/ Loaded
  <2>1. CASE Start
    BY <1>3, <2>1 DEF Start, Refuse, Stop, Loaded, Ok
  <2>2. CASE Change
    BY <1>3, <2>2 DEF Change, walk, Loaded
  <2>3. CASE ~Start /\ ~Change
    BY <2>3 DEF Next, Step, List, RefuseEntry, SeeFile, SeeDirectory, Enter, EnterFails, Leave, Count,
                ReadFile, Finish
  <2> QED
    BY <2>1, <2>2, <2>3
<1>4. ASSUME pc' = "read" \/ Loaded'
      PROVE  (Count /\ Files \subseteq observed) \/ pc = "read" \/ Loaded
  <2>1. CASE Start \/ List
    BY <1>4, <2>1 DEF Start, List, Refuse, Stop, Loaded, Ok
  <2>2. CASE RefuseEntry
    BY <1>4, <2>2 DEF RefuseEntry, Refuse, Stop, Loaded
  <2>3. CASE SeeFile \/ SeeDirectory \/ Enter \/ Change
    BY <1>4, <2>3 DEF SeeFile, SeeDirectory, Enter, Change, walk, Loaded
  <2>4. CASE EnterFails
    <3>1. PICK why \in {"TraversalLimitExceeded", "TreeChanged"} : Refuse(why)
      BY <2>4 DEF EnterFails
    <3> QED
      BY <1>4, <3>1 DEF Refuse, Stop, Loaded, Ok
  <2>5. CASE Leave
    BY <1>4, <2>5 DEF Leave, Refuse, Stop, Loaded, Ok
  <2>6. CASE Count
    BY <1>4, <2>6 DEF Count, Refuse, Stop, Loaded, Ok
  <2>7. CASE ReadFile \/ Finish
    BY <2>7 DEF ReadFile, Finish
  <2> QED
    BY <2>1, <2>2, <2>3, <2>4, <2>5, <2>6, <2>7 DEF Next, Step
<1> QED
  BY <1>1, <1>2, <1>3, <1>4 DEF DoneInv

-----------------------------------------------------------------------------
\* A refusal has its cause in the tree.
CauseInv == changed = {} /\ verdict # Ok => ~Exact

\* What is known of a load of a tree that nobody changes, up to its end.
QInv == SInv /\ StampInv /\ FreshInv /\ CountInv /\ WalkedInv /\ ThereInv /\ MarkedInv /\ ApartInv /\ DoneInv

\* What has been listed is there.
LEMMA CountedThere ==
  ASSUME CandidateTreeAssumption, BaseInv, FoundInv, WalkedInv, changed = {}
  PROVE  /\ Counted \subseteq Paths
         /\ pc = "list" => Under(Top.path, Listing(Top.dir)) \subseteq Paths
<1>1. ASSUME NEW p \in Known, NEW d \in Dirs, Resolve(tree, p) = d, NEW k \in DOMAIN Listing(d)
      PROVE  Append(p, Listing(d)[k]) \in Paths
  <2> DEFINE n == Listing(d)[k]
  <2>1. n \in NameSet /\ tree[d][n] # "absent"
    <3>1. Listing(d) \in Seq(NameSet) /\ tree[d][n] # "absent"
      BY <1>1, NamesListed DEF Listing
    <3> QED
      BY <3>1
  <2>2. p \in Seq(NameSet)
    BY PathsAre
  <2> HIDE DEF n
  <2>3. Resolve(tree, Append(p, n)) = IF Resolve(tree, p) \in Dirs THEN tree[Resolve(tree, p)][n] ELSE "absent"
    BY <2>1, <2>2, ResolveSteps
  <2>4. Resolve(tree, Append(p, n)) # "absent"
    BY <1>1, <2>1, <2>3
  <2>5. Append(p, n) \in Paths
    BY <2>1, <2>2, <2>4, PathsAre
  <2> QED
    BY <2>5 DEF n
<1>2. ASSUME NEW q \in Counted PROVE q \in Paths
  <2>1. PICK v \in visited : \E k \in DOMAIN v.names : q = Append(v.path, v.names[k])
    BY DEF Counted
  <2>2. v.path \in Known /\ v.names = Listing(v.dir) /\ v.dir \in Dirs /\ Resolve(tree, v.path) = v.dir
    BY AllLive DEF WalkedInv, BaseInv, StackInv, Inspected
  <2>3. \A k \in DOMAIN Listing(v.dir) : Append(v.path, Listing(v.dir)[k]) \in Paths
    BY <1>1, <2>2
  <2> QED
    BY <2>1, <2>2, <2>3
<1>3. ASSUME pc = "list" PROVE Under(Top.path, Listing(Top.dir)) \subseteq Paths
  <2>1. Len(open) \in DOMAIN open /\ Top = open[Len(open)] /\ Top \in Frames
    BY <1>3, StackFacts DEF BaseInv, WalkInv
  <2>2. Top.path \in Known /\ Top.dir \in Dirs /\ Resolve(tree, Top.path) = Top.dir
    BY <2>1, AllLive, FrameFacts DEF WalkedInv
  <2>3. \A k \in DOMAIN Listing(Top.dir) : Append(Top.path, Listing(Top.dir)[k]) \in Paths
    BY <1>1, <2>2
  <2> QED
    BY <2>3 DEF Under
<1> QED
  BY <1>2, <1>3

\* When the walk is over all that is in the tree is marked.
LEMMA AllMarked ==
  ASSUME CandidateTreeAssumption, SInv, WalkedInv, MarkedInv, changed = {}, verdict = Ok,
         Loaded \/ pc \in {"count", "read"}, NEW q \in Paths
  PROVE  /\ q \in logical /\ (Resolve(tree, q) = "file" => q \in observed) /\ q \in Counted
         /\ \/ Resolve(tree, q) = "file" /\ q \in Files
            \/ Resolve(tree, q) \in Dirs /\ q \in Directories
<1>1. BaseInv /\ FoundInv /\ SeenInv /\ open = <<>>
  BY DEF SInv, BaseInv, WalkInv
<1>2. PICK p \in Known, n \in NameSet : q = Append(p, n)
  BY <1>1, PathsAre
<1>3. p \in Seq(NameSet) /\ Resolve(tree, q) # "absent" /\ q \in Seq(NameSet)
  BY <1>1, PathsAre
<1>4. Resolve(tree, q) = IF Resolve(tree, p) \in Dirs THEN tree[Resolve(tree, p)][n] ELSE "absent"
  BY <1>2, <1>3, ResolveSteps
<1>5. Resolve(tree, p) \in Dirs /\ tree[Resolve(tree, p)][n] # "absent"
  BY <1>3, <1>4
<1>6. PICK v \in visited : v.path = p
  BY <1>1, <1>3, <1>5, AllLive, AllReached
<1>7. ~Pending(p, n)
  BY <1>1 DEF Pending
<1>8. Live(Append(v.path, n))
  BY <1>1, AllLive
<1>9. q \in logical /\ (Resolve(tree, q) = "file" => q \in observed)
  BY <1>2, <1>3, <1>6, <1>7 DEF MarkedInv
<1>10. \/ Resolve(tree, q) = "file" /\ q \in Files
       \/ Resolve(tree, q) \in Dirs /\ q \in Directories
  <2>1. Accounted(p, n)
    BY <1>1, <1>6, <1>8 DEF SeenInv
  <2> QED
    BY <1>2, <1>3, <1>7, <2>1 DEF Accounted
<1>11. q \in Counted
  <2>1. v.names = Listing(v.dir) /\ Resolve(tree, p) = v.dir
    BY <1>1, <1>6, AllLive DEF WalkedInv
  <2>2. PICK k \in DOMAIN v.names : v.names[k] = n
    BY <1>5, <2>1, NamesListed DEF Listing
  <2> QED
    BY <1>2, <1>3, <1>6, <2>2 DEF Counted
<1> QED
  BY <1>9, <1>10, <1>11

\* An entry that is refused is not one of a tree that is as declared.
LEMMA EntryCause ==
  ASSUME CandidateTreeAssumption, QInv, changed = {}, RefuseEntry
  PROVE  ~Exact
<1> SUFFICES ASSUME Exact PROVE FALSE
  OBVIOUS
<1>1. pc = "entry" /\ Top.left # <<>> /\ EntryRefusal # Ok /\ BaseInv /\ FoundInv
  BY DEF RefuseEntry, QInv, SInv
<1>2. Entry = Resolve(tree, Logical) /\ Entry # "absent" /\ Logical \in Paths
  BY <1>1, EntryThere DEF QInv
<1>3. /\ Logical \in Directories <=> Entry \in Dirs
      /\ Entry \notin Dirs => Logical \in Files /\ Entry = "file"
  BY <1>1, <1>2, ExactPaths
<1>4. \A p \in logical : Folded(p) = Folded(Logical) => p = Logical
  BY <1>2 DEF Exact, QInv, ThereInv
<1>5. Entry \notin {"absent", "symlink", "foreign", "other", "linked", "big"}
  BY <1>3 DEF CandidateTreeAssumption, NotDirs
<1> QED
  BY <1>1, <1>3, <1>4, <1>5, EntryRefusals

\* Nor is there a directory that cannot be entered.
LEMMA EnterCause ==
  ASSUME CandidateTreeAssumption, QInv, changed = {}, EnterFails
  PROVE  ~Exact
<1>1. pc = "enter" /\ BaseInv /\ FoundInv /\ Top.left # <<>> /\ Logical \in Directories
  BY DEF EnterFails, QInv, SInv, BaseInv, WalkInv
<1>2. Resolve(tree, Logical) \in Dirs
  <2>1. Entry = Resolve(tree, Logical)
    BY <1>1, EntryThere DEF QInv
  <2> QED
    BY <1>1, <2>1 DEF QInv, ThereInv
<1>3. Len(open) > MaxDepth /\ Len(Logical) = Len(open) /\ Len(open) \in Nat
  BY <1>1, <1>2, AtEntry, StackFacts DEF EnterFails, BaseInv
<1>4. PICK p \in Files : \E k \in 1 .. Len(p) - 1 : Logical = SubSeq(p, 1, k)
  BY <1>1 DEF Directories
<1>b. PICK n \in 1 .. Len(p) - 1 : Logical = SubSeq(p, 1, n)
  BY <1>4
<1>5. p \in Seq(NameSet) /\ Len(p) \in Nat /\ MaxDepth \in Nat /\ n \in Nat
  <2>1. p \in Seq(NameSet)
    BY <1>1, TargetPaths
  <2> QED
    BY <1>b, <2>1 DEF CandidateTreeAssumption
<1>6. Len(SubSeq(p, 1, n)) = n
  <2>1. \A i \in 1 .. n : p[i] \in NameSet
    BY <1>b, <1>5
  <2> QED
    BY <1>b, <1>5, <2>1, SubSeqProperties
<1>7. Len(p) > MaxDepth + 1
  <2>1. n > MaxDepth /\ n <= Len(p) - 1
    BY <1>3, <1>b, <1>6
  <2> QED
    BY <1>5, <2>1
<1> QED
  BY <1>7 DEF Exact, TooDeep

\* Nor one whose stamp differs from what it was opened with.
LEMMA LeaveCause ==
  ASSUME CandidateTreeAssumption, QInv, changed = {}, Leave
  PROVE  stamp[Top.dir] = Top.stamp
<1>1. Len(open) \in DOMAIN open /\ Top = open[Len(open)] /\ Top \in Frames /\ stamp \in [Dirs -> Nat]
  BY StackFacts DEF Leave, QInv, SInv, BaseInv, WalkInv, StackInv
<1>2. Top.dir \in Dirs /\ Top.stamp \in Nat /\ stamp[Top.dir] \in Nat
  BY <1>1, FrameFacts
<1>3. Top.stamp <= stamp[Top.dir] /\ stamp[Top.dir] <= 0
  BY <1>1, <1>2 DEF QInv, StampInv, WalkedInv
<1> QED
  BY <1>2, <1>3

\* Nor more entries than the limit allows.
LEMMA ListCause ==
  ASSUME CandidateTreeAssumption, QInv, changed = {}, pc = "list",
         entries + Len(Listing(Top.dir)) > MaxEntries
  PROVE  ~Exact
<1> DEFINE all == Counted \cup Under(Top.path, Listing(Top.dir))
<1>1. BaseInv /\ FoundInv /\ FreshInv /\ CountInv /\ WalkedInv
  BY DEF QInv, SInv
<1>2. IsFiniteSet(all) /\ Cardinality(all) = entries + Len(Listing(Top.dir))
  BY <1>1, ListingCounts
<1>3. all \subseteq Paths /\ IsFiniteSet(Paths)
  BY <1>1, CountedThere, PathsFinite
<1> HIDE DEF all
<1>4. Cardinality(all) <= Cardinality(Paths) /\ Cardinality(all) \in Nat /\ Cardinality(Paths) \in Nat
  BY <1>2, <1>3, FS_Subset, FS_CardinalityType
<1>5. MaxEntries \in Nat
  BY DEF CandidateTreeAssumption
<1>6. ~(Cardinality(Paths) <= MaxEntries)
  BY <1>2, <1>4, <1>5
<1> QED
  BY <1>6 DEF Exact

\* Nor is a declared file missing once all has been seen.
LEMMA CountCause ==
  ASSUME CandidateTreeAssumption, QInv, changed = {}, Exact, pc = "count"
  PROVE  Files \subseteq observed
<1> SUFFICES ASSUME NEW p \in Files PROVE p \in observed
  OBVIOUS
<1>1. p \in Paths /\ Resolve(tree, p) = "file"
  BY DEF Exact
<1>2. verdict = Ok
  BY DEF QInv, SInv, BaseInv, WalkInv
<1> QED
  BY <1>1, <1>2, AllMarked DEF QInv

LEMMA CauseKept ==
  ASSUME CandidateTreeAssumption, QInv, CauseInv, Next
  PROVE  CauseInv'
<1> SUFFICES ASSUME changed' = {}, verdict' # Ok PROVE ~Exact'
  BY DEF CauseInv
<1>1. Move /\ BaseInv
  BY NextMoves DEF QInv, SInv
<1>2. Kept /\ changed = {}
  BY <1>1, NoneElse
<1>3. Exact' <=> Exact
  BY <1>2, SamePaths DEF Kept
<1>4. verdict = Ok
  <2>1. pc # "done"
    BY DEF Next, Step, Start, List, RefuseEntry, SeeFile, SeeDirectory, Enter, EnterFails, Leave,
           Count, ReadFile, Finish, Change
  <2> QED
    BY <1>1, <2>1 DEF BaseInv, WalkInv
<1>5. CASE Start
  BY <1>3, <1>4, <1>5 DEF Start, Exact
<1>6. CASE List
  <2>1. pc = "list" /\ entries + Len(Listing(Top.dir)) > MaxEntries
    BY <1>4, <1>6 DEF List
  <2> QED
    BY <1>2, <1>3, <2>1, ListCause
<1>7. CASE RefuseEntry
  BY <1>2, <1>3, <1>7, EntryCause
<1>8. CASE EnterFails
  BY <1>2, <1>3, <1>8, EnterCause
<1>9. CASE Leave
  <2>1. stamp[Top.dir] = Top.stamp
    BY <1>2, <1>9, LeaveCause
  <2> QED
    BY <1>4, <1>9, <2>1 DEF Leave
<1>10. CASE Count
  <2>1. pc = "count" /\ ~(Files \subseteq observed)
    BY <1>4, <1>10 DEF Count
  <2> QED
    BY <1>2, <1>3, <2>1, CountCause
<1>11. CASE ReadFile
  <2>1. PICK p \in declared : Resolve(tree, p) # "file"
    BY <1>4, <1>11 DEF ReadFile
  <2> QED
    BY <1>3, <2>1 DEF Exact, Files
<1>12. CASE SeeFile \/ SeeDirectory \/ Enter \/ Finish \/ Change
  BY <1>4, <1>12 DEF SeeFile, SeeDirectory, Enter, Finish, Stop, Change, walk
<1> QED
  BY <1>5, <1>6, <1>7, <1>8, <1>9, <1>10, <1>11, <1>12 DEF Next, Step

\* What is below a path that leads somewhere leads through directories.
LEMMA WayOfDirectories ==
  ASSUME CandidateTreeAssumption, NEW t
  PROVE  \A q \in Seq(NameSet) : Resolve(t, q) # "absent" =>
           \A n \in 1 .. Len(q) - 1 : Resolve(t, SubSeq(q, 1, n)) \in Dirs
<1> DEFINE S == {q \in Seq(NameSet) : Resolve(t, q) # "absent" =>
                   \A n \in 1 .. Len(q) - 1 : Resolve(t, SubSeq(q, 1, n)) \in Dirs}
<1>1. <<>> \in S
  BY EmptySeq
<1>2. ASSUME NEW p \in Seq(NameSet), NEW m \in NameSet, p \in S  PROVE Append(p, m) \in S
  <2> DEFINE q == Append(p, m)
  <2>1. q \in Seq(NameSet) /\ Len(q) = Len(p) + 1 /\ Len(p) \in Nat /\ \A i \in 1 .. Len(p) : q[i] = p[i]
    BY AppendProperties
  <2> SUFFICES ASSUME Resolve(t, q) # "absent", NEW n \in 1 .. Len(q) - 1
               PROVE  Resolve(t, SubSeq(q, 1, n)) \in Dirs
    BY <2>1
  <2>2. Resolve(t, q) = IF Resolve(t, p) \in Dirs THEN t[Resolve(t, p)][m] ELSE "absent"
    BY ResolveSteps
  <2>3. Resolve(t, p) \in Dirs /\ Resolve(t, p) # "absent"
    BY <2>2 DEF CandidateTreeAssumption, NotDirs
  <2> HIDE DEF q
  <2>4. n \in 1 .. Len(p) /\ n \in Nat
    BY <2>1
  <2>5. SubSeq(q, 1, n) = SubSeq(p, 1, n)
    <3>1. SubSeq(q, 1, n) = [j \in 1 .. n |-> q[j]]
      <4>1. \A j \in 1 .. n : q[1 + j - 1] = q[j]
        BY <2>4
      <4> QED
        BY <2>1, <2>4, <4>1
    <3>2. SubSeq(p, 1, n) = [j \in 1 .. n |-> p[j]]
      <4>1. \A j \in 1 .. n : p[1 + j - 1] = p[j]
        BY <2>4
      <4> QED
        BY <2>4, <4>1
    <3>3. \A j \in 1 .. n : q[j] = p[j]
      BY <2>1, <2>4
    <3> QED
      BY <3>1, <3>2, <3>3
  <2>6. CASE n = Len(p)
    <3>1. SubSeq(p, 1, Len(p)) = p
      BY SubSeqFull
    <3> QED
      BY <2>3, <2>5, <2>6, <3>1
  <2>7. CASE n # Len(p)
    <3>1. n \in 1 .. Len(p) - 1
      BY <2>1, <2>4, <2>7
    <3>2. \A k \in 1 .. Len(p) - 1 : Resolve(t, SubSeq(p, 1, k)) \in Dirs
      BY <1>2, <2>3
    <3> QED
      BY <2>5, <3>1, <3>2
  <2> QED
    BY <2>6, <2>7
<1> HIDE DEF S
<1>3. Seq(NameSet) \subseteq S
  BY <1>1, <1>2, PathInduct
<1> QED
  BY <1>3 DEF S

\* A tree that is loaded is as declared.
LEMMA LoadedExact ==
  ASSUME CandidateTreeAssumption, QInv, changed = {}, Loaded,
         entries <= MaxEntries, observed \subseteq logical
  PROVE  Exact
<1>1. BaseInv /\ verdict = Ok /\ "file" \notin Dirs /\ "absent" \notin Dirs
  BY DEF QInv, SInv, Loaded, CandidateTreeAssumption, NotDirs
<1>2. \A q \in Paths :
        /\ q \in logical /\ (Resolve(tree, q) = "file" => q \in observed) /\ q \in Counted
        /\ \/ Resolve(tree, q) = "file" /\ q \in Files
           \/ Resolve(tree, q) \in Dirs /\ q \in Directories
  BY <1>1, AllMarked DEF QInv
<1>3. \A p \in Files : Resolve(tree, p) = "file" /\ p \in Paths
  <2>1. Files \subseteq observed /\ observed \subseteq logical /\ logical \subseteq Paths
    BY DEF QInv, DoneInv, ThereInv
  <2> QED
    BY <2>1 DEF QInv, ThereInv
<1>4. \A p \in Files : p \notin Directories
  <2> SUFFICES ASSUME NEW p \in Files, p \in Directories PROVE FALSE
    OBVIOUS
  <2>1. PICK r \in Files : \E k \in 1 .. Len(r) - 1 : p = SubSeq(r, 1, k)
    BY DEF Directories
  <2>2. PICK n \in 1 .. Len(r) - 1 : p = SubSeq(r, 1, n)
    BY <2>1
  <2>3. r \in Seq(NameSet) /\ Resolve(tree, r) # "absent"
    BY <1>1, <1>3, TargetPaths
  <2>4. Resolve(tree, SubSeq(r, 1, n)) \in Dirs
    BY <2>3, WayOfDirectories
  <2> QED
    BY <1>1, <1>3, <2>2, <2>4
<1>5. ~TooDeep
  BY DEF QInv, DoneInv
<1>6. Paths \ Directories = Files
  BY <1>2, <1>3, <1>4
<1>7. \A p \in Paths \cap Directories : Resolve(tree, p) \in Dirs
  BY <1>2, <1>4
<1>8. \A p, q \in Paths : Folded(p) = Folded(q) => p = q
  BY <1>2 DEF QInv, ApartInv
<1>9. Cardinality(Paths) <= MaxEntries
  <2>1. IsFiniteSet(Counted) /\ Cardinality(Counted) = entries /\ Paths \subseteq Counted
    BY <1>2 DEF QInv, CountInv
  <2>2. IsFiniteSet(Paths) /\ Cardinality(Paths) <= Cardinality(Counted)
    BY <2>1, FS_Subset
  <2>3. Cardinality(Paths) \in Nat /\ Cardinality(Counted) \in Nat /\ MaxEntries \in Nat
    BY <2>1, <2>2, FS_CardinalityType DEF CandidateTreeAssumption
  <2> QED
    BY <2>1, <2>2, <2>3
<1> QED
  BY <1>3, <1>5, <1>6, <1>7, <1>8, <1>9 DEF Exact

-----------------------------------------------------------------------------
(***************************************************************************)
(* The limits, and the theorems.                                           *)
(***************************************************************************)

LimitInv ==
  /\ entries \in Nat /\ entries <= MaxEntries /\ Len(open) <= MaxDepth + 1
  /\ observed \subseteq logical /\ read \subseteq declared
  /\ verdict \in Refusals \cup {Ok}

IInv == BaseInv /\ FoundInv /\ (verdict = Ok => SeenInv) /\ StampInv /\ ListedInv /\ ChainInv
        /\ FreshInv /\ StayInv /\ LimitInv
        /\ CountInv /\ WalkedInv /\ ThereInv /\ MarkedInv /\ ApartInv /\ DoneInv /\ CauseInv

LEMMA LimitKept ==
  ASSUME CandidateTreeAssumption, BaseInv, LimitInv, Next
  PROVE  LimitInv'
<1>1. Move
  BY NextMoves
<1>2. MaxDepth \in Nat /\ MaxEntries \in Nat
  BY DEF CandidateTreeAssumption
<1>3. entries' \in Nat /\ entries' <= MaxEntries
  <2>1. CASE List
    <3>1. Listing(Top.dir) \in Seq(NameSet)
      BY NamesListed DEF Listing
    <3>2. Len(Listing(Top.dir)) \in Nat
      BY <3>1
    <3>3. \/ entries' = entries
          \/ /\ entries' = entries + Len(Listing(Top.dir))
             /\ ~(entries + Len(Listing(Top.dir)) > MaxEntries)
      BY <2>1 DEF List, Refuse
    <3> QED
      BY <1>2, <3>2, <3>3 DEF LimitInv
  <2>2. CASE ~List
    <3>1. entries' = entries
      BY <2>2 DEF Next, Step, Start, RefuseEntry, SeeFile, SeeDirectory, Enter, EnterFails, Leave,
                  Count, ReadFile, Finish, Change, Refuse, walk
    <3> QED
      BY <3>1 DEF LimitInv
  <2> QED
    BY <2>1, <2>2
<1>4. Len(open') <= MaxDepth + 1
  <2>1. Len(open) <= MaxDepth + 1 /\ Len(open) \in Nat /\ Len(open') \in Nat
    BY <1>1, StackGrows DEF LimitInv
  <2>2. CASE Entered
    <3>1. Len(open') = Len(open) + 1 /\ Len(open) <= MaxDepth
      BY <2>2 DEF Entered
    <3> QED
      BY <1>2, <2>1, <3>1
  <2>3. CASE ~Entered
    <3>1. Len(open') = 1 \/ Len(open') = Len(open) - 1 \/ Len(open') = Len(open)
      BY <1>1, <2>3, StackGrows
    <3>2. \A a, b, d \in Nat :
            /\ a <= d + 1
            /\ b = 1 \/ b = a - 1 \/ b = a
            => b <= d + 1
      OBVIOUS
    <3> QED
      BY <1>2, <2>1, <3>1, <3>2
  <2> QED
    BY <2>2, <2>3
<1>5. observed' \subseteq logical' /\ read' \subseteq declared'
  <2>1. CASE SeeFile \/ SeeDirectory
    BY <2>1 DEF SeeFile, SeeDirectory, LimitInv
  <2>2. CASE ReadFile
    BY <2>2 DEF ReadFile, Refuse, LimitInv
  <2>3. CASE ~(SeeFile \/ SeeDirectory \/ ReadFile)
    <3>1. UNCHANGED <<observed, logical, read, declared>>
      BY <2>3 DEF Next, Step, Start, List, RefuseEntry, Enter, EnterFails, Leave,
                  Count, Finish, Change, Refuse, walk
    <3> QED
      BY <3>1 DEF LimitInv
  <2> QED
    BY <2>1, <2>2, <2>3
<1>6. verdict' \in Refusals \cup {Ok}
  <2>1. CASE Refused
    BY <2>1 DEF Refused
  <2>2. CASE ~Refused
    <3>1. verdict' = verdict
      BY <1>1, <2>2 DEF Move, RootOpened, Listed, FileSeen, DirectorySeen, Entered, Passed, WalkOver, EntryChanged
    <3> QED
      BY <3>1 DEF LimitInv
  <2> QED
    BY <2>1, <2>2
<1> QED
  BY <1>3, <1>4, <1>5, <1>6 DEF LimitInv

LEMMA InvStarts ==
  ASSUME CandidateTreeAssumption, Init
  PROVE  IInv
<1>1. /\ open = <<>> /\ visited = {} /\ pc = "start" /\ verdict = Ok /\ changes = 0 /\ entries = 0
      /\ stamp = [d \in Dirs |-> 0] /\ observed = {} /\ logical = {} /\ read = {}
  BY DEF Init
<1>2. BaseInv
  BY BaseStarts
<1>3. FoundInv /\ SeenInv /\ ListedInv /\ ChainInv /\ FreshInv /\ StayInv
  BY <1>1 DEF FoundInv, SeenInv, ListedInv, ChainInv, FreshInv, StayInv
<1>4. StampInv
  BY <1>1 DEF StampInv, CandidateTreeAssumption
<1>5. LimitInv
  BY <1>1 DEF LimitInv, CandidateTreeAssumption
<1>6. CountInv
  <2>1. Counted = {}
    BY <1>1 DEF Counted
  <2> QED
    BY <1>1, <2>1, FS_EmptySet DEF CountInv
<1>7. WalkedInv /\ ThereInv /\ MarkedInv /\ ApartInv /\ DoneInv /\ CauseInv
  BY <1>1 DEF WalkedInv, ThereInv, MarkedInv, ApartInv, DoneInv, CauseInv, Loaded
<1> QED
  BY <1>2, <1>3, <1>4, <1>5, <1>6, <1>7 DEF IInv

LEMMA InvKept ==
  ASSUME CandidateTreeAssumption, IInv, Next
  PROVE  IInv' /\ Move
<1>1. Move
  BY NextMoves DEF IInv
<1>2. BaseInv' /\ FoundInv'
  BY <1>1, BaseKept, FoundKept DEF IInv
<1>3. verdict' = Ok => SeenInv'
  BY <1>1, SeenKept DEF IInv, SInv
<1>4. StampInv' /\ ListedInv' /\ ChainInv' /\ StayInv'
  BY <1>1, StampKept, ListedKept, ChainKept, StayKept DEF IInv
<1>5. FreshInv'
  BY <1>1, FreshKept, FreshListed DEF IInv
<1>6. LimitInv' /\ CountInv' /\ WalkedInv'
  BY <1>1, LimitKept, CountKept, WalkedKept DEF IInv
<1>7. ThereInv' /\ MarkedInv' /\ ApartInv' /\ DoneInv'
  BY ThereKept, MarkedKept, ApartKept, DoneKept DEF IInv
<1>8. CauseInv'
  <2>1. QInv
    BY DEF IInv, QInv, SInv
  <2> QED
    BY <2>1, CauseKept DEF IInv
<1> QED
  BY <1>1, <1>2, <1>3, <1>4, <1>5, <1>6, <1>7, <1>8 DEF IInv

LEMMA InvAlways ==
  ASSUME CandidateTreeAssumption
  PROVE  Spec => []IInv
<1>1. Init => IInv
  BY InvStarts
<1>2. IInv /\ [Next]_vars => IInv'
  <2>1. IInv /\ UNCHANGED vars => IInv'
    <3> SUFFICES ASSUME IInv, UNCHANGED vars PROVE IInv'
      OBVIOUS
    <3>1. BaseInv'
      BY DEF vars, disk, walk, IInv, BaseInv, StackInv, WalkInv, Top, Logical, Directories, Files, Loaded
    <3>2. FoundInv'
      BY DEF vars, disk, walk, IInv, FoundInv, Live
    <3>3. verdict' = Ok => SeenInv'
      BY DEF vars, disk, walk, IInv, SeenInv, Live, Accounted, Pending, Reached, Top, Directories, Files
    <3>4. StampInv' /\ ListedInv' /\ ChainInv' /\ StayInv'
      BY DEF vars, disk, walk, IInv, StampInv, ListedInv, ChainInv, StayInv, Noted, Listing, Stands
    <3>5. FreshInv' /\ LimitInv'
      BY DEF vars, disk, walk, IInv, FreshInv, LimitInv, Top
    <3>6. CountInv' /\ ApartInv'
      BY DEF vars, disk, walk, IInv, CountInv, Counted, ApartInv, Folded
    <3>7. WalkedInv' /\ ThereInv' /\ CauseInv' /\ DoneInv'
      <4>1. UNCHANGED <<tree, declared, allowed>>
        BY DEF vars, disk, walk
      <4> QED
        BY <4>1, SamePaths
           DEF vars, disk, walk, IInv, WalkedInv, ThereInv, CauseInv, DoneInv, Listing, Entry, Logical, Top, Loaded
    <3>8. MarkedInv'
      BY DEF vars, disk, walk, IInv, MarkedInv, Pending
    <3> QED
      BY <3>1, <3>2, <3>3, <3>4, <3>5, <3>6, <3>7, <3>8 DEF IInv
  <2> QED
    BY <2>1, InvKept
<1> QED
  BY <1>1, <1>2, PTL DEF Spec

\* Whatever is in the tree from beginning to end of a load that succeeds, under a
\* directory that is declared, is declared as what it is: no file, directory or
\* link that the manifest does not name escapes the walk (inspect_directory),
\* whatever others do to the entries that are not on its way.
THEOREM NoStrangerEscapes ==
  ASSUME CandidateTreeAssumption
  PROVE  Spec => []StrangersAreSeen
<1>1. IInv => StrangersAreSeen
  BY StrangersSeen DEF IInv, SInv
<1> QED
  BY <1>1, InvAlways, PTL

\* A directory that passes has, when it is left, the very entries it was listed
\* with (inspect_directory), however many directories there are and whatever others
\* do meanwhile.
THEOREM ListedAtOneMoment ==
  ASSUME CandidateTreeAssumption
  PROVE  Spec => ListingIsOneMoment
<1>1. IInv /\ [Next]_vars =>
        [\A i \in DOMAIN open :
           i = Len(open) /\ open' = Pop =>
             \E v \in visited : v.path = Top.path /\ v.dir = Top.dir
                                /\ v.names = Listing(Top.dir)]_vars
  <2> SUFFICES ASSUME IInv, Next, NEW i \in DOMAIN open, i = Len(open), open' = Pop
               PROVE  \E v \in visited : v.path = Top.path /\ v.dir = Top.dir
                                         /\ v.names = Listing(Top.dir)
    OBVIOUS
  <2>1. Len(open) \in Nat \ {0} /\ Len(open') = Len(open) - 1
    <3>1. open \in Seq(Frames)
      BY DEF IInv, BaseInv, StackInv
    <3>2. open # <<>>
      OBVIOUS
    <3> QED
      BY <3>1, <3>2 DEF Pop
  <2>2. Move /\ BaseInv
    BY InvKept DEF IInv
  <2>3. Passed
    <3>1. Len(open') # Len(open) + 1 /\ Len(open') # Len(open) /\ Len(open) # 0
      BY <2>1
    <3> QED
      BY <2>2, <3>1, StackGrows
  <2>4. Noted(Top)
    BY <2>3 DEF IInv, ListedInv, Top, Passed
  <2> QED
    BY <2>3, <2>4 DEF Noted, Passed
<1> QED
  BY <1>1, InvAlways, PTL DEF Spec, ListingIsOneMoment

\* A path that goes on from another by one name.
LEMMA OneFurther ==
  ASSUME NEW p \in Seq(NameSet), NEW q \in Seq(NameSet),
         Len(q) = Len(p) + 1, SubSeq(q, 1, Len(p)) = p
  PROVE  q[Len(q)] \in NameSet /\ q = Append(p, q[Len(q)])
<1>1. Len(p) \in Nat /\ Len(q) \in 1 .. Len(q)
  OBVIOUS
<1>2. q # <<>>
  BY <1>1
<1>3. PICK s \in Seq(NameSet), n \in NameSet : q = Append(s, n)
  BY <1>2, SequenceEmptyOrAppend
<1>4. Len(q) = Len(s) + 1 /\ Len(s) \in Nat /\ q[Len(s) + 1] = n /\ \A i \in 1 .. Len(s) : q[i] = s[i]
  BY <1>3, AppendProperties
<1>5. Len(s) = Len(p)
  BY <1>1, <1>4
<1>6. \A i \in 1 .. Len(p) : p[i] = q[i]
  <2>1. \A i \in 1 .. Len(p) : q[i] \in NameSet
    BY <1>1
  <2>2. \A i \in 1 .. Len(p) : SubSeq(q, 1, Len(p))[i] = q[i]
    BY <1>1
  <2> QED
    BY <2>2
<1>7. s = p
  BY <1>4, <1>5, <1>6
<1> QED
  BY <1>3, <1>4, <1>5, <1>7

\* What was inspected in a directory is in it still when that one is left, unless a
\* directory further up has been changed (inspect_directory looks a directory up by
\* its whole path): nothing that was moved in or out passes for a part of the tree.
THEOREM StaysInPlace ==
  ASSUME CandidateTreeAssumption
  PROVE  Spec => DirectoriesStay
<1>1. IInv => (open # <<>> /\ open' = Pop /\ WayStands =>
        \A v \in visited : Len(v.path) = Len(Top.path) + 1
                           /\ SubSeq(v.path, 1, Len(Top.path)) = Top.path =>
          tree[Top.dir][v.path[Len(v.path)]] = v.dir)
  <2> SUFFICES ASSUME IInv, open # <<>>, WayStands, NEW v \in visited,
                      Len(v.path) = Len(Top.path) + 1, SubSeq(v.path, 1, Len(Top.path)) = Top.path
               PROVE  tree[Top.dir][v.path[Len(v.path)]] = v.dir
    OBVIOUS
  <2>1. /\ Len(open) \in DOMAIN open /\ DOMAIN open = 1 .. Len(open) /\ Len(open) \in Nat
        /\ Top = open[Len(open)] /\ Top \in Frames /\ BaseInv
    BY StackFacts DEF IInv, BaseInv
  <2>2. v.path \in Seq(NameSet) /\ Top.path \in Seq(NameSet)
    BY <2>1, PathFacts, FrameFacts
  <2> DEFINE n == v.path[Len(v.path)]
  <2>3. n \in NameSet /\ v.path = Append(Top.path, n)
    BY <2>2, OneFurther
  <2>4. Stands(Len(open))
    BY <2>1 DEF WayStands, Stands
  <2> HIDE DEF n
  <2>5. tree[Top.dir][n] = v.dir
    BY <2>1, <2>3, <2>4 DEF IInv, StayInv
  <2> QED
    BY <2>5 DEF n
<1> QED
  BY <1>1, InvAlways, PTL DEF Spec, DirectoriesStay

\* Every directory that passes was, as a whole and at one moment, a part of the
\* tree, within the limits (inspect_directory).
THEOREM WalkSteady ==
  ASSUME CandidateTreeAssumption
  PROVE  Spec => WalkIsSteady
<1>1. IInv => TypeOK
  <2> SUFFICES ASSUME IInv PROVE TypeOK
    OBVIOUS
  <2>1. stamp \in [Dirs -> 0 .. MaxChanges]
    <3>1. \A d \in Dirs : stamp[d] \in Nat /\ stamp[d] <= changes
      BY DEF IInv, BaseInv, StackInv, StampInv
    <3>2. changes \in 0 .. MaxChanges /\ MaxChanges \in Nat
      BY DEF IInv, StampInv, CandidateTreeAssumption
    <3>3. \A d \in Dirs : stamp[d] \in 0 .. MaxChanges
      BY <3>1, <3>2
    <3>4. stamp \in [Dirs -> Nat]
      BY DEF IInv, BaseInv, StackInv
    <3> QED
      BY <3>3, <3>4
  <2>2. tree \in [Dirs -> [NameSet -> Things]]
    BY DEF IInv, BaseInv, StackInv
  <2> QED
    BY <2>1, <2>2 DEF IInv, BaseInv, WalkInv, LimitInv, TypeOK
<1> QED
  BY <1>1, InvAlways, ListedAtOneMoment, StaysInPlace, PTL DEF WalkIsSteady

\* A load that nobody disturbs ends well exactly when the tree under the root is the
\* one the manifest declares, names that differ in case alone and the limits included
\* (load_candidate): it takes nothing else, and refuses nothing else.
THEOREM QuietExact ==
  ASSUME CandidateTreeAssumption
  PROVE  Spec => []QuietIsExact
<1>1. IInv => QuietIsExact
  <2> SUFFICES ASSUME IInv, pc = "done", changed = {} PROVE verdict = Ok <=> Exact
    BY DEF QuietIsExact
  <2>1. ASSUME verdict = Ok PROVE Exact
    <3>1. QInv /\ Loaded /\ entries <= MaxEntries /\ observed \subseteq logical
      BY <2>1 DEF IInv, QInv, SInv, LimitInv, Loaded
    <3> QED
      BY <3>1, LoadedExact
  <2> QED
    BY <2>1 DEF IInv, CauseInv
<1> QED
  BY <1>1, InvAlways, PTL

-----------------------------------------------------------------------------
(***************************************************************************)
(* StableRead, for files of any size, any limit, any set of inodes and     *)
(* initial disks, and any number of changes while the file is read.        *)
(***************************************************************************)

(***************************************************************************)
(* The invariant. It rests on the time stamps: as long as the open file    *)
(* has the stamp of its fstat, it has the data of its fstat, and what has  *)
(* been read of it is a part of that; once it has lost that stamp it never *)
(* has it again.                                                           *)
(***************************************************************************)

\* The steps at which the file is open, at which its metadata is known, at which
\* its path has been verified, and after the last block.
Holding  == {"fstat", "blocked", "target", "read", "restat", "relookup", "reroot"}
Examined == {"target", "read", "restat", "relookup", "reroot"}
Verified == {"read", "restat", "relookup", "reroot"}
Complete == {"relookup", "reroot"}

\* The open file is still the one that was examined.
Unstamped == files[fd].stamp = opened.stamp

\* The file has been at the path with this data, or the root is another by now.
Offered(data) == [inode |-> fd, data |-> data] \in offered \/ ~rootPinned

\* Stamps are of changes that have been made; what the path leads to is noted.
WorldInv ==
  /\ \A i \in Inodes : files[i].stamp <= fileChanges
  /\ File!Offer \subseteq offered

\* A file from elsewhere is open only past an exchanged root, unless it strayed.
HoldInv ==
  readPc \in Holding => fd \in Inodes /\ (fd = Elsewhere /\ ~strayed => ~rootPinned)

\* What was examined is what the file is, or the file has a later stamp.
ExamineInv ==
  readPc \in Examined =>
    /\ opened \in File!Inode
    /\ opened.stamp <= fileChanges
    /\ Unstamped => files[fd].data = opened.data

\* What has been read is a part of what was examined, or the later look fails.
ReadingInv ==
  /\ readPc \notin Verified \cup {"done"} => bytes = <<>>
  /\ readPc \in {"read", "restat"} /\ Unstamped =>
       /\ Len(bytes) <= Len(opened.data)
       /\ \A k \in 1 .. Len(bytes) : bytes[k] = opened.data[k]
       /\ readPc = "restat" => bytes = opened.data
       /\ policy = "candidate" => Offered(opened.data)

\* What has been read whole is what was examined, of a file of the path.
CompleteInv ==
  /\ readPc \in Verified => ~strayed
  /\ readPc \in Complete => bytes = opened.data /\ (policy = "candidate" => Offered(bytes))
  /\ readPc = "reroot" /\ rootPinned => \E o \in offered : o.inode = fd

\* Nothing is answered before the end.
AnswerInv == readPc # "done" => outcome = "none"

RInv ==
  /\ File!TypeOK /\ File!Bounded
  /\ WorldInv /\ HoldInv /\ ExamineInv /\ ReadingInv /\ CompleteInv /\ AnswerInv
  /\ File!ReadIsAtomic

-----------------------------------------------------------------------------
(***************************************************************************)
(* What others do.                                                         *)
(***************************************************************************)

\* All that matters of a change: a file is as it was or has the newest stamp, the
\* root does not come back, and what the path now leads to is noted.
WorldStep ==
  /\ UNCHANGED File!reader
  /\ readPc # "done" /\ fileChanges < MaxChanges /\ fileChanges' = fileChanges + 1
  /\ files' \in [Inodes -> File!Inode]
  /\ \A i \in Inodes : files'[i] = files[i] \/ files'[i].stamp = fileChanges + 1
  /\ entry' \in (Inodes \ {Elsewhere}) \cup {None}
  /\ rootPinned' \in BOOLEAN /\ parentReal' \in BOOLEAN
  /\ rootPinned' => rootPinned
  /\ offered' = offered \cup File!Offer'

\* A file whose blocks are written is a file with the newest stamp.
LEMMA Rewritten ==
  ASSUME files \in [Inodes -> File!Inode], fileChanges \in Nat, NEW i \in Inodes, NEW data \in Seq(Nat),
         files' = [files EXCEPT ![i].data = data, ![i].stamp = fileChanges + 1]
  PROVE  /\ files' \in [Inodes -> File!Inode]
         /\ \A j \in Inodes : files'[j] = files[j] \/ files'[j].stamp = fileChanges + 1
<1> DEFINE file == [files[i] EXCEPT !.data = data, !.stamp = fileChanges + 1]
<1>1. files' = [files EXCEPT ![i] = file]
  OBVIOUS
<1>2. files[i] \in File!Inode /\ fileChanges + 1 \in Nat
  OBVIOUS
<1>3. file \in File!Inode
  BY <1>2 DEF File!Inode
<1>4. file.stamp = fileChanges + 1
  BY <1>2 DEF File!Inode
<1> HIDE DEF file
<1> QED
  BY <1>1, <1>3, <1>4

\* So is one whose links are counted anew.
LEMMA Relinked ==
  ASSUME files \in [Inodes -> File!Inode], fileChanges \in Nat, NEW i \in Inodes, NEW links \in Nat,
         files' = [files EXCEPT ![i].links = links, ![i].stamp = fileChanges + 1]
  PROVE  /\ files' \in [Inodes -> File!Inode]
         /\ \A j \in Inodes : files'[j] = files[j] \/ files'[j].stamp = fileChanges + 1
<1> DEFINE file == [files[i] EXCEPT !.links = links, !.stamp = fileChanges + 1]
<1>1. files' = [files EXCEPT ![i] = file]
  OBVIOUS
<1>2. files[i] \in File!Inode /\ fileChanges + 1 \in Nat
  OBVIOUS
<1>3. file \in File!Inode
  BY <1>2 DEF File!Inode
<1>4. file.stamp = fileChanges + 1
  BY <1>2 DEF File!Inode
<1> HIDE DEF file
<1> QED
  BY <1>1, <1>3, <1>4

\* Every change by others is such a step.
LEMMA ChangesAreWorldSteps ==
  ASSUME File!ReadAssumption, File!TypeOK,
         File!WriteFile \/ File!LinkFile \/ File!ReplaceEntry \/ File!ReplaceParent \/ File!ReplaceRoot
  PROVE  WorldStep
<1> USE DEF File!TypeOK, File!Change, File!world
<1>1. fileChanges \in Nat /\ fileChanges + 1 \in Nat /\ 10 + fileChanges \in Nat
  BY DEF File!ReadAssumption
<1>2. CASE File!WriteFile
  <2>1. PICK i \in Inodes :
          \/ \E k \in DOMAIN files[i].data :
                File!Store(i, [files[i].data EXCEPT ![k] = 10 + fileChanges])
          \/ File!Store(i, Append(files[i].data, 10 + fileChanges))
          \/ files[i].data # <<>> /\ File!Store(i, <<>>)
    BY <1>2 DEF File!WriteFile
  <2>2. files[i].data \in Seq(Nat)
    BY DEF File!Inode
  <2>3. \A k \in DOMAIN files[i].data : [files[i].data EXCEPT ![k] = 10 + fileChanges] \in Seq(Nat)
    BY <1>1, <2>2, ExceptSeq, LenProperties
  <2>4. Append(files[i].data, 10 + fileChanges) \in Seq(Nat) /\ <<>> \in Seq(Nat)
    BY <1>1, <2>2
  <2>5. PICK data \in Seq(Nat) : File!Store(i, data)
    BY <2>1, <2>3, <2>4
  <2>6. /\ files' \in [Inodes -> File!Inode]
        /\ \A j \in Inodes : files'[j] = files[j] \/ files'[j].stamp = fileChanges + 1
    BY <1>1, <2>5, Rewritten DEF File!Store
  <2>7. /\ UNCHANGED entry /\ UNCHANGED rootPinned /\ UNCHANGED parentReal
        /\ UNCHANGED File!reader /\ File!Change
    BY <1>2 DEF File!WriteFile
  <2> QED
    BY <2>6, <2>7 DEF WorldStep
<1>3. CASE File!LinkFile
  <2>1. PICK i \in Inodes :
          files' = [files EXCEPT ![i].links = @ + 1, ![i].stamp = fileChanges + 1]
    BY <1>3 DEF File!LinkFile
  <2>2. files[i].links + 1 \in Nat
    BY DEF File!Inode
  <2>3. files' = [files EXCEPT ![i].links = files[i].links + 1, ![i].stamp = fileChanges + 1]
    BY <2>1
  <2>4. /\ files' \in [Inodes -> File!Inode]
        /\ \A j \in Inodes : files'[j] = files[j] \/ files'[j].stamp = fileChanges + 1
    BY <1>1, <2>2, <2>3, Relinked
  <2>5. /\ UNCHANGED entry /\ UNCHANGED rootPinned /\ UNCHANGED parentReal
        /\ UNCHANGED File!reader /\ File!Change
    BY <1>3 DEF File!LinkFile
  <2> QED
    BY <2>4, <2>5 DEF WorldStep
<1>4. CASE File!ReplaceEntry
  <2>1. /\ files' \in [Inodes -> File!Inode]
        /\ \A j \in Inodes : files'[j] = files[j] \/ files'[j].stamp = fileChanges + 1
    <3>1. CASE entry = None \/ files[entry].links = 0
      BY <1>4, <3>1 DEF File!ReplaceEntry
    <3>2. CASE ~(entry = None \/ files[entry].links = 0)
      <4>1. /\ entry \in Inodes
            /\ files[entry].links - 1 \in Nat
        BY <3>2 DEF File!Inode
      <4>2. files' = [files EXCEPT ![entry].links = files[entry].links - 1,
                                   ![entry].stamp = fileChanges + 1]
        BY <1>4, <3>2 DEF File!ReplaceEntry
      <4> QED
        BY <1>1, <4>1, <4>2, Relinked
    <3> QED
      BY <3>1, <3>2
  <2> QED
    BY <1>4, <2>1 DEF File!ReplaceEntry, WorldStep
<1>5. CASE File!ReplaceParent
  BY <1>5 DEF File!ReplaceParent, WorldStep
<1>6. CASE File!ReplaceRoot
  BY <1>6 DEF File!ReplaceRoot, WorldStep
<1> QED
  BY <1>2, <1>3, <1>4, <1>5, <1>6

\* A change keeps the invariant: a stamp that is the newest is none that a file
\* had when it was examined.
LEMMA WorldStepsKeep ==
  ASSUME File!ReadAssumption, RInv, WorldStep
  PROVE  RInv'
<1> USE DEF RInv, WorldStep, File!reader
<1>1. fileChanges \in Nat /\ fileChanges' \in 0 .. MaxChanges
  BY DEF File!ReadAssumption, File!TypeOK
<1>2. File!TypeOK'
  BY <1>1 DEF File!TypeOK
<1>3. WorldInv'
  <2>1. \A i \in Inodes : files[i].stamp \in Nat /\ files[i].stamp <= fileChanges
    BY DEF File!TypeOK, File!Inode, WorldInv
  <2>2. \A i \in Inodes : files'[i].stamp <= fileChanges'
    BY <1>1, <2>1
  <2> QED
    BY <2>2 DEF WorldInv
<1>4. HoldInv'
  BY DEF HoldInv
<1>5. readPc \in Examined /\ Unstamped' => files'[fd] = files[fd] /\ Unstamped
  <2> SUFFICES ASSUME readPc \in Examined, files'[fd].stamp = opened.stamp
               PROVE  files'[fd] = files[fd] /\ Unstamped
    BY DEF Unstamped
  <2>1. fd \in Inodes /\ opened.stamp \in Nat /\ opened.stamp <= fileChanges
    BY DEF HoldInv, Holding, ExamineInv, Examined, File!Inode
  <2>2. files'[fd].stamp # fileChanges + 1
    BY <1>1, <2>1
  <2> QED
    BY <2>1, <2>2 DEF Unstamped
<1>6. ExamineInv'
  <2>1. readPc \in Examined => opened \in File!Inode /\ opened.stamp \in Nat
    BY DEF ExamineInv, File!Inode
  <2>2. readPc \in Examined => opened.stamp <= fileChanges'
    BY <1>1, <2>1 DEF ExamineInv
  <2> QED
    BY <1>5, <2>2 DEF ExamineInv
<1>7. ASSUME NEW data PROVE Offered(data) => (Offered(data))'
  BY DEF Offered
<1>8. ReadingInv'
  <2>1. readPc \in {"read", "restat"} /\ Unstamped' => Unstamped
    BY <1>5 DEF Examined
  <2>2. Offered(opened.data) => (Offered(opened.data))'
    BY DEF Offered
  <2> QED
    BY <2>1, <2>2 DEF ReadingInv, Verified
<1>9. CompleteInv'
  <2>1. Offered(bytes) => (Offered(bytes))'
    BY DEF Offered
  <2> QED
    BY <2>1 DEF CompleteInv
<1>10. AnswerInv' /\ File!Bounded' /\ File!ReadIsAtomic'
  BY DEF AnswerInv, File!Bounded, File!ReadIsAtomic
<1> QED
  BY <1>2, <1>3, <1>4, <1>6, <1>8, <1>9, <1>10

-----------------------------------------------------------------------------
(***************************************************************************)
(* What the reader does, in a world that stands still for the step.        *)
(***************************************************************************)

\* An answer on metadata is "ok" or a refusal.
LEMMA MetadataVerdict ==
  ASSUME NEW i PROVE File!Metadata(i) \in {"ok"} \cup File!Refusals
BY DEF File!Metadata, File!Refusals

\* A step of the reader leaves the world as it is.
LEMMA WorldStands ==
  ASSUME WorldInv, UNCHANGED <<File!world, offered>>
  PROVE  WorldInv'
<1>1. UNCHANGED <<files, fileChanges>> /\ File!Offer' = File!Offer
  BY DEF File!world, File!Offer
<1> QED
  BY <1>1 DEF WorldInv

\* The checks before the file is opened.
LEMMA LooksKeep ==
  ASSUME File!ReadAssumption, RInv, UNCHANGED policy,
         File!VerifyRoot \/ File!VerifyParent \/ File!VerifyLast \/ File!Lookup
  PROVE  RInv'
<1>1. /\ UNCHANGED <<File!world, fd, opened, strayed, bytes, offered, policy>>
      /\ readPc \in {"root", "parent", "last", "lookup"}
  BY DEF File!VerifyRoot, File!VerifyParent, File!VerifyLast, File!Lookup
<1>2. /\ readPc' \in {"parent", "last", "lookup", "open", "done"}
      /\ outcome' \in {"none"} \cup File!Refusals
      /\ readPc' # "done" => outcome' = "none"
      /\ before' \in Inodes \cup {None}
  <2> USE DEF RInv, File!TypeOK, AnswerInv, File!Pass, File!Refuse, File!Check, File!Refusals
  <2>1. CASE File!VerifyRoot
    BY <2>1 DEF File!VerifyRoot
  <2>2. CASE File!VerifyParent
    BY <2>2 DEF File!VerifyParent
  <2>3. CASE File!VerifyLast
    BY <2>3 DEF File!VerifyLast
  <2>4. CASE File!Lookup
    <3>1. before' \in Inodes \cup {None}
      BY <2>4 DEF File!Lookup, File!Named, File!Followed, File!ReadAssumption
    <3>2. PICK answer \in {"ok"} \cup File!Refusals : File!Check(answer, "open")
      <4>1. \A i : (IF i = None THEN "Missing" ELSE File!Metadata(i)) \in {"ok"} \cup File!Refusals
        BY MetadataVerdict
      <4> QED
        BY <2>4, <4>1, Zenon DEF File!Lookup
    <3> QED
      BY <1>1, <3>1, <3>2
  <2> QED
    BY <2>1, <2>2, <2>3, <2>4
<1>3. File!TypeOK' /\ AnswerInv'
  BY <1>1, <1>2 DEF RInv, File!TypeOK, AnswerInv, File!world
<1>4. WorldInv'
  BY <1>1, WorldStands DEF RInv
<1>5. File!Bounded' /\ bytes' = <<>>
  BY <1>1 DEF RInv, File!Bounded, ReadingInv, Verified
<1>6. File!ReadIsAtomic'
  BY <1>2 DEF File!ReadIsAtomic, File!Refusals
<1> QED
  BY <1>2, <1>3, <1>4, <1>5, <1>6
     DEF RInv, HoldInv, Holding, ExamineInv, Examined, ReadingInv, Verified, CompleteInv, Complete

\* What the path leads to, if it leads anywhere, is a file.
LEMMA PathLeadsToFiles ==
  ASSUME File!ReadAssumption, File!TypeOK
  PROVE  File!Named \in Inodes \cup {None} /\ File!Followed \in Inodes \cup {None}
BY DEF File!ReadAssumption, File!TypeOK, File!Named, File!Followed

\* The open file is the one that the path stands for: the path has been seen to
\* lead to it with the data it has, unless the root is another.
LEMMA FileOfPath ==
  ASSUME File!ReadAssumption, RInv, readPc \in Holding, ~strayed, File!Named = fd
  PROVE  rootPinned => [inode |-> fd, data |-> files[fd].data] \in offered
<1> SUFFICES ASSUME rootPinned
             PROVE  [inode |-> fd, data |-> files[fd].data] \in offered
  OBVIOUS
<1>1. fd \in Inodes /\ fd # Elsewhere
  BY DEF RInv, HoldInv
<1>2. parentReal /\ entry = fd /\ entry # None
  BY <1>1 DEF File!Named, File!ReadAssumption
<1>3. [inode |-> fd, data |-> files[fd].data] \in File!Offer
  BY <1>2 DEF File!Offer
<1> QED
  BY <1>3 DEF RInv, WorldInv

\* Opening the file, which may wait at a FIFO, and the first fstat.
LEMMA OpensKeep ==
  ASSUME File!ReadAssumption, RInv, UNCHANGED policy, File!Open \/ File!WriterComes \/ File!Fstat
  PROVE  RInv'
<1> USE DEF RInv
<1>1. UNCHANGED <<File!world, before, bytes, offered, policy>> /\ readPc \in {"open", "blocked", "fstat"}
  BY DEF File!Open, File!WriterComes, File!Fstat
<1>2. WorldInv'
  BY <1>1, WorldStands
<1>3. File!Bounded' /\ bytes' = <<>>
  BY <1>1 DEF File!Bounded, ReadingInv, Verified
<1>4. outcome = "none"
  BY <1>1 DEF AnswerInv
<1>5. CASE File!Open
  <2>1. CASE readPc' = "done"
    <3>1. outcome' \in File!Refusals /\ UNCHANGED <<fd, opened, strayed>>
      BY <1>5, <2>1 DEF File!Open, File!Refuse, File!Pass, File!Refusals
    <3>2. File!TypeOK'
      BY <1>1, <2>1, <3>1 DEF File!TypeOK, File!world
    <3>3. File!ReadIsAtomic'
      BY <3>1 DEF File!ReadIsAtomic, File!Refusals
    <3> QED
      BY <1>2, <1>3, <2>1, <3>2, <3>3
         DEF HoldInv, Holding, ExamineInv, Examined, ReadingInv, Verified, CompleteInv, Complete,
             AnswerInv
  <2>2. CASE readPc' # "done"
    <3>1. /\ File!Followed # None /\ fd' = File!Followed
          /\ strayed' = (File!Followed = Elsewhere /\ rootPinned)
          /\ readPc' \in {"blocked", "fstat"} /\ UNCHANGED <<opened, outcome>>
      BY <1>5, <2>2 DEF File!Open, File!Refuse, File!Pass
    <3>2. fd' \in Inodes /\ strayed' \in BOOLEAN
      BY <3>1, PathLeadsToFiles
    <3>3. File!TypeOK'
      BY <1>1, <3>1, <3>2 DEF File!TypeOK, File!world
    <3>4. HoldInv'
      BY <1>1, <3>1, <3>2 DEF HoldInv, File!world
    <3>5. File!ReadIsAtomic' /\ AnswerInv'
      BY <1>4, <3>1 DEF File!ReadIsAtomic, AnswerInv
    <3> QED
      BY <1>2, <1>3, <3>1, <3>3, <3>4, <3>5
         DEF ExamineInv, Examined, ReadingInv, Verified, CompleteInv, Complete
  <2> QED
    BY <2>1, <2>2
<1>6. CASE File!WriterComes
  <2>1. readPc' = "fstat" /\ UNCHANGED <<fd, opened, strayed, outcome>> /\ readPc = "blocked"
    BY <1>6 DEF File!WriterComes, File!Pass
  <2>2. File!TypeOK'
    BY <1>1, <2>1 DEF File!TypeOK, File!world
  <2>3. HoldInv'
    BY <1>1, <2>1 DEF HoldInv, Holding, File!world
  <2>4. File!ReadIsAtomic' /\ AnswerInv'
    BY <1>4, <2>1 DEF File!ReadIsAtomic, AnswerInv
  <2> QED
    BY <1>2, <1>3, <2>1, <2>2, <2>3, <2>4
       DEF ExamineInv, Examined, ReadingInv, Verified, CompleteInv, Complete
<1>7. CASE File!Fstat
  <2>1. UNCHANGED <<fd, strayed>> /\ opened' = files[fd] /\ fd \in Inodes /\ readPc = "fstat"
    BY <1>7 DEF File!Fstat, HoldInv, Holding
  <2>2. /\ readPc' \in {"target", "done"}
        /\ outcome' \in {"none"} \cup File!Refusals
        /\ readPc' # "done" => outcome' = "none"
    <3>1. PICK answer \in {"ok"} \cup File!Refusals : File!Check(answer, "target")
      BY <1>7, MetadataVerdict DEF File!Fstat, File!Refusals
    <3> QED
      BY <1>4, <3>1 DEF File!Check, File!Pass, File!Refuse
  <2>3. File!TypeOK'
    BY <1>1, <2>1, <2>2 DEF File!TypeOK, File!world
  <2>4. HoldInv'
    BY <1>1, <2>1 DEF HoldInv, Holding, File!world
  <2>5. ExamineInv'
    <3>1. UNCHANGED <<files, fileChanges>>
      BY <1>1 DEF File!world
    <3>2. files[fd] \in File!Inode /\ files[fd].stamp <= fileChanges
      BY <2>1 DEF File!TypeOK, WorldInv
    <3> QED
      BY <2>1, <3>1, <3>2 DEF ExamineInv
  <2>6. File!ReadIsAtomic' /\ AnswerInv'
    BY <2>2 DEF File!ReadIsAtomic, AnswerInv, File!Refusals
  <2> QED
    BY <1>2, <1>3, <2>2, <2>3, <2>4, <2>5, <2>6
       DEF ReadingInv, Verified, CompleteInv, Complete
<1> QED
  BY <1>5, <1>6, <1>7

\* The path of the open file.
LEMMA TargetKeeps ==
  ASSUME File!ReadAssumption, RInv, UNCHANGED policy, File!VerifyTarget
  PROVE  RInv'
<1> USE DEF RInv
<1>1. UNCHANGED <<File!world, before, fd, opened, strayed, bytes, offered, policy>> /\ readPc = "target"
  BY DEF File!VerifyTarget
<1>2. \/ readPc' = "read" /\ outcome' = "none" /\ File!AtTarget
      \/ readPc' = "done" /\ outcome' = "RootEscape"
  BY DEF File!VerifyTarget, File!Pass, File!Refuse, AnswerInv
<1>3. File!TypeOK'
  BY <1>1, <1>2 DEF File!TypeOK, File!Refusals, File!world
<1>4. WorldInv'
  BY <1>1, WorldStands
<1>5. File!Bounded' /\ bytes = <<>> /\ bytes' = <<>>
  BY <1>1 DEF File!Bounded, ReadingInv, Verified
<1>6. HoldInv' /\ ExamineInv'
  BY <1>1, <1>2 DEF HoldInv, Holding, ExamineInv, Examined, Unstamped, File!world
<1>7. File!ReadIsAtomic' /\ AnswerInv'
  BY <1>2 DEF File!ReadIsAtomic, AnswerInv
<1>8. ReadingInv'
  <2> SUFFICES ASSUME readPc' = "read", policy = "candidate", Unstamped
               PROVE  rootPinned => [inode |-> fd, data |-> opened.data] \in offered
    <3>1. Len(bytes) <= Len(opened.data)
      <4>1. opened.data \in Seq(Nat)
        BY <1>1 DEF ExamineInv, Examined, File!Inode
      <4> QED
        BY <1>5, <4>1
    <3>2. \A k \in 1 .. Len(bytes) : bytes[k] = opened.data[k]
      BY <1>5
    <3>3. UNCHANGED <<files, rootPinned>>
      BY <1>1 DEF File!world
    <3> QED
      BY <1>1, <1>2, <1>5, <3>1, <3>2, <3>3 DEF ReadingInv, Verified, Offered, Unstamped
  <2>1. ~strayed /\ File!Named = fd
    BY <1>2 DEF File!AtTarget
  <2>2. rootPinned => [inode |-> fd, data |-> files[fd].data] \in offered
    BY <1>1, <2>1, FileOfPath DEF Holding
  <2>3. files[fd].data = opened.data
    BY <1>1 DEF ExamineInv, Examined
  <2> QED
    BY <2>2, <2>3
<1>9. CompleteInv'
  BY <1>1, <1>2 DEF CompleteInv, Verified, Complete, File!AtTarget
<1> QED
  BY <1>3, <1>4, <1>5, <1>6, <1>7, <1>8, <1>9

\* A block more, or the end of the file.
LEMMA ReadKeeps ==
  ASSUME File!ReadAssumption, RInv, UNCHANGED policy, File!Read
  PROVE  RInv'
<1> USE DEF RInv
<1>1. UNCHANGED <<File!world, before, fd, opened, strayed, offered, policy>> /\ readPc = "read"
  BY DEF File!Read
<1>2. UNCHANGED <<files, fileChanges, rootPinned>>
  BY <1>1 DEF File!world
<1>3. /\ bytes \in Seq(Nat) /\ Len(bytes) \in Nat /\ Limit \in Nat
      /\ fd \in Inodes /\ files[fd].data \in Seq(Nat) /\ Len(files[fd].data) \in Nat
      /\ opened.data \in Seq(Nat) /\ Len(opened.data) \in Nat
  <2>1. fd \in Inodes
    BY <1>1 DEF HoldInv, Holding
  <2>2. opened.data \in Seq(Nat) /\ files[fd].data \in Seq(Nat)
    BY <1>1, <2>1 DEF File!TypeOK, File!Inode, ExamineInv, Examined
  <2> QED
    BY <2>1, <2>2 DEF File!TypeOK, File!ReadAssumption
<1>4. WorldInv' /\ outcome = "none"
  BY <1>1, WorldStands DEF AnswerInv
<1>5. Unstamped =>
        /\ files[fd].data = opened.data
        /\ Len(bytes) <= Len(opened.data)
        /\ \A k \in 1 .. Len(bytes) : bytes[k] = opened.data[k]
        /\ policy = "candidate" => Offered(opened.data)
  BY <1>1 DEF ExamineInv, Examined, ReadingInv
<1>6. Unstamped' <=> Unstamped
  BY <1>1, <1>2 DEF Unstamped
<1>7. Offered(opened.data) => Offered(opened.data)'
  BY <1>1, <1>2 DEF Offered
<1>8. CASE File!More
  <2> DEFINE block == files[fd].data[Len(bytes) + 1]
  <2>1. bytes' = Append(bytes, block) /\ readPc' = "read" /\ outcome' = "none"
    BY <1>1, <1>4, <1>8 DEF File!Read
  <2>2. Len(bytes) + 1 <= Len(files[fd].data) /\ Len(bytes) + 1 <= Limit + 1
    BY <1>3, <1>8 DEF File!More
  <2>3. block \in Nat
    BY <1>3, <2>2, ElementOfSeq
  <2>4. bytes' \in Seq(Nat) /\ Len(bytes') = Len(bytes) + 1
    BY <1>3, <2>1, <2>3
  <2>5. File!TypeOK'
    BY <1>1, <2>1, <2>4 DEF File!TypeOK, File!world
  <2>6. File!Bounded'
    BY <2>2, <2>4 DEF File!Bounded
  <2>7. HoldInv' /\ ExamineInv'
    BY <1>1, <1>2, <2>1 DEF HoldInv, Holding, ExamineInv, Examined, Unstamped
  <2>8. ReadingInv'
    <3>1. ASSUME Unstamped
          PROVE  /\ Len(bytes') <= Len(opened.data)
                 /\ \A k \in 1 .. Len(bytes') : bytes'[k] = opened.data[k]
      <4>1. Len(bytes') <= Len(opened.data)
        BY <1>5, <2>2, <2>4, <3>1
      <4>2. \A k \in 1 .. Len(bytes') : bytes'[k] = opened.data[k]
        <5> SUFFICES ASSUME NEW k \in 1 .. Len(bytes') PROVE bytes'[k] = opened.data[k]
          OBVIOUS
        <5>1. CASE k = Len(bytes) + 1
          <6>1. bytes'[k] = block
            BY <1>3, <2>1, <2>3, <5>1
          <6> QED
            BY <1>5, <3>1, <5>1, <6>1
        <5>2. CASE k # Len(bytes) + 1
          <6>1. k \in 1 .. Len(bytes)
            BY <1>3, <2>4, <5>2
          <6>2. bytes'[k] = bytes[k]
            BY <1>3, <2>1, <2>3, <6>1
          <6> QED
            BY <1>5, <3>1, <6>1, <6>2
        <5> QED
          BY <5>1, <5>2
      <4> QED
        BY <4>1, <4>2
    <3> QED
      BY <1>1, <1>5, <1>6, <1>7, <2>1, <3>1 DEF ReadingInv, Verified
  <2>9. CompleteInv' /\ AnswerInv' /\ File!ReadIsAtomic'
    BY <1>1, <2>1 DEF CompleteInv, Verified, Complete, AnswerInv, File!ReadIsAtomic
  <2> QED
    BY <1>4, <2>5, <2>6, <2>7, <2>8, <2>9
<1>9. CASE ~File!More
  <2>1. /\ bytes' = bytes
        /\ \/ readPc' = "restat" /\ outcome' = "none" /\ Len(bytes) <= Limit
           \/ readPc' = "done" /\ outcome' = "TooLarge"
    BY <1>3, <1>4, <1>9 DEF File!Read, File!Check, File!Pass, File!Refuse
  <2>2. File!TypeOK' /\ File!Bounded'
    BY <1>1, <2>1 DEF File!TypeOK, File!Bounded, File!Refusals, File!world
  <2>3. HoldInv' /\ ExamineInv'
    BY <1>1, <1>2, <2>1 DEF HoldInv, Holding, ExamineInv, Examined, Unstamped
  <2>4. Unstamped /\ readPc' = "restat" => bytes = opened.data
    <3> SUFFICES ASSUME Unstamped, readPc' = "restat" PROVE bytes = opened.data
      OBVIOUS
    <3>1. Len(bytes) <= Limit /\ ~(Len(bytes) < Len(opened.data) /\ Len(bytes) < Limit + 1)
      BY <1>5, <1>9, <2>1 DEF File!More
    <3>2. Len(bytes) = Len(opened.data)
      BY <1>3, <1>5, <3>1
    <3> QED
      BY <1>3, <1>5, <3>2, SeqEqual
  <2>5. ReadingInv'
    BY <1>1, <1>5, <1>6, <1>7, <2>1, <2>4 DEF ReadingInv, Verified
  <2>6. CompleteInv' /\ AnswerInv' /\ File!ReadIsAtomic'
    BY <1>1, <2>1 DEF CompleteInv, Verified, Complete, AnswerInv, File!ReadIsAtomic
  <2> QED
    BY <1>4, <2>2, <2>3, <2>5, <2>6
<1> QED
  BY <1>8, <1>9

\* The looks after the last block. The first of them admits only a file that has
\* not changed since its fstat, the second only one that is at the path.
LEMMA LaterLooksKeep ==
  ASSUME File!ReadAssumption, RInv, UNCHANGED policy, File!Restat \/ File!Relookup \/ File!Reroot
  PROVE  RInv'
<1> USE DEF RInv
<1>1. /\ UNCHANGED <<File!world, before, fd, opened, strayed, bytes, offered, policy>>
      /\ readPc \in {"restat", "relookup", "reroot"}
  BY DEF File!Restat, File!Relookup, File!Reroot
<1>2. UNCHANGED <<files, fileChanges, rootPinned>>
  BY <1>1 DEF File!world
<1>3. WorldInv' /\ File!Bounded' /\ outcome = "none" /\ ~strayed
  BY <1>1, WorldStands DEF File!Bounded, AnswerInv, CompleteInv, Verified
<1>4. HoldInv' /\ ExamineInv' /\ readPc' \in {"relookup", "reroot", "done"}
  <2>1. readPc' \in {"relookup", "reroot", "done"}
    BY DEF File!Restat, File!Relookup, File!Reroot, File!Pass, File!Refuse, File!Check
  <2> QED
    BY <1>1, <1>2, <2>1 DEF HoldInv, Holding, ExamineInv, Examined, Unstamped
<1>5. ReadingInv'
  BY <1>4 DEF ReadingInv, Verified
<1>6. Offered(bytes) => Offered(bytes)'
  BY <1>1, <1>2 DEF Offered
<1>7. CASE File!Restat
  <2>1. \/ readPc' = "relookup" /\ outcome' = "none" /\ File!SameSnapshot
        \/ readPc' = "done" /\ outcome' = "Changed"
    BY <1>3, <1>7 DEF File!Restat, File!Pass, File!Refuse
  <2>2. File!TypeOK'
    BY <1>1, <2>1 DEF File!TypeOK, File!Refusals, File!world
  <2>3. readPc' = "relookup" => bytes = opened.data /\ (policy = "candidate" => Offered(bytes))
    BY <1>7, <2>1 DEF File!SameSnapshot, Unstamped, ReadingInv, File!Restat
  <2>4. CompleteInv'
    BY <1>1, <1>3, <1>6, <2>1, <2>3 DEF CompleteInv, Verified, Complete
  <2> QED
    BY <1>3, <1>4, <1>5, <2>1, <2>2, <2>4 DEF AnswerInv, File!ReadIsAtomic
<1>8. CASE File!Relookup
  <2>1. \/ readPc' = "reroot" /\ outcome' = "none" /\ File!RelookupVerdict = "ok"
        \/ readPc' = "done" /\ outcome' \in File!Refusals
    <3>1. File!RelookupVerdict \in {"ok"} \cup File!Refusals
      BY MetadataVerdict DEF File!RelookupVerdict, File!Refusals
    <3> QED
      BY <1>3, <1>8, <3>1 DEF File!Relookup, File!Check, File!Pass, File!Refuse
  <2>2. File!TypeOK'
    BY <1>1, <2>1 DEF File!TypeOK, File!world
  <2>3. bytes = opened.data /\ (policy = "candidate" => Offered(bytes))
    BY <1>8 DEF File!Relookup, CompleteInv, Complete
  <2>4. File!RelookupVerdict = "ok" => File!Named = fd
    BY DEF File!RelookupVerdict
  <2>5. File!RelookupVerdict = "ok" /\ rootPinned => \E o \in offered : o.inode = fd
    BY <1>1, <1>3, <2>4, FileOfPath DEF Holding
  <2>6. CompleteInv'
    BY <1>1, <1>2, <1>3, <1>6, <2>1, <2>3, <2>5 DEF CompleteInv, Verified, Complete
  <2> QED
    BY <1>3, <1>4, <1>5, <2>1, <2>2, <2>6 DEF AnswerInv, File!ReadIsAtomic, File!Refusals
<1>9. CASE File!Reroot
  <2>1. readPc' = "done" /\ outcome' = (IF rootPinned THEN "ok" ELSE "RootChanged") /\ readPc = "reroot"
    BY <1>9 DEF File!Reroot, File!Refuse
  <2>2. File!TypeOK'
    BY <1>1, <2>1 DEF File!TypeOK, File!Refusals, File!world
  <2>3. rootPinned => /\ bytes = opened.data
                      /\ \E o \in offered : o.inode = fd
                      /\ policy = "candidate" => [inode |-> fd, data |-> bytes] \in offered
    BY <2>1 DEF CompleteInv, Complete, Offered
  <2>4. rootPinned => \E o \in offered : o.inode = fd /\ (policy = "candidate" => o.data = bytes)
    <3>1. [inode |-> fd, data |-> bytes].inode = fd /\ [inode |-> fd, data |-> bytes].data = bytes
      OBVIOUS
    <3> QED
      BY <2>3, <3>1
  <2>5. File!ReadIsAtomic'
    BY <1>1, <2>1, <2>3, <2>4 DEF File!ReadIsAtomic
  <2>6. CompleteInv' /\ AnswerInv'
    BY <2>1 DEF CompleteInv, Verified, Complete, AnswerInv
  <2> QED
    BY <1>3, <1>4, <1>5, <2>2, <2>5, <2>6
<1> QED
  BY <1>7, <1>8, <1>9

-----------------------------------------------------------------------------
\* The invariant holds at the start, when nothing has changed yet ...
LEMMA InitEstablishes ==
  ASSUME File!ReadAssumption, File!DiskAssumption, File!Init
  PROVE  RInv
<1> USE DEF File!Init
<1>1. files \in [Inodes -> File!Inode] /\ \A i \in Inodes : files[i].stamp = 0
  BY DEF File!DiskAssumption
<1>2. File!TypeOK
  <2>1. fileChanges \in 0 .. MaxChanges /\ bytes \in Seq(Nat)
    BY DEF File!ReadAssumption
  <2>2. {before, fd} \subseteq Inodes \cup {None}
    OBVIOUS
  <2> QED
    BY <1>1, <2>1, <2>2 DEF File!TypeOK
<1>3. File!Bounded
  BY DEF File!Bounded, File!ReadAssumption
<1>4. WorldInv
  BY <1>1 DEF WorldInv
<1> QED
  BY <1>2, <1>3, <1>4
     DEF RInv, HoldInv, Holding, ExamineInv, Examined, ReadingInv, Verified, CompleteInv, Complete,
         AnswerInv, File!ReadIsAtomic

\* ... and at every later moment, whoever moves.
LEMMA StepsKeep ==
  ASSUME File!ReadAssumption, RInv, [File!Next]_(File!vars)
  PROVE  RInv'
<1>1. CASE File!Reads
  BY <1>1, LooksKeep, OpensKeep, TargetKeeps, ReadKeeps, LaterLooksKeep DEF File!Reads
<1>2. CASE File!WriterComes
  BY <1>2, OpensKeep DEF File!WriterComes
<1>3. CASE File!WriteFile \/ File!LinkFile \/ File!ReplaceEntry \/ File!ReplaceParent \/ File!ReplaceRoot
  BY <1>3, ChangesAreWorldSteps, WorldStepsKeep DEF RInv
<1>4. CASE UNCHANGED File!vars
  <2> USE <1>4 DEF RInv, File!vars, File!world, File!reader
  <2>1. File!TypeOK' /\ File!Bounded'
    BY DEF File!TypeOK, File!Bounded
  <2>2. WorldInv'
    BY WorldStands
  <2>3. HoldInv' /\ AnswerInv'
    BY DEF HoldInv, AnswerInv
  <2>4. ExamineInv'
    BY DEF ExamineInv, Unstamped
  <2>5. ReadingInv' /\ CompleteInv'
    BY DEF ReadingInv, CompleteInv, Unstamped, Offered
  <2>6. File!ReadIsAtomic'
    BY DEF File!ReadIsAtomic
  <2> QED
    BY <2>1, <2>2, <2>3, <2>4, <2>5, <2>6
<1> QED
  BY <1>1, <1>2, <1>3, <1>4 DEF File!Next, File!Others

(***************************************************************************)
(* When nobody interferes. Each step has then seen what every other step   *)
(* sees, so that only what the file is decides.                            *)
(***************************************************************************)

\* The file is at the path, and one that is to be returned.
Readable ==
  /\ rootPinned /\ parentReal /\ entry # None
  /\ files[entry].kind = "file" /\ files[entry].links = 1 /\ files[entry].sameDevice
  /\ Len(files[entry].data) <= Limit

\* What another file, or none, is refused for.
Faults == File!Refusals \ {"Changed", "RootEscape", "OpenFailed"}

QuietInv ==
  fileChanges = 0 =>
    /\ readPc \notin {"root", "done"} => rootPinned
    /\ readPc \notin {"root", "parent", "done"} => parentReal
    /\ readPc = "lookup" /\ policy = "pack" => entry # None /\ files[entry].kind # "symlink"
    /\ readPc \in {"open", "blocked"} \cup Holding =>
         before = entry /\ File!Metadata(entry) = "ok" /\ entry # None
    /\ readPc \in Holding => fd = entry /\ ~strayed
    /\ readPc # "blocked"
    /\ readPc \in Examined => opened = files[entry]
    /\ readPc \in {"restat", "relookup", "reroot"} => bytes = opened.data /\ Len(bytes) <= Limit
    /\ File!QuietIsExact

\* What is refused of metadata is a fault of the file.
LEMMA MetadataIsOk ==
  ASSUME NEW i
  PROVE  /\ File!Metadata(i) = "ok" =>
              /\ files[i].kind = "file" /\ files[i].links = 1 /\ files[i].sameDevice
              /\ policy = "candidate" => ~(Len(files[i].data) > Limit)
         /\ File!Metadata(i) # "ok" =>
              /\ File!Metadata(i) \in Faults
              /\ ~(files[i].kind = "file" /\ files[i].links = 1 /\ files[i].sameDevice
                   /\ ~(Len(files[i].data) > Limit))
BY DEF File!Metadata, Faults, File!Refusals

\* The world stands still, and the read ends as it should.
LEMMA EndsExactly ==
  ASSUME UNCHANGED <<File!world, offered>>, readPc' = "done",
         fileChanges = 0 => \/ Readable /\ outcome' = "ok" /\ bytes' = files[entry].data
                            \/ ~Readable /\ outcome' \in Faults
  PROVE  QuietInv'
<1>1. /\ files' = files /\ entry' = entry /\ rootPinned' = rootPinned /\ parentReal' = parentReal
      /\ fileChanges' = fileChanges
  BY DEF File!world
<1>2. File!QuietIsExact'
  BY <1>1 DEF File!QuietIsExact, Readable, Faults
<1> QED
  BY <1>2 DEF QuietInv, Holding, Examined

\* It goes on: so far nothing has been said.
LEMMA GoesOnExactly ==
  ASSUME readPc' # "done"
  PROVE  File!QuietIsExact'
BY DEF File!QuietIsExact

\* The checks before the file is opened.
LEMMA QuietLooks ==
  ASSUME File!ReadAssumption, RInv, QuietInv, UNCHANGED policy,
         File!VerifyRoot \/ File!VerifyParent \/ File!VerifyLast \/ File!Lookup
  PROVE  QuietInv'
<1>1. /\ UNCHANGED <<File!world, fd, opened, strayed, bytes, offered, policy>>
      /\ readPc \in {"root", "parent", "last", "lookup"}
  BY DEF File!VerifyRoot, File!VerifyParent, File!VerifyLast, File!Lookup
<1>2. /\ files' = files /\ entry' = entry /\ rootPinned' = rootPinned /\ parentReal' = parentReal
      /\ fileChanges' = fileChanges /\ policy' = policy
  BY <1>1 DEF File!world
<1>3. /\ entry \in (Inodes \ {Elsewhere}) \cup {None} /\ Elsewhere # None
      /\ policy \in {"candidate", "pack"}
      /\ \A i \in Inodes : Len(files[i].data) \in Nat /\ Limit \in Nat
  BY DEF RInv, File!TypeOK, File!ReadAssumption, File!Inode
<1>4. CASE fileChanges # 0
  BY <1>2, <1>4 DEF QuietInv
<1>5. CASE File!VerifyRoot /\ fileChanges = 0
  <2>1. CASE rootPinned
    <3>1. readPc' = "parent"
      BY <1>5, <2>1 DEF File!VerifyRoot, File!Pass
    <3> QED
      BY <1>2, <2>1, <3>1, GoesOnExactly DEF QuietInv, Holding, Examined
  <2>2. CASE ~rootPinned
    <3>1. readPc' = "done" /\ outcome' \in Faults
      BY <1>5, <2>2 DEF File!VerifyRoot, File!Refuse, Faults, File!Refusals
    <3> QED
      BY <1>1, <2>2, <3>1, EndsExactly DEF Readable
  <2> QED
    BY <2>1, <2>2
<1>6. CASE File!VerifyParent /\ fileChanges = 0
  <2>0. rootPinned
    BY <1>6 DEF QuietInv, File!VerifyParent
  <2>1. CASE parentReal
    <3>1. readPc' \in {"last", "lookup"} /\ (readPc' = "lookup" => policy # "pack")
      BY <1>6, <2>1 DEF File!VerifyParent, File!Pass
    <3> QED
      BY <1>2, <2>0, <2>1, <3>1, GoesOnExactly DEF QuietInv, Holding, Examined
  <2>2. CASE ~parentReal
    <3>1. readPc' = "done" /\ outcome' \in Faults
      BY <1>6, <2>0, <2>2 DEF File!VerifyParent, File!Refuse, Faults, File!Refusals
    <3> QED
      BY <1>1, <2>2, <3>1, EndsExactly DEF Readable
  <2> QED
    BY <2>1, <2>2
<1>7. CASE File!VerifyLast /\ fileChanges = 0
  <2>0. rootPinned /\ parentReal /\ File!Named = entry
    BY <1>7 DEF QuietInv, File!VerifyLast, File!Named
  <2>1. CASE entry # None /\ files[entry].kind # "symlink" /\ files[entry].sameDevice
    <3>1. readPc' = "lookup"
      BY <1>7, <2>0, <2>1 DEF File!VerifyLast, File!Check, File!Pass
    <3> QED
      BY <1>2, <2>0, <2>1, <3>1, GoesOnExactly DEF QuietInv, Holding, Examined
  <2>2. CASE ~(entry # None /\ files[entry].kind # "symlink" /\ files[entry].sameDevice)
    <3>1. readPc' = "done" /\ outcome' \in Faults
      BY <1>7, <2>0, <2>2 DEF File!VerifyLast, File!Check, File!Refuse, Faults, File!Refusals
    <3> QED
      BY <1>1, <2>2, <3>1, EndsExactly DEF Readable
  <2> QED
    BY <2>1, <2>2
<1>8. CASE File!Lookup /\ fileChanges = 0
  <2>0. rootPinned /\ parentReal /\ File!Named = entry
    BY <1>8 DEF QuietInv, File!Lookup, File!Named
  <2>1. (IF policy = "pack" THEN File!Followed ELSE File!Named) = entry
    BY <1>8, <2>0 DEF QuietInv, File!Lookup, File!Followed
  <2>2. /\ before' = entry
        /\ File!Check(IF entry = None THEN "Missing" ELSE File!Metadata(entry), "open")
    BY <1>8, <2>1 DEF File!Lookup
  <2>3. CASE entry # None /\ File!Metadata(entry) = "ok"
    <3>1. readPc' = "open"
      BY <2>2, <2>3 DEF File!Check, File!Pass
    <3>2. File!Metadata(entry)' = "ok"
      BY <1>2, <2>3 DEF File!Metadata
    <3> QED
      BY <1>2, <2>0, <2>2, <2>3, <3>1, <3>2, GoesOnExactly DEF QuietInv, Holding, Examined
  <2>4. CASE entry = None
    <3>1. readPc' = "done" /\ outcome' \in Faults
      BY <2>2, <2>4 DEF File!Check, File!Refuse, Faults, File!Refusals
    <3> QED
      BY <1>1, <2>4, <3>1, EndsExactly DEF Readable
  <2>5. CASE entry # None /\ File!Metadata(entry) # "ok"
    <3>1. readPc' = "done" /\ outcome' \in Faults
      BY <2>2, <2>5, MetadataIsOk DEF File!Check, File!Refuse
    <3>2. ~Readable
      BY <1>3, <2>5, MetadataIsOk DEF Readable
    <3> QED
      BY <1>1, <3>1, <3>2, EndsExactly
  <2> QED
    BY <2>3, <2>4, <2>5
<1> QED
  BY <1>4, <1>5, <1>6, <1>7, <1>8

\* Opening the file and the looks at it before the first block.
LEMMA QuietOpens ==
  ASSUME File!ReadAssumption, RInv, QuietInv, UNCHANGED policy,
         File!Open \/ File!WriterComes \/ File!Fstat \/ File!VerifyTarget
  PROVE  QuietInv'
<1>1. /\ UNCHANGED <<File!world, before, bytes, offered, policy>>
      /\ readPc \in {"open", "blocked", "fstat", "target"}
  BY DEF File!Open, File!WriterComes, File!Fstat, File!VerifyTarget
<1>2. /\ files' = files /\ entry' = entry /\ rootPinned' = rootPinned /\ parentReal' = parentReal
      /\ fileChanges' = fileChanges /\ policy' = policy /\ before' = before /\ bytes' = bytes
  BY <1>1 DEF File!world
<1>3. CASE fileChanges # 0
  BY <1>2, <1>3 DEF QuietInv
<1>4. CASE fileChanges = 0
  <2>1. /\ rootPinned /\ parentReal /\ before = entry /\ entry # None /\ File!Metadata(entry) = "ok"
        /\ readPc # "blocked"
    BY <1>1, <1>4 DEF QuietInv, Holding
  <2>2. File!Named = entry /\ files[entry].kind = "file" /\ File!Followed = entry
    <3>1. File!Named = entry
      BY <2>1 DEF File!Named
    <3>2. files[entry].kind = "file"
      BY <2>1 DEF File!Metadata
    <3> QED
      BY <2>1, <3>1, <3>2 DEF File!Followed
  <2>3. File!Metadata(entry)' = "ok"
    BY <1>2, <2>1 DEF File!Metadata
  <2>4. entry # Elsewhere
    BY <2>1 DEF RInv, File!TypeOK
  <2>5. CASE File!Open
    <3>1. readPc' = "fstat" /\ fd' = entry /\ ~strayed'
      BY <2>1, <2>2, <2>4, <2>5 DEF File!Open, File!Pass
    <3> QED
      BY <1>2, <2>1, <2>3, <3>1, GoesOnExactly DEF QuietInv, Holding, Examined
  <2>6. CASE File!Fstat
    <3>1. fd = entry /\ ~strayed
      BY <1>4, <2>6 DEF QuietInv, Holding, File!Fstat
    <3>2. readPc' = "target" /\ opened' = files[entry] /\ fd' = fd /\ strayed' = strayed
      BY <2>1, <2>6, <3>1 DEF File!Fstat, File!Check, File!Pass
    <3> QED
      BY <1>2, <2>1, <2>3, <3>1, <3>2, GoesOnExactly DEF QuietInv, Holding, Examined
  <2>7. CASE File!VerifyTarget
    <3>1. fd = entry /\ ~strayed /\ opened = files[entry]
      BY <1>4, <2>7 DEF QuietInv, Holding, Examined, File!VerifyTarget
    <3>2. File!AtTarget
      BY <2>1, <2>2, <3>1 DEF File!AtTarget
    <3>3. readPc' = "read" /\ fd' = fd /\ strayed' = strayed /\ opened' = opened
      BY <2>7, <3>2 DEF File!VerifyTarget, File!Pass
    <3> QED
      BY <1>2, <2>1, <2>3, <3>1, <3>3, GoesOnExactly DEF QuietInv, Holding, Examined
  <2>8. ~File!WriterComes
    BY <2>1 DEF File!WriterComes
  <2> QED
    BY <2>5, <2>6, <2>7, <2>8
<1> QED
  BY <1>3, <1>4

\* Reading, and the looks after the last block.
LEMMA QuietReads ==
  ASSUME File!ReadAssumption, RInv, QuietInv, UNCHANGED policy,
         File!Read \/ File!Restat \/ File!Relookup \/ File!Reroot
  PROVE  QuietInv'
<1>1. /\ UNCHANGED <<File!world, before, fd, opened, strayed, offered, policy>>
      /\ readPc \in {"read", "restat", "relookup", "reroot"}
  BY DEF File!Read, File!Restat, File!Relookup, File!Reroot
<1>2. /\ files' = files /\ entry' = entry /\ rootPinned' = rootPinned /\ parentReal' = parentReal
      /\ fileChanges' = fileChanges /\ policy' = policy /\ before' = before /\ fd' = fd
      /\ opened' = opened /\ strayed' = strayed
  BY <1>1 DEF File!world
<1>3. CASE fileChanges # 0
  BY <1>2, <1>3 DEF QuietInv
<1>4. CASE fileChanges = 0
  <2>1. /\ rootPinned /\ parentReal /\ before = entry /\ entry # None /\ File!Metadata(entry) = "ok"
        /\ fd = entry /\ ~strayed /\ opened = files[entry]
    BY <1>1, <1>4 DEF QuietInv, Holding, Examined
  <2>2. /\ File!Named = entry /\ files[entry].kind = "file" /\ files[entry].links = 1
        /\ files[entry].sameDevice
    <3>1. File!Named = entry
      BY <2>1 DEF File!Named
    <3>2. files[entry].kind = "file" /\ files[entry].links = 1 /\ files[entry].sameDevice
      BY <2>1 DEF File!Metadata
    <3> QED
      BY <3>1, <3>2
  <2>3. File!Metadata(entry)' = "ok"
    BY <1>2, <2>1 DEF File!Metadata
  <2>4. /\ bytes \in Seq(Nat) /\ Len(bytes) \in Nat /\ Limit \in Nat
        /\ opened.data \in Seq(Nat) /\ Len(opened.data) \in Nat
    <3>1. bytes \in Seq(Nat) /\ opened \in File!Inode
      BY <1>1 DEF RInv, File!TypeOK, ExamineInv, Examined
    <3> QED
      BY <3>1 DEF File!Inode, File!ReadAssumption
  <2>5. Unstamped
    BY <2>1 DEF Unstamped
  <2>6. CASE File!Read
    <3>1. readPc = "read" /\ Len(bytes) <= Len(opened.data)
      BY <2>5, <2>6 DEF RInv, ReadingInv, File!Read
    <3>2. CASE File!More
      <4>1. readPc' = "read"
        BY <2>6, <3>1, <3>2 DEF File!Read
      <4> QED
        BY <1>2, <2>1, <2>3, <4>1, GoesOnExactly DEF QuietInv, Holding, Examined
    <3>3. CASE ~File!More /\ Len(bytes) > Limit
      <4>1. readPc' = "done" /\ outcome' = "TooLarge"
        BY <2>6, <3>3 DEF File!Read, File!Check, File!Refuse
      <4>2. ~Readable
        BY <2>1, <2>4, <3>1, <3>3 DEF Readable
      <4> QED
        BY <1>1, <4>1, <4>2, EndsExactly DEF Faults, File!Refusals
    <3>4. CASE ~File!More /\ ~(Len(bytes) > Limit)
      <4>1. readPc' = "restat" /\ bytes' = bytes
        BY <2>6, <3>4 DEF File!Read, File!Check, File!Pass
      <4>2. bytes = opened.data
        <5>1. Len(bytes) = Len(opened.data)
          BY <2>1, <2>4, <3>1, <3>4 DEF File!More
        <5>2. \A k \in 1 .. Len(bytes) : bytes[k] = opened.data[k]
          BY <2>5, <3>1 DEF RInv, ReadingInv
        <5> QED
          BY <2>4, <5>1, <5>2, SeqEqual
      <4>3. Len(bytes) <= Limit
        BY <2>4, <3>4
      <4> QED
        BY <1>2, <2>1, <2>3, <4>1, <4>2, <4>3, GoesOnExactly DEF QuietInv, Holding, Examined
    <3> QED
      BY <3>2, <3>3, <3>4
  <2>7. CASE File!Restat
    <3>1. bytes = opened.data /\ Len(bytes) <= Limit
      BY <1>4, <2>7 DEF QuietInv, File!Restat
    <3>2. File!SameSnapshot
      BY <2>1, <3>1 DEF File!SameSnapshot
    <3>3. readPc' = "relookup" /\ bytes' = bytes
      BY <2>7, <3>2 DEF File!Restat, File!Pass
    <3> QED
      BY <1>2, <2>1, <2>3, <3>1, <3>3, GoesOnExactly DEF QuietInv, Holding, Examined
  <2>8. CASE File!Relookup
    <3>1. bytes = opened.data /\ Len(bytes) <= Limit
      BY <1>4, <2>8 DEF QuietInv, File!Relookup
    <3>2. File!RelookupVerdict = "ok"
      BY <2>1, <2>2 DEF File!RelookupVerdict
    <3>3. readPc' = "reroot" /\ bytes' = bytes
      BY <2>8, <3>2 DEF File!Relookup, File!Check, File!Pass
    <3> QED
      BY <1>2, <2>1, <2>3, <3>1, <3>3, GoesOnExactly DEF QuietInv, Holding, Examined
  <2>9. CASE File!Reroot
    <3>1. bytes = opened.data /\ Len(bytes) <= Limit
      BY <1>4, <2>9 DEF QuietInv, File!Reroot
    <3>2. readPc' = "done" /\ outcome' = "ok" /\ bytes' = bytes
      BY <2>1, <2>9 DEF File!Reroot, File!Refuse
    <3>3. Readable
      BY <2>1, <2>2, <3>1 DEF Readable
    <3> QED
      BY <1>1, <2>1, <3>1, <3>2, <3>3, EndsExactly
  <2> QED
    BY <2>6, <2>7, <2>8, <2>9
<1> QED
  BY <1>3, <1>4

LEMMA QuietStart ==
  ASSUME File!Init
  PROVE  QuietInv
BY DEF File!Init, QuietInv, Holding, Examined, File!QuietIsExact

LEMMA QuietKept ==
  ASSUME File!ReadAssumption, RInv, QuietInv, [File!Next]_(File!vars)
  PROVE  QuietInv'
<1>1. CASE File!Reads
  BY <1>1, QuietLooks, QuietOpens, QuietReads DEF File!Reads
<1>2. CASE File!WriterComes
  BY <1>2, QuietOpens DEF File!WriterComes
<1>3. CASE File!WriteFile \/ File!LinkFile \/ File!ReplaceEntry \/ File!ReplaceParent \/ File!ReplaceRoot
  <2>1. fileChanges' = fileChanges + 1 /\ fileChanges \in Nat
    BY <1>3 DEF File!WriteFile, File!LinkFile, File!ReplaceEntry, File!ReplaceParent,
                File!ReplaceRoot, File!Change, RInv, File!TypeOK,
                File!ReadAssumption
  <2> QED
    BY <2>1 DEF QuietInv
<1>4. CASE UNCHANGED File!vars
  <2>1. File!QuietIsExact' <=> File!QuietIsExact
    BY <1>4 DEF File!vars, File!world, File!reader, File!QuietIsExact
  <2>2. File!Metadata(entry)' = File!Metadata(entry)
    BY <1>4 DEF File!vars, File!world, File!reader, File!Metadata
  <2> QED
    BY <1>4, <2>1, <2>2 DEF QuietInv, File!vars, File!world, File!reader
<1> QED
  BY <1>1, <1>2, <1>3, <1>4 DEF File!Next, File!Others

\* A read is of one moment, and never holds more than it may, whatever others do
\* to the file meanwhile, and a file that nobody touches is judged for what it is
\* (read_declared_file, load_source): of every file, every limit, and every number
\* of changes.
THEOREM ReadsSound == File!Spec => []ReadsAreSound
<1>1. File!Init => RInv /\ QuietInv
  BY FileAssumption, InitEstablishes, QuietStart
<1>2. RInv /\ QuietInv /\ [File!Next]_(File!vars) => RInv' /\ QuietInv'
  BY FileAssumption, StepsKeep, QuietKept
<1>3. RInv /\ QuietInv => ReadsAreSound
  <2>1. QuietInv => File!QuietIsExact
    BY DEF QuietInv, File!QuietIsExact
  <2> QED
    BY <2>1 DEF RInv, ReadsAreSound, File!ReadsAreSound
<1> QED
  BY <1>1, <1>2, <1>3, PTL DEF File!Spec

=============================================================================
