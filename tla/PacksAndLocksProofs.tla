------------------------ MODULE PacksAndLocksProofs ------------------------
(***************************************************************************)
(* Proofs about Composition and Lockfile.                                  *)
(*                                                                         *)
(* Of Composition, for any documents, any contents and limits and any      *)
(* number of edits: a document becomes a pack exactly when it is           *)
(* consistent, and what is composed is what the profile declares, in the   *)
(* declared order, with nothing of a conflict and with true sizes. Of an   *)
(* order of sorting they use that it is total where no identifier is       *)
(* there twice; of what a source holds, that it has a length and is not    *)
(* the separator.                                                          *)
(*                                                                         *)
(* Of Lockfile, for any packs, profiles, sources and contents, any lengths *)
(* of paths and of locks, and any number of moves: a made lock says what   *)
(* it was made from, and a comparison finds every difference and no other. *)
(* Of Digest they use that equal digests are of the same material, made    *)
(* for the same purpose, and that what is not hexadecimal is no digest.    *)
(***************************************************************************)
EXTENDS PacksAndLocks, SequenceTheorems, FiniteSetTheorems, WellFoundedInduction, TLAPS

\* A set of numbers that is not empty has a least one.
LEMMA LeastExists ==
  ASSUME NEW S \in SUBSET Nat, S # {}
  PROVE  \E i \in S : \A j \in S : i <= j
  <1>1. PICK i \in S : \A j \in S : ~(<<j, i>> \in OpToRel(<, Nat))
    BY NatLessThanWellFounded, WFMin
  <1>2. \A j \in S : ~(j < i)
    BY <1>1 DEF OpToRel
  <1> QED
    BY <1>2

\* Induction, on a set of numbers.
LEMMA NumberInduct ==
  ASSUME NEW S, 0 \in S, \A n \in Nat : n \in S => n + 1 \in S
  PROVE  Nat \subseteq S
  <1> DEFINE wrong == {n \in Nat : n \notin S}
  <1> SUFFICES ASSUME wrong # {} PROVE FALSE
    OBVIOUS
  <1>1. PICK n \in wrong : \A m \in wrong : n <= m
    BY LeastExists
  <1>2. n # 0 /\ n - 1 \in Nat /\ n - 1 \notin wrong
    BY <1>1
  <1>3. (n - 1) + 1 = n
    BY <1>1
  <1> QED
    BY <1>1, <1>2, <1>3

\* The first of the places that are hit.
LEMMA FirstHit ==
  ASSUME NEW n \in Nat, NEW hits \in SUBSET (1 .. n), hits # {}
  PROVE  LET first == CHOOSE i \in hits : \A j \in hits : i <= j
         IN first \in hits
  <1>1. \E i \in hits : \A j \in hits : i <= j
    BY LeastExists
  <1> QED
    BY <1>1

-----------------------------------------------------------------------------
(***************************************************************************)
(* The sort.                                                               *)
(***************************************************************************)

\* A strict total order on 1 .. n, and what comes before a place in it.
TotalOn(R, n) ==
  /\ \A i \in 1 .. n : <<i, i>> \notin R
  /\ \A i, j \in 1 .. n : i # j => <<i, j>> \in R \/ <<j, i>> \in R
  /\ \A i, j, k \in 1 .. n : <<i, j>> \in R /\ <<j, k>> \in R => <<i, k>> \in R
Ahead(R, n, i) == {j \in 1 .. n : <<j, i>> \in R}

\* The places of a list are as many as it is long.
LEMMA Places ==
  ASSUME NEW n \in Nat
  PROVE  IsFiniteSet(1 .. n) /\ Cardinality(1 .. n) = n
  BY FS_Interval

\* In a total order the ranks are 0 .. n - 1, each that of one place.
LEMMA Ranks ==
  ASSUME NEW n \in Nat, NEW R, TotalOn(R, n)
  PROVE  /\ \A i \in 1 .. n : Cardinality(Ahead(R, n, i)) \in 0 .. n - 1
         /\ \A i, k \in 1 .. n : <<i, k>> \in R =>
              Cardinality(Ahead(R, n, i)) < Cardinality(Ahead(R, n, k))
         /\ \A m \in 1 .. n : \E i \in 1 .. n : Cardinality(Ahead(R, n, i)) = m - 1
  <1>1. IsFiniteSet(1 .. n) /\ Cardinality(1 .. n) = n
    BY FS_Interval
  <1>2. \A i \in 1 .. n : /\ IsFiniteSet(Ahead(R, n, i))
                          /\ Cardinality(Ahead(R, n, i)) \in Nat
    <2> TAKE i \in 1 .. n
    <2>1. Ahead(R, n, i) \in SUBSET (1 .. n)
      BY DEF Ahead
    <2> QED
      BY <1>1, <2>1, FS_Subset, FS_CardinalityType
  <1>3. ASSUME NEW i \in 1 .. n PROVE Cardinality(Ahead(R, n, i)) \in 0 .. n - 1
    <2> DEFINE others == (1 .. n) \ {i}
    <2>1. IsFiniteSet(others) /\ Cardinality(others) = n - 1
      BY <1>1, FS_RemoveElement
    <2>2. Ahead(R, n, i) \in SUBSET others
      BY DEF Ahead, TotalOn
    <2> HIDE DEF others
    <2>3. Cardinality(Ahead(R, n, i)) <= Cardinality(others)
      BY <2>1, <2>2, FS_Subset
    <2> QED
      BY <1>2, <2>1, <2>3
  <1>4. ASSUME NEW i \in 1 .. n, NEW k \in 1 .. n, <<i, k>> \in R
        PROVE  Cardinality(Ahead(R, n, i)) < Cardinality(Ahead(R, n, k))
    <2> DEFINE more == Ahead(R, n, i) \cup {i}
    <2>1. i \notin Ahead(R, n, i)
      BY DEF Ahead, TotalOn
    <2>2. Cardinality(more) = Cardinality(Ahead(R, n, i)) + 1
      BY <1>2, <2>1, FS_AddElement
    <2>3. more \in SUBSET Ahead(R, n, k)
      BY <1>4 DEF Ahead, TotalOn
    <2> HIDE DEF more
    <2>4. Cardinality(more) <= Cardinality(Ahead(R, n, k))
      BY <1>2, <2>3, FS_Subset
    <2> QED
      BY <1>2, <2>2, <2>4
  <1> DEFINE rank == [i \in 1 .. n |-> Cardinality(Ahead(R, n, i))]
  <1>5. rank \in Injection(1 .. n, 0 .. n - 1)
    <2>1. rank \in [1 .. n -> 0 .. n - 1]
      BY <1>3
    <2>2. ASSUME NEW i \in 1 .. n, NEW k \in 1 .. n, i # k PROVE rank[i] # rank[k]
      <3>1. <<i, k>> \in R \/ <<k, i>> \in R
        BY <2>2 DEF TotalOn
      <3> QED
        BY <1>2, <1>4, <3>1
    <2> HIDE DEF rank
    <2> QED
      BY <2>1, <2>2 DEF Injection, IsInjective
  <1>6. IsFiniteSet(0 .. n - 1) /\ Cardinality(0 .. n - 1) = n
    BY FS_Interval
  <1>7. rank \in Surjection(1 .. n, 0 .. n - 1)
    <2> HIDE DEF rank
    <2> QED
      BY <1>1, <1>5, <1>6, FS_Injection
  <1>8. ASSUME NEW m \in 1 .. n PROVE \E i \in 1 .. n : Cardinality(Ahead(R, n, i)) = m - 1
    <2>1. m - 1 \in 0 .. n - 1
      OBVIOUS
    <2>2. PICK i \in 1 .. n : rank[i] = m - 1
      <3> HIDE DEF rank
      <3> QED
        BY <1>7, <2>1 DEF Surjection
    <2> QED
      BY <2>2
  <1> QED
    BY <1>3, <1>4, <1>8

\* A list in the order R: from which place each element comes.
Sorts(sorted, list, n, R) ==
  /\ DOMAIN sorted = 1 .. n
  /\ \E at \in [1 .. n -> 1 .. n] :
       /\ \A m \in 1 .. n : sorted[m] = list[at[m]]
       /\ \A m, k \in 1 .. n : m < k => <<at[m], at[k]>> \in R
       /\ \A i \in 1 .. n : \E m \in 1 .. n : at[m] = i

\* To put each place at its rank is to sort.
LEMMA RankSorts ==
  ASSUME NEW n \in Nat, NEW R, TotalOn(R, n), NEW list, NEW sorted, NEW at,
         at = [m \in 1 .. n |-> at[m]], sorted = [m \in 1 .. n |-> list[at[m]]],
         \A m \in 1 .. n : at[m] \in 1 .. n /\ Cardinality(Ahead(R, n, at[m])) = m - 1
  PROVE  Sorts(sorted, list, n, R)
  <1> DEFINE rank(i) == Cardinality(Ahead(R, n, i))
  <1>1. /\ \A i \in 1 .. n : rank(i) \in 0 .. n - 1
        /\ \A i, k \in 1 .. n : <<i, k>> \in R => rank(i) < rank(k)
    BY Ranks
  <1>2. \A m \in 1 .. n : sorted[m] = list[at[m]]
    OBVIOUS
  <1>3. \A m \in 1 .. n : at[m] \in 1 .. n /\ rank(at[m]) = m - 1
    OBVIOUS
  <1>4. at \in [1 .. n -> 1 .. n]
    BY <1>3
  <1> HIDE DEF rank
  <1>5. ASSUME NEW i \in 1 .. n, NEW k \in 1 .. n, rank(i) = rank(k) PROVE i = k
    <2>1. rank(i) \in Int /\ rank(k) \in Int
      BY <1>1
    <2>2. <<i, k>> \notin R /\ <<k, i>> \notin R
      <3>1. ASSUME <<i, k>> \in R PROVE FALSE
        <4>1. rank(i) < rank(k)
          BY <1>1, <3>1
        <4> QED
          BY <1>5, <2>1, <4>1
      <3>2. ASSUME <<k, i>> \in R PROVE FALSE
        <4>1. rank(k) < rank(i)
          BY <1>1, <3>2
        <4> QED
          BY <1>5, <2>1, <4>1
      <3> QED
        BY <3>1, <3>2
    <2> QED
      BY <2>2 DEF TotalOn
  <1>6. ASSUME NEW m \in 1 .. n, NEW k \in 1 .. n, m < k PROVE <<at[m], at[k]>> \in R
    <2>1. /\ at[m] \in 1 .. n /\ rank(at[m]) = m - 1
          /\ at[k] \in 1 .. n /\ rank(at[k]) = k - 1
      BY <1>3
    <2>2. at[m] # at[k]
      BY <1>6, <2>1
    <2>3. <<at[k], at[m]>> \notin R
      <3>1. ~(rank(at[k]) < rank(at[m]))
        BY <1>6, <2>1
      <3> QED
        BY <1>1, <2>1, <3>1
    <2> QED
      BY <2>1, <2>2, <2>3 DEF TotalOn
  <1>7. ASSUME NEW i \in 1 .. n PROVE \E m \in 1 .. n : at[m] = i
    <2> DEFINE m == rank(i) + 1
    <2>1. m \in 1 .. n /\ m - 1 = rank(i)
      BY <1>1
    <2> HIDE DEF m
    <2>2. at[m] = i
      BY <1>3, <1>5, <2>1
    <2> QED
      BY <2>1, <2>2
  <1>8. DOMAIN sorted = 1 .. n
    OBVIOUS
  <1> QED
    BY <1>2, <1>4, <1>6, <1>7, <1>8 DEF Sorts

\* No identifier twice, and the two orders that OverlayPack::new sorts by.
Once(list) == \A i, j \in DOMAIN list : list[i].id = list[j].id => i = j
IdOrder(list) == {p \in (DOMAIN list) \X (DOMAIN list) : list[p[1]].id < list[p[2]].id}
ClassOrder(list) ==
  {p \in (DOMAIN list) \X (DOMAIN list) :
     \/ list[p[1]].order < list[p[2]].order
     \/ list[p[1]].order = list[p[2]].order /\ list[p[1]].id < list[p[2]].id}

\* The two sorts of OverlayPack::new sort, when no identifier is there twice.
LEMMA ByIdSorts ==
  ASSUME NEW n \in Nat, NEW list, DOMAIN list = 1 .. n,
         \A i \in 1 .. n : list[i].id \in Nat, Once(list)
  PROVE  Sorts(ById(list), list, n, IdOrder(list))
  <1> DEFINE R == IdOrder(list)
             less(i, j) == list[i].id < list[j].id
             ahead(i) == {j \in 1 .. n : less(j, i) \/ (j < i /\ ~less(i, j))}
             at == [m \in 1 .. n |-> CHOOSE i \in 1 .. n : Cardinality(ahead(i)) = m - 1]
  <1>1. \A i, j \in 1 .. n : <<i, j>> \in R <=> less(i, j)
    BY DEF IdOrder
  <1>2. \A i, j \in 1 .. n : i # j => list[i].id # list[j].id
    BY DEF Once
  <1>3. ById(list) = [m \in 1 .. n |-> list[at[m]]]
    BY DEF ById, Sorted
  <1>4. /\ \A i \in 1 .. n : ~less(i, i)
        /\ \A i, j \in 1 .. n : i # j => (less(i, j) <=> ~less(j, i))
        /\ \A i, j, k \in 1 .. n : less(i, j) /\ less(j, k) => less(i, k)
    BY <1>2
  <1> HIDE DEF less, R
  <1>5. TotalOn(R, n)
    BY <1>1, <1>4 DEF TotalOn
  <1>6. \A i \in 1 .. n : ahead(i) = Ahead(R, n, i)
    BY <1>1, <1>4 DEF Ahead
  <1>7. \A m \in 1 .. n : \E i \in 1 .. n : Cardinality(ahead(i)) = m - 1
    <2>1. \A m \in 1 .. n : \E i \in 1 .. n : Cardinality(Ahead(R, n, i)) = m - 1
      BY <1>5, Ranks
    <2> HIDE DEF ahead
    <2> QED
      BY <1>6, <2>1
  <1> HIDE DEF ahead
  <1>8. \A m \in 1 .. n : at[m] \in 1 .. n /\ Cardinality(Ahead(R, n, at[m])) = m - 1
    BY <1>6, <1>7
  <1>9. at = [m \in 1 .. n |-> at[m]]
    OBVIOUS
  <1> HIDE DEF at
  <1> QED
    BY <1>3, <1>5, <1>8, <1>9, RankSorts DEF R

LEMMA ByOrderSorts ==
  ASSUME NEW n \in Nat, NEW list, DOMAIN list = 1 .. n,
         \A i \in 1 .. n : list[i].id \in Nat /\ list[i].order \in Nat, Once(list)
  PROVE  Sorts(ByOrder(list), list, n, ClassOrder(list))
  <1> DEFINE R == ClassOrder(list)
             less(i, j) == \/ list[i].order < list[j].order
                           \/ list[i].order = list[j].order /\ list[i].id < list[j].id
             ahead(i) == {j \in 1 .. n : less(j, i) \/ (j < i /\ ~less(i, j))}
             at == [m \in 1 .. n |-> CHOOSE i \in 1 .. n : Cardinality(ahead(i)) = m - 1]
  <1>1. \A i, j \in 1 .. n : <<i, j>> \in R <=> less(i, j)
    BY DEF ClassOrder
  <1>2. \A i, j \in 1 .. n : i # j => list[i].id # list[j].id
    BY DEF Once
  <1>3. ByOrder(list) = [m \in 1 .. n |-> list[at[m]]]
    BY DEF ByOrder, Sorted
  <1>4. /\ \A i \in 1 .. n : ~less(i, i)
        /\ \A i, j \in 1 .. n : i # j => (less(i, j) <=> ~less(j, i))
        /\ \A i, j, k \in 1 .. n : less(i, j) /\ less(j, k) => less(i, k)
    <2>1. \A i \in 1 .. n : list[i].id \in Nat /\ list[i].order \in Nat
      OBVIOUS
    <2>2. \A i, j, k \in 1 .. n : less(i, j) /\ less(j, k) => less(i, k)
      BY <2>1
    <2>3. \A i, j \in 1 .. n : i # j => (less(i, j) <=> ~less(j, i))
      <3> TAKE i, j \in 1 .. n
      <3>1. i # j => list[i].id # list[j].id
        BY <1>2
      <3> QED
        BY <2>1, <3>1
    <2>4. \A i \in 1 .. n : ~less(i, i)
      BY <2>1
    <2> QED
      BY <2>2, <2>3, <2>4
  <1> HIDE DEF less, R
  <1>5. TotalOn(R, n)
    BY <1>1, <1>4 DEF TotalOn
  <1>6. \A i \in 1 .. n : ahead(i) = Ahead(R, n, i)
    BY <1>1, <1>4 DEF Ahead
  <1>7. \A m \in 1 .. n : \E i \in 1 .. n : Cardinality(ahead(i)) = m - 1
    <2>1. \A m \in 1 .. n : \E i \in 1 .. n : Cardinality(Ahead(R, n, i)) = m - 1
      BY <1>5, Ranks
    <2> HIDE DEF ahead
    <2> QED
      BY <1>6, <2>1
  <1> HIDE DEF ahead
  <1>8. \A m \in 1 .. n : at[m] \in 1 .. n /\ Cardinality(Ahead(R, n, at[m])) = m - 1
    BY <1>6, <1>7
  <1>9. at = [m \in 1 .. n |-> at[m]]
    OBVIOUS
  <1> HIDE DEF at
  <1> QED
    BY <1>3, <1>5, <1>8, <1>9, RankSorts DEF R

-----------------------------------------------------------------------------
(***************************************************************************)
(* Lists, and what sorting leaves of one.                                  *)
(***************************************************************************)

\* What is asked of a list.
IsList(list) == Len(list) \in Nat /\ DOMAIN list = 1 .. Len(list)

\* The identifiers of a list, by their places.
LEMMA IdsOf ==
  ASSUME NEW list, NEW id
  PROVE  id \in Ids(list) <=> \E i \in DOMAIN list : list[i].id = id
  BY DEF Ids

\* ensure_unique finds every identifier that is there twice.
LEMMA Duplicates ==
  ASSUME NEW list, IsList(list)
  PROVE  ~HasDuplicate(list) <=> Once(list)
  <1> DEFINE n == Len(list)
             id == [i \in 1 .. n |-> list[i].id]
             ids == Ids(list)
  <1>1. n \in Nat /\ DOMAIN list = 1 .. n
    BY DEF IsList
  <1>2. id \in Surjection(1 .. n, ids)
    BY <1>1 DEF Ids, Surjection
  <1>3. IsFiniteSet(1 .. n) /\ Cardinality(1 .. n) = n
    BY <1>1, Places, Zenon
  <1>4. id \in Injection(1 .. n, ids) <=> Once(list)
    <2>1. id \in [1 .. n -> ids]
      BY <1>1 DEF Ids
    <2> QED
      BY <1>1, <2>1 DEF Injection, IsInjective, Once
  <1> HIDE DEF id, ids, n
  <1>5. /\ IsFiniteSet(ids) /\ Cardinality(ids) <= Cardinality(1 .. n)
        /\ Cardinality(ids) = Cardinality(1 .. n) <=> id \in Injection(1 .. n, ids)
    BY <1>2, <1>3, FS_Surjection
  <1>6. Cardinality(ids) \in Nat
    BY <1>5, FS_CardinalityType
  <1>7. ~(Cardinality(ids) < n) <=> Once(list)
    BY <1>1, <1>3, <1>4, <1>5, <1>6
  <1> QED
    BY <1>7 DEF HasDuplicate, n, ids

\* What is the same in a list and in the sorted one.
Alike(sorted, list) ==
  /\ IsList(sorted)
  /\ Len(sorted) = Len(list)
  /\ Once(sorted)
  /\ \A m \in DOMAIN sorted : \E i \in DOMAIN list : sorted[m] = list[i]
  /\ \A i \in DOMAIN list : \E m \in DOMAIN sorted : sorted[m] = list[i]

\* A sorted list has the same elements, each once.
LEMMA SortedList ==
  ASSUME NEW list, IsList(list), Once(list), NEW sorted, NEW R,
         Sorts(sorted, list, Len(list), R), TotalOn(R, Len(list))
  PROVE  Alike(sorted, list)
  <1> DEFINE n == Len(list)
  <1>1. n \in Nat /\ DOMAIN list = 1 .. n
    BY DEF IsList
  <1>2. PICK at \in [1 .. n -> 1 .. n] :
          /\ \A m \in 1 .. n : sorted[m] = list[at[m]]
          /\ \A m, k \in 1 .. n : m < k => <<at[m], at[k]>> \in R
          /\ \A i \in 1 .. n : \E m \in 1 .. n : at[m] = i
    BY DEF Sorts
  <1>3. DOMAIN sorted = 1 .. n
    BY DEF Sorts
  <1>4. Len(sorted) = n
    BY <1>1, <1>3
  <1> HIDE DEF n
  <1>5. ASSUME NEW m \in 1 .. n, NEW k \in 1 .. n, sorted[m].id = sorted[k].id PROVE m = k
    <2>1. at[m] = at[k]
      <3>1. at[m] \in DOMAIN list /\ at[k] \in DOMAIN list
        BY <1>1
      <3>2. list[at[m]].id = list[at[k]].id
        BY <1>2, <1>5
      <3> QED
        BY <3>1, <3>2, Zenon DEF Once
    <2>2. ~(m < k) /\ ~(k < m)
      BY <1>2, <2>1 DEF TotalOn, n
    <2> QED
      BY <1>1, <2>2
  <1>6. IsList(sorted) /\ Once(sorted)
    BY <1>1, <1>3, <1>4, <1>5 DEF IsList, Once
  <1>7. \A m \in DOMAIN sorted : \E i \in DOMAIN list : sorted[m] = list[i]
    BY <1>1, <1>2, <1>3
  <1>8. \A i \in DOMAIN list : \E m \in DOMAIN sorted : sorted[m] = list[i]
    <2> TAKE i \in DOMAIN list
    <2>1. PICK m \in 1 .. n : at[m] = i
      BY <1>1, <1>2
    <2> QED
      BY <1>2, <1>3, <2>1
  <1> QED
    BY <1>4, <1>6, <1>7, <1>8, Zenon DEF n, Alike

\* An identifier finds the one element that has it, in whatever order they are.
LEMMA WithIs ==
  ASSUME NEW list, Once(list), NEW i \in DOMAIN list
  PROVE  With(list, list[i].id) = list[i]
  <1> DEFINE found == CHOOSE k \in DOMAIN list : list[k].id = list[i].id
  <1>1. found \in DOMAIN list /\ list[found].id = list[i].id
    OBVIOUS
  <1>2. With(list, list[i].id) = list[found]
    BY DEF With
  <1> HIDE DEF found
  <1>3. found = i
    BY <1>1, Zenon DEF Once
  <1> QED
    BY <1>2, <1>3

LEMMA WithFound ==
  ASSUME NEW list, Once(list), NEW id \in Ids(list)
  PROVE  \E i \in DOMAIN list : With(list, id) = list[i] /\ list[i].id = id
  <1>1. PICK i \in DOMAIN list : list[i].id = id
    BY DEF Ids
  <1> QED
    BY <1>1, WithIs

LEMMA AlikeIds ==
  ASSUME NEW sorted, NEW list, Alike(sorted, list), Once(list)
  PROVE  /\ Ids(sorted) = Ids(list)
         /\ \A id \in Ids(list) : With(sorted, id) = With(list, id)
  <1>1. Ids(sorted) \subseteq Ids(list)
    BY DEF Alike, Ids
  <1>2. Ids(list) \subseteq Ids(sorted)
    BY DEF Alike, Ids
  <1>3. ASSUME NEW id \in Ids(list) PROVE With(sorted, id) = With(list, id)
    <2>1. PICK i \in DOMAIN list : With(list, id) = list[i] /\ list[i].id = id
      BY WithFound
    <2>2. PICK m \in DOMAIN sorted : sorted[m] = list[i]
      BY DEF Alike
    <2>3. Once(sorted)
      BY DEF Alike
    <2>4. With(sorted, sorted[m].id) = sorted[m]
      BY <2>3, WithIs
    <2> QED
      BY <2>1, <2>2, <2>4
  <1> QED
    BY <1>1, <1>2, <1>3

\* So do the sorted lists, which have the same elements, each once.
LEMMA ByIdAlike ==
  ASSUME NEW list, IsList(list), Once(list), \A i \in DOMAIN list : list[i].id \in Nat
  PROVE  Alike(ById(list), list)
  <1>1. Len(list) \in Nat /\ DOMAIN list = 1 .. Len(list)
    BY DEF IsList
  <1>2. Sorts(ById(list), list, Len(list), IdOrder(list))
    BY <1>1, ByIdSorts
  <1>3. TotalOn(IdOrder(list), Len(list))
    BY <1>1 DEF TotalOn, IdOrder, Once
  <1> QED
    BY <1>2, <1>3, SortedList, Zenon

LEMMA ByOrderAlike ==
  ASSUME NEW list, IsList(list), Once(list),
         \A i \in DOMAIN list : list[i].id \in Nat /\ list[i].order \in Nat
  PROVE  /\ Alike(ByOrder(list), list)
         /\ \A m, k \in DOMAIN ByOrder(list) : m < k =>
              \/ ByOrder(list)[m].order < ByOrder(list)[k].order
              \/ /\ ByOrder(list)[m].order = ByOrder(list)[k].order
                 /\ ByOrder(list)[m].id < ByOrder(list)[k].id
  <1> DEFINE sorted == ByOrder(list)
             R == ClassOrder(list)
             n == Len(list)
  <1>1. n \in Nat /\ DOMAIN list = 1 .. n
    BY DEF IsList
  <1>2. Sorts(sorted, list, n, R)
    BY <1>1, ByOrderSorts
  <1>3. \A i, j \in 1 .. n : <<i, j>> \in R <=>
          \/ list[i].order < list[j].order
          \/ list[i].order = list[j].order /\ list[i].id < list[j].id
    BY <1>1 DEF ClassOrder
  <1> HIDE DEF R, n
  <1>4. TotalOn(R, n)
    <2>1. \A i \in 1 .. n : list[i].id \in Nat /\ list[i].order \in Nat
      BY <1>1
    <2>2. \A i, j, k \in 1 .. n : <<i, j>> \in R /\ <<j, k>> \in R => <<i, k>> \in R
      BY <1>3, <2>1
    <2>3. \A i \in 1 .. n : <<i, i>> \notin R
      BY <1>3, <2>1
    <2>4. \A i, j \in 1 .. n : i # j => <<i, j>> \in R \/ <<j, i>> \in R
      <3> TAKE i, j \in 1 .. n
      <3>1. i # j => list[i].id # list[j].id
        BY <1>1 DEF Once
      <3> QED
        BY <1>3, <2>1, <3>1
    <2> QED
      BY <2>2, <2>3, <2>4 DEF TotalOn
  <1>5. Alike(sorted, list)
    BY <1>2, <1>4, SortedList, Zenon DEF n
  <1>6. PICK at \in [1 .. n -> 1 .. n] :
          /\ \A m \in 1 .. n : sorted[m] = list[at[m]]
          /\ \A m, k \in 1 .. n : m < k => <<at[m], at[k]>> \in R
    BY <1>2, Zenon DEF Sorts
  <1>7. DOMAIN sorted = 1 .. n
    BY <1>2 DEF Sorts
  <1> HIDE DEF sorted
  <1>8. ASSUME NEW m \in 1 .. n, NEW k \in 1 .. n, m < k
        PROVE  \/ sorted[m].order < sorted[k].order
               \/ sorted[m].order = sorted[k].order /\ sorted[m].id < sorted[k].id
    <2>1. <<at[m], at[k]>> \in R
      BY <1>6, <1>8
    <2>2. at[m] \in 1 .. n /\ at[k] \in 1 .. n
      OBVIOUS
    <2> QED
      BY <1>3, <1>6, <2>1, <2>2
  <1> QED
    BY <1>5, <1>7, <1>8 DEF sorted

\* No two neighbours of one order: no two classes of one order at all.
LEMMA SameOrderIs ==
  ASSUME NEW d, IsList(d.classes), Once(d.classes),
         \A i \in DOMAIN d.classes : d.classes[i].id \in Nat /\ d.classes[i].order \in Nat
  PROVE  ~SameOrder(d) <=>
           \A i, j \in DOMAIN d.classes : d.classes[i].order = d.classes[j].order => i = j
  <1> DEFINE list == d.classes
             sorted == ByOrder(list)
             n == Len(list)
  <1>1. n \in Nat /\ DOMAIN list = 1 .. n
    BY DEF IsList
  <1>2. Alike(sorted, list)
    BY ByOrderAlike
  <1>3. \A m, k \in DOMAIN sorted : m < k =>
          \/ sorted[m].order < sorted[k].order
          \/ sorted[m].order = sorted[k].order /\ sorted[m].id < sorted[k].id
    BY ByOrderAlike
  <1>4. SameOrder(d) <=> \E i \in 1 .. Len(sorted) - 1 : sorted[i].order = sorted[i + 1].order
    BY DEF SameOrder
  <1>5. \A i \in 1 .. n : list[i].id \in Nat /\ list[i].order \in Nat
    BY <1>1
  <1>6. \A i, j \in 1 .. n : list[i].id = list[j].id => i = j
    BY <1>1 DEF Once
  <1> HIDE DEF sorted, list
  <1>7. Len(sorted) = n /\ DOMAIN sorted = 1 .. n
    BY <1>2 DEF Alike, IsList
  <1>8. \A m \in 1 .. n : sorted[m].order \in Nat /\ sorted[m].id \in Nat
    BY <1>1, <1>2, <1>5, <1>7 DEF Alike
  <1> HIDE DEF n
  <1>9. ASSUME NEW i \in 1 .. n - 1, sorted[i].order = sorted[i + 1].order
        PROVE  \E a, b \in 1 .. n : list[a].order = list[b].order /\ a # b
    <2>1. i \in 1 .. n /\ i + 1 \in 1 .. n /\ i < i + 1
      BY <1>1
    <2>2. PICK a \in 1 .. n : sorted[i] = list[a]
      BY <1>1, <1>2, <1>7, <2>1 DEF Alike
    <2>3. PICK b \in 1 .. n : sorted[i + 1] = list[b]
      BY <1>1, <1>2, <1>7, <2>1 DEF Alike
    <2>4. sorted[i].id < sorted[i + 1].id
      BY <1>3, <1>7, <1>8, <1>9, <2>1
    <2>5. a # b
      BY <1>8, <2>1, <2>2, <2>3, <2>4
    <2> QED
      BY <1>9, <2>2, <2>3, <2>5
  <1>10. ASSUME NEW a \in 1 .. n, NEW b \in 1 .. n, list[a].order = list[b].order, a # b
         PROVE  \E i \in 1 .. n - 1 : sorted[i].order = sorted[i + 1].order
    <2>1. PICK m \in 1 .. n : sorted[m] = list[a]
      BY <1>1, <1>2, <1>7 DEF Alike
    <2>2. PICK k \in 1 .. n : sorted[k] = list[b]
      BY <1>1, <1>2, <1>7 DEF Alike
    <2>3. m # k
      BY <1>6, <1>10, <2>1, <2>2
    <2>4. ASSUME NEW x \in 1 .. n, NEW y \in 1 .. n, x < y, sorted[x].order = sorted[y].order
          PROVE  \E i \in 1 .. n - 1 : sorted[i].order = sorted[i + 1].order
      <3>1. x \in 1 .. n - 1 /\ x + 1 \in 1 .. n /\ x < x + 1
        BY <1>1, <2>4
      <3>2. sorted[x].order <= sorted[x + 1].order
        <4>1. \/ sorted[x].order < sorted[x + 1].order
              \/ sorted[x].order = sorted[x + 1].order
          BY <1>3, <1>7, <3>1, Zenon
        <4>2. sorted[x].order \in Nat /\ sorted[x + 1].order \in Nat
          BY <1>8, <3>1
        <4> QED
          BY <4>1, <4>2
      <3>3. sorted[x + 1].order <= sorted[y].order
        <4>1. CASE x + 1 = y
          BY <1>8, <4>1
        <4>2. CASE x + 1 < y
          <5>1. sorted[x + 1].order < sorted[y].order \/ sorted[x + 1].order = sorted[y].order
            BY <1>3, <1>7, <3>1, <4>2, Zenon
          <5>2. sorted[x + 1].order \in Nat /\ sorted[y].order \in Nat
            BY <1>8, <3>1
          <5> QED
            BY <5>1, <5>2
        <4> QED
          BY <1>1, <2>4, <4>1, <4>2
      <3>4. sorted[x].order = sorted[x + 1].order
        BY <1>8, <2>4, <3>1, <3>2, <3>3
      <3> QED
        BY <3>1, <3>4
    <2>5. sorted[m].order = sorted[k].order
      BY <1>10, <2>1, <2>2
    <2> QED
      BY <1>1, <2>3, <2>4, <2>5
  <1>11. (\E i \in 1 .. n - 1 : sorted[i].order = sorted[i + 1].order) <=>
           \E a, b \in 1 .. n : list[a].order = list[b].order /\ a # b
    BY <1>9, <1>10, Zenon
  <1> QED
    BY <1>1, <1>4, <1>7, <1>11 DEF list

-----------------------------------------------------------------------------
(***************************************************************************)
(* When a document is refused.                                             *)
(***************************************************************************)

\* Which lists a document has, and of what.
Shaped(d) ==
  /\ IsList(d.classes)
  /\ IsList(d.overlays)
  /\ IsList(d.profiles)
  /\ IsList(d.variables)
  /\ \A i \in DOMAIN d.classes : d.classes[i].id \in Nat /\ d.classes[i].order \in Nat
  /\ \A i \in DOMAIN d.classes : d.classes[i].minimum \in Nat /\ d.classes[i].maximum \in Nat
  /\ \A i \in DOMAIN d.overlays : d.overlays[i].id \in Nat /\ d.overlays[i].source \in Sources
  /\ \A i \in DOMAIN d.profiles : d.profiles[i].id \in Nat
  /\ \A i \in DOMAIN d.profiles : \A c \in DOMAIN d.profiles[i].selections :
       IsList(d.profiles[i].selections[c])
  /\ \A i \in DOMAIN d.profiles : \A c \in DOMAIN d.profiles[i].selections :
       d.profiles[i].selections[c] \in Seq(Nat)

LEMMA SeqIsList ==
  ASSUME NEW S, NEW list \in Seq(S)
  PROVE  IsList(list) /\ \A i \in DOMAIN list : list[i] \in S
  BY DEF IsList

\* Every document of the model has them.
LEMMA DocumentShape ==
  ASSUME CompositionAssumption, NEW d \in Documents
  PROVE  Shaped(d)
  <1> DEFINE listed(list) == {list[i] : i \in DOMAIN list}
  <1>1. /\ d.classes \in Seq([id : Nat, order : Nat, minimum : Nat, maximum : Nat])
        /\ d.overlays \in Seq(listed(d.overlays)) /\ d.profiles \in Seq(listed(d.profiles))
        /\ d.variables \in Seq(listed(d.variables))
        /\ \A o \in listed(d.overlays) : o.id \in Nat /\ o.source \in Sources
        /\ \A p \in listed(d.profiles) :
             p.id \in Nat /\ \A c \in DOMAIN p.selections : p.selections[c] \in Seq(Nat)
    BY Zenon DEF CompositionAssumption
  <1>2. /\ \A i \in DOMAIN d.overlays : d.overlays[i] \in listed(d.overlays)
        /\ \A i \in DOMAIN d.profiles : d.profiles[i] \in listed(d.profiles)
    OBVIOUS
  <1> HIDE DEF listed
  <1>3. IsList(d.classes) /\ \A i \in DOMAIN d.classes :
          d.classes[i] \in [id : Nat, order : Nat, minimum : Nat, maximum : Nat]
    BY <1>1, SeqIsList, Zenon
  <1>4. IsList(d.overlays) /\ IsList(d.profiles) /\ IsList(d.variables)
    BY <1>1, SeqIsList, Zenon
  <1>5. \A i \in DOMAIN d.classes :
          /\ d.classes[i].id \in Nat /\ d.classes[i].order \in Nat
          /\ d.classes[i].minimum \in Nat /\ d.classes[i].maximum \in Nat
    BY <1>3
  <1>6. \A i \in DOMAIN d.profiles : \A c \in DOMAIN d.profiles[i].selections :
          IsList(d.profiles[i].selections[c])
    BY <1>1, <1>2, SeqIsList, Zenon
  <1>7. \A i \in DOMAIN d.profiles : \A c \in DOMAIN d.profiles[i].selections :
          d.profiles[i].selections[c] \in Seq(Nat)
    BY <1>1, <1>2, Zenon
  <1> QED
    BY <1>1, <1>2, <1>3, <1>4, <1>5, <1>6, <1>7, Zenon DEF Shaped

\* What each check of OverlayPack::new asks, in places of the lists as given.
OverlaySound(d, o) == o.class \in Ids(d.classes) /\ o.incompatible \subseteq Ids(d.overlays)

PickSound(d, class, picks, i) ==
  /\ \A j \in 1 .. i - 1 : picks[j] # picks[i]
  /\ picks[i] \in Ids(d.overlays)
  /\ With(d.overlays, picks[i]).class = class

ClassSound(d, profile, class) ==
  /\ class.minimum <= Len(Picks(profile, class.id))
  /\ Len(Picks(profile, class.id)) <= class.maximum
  /\ \A i \in DOMAIN Picks(profile, class.id) : PickSound(d, class.id, Picks(profile, class.id), i)

ProfileSound(d, profile) ==
  /\ DOMAIN profile.selections \subseteq Ids(d.classes)
  /\ \A i \in DOMAIN d.classes : ClassSound(d, profile, d.classes[i])

DocSound(d) ==
  /\ d.family # ""
  /\ Once(d.classes) /\ Once(d.overlays) /\ Once(d.profiles) /\ Once(d.variables)
  /\ \A i, j \in DOMAIN d.classes : d.classes[i].order = d.classes[j].order => i = j
  /\ \A i \in DOMAIN d.overlays : OverlaySound(d, d.overlays[i])
  /\ \A i \in DOMAIN d.profiles : ProfileSound(d, d.profiles[i])

\* Each check refuses what is not sound, for a reason of its own, and nothing else.
LEMMA OverlayRefusalIs ==
  ASSUME NEW d, NEW o
  PROVE  /\ OverlayRefusal(d, o) \in PackErrors \cup {Ok}
         /\ OverlayRefusal(d, o) = Ok <=> OverlaySound(d, o)
  <1> DEFINE known == o.class \in Ids(d.classes)
             referred == o.incompatible \subseteq Ids(d.overlays)
             checks == <<When(~known, "UnknownClass"), When(~referred, "UnknownOverlayReference")>>
             hits == {i \in 1 .. 2 : checks[i].applies}
             first == CHOOSE i \in hits : \A j \in hits : i <= j
  <1>1. OverlayRefusal(d, o) = FirstOf(checks)
    BY DEF OverlayRefusal
  <1>2. DOMAIN checks = 1 .. 2
    OBVIOUS
  <1>3. /\ checks[1].applies <=> ~known
        /\ checks[2].applies <=> ~referred
        /\ checks[1].refusal = "UnknownClass" /\ checks[2].refusal = "UnknownOverlayReference"
    BY DEF When
  <1> HIDE DEF checks, known, referred
  <1>4. CASE hits = {}
    <2>1. FirstOf(checks) = Ok
      BY <1>2, <1>4 DEF FirstOf
    <2>2. known /\ referred
      BY <1>3, <1>4
    <2> QED
      BY <1>1, <2>1, <2>2 DEF OverlaySound, known, referred
  <1>5. CASE hits # {}
    <2>1. FirstOf(checks) = checks[first].refusal
      BY <1>2, <1>5 DEF FirstOf
    <2>2. first \in hits
      <3>1. hits \in SUBSET (1 .. 2)
        OBVIOUS
      <3> HIDE DEF hits
      <3> QED
        BY <1>5, <3>1, FirstHit
    <2> HIDE DEF first
    <2>3. FirstOf(checks) \in {"UnknownClass", "UnknownOverlayReference"}
      BY <1>3, <2>1, <2>2
    <2>4. ~(known /\ referred)
      BY <1>3, <2>2
    <2> QED
      BY <1>1, <2>3, <2>4 DEF PackErrors, Ok, OverlaySound, known, referred
  <1> QED
    BY <1>4, <1>5

LEMMA PickRefusalIs ==
  ASSUME NEW d, NEW class, NEW picks, NEW i
  PROVE  /\ PickRefusal(d, class, picks, i) \in PackErrors \cup {Ok}
         /\ PickRefusal(d, class, picks, i) = Ok <=> PickSound(d, class, picks, i)
  BY DEF PickRefusal, PickSound, PackErrors, Ok

LEMMA ClassRefusalIs ==
  ASSUME NEW d, NEW profile, NEW class, class.minimum \in Nat, class.maximum \in Nat,
         IsList(Picks(profile, class.id))
  PROVE  /\ ClassRefusal(d, profile, class) \in PackErrors \cup {Ok}
         /\ ClassRefusal(d, profile, class) = Ok <=> ClassSound(d, profile, class)
  <1> DEFINE picks == Picks(profile, class.id)
             refusal(i) == PickRefusal(d, class.id, picks, i)
             wrong == {i \in DOMAIN picks : refusal(i) # Ok}
             first == CHOOSE i \in wrong : \A j \in wrong : i <= j
             fits == class.minimum <= Len(picks) /\ Len(picks) <= class.maximum
  <1>1. ClassRefusal(d, profile, class) =
          IF Len(picks) < class.minimum \/ Len(picks) > class.maximum THEN "CardinalityViolation"
          ELSE IF wrong = {} THEN Ok ELSE refusal(first)
    BY DEF ClassRefusal
  <1>2. Len(picks) \in Nat /\ DOMAIN picks = 1 .. Len(picks)
    BY DEF IsList
  <1>3. (Len(picks) < class.minimum \/ Len(picks) > class.maximum) <=> ~fits
    BY <1>2
  <1>4. \A i \in DOMAIN picks :
          /\ refusal(i) \in PackErrors \cup {Ok}
          /\ refusal(i) = Ok <=> PickSound(d, class.id, picks, i)
    BY PickRefusalIs
  <1>5. wrong # {} => first \in wrong
    <2>1. wrong \in SUBSET (1 .. Len(picks))
      BY <1>2
    <2> HIDE DEF wrong
    <2> QED
      BY <1>2, <2>1, FirstHit
  <1>6. ClassSound(d, profile, class) <=> fits /\ wrong = {}
    <2>1. wrong = {} <=> \A i \in DOMAIN picks : PickSound(d, class.id, picks, i)
      BY <1>4
    <2> HIDE DEF wrong
    <2> QED
      BY <2>1, Zenon DEF ClassSound
  <1>7. wrong # {} => refusal(first) \in PackErrors /\ refusal(first) # Ok
    BY <1>4, <1>5
  <1> HIDE DEF wrong, first, refusal, fits
  <1> QED
    BY <1>1, <1>3, <1>6, <1>7 DEF PackErrors, Ok

LEMMA ProfileRefusalIs ==
  ASSUME NEW d, Shaped(d), Once(d.classes), NEW profile,
         \A c \in DOMAIN profile.selections : IsList(profile.selections[c])
  PROVE  /\ ProfileRefusal(d, profile) \in PackErrors \cup {Ok}
         /\ ProfileRefusal(d, profile) = Ok <=> ProfileSound(d, profile)
  <1> DEFINE sorted == ByOrder(d.classes)
             refusal(class) == ClassRefusal(d, profile, class)
             hits == {i \in DOMAIN sorted : refusal(sorted[i]) # Ok}
             first == CHOOSE i \in hits : \A j \in hits : i <= j
             known == DOMAIN profile.selections \subseteq Ids(d.classes)
             inClasses == IF hits = {} THEN Ok ELSE refusal(sorted[first])
  <1>1. ProfileRefusal(d, profile) = IF ~known THEN "UnknownProfileClass" ELSE inClasses
    BY DEF ProfileRefusal, FirstIn
  <1>2. Alike(sorted, d.classes)
    BY ByOrderAlike DEF Shaped
  <1>3. \A i \in DOMAIN d.classes :
          /\ refusal(d.classes[i]) \in PackErrors \cup {Ok}
          /\ refusal(d.classes[i]) = Ok <=> ClassSound(d, profile, d.classes[i])
    <2> TAKE i \in DOMAIN d.classes
    <2>1. d.classes[i].minimum \in Nat /\ d.classes[i].maximum \in Nat
      BY DEF Shaped
    <2>2. IsList(Picks(profile, d.classes[i].id))
      BY DEF Picks, IsList
    <2> QED
      BY <2>1, <2>2, ClassRefusalIs
  <1> HIDE DEF refusal, sorted
  <1>4. \A m \in DOMAIN sorted : refusal(sorted[m]) \in PackErrors \cup {Ok}
    BY <1>2, <1>3 DEF Alike
  <1>5. hits = {} <=> \A i \in DOMAIN d.classes : ClassSound(d, profile, d.classes[i])
    <2>1. hits = {} <=> \A m \in DOMAIN sorted : refusal(sorted[m]) = Ok
      OBVIOUS
    <2> HIDE DEF hits
    <2> QED
      BY <1>2, <1>3, <2>1, Zenon DEF Alike
  <1>6. hits # {} => first \in hits
    <2>1. Len(sorted) \in Nat /\ hits \in SUBSET (1 .. Len(sorted))
      BY <1>2 DEF Alike, IsList
    <2> HIDE DEF hits
    <2> QED
      BY <2>1, FirstHit
  <1>7. hits # {} => refusal(sorted[first]) \in PackErrors /\ refusal(sorted[first]) # Ok
    BY <1>4, <1>6
  <1> HIDE DEF hits, first
  <1>8. inClasses \in PackErrors \cup {Ok} /\ (inClasses = Ok <=> hits = {})
    BY <1>7
  <1>9. ProfileSound(d, profile) <=> known /\ hits = {}
    BY <1>5, Zenon DEF ProfileSound
  <1> HIDE DEF known, inClasses
  <1> QED
    BY <1>1, <1>8, <1>9 DEF PackErrors, Ok

\* OverlayPack::new refuses a document exactly when it is not sound.
LEMMA PackRefusalIs ==
  ASSUME NEW d, Shaped(d)
  PROVE  /\ PackRefusal(d) \in PackErrors \cup {Ok}
         /\ PackRefusal(d) = Ok <=> DocSound(d)
  <1> DEFINE twice == \/ HasDuplicate(d.classes) \/ HasDuplicate(d.overlays)
                      \/ HasDuplicate(d.profiles) \/ HasDuplicate(d.variables)
             overlays == FirstIn(ById(d.overlays), LAMBDA o : OverlayRefusal(d, o))
             profiles == FirstIn(ById(d.profiles), LAMBDA p : ProfileRefusal(d, p))
             once == Once(d.classes) /\ Once(d.overlays) /\ Once(d.profiles) /\ Once(d.variables)
             ordered == \A i, j \in DOMAIN d.classes :
                          d.classes[i].order = d.classes[j].order => i = j
  <1>1. PackRefusal(d) =
          IF d.family = "" THEN "EmptySchemaFamily"
          ELSE IF twice THEN "DuplicateIdentifier"
          ELSE IF SameOrder(d) THEN "DuplicateClassOrder"
          ELSE IF overlays # Ok THEN overlays ELSE profiles
    BY DEF PackRefusal
  <1>2. ~twice <=> once
    <2>1. IsList(d.classes) /\ IsList(d.overlays) /\ IsList(d.profiles) /\ IsList(d.variables)
      BY Zenon DEF Shaped
    <2> QED
      BY <2>1, Duplicates, Zenon
  <1>3. ASSUME once
        PROVE  ~SameOrder(d) <=> ordered
    BY <1>3, SameOrderIs DEF Shaped
  <1>4. ASSUME once
        PROVE  /\ overlays \in PackErrors \cup {Ok}
               /\ overlays = Ok <=> \A i \in DOMAIN d.overlays : OverlaySound(d, d.overlays[i])
    <2> DEFINE sorted == ById(d.overlays)
               refusal(o) == OverlayRefusal(d, o)
               hits == {i \in DOMAIN sorted : refusal(sorted[i]) # Ok}
               first == CHOOSE i \in hits : \A j \in hits : i <= j
    <2>1. overlays = IF hits = {} THEN Ok ELSE refusal(sorted[first])
      BY DEF FirstIn
    <2>2. Alike(sorted, d.overlays)
      BY <1>4, ByIdAlike DEF Shaped
    <2>3. \A i \in DOMAIN d.overlays :
            /\ refusal(d.overlays[i]) \in PackErrors \cup {Ok}
            /\ refusal(d.overlays[i]) = Ok <=> OverlaySound(d, d.overlays[i])
      BY OverlayRefusalIs
    <2> HIDE DEF sorted, refusal, overlays
    <2>4. \A m \in DOMAIN sorted : refusal(sorted[m]) \in PackErrors \cup {Ok}
      BY <2>2, <2>3 DEF Alike
    <2>5. hits = {} <=> \A i \in DOMAIN d.overlays : OverlaySound(d, d.overlays[i])
      <3>1. hits = {} <=> \A m \in DOMAIN sorted : refusal(sorted[m]) = Ok
        OBVIOUS
      <3> HIDE DEF hits
      <3> QED
        BY <2>2, <2>3, <3>1, Zenon DEF Alike
    <2>6. hits # {} => first \in hits
      <3>1. Len(sorted) \in Nat /\ hits \in SUBSET (1 .. Len(sorted))
        BY <2>2 DEF Alike, IsList
      <3> HIDE DEF hits
      <3> QED
        BY <3>1, FirstHit
    <2>7. hits # {} => refusal(sorted[first]) \in PackErrors \cup {Ok} /\ refusal(sorted[first]) # Ok
      BY <2>4, <2>6
    <2> HIDE DEF hits, first
    <2> QED
      BY <2>1, <2>5, <2>7
  <1>5. ASSUME once
        PROVE  /\ profiles \in PackErrors \cup {Ok}
               /\ profiles = Ok <=> \A i \in DOMAIN d.profiles : ProfileSound(d, d.profiles[i])
    <2> DEFINE sorted == ById(d.profiles)
               refusal(p) == ProfileRefusal(d, p)
               hits == {i \in DOMAIN sorted : refusal(sorted[i]) # Ok}
               first == CHOOSE i \in hits : \A j \in hits : i <= j
    <2>1. profiles = IF hits = {} THEN Ok ELSE refusal(sorted[first])
      BY DEF FirstIn
    <2>2. Alike(sorted, d.profiles)
      BY <1>5, ByIdAlike DEF Shaped
    <2>3. \A i \in DOMAIN d.profiles :
            /\ refusal(d.profiles[i]) \in PackErrors \cup {Ok}
            /\ refusal(d.profiles[i]) = Ok <=> ProfileSound(d, d.profiles[i])
      BY <1>5, ProfileRefusalIs DEF Shaped
    <2> HIDE DEF sorted, refusal, profiles
    <2>4. \A m \in DOMAIN sorted : refusal(sorted[m]) \in PackErrors \cup {Ok}
      BY <2>2, <2>3 DEF Alike
    <2>5. hits = {} <=> \A i \in DOMAIN d.profiles : ProfileSound(d, d.profiles[i])
      <3>1. hits = {} <=> \A m \in DOMAIN sorted : refusal(sorted[m]) = Ok
        OBVIOUS
      <3> HIDE DEF hits
      <3> QED
        BY <2>2, <2>3, <3>1, Zenon DEF Alike
    <2>6. hits # {} => first \in hits
      <3>1. Len(sorted) \in Nat /\ hits \in SUBSET (1 .. Len(sorted))
        BY <2>2 DEF Alike, IsList
      <3> HIDE DEF hits
      <3> QED
        BY <3>1, FirstHit
    <2>7. hits # {} => refusal(sorted[first]) \in PackErrors \cup {Ok} /\ refusal(sorted[first]) # Ok
      BY <2>4, <2>6
    <2> HIDE DEF hits, first
    <2> QED
      BY <2>1, <2>5, <2>7
  <1> DEFINE soundOverlays == \A i \in DOMAIN d.overlays : OverlaySound(d, d.overlays[i])
             soundProfiles == \A i \in DOMAIN d.profiles : ProfileSound(d, d.profiles[i])
  <1>6. DocSound(d) <=> d.family # "" /\ once /\ ordered /\ soundOverlays /\ soundProfiles
    BY Zenon DEF DocSound
  <1>7. {"EmptySchemaFamily", "DuplicateIdentifier", "DuplicateClassOrder"} \subseteq PackErrors
        /\ Ok \notin PackErrors
    BY DEF PackErrors, Ok
  <1> HIDE DEF twice, overlays, profiles, once, ordered, soundOverlays, soundProfiles
  <1>8. Ok \notin {"EmptySchemaFamily", "DuplicateIdentifier", "DuplicateClassOrder"}
    BY DEF Ok
  <1>9. PackRefusal(d) \in PackErrors \cup {Ok}
    BY <1>1, <1>2, <1>4, <1>5, <1>7
  <1>10. PackRefusal(d) = Ok <=> /\ d.family # "" /\ ~twice /\ ~SameOrder(d)
                                 /\ overlays = Ok /\ profiles = Ok
    BY <1>1, <1>8
  <1>11. PackRefusal(d) = Ok <=> /\ d.family # "" /\ once /\ ~SameOrder(d)
                                 /\ overlays = Ok /\ profiles = Ok
    BY <1>2, <1>10, Zenon
  <1>12. PackRefusal(d) = Ok <=> /\ d.family # "" /\ once /\ ordered
                                 /\ soundOverlays /\ soundProfiles
    BY <1>3, <1>4, <1>5, <1>11, Zenon DEF soundOverlays, soundProfiles
  <1> QED
    BY <1>6, <1>9, <1>12, Zenon

\* What the two ways of saying "sound" have in common, part by part.
LEMMA OrdersAlike ==
  ASSUME NEW list, Once(list)
  PROVE  (\A a, b \in Elements(list) : a.order = b.order => a = b) <=>
           \A i, j \in DOMAIN list : list[i].order = list[j].order => i = j
  <1>1. ASSUME \A a, b \in Elements(list) : a.order = b.order => a = b,
               NEW i \in DOMAIN list, NEW j \in DOMAIN list, list[i].order = list[j].order
        PROVE  i = j
    <2>1. list[i] \in Elements(list) /\ list[j] \in Elements(list)
      BY DEF Elements
    <2>2. list[i].id = list[j].id
      BY <1>1, <2>1
    <2> QED
      BY <2>2, Zenon DEF Once
  <1>2. ASSUME \A i, j \in DOMAIN list : list[i].order = list[j].order => i = j,
               NEW a \in Elements(list), NEW b \in Elements(list), a.order = b.order
        PROVE  a = b
    BY <1>2 DEF Elements
  <1> QED
    BY <1>1, <1>2, Zenon

\* The same, of elements in place of places.
LEMMA OfId ==
  ASSUME NEW list, NEW id
  PROVE  {c \in Elements(list) : c.id = id} # {} <=> id \in Ids(list)
  BY DEF Elements, Ids

LEMMA OfClass ==
  ASSUME NEW list, Once(list), NEW id, NEW class
  PROVE  (\E o \in {o \in Elements(list) : o.id = id} : o.class = class) <=>
           id \in Ids(list) /\ With(list, id).class = class
  <1>1. ASSUME NEW o \in Elements(list), o.id = id, o.class = class
        PROVE  id \in Ids(list) /\ With(list, id).class = class
    <2>1. PICK i \in DOMAIN list : o = list[i]
      BY DEF Elements
    <2>2. With(list, list[i].id) = list[i]
      BY WithIs
    <2> QED
      BY <1>1, <2>1, <2>2 DEF Ids
  <1>2. ASSUME id \in Ids(list), With(list, id).class = class
        PROVE  \E o \in Elements(list) : o.id = id /\ o.class = class
    <2>1. PICK i \in DOMAIN list : With(list, id) = list[i] /\ list[i].id = id
      BY <1>2, WithFound
    <2> QED
      BY <1>2, <2>1 DEF Elements
  <1> QED
    BY <1>1, <1>2

\* A profile, as PacksExactly says it of one.
ProfileFits(d, p) ==
  LET classOf(id) == {c \in Elements(d.classes) : c.id = id}
      overlayOf(id) == {o \in Elements(d.overlays) : o.id = id}
  IN /\ \A c \in DOMAIN p.selections : classOf(c) # {}
     /\ \A c \in DOMAIN p.selections : \A i \in DOMAIN p.selections[c] :
          /\ \E o \in overlayOf(p.selections[c][i]) : o.class = c
          /\ \A j \in DOMAIN p.selections[c] : j # i => p.selections[c][j] # p.selections[c][i]
     /\ \A c \in Elements(d.classes) :
          LET n == IF c.id \in DOMAIN p.selections THEN Len(p.selections[c.id]) ELSE 0
          IN c.minimum <= n /\ n <= c.maximum

\* A profile fits a document exactly when the checks of it pass.
LEMMA ProfilesAlike ==
  ASSUME NEW d, Shaped(d), Once(d.classes), Once(d.overlays), NEW p,
         \A c \in DOMAIN p.selections : IsList(p.selections[c])
  PROVE  ProfileFits(d, p) <=> ProfileSound(d, p)
  <1> DEFINE known == DOMAIN p.selections \subseteq Ids(d.classes)
             picksFit(c) == \A i \in DOMAIN p.selections[c] :
               /\ p.selections[c][i] \in Ids(d.overlays)
               /\ With(d.overlays, p.selections[c][i]).class = c
               /\ \A j \in DOMAIN p.selections[c] : j # i => p.selections[c][j] # p.selections[c][i]
             picksSound(c) == \A i \in DOMAIN Picks(p, c) : PickSound(d, c, Picks(p, c), i)
             counted(c) == /\ c.minimum <= Len(Picks(p, c.id))
                           /\ Len(Picks(p, c.id)) <= c.maximum
  <1>1. ASSUME NEW c \in DOMAIN p.selections PROVE picksFit(c) <=> picksSound(c)
    <2> DEFINE picks == p.selections[c]
    <2>1. Picks(p, c) = picks
      BY DEF Picks
    <2>2. Len(picks) \in Nat /\ DOMAIN picks = 1 .. Len(picks)
      BY DEF IsList
    <2>3. picksFit(c) => picksSound(c)
      <3> SUFFICES ASSUME picksFit(c), NEW i \in DOMAIN picks PROVE PickSound(d, c, picks, i)
        BY <2>1
      <3>1. \A j \in 1 .. i - 1 : j \in DOMAIN picks /\ j # i
        BY <2>2
      <3> QED
        BY <3>1 DEF PickSound
    <2>4. picksSound(c) => picksFit(c)
      <3> SUFFICES ASSUME picksSound(c), NEW i \in DOMAIN picks
                   PROVE  /\ picks[i] \in Ids(d.overlays)
                          /\ With(d.overlays, picks[i]).class = c
                          /\ \A j \in DOMAIN picks : j # i => picks[j] # picks[i]
        OBVIOUS
      <3>1. \A k \in DOMAIN picks : PickSound(d, c, picks, k)
        BY <2>1
      <3>2. ASSUME NEW j \in DOMAIN picks, j # i PROVE picks[j] # picks[i]
        <4>1. CASE j < i
          <5>1. j \in 1 .. i - 1
            BY <2>2, <4>1
          <5> QED
            BY <3>1, <5>1 DEF PickSound
        <4>2. CASE i < j
          <5>1. i \in 1 .. j - 1
            BY <2>2, <4>2
          <5> QED
            BY <3>1, <5>1 DEF PickSound
        <4> QED
          BY <2>2, <3>2, <4>1, <4>2
      <3> QED
        BY <3>1, <3>2 DEF PickSound
    <2> QED
      BY <2>3, <2>4
  <1>2. ASSUME NEW c, c \notin DOMAIN p.selections PROVE picksSound(c) /\ Len(Picks(p, c)) = 0
    BY <1>2 DEF Picks
  <1>3. ProfileSound(d, p) <=>
          /\ known
          /\ \A i \in DOMAIN d.classes : counted(d.classes[i]) /\ picksSound(d.classes[i].id)
    BY Zenon DEF ProfileSound, ClassSound
  <1>4. ProfileFits(d, p) <=>
          /\ known
          /\ \A c \in DOMAIN p.selections : picksFit(c)
          /\ \A c \in Elements(d.classes) : counted(c)
    <2>1. known <=> \A c \in DOMAIN p.selections : {k \in Elements(d.classes) : k.id = c} # {}
      BY OfId
    <2>2. \A id, class : (\E o \in {o \in Elements(d.overlays) : o.id = id} : o.class = class) <=>
                           id \in Ids(d.overlays) /\ With(d.overlays, id).class = class
      <3> TAKE id, class
      <3> QED
        BY OfClass
    <2>3. \A c : Len(Picks(p, c)) = IF c \in DOMAIN p.selections THEN Len(p.selections[c]) ELSE 0
      BY <1>2, Zenon DEF Picks
    <2> DEFINE fits(c) == \A i \in DOMAIN p.selections[c] :
                 /\ \E o \in {o \in Elements(d.overlays) : o.id = p.selections[c][i]} : o.class = c
                 /\ \A j \in DOMAIN p.selections[c] : j # i => p.selections[c][j] # p.selections[c][i]
               within(c) ==
                 LET n == IF c.id \in DOMAIN p.selections THEN Len(p.selections[c.id]) ELSE 0
                 IN c.minimum <= n /\ n <= c.maximum
    <2>4. \A c : fits(c) <=> picksFit(c)
      <3> TAKE c
      <3>1. \A i : (\E o \in {o \in Elements(d.overlays) : o.id = p.selections[c][i]} : o.class = c) <=>
                     /\ p.selections[c][i] \in Ids(d.overlays)
                     /\ With(d.overlays, p.selections[c][i]).class = c
        BY <2>2, Zenon
      <3> QED
        BY <3>1, Zenon
    <2>5. \A c : within(c) <=> counted(c)
      BY <2>3
    <2>6. ProfileFits(d, p) <=>
            /\ \A c \in DOMAIN p.selections : {k \in Elements(d.classes) : k.id = c} # {}
            /\ \A c \in DOMAIN p.selections : fits(c)
            /\ \A c \in Elements(d.classes) : within(c)
      BY Zenon DEF ProfileFits
    <2> HIDE DEF known, picksFit, fits, within, counted
    <2> QED
      BY <2>1, <2>4, <2>5, <2>6, Zenon
  <1> HIDE DEF picksFit, picksSound
  <1>5. (\A c \in Elements(d.classes) : counted(c)) <=> \A i \in DOMAIN d.classes : counted(d.classes[i])
    BY Zenon DEF Elements
  <1>6. ASSUME known
        PROVE  (\A c \in DOMAIN p.selections : picksFit(c)) <=>
                 \A i \in DOMAIN d.classes : picksSound(d.classes[i].id)
    <2>1. ASSUME \A c \in DOMAIN p.selections : picksFit(c), NEW i \in DOMAIN d.classes
          PROVE  picksSound(d.classes[i].id)
      BY <1>1, <1>2, <2>1, Zenon
    <2>2. ASSUME \A i \in DOMAIN d.classes : picksSound(d.classes[i].id),
                 NEW c \in DOMAIN p.selections
          PROVE  picksFit(c)
      <3>1. PICK i \in DOMAIN d.classes : d.classes[i].id = c
        BY <1>6 DEF Ids
      <3> QED
        BY <1>1, <2>2, <3>1, Zenon
    <2> QED
      BY <2>1, <2>2, Zenon
  <1> HIDE DEF known, counted
  <1> QED
    BY <1>3, <1>4, <1>5, <1>6, Zenon

\* What PacksExactly calls sound is what OverlayPack::new accepts.
LEMMA PacksFromRefusal ==
  ASSUME Shaped(doc), pc # "new" => (pack # NoPack <=> PackRefusal(doc) = Ok)
  PROVE  PacksExactly
  <1> DEFINE once(list) == \A i, j \in DOMAIN list : list[i].id = list[j].id => i = j
             classOf(id) == {c \in Elements(doc.classes) : c.id = id}
             overlayOf(id) == {o \in Elements(doc.overlays) : o.id = id}
             onceAll == /\ once(doc.classes) /\ once(doc.overlays)
                        /\ once(doc.profiles) /\ once(doc.variables)
             ordered == \A a, b \in Elements(doc.classes) : a.order = b.order => a = b
             overlays == \A o \in Elements(doc.overlays) :
               classOf(o.class) # {} /\ \A id \in o.incompatible : overlayOf(id) # {}
             profiles == \A p \in Elements(doc.profiles) : ProfileFits(doc, p)
             sound == doc.family # "" /\ onceAll /\ ordered /\ overlays /\ profiles
  <1>1. onceAll <=> Once(doc.classes) /\ Once(doc.overlays) /\ Once(doc.profiles) /\ Once(doc.variables)
    BY Zenon DEF Once
  <1>2. ASSUME onceAll
        PROVE  ordered <=> \A i, j \in DOMAIN doc.classes :
                             doc.classes[i].order = doc.classes[j].order => i = j
    BY <1>1, <1>2, OrdersAlike, Zenon
  <1>3. overlays <=> \A i \in DOMAIN doc.overlays : OverlaySound(doc, doc.overlays[i])
    <2>1. \A o : OverlaySound(doc, o) <=>
            classOf(o.class) # {} /\ \A id \in o.incompatible : overlayOf(id) # {}
      <3>1. \A id : (classOf(id) # {} <=> id \in Ids(doc.classes))
                    /\ (overlayOf(id) # {} <=> id \in Ids(doc.overlays))
        BY OfId, Zenon
      <3> HIDE DEF classOf, overlayOf
      <3> QED
        BY <3>1 DEF OverlaySound
    <2> HIDE DEF classOf, overlayOf
    <2> QED
      BY <2>1, Zenon DEF Elements
  <1>4. ASSUME onceAll
        PROVE  profiles <=> \A i \in DOMAIN doc.profiles : ProfileSound(doc, doc.profiles[i])
    <2>1. \A i \in DOMAIN doc.profiles :
            ProfileFits(doc, doc.profiles[i]) <=> ProfileSound(doc, doc.profiles[i])
      <3> TAKE i \in DOMAIN doc.profiles
      <3>1. \A c \in DOMAIN doc.profiles[i].selections : IsList(doc.profiles[i].selections[c])
        BY Zenon DEF Shaped
      <3> QED
        BY <1>1, <1>4, <3>1, ProfilesAlike, Zenon
    <2> QED
      BY <2>1, Zenon DEF Elements
  <1>5. sound <=> DocSound(doc)
    <2> HIDE DEF ordered, overlays, profiles, onceAll
    <2> QED
      BY <1>1, <1>2, <1>3, <1>4, Zenon DEF DocSound
  <1>6. pc # "new" => (pack # NoPack <=> sound)
    BY <1>5, PackRefusalIs, Zenon
  <1>7. sound <=>
        /\ doc.family # ""
        /\ once(doc.classes) /\ once(doc.overlays) /\ once(doc.profiles) /\ once(doc.variables)
        /\ \A a, b \in Elements(doc.classes) : a.order = b.order => a = b
        /\ \A o \in Elements(doc.overlays) :
             classOf(o.class) # {} /\ \A id \in o.incompatible : overlayOf(id) # {}
        /\ \A p \in Elements(doc.profiles) :
             /\ \A c \in DOMAIN p.selections : classOf(c) # {}
             /\ \A c \in DOMAIN p.selections : \A i \in DOMAIN p.selections[c] :
                  /\ \E o \in overlayOf(p.selections[c][i]) : o.class = c
                  /\ \A j \in DOMAIN p.selections[c] : j # i => p.selections[c][j] # p.selections[c][i]
             /\ \A c \in Elements(doc.classes) :
                  LET n == IF c.id \in DOMAIN p.selections THEN Len(p.selections[c.id]) ELSE 0
                  IN c.minimum <= n /\ n <= c.maximum
    BY Zenon DEF ProfileFits
  <1> QED
    <2> HIDE DEF sound
    <2> QED
      BY <1>6, <1>7, Zenon DEF PacksExactly

-----------------------------------------------------------------------------
(***************************************************************************)
(* The recursive functions: lists joined, numbers added up.                *)
(***************************************************************************)

\* f holds what the first lists make when they are put end to end.
JoinStep(lists, f, n) == IF n = 0 THEN <<>> ELSE f[n - 1] \o lists[n]
Joins(f, lists, m) == f = [n \in 0 .. m |-> JoinStep(lists, f, n)]

\* There is such an f, for any lists.
LEMMA JoinExists ==
  ASSUME NEW lists
  PROVE  \A m \in Nat : \E f : Joins(f, lists, m)
  <1> DEFINE S == {m \in Nat : \E f : Joins(f, lists, m)}
  <1>1. 0 \in S
    <2>1. Joins([n \in 0 .. 0 |-> <<>>], lists, 0)
      BY DEF Joins, JoinStep
    <2> QED
      BY <2>1
  <1>2. ASSUME NEW m \in Nat, m \in S PROVE m + 1 \in S
    <2>1. PICK f : Joins(f, lists, m)
      BY <1>2
    <2> DEFINE g == [n \in 0 .. m + 1 |-> IF n <= m THEN f[n] ELSE JoinStep(lists, f, n)]
    <2>2. \A n \in 0 .. m : f[n] = JoinStep(lists, f, n)
      BY <2>1 DEF Joins
    <2>3. \A n \in 0 .. m : g[n] = f[n]
      OBVIOUS
    <2>4. g[m + 1] = JoinStep(lists, f, m + 1)
      OBVIOUS
    <2>5. g = [n \in 0 .. m + 1 |-> g[n]]
      OBVIOUS
    <2> HIDE DEF g
    <2>6. ASSUME NEW n \in 0 .. m + 1 PROVE g[n] = JoinStep(lists, g, n)
      <3>1. n = 0 \/ n - 1 \in 0 .. m
        OBVIOUS
      <3>2. JoinStep(lists, g, n) = JoinStep(lists, f, n)
        BY <2>3, <3>1 DEF JoinStep
      <3>3. n \in 0 .. m \/ n = m + 1
        OBVIOUS
      <3> QED
        BY <2>2, <2>3, <2>4, <3>2, <3>3
    <2>7. Joins(g, lists, m + 1)
      BY <2>5, <2>6 DEF Joins
    <2> QED
      BY <2>7
  <1> HIDE DEF S
  <1>3. Nat \subseteq S
    BY <1>1, <1>2, NumberInduct
  <1> QED
    BY <1>3 DEF S

\* The pieces of a join, one after another.
Pieces(f, lists, m) ==
  /\ \A n \in 0 .. m : f[n] \in Seq(Nat)
  /\ Len(f[0]) = 0
  /\ \A n \in 1 .. m : Len(f[n]) = Len(f[n - 1]) + Len(lists[n])
  /\ \A n \in 1 .. m : \A k \in 1 .. Len(f[n - 1]) : f[n][k] = f[n - 1][k]
  /\ \A n \in 1 .. m : \A i \in 1 .. Len(lists[n]) : f[n][Len(f[n - 1]) + i] = lists[n][i]

\* Each list adds its elements behind those before it.
LEMMA JoinParts ==
  ASSUME NEW m \in Nat, NEW lists, \A n \in 1 .. m : lists[n] \in Seq(Nat),
         NEW f, Joins(f, lists, m)
  PROVE  Pieces(f, lists, m)
  <1>1. \A n \in 0 .. m : f[n] = JoinStep(lists, f, n)
    BY DEF Joins
  <1>2. f[0] = <<>>
    BY <1>1 DEF JoinStep
  <1>3. \A n \in 1 .. m : f[n] = f[n - 1] \o lists[n]
    <2> TAKE n \in 1 .. m
    <2>1. f[n] = JoinStep(lists, f, n) /\ n # 0
      BY <1>1
    <2> QED
      BY <2>1 DEF JoinStep
  <1> DEFINE S == {n \in Nat : n <= m => f[n] \in Seq(Nat)}
  <1>4. 0 \in S
    <2>1. <<>> \in Seq(Nat)
      OBVIOUS
    <2> QED
      BY <1>2, <2>1
  <1>5. ASSUME NEW n \in Nat, n \in S PROVE n + 1 \in S
    <2> SUFFICES ASSUME n + 1 <= m PROVE f[n + 1] \in Seq(Nat)
      OBVIOUS
    <2>1. f[n] \in Seq(Nat) /\ n + 1 \in 1 .. m /\ (n + 1) - 1 = n
      BY <1>5
    <2>2. f[n + 1] = f[n] \o lists[n + 1]
      BY <1>3, <2>1
    <2>3. lists[n + 1] \in Seq(Nat)
      BY <2>1
    <2> QED
      BY <2>1, <2>2, <2>3
  <1> HIDE DEF S
  <1>6. Nat \subseteq S
    BY <1>4, <1>5, NumberInduct
  <1>7. \A n \in 0 .. m : f[n] \in Seq(Nat)
    BY <1>6 DEF S
  <1>8. ASSUME NEW n \in 1 .. m
        PROVE  /\ Len(f[n]) = Len(f[n - 1]) + Len(lists[n])
               /\ \A k \in 1 .. Len(f[n - 1]) : f[n][k] = f[n - 1][k]
               /\ \A i \in 1 .. Len(lists[n]) : f[n][Len(f[n - 1]) + i] = lists[n][i]
    <2> DEFINE a == f[n - 1]
               b == lists[n]
               c == f[n]
    <2>1. a \in Seq(Nat) /\ b \in Seq(Nat) /\ c = a \o b
      <3>1. n - 1 \in 0 .. m
        OBVIOUS
      <3> QED
        BY <1>3, <1>7, <3>1, Zenon
    <2> HIDE DEF a, b, c
    <2>2. Len(c) = Len(a) + Len(b)
      BY <2>1
    <2>3. \A k \in 1 .. Len(a) : c[k] = a[k]
      BY <2>1
    <2>4. \A i \in 1 .. Len(b) : c[Len(a) + i] = b[i]
      BY <2>1
    <2> QED
      BY <2>2, <2>3, <2>4 DEF a, b, c
  <1>9. Len(f[0]) = 0
    BY <1>2
  <1> QED
    BY <1>7, <1>8, <1>9, Zenon DEF Pieces

\* An earlier piece is at the beginning of every later one.
Begins(f, c, m) ==
  \A n \in c .. m : /\ Len(f[c]) <= Len(f[n])
                    /\ \A k \in 1 .. Len(f[c]) : f[n][k] = f[c][k]

\* What was there stays where it was.
LEMMA JoinPrefix ==
  ASSUME NEW m \in Nat, NEW lists, \A n \in 1 .. m : lists[n] \in Seq(Nat),
         NEW f, Joins(f, lists, m), NEW c \in 0 .. m
  PROVE  Begins(f, c, m)
  <1> DEFINE good(n) == Len(f[c]) <= Len(f[n]) /\ \A k \in 1 .. Len(f[c]) : f[n][k] = f[c][k]
             S == {j \in Nat : c + j <= m => good(c + j)}
  <1>0. Pieces(f, lists, m)
    BY JoinParts
  <1>1. \A n \in 0 .. m : Len(f[n]) \in Nat
    <2> TAKE n \in 0 .. m
    <2>1. f[n] \in Seq(Nat)
      BY <1>0, Zenon DEF Pieces
    <2> QED
      BY <2>1
  <1>2. 0 \in S
    BY <1>1
  <1>3. ASSUME NEW j \in Nat, j \in S PROVE j + 1 \in S
    <2> SUFFICES ASSUME c + (j + 1) <= m PROVE good(c + (j + 1))
      OBVIOUS
    <2> DEFINE n == c + (j + 1)
    <2>1. n \in 1 .. m /\ n - 1 = c + j /\ c + j \in 0 .. m /\ c + j <= m
      OBVIOUS
    <2>2. good(c + j)
      BY <1>3, <2>1
    <2> HIDE DEF n
    <2>3. Len(f[n]) = Len(f[c + j]) + Len(lists[n]) /\ \A k \in 1 .. Len(f[c + j]) : f[n][k] = f[c + j][k]
      <3>1. Len(f[n]) = Len(f[n - 1]) + Len(lists[n]) /\ \A k \in 1 .. Len(f[n - 1]) : f[n][k] = f[n - 1][k]
        BY <1>0, <2>1, Zenon DEF Pieces
      <3> QED
        BY <2>1, <3>1
    <2>4. Len(f[c]) \in Nat /\ Len(f[c + j]) \in Nat /\ Len(lists[n]) \in Nat
      BY <1>1, <2>1
    <2>5. \A k \in 1 .. Len(f[c]) : k \in 1 .. Len(f[c + j])
      BY <2>2, <2>4
    <2>6. Len(f[c]) <= Len(f[n])
      <3>1. Len(f[c]) <= Len(f[c + j]) /\ Len(f[n]) = Len(f[c + j]) + Len(lists[n])
        BY <2>2, <2>3
      <3> DEFINE x == Len(f[c])
                 y == Len(f[c + j])
                 z == Len(lists[n])
                 u == Len(f[n])
      <3>2. x \in Nat /\ y \in Nat /\ z \in Nat /\ x <= y /\ u = y + z
        BY <2>4, <3>1, Zenon
      <3> HIDE DEF x, y, z, u
      <3>3. x <= u
        BY ONLY <3>2
      <3> QED
        BY <3>3, Zenon DEF x, u
    <2>7. \A k \in 1 .. Len(f[c]) : f[n][k] = f[c][k]
      BY <2>2, <2>3, <2>5
    <2> QED
      BY <2>6, <2>7 DEF n
  <1> HIDE DEF S
  <1>4. Nat \subseteq S
    BY <1>2, <1>3, NumberInduct
  <1>5. ASSUME NEW n \in c .. m PROVE good(n)
    <2>1. n - c \in Nat /\ c + (n - c) = n
      OBVIOUS
    <2>2. n - c \in S
      BY <1>4, <2>1
    <2> QED
      BY <2>1, <2>2 DEF S
  <1> QED
    BY <1>5 DEF Begins

\* Which list an element of the join is of, and where in it: places are in order.
LEMMA JoinPlaces ==
  ASSUME NEW m \in Nat, NEW lists, \A n \in 1 .. m : lists[n] \in Seq(Nat),
         NEW f, Joins(f, lists, m)
  PROVE  /\ \A c \in 1 .. m : \A i \in 1 .. Len(lists[c]) :
              /\ Len(f[c - 1]) + i \in 1 .. Len(f[m])
              /\ f[m][Len(f[c - 1]) + i] = lists[c][i]
         /\ \A k \in 1 .. Len(f[m]) :
              \E c \in 1 .. m : \E i \in 1 .. Len(lists[c]) : k = Len(f[c - 1]) + i
         /\ \A c, e \in 1 .. m : \A i \in 1 .. Len(lists[c]), j \in 1 .. Len(lists[e]) :
              Len(f[c - 1]) + i < Len(f[e - 1]) + j => c < e \/ (c = e /\ i < j)
  <1>0. Pieces(f, lists, m)
    BY JoinParts
  <1>1. \A n \in 0 .. m : Len(f[n]) \in Nat
    <2> TAKE n \in 0 .. m
    <2>1. f[n] \in Seq(Nat)
      BY <1>0, Zenon DEF Pieces
    <2> QED
      BY <2>1
  <1>2. \A n \in 1 .. m : Len(lists[n]) \in Nat
    OBVIOUS
  <1>3. \A n \in 1 .. m : Len(f[n]) = Len(f[n - 1]) + Len(lists[n])
    BY <1>0, Zenon DEF Pieces
  <1>4. ASSUME NEW c \in 1 .. m, NEW i \in 1 .. Len(lists[c])
        PROVE  /\ Len(f[c - 1]) + i \in 1 .. Len(f[m])
               /\ f[m][Len(f[c - 1]) + i] = lists[c][i]
    <2> DEFINE k == Len(f[c - 1]) + i
    <2>1. c - 1 \in 0 .. m /\ c \in 0 .. m /\ m \in c .. m
      OBVIOUS
    <2>2. Len(f[c - 1]) \in Nat /\ Len(lists[c]) \in Nat /\ Len(f[c]) \in Nat
      BY <1>1, <1>2, <2>1
    <2>3. Len(f[c]) = Len(f[c - 1]) + Len(lists[c])
      BY <1>3
    <2>4. k \in 1 .. Len(f[c])
      <3> DEFINE x == Len(f[c - 1])
                 y == Len(lists[c])
                 z == Len(f[c])
      <3>1. i \in 1 .. y /\ x \in Nat /\ y \in Nat /\ z = x + y
        BY <2>2, <2>3, Zenon
      <3> HIDE DEF x, y, z
      <3>2. x + i \in 1 .. z
        BY ONLY <3>1
      <3> QED
        BY <3>2, Zenon DEF x, z
    <2>5. f[c][k] = lists[c][i]
      BY <1>0, Zenon DEF Pieces
    <2> HIDE DEF k
    <2>6. Len(f[c]) <= Len(f[m]) /\ f[m][k] = f[c][k]
      <3>1. Begins(f, c, m)
        BY <2>1, JoinPrefix
      <3> QED
        BY <2>1, <2>4, <3>1, Zenon DEF Begins
    <2>7. Len(f[m]) \in Nat
      BY <1>1
    <2> QED
      BY <2>2, <2>4, <2>5, <2>6, <2>7 DEF k
  <1>5. ASSUME NEW k \in 1 .. Len(f[m])
        PROVE  \E c \in 1 .. m : \E i \in 1 .. Len(lists[c]) : k = Len(f[c - 1]) + i
    <2> DEFINE S == {n \in 0 .. m : k <= Len(f[n])}
    <2>1. m \in S /\ S \in SUBSET Nat
      BY <1>1
    <2> HIDE DEF S
    <2>2. PICK c \in S : \A n \in S : c <= n
      BY <2>1, LeastExists
    <2>3. c \in 0 .. m /\ k <= Len(f[c])
      BY <2>2 DEF S
    <2>4. c # 0
      <3>1. Len(f[0]) = 0
        BY <1>0, Zenon DEF Pieces
      <3>2. k \in Nat /\ 1 <= k
        BY <1>1
      <3> QED
        BY <2>3, <3>1, <3>2
    <2>5. c \in 1 .. m /\ c - 1 \in 0 .. m /\ c - 1 < c
      BY <2>3, <2>4
    <2>6. ~(k <= Len(f[c - 1]))
      BY <2>2, <2>5 DEF S
    <2>7. Len(f[c - 1]) \in Nat /\ Len(lists[c]) \in Nat /\ Len(f[c]) = Len(f[c - 1]) + Len(lists[c])
      BY <1>1, <1>2, <1>3, <2>5
    <2>8. k \in Nat
      BY <1>1
    <2> DEFINE i == k - Len(f[c - 1])
    <2>9. i \in 1 .. Len(lists[c]) /\ k = Len(f[c - 1]) + i
      <3> DEFINE x == Len(f[c - 1])
                 y == Len(lists[c])
                 z == Len(f[c])
      <3>1. x \in Nat /\ y \in Nat /\ z = x + y /\ k \in Nat /\ k <= z /\ ~(k <= x)
        BY <2>3, <2>6, <2>7, <2>8, Zenon
      <3> HIDE DEF x, y, z
      <3>2. k - x \in 1 .. y /\ k = x + (k - x)
        BY ONLY <3>1
      <3> QED
        BY <3>2, Zenon DEF x, y
    <2> HIDE DEF i
    <2> QED
      BY <2>5, <2>9
  <1>6. ASSUME NEW c \in 1 .. m, NEW e \in 1 .. m, NEW i \in 1 .. Len(lists[c]),
               NEW j \in 1 .. Len(lists[e]), Len(f[c - 1]) + i < Len(f[e - 1]) + j
        PROVE  c < e \/ (c = e /\ i < j)
    <2>1. /\ Len(f[c - 1]) \in Nat /\ Len(f[e - 1]) \in Nat /\ Len(f[e]) \in Nat
          /\ Len(lists[c]) \in Nat /\ Len(lists[e]) \in Nat
      BY <1>1, <1>2
    <2>2. CASE c = e
      BY <1>6, <2>1, <2>2
    <2>3. CASE e < c
      <3>1. e \in 0 .. m /\ c - 1 \in e .. m
        BY <2>3
      <3>2. Len(f[e]) <= Len(f[c - 1])
        <4>1. Begins(f, e, m)
          BY <3>1, JoinPrefix
        <4>2. c - 1 \in e .. m
          BY <3>1
        <4> QED
          BY <4>1, <4>2, Zenon DEF Begins
      <3>3. Len(f[e]) = Len(f[e - 1]) + Len(lists[e])
        BY <1>3
      <3>4. i \in Nat /\ 1 <= i /\ j \in Nat /\ j <= Len(lists[e])
        BY <2>1
      <3> DEFINE x == Len(f[c - 1])
                 y == Len(f[e - 1])
                 z == Len(f[e])
                 u == Len(lists[e])
      <3>5. x \in Nat /\ y \in Nat /\ z \in Nat /\ u \in Nat /\ z <= x /\ z = y + u
        BY <2>1, <3>2, <3>3, Zenon
      <3>6. x + i < y + j /\ i \in Nat /\ 1 <= i /\ j \in Nat /\ j <= u
        BY <1>6, <3>4, Zenon
      <3> HIDE DEF x, y, z, u
      <3> QED
        BY ONLY <3>5, <3>6
    <2> QED
      BY <2>2, <2>3
  <1> QED
    BY <1>4, <1>5, <1>6

\* f holds the sums of the first weights.
SumStep(w, f, n) == IF n = 0 THEN 0 ELSE f[n - 1] + w[n]
Sums(f, w, m) == f = [n \in 0 .. m |-> SumStep(w, f, n)]

\* There is such an f, for any weights.
LEMMA SumExists ==
  ASSUME NEW w
  PROVE  \A m \in Nat : \E f : Sums(f, w, m)
  <1> DEFINE S == {m \in Nat : \E f : Sums(f, w, m)}
  <1>1. 0 \in S
    <2>1. Sums([n \in 0 .. 0 |-> 0], w, 0)
      BY DEF Sums, SumStep
    <2> QED
      BY <2>1
  <1>2. ASSUME NEW m \in Nat, m \in S PROVE m + 1 \in S
    <2>1. PICK f : Sums(f, w, m)
      BY <1>2
    <2> DEFINE g == [n \in 0 .. m + 1 |-> IF n <= m THEN f[n] ELSE SumStep(w, f, n)]
    <2>2. \A n \in 0 .. m : f[n] = SumStep(w, f, n)
      BY <2>1 DEF Sums
    <2>3. \A n \in 0 .. m : g[n] = f[n]
      OBVIOUS
    <2>4. g[m + 1] = SumStep(w, f, m + 1)
      OBVIOUS
    <2>5. g = [n \in 0 .. m + 1 |-> g[n]]
      OBVIOUS
    <2> HIDE DEF g
    <2>6. ASSUME NEW n \in 0 .. m + 1 PROVE g[n] = SumStep(w, g, n)
      <3>1. n = 0 \/ n - 1 \in 0 .. m
        OBVIOUS
      <3>2. SumStep(w, g, n) = SumStep(w, f, n)
        BY <2>3, <3>1 DEF SumStep
      <3>3. n \in 0 .. m \/ n = m + 1
        OBVIOUS
      <3> QED
        BY <2>2, <2>3, <2>4, <3>2, <3>3
    <2>7. Sums(g, w, m + 1)
      BY <2>5, <2>6 DEF Sums
    <2> QED
      BY <2>7
  <1> HIDE DEF S
  <1>3. Nat \subseteq S
    BY <1>1, <1>2, NumberInduct
  <1> QED
    BY <1>3 DEF S

\* The sum of the first numbers depends on these alone.
LEMMA SumsAgree ==
  ASSUME NEW m \in Nat, NEW n \in m .. m + 2, NEW v, NEW w, \A i \in 1 .. m : v[i] = w[i],
         NEW f, Sums(f, v, m), NEW g, Sums(g, w, n)
  PROVE  g[m] = f[m]
  <1> DEFINE S == {k \in Nat : k <= m => g[k] = f[k]}
  <1>1. /\ \A k \in 0 .. m : f[k] = SumStep(v, f, k)
        /\ \A k \in 0 .. n : g[k] = SumStep(w, g, k)
    BY DEF Sums
  <1>2. 0 \in S
    BY <1>1 DEF SumStep
  <1>3. ASSUME NEW k \in Nat, k \in S PROVE k + 1 \in S
    <2> SUFFICES ASSUME k + 1 <= m PROVE g[k + 1] = f[k + 1]
      OBVIOUS
    <2>1. k + 1 \in 1 .. m /\ k + 1 \in 0 .. m /\ k + 1 \in 0 .. n /\ k + 1 # 0 /\ (k + 1) - 1 = k
      OBVIOUS
    <2>2. g[k] = f[k] /\ v[k + 1] = w[k + 1]
      BY <1>3, <2>1
    <2>3. f[k + 1] = SumStep(v, f, k + 1) /\ g[k + 1] = SumStep(w, g, k + 1)
      BY <1>1, <2>1
    <2> QED
      BY <2>1, <2>2, <2>3 DEF SumStep
  <1> HIDE DEF S
  <1>4. Nat \subseteq S
    BY <1>2, <1>3, NumberInduct
  <1> QED
    BY <1>4 DEF S

\* The sum of the first m weights.
Total(w, m) == (CHOOSE f : Sums(f, w, m))[m]

\* It is what any such f says, and grows by each weight.
LEMMA TotalIs ==
  ASSUME NEW m \in Nat, NEW w
  PROVE  /\ \A f : Sums(f, w, m) => f[m] = Total(w, m)
         /\ Total(w, 0) = 0
         /\ Total(w, m + 1) = Total(w, m) + w[m + 1]
         /\ \A v : (\A i \in 1 .. m : v[i] = w[i]) => Total(v, m) = Total(w, m)
  <1>1. ASSUME NEW v, NEW k \in Nat
        PROVE  LET h == CHOOSE f : Sums(f, v, k) IN Sums(h, v, k) /\ h[k] = Total(v, k)
    <2>1. \E f : Sums(f, v, k)
      BY SumExists
    <2> QED
      BY <2>1 DEF Total
  <1>2. ASSUME NEW f, Sums(f, w, m) PROVE f[m] = Total(w, m)
    <2> DEFINE h == CHOOSE h : Sums(h, w, m)
    <2>1. Sums(h, w, m) /\ h[m] = Total(w, m)
      BY <1>1
    <2> HIDE DEF h
    <2>2. m \in m .. m + 2
      OBVIOUS
    <2> QED
      BY <1>2, <2>1, <2>2, SumsAgree
  <1>3. Total(w, 0) = 0
    <2> DEFINE h == CHOOSE h : Sums(h, w, 0)
    <2>1. Sums(h, w, 0) /\ h[0] = Total(w, 0)
      BY <1>1
    <2> HIDE DEF h
    <2> QED
      BY <2>1 DEF Sums, SumStep
  <1>4. Total(w, m + 1) = Total(w, m) + w[m + 1]
    <2> DEFINE h == CHOOSE h : Sums(h, w, m + 1)
               f == CHOOSE f : Sums(f, w, m)
    <2>1. Sums(h, w, m + 1) /\ h[m + 1] = Total(w, m + 1)
      BY <1>1
    <2>2. Sums(f, w, m) /\ f[m] = Total(w, m)
      BY <1>1
    <2> HIDE DEF h, f
    <2>3. m + 1 \in m .. m + 2
      OBVIOUS
    <2>4. h[m] = f[m]
      BY <2>1, <2>2, <2>3, SumsAgree
    <2>5. h[m + 1] = h[m] + w[m + 1]
      BY <2>1 DEF Sums, SumStep
    <2> QED
      BY <2>1, <2>2, <2>4, <2>5
  <1>5. ASSUME NEW v, \A i \in 1 .. m : v[i] = w[i] PROVE Total(v, m) = Total(w, m)
    <2> DEFINE h == CHOOSE h : Sums(h, v, m)
               f == CHOOSE f : Sums(f, w, m)
    <2>1. Sums(h, v, m) /\ h[m] = Total(v, m)
      BY <1>1
    <2>2. Sums(f, w, m) /\ f[m] = Total(w, m)
      BY <1>1
    <2> HIDE DEF h, f
    <2>3. m \in m .. m + 2 /\ \A i \in 1 .. m : w[i] = v[i]
      BY <1>5
    <2>4. h[m] = f[m]
      <3>1. \A i \in 1 .. m : w[i] = v[i]
        BY <2>3
      <3>2. Sums(h, v, m) /\ Sums(f, w, m) /\ m \in m .. m + 2
        BY <2>1, <2>2, <2>3
      <3>3. \A i \in 1 .. m : v[i] = w[i]
        BY <1>5
      <3>4. f[m] = h[m]
        BY <3>2, <3>3, SumsAgree
      <3> QED
        BY <3>4
    <2> QED
      BY <2>1, <2>2, <2>4
  <1> QED
    BY <1>2, <1>3, <1>4, <1>5

-----------------------------------------------------------------------------
(***************************************************************************)
(* What the recursive definitions of the model come to.                    *)
(***************************************************************************)

\* How many bytes a piece of the context takes.
Weight(piece) == IF piece = Separator THEN 2 ELSE Length(piece)
Weights(sequence) == [i \in 1 .. Len(sequence) |-> Weight(sequence[i])]

\* The bytes of a context are the total of its pieces,
LEMMA BytesOfIs ==
  ASSUME NEW sequence, Len(sequence) \in Nat
  PROVE  BytesOf(sequence) = Total(Weights(sequence), Len(sequence))
  <1> DEFINE n == Len(sequence)
             w == Weights(sequence)
             sum[k \in 0 .. n] ==
               IF k = 0 THEN 0
               ELSE sum[k - 1] + IF sequence[k] = Separator THEN 2 ELSE Length(sequence[k])
  <1>1. BytesOf(sequence) = sum[n]
    BY DEF BytesOf
  <1>2. \A k \in 1 .. n : w[k] = IF sequence[k] = Separator THEN 2 ELSE Length(sequence[k])
    BY DEF Weights, Weight
  <1> HIDE DEF w
  <1>3. ASSUME NEW f
        PROVE  Sums(f, w, n) <=>
                 f = [k \in 0 .. n |->
                        IF k = 0 THEN 0
                        ELSE f[k - 1] + IF sequence[k] = Separator THEN 2 ELSE Length(sequence[k])]
    BY <1>2 DEF Sums, SumStep
  <1>4. \E f : Sums(f, w, n)
    BY SumExists
  <1>5. sum = [k \in 0 .. n |->
                 IF k = 0 THEN 0
                 ELSE sum[k - 1] + IF sequence[k] = Separator THEN 2 ELSE Length(sequence[k])]
    BY <1>3, <1>4
  <1> HIDE DEF sum
  <1>6. Sums(sum, w, n)
    BY <1>3, <1>5
  <1> QED
    BY <1>1, <1>6, TotalIs DEF w

\* and grow by what is appended.
LEMMA BytesOfGrows ==
  ASSUME NEW S, NEW sequence \in Seq(S), NEW x, Weight(x) \in Nat
  PROVE  /\ BytesOf(<<>>) = 0
         /\ BytesOf(<<x>>) = Weight(x)
         /\ BytesOf(sequence \o <<x>>) = BytesOf(sequence) + Weight(x)
         /\ \A y : BytesOf(sequence \o <<x, y>>) = BytesOf(sequence) + Weight(x) + Weight(y)
  <1>1. BytesOf(<<>>) = 0
    BY BytesOfIs, TotalIs
  <1>2. ASSUME NEW T, NEW s \in Seq(T), NEW y \in T
        PROVE  BytesOf(s \o <<y>>) = BytesOf(s) + Weight(y)
    <2> DEFINE n == Len(s)
               t == s \o <<y>>
    <2>1. n \in Nat /\ t \in Seq(T) /\ Len(t) = n + 1 /\ t[n + 1] = y
      OBVIOUS
    <2>2. \A i \in 1 .. n : t[i] = s[i]
      OBVIOUS
    <2> HIDE DEF n, t
    <2>3. Weights(t)[n + 1] = Weight(y)
      BY <2>1 DEF Weights
    <2>4. \A i \in 1 .. n : Weights(t)[i] = Weights(s)[i]
      BY <2>1, <2>2 DEF Weights, n
    <2>5. Total(Weights(t), n + 1) = Total(Weights(t), n) + Weights(t)[n + 1]
      BY <2>1, TotalIs
    <2>6. Total(Weights(t), n) = Total(Weights(s), n)
      BY <2>1, <2>4, TotalIs
    <2>7. BytesOf(t) = Total(Weights(t), n + 1) /\ BytesOf(s) = Total(Weights(s), n)
      BY <2>1, BytesOfIs DEF n
    <2> QED
      BY <2>3, <2>5, <2>6, <2>7 DEF t
  <1>3. ASSUME NEW y
        PROVE  /\ BytesOf(sequence \o <<x>>) = BytesOf(sequence) + Weight(x)
               /\ BytesOf(sequence \o <<x, y>>) = BytesOf(sequence) + Weight(x) + Weight(y)
    <2> DEFINE T == S \cup {x, y}
               s == sequence \o <<x>>
    <2>1. x \in T /\ y \in T /\ sequence \in Seq(T)
      OBVIOUS
    <2>2. s \in Seq(T)
      BY <2>1
    <2>3. sequence \o <<x, y>> = s \o <<y>>
      <3>1. <<x, y>> = <<x>> \o <<y>>
        OBVIOUS
      <3>2. <<x>> \in Seq(T) /\ <<y>> \in Seq(T)
        BY <2>1
      <3> HIDE DEF T
      <3>3. sequence \o (<<x>> \o <<y>>) = (sequence \o <<x>>) \o <<y>>
        BY <2>1, <3>2, ConcatAssociative
      <3> QED
        BY <3>1, <3>3
    <2> HIDE DEF T
    <2>4. BytesOf(s) = BytesOf(sequence) + Weight(x)
      BY <1>2, <2>1
    <2> HIDE DEF s
    <2>5. BytesOf(s \o <<y>>) = BytesOf(s) + Weight(y)
      BY <1>2, <2>1, <2>2
    <2> QED
      BY <2>3, <2>4, <2>5 DEF s
  <1>4. BytesOf(<<x>>) = Weight(x)
    <2>1. Len(<<x>>) = 1 /\ <<x>>[1] = x
      OBVIOUS
    <2>2. BytesOf(<<x>>) = Total(Weights(<<x>>), 1)
      BY <2>1, BytesOfIs
    <2>3. Weights(<<x>>)[1] = Weight(x)
      BY <2>1 DEF Weights
    <2>4. Total(Weights(<<x>>), 0 + 1) = Total(Weights(<<x>>), 0) + Weights(<<x>>)[0 + 1]
      BY TotalIs
    <2> QED
      BY <2>2, <2>3, <2>4, TotalIs
  <1> QED
    BY <1>1, <1>3, <1>4

\* resolve_selected puts the picks of the classes end to end.
LEMMA PickedJoins ==
  ASSUME NEW profile, NEW lists, Len(pack.classes) \in Nat,
         \A n \in 1 .. Len(pack.classes) : lists[n] = Picks(profile, pack.classes[n].id)
  PROVE  \E f : Joins(f, lists, Len(pack.classes)) /\ Picked(profile) = f[Len(pack.classes)]
  <1> DEFINE m == Len(pack.classes)
             upTo[n \in 0 .. m] ==
               IF n = 0 THEN <<>> ELSE upTo[n - 1] \o Picks(profile, pack.classes[n].id)
  <1>1. Picked(profile) = upTo[m]
    BY DEF Picked
  <1>2. ASSUME NEW f
        PROVE  Joins(f, lists, m) <=>
                 f = [n \in 0 .. m |->
                        IF n = 0 THEN <<>> ELSE f[n - 1] \o Picks(profile, pack.classes[n].id)]
    <2>1. \A n \in 0 .. m : JoinStep(lists, f, n) =
            IF n = 0 THEN <<>> ELSE f[n - 1] \o Picks(profile, pack.classes[n].id)
      <3> TAKE n \in 0 .. m
      <3>1. CASE n = 0
        BY <3>1 DEF JoinStep
      <3>2. CASE n # 0
        <4>1. lists[n] = Picks(profile, pack.classes[n].id)
          BY <3>2
        <4> QED
          BY <3>2, <4>1 DEF JoinStep
      <3> QED
        BY <3>1, <3>2
    <2> QED
      BY <2>1 DEF Joins
  <1>3. \E f : Joins(f, lists, m)
    BY JoinExists
  <1>4. upTo = [n \in 0 .. m |->
                  IF n = 0 THEN <<>> ELSE upTo[n - 1] \o Picks(profile, pack.classes[n].id)]
    BY <1>2, <1>3
  <1> HIDE DEF upTo
  <1>5. Joins(upTo, lists, m)
    BY <1>2, <1>4
  <1> QED
    BY <1>1, <1>5

\* The picks of a profile, class by class in their order: where each is declared.
Declared(d, p, row, place, picked) ==
  /\ \A k \in DOMAIN picked :
       /\ row[k] \in DOMAIN ByOrder(d.classes)
       /\ place[k] \in DOMAIN Picks(p, ByOrder(d.classes)[row[k]].id)
       /\ picked[k] = Picks(p, ByOrder(d.classes)[row[k]].id)[place[k]]
  /\ \A k, l \in DOMAIN picked : k < l =>
       row[k] < row[l] \/ (row[k] = row[l] /\ place[k] < place[l])

\* Each pick of each class, and nothing else.
Placed(d, p, picked) ==
  /\ picked \in Seq(Nat)
  /\ \E row, place : Declared(d, p, row, place, picked)
  /\ \A c \in DOMAIN ByOrder(d.classes) : \A i \in DOMAIN Picks(p, ByOrder(d.classes)[c].id) :
       \E k \in DOMAIN picked : picked[k] = Picks(p, ByOrder(d.classes)[c].id)[i]

\* So it picks what the profile declares, in the declared order.
LEMMA PickedPlaced ==
  ASSUME NEW d, Shaped(d), Once(d.classes), pack.classes = ByOrder(d.classes), NEW p,
         \A c \in DOMAIN p.selections : p.selections[c] \in Seq(Nat)
  PROVE  Placed(d, p, Picked(p))
  <1> DEFINE sorted == ByOrder(d.classes)
             m == Len(sorted)
             lists == [n \in 1 .. m |-> Picks(p, sorted[n].id)]
             picked == Picked(p)
  <1>1. Alike(sorted, d.classes)
    BY ByOrderAlike DEF Shaped
  <1>2. m \in Nat /\ DOMAIN sorted = 1 .. m
    BY <1>1, Zenon DEF Alike, IsList
  <1>3. PICK f : Joins(f, lists, m) /\ picked = f[m]
    <2>1. \A n \in 1 .. m : lists[n] = Picks(p, sorted[n].id)
      OBVIOUS
    <2> HIDE DEF lists
    <2> QED
      BY <1>2, <2>1, PickedJoins
  <1>4. \A n \in 1 .. m : lists[n] = Picks(p, sorted[n].id) /\ lists[n] \in Seq(Nat)
    <2> TAKE n \in 1 .. m
    <2>1. Picks(p, sorted[n].id) \in Seq(Nat)
      BY DEF Picks
    <2> QED
      BY <2>1
  <1> HIDE DEF lists, picked, m, sorted
  <1>5. Pieces(f, lists, m)
    BY <1>2, <1>3, <1>4, JoinParts
  <1>6. picked \in Seq(Nat)
    <2>1. m \in 0 .. m
      BY <1>2
    <2> QED
      BY <1>3, <1>5, <2>1, Zenon DEF Pieces
  <1>7. DOMAIN picked = 1 .. Len(f[m]) /\ \A n \in 1 .. m : DOMAIN lists[n] = 1 .. Len(lists[n])
    BY <1>3, <1>4, <1>6
  <1>8. /\ \A c \in 1 .. m : \A i \in 1 .. Len(lists[c]) :
             /\ Len(f[c - 1]) + i \in 1 .. Len(f[m])
             /\ f[m][Len(f[c - 1]) + i] = lists[c][i]
        /\ \A k \in 1 .. Len(f[m]) :
             \E c \in 1 .. m : \E i \in 1 .. Len(lists[c]) : k = Len(f[c - 1]) + i
        /\ \A c, e \in 1 .. m : \A i \in 1 .. Len(lists[c]), j \in 1 .. Len(lists[e]) :
             Len(f[c - 1]) + i < Len(f[e - 1]) + j => c < e \/ (c = e /\ i < j)
    <2>1. \A n \in 1 .. m : lists[n] \in Seq(Nat)
      BY <1>4
    <2> QED
      BY <1>2, <1>3, <2>1, JoinPlaces
  <1> DEFINE at(k, c, i) == c \in 1 .. m /\ i \in 1 .. Len(lists[c]) /\ k = Len(f[c - 1]) + i
             row == [k \in DOMAIN picked |-> CHOOSE c : \E i : at(k, c, i)]
             place == [k \in DOMAIN picked |-> CHOOSE i : at(k, row[k], i)]
  <1>9. \A k \in DOMAIN picked : at(k, row[k], place[k])
    <2> TAKE k \in DOMAIN picked
    <2>1. \E c : \E i : at(k, c, i)
      <3>1. k \in 1 .. Len(f[m])
        BY <1>7
      <3>2. PICK c \in 1 .. m : \E i \in 1 .. Len(lists[c]) : k = Len(f[c - 1]) + i
        BY <1>8, <3>1, Zenon
      <3> QED
        BY <3>2, Zenon
    <2>2. row[k] = CHOOSE c : \E i : at(k, c, i)
      OBVIOUS
    <2>3. place[k] = CHOOSE i : at(k, row[k], i)
      OBVIOUS
    <2> HIDE DEF at, row, place
    <2>4. \E i : at(k, row[k], i)
      BY <2>1, <2>2, Zenon
    <2> QED
      BY <2>3, <2>4, Zenon
  <1> HIDE DEF row, place
  <1>10. Declared(d, p, row, place, picked)
    <2>1. ASSUME NEW k \in DOMAIN picked
          PROVE  /\ row[k] \in DOMAIN sorted
                 /\ place[k] \in DOMAIN Picks(p, sorted[row[k]].id)
                 /\ picked[k] = Picks(p, sorted[row[k]].id)[place[k]]
      <3>1. row[k] \in 1 .. m /\ place[k] \in 1 .. Len(lists[row[k]])
            /\ k = Len(f[row[k] - 1]) + place[k]
        BY <1>9, Zenon
      <3>2. f[m][k] = lists[row[k]][place[k]]
        <4>1. f[m][Len(f[row[k] - 1]) + place[k]] = lists[row[k]][place[k]]
          BY <1>8, <3>1, Zenon
        <4> QED
          BY <3>1, <4>1, Zenon
      <3>3. lists[row[k]] = Picks(p, sorted[row[k]].id) /\ DOMAIN lists[row[k]] = 1 .. Len(lists[row[k]])
        BY <1>4, <1>7, <3>1, Zenon
      <3> QED
        BY <1>2, <1>3, <3>1, <3>2, <3>3, Zenon
    <2>2. ASSUME NEW k \in DOMAIN picked, NEW l \in DOMAIN picked, k < l
          PROVE  row[k] < row[l] \/ (row[k] = row[l] /\ place[k] < place[l])
      <3>1. /\ row[k] \in 1 .. m /\ place[k] \in 1 .. Len(lists[row[k]])
            /\ k = Len(f[row[k] - 1]) + place[k]
        BY <1>9, Zenon
      <3>2. /\ row[l] \in 1 .. m /\ place[l] \in 1 .. Len(lists[row[l]])
            /\ l = Len(f[row[l] - 1]) + place[l]
        BY <1>9, Zenon
      <3>3. Len(f[row[k] - 1]) + place[k] < Len(f[row[l] - 1]) + place[l]
        BY <2>2, <3>1, <3>2, Zenon
      <3> QED
        BY <1>8, <3>1, <3>2, <3>3, Zenon
    <2> QED
      BY <2>1, <2>2, Zenon DEF Declared, sorted
  <1>11. ASSUME NEW c \in DOMAIN sorted, NEW i \in DOMAIN Picks(p, sorted[c].id)
         PROVE  \E k \in DOMAIN picked : picked[k] = Picks(p, sorted[c].id)[i]
    <2>1. c \in 1 .. m /\ i \in 1 .. Len(lists[c]) /\ lists[c] = Picks(p, sorted[c].id)
      BY <1>2, <1>4, <1>7, Zenon
    <2>2. /\ Len(f[c - 1]) + i \in 1 .. Len(f[m])
          /\ f[m][Len(f[c - 1]) + i] = lists[c][i]
      BY <1>8, <2>1, Zenon
    <2> QED
      BY <1>3, <1>7, <2>1, <2>2, Zenon
  <1> QED
    BY <1>6, <1>10, <1>11, Zenon DEF Placed, picked, sorted

\* The profile that is asked for, by either way of looking it up.
LEMMA ChosenIs ==
  ASSUME Once(doc.profiles), asked \in Ids(doc.profiles)
  PROVE  \E i \in DOMAIN doc.profiles : /\ Chosen = doc.profiles[i]
                                        /\ With(doc.profiles, asked) = doc.profiles[i]
  <1>1. PICK i \in DOMAIN doc.profiles : With(doc.profiles, asked) = doc.profiles[i]
                                         /\ doc.profiles[i].id = asked
    BY WithFound
  <1>2. doc.profiles[i] \in Elements(doc.profiles)
    BY DEF Elements
  <1>3. \A q \in Elements(doc.profiles) : q.id = asked => q = doc.profiles[i]
    BY <1>1 DEF Elements, Once
  <1>4. Chosen = doc.profiles[i]
    BY <1>1, <1>2, <1>3, Zenon DEF Chosen
  <1> QED
    BY <1>1, <1>4

\* What compose selects for a profile, and where the profile names it.
Selected(d, p, overlays) ==
  /\ \E picked : /\ Placed(d, p, picked)
                 /\ overlays = [k \in DOMAIN picked |-> With(d.overlays, picked[k])]
  /\ Len(overlays) <= MaxOverlays
  /\ ~Conflicts(overlays)

\* The same of the overlays: each has its class, by its row, and its place there.
Listed(d, p, row, place, overlays) ==
  /\ \A k \in DOMAIN overlays :
       /\ row[k] \in DOMAIN ByOrder(d.classes)
       /\ overlays[k].class = ByOrder(d.classes)[row[k]].id
       /\ overlays[k].class \in DOMAIN p.selections
       /\ place[k] \in DOMAIN p.selections[overlays[k].class]
       /\ p.selections[overlays[k].class][place[k]] = overlays[k].id
  /\ \A k, l \in DOMAIN overlays : k < l =>
       row[k] < row[l] \/ (row[k] = row[l] /\ place[k] < place[l])

\* Every pick of a validated profile is of its class.
LEMMA PicksAreSound ==
  ASSUME NEW d, Shaped(d), Once(d.classes), NEW p, ProfileSound(d, p),
         NEW r \in DOMAIN ByOrder(d.classes),
         NEW j \in DOMAIN Picks(p, ByOrder(d.classes)[r].id)
  PROVE  /\ Picks(p, ByOrder(d.classes)[r].id)[j] \in Ids(d.overlays)
         /\ With(d.overlays, Picks(p, ByOrder(d.classes)[r].id)[j]).class = ByOrder(d.classes)[r].id
  <1>1. Alike(ByOrder(d.classes), d.classes)
    BY ByOrderAlike DEF Shaped
  <1>2. PICK i \in DOMAIN d.classes : ByOrder(d.classes)[r] = d.classes[i]
    BY <1>1 DEF Alike
  <1>3. ClassSound(d, p, ByOrder(d.classes)[r])
    BY <1>2, Zenon DEF ProfileSound
  <1>4. PickSound(d, ByOrder(d.classes)[r].id, Picks(p, ByOrder(d.classes)[r].id), j)
    BY <1>3, Zenon DEF ClassSound
  <1> QED
    BY <1>4, Zenon DEF PickSound

\* What is selected is so listed, and every pick is selected.
LEMMA SelectedListed ==
  ASSUME NEW d, Shaped(d), DocSound(d), NEW p, ProfileSound(d, p),
         NEW overlays, Selected(d, p, overlays)
  PROVE  /\ IsList(overlays)
         /\ \A k \in DOMAIN overlays : \E i \in DOMAIN d.overlays : overlays[k] = d.overlays[i]
         /\ \E row, place : Listed(d, p, row, place, overlays)
         /\ \A c \in DOMAIN p.selections : \A j \in DOMAIN p.selections[c] :
              \E k \in DOMAIN overlays : overlays[k].id = p.selections[c][j]
  <1> DEFINE sorted == ByOrder(d.classes)
  <1>1. Once(d.classes) /\ Once(d.overlays) /\ DOMAIN p.selections \subseteq Ids(d.classes)
    BY DEF DocSound, ProfileSound
  <1>2. PICK picked : /\ Placed(d, p, picked)
                      /\ overlays = [k \in DOMAIN picked |-> With(d.overlays, picked[k])]
    BY Zenon DEF Selected
  <1>3. picked \in Seq(Nat)
    BY <1>2, Zenon DEF Placed
  <1>4. IsList(overlays) /\ DOMAIN overlays = DOMAIN picked
        /\ \A k \in DOMAIN picked : overlays[k] = With(d.overlays, picked[k])
    <2>1. overlays = [k \in 1 .. Len(picked) |-> With(d.overlays, picked[k])]
      BY <1>2, <1>3
    <2> QED
      BY <1>2, <1>3, <2>1 DEF IsList
  <1>5. PICK row, place : Declared(d, p, row, place, picked)
    BY <1>2, Zenon DEF Placed
  <1>6. ASSUME NEW k \in DOMAIN picked
        PROVE  /\ row[k] \in DOMAIN sorted
               /\ place[k] \in DOMAIN Picks(p, sorted[row[k]].id)
               /\ picked[k] = Picks(p, sorted[row[k]].id)[place[k]]
               /\ picked[k] \in Ids(d.overlays)
               /\ overlays[k].class = sorted[row[k]].id
    <2>1. /\ row[k] \in DOMAIN sorted
          /\ place[k] \in DOMAIN Picks(p, sorted[row[k]].id)
          /\ picked[k] = Picks(p, sorted[row[k]].id)[place[k]]
      BY <1>5, Zenon DEF Declared
    <2>2. /\ Picks(p, sorted[row[k]].id)[place[k]] \in Ids(d.overlays)
          /\ With(d.overlays, Picks(p, sorted[row[k]].id)[place[k]]).class = sorted[row[k]].id
      BY <1>1, <2>1, PicksAreSound
    <2> QED
      BY <1>4, <2>1, <2>2, Zenon
  <1>7. ASSUME NEW k \in DOMAIN picked
        PROVE  \E i \in DOMAIN d.overlays : overlays[k] = d.overlays[i] /\ overlays[k].id = picked[k]
    <2>1. picked[k] \in Ids(d.overlays)
      BY <1>6
    <2>2. PICK i \in DOMAIN d.overlays : /\ With(d.overlays, picked[k]) = d.overlays[i]
                                         /\ d.overlays[i].id = picked[k]
      BY <1>1, <2>1, WithFound
    <2> QED
      BY <1>4, <2>2
  <1>8. ASSUME NEW k \in DOMAIN picked
        PROVE  /\ overlays[k].class \in DOMAIN p.selections
               /\ place[k] \in DOMAIN p.selections[overlays[k].class]
               /\ p.selections[overlays[k].class][place[k]] = overlays[k].id
    <2>1. overlays[k].id = picked[k] /\ overlays[k].class = sorted[row[k]].id
      BY <1>6, <1>7
    <2>2. /\ place[k] \in DOMAIN Picks(p, overlays[k].class)
          /\ Picks(p, overlays[k].class)[place[k]] = overlays[k].id
      BY <1>6, <2>1
    <2>3. overlays[k].class \in DOMAIN p.selections
      BY <2>2 DEF Picks
    <2> QED
      BY <2>2, <2>3 DEF Picks
  <1>9. Listed(d, p, row, place, overlays)
    <2>1. \A k, l \in DOMAIN picked : k < l =>
            row[k] < row[l] \/ (row[k] = row[l] /\ place[k] < place[l])
      BY <1>5, Zenon DEF Declared
    <2> QED
      BY <1>4, <1>6, <1>8, <2>1, Zenon DEF Listed
  <1>10. ASSUME NEW c \in DOMAIN p.selections, NEW j \in DOMAIN p.selections[c]
         PROVE  \E k \in DOMAIN overlays : overlays[k].id = p.selections[c][j]
    <2>1. Alike(sorted, d.classes)
      BY <1>1, ByOrderAlike DEF Shaped
    <2>2. c \in Ids(sorted)
      BY <1>1, <2>1, AlikeIds
    <2>3. PICK r \in DOMAIN sorted : sorted[r].id = c
      BY <2>2 DEF Ids
    <2>4. Picks(p, sorted[r].id) = p.selections[c]
      BY <2>3 DEF Picks
    <2>5. PICK k \in DOMAIN picked : picked[k] = Picks(p, sorted[r].id)[j]
      BY <1>2, <2>4, Zenon DEF Placed
    <2>6. overlays[k].id = picked[k]
      BY <1>7
    <2> QED
      BY <1>4, <2>4, <2>5, <2>6
  <1>11. \A k \in DOMAIN overlays : \E i \in DOMAIN d.overlays : overlays[k] = d.overlays[i]
    BY <1>4, <1>7
  <1> QED
    BY <1>4, <1>9, <1>10, <1>11, Zenon

\* The segments are those of the first overlays selected.
Loaded(list, overlays) ==
  /\ list \in Seq([class : Ids(doc.classes), id : Nat, source : Sources, bytes : Contents])
  /\ Len(list) <= Len(overlays)
  /\ \A k \in 1 .. Len(list) : /\ list[k].class = overlays[k].class
                               /\ list[k].id = overlays[k].id
                               /\ Length(list[k].bytes) <= MaxOverlayBytes

\* The class of an overlay is declared in its row, and in no other place.
LEMMA NumberIs ==
  ASSUME NEW d, Shaped(d), Once(d.classes), NEW r \in DOMAIN ByOrder(d.classes)
  PROVE  (CHOOSE c \in Elements(d.classes) : c.id = ByOrder(d.classes)[r].id) = ByOrder(d.classes)[r]
  <1> DEFINE sorted == ByOrder(d.classes)
  <1>1. Alike(sorted, d.classes)
    BY ByOrderAlike DEF Shaped
  <1>2. PICK i \in DOMAIN d.classes : sorted[r] = d.classes[i]
    BY <1>1 DEF Alike
  <1>3. d.classes[i] \in Elements(d.classes)
    BY DEF Elements
  <1>4. \A c \in Elements(d.classes) : c.id = d.classes[i].id => c = d.classes[i]
    BY DEF Elements, Once
  <1> QED
    BY <1>2, <1>3, <1>4, Zenon

\* An identifier has one place among the picks of a class.
LEMMA PlaceIs ==
  ASSUME NEW d, Shaped(d), Once(d.classes), NEW p, ProfileSound(d, p),
         \A c \in DOMAIN p.selections : IsList(p.selections[c]),
         NEW c \in DOMAIN p.selections, NEW j \in DOMAIN p.selections[c]
  PROVE  (CHOOSE i \in DOMAIN p.selections[c] : p.selections[c][i] = p.selections[c][j]) = j
  <1>1. c \in Ids(d.classes)
    BY DEF ProfileSound
  <1>2. PICK i \in DOMAIN d.classes : d.classes[i].id = c
    BY <1>1 DEF Ids
  <1>3. ClassSound(d, p, d.classes[i])
    BY Zenon DEF ProfileSound
  <1>4. Picks(p, c) = p.selections[c]
    BY DEF Picks
  <1>5. \A k \in DOMAIN p.selections[c] : PickSound(d, c, p.selections[c], k)
    BY <1>2, <1>3, <1>4, Zenon DEF ClassSound
  <1>6. \A k \in DOMAIN p.selections[c] : \A l \in 1 .. k - 1 : p.selections[c][l] # p.selections[c][k]
    BY <1>5, Zenon DEF PickSound
  <1>7. DOMAIN p.selections[c] = 1 .. Len(p.selections[c]) /\ Len(p.selections[c]) \in Nat
    BY DEF IsList
  <1>8. \A k, l \in DOMAIN p.selections[c] : p.selections[c][k] = p.selections[c][l] => k = l
    BY <1>6, <1>7
  <1> QED
    BY <1>8, Zenon

\* The segments of a composition are in the declared order.
LEMMA OrderHolds ==
  ASSUME Shaped(doc), DocSound(doc), asked \in Ids(doc.profiles),
         Selected(doc, Chosen, selected), Loaded(segments, selected),
         Composed => Len(segments) = Len(selected)
  PROVE  OrderIsDeclared
  <1> SUFFICES ASSUME Composed
               PROVE  OrderIsDeclared
    BY DEF OrderIsDeclared
  <1> DEFINE p == Chosen
             sorted == ByOrder(doc.classes)
             number(s) == (CHOOSE c \in Elements(doc.classes) : c.id = s.class).order
             place(s) == CHOOSE i \in DOMAIN p.selections[s.class] :
                           p.selections[s.class][i] = s.id
  <1>1. Once(doc.classes) /\ Once(doc.profiles)
    BY DEF DocSound
  <1>2. PICK q \in DOMAIN doc.profiles : p = doc.profiles[q]
    BY <1>1, ChosenIs
  <1>3. ProfileSound(doc, p) /\ \A c \in DOMAIN p.selections : IsList(p.selections[c])
    BY <1>2 DEF DocSound, Shaped
  <1> HIDE DEF p
  <1>4. /\ IsList(selected)
        /\ \E row, at : Listed(doc, p, row, at, selected)
        /\ \A c \in DOMAIN p.selections : \A j \in DOMAIN p.selections[c] :
             \E k \in DOMAIN selected : selected[k].id = p.selections[c][j]
    <2>1. Selected(doc, p, selected)
      BY DEF p
    <2> QED
      BY <1>3, <2>1, SelectedListed
  <1>5. PICK row, at : Listed(doc, p, row, at, selected)
    BY <1>4
  <1>6. DOMAIN segments = DOMAIN selected
        /\ \A k \in DOMAIN selected : /\ segments[k].class = selected[k].class
                                      /\ segments[k].id = selected[k].id
    BY <1>4 DEF Loaded, IsList
  <1>7. ASSUME NEW k \in DOMAIN selected
        PROVE  /\ row[k] \in DOMAIN sorted
               /\ segments[k].class = sorted[row[k]].id
               /\ segments[k].class \in DOMAIN p.selections
               /\ at[k] \in DOMAIN p.selections[segments[k].class]
               /\ p.selections[segments[k].class][at[k]] = segments[k].id
    BY <1>5, <1>6, Zenon DEF Listed
  <1>8. \A k \in DOMAIN selected : number(segments[k]) = sorted[row[k]].order
    <2> TAKE k \in DOMAIN selected
    <2>1. (CHOOSE c \in Elements(doc.classes) : c.id = sorted[row[k]].id) = sorted[row[k]]
      BY <1>1, <1>7, NumberIs
    <2>2. segments[k].class = sorted[row[k]].id
      BY <1>7
    <2> QED
      BY <2>1, <2>2
  <1>9. \A k \in DOMAIN selected : place(segments[k]) = at[k]
    <2> TAKE k \in DOMAIN selected
    <2> QED
      BY <1>1, <1>3, <1>7, PlaceIs
  <1>10. ASSUME NEW i \in DOMAIN segments, NEW j \in DOMAIN segments, i < j
         PROVE  \/ number(segments[i]) < number(segments[j])
                \/ segments[i].class = segments[j].class /\ place(segments[i]) < place(segments[j])
    <2> HIDE DEF number, place
    <2>1. row[i] < row[j] \/ (row[i] = row[j] /\ at[i] < at[j])
      BY <1>5, <1>6, <1>10, Zenon DEF Listed
    <2>2. CASE row[i] = row[j] /\ at[i] < at[j]
      BY <1>6, <1>7, <1>9, <2>2
    <2>3. CASE row[i] < row[j]
      <3>1. \/ sorted[row[i]].order < sorted[row[j]].order
            \/ /\ sorted[row[i]].order = sorted[row[j]].order
               /\ sorted[row[i]].id < sorted[row[j]].id
        BY <1>1, <1>6, <1>7, <2>3, ByOrderAlike DEF Shaped
      <3>2. sorted[row[i]].order # sorted[row[j]].order
        <4>1. Alike(sorted, doc.classes)
          BY <1>1, ByOrderAlike DEF Shaped
        <4>2. PICK x \in DOMAIN doc.classes : sorted[row[i]] = doc.classes[x]
          BY <1>6, <1>7, <4>1 DEF Alike
        <4>3. PICK y \in DOMAIN doc.classes : sorted[row[j]] = doc.classes[y]
          BY <1>6, <1>7, <4>1 DEF Alike
        <4>4. doc.classes[x].order = doc.classes[y].order => x = y
          BY Zenon DEF DocSound
        <4>5. sorted[row[i]] = sorted[row[j]] => row[i] = row[j]
          BY <1>6, <1>7, <4>1, Zenon DEF Alike, Once
        <4>6. row[i] # row[j]
          <5>1. row[i] \in Nat /\ row[j] \in Nat
            <6>1. row[i] \in DOMAIN sorted /\ row[j] \in DOMAIN sorted
              BY <1>6, <1>7
            <6>2. DOMAIN sorted = 1 .. Len(sorted) /\ Len(sorted) \in Nat
              BY <4>1, Zenon DEF Alike, IsList
            <6> QED
              BY <6>1, <6>2
          <5> QED
            BY <2>3, <5>1
        <4> QED
          BY <4>2, <4>3, <4>4, <4>5, <4>6
      <3> QED
        BY <1>6, <1>8, <3>1, <3>2
    <2> QED
      BY <2>1, <2>2, <2>3
  <1>11. {s.id : s \in Elements(segments)} =
           UNION {Elements(p.selections[c]) : c \in DOMAIN p.selections}
    <2>1. ASSUME NEW s \in Elements(segments)
          PROVE  s.id \in UNION {Elements(p.selections[c]) : c \in DOMAIN p.selections}
      <3>1. PICK k \in DOMAIN segments : s = segments[k]
        BY DEF Elements
      <3>2. s.class \in DOMAIN p.selections /\ s.id \in Elements(p.selections[s.class])
        BY <1>6, <1>7, <3>1, Zenon DEF Elements
      <3> QED
        BY <3>2
    <2>2. ASSUME NEW c \in DOMAIN p.selections, NEW id \in Elements(p.selections[c])
          PROVE  id \in {s.id : s \in Elements(segments)}
      <3>1. PICK j \in DOMAIN p.selections[c] : id = p.selections[c][j]
        BY DEF Elements
      <3>2. PICK k \in DOMAIN selected : selected[k].id = id
        BY <1>4, <3>1
      <3>3. segments[k] \in Elements(segments) /\ segments[k].id = id
        BY <1>6, <3>2, Zenon DEF Elements
      <3> QED
        BY <3>3
    <2> QED
      BY <2>1, <2>2
  <1> QED
    BY <1>10, <1>11, Zenon DEF OrderIsDeclared, p

\* Nothing is selected that conflicts, whichever of the two says so.
LEMMA ConflictsHold ==
  ASSUME Shaped(doc), DocSound(doc), asked \in Ids(doc.profiles),
         Selected(doc, Chosen, selected)
  PROVE  ConflictsAreNeverRead
  <1> DEFINE p == Chosen
  <1>1. Once(doc.classes) /\ Once(doc.profiles) /\ Once(doc.overlays)
    BY DEF DocSound
  <1>2. PICK q \in DOMAIN doc.profiles : p = doc.profiles[q]
    BY <1>1, ChosenIs
  <1>3. ProfileSound(doc, p)
    BY <1>2 DEF DocSound
  <1>4. Selected(doc, p, selected)
    OBVIOUS
  <1> HIDE DEF p
  <1>5. /\ \A k \in DOMAIN selected : \E i \in DOMAIN doc.overlays : selected[k] = doc.overlays[i]
        /\ \A c \in DOMAIN p.selections : \A j \in DOMAIN p.selections[c] :
             \E k \in DOMAIN selected : selected[k].id = p.selections[c][j]
    BY <1>3, <1>4, SelectedListed
  <1>6. ASSUME NEW c \in DOMAIN p.selections, NEW e \in DOMAIN p.selections,
               NEW x \in Elements(p.selections[c]), NEW y \in Elements(p.selections[e]),
               NEW o \in Elements(doc.overlays), o.id = x
        PROVE  y \notin o.incompatible
    <2>1. PICK i \in DOMAIN selected : selected[i].id = x
      BY <1>5 DEF Elements
    <2>2. PICK j \in DOMAIN selected : selected[j].id = y
      BY <1>5 DEF Elements
    <2>3. PICK k \in DOMAIN doc.overlays : selected[i] = doc.overlays[k]
      BY <1>5
    <2>4. PICK l \in DOMAIN doc.overlays : o = doc.overlays[l]
      BY DEF Elements
    <2>5. o = selected[i]
      BY <1>1, <1>6, <2>1, <2>3, <2>4, Zenon DEF Once
    <2>6. selected[j].id \notin selected[i].incompatible
      BY <1>4, Zenon DEF Selected, Conflicts
    <2> QED
      BY <2>2, <2>5, <2>6
  <1> QED
    BY <1>6, Zenon DEF ConflictsAreNeverRead, p

\* The context so far.
Lengths(list) == [i \in 1 .. Len(list) |-> Length(list[i].bytes)]
Framed(list) ==
  LET n == Len(list)
  IN /\ context \in Seq(Contents \cup {Separator})
     /\ Len(context) = IF n = 0 THEN 0 ELSE 2 * n - 1
     /\ \A i \in 1 .. n : context[2 * i - 1] = list[i].bytes
     /\ \A i \in 1 .. n - 1 : context[2 * i] = Separator
     /\ sourceBytes \in Nat
     /\ sourceBytes = Total(Lengths(list), n)
     /\ BytesOf(context) = IF n = 0 THEN 0 ELSE sourceBytes + 2 * (n - 1)
     /\ n > 0 => sourceBytes + 2 * (n - 1) <= MaxOutputBytes

\* What the invariant says of the context is what ContextIsExact says.
LEMMA ContextHolds ==
  ASSUME Loaded(segments, selected), Framed(segments)
  PROVE  ContextIsExact
  <1> DEFINE n == Len(segments)
             total[i \in 0 .. n] == IF i = 0 THEN 0 ELSE total[i - 1] + Length(segments[i].bytes)
             w == Lengths(segments)
  <1>1. n \in Nat
    BY DEF Loaded
  <1>2. total[n] = Total(w, n)
    <2>1. ASSUME NEW f
          PROVE  Sums(f, w, n) <=>
                   f = [i \in 0 .. n |-> IF i = 0 THEN 0 ELSE f[i - 1] + Length(segments[i].bytes)]
      <3>1. \A i \in 0 .. n :
              SumStep(w, f, i) = IF i = 0 THEN 0 ELSE f[i - 1] + Length(segments[i].bytes)
        BY <1>1 DEF SumStep, Lengths
      <3> QED
        BY <3>1 DEF Sums
    <2>2. \E f : Sums(f, w, n)
      BY <1>1, SumExists
    <2>3. total = [i \in 0 .. n |-> IF i = 0 THEN 0 ELSE total[i - 1] + Length(segments[i].bytes)]
      BY <2>1, <2>2
    <2> HIDE DEF total
    <2>4. Sums(total, w, n)
      BY <2>1, <2>3
    <2> QED
      BY <1>1, <2>4, TotalIs
  <1>3. /\ Len(context) = IF n = 0 THEN 0 ELSE 2 * n - 1
        /\ \A i \in 1 .. n : context[2 * i - 1] = segments[i].bytes
        /\ \A i \in 1 .. n - 1 : context[2 * i] = Separator
        /\ sourceBytes = Total(w, n)
        /\ n > 0 => sourceBytes + 2 * (n - 1) <= MaxOutputBytes
    BY DEF Framed
  <1>4. \A i \in 1 .. n : Length(segments[i].bytes) <= MaxOverlayBytes
    BY DEF Loaded
  <1>5. sourceBytes = total[n] /\ (n > 0 => total[n] + 2 * (n - 1) <= MaxOutputBytes)
    <2> HIDE DEF total, w
    <2> QED
      BY <1>2, <1>3
  <1>6. ContextIsExact <=>
          /\ Len(context) = IF n = 0 THEN 0 ELSE 2 * n - 1
          /\ \A i \in 1 .. n : context[2 * i - 1] = segments[i].bytes
          /\ \A i \in 1 .. n - 1 : context[2 * i] = Separator
          /\ sourceBytes = total[n]
          /\ n > 0 => total[n] + 2 * (n - 1) <= MaxOutputBytes
          /\ \A i \in 1 .. n : Length(segments[i].bytes) <= MaxOverlayBytes
    BY Zenon DEF ContextIsExact
  <1> HIDE DEF total, w, n
  <1> QED
    BY <1>3, <1>4, <1>5, <1>6, Zenon

\* The pieces after one more turn of the loop.
Extended(pieces, list, n, size) ==
  /\ pieces \in Seq(Contents \cup {Separator})
  /\ Len(pieces) = 2 * (n + 1) - 1
  /\ \A i \in 1 .. n + 1 : pieces[2 * i - 1] = list[i].bytes
  /\ \A i \in 1 .. n : pieces[2 * i] = Separator
  /\ BytesOf(pieces) = size + 2 * n

\* One more segment, with the line feeds before it.
LEMMA FramedGrows ==
  ASSUME CompositionAssumption, NEW S, segments \in Seq(S), Framed(segments),
         NEW bytes \in Contents, NEW item, item.bytes = bytes,
         BytesOf(context \o Frame(bytes)) <= MaxOutputBytes,
         context' = context \o Frame(bytes), sourceBytes' = sourceBytes + Length(bytes),
         segments' = Append(segments, item)
  PROVE  Framed(segments)'
  <1> DEFINE n == Len(segments)
             S2 == Contents \cup {Separator}
             more == Length(bytes)
             w == Lengths(segments)
             v == Lengths(segments')
  <1>1. more \in Nat /\ bytes # Separator
    BY Zenon DEF CompositionAssumption
  <1>2. Weight(bytes) = more /\ Weight(Separator) = 2
    BY <1>1, Zenon DEF Weight
  <1>3. n \in Nat /\ Len(segments') = n + 1
        /\ (\A i \in 1 .. n : segments'[i] = segments[i]) /\ segments'[n + 1] = item
    OBVIOUS
  <1>4. /\ context \in Seq(S2)
        /\ Len(context) = IF n = 0 THEN 0 ELSE 2 * n - 1
        /\ \A i \in 1 .. n : context[2 * i - 1] = segments[i].bytes
        /\ \A i \in 1 .. n - 1 : context[2 * i] = Separator
        /\ sourceBytes \in Nat
        /\ sourceBytes = Total(w, n)
        /\ BytesOf(context) = IF n = 0 THEN 0 ELSE sourceBytes + 2 * (n - 1)
    BY Zenon DEF Framed
  <1>5. sourceBytes + more = Total(v, n + 1)
    <2>1. \A i \in 1 .. n : v[i] = w[i]
      BY <1>3 DEF Lengths
    <2>2. v[n + 1] = more
      BY <1>3 DEF Lengths
    <2> HIDE DEF v, w, n
    <2>3. Total(v, n) = Total(w, n)
      BY <1>3, <2>1, TotalIs
    <2>4. Total(v, n + 1) = Total(v, n) + v[n + 1]
      BY <1>3, TotalIs
    <2> QED
      BY <1>4, <2>2, <2>3, <2>4
  <1>6. segments = <<>> <=> n = 0
    OBVIOUS
  <1>7. bytes \in S2 /\ Separator \in S2
    OBVIOUS
  <1>8. ASSUME n = 0 PROVE Extended(context', segments', n, sourceBytes + more)
    <2>1. context' = context \o <<bytes>>
      BY <1>6, <1>8 DEF Frame
    <2>2. BytesOf(context') = BytesOf(context) + more
      BY <1>1, <1>2, <1>4, <2>1, BytesOfGrows
    <2>3. sourceBytes = 0
      BY <1>3, <1>4, <1>8, TotalIs
    <2> HIDE DEF S2, w, v, more
    <2>4. /\ context' \in Seq(S2)
          /\ Len(context') = 1
          /\ context'[1] = bytes
      BY <1>4, <1>7, <1>8, <2>1
    <2>5. \A i \in 1 .. n + 1 : context'[2 * i - 1] = segments'[i].bytes
      <3> TAKE i \in 1 .. n + 1
      <3>1. i = 1 /\ 2 * i - 1 = 1 /\ i = n + 1
        BY <1>8
      <3>2. segments'[i] = item
        BY <1>3, <3>1, Zenon
      <3> QED
        BY <2>4, <3>1, <3>2
    <2> HIDE DEF n
    <2>6. \A i \in 1 .. n : context'[2 * i] = Separator
      BY <1>8
    <2>7. BytesOf(context') = sourceBytes + more + 2 * n
      BY <1>1, <1>4, <1>8, <2>2, <2>3
    <2>8. Len(context') = 2 * (n + 1) - 1
      BY <1>8, <2>4
    <2> QED
      BY <2>4, <2>5, <2>6, <2>7, <2>8, Zenon DEF Extended, S2
  <1>9. ASSUME n # 0 PROVE Extended(context', segments', n, sourceBytes + more)
    <2>1. context' = context \o <<Separator, bytes>>
      BY <1>6, <1>9 DEF Frame
    <2>2. BytesOf(context') = BytesOf(context) + 2 + more
      <3>1. Weight(Separator) \in Nat
        BY <1>2
      <3>2. BytesOf(context \o <<Separator, bytes>>) = BytesOf(context) + Weight(Separator) + Weight(bytes)
        <4>1. \A y : BytesOf(context \o <<Separator, y>>) =
                     BytesOf(context) + Weight(Separator) + Weight(y)
          BY <1>4, <3>1, BytesOfGrows
        <4> QED
          BY <4>1, Zenon
      <3> QED
        BY <1>2, <2>1, <3>2
    <2> HIDE DEF S2, w, v, more
    <2> DEFINE l == Len(context)
    <2>3. /\ context' \in Seq(S2)
          /\ Len(context') = l + 2
          /\ \A i \in 1 .. l : context'[i] = context[i]
          /\ context'[l + 1] = Separator
          /\ context'[l + 2] = bytes
      BY <1>4, <1>7, <2>1
    <2>4. l = 2 * n - 1
      BY <1>4, <1>9
    <2> HIDE DEF l, n
    <2>5. \A i \in 1 .. n + 1 : context'[2 * i - 1] = segments'[i].bytes
      <3> TAKE i \in 1 .. n + 1
      <3>1. CASE i = n + 1
        <4>1. 2 * i - 1 = l + 2
          BY <1>3, <2>4, <3>1
        <4>2. segments'[i] = item
          BY <1>3, <3>1, Zenon
        <4> QED
          BY <2>3, <4>1, <4>2
      <3>2. CASE i # n + 1
        <4>1. i \in 1 .. n /\ 2 * i - 1 \in 1 .. l
          BY <1>3, <2>4, <3>2
        <4> QED
          BY <1>3, <1>4, <2>3, <4>1
      <3> QED
        BY <3>1, <3>2
    <2>6. \A i \in 1 .. n : context'[2 * i] = Separator
      <3> TAKE i \in 1 .. n
      <3>1. CASE i = n
        <4>1. 2 * i = l + 1
          BY <1>3, <2>4, <3>1
        <4> QED
          BY <2>3, <4>1, Zenon
      <3>2. CASE i # n
        <4>1. i \in 1 .. n - 1 /\ 2 * i \in 1 .. l
          BY <1>3, <2>4, <3>2
        <4> QED
          BY <1>4, <2>3, <4>1
      <3> QED
        BY <3>1, <3>2
    <2>7. BytesOf(context') = sourceBytes + more + 2 * n
      BY <1>1, <1>3, <1>4, <1>9, <2>2
    <2>8. Len(context') = 2 * (n + 1) - 1
      BY <1>3, <2>3, <2>4
    <2> QED
      BY <2>3, <2>5, <2>6, <2>7, <2>8, Zenon DEF Extended, S2
  <1>10. Extended(context', segments', n, sourceBytes + more)
    BY <1>8, <1>9, Zenon
  <1>11. BytesOf(context') <= MaxOutputBytes
    OBVIOUS
  <1> HIDE DEF S2, more, v, w, n
  <1>12. /\ Len(context') = IF n + 1 = 0 THEN 0 ELSE 2 * (n + 1) - 1
         /\ \A i \in 1 .. (n + 1) - 1 : context'[2 * i] = Separator
         /\ sourceBytes' \in Nat
         /\ sourceBytes' = Total(v, n + 1)
         /\ BytesOf(context') = IF n + 1 = 0 THEN 0 ELSE sourceBytes' + 2 * ((n + 1) - 1)
         /\ n + 1 > 0 => sourceBytes' + 2 * ((n + 1) - 1) <= MaxOutputBytes
    <2>1. (n + 1) - 1 = n /\ n + 1 # 0
      BY <1>3
    <2>2. sourceBytes' = sourceBytes + more
      BY DEF more
    <2>3. /\ Len(context') = 2 * (n + 1) - 1
          /\ \A i \in 1 .. n : context'[2 * i] = Separator
          /\ BytesOf(context') = sourceBytes + more + 2 * n
      BY <1>10, Zenon DEF Extended, S2
    <2>4. sourceBytes' \in Nat
      BY <1>1, <1>4, <2>2
    <2>5. sourceBytes' = Total(v, n + 1)
      BY <1>5, <2>2
    <2>6. BytesOf(context') = sourceBytes' + 2 * n
      BY <2>2, <2>3
    <2>7. sourceBytes' + 2 * n <= MaxOutputBytes
      BY <1>11, <2>6
    <2> QED
      BY <2>1, <2>3, <2>4, <2>5, <2>6, <2>7, Zenon
  <1>13. /\ context' \in Seq(S2)
         /\ \A i \in 1 .. n + 1 : context'[2 * i - 1] = segments'[i].bytes
    BY <1>10, Zenon DEF Extended, S2
  <1> QED
    BY <1>3, <1>12, <1>13, Zenon DEF Framed, S2, v

-----------------------------------------------------------------------------
(***************************************************************************)
(* The inductive invariant of a composition, and its steps.                *)
(***************************************************************************)

\* How far it is, with what pack and what error.
Stage ==
  /\ pc \in {"new", "select", "assemble", "done"}
  /\ pc = "new" => pack = NoPack
  /\ pc # "done" => error = Ok
  /\ pc \in {"select", "assemble"} => pack # NoPack
  /\ pack # NoPack => pack = Normal(doc) /\ PackRefusal(doc) = Ok
  /\ pc # "new" /\ pack = NoPack => error = PackRefusal(doc) /\ PackRefusal(doc) # Ok
  /\ pc = "done" /\ pack # NoPack => error \in ComposeErrors \cup {Ok}

\* Nothing is selected but what the profile names.
Choice ==
  /\ pc \in {"new", "select"} => selected = <<>>
  /\ pc = "assemble" \/ Composed \/ selected # <<>> =>
       pack # NoPack /\ asked \in Ids(doc.profiles) /\ Selected(doc, Chosen, selected)
  /\ Composed => Len(segments) = Len(selected)

\* The inductive invariant of a composition.
IInv ==
  /\ doc \in Documents
  /\ disk \in [Sources -> Contents \cup {Gone}]
  /\ Stage /\ Choice /\ Loaded(segments, selected) /\ Framed(segments)

\* A pack is not the absence of one.
LEMMA NormalIsPack ==
  ASSUME NEW d
  PROVE  Normal(d) # NoPack
  <1>1. "overlays" \in DOMAIN Normal(d)
    BY DEF Normal
  <1>2. "overlays" \notin DOMAIN NoPack
    BY DEF NoPack
  <1> QED
    BY <1>1, <1>2

\* What the invariant says of the document.
LEMMA DocFacts ==
  ASSUME CompositionAssumption, IInv
  PROVE  /\ Shaped(doc)
         /\ PackRefusal(doc) \in PackErrors \cup {Ok}
         /\ pack # NoPack => DocSound(doc)
  <1>1. Shaped(doc)
    BY DocumentShape, Zenon DEF IInv
  <1>2. PackRefusal(doc) \in PackErrors \cup {Ok} /\ (PackRefusal(doc) = Ok <=> DocSound(doc))
    BY <1>1, PackRefusalIs
  <1>3. pack # NoPack => PackRefusal(doc) = Ok
    BY Zenon DEF IInv, Stage
  <1> QED
    BY <1>1, <1>2, <1>3, Zenon

\* A composition begins with it, and every step keeps it.
LEMMA InitIInv ==
  ASSUME CompositionAssumption, Init
  PROVE  IInv
  <1>1. doc \in Documents /\ pack = NoPack /\ pc = "new" /\ error = Ok /\ disk \in Disks
        /\ selected = <<>> /\ segments = <<>> /\ context = <<>> /\ sourceBytes = 0
    BY Zenon DEF Init
  <1>2. disk \in [Sources -> Contents \cup {Gone}]
    BY <1>1, Zenon DEF CompositionAssumption
  <1>3. Stage
    BY <1>1 DEF Stage
  <1>4. Choice
    BY <1>1 DEF Choice, Composed
  <1>5. Loaded(segments, selected)
    BY <1>1 DEF Loaded
  <1>6. Framed(segments)
    <2>1. Len(segments) = 0 /\ Len(context) = 0 /\ context \in Seq(Contents \cup {Separator})
      BY <1>1
    <2>2. Total(Lengths(segments), 0) = 0
      BY TotalIs
    <2>3. BytesOf(context) = 0
      <3>1. BytesOf(context) = Total(Weights(context), 0)
        BY <2>1, BytesOfIs
      <3>2. Total(Weights(context), 0) = 0
        BY TotalIs
      <3> QED
        BY <3>1, <3>2
    <2> QED
      BY <1>1, <2>1, <2>2, <2>3 DEF Framed
  <1> QED
    BY <1>1, <1>2, <1>3, <1>4, <1>5, <1>6, Zenon DEF IInv

\* What is read stays as it is when none of these change.
LEMMA ReadStays ==
  ASSUME IInv, UNCHANGED <<doc, segments, context, sourceBytes>>
  PROVE  /\ Framed(segments)'
         /\ UNCHANGED selected => Loaded(segments, selected)'
  <1>1. Loaded(segments, selected) /\ Framed(segments)
    BY Zenon DEF IInv
  <1>2. Framed(segments)'
    BY <1>1 DEF Framed, Lengths, BytesOf
  <1>3. UNCHANGED selected => Loaded(segments, selected)'
    BY <1>1 DEF Loaded
  <1> QED
    BY <1>2, <1>3

\* ... nor what is selected.
LEMMA ChoiceStays ==
  ASSUME IInv, UNCHANGED <<doc, asked, selected>>, pack # NoPack => pack' # NoPack,
         (pc' = "assemble" \/ Composed') => (pc = "assemble" \/ Composed),
         pc' \in {"new", "select"} => pc \in {"new", "select"},
         Composed' => Len(segments') = Len(selected')
  PROVE  Choice'
  <1>1. Choice
    BY Zenon DEF IInv
  <1>2. Selected(doc, Chosen, selected) => Selected(doc, Chosen, selected)'
    BY DEF Selected, Chosen, Conflicts
  <1>3. asked \in Ids(doc.profiles) => asked' \in Ids(doc'.profiles)
    OBVIOUS
  <1>4. selected' = selected
    OBVIOUS
  <1> QED
    BY <1>1, <1>2, <1>3, <1>4, Zenon DEF Choice

\* A refusal says why, and leaves the rest.
LEMMA FailStep ==
  ASSUME IInv, pack # NoPack, NEW why \in ComposeErrors, Fail(why)
  PROVE  IInv'
  <1>1. why # Ok
    BY DEF ComposeErrors, Ok
  <1>2. /\ pc' = "done" /\ error' = why
        /\ UNCHANGED <<doc, asked, disk, edits, pack, selected, segments, context, sourceBytes>>
    BY Zenon DEF Fail
  <1>3. ~Composed'
    BY <1>1, <1>2 DEF Composed
  <1>4. Stage'
    BY <1>2 DEF IInv, Stage, Normal, NoPack, Composed
  <1>5. Choice'
    BY <1>2, <1>3, ChoiceStays
  <1>6. Loaded(segments, selected)' /\ Framed(segments)'
    BY <1>2, ReadStays
  <1> QED
    BY <1>2, <1>4, <1>5, <1>6 DEF IInv

\* OverlayPack::new refuses the document, or keeps it in order.
LEMMA NewPackStep ==
  ASSUME CompositionAssumption, IInv, NewPack
  PROVE  IInv'
  <1>1. pc = "new" /\ pack = NoPack /\ error = Ok /\ selected = <<>>
    BY DEF NewPack, IInv, Stage, Choice
  <1>2. UNCHANGED <<doc, asked, disk, selected, segments, context, sourceBytes>>
    BY Zenon DEF NewPack, Fail
  <1>3. Loaded(segments, selected)' /\ Framed(segments)'
    BY <1>2, ReadStays
  <1>4. PackRefusal(doc) \in PackErrors \cup {Ok}
    BY DocFacts
  <1>5. PackRefusal(doc)' = PackRefusal(doc) /\ Normal(doc)' = Normal(doc)
    BY <1>2, Zenon
  <1>6. CASE PackRefusal(doc) # Ok
    <2>1. pc' = "done" /\ error' = PackRefusal(doc) /\ pack' = NoPack
      BY <1>1, <1>6, Zenon DEF NewPack, Fail
    <2>2. Stage'
      BY <1>5, <1>6, <2>1, Zenon DEF Stage
    <2>3. ~Composed'
      BY <1>6, <2>1, Zenon DEF Composed
    <2>4. Choice'
      BY <1>1, <1>2, <2>1, <2>3, ChoiceStays
    <2> QED
      BY <1>2, <1>3, <2>2, <2>4 DEF IInv
  <1>7. CASE PackRefusal(doc) = Ok
    <2>1. pc' = "select" /\ error' = Ok /\ pack' = Normal(doc)
      BY <1>1, <1>7, Zenon DEF NewPack
    <2>2. pack' # NoPack
      BY <2>1, NormalIsPack
    <2>3. Stage'
      BY <1>5, <1>7, <2>1, <2>2, Zenon DEF Stage
    <2>4. ~Composed'
      BY <2>1 DEF Composed
    <2>5. Choice'
      BY <1>1, <1>2, <2>1, <2>4, ChoiceStays
    <2> QED
      BY <1>2, <1>3, <2>3, <2>5 DEF IInv
  <1> QED
    BY <1>6, <1>7

\* A pack that was validated has every overlay its profiles name.
LEMMA PickedKnown ==
  ASSUME NEW d, Shaped(d), Once(d.classes), NEW p, ProfileSound(d, p), NEW picked, Placed(d, p, picked)
  PROVE  {picked[i] : i \in DOMAIN picked} \subseteq Ids(d.overlays)
  <1>1. PICK row, place : Declared(d, p, row, place, picked)
    BY Zenon DEF Placed
  <1>2. ASSUME NEW k \in DOMAIN picked
        PROVE  picked[k] \in Ids(d.overlays)
    <2>1. /\ row[k] \in DOMAIN ByOrder(d.classes)
          /\ place[k] \in DOMAIN Picks(p, ByOrder(d.classes)[row[k]].id)
          /\ picked[k] = Picks(p, ByOrder(d.classes)[row[k]].id)[place[k]]
      BY <1>1, Zenon DEF Declared
    <2>2. Picks(p, ByOrder(d.classes)[row[k]].id)[place[k]] \in Ids(d.overlays)
      BY <2>1, PicksAreSound
    <2> QED
      BY <2>1, <2>2
  <1> QED
    BY <1>2

\* What Select works with is what the document says.
LEMMA PackSays ==
  ASSUME CompositionAssumption, IInv, pc = "select"
  PROVE  /\ Ids(pack.profiles) = Ids(doc.profiles)
         /\ Ids(pack.overlays) = Ids(doc.overlays)
         /\ \A id \in Ids(doc.overlays) : With(pack.overlays, id) = With(doc.overlays, id)
         /\ asked \in Ids(doc.profiles) =>
              /\ With(pack.profiles, asked) = Chosen
              /\ Placed(doc, Chosen, Picked(Chosen))
              /\ {Picked(Chosen)[i] : i \in DOMAIN Picked(Chosen)} \subseteq Ids(doc.overlays)
  <1>1. pack # NoPack /\ pack = Normal(doc)
    BY DEF IInv, Stage
  <1>2. Shaped(doc) /\ DocSound(doc)
    BY <1>1, DocFacts
  <1>3. Once(doc.classes) /\ Once(doc.overlays) /\ Once(doc.profiles)
    BY <1>2, Zenon DEF DocSound
  <1>4. /\ pack.classes = ByOrder(doc.classes) /\ pack.overlays = ById(doc.overlays)
        /\ pack.profiles = ById(doc.profiles)
    BY <1>1 DEF Normal
  <1>5. Alike(pack.overlays, doc.overlays) /\ Alike(pack.profiles, doc.profiles)
    <2>1. Alike(ById(doc.overlays), doc.overlays)
      BY <1>2, <1>3, ByIdAlike DEF Shaped
    <2>2. Alike(ById(doc.profiles), doc.profiles)
      BY <1>2, <1>3, ByIdAlike DEF Shaped
    <2> QED
      BY <1>4, <2>1, <2>2, Zenon
  <1>6. /\ Ids(pack.overlays) = Ids(doc.overlays)
        /\ \A id \in Ids(doc.overlays) : With(pack.overlays, id) = With(doc.overlays, id)
    BY <1>3, <1>5, AlikeIds
  <1>7. /\ Ids(pack.profiles) = Ids(doc.profiles)
        /\ \A id \in Ids(doc.profiles) : With(pack.profiles, id) = With(doc.profiles, id)
    BY <1>3, <1>5, AlikeIds
  <1>8. ASSUME asked \in Ids(doc.profiles)
        PROVE  /\ With(pack.profiles, asked) = Chosen
               /\ Placed(doc, Chosen, Picked(Chosen))
               /\ {Picked(Chosen)[i] : i \in DOMAIN Picked(Chosen)} \subseteq Ids(doc.overlays)
    <2>1. PICK q \in DOMAIN doc.profiles : Chosen = doc.profiles[q]
                                           /\ With(doc.profiles, asked) = doc.profiles[q]
      BY <1>3, <1>8, ChosenIs
    <2>2. With(pack.profiles, asked) = Chosen
      BY <1>7, <1>8, <2>1
    <2>3. ProfileSound(doc, Chosen)
      BY <1>2, <2>1 DEF DocSound
    <2>4. \A c \in DOMAIN Chosen.selections : Chosen.selections[c] \in Seq(Nat)
      BY <1>2, <2>1 DEF Shaped
    <2> DEFINE p == Chosen
    <2> HIDE DEF p
    <2>5. Placed(doc, p, Picked(p))
      <3>1. \A c \in DOMAIN p.selections : p.selections[c] \in Seq(Nat)
        BY <2>4 DEF p
      <3> QED
        BY <1>2, <1>3, <1>4, <3>1, PickedPlaced
    <2>6. ProfileSound(doc, p)
      BY <2>3 DEF p
    <2>7. {Picked(p)[i] : i \in DOMAIN Picked(p)} \subseteq Ids(doc.overlays)
      BY <1>2, <1>3, <2>5, <2>6, PickedKnown
    <2> QED
      BY <2>2, <2>5, <2>7 DEF p
  <1> QED
    BY <1>6, <1>7, <1>8

\* The selection is the declared one, within the limit and without conflict.
LEMMA SelectStep ==
  ASSUME CompositionAssumption, IInv, Select
  PROVE  IInv'
  <1> DEFINE picked == Picked(Chosen)
             overlays == [i \in DOMAIN picked |-> With(doc.overlays, picked[i])]
  <1>1. pc = "select" /\ pack # NoPack /\ error = Ok
    BY DEF Select, IInv, Stage
  <1>2. /\ Ids(pack.profiles) = Ids(doc.profiles)
        /\ Ids(pack.overlays) = Ids(doc.overlays)
        /\ \A id \in Ids(doc.overlays) : With(pack.overlays, id) = With(doc.overlays, id)
    BY <1>1, PackSays
  <1>3. asked \in Ids(doc.profiles) =>
          /\ With(pack.profiles, asked) = Chosen
          /\ Placed(doc, Chosen, picked)
          /\ {picked[i] : i \in DOMAIN picked} \subseteq Ids(doc.overlays)
    BY <1>1, PackSays
  <1>4. "UnknownProfile" \in ComposeErrors /\ "TooManyOverlays" \in ComposeErrors
        /\ "IncompatibleOverlays" \in ComposeErrors
    BY DEF ComposeErrors
  <1>5. CASE asked \notin Ids(doc.profiles)
    <2>1. Fail("UnknownProfile")
      BY <1>2, <1>5, Zenon DEF Select
    <2> QED
      BY <1>1, <1>4, <2>1, FailStep
  <1>6. CASE asked \in Ids(doc.profiles)
    <2>1. [i \in DOMAIN picked |-> With(pack.overlays, picked[i])] = overlays
      <3>1. \A i \in DOMAIN picked : With(pack.overlays, picked[i]) = With(doc.overlays, picked[i])
        <4> TAKE i \in DOMAIN picked
        <4>1. picked[i] \in Ids(doc.overlays)
          BY <1>3, <1>6
        <4> QED
          BY <1>2, <4>1
      <3> HIDE DEF picked
      <3> QED
        BY <3>1, Zenon
    <2> HIDE DEF picked
    <2>2. IF TooMany(overlays) THEN Fail("TooManyOverlays")
          ELSE IF Conflicts(overlays) THEN Fail("IncompatibleOverlays")
          ELSE /\ selected' = overlays /\ pc' = "assemble"
               /\ UNCHANGED <<doc, asked, disk, edits, pack, segments, context,
                              sourceBytes, error>>
      <3> DEFINE given == [i \in DOMAIN picked |-> With(pack.overlays, picked[i])]
      <3>1. {picked[i] : i \in DOMAIN picked} \subseteq Ids(pack.overlays)
        BY <1>2, <1>3, <1>6
      <3>2. IF ~({picked[i] : i \in DOMAIN picked} \subseteq Ids(pack.overlays))
            THEN Fail("MissingOverlay")
            ELSE IF TooMany(given) THEN Fail("TooManyOverlays")
            ELSE IF Conflicts(given) THEN Fail("IncompatibleOverlays")
            ELSE /\ selected' = given /\ pc' = "assemble"
                 /\ UNCHANGED <<doc, asked, disk, edits, pack, segments, context,
                                sourceBytes, error>>
        BY <1>2, <1>3, <1>6, Zenon DEF Select, picked
      <3>3. given = overlays
        BY <2>1
      <3> HIDE DEF given, overlays
      <3> QED
        BY <3>1, <3>2, <3>3, Zenon
    <2> HIDE DEF overlays
    <2>3. CASE TooMany(overlays)
      <3>1. Fail("TooManyOverlays")
        BY <2>2, <2>3, Zenon
      <3> QED
        BY <1>1, <1>4, <3>1, FailStep
    <2>4. CASE ~TooMany(overlays) /\ Conflicts(overlays)
      <3>1. Fail("IncompatibleOverlays")
        BY <2>2, <2>4, Zenon
      <3> QED
        BY <1>1, <1>4, <3>1, FailStep
    <2>5. CASE ~TooMany(overlays) /\ ~Conflicts(overlays)
      <3>1. /\ selected' = overlays /\ pc' = "assemble"
            /\ UNCHANGED <<doc, asked, disk, edits, pack, segments, context, sourceBytes, error>>
        BY <2>2, <2>5, Zenon
      <3>2. segments = <<>>
        <4>1. selected = <<>> /\ Loaded(segments, selected)
          BY <1>1 DEF IInv, Choice
        <4> QED
          BY <4>1 DEF Loaded
      <3>3. Placed(doc, Chosen, picked)
        BY <1>3, <1>6
      <3>4. IsList(overlays)
        <4>1. picked \in Seq(Nat)
          BY <3>3, Zenon DEF Placed
        <4>2. overlays = [i \in 1 .. Len(picked) |-> With(doc.overlays, picked[i])]
          BY <4>1 DEF overlays
        <4> QED
          BY <4>1, <4>2 DEF IsList
      <3>5. Len(overlays) <= MaxOverlays
        <4>1. MaxOverlays \in Nat
          BY DEF CompositionAssumption
        <4>2. ~(Len(overlays) > MaxOverlays)
          BY <2>5 DEF TooMany
        <4> QED
          BY <3>4, <4>1, <4>2 DEF IsList
      <3>6. Selected(doc, Chosen, overlays)
        BY <2>5, <3>3, <3>5, Zenon DEF Selected, overlays
      <3>7. Selected(doc, Chosen, selected)'
        <4>1. Chosen' = Chosen /\ Selected(doc, Chosen, selected)' = Selected(doc', Chosen', selected')
          BY <3>1 DEF Selected, Chosen, Conflicts
        <4> QED
          BY <3>1, <3>6, <4>1
      <3>8. Choice'
        <4>1. ~Composed'
          BY <3>1 DEF Composed
        <4> QED
          BY <1>1, <1>6, <3>1, <3>7, <4>1, Zenon DEF Choice
      <3>9. Stage'
        BY <1>1, <3>1 DEF IInv, Stage
      <3>10. Framed(segments)'
        BY <3>1, ReadStays
      <3>11. Loaded(segments, selected)'
        <4>1. Len(selected') \in Nat /\ segments' = <<>>
          BY <3>1, <3>2, <3>4 DEF IsList
        <4> QED
          BY <4>1 DEF Loaded
      <3> QED
        BY <3>1, <3>8, <3>9, <3>10, <3>11 DEF IInv
    <2> QED
      BY <2>3, <2>4, <2>5, Zenon
  <1> QED
    BY <1>5, <1>6

\* What is being assembled is what was selected, each of the document.
LEMMA Assembling ==
  ASSUME CompositionAssumption, IInv, pc = "assemble"
  PROVE  /\ IsList(selected)
         /\ \A k \in DOMAIN selected : /\ selected[k].class \in Ids(doc.classes)
                                       /\ selected[k].id \in Nat
                                       /\ selected[k].source \in Sources
  <1>1. pack # NoPack /\ asked \in Ids(doc.profiles) /\ Selected(doc, Chosen, selected)
    BY DEF IInv, Stage, Choice
  <1>2. Shaped(doc) /\ DocSound(doc)
    BY <1>1, DocFacts
  <1>3. Once(doc.profiles)
    BY <1>2, Zenon DEF DocSound
  <1> DEFINE p == Chosen
  <1>4. PICK q \in DOMAIN doc.profiles : p = doc.profiles[q]
    BY <1>1, <1>3, ChosenIs
  <1>5. ProfileSound(doc, p) /\ Selected(doc, p, selected)
    BY <1>1, <1>2, <1>4 DEF DocSound
  <1> HIDE DEF p
  <1>6. /\ IsList(selected)
        /\ \A k \in DOMAIN selected : \E i \in DOMAIN doc.overlays : selected[k] = doc.overlays[i]
    BY <1>2, <1>5, SelectedListed
  <1>7. ASSUME NEW k \in DOMAIN selected
        PROVE  /\ selected[k].class \in Ids(doc.classes)
               /\ selected[k].id \in Nat
               /\ selected[k].source \in Sources
    <2>1. PICK i \in DOMAIN doc.overlays : selected[k] = doc.overlays[i]
      BY <1>6
    <2>2. OverlaySound(doc, doc.overlays[i])
      BY <1>2, Zenon DEF DocSound
    <2> QED
      BY <1>2, <2>1, <2>2, Zenon DEF OverlaySound, Shaped
  <1> QED
    BY <1>6, <1>7

\* A segment more, of the next overlay and as its source is read.
LEMMA LoadStep ==
  ASSUME CompositionAssumption, IInv, Load
  PROVE  IInv'
  <1> DEFINE n == Len(segments)
             bytes == disk[Overlay.source]
             item == [class |-> Overlay.class, id |-> Overlay.id, source |-> Overlay.source,
                      bytes |-> bytes]
             Item == [class : Ids(doc.classes), id : Nat, source : Sources, bytes : Contents]
  <1>1. pc = "assemble" /\ n < Len(selected) /\ pack # NoPack /\ error = Ok
    BY DEF Load, IInv, Stage
  <1>2. Loaded(segments, selected) /\ Framed(segments) /\ Choice /\ Stage
        /\ disk \in [Sources -> Contents \cup {Gone}]
    BY Zenon DEF IInv
  <1>3. segments \in Seq(Item) /\ n \in Nat
        /\ \A k \in 1 .. n : /\ segments[k].class = selected[k].class
                             /\ segments[k].id = selected[k].id
                             /\ Length(segments[k].bytes) <= MaxOverlayBytes
    BY <1>2 DEF Loaded
  <1>4. IsList(selected) /\ n + 1 \in DOMAIN selected
    <2>1. IsList(selected)
      BY <1>1, Assembling
    <2>2. Len(selected) \in Nat /\ DOMAIN selected = 1 .. Len(selected)
      BY <2>1, Zenon DEF IsList
    <2> QED
      BY <1>1, <1>3, <2>1, <2>2
  <1>5. Overlay.class \in Ids(doc.classes) /\ Overlay.id \in Nat /\ Overlay.source \in Sources
    BY <1>1, <1>4, Assembling DEF Overlay
  <1>6. bytes \in Contents \cup {Gone}
    BY <1>2, <1>5
  <1>7. "Source" \in ComposeErrors /\ "OverlayTooLarge" \in ComposeErrors
        /\ "OutputTooLarge" \in ComposeErrors
    BY DEF ComposeErrors
  <1>8. IF bytes = Gone THEN Fail("Source")
        ELSE IF Length(bytes) > MaxOverlayBytes
        THEN \E why \in {"Source", "OverlayTooLarge"} : Fail(why)
        ELSE IF BytesOf(context \o Frame(bytes)) > MaxOutputBytes THEN Fail("OutputTooLarge")
        ELSE /\ sourceBytes' = sourceBytes + Length(bytes)
             /\ context' = context \o Frame(bytes)
             /\ segments' = Append(segments, item)
             /\ UNCHANGED <<doc, asked, disk, edits, pack, selected, pc, error>>
    BY Zenon DEF Load
  <1>9. CASE \E why \in ComposeErrors : Fail(why)
    BY <1>1, <1>9, FailStep
  <1>10. CASE /\ bytes # Gone /\ ~(Length(bytes) > MaxOverlayBytes)
              /\ ~(BytesOf(context \o Frame(bytes)) > MaxOutputBytes)
              /\ sourceBytes' = sourceBytes + Length(bytes)
              /\ context' = context \o Frame(bytes)
              /\ segments' = Append(segments, item)
              /\ UNCHANGED <<doc, asked, disk, edits, pack, selected, pc, error>>
    <2>1. bytes \in Contents
      BY <1>6, <1>10
    <2>2. item \in Item /\ item.class = Overlay.class /\ item.id = Overlay.id /\ item.bytes = bytes
      BY <1>5, <2>1
    <2>3. Length(bytes) \in Nat /\ MaxOverlayBytes \in Nat /\ MaxOutputBytes \in Nat
      BY <2>1 DEF CompositionAssumption
    <2>4. BytesOf(context \o Frame(bytes)) \in Nat
      <3> DEFINE S2 == Contents \cup {Separator}
      <3>1. context \in Seq(S2) /\ BytesOf(context) \in Nat
        <4>1. context \in Seq(S2)
          BY <1>2, Zenon DEF Framed
        <4>2. sourceBytes \in Nat /\ BytesOf(context) = IF n = 0 THEN 0 ELSE sourceBytes + 2 * (n - 1)
          BY <1>2, Zenon DEF Framed
        <4> QED
          BY <1>3, <4>1, <4>2
      <3>2. Weight(bytes) \in Nat /\ Weight(Separator) \in Nat
        BY <2>3 DEF Weight
      <3>3. Frame(bytes) = <<bytes>> \/ Frame(bytes) = <<Separator, bytes>>
        BY DEF Frame
      <3> HIDE DEF S2, bytes
      <3>4. BytesOf(context \o <<bytes>>) = BytesOf(context) + Weight(bytes)
        BY <3>1, <3>2, BytesOfGrows
      <3>5. BytesOf(context \o <<Separator, bytes>>) =
              BytesOf(context) + Weight(Separator) + Weight(bytes)
        <4>1. \A y : BytesOf(context \o <<Separator, y>>) =
                     BytesOf(context) + Weight(Separator) + Weight(y)
          BY <3>1, <3>2, BytesOfGrows
        <4> QED
          BY <4>1, Zenon
      <3>6. CASE Frame(bytes) = <<bytes>>
        BY <3>1, <3>2, <3>4, <3>6
      <3>7. CASE Frame(bytes) = <<Separator, bytes>>
        BY <3>1, <3>2, <3>5, <3>7
      <3> QED
        BY <3>3, <3>6, <3>7
    <2>5. BytesOf(context \o Frame(bytes)) <= MaxOutputBytes /\ Length(bytes) <= MaxOverlayBytes
      BY <1>10, <2>3, <2>4
    <2> HIDE DEF item, Item, bytes
    <2>6. Framed(segments)'
      BY <1>2, <1>3, <1>10, <2>1, <2>2, <2>5, FramedGrows
    <2>7. Loaded(segments, selected)'
      <3>1. /\ Append(segments, item) \in Seq(Item)
            /\ Len(Append(segments, item)) = n + 1
            /\ \A k \in 1 .. n : Append(segments, item)[k] = segments[k]
            /\ Append(segments, item)[n + 1] = item
        BY <1>3, <2>2
      <3>2. n + 1 <= Len(selected)
        BY <1>1, <1>3, <1>4 DEF IsList
      <3>3. ASSUME NEW k \in 1 .. n + 1
            PROVE  /\ segments'[k].class = selected[k].class
                   /\ segments'[k].id = selected[k].id
                   /\ Length(segments'[k].bytes) <= MaxOverlayBytes
        <4>1. CASE k = n + 1
          BY <1>10, <2>2, <2>5, <3>1, <4>1, Zenon DEF Overlay
        <4>2. CASE k # n + 1
          <5>1. k \in 1 .. n
            BY <1>3, <4>2
          <5> QED
            BY <1>3, <1>10, <3>1, <5>1, Zenon
        <4> QED
          BY <4>1, <4>2
      <3> HIDE DEF n
      <3>4. Len(segments') = n + 1
        BY <1>10, <3>1, Zenon
      <3>5. segments' \in Seq([class : Ids(doc'.classes), id : Nat, source : Sources, bytes : Contents])
        BY <1>10, <3>1, Zenon DEF Item
      <3>6. Len(segments') <= Len(selected')
        BY <1>10, <3>2, <3>4, Zenon
      <3> QED
        BY <1>10, <3>3, <3>4, <3>5, <3>6, Zenon DEF Loaded
    <2>8. Stage' /\ ~Composed'
      BY <1>1, <1>2, <1>10 DEF Stage, Composed
    <2>9. Choice'
      BY <1>1, <1>10, <2>8, ChoiceStays
    <2> QED
      BY <1>2, <1>10, <2>6, <2>7, <2>8, <2>9 DEF IInv
  <1> HIDE DEF bytes, item
  <1> QED
    BY <1>7, <1>8, <1>9, <1>10, Zenon

LEMMA FinishStep ==
  ASSUME IInv, Finish
  PROVE  IInv'
  <1>1. /\ pc = "assemble" /\ Len(segments) = Len(selected) /\ pc' = "done"
        /\ UNCHANGED <<doc, asked, disk, edits, pack, selected, segments, context, sourceBytes, error>>
    BY Zenon DEF Finish
  <1>2. Stage'
    BY <1>1 DEF IInv, Stage
  <1>3. Loaded(segments, selected)' /\ Framed(segments)'
    BY <1>1, ReadStays
  <1>4. Choice'
    BY <1>1, ChoiceStays
  <1> QED
    BY <1>1, <1>2, <1>3, <1>4 DEF IInv

LEMMA EditStep ==
  ASSUME IInv, NEW source \in Sources, Edit(source)
  PROVE  IInv'
  <1>1. /\ pc = "assemble"
        /\ UNCHANGED <<doc, asked, pack, selected, segments, context, sourceBytes, pc, error>>
    BY Zenon DEF Edit
  <1>2. disk' \in [Sources -> Contents \cup {Gone}]
    BY DEF IInv, Edit
  <1>3. Stage' /\ ~Composed'
    BY <1>1 DEF IInv, Stage, Composed
  <1>4. Loaded(segments, selected)' /\ Framed(segments)'
    BY <1>1, ReadStays
  <1>5. Choice'
    BY <1>1, <1>3, ChoiceStays
  <1> QED
    BY <1>1, <1>2, <1>3, <1>4, <1>5 DEF IInv

LEMMA StutterStep ==
  ASSUME IInv, UNCHANGED vars
  PROVE  IInv'
  <1>1. UNCHANGED <<doc, asked, disk, edits, pack, selected, segments, context, sourceBytes, pc, error>>
    BY DEF vars
  <1>2. Stage' /\ (Composed' <=> Composed)
    BY <1>1 DEF IInv, Stage, Composed
  <1>3. Loaded(segments, selected)' /\ Framed(segments)'
    BY <1>1, ReadStays
  <1>4. Composed => Len(segments) = Len(selected)
    BY Zenon DEF IInv, Choice
  <1>5. Choice'
    BY <1>1, <1>2, <1>4, ChoiceStays
  <1> QED
    BY <1>1, <1>2, <1>3, <1>5 DEF IInv

\* Every step of a composition keeps the invariant.
LEMMA NextIInv ==
  ASSUME CompositionAssumption, IInv, [Next]_vars
  PROVE  IInv'
  <1>1. CASE NewPack
    BY <1>1, NewPackStep
  <1>2. CASE Select
    BY <1>2, SelectStep
  <1>3. CASE Load
    BY <1>3, LoadStep
  <1>4. CASE Finish
    BY <1>4, FinishStep
  <1>5. CASE \E source \in Sources : Edit(source)
    BY <1>5, EditStep
  <1>6. CASE UNCHANGED vars
    BY <1>6, StutterStep
  <1> QED
    BY <1>1, <1>2, <1>3, <1>4, <1>5, <1>6 DEF Next

\* What the invariant says of packs, and of what is composed.
LEMMA PacksFromIInv ==
  ASSUME CompositionAssumption, IInv
  PROVE  PacksExactly
  <1>1. Shaped(doc)
    BY DocFacts
  <1>2. pc # "new" => (pack # NoPack <=> PackRefusal(doc) = Ok)
    BY Zenon DEF IInv, Stage
  <1> QED
    BY <1>1, <1>2, PacksFromRefusal

LEMMA TypeFromIInv ==
  ASSUME CompositionAssumption, IInv
  PROVE  TypeOK
  <1>1. PackRefusal(doc) \in PackErrors \cup {Ok}
    BY DocFacts
  <1>2. Stage /\ Choice /\ Loaded(segments, selected)
    BY Zenon DEF IInv
  <1>3. \A e \in PackErrors : e \notin ComposeErrors /\ e # Ok
    BY DEF PackErrors, ComposeErrors, Ok
  <1>4. error \in PackErrors \cup ComposeErrors \cup {Ok}
    <2>1. CASE pc # "done"
      BY <1>2, <2>1, Zenon DEF Stage
    <2>2. CASE pc = "done" /\ pack = NoPack
      <3>1. pc # "new"
        BY <2>2
      <3>2. error = PackRefusal(doc)
        BY <1>2, <2>2, <3>1, Zenon DEF Stage
      <3> QED
        BY <1>1, <3>2
    <2>3. CASE pc = "done" /\ pack # NoPack
      BY <1>2, <2>3, Zenon DEF Stage
    <2> QED
      BY <2>1, <2>2, <2>3
  <1>5. error \in PackErrors <=> pc = "done" /\ pack = NoPack
    <2>1. ASSUME pc = "done", pack = NoPack
          PROVE  error \in PackErrors
      <3>1. pc # "new"
        BY <2>1
      <3>2. error = PackRefusal(doc) /\ PackRefusal(doc) # Ok
        BY <1>2, <2>1, <3>1, Zenon DEF Stage
      <3> QED
        BY <1>1, <3>2
    <2>2. ASSUME error \in PackErrors
          PROVE  pc = "done" /\ pack = NoPack
      <3>1. error # Ok /\ error \notin ComposeErrors
        BY <1>3, <2>2
      <3>2. pc = "done"
        BY <1>2, <3>1, Zenon DEF Stage
      <3> QED
        BY <1>2, <3>1, <3>2, Zenon DEF Stage
    <2> QED
      BY <2>1, <2>2
  <1>6. Len(selected) <= MaxOverlays
    <2>1. CASE selected = <<>>
      <3>1. MaxOverlays \in Nat /\ Len(selected) = 0
        BY <2>1 DEF CompositionAssumption
      <3> QED
        BY <3>1
    <2>2. CASE selected # <<>>
      BY <1>2, <2>2, Zenon DEF Choice, Selected
    <2> QED
      BY <2>1, <2>2
  <1>7. Len(segments) <= Len(selected)
    BY <1>2, Zenon DEF Loaded
  <1>8. pc \in {"new", "select", "assemble", "done"}
    BY <1>2, Zenon DEF Stage
  <1> QED
    BY <1>4, <1>5, <1>6, <1>7, <1>8, Zenon DEF TypeOK

LEMMA ComposesFromIInv ==
  ASSUME CompositionAssumption, IInv
  PROVE  ComposesExactly
  <1>1. Shaped(doc) /\ (pack # NoPack => DocSound(doc))
    BY DocFacts
  <1>2. Choice /\ Loaded(segments, selected) /\ Framed(segments)
    BY Zenon DEF IInv
  <1>3. Composed \/ selected # <<>> =>
          DocSound(doc) /\ asked \in Ids(doc.profiles) /\ Selected(doc, Chosen, selected)
    BY <1>1, <1>2, Zenon DEF Choice
  <1>4. OrderIsDeclared
    <2>1. CASE Composed
      <3>1. Composed => Len(segments) = Len(selected)
        BY <1>2, Zenon DEF Choice
      <3> QED
        BY <1>1, <1>2, <1>3, <2>1, <3>1, OrderHolds
    <2>2. CASE ~Composed
      BY <2>2 DEF OrderIsDeclared
    <2> QED
      BY <2>1, <2>2
  <1>5. ConflictsAreNeverRead
    <2>1. CASE segments = <<>>
      BY <2>1 DEF ConflictsAreNeverRead
    <2>2. CASE segments # <<>>
      <3>1. selected # <<>>
        BY <1>2, <2>2 DEF Loaded
      <3> QED
        BY <1>1, <1>3, <3>1, ConflictsHold
    <2> QED
      BY <2>1, <2>2
  <1>6. ContextIsExact
    BY <1>2, ContextHolds
  <1>7. TypeOK
    BY TypeFromIInv
  <1> QED
    BY <1>4, <1>5, <1>6, <1>7 DEF ComposesExactly

LEMMA SpecIInv ==
  ASSUME CompositionAssumption
  PROVE  Spec => []IInv
  <1>1. Init => IInv
    BY InitIInv
  <1>2. IInv /\ [Next]_vars => IInv'
    BY NextIInv
  <1> QED
    BY <1>1, <1>2, PTL DEF Spec

\* A document becomes a pack exactly when nothing in it is named twice or not at all,
\* and every profile takes of each class as many as it allows, each once and of its
\* class, in whatever order anything is declared (OverlayPack::new).
THEOREM PacksExact == Spec => []PacksExactly
  <1>1. IInv => PacksExactly
    BY PackAssumption, PacksFromIInv
  <1> QED
    BY <1>1, PackAssumption, SpecIInv, PTL

\* What is composed is what the pack declares, in its order: whole, framed, within the
\* limits and free of conflicts, whoever edits the sources meanwhile (compose).
THEOREM ComposesExact == Spec => []ComposesExactly
  <1>1. IInv => ComposesExactly
    BY PackAssumption, ComposesFromIInv
  <1> QED
    BY <1>1, PackAssumption, SpecIInv, PTL
-----------------------------------------------------------------------------
(***************************************************************************)
(* Lockfile. Chains of checks, first.                                      *)
(***************************************************************************)

\* A chain is Ok when no check applies, or it is the first one that does.
LEMMA FirstOfValue ==
  ASSUME NEW n \in Nat, NEW checks, DOMAIN checks = 1 .. n
  PROVE  \/ /\ \A i \in 1 .. n : ~checks[i].applies
            /\ Locks!FirstOf(checks) = Locks!Ok
         \/ \E i \in 1 .. n :
              /\ checks[i].applies /\ \A j \in 1 .. i - 1 : ~checks[j].applies
              /\ Locks!FirstOf(checks) = checks[i].refusal
  <1> DEFINE hits  == {i \in DOMAIN checks : checks[i].applies}
             first == CHOOSE i \in hits : \A j \in hits : i <= j
  <1>1. CASE hits = {}
    BY <1>1 DEF Locks!FirstOf
  <1>2. CASE hits # {}
    <2>1. hits \in SUBSET Nat
      OBVIOUS
    <2>2. first \in hits /\ \A j \in hits : first <= j
      <3> HIDE DEF hits
      <3>1. \E i \in hits : \A j \in hits : i <= j
        BY <1>2, <2>1, LeastExists
      <3> QED
        BY <3>1
    <2>3. Locks!FirstOf(checks) = checks[first].refusal
      BY <1>2 DEF Locks!FirstOf
    <2> HIDE DEF first
    <2> QED
      BY <2>2, <2>3
  <1> QED
    BY <1>1, <1>2
-----------------------------------------------------------------------------
(***************************************************************************)
(* Locks: which fields they have, and what makes them valid.               *)
(***************************************************************************)

\* Which fields a list of locked overlays, a manifest, a lock and a text have.
OverlaysShape(o) ==
  /\ Len(o) \in Nat /\ DOMAIN o = 1 .. Len(o)
  /\ o = [i \in 1 .. Len(o) |-> [id |-> o[i].id, source |-> o[i].source,
                                 length |-> o[i].length, digest |-> o[i].digest]]
ManifestFields(m) ==
  m = [inputs |-> m.inputs, pack |-> m.pack, profile |-> m.profile,
       overlays |-> m.overlays, output |-> m.output]
LockFields(lock) ==
  lock = [format |-> lock.format, manifest |-> lock.manifest, digest |-> lock.digest]
TextFields(text) == text = [layout |-> text.layout, lock |-> text.lock]

LockShape(lock) ==
  /\ LockFields(lock) /\ ManifestFields(lock.manifest) /\ OverlaysShape(lock.manifest.overlays)
TextShape(text) == TextFields(text) /\ LockShape(text.lock)

\* A pack of the model: each profile picks overlays that are declared.
PackShape(p) == \A profile \in Profiles : p.picks[profile] \in Seq(DOMAIN p.at)

\* A lock of a pack, made while the sources held what they did.
MadeLock(lock, p, profile, held) ==
  lock = Locks!Build(p, profile, held) /\ ~Locks!EncodedTooLarge(lock)

\* A name that validation takes.
HasName(profile) == profile # "no identifier"

\* A lock that is valid is bound to its manifest, and that to what it lists.
LEMMA ValidateCases ==
  ASSUME NEW lock
  PROVE  /\ Locks!Validate(lock) \in Locks!Errors \cup {Locks!Ok}
         /\ Locks!Validate(lock) = Locks!Ok <=>
              /\ lock.format = "v1" /\ lock.manifest.profile.id # "no identifier"
              /\ Locks!NotHex \notin Locks!Digests(lock)
              /\ lock.manifest.inputs = Locks!InputsDigest(lock.manifest.pack.digest,
                                  lock.manifest.profile.digest, lock.manifest.overlays)
              /\ lock.digest = Locks!ManifestDigest(lock.manifest)
  <1> DEFINE format == lock.format # "v1"
             name   == lock.manifest.profile.id = "no identifier"
             hex    == Locks!NotHex \in Locks!Digests(lock)
             inner  == lock.manifest.inputs # Locks!InputsDigest(lock.manifest.pack.digest,
                                  lock.manifest.profile.digest, lock.manifest.overlays)
             outer  == lock.digest # Locks!ManifestDigest(lock.manifest)
             checks == <<Locks!When(format, "UnsupportedFormat"), Locks!When(name, "InvalidIdentity"),
                         Locks!When(hex, "InvalidDigest"), Locks!When(inner, "LockfileIntegrityMismatch"),
                         Locks!When(outer, "LockfileIntegrityMismatch")>>
  <1>1. Locks!Validate(lock) = Locks!FirstOf(checks)
    BY DEF Locks!Validate
  <1>2. /\ format \in BOOLEAN /\ name \in BOOLEAN /\ hex \in BOOLEAN
        /\ inner \in BOOLEAN /\ outer \in BOOLEAN
    OBVIOUS
  <1> SUFFICES /\ Locks!FirstOf(checks) \in Locks!Errors \cup {Locks!Ok}
               /\ Locks!FirstOf(checks) = Locks!Ok <=> ~format /\ ~name /\ ~hex /\ ~inner /\ ~outer
    BY <1>1
  <1> HIDE DEF format, name, hex, inner, outer
  <1>3. /\ DOMAIN checks = 1 .. 5
        /\ checks[1].applies = format /\ checks[2].applies = name /\ checks[3].applies = hex
        /\ checks[4].applies = inner /\ checks[5].applies = outer
        /\ \A i \in 1 .. 5 : checks[i].refusal \in Locks!Errors
    BY <1>2 DEF Locks!When, Locks!Errors
  <1> HIDE DEF checks
  <1>4. \/ (\A i \in 1 .. 5 : ~checks[i].applies) /\ Locks!FirstOf(checks) = Locks!Ok
        \/ \E i \in 1 .. 5 : checks[i].applies /\ Locks!FirstOf(checks) = checks[i].refusal
    BY <1>3, FirstOfValue
  <1>5. Locks!Ok \notin Locks!Errors
    BY DEF Locks!Ok, Locks!Errors
  <1> QED
    BY <1>2, <1>3, <1>4, <1>5

\* What decodes is a canonical text of a valid lock.
LEMMA DecodeCases ==
  ASSUME NEW text
  PROVE  /\ Locks!DecodeRefusal(text) \in Locks!Errors \cup {Locks!Ok}
         /\ Locks!DecodeRefusal(text) = Locks!Ok <=>
              /\ ~(Locks!LockBytes(text.lock) > MaxLockBytes)
              /\ Locks!Validate(text.lock) = Locks!Ok /\ text.layout = "canonical"
  BY ValidateCases DEF Locks!DecodeRefusal, Locks!Errors, Locks!Ok


\* What is not hexadecimal is no digest.
LEMMA NotHexIsNone ==
  ASSUME NEW of, NEW material
  PROVE  Locks!NotHex # Locks!Digest(of, material)
  BY DEF Locks!NotHex, Locks!Digest

\* What a made lock says of its i-th overlay.
LockOverlay(p, profile, held, i) ==
  [id     |-> p.picks[profile][i],
   source |-> p.at[p.picks[profile][i]],
   length |-> Len(held[p.at[p.picks[profile][i]]]),
   digest |-> Locks!Digest("bytes", held[p.at[p.picks[profile][i]]])]

LEMMA SegmentsLocked ==
  ASSUME NEW p, NEW profile, NEW held
  PROVE  LET taken == Locks!Segments(p, profile, held)
         IN [i \in DOMAIN taken |-> Locks!LockedOverlay(taken[i])]
              = [i \in DOMAIN p.picks[profile] |-> LockOverlay(p, profile, held, i)]
  <1> DEFINE taken == Locks!Segments(p, profile, held)
             segment(i) == [id |-> p.picks[profile][i], source |-> p.at[p.picks[profile][i]],
                            bytes |-> held[p.at[p.picks[profile][i]]]]
  <1>1. taken = [i \in DOMAIN p.picks[profile] |-> segment(i)]
    BY DEF Locks!Segments
  <1>2. \A i : Locks!LockedOverlay(segment(i)) = LockOverlay(p, profile, held, i)
    BY DEF Locks!LockedOverlay, LockOverlay
  <1> HIDE DEF taken, segment
  <1>3. DOMAIN taken = DOMAIN p.picks[profile] /\ \A i \in DOMAIN taken : taken[i] = segment(i)
    BY <1>1
  <1>4. [i \in DOMAIN taken |-> Locks!LockedOverlay(taken[i])]
          = [i \in DOMAIN p.picks[profile] |-> LockOverlay(p, profile, held, i)]
    BY <1>2, <1>3
  <1> QED
    BY <1>4 DEF taken

\* A sequence of overlays has their fields.
LEMMA OverlaysShaped ==
  ASSUME NEW p, NEW profile, NEW held, p.picks[profile] \in Seq(DOMAIN p.at)
  PROVE  OverlaysShape([i \in DOMAIN p.picks[profile] |-> LockOverlay(p, profile, held, i)])
  <1> DEFINE picks == p.picks[profile]
             n == Len(picks)
             o == [i \in DOMAIN picks |-> LockOverlay(p, profile, held, i)]
  <1>1. n \in Nat /\ DOMAIN picks = 1 .. n
    <2> HIDE DEF picks
    <2>1. picks \in Seq(DOMAIN p.at)
      BY DEF picks
    <2> QED
      BY <2>1
  <1> HIDE DEF picks, n
  <1>2. DOMAIN o = 1 .. n /\ \A i \in 1 .. n : o[i] = LockOverlay(p, profile, held, i)
    BY <1>1
  <1>3. \A i : LockOverlay(p, profile, held, i)
          = [id     |-> LockOverlay(p, profile, held, i).id,
             source |-> LockOverlay(p, profile, held, i).source,
             length |-> LockOverlay(p, profile, held, i).length,
             digest |-> LockOverlay(p, profile, held, i).digest]
    BY DEF LockOverlay
  <1>4. o = [i \in 1 .. n |-> o[i]]
    BY <1>1, <1>2
  <1> HIDE DEF o
  <1>5. o = [i \in 1 .. n |-> [id |-> o[i].id, source |-> o[i].source,
                               length |-> o[i].length, digest |-> o[i].digest]]
    BY <1>2, <1>3, <1>4
  <1>6. Len(o) = n
    BY <1>1, <1>2, <1>4
  <1> QED
    BY <1>1, <1>2, <1>5, <1>6 DEF OverlaysShape, o, picks

\* A lock that is built, field by field.
BuiltFrom(b, m, p, profile, held) ==
  /\ b.manifest = m /\ LockFields(b) /\ b.format = "v1" /\ b.digest = Locks!ManifestDigest(m)
  /\ ManifestFields(m)
  /\ m.inputs = Locks!InputsDigest(m.pack.digest, m.profile.digest, m.overlays)
  /\ m.pack = [id |-> p.id, schema |-> p.schema, digest |-> Locks!Digest("pack", p)]
  /\ m.profile = [id |-> profile, digest |-> Locks!Digest("profile", <<profile, p.picks[profile]>>)]
  /\ m.overlays = [i \in DOMAIN p.picks[profile] |-> LockOverlay(p, profile, held, i)]
  /\ m.output = [length |-> Len(Locks!Rendered(Locks!Segments(p, profile, held))),
                 digest |-> Locks!Digest("bytes", Locks!Rendered(Locks!Segments(p, profile, held)))]

LEMMA BuildFields ==
  ASSUME NEW p, NEW profile, NEW held
  PROVE  BuiltFrom(Locks!Build(p, profile, held), Locks!BuildManifest(p, profile, held), p, profile, held)
  <1> DEFINE overlays == [i \in DOMAIN p.picks[profile] |-> LockOverlay(p, profile, held, i)]
             rendered == Locks!Rendered(Locks!Segments(p, profile, held))
             packed   == [id |-> p.id, schema |-> p.schema, digest |-> Locks!Digest("pack", p)]
             chosen   == [id |-> profile, digest |-> Locks!Digest("profile", <<profile, p.picks[profile]>>)]
             output   == [length |-> Len(rendered), digest |-> Locks!Digest("bytes", rendered)]
             inputs   == Locks!InputsDigest(Locks!Digest("pack", p), Locks!Digest("profile", <<profile, p.picks[profile]>>),
                                     overlays)
             built    == [inputs |-> inputs, pack |-> packed, profile |-> chosen,
                          overlays |-> overlays, output |-> output]
             m == Locks!BuildManifest(p, profile, held)
             b == Locks!Build(p, profile, held)
  <1>1. m = built
    BY SegmentsLocked, Zenon DEF Locks!BuildManifest, Locks!PackDigest
  <1>2. b = [format |-> "v1", manifest |-> m, digest |-> Locks!ManifestDigest(m)]
    BY Zenon DEF Locks!Build, Locks!Seal
  <1>3. inputs = Locks!InputsDigest(packed.digest, chosen.digest, overlays)
    BY DEF Locks!InputsDigest
  <1> HIDE DEF inputs, packed, chosen, overlays, output, m, b
  <1>5. /\ m.inputs = inputs /\ m.pack = packed /\ m.profile = chosen
        /\ m.overlays = overlays /\ m.output = output
    BY <1>1
  <1>7. ManifestFields(m)
    BY <1>1, <1>5 DEF ManifestFields
  <1> HIDE DEF built
  <1>6. m.inputs = Locks!InputsDigest(m.pack.digest, m.profile.digest, m.overlays)
    BY <1>3, <1>5
  <1>8. b.manifest = m /\ LockFields(b) /\ b.format = "v1" /\ b.digest = Locks!ManifestDigest(m)
    BY <1>2 DEF LockFields
  <1> QED
    BY <1>5, <1>6, <1>7, <1>8, Zenon DEF BuiltFrom, packed, chosen, overlays, output, m, b

LEMMA BuiltPackDigest ==
  ASSUME NEW p, NEW profile, NEW held, NEW b, NEW m, BuiltFrom(b, m, p, profile, held)
  PROVE  m.pack.digest = Locks!Digest("pack", p)
  <1>1. m.pack = [id |-> p.id, schema |-> p.schema, digest |-> Locks!Digest("pack", p)]
    BY Zenon DEF BuiltFrom
  <1> QED
    BY <1>1

LEMMA BuiltName ==
  ASSUME NEW p, NEW profile, NEW held, NEW b, NEW m, BuiltFrom(b, m, p, profile, held)
  PROVE  /\ m.profile.id = profile
         /\ \E material : m.profile.digest = Locks!Digest("profile", material)
  <1> DEFINE both == <<profile, p.picks[profile]>>
  <1>1. m.profile = [id |-> profile, digest |-> Locks!Digest("profile", both)]
    BY Zenon DEF BuiltFrom
  <1> HIDE DEF both
  <1> QED
    BY <1>1

LEMMA BuiltOverlay ==
  ASSUME NEW p, NEW profile, NEW held, NEW b, NEW m, BuiltFrom(b, m, p, profile, held)
  PROVE  /\ DOMAIN m.overlays = DOMAIN p.picks[profile]
         /\ \A i \in DOMAIN m.overlays :
              m.overlays[i].digest = Locks!Digest("bytes", held[p.at[p.picks[profile][i]]])
  <1>1. m.overlays = [i \in DOMAIN p.picks[profile] |-> LockOverlay(p, profile, held, i)]
    BY Zenon DEF BuiltFrom
  <1>2. /\ DOMAIN m.overlays = DOMAIN p.picks[profile]
        /\ \A i \in DOMAIN m.overlays : m.overlays[i] = LockOverlay(p, profile, held, i)
    BY <1>1
  <1>3. \A i : LockOverlay(p, profile, held, i).digest = Locks!Digest("bytes", held[p.at[p.picks[profile][i]]])
    BY DEF LockOverlay
  <1> QED
    BY <1>2, <1>3, Zenon

LEMMA BuiltHex ==
  ASSUME NEW p, NEW profile, NEW held, NEW b, NEW m, BuiltFrom(b, m, p, profile, held)
  PROVE  Locks!NotHex \notin Locks!Digests(b)
  <1> DEFINE rendered == Locks!Rendered(Locks!Segments(p, profile, held))
  <1>1. b.manifest = m /\ b.digest = Locks!Digest("manifest", m)
    BY Zenon DEF BuiltFrom, Locks!ManifestDigest
  <1>2. m.inputs = Locks!Digest("inputs", [pack |-> m.pack.digest, profile |-> m.profile.digest,
                                     overlays |-> m.overlays])
    BY Zenon DEF BuiltFrom, Locks!InputsDigest
  <1>3. m.output.digest = Locks!Digest("bytes", rendered)
    <2>1. m.output = [length |-> Len(rendered), digest |-> Locks!Digest("bytes", rendered)]
      BY Zenon DEF BuiltFrom
    <2> HIDE DEF rendered
    <2> QED
      BY <2>1
  <1>4. Locks!Digests(b) = {b.digest, m.inputs, m.pack.digest, m.profile.digest, m.output.digest}
                       \cup {m.overlays[i].digest : i \in DOMAIN m.overlays}
    BY <1>1 DEF Locks!Digests
  <1>5. /\ Locks!NotHex # b.digest /\ Locks!NotHex # m.inputs /\ Locks!NotHex # m.pack.digest
        /\ Locks!NotHex # m.profile.digest /\ Locks!NotHex # m.output.digest
    BY <1>1, <1>2, <1>3, BuiltPackDigest, BuiltName, NotHexIsNone
  <1>6. \A i \in DOMAIN m.overlays : Locks!NotHex # m.overlays[i].digest
    BY BuiltOverlay, NotHexIsNone
  <1> QED
    BY <1>4, <1>5, <1>6

\* What is built from a pack that composes is valid (build_lockfile).
LEMMA BuildIsValid ==
  ASSUME NEW p, NEW profile \in Profiles, NEW held, PackShape(p), HasName(profile)
  PROVE  /\ LockShape(Locks!Build(p, profile, held))
         /\ Locks!Validate(Locks!Build(p, profile, held)) = Locks!Ok
  <1> DEFINE b == Locks!Build(p, profile, held)
             m == Locks!BuildManifest(p, profile, held)
             overlays == [i \in DOMAIN p.picks[profile] |-> LockOverlay(p, profile, held, i)]
  <1>1. BuiltFrom(b, m, p, profile, held)
    BY BuildFields
  <1>2. OverlaysShape(overlays)
    BY OverlaysShaped, Zenon DEF PackShape
  <1> HIDE DEF b, m
  <1>3. /\ b.manifest = m /\ b.format = "v1" /\ b.digest = Locks!ManifestDigest(m)
        /\ m.inputs = Locks!InputsDigest(m.pack.digest, m.profile.digest, m.overlays)
    BY <1>1, Zenon DEF BuiltFrom
  <1>4. LockShape(b)
    BY <1>1, <1>2, Zenon DEF LockShape, BuiltFrom
  <1>5. m.profile.id = profile /\ Locks!NotHex \notin Locks!Digests(b)
    <2>1. m.profile.id = profile
      BY <1>1, BuiltName
    <2>2. Locks!NotHex \notin Locks!Digests(b)
      BY <1>1, BuiltHex
    <2> QED
      BY <2>1, <2>2
  <1>6. Locks!Validate(b) = Locks!Ok
    BY <1>3, <1>5, ValidateCases, Zenon DEF HasName
  <1> QED
    BY <1>4, <1>6 DEF b

(***************************************************************************)
(* Comparisons.                                                            *)
(***************************************************************************)

\* The two comparisons, of a lock with inputs and of two locks, are one.
LEMMA DriftsAgree ==
  ASSUME NEW left, NEW right
  PROVE  Locks!Drifts(left, right) = Locks!CompareLocks(left, right)
  BY Zenon DEF Locks!Drifts, Locks!CompareLocks

\* Two manifests whose overlays are the same in what a comparison looks at.
OverlaysAgree(left, right) ==
  Locks!SameOverlaySet(left, right) /\ \A i \in DOMAIN left :
    left[i].length = right[i].length /\ left[i].digest = right[i].digest

LEMMA ContentAgrees ==
  ASSUME NEW left, NEW right
  PROVE  /\ Locks!ContentDrifts(left, right) = {} <=>
              \A i \in DOMAIN left : left[i].length = right[i].length /\ left[i].digest = right[i].digest
         /\ \A drift \in Locks!ContentDrifts(left, right) : \E i : drift = <<"OverlayContent", i>>
  <1>1. Locks!ContentDrifts(left, right) = {} =>
          \A i \in DOMAIN left : left[i].length = right[i].length /\ left[i].digest = right[i].digest
    BY DEF Locks!ContentDrifts
  <1>2. (\A i \in DOMAIN left : left[i].length = right[i].length /\ left[i].digest = right[i].digest)
          => Locks!ContentDrifts(left, right) = {}
    BY DEF Locks!ContentDrifts
  <1>3. \A drift \in Locks!ContentDrifts(left, right) : \E i : drift = <<"OverlayContent", i>>
    BY DEF Locks!ContentDrifts
  <1> QED
    BY <1>1, <1>2, <1>3

\* Which drifts there are says what differs.
LEMMA DriftsSay ==
  ASSUME NEW e, NEW c
  PROVE  /\ Locks!Drifts(e, c) = {} <=>
              /\ e.manifest.pack = c.manifest.pack /\ e.manifest.profile = c.manifest.profile
              /\ OverlaysAgree(e.manifest.overlays, c.manifest.overlays)
              /\ e.manifest.output = c.manifest.output
         /\ Locks!Drifts(e, c) = {<<"RenderedOutput">>} =>
              /\ e.manifest.pack = c.manifest.pack /\ e.manifest.profile = c.manifest.profile
              /\ OverlaysAgree(e.manifest.overlays, c.manifest.overlays)
              /\ e.manifest.output # c.manifest.output
  <1> DEFINE packs    == e.manifest.pack = c.manifest.pack
             profiles == e.manifest.profile = c.manifest.profile
             outputs  == e.manifest.output = c.manifest.output
             left     == e.manifest.overlays
             right    == c.manifest.overlays
             same     == Locks!SameOverlaySet(left, right)
             content  == Locks!ContentDrifts(left, right)
             overlays == IF same THEN content ELSE {<<"OverlaySet">>}
             ofPack    == IF packs THEN {} ELSE {<<"PackMetadata">>}
             ofProfile == IF profiles THEN {} ELSE {<<"ProfileSelection">>}
             ofOutput  == IF outputs THEN {} ELSE {<<"RenderedOutput">>}
  <1>1. Locks!Drifts(e, c) = ofPack \cup ofProfile \cup overlays \cup ofOutput
    BY Zenon DEF Locks!Drifts
  <1>2. overlays = {} <=> OverlaysAgree(left, right)
    <2>1. CASE same
      BY <2>1, ContentAgrees, Zenon DEF OverlaysAgree
    <2>2. CASE ~same
      BY <2>2, Zenon DEF OverlaysAgree
    <2> QED
      BY <2>1, <2>2
  <1>3. <<"RenderedOutput">> \notin overlays
    <2>1. ~\E i : <<"RenderedOutput">> = <<"OverlayContent", i>>
      OBVIOUS
    <2>2. <<"RenderedOutput">> # <<"OverlaySet">>
      OBVIOUS
    <2>3. <<"RenderedOutput">> \notin content
      <3> HIDE DEF content
      <3>1. \A drift \in content : \E i : drift = <<"OverlayContent", i>>
        BY ContentAgrees, Zenon DEF content
      <3> QED
        BY <2>1, <3>1, Zenon
    <2> QED
      BY <2>2, <2>3, Zenon
  <1>4. <<"RenderedOutput">> \notin ofPack /\ <<"RenderedOutput">> \notin ofProfile
    <2>1. <<"RenderedOutput">> # <<"PackMetadata">> /\ <<"RenderedOutput">> # <<"ProfileSelection">>
      OBVIOUS
    <2> QED
      BY <2>1, Zenon
  <1>5. /\ packs <=> ofPack = {}
        /\ profiles <=> ofProfile = {}
        /\ outputs <=> ofOutput = {}
        /\ ~outputs => ofOutput = {<<"RenderedOutput">>}
    BY Zenon
  <1> HIDE DEF ofPack, ofProfile, ofOutput, overlays, packs, profiles, outputs
  <1>6. Locks!Drifts(e, c) = {} <=> ofPack = {} /\ ofProfile = {} /\ overlays = {} /\ ofOutput = {}
    BY <1>1
  <1>7. ASSUME Locks!Drifts(e, c) = {<<"RenderedOutput">>}
        PROVE  ofPack = {} /\ ofProfile = {} /\ overlays = {} /\ ofOutput # {}
    <2> DEFINE only == <<"RenderedOutput">>
    <2>1. /\ only \notin ofPack /\ only \notin ofProfile /\ only \notin overlays
          /\ ofPack \cup ofProfile \cup overlays \cup ofOutput = {only}
      BY <1>1, <1>3, <1>4, <1>7
    <2> HIDE DEF only
    <2> QED
      BY <2>1
  <1> QED
    BY <1>2, <1>5, <1>6, <1>7, Zenon DEF packs, profiles, outputs

(***************************************************************************)
(* What a comparison of two made locks means.                              *)
(***************************************************************************)

\* What a profile selects is the same in both worlds.
SelectedSame(p, profile, left, right) ==
  \A i \in DOMAIN p.picks[profile] :
    left[p.at[p.picks[profile][i]]] = right[p.at[p.picks[profile][i]]]

\* What is not selected leaves no trace in a lock.
LEMMA SameBuild ==
  ASSUME NEW p, NEW profile, NEW left, NEW right, SelectedSame(p, profile, left, right)
  PROVE  Locks!Build(p, profile, left) = Locks!Build(p, profile, right)
  <1>1. Locks!Segments(p, profile, left) = Locks!Segments(p, profile, right)
    BY DEF SelectedSame, Locks!Segments
  <1>2. Locks!BuildManifest(p, profile, left) = Locks!BuildManifest(p, profile, right)
    BY <1>1, Zenon DEF Locks!BuildManifest
  <1> QED
    BY <1>2, Zenon DEF Locks!Build

LEMMA BuiltPack ==
  ASSUME NEW p, NEW profile, NEW held, NEW q, NEW other, NEW holds,
         Locks!Build(p, profile, held).manifest.pack = Locks!Build(q, other, holds).manifest.pack
  PROVE  p = q
  <1> DEFINE b == Locks!Build(p, profile, held)
             m == Locks!BuildManifest(p, profile, held)
             c == Locks!Build(q, other, holds)
             n == Locks!BuildManifest(q, other, holds)
  <1>1. BuiltFrom(b, m, p, profile, held) /\ BuiltFrom(c, n, q, other, holds)
    BY BuildFields
  <1>2. b.manifest.pack = c.manifest.pack
    OBVIOUS
  <1> HIDE DEF b, c, m, n
  <1>3. b.manifest = m /\ c.manifest = n
    BY <1>1, Zenon DEF BuiltFrom
  <1>4. m.pack.digest = Locks!Digest("pack", p) /\ n.pack.digest = Locks!Digest("pack", q)
    BY <1>1, BuiltPackDigest
  <1>5. Locks!Digest("pack", p) = Locks!Digest("pack", q)
    BY <1>2, <1>3, <1>4, Zenon
  <1> QED
    BY ONLY <1>5, Zenon DEF Locks!Digest

LEMMA BuiltProfile ==
  ASSUME NEW p, NEW profile, NEW held, NEW q, NEW other, NEW holds,
         Locks!Build(p, profile, held).manifest.profile = Locks!Build(q, other, holds).manifest.profile
  PROVE  profile = other
  <1> DEFINE b == Locks!Build(p, profile, held)
             m == Locks!BuildManifest(p, profile, held)
             c == Locks!Build(q, other, holds)
             n == Locks!BuildManifest(q, other, holds)
  <1>1. BuiltFrom(b, m, p, profile, held) /\ BuiltFrom(c, n, q, other, holds)
    BY BuildFields
  <1>2. b.manifest.profile = c.manifest.profile
    OBVIOUS
  <1> HIDE DEF b, c, m, n
  <1>3. b.manifest = m /\ c.manifest = n
    BY <1>1, Zenon DEF BuiltFrom
  <1>4. m.profile.id = profile /\ n.profile.id = other
    BY <1>1, BuiltName
  <1> QED
    BY <1>2, <1>3, <1>4, Zenon

LEMMA BuiltOverlays ==
  ASSUME NEW p, NEW profile, NEW left, NEW right,
         OverlaysAgree(Locks!Build(p, profile, left).manifest.overlays,
                       Locks!Build(p, profile, right).manifest.overlays)
  PROVE  SelectedSame(p, profile, left, right)
  <1> DEFINE b == Locks!Build(p, profile, left)
             m == Locks!BuildManifest(p, profile, left)
             c == Locks!Build(p, profile, right)
             n == Locks!BuildManifest(p, profile, right)
  <1>1. BuiltFrom(b, m, p, profile, left) /\ BuiltFrom(c, n, p, profile, right)
    BY BuildFields
  <1>2. OverlaysAgree(b.manifest.overlays, c.manifest.overlays)
    OBVIOUS
  <1> HIDE DEF b, c, m, n
  <1>3. b.manifest = m /\ c.manifest = n
    BY <1>1, Zenon DEF BuiltFrom
  <1>4. /\ DOMAIN m.overlays = DOMAIN p.picks[profile]
        /\ \A i \in DOMAIN m.overlays :
             m.overlays[i].digest = Locks!Digest("bytes", left[p.at[p.picks[profile][i]]])
    BY <1>1, BuiltOverlay
  <1>5. /\ DOMAIN n.overlays = DOMAIN p.picks[profile]
        /\ \A i \in DOMAIN n.overlays :
             n.overlays[i].digest = Locks!Digest("bytes", right[p.at[p.picks[profile][i]]])
    BY <1>1, BuiltOverlay
  <1>6. ASSUME NEW i \in DOMAIN p.picks[profile]
        PROVE  left[p.at[p.picks[profile][i]]] = right[p.at[p.picks[profile][i]]]
    <2> DEFINE x == left[p.at[p.picks[profile][i]]]
               y == right[p.at[p.picks[profile][i]]]
    <2>1. m.overlays[i].digest = n.overlays[i].digest
      BY <1>2, <1>3, <1>4, Zenon DEF OverlaysAgree
    <2>2. Locks!Digest("bytes", x) = Locks!Digest("bytes", y)
      BY <1>4, <1>5, <2>1, Zenon
    <2> HIDE DEF x, y
    <2>3. x = y
      BY ONLY <2>2, Zenon DEF Locks!Digest
    <2> QED
      BY <2>3 DEF x, y
  <1> QED
    BY <1>6, Zenon DEF SelectedSame

\* Two made locks compare as equal exactly when pack, profile and what is selected are.
LEMMA MadeLocksCompare ==
  ASSUME NEW p, NEW profile, NEW held, NEW q, NEW other, NEW holds
  PROVE  LET drifts == Locks!Drifts(Locks!Build(p, profile, held), Locks!Build(q, other, holds))
         IN /\ drifts = {} <=> p = q /\ profile = other /\ SelectedSame(p, profile, held, holds)
            /\ drifts # {<<"RenderedOutput">>}
  <1> DEFINE e == Locks!Build(p, profile, held)
             c == Locks!Build(q, other, holds)
             drifts == Locks!Drifts(e, c)
             alike == /\ e.manifest.pack = c.manifest.pack /\ e.manifest.profile = c.manifest.profile
                      /\ OverlaysAgree(e.manifest.overlays, c.manifest.overlays)
  <1>1. /\ drifts = {} <=> alike /\ e.manifest.output = c.manifest.output
        /\ drifts = {<<"RenderedOutput">>} => alike /\ e.manifest.output # c.manifest.output
    <2> HIDE DEF e, c
    <2> QED
      BY DriftsSay, Zenon
  <1>2. ASSUME alike
        PROVE  p = q /\ profile = other /\ SelectedSame(p, profile, held, holds)
    <2>1. /\ Locks!Build(p, profile, held).manifest.pack = Locks!Build(q, other, holds).manifest.pack
          /\ Locks!Build(p, profile, held).manifest.profile = Locks!Build(q, other, holds).manifest.profile
          /\ OverlaysAgree(Locks!Build(p, profile, held).manifest.overlays,
                           Locks!Build(q, other, holds).manifest.overlays)
      BY <1>2
    <2>2. p = q
      BY <2>1, BuiltPack
    <2>3. profile = other
      BY <2>1, BuiltProfile
    <2>4. SelectedSame(p, profile, held, holds)
      BY <2>1, <2>2, <2>3, BuiltOverlays
    <2> QED
      BY <2>2, <2>3, <2>4
  <1>3. ASSUME p = q, profile = other, SelectedSame(p, profile, held, holds)
        PROVE  e = c
    BY <1>3, SameBuild, Zenon
  <1> HIDE DEF e, c
  <1>4. e = c => drifts = {}
    <2>1. ASSUME e = c PROVE alike /\ e.manifest.output = c.manifest.output
      <3>1. OverlaysAgree(e.manifest.overlays, e.manifest.overlays)
        BY Zenon DEF OverlaysAgree, Locks!SameOverlaySet
      <3> QED
        BY <2>1, <3>1, Zenon
    <2> QED
      BY <1>1, <2>1, Zenon
  <1> HIDE DEF alike, drifts
  <1>5. drifts = {} <=> p = q /\ profile = other /\ SelectedSame(p, profile, held, holds)
    BY <1>1, <1>2, <1>3, <1>4, Zenon
  <1>6. drifts # {<<"RenderedOutput">>}
    BY <1>1, <1>2, <1>3, Zenon
  <1> QED
    BY <1>5, <1>6, Zenon DEF drifts, e, c

\* Locks that are valid and compare as equal are equal.
LEMMA EqualOverlays ==
  ASSUME NEW left, NEW right, OverlaysShape(left), OverlaysShape(right), OverlaysAgree(left, right)
  PROVE  left = right
  <1> DEFINE n == Len(left)
             record(o, i) == [id |-> o[i].id, source |-> o[i].source,
                              length |-> o[i].length, digest |-> o[i].digest]
  <1>1. /\ Len(right) = n /\ DOMAIN left = 1 .. n
        /\ \A i \in 1 .. n : /\ left[i].id = right[i].id /\ left[i].source = right[i].source
                             /\ left[i].length = right[i].length /\ left[i].digest = right[i].digest
    BY Zenon DEF OverlaysShape, OverlaysAgree, Locks!SameOverlaySet
  <1>2. left = [i \in 1 .. n |-> record(left, i)]
    BY Zenon DEF OverlaysShape
  <1>3. right = [i \in 1 .. n |-> record(right, i)]
    BY <1>1, Zenon DEF OverlaysShape
  <1>4. \A i \in 1 .. n : record(left, i) = record(right, i)
    BY <1>1, Zenon
  <1> HIDE DEF n, record
  <1>5. [i \in 1 .. n |-> record(left, i)] = [i \in 1 .. n |-> record(right, i)]
    BY <1>4
  <1> QED
    BY <1>2, <1>3, <1>5, Zenon

LEMMA EqualLocks ==
  ASSUME NEW left, NEW right, LockShape(left), LockShape(right),
         Locks!Validate(left) = Locks!Ok, Locks!Validate(right) = Locks!Ok, Locks!Drifts(left, right) = {}
  PROVE  left = right
  <1> DEFINE m == left.manifest
             n == right.manifest
  <1>1. /\ m.pack = n.pack /\ m.profile = n.profile /\ m.output = n.output
        /\ OverlaysAgree(m.overlays, n.overlays)
    BY DriftsSay, Zenon
  <1>2. /\ left.format = "v1" /\ left.digest = Locks!ManifestDigest(m)
        /\ m.inputs = Locks!InputsDigest(m.pack.digest, m.profile.digest, m.overlays)
    BY ValidateCases, Zenon
  <1>3. /\ right.format = "v1" /\ right.digest = Locks!ManifestDigest(n)
        /\ n.inputs = Locks!InputsDigest(n.pack.digest, n.profile.digest, n.overlays)
    BY ValidateCases, Zenon
  <1>4. /\ LockFields(left) /\ ManifestFields(m) /\ OverlaysShape(m.overlays)
        /\ LockFields(right) /\ ManifestFields(n) /\ OverlaysShape(n.overlays)
    BY Zenon DEF LockShape
  <1>5. m.overlays = n.overlays
    BY <1>1, <1>4, EqualOverlays, Zenon
  <1>6. m.inputs = n.inputs
    BY <1>1, <1>2, <1>3, <1>5, Zenon
  <1>7. m = n
    BY <1>1, <1>4, <1>5, <1>6, Zenon DEF ManifestFields
  <1>8. left.manifest = right.manifest /\ left.format = right.format /\ left.digest = right.digest
    BY <1>2, <1>3, <1>7, Zenon
  <1> QED
    BY <1>4, <1>8, Zenon DEF LockFields

\* Nothing differs between a lock and itself.
LEMMA NoDrift ==
  ASSUME NEW lock
  PROVE  Locks!Drifts(lock, lock) = {}
  <1>1. OverlaysAgree(lock.manifest.overlays, lock.manifest.overlays)
    BY Zenon DEF OverlaysAgree, Locks!SameOverlaySet
  <1> QED
    BY <1>1, DriftsSay, Zenon

(***************************************************************************)
(* Edits by hand leave the fields of a lock.                               *)
(***************************************************************************)

ManifestShape(m) == ManifestFields(m) /\ OverlaysShape(m.overlays)

LEMMA OverlayEdit ==
  ASSUME NEW o, OverlaysShape(o), NEW i \in DOMAIN o, NEW v
  PROVE  OverlaysShape([o EXCEPT ![i] = [o[i] EXCEPT !.digest = v]])
  <1> DEFINE n == Len(o)
             record(r) == [id |-> r.id, source |-> r.source, length |-> r.length, digest |-> r.digest]
             other == [o[i] EXCEPT !.digest = v]
             x == [o EXCEPT ![i] = other]
  <1>1. n \in Nat /\ DOMAIN o = 1 .. n /\ o = [j \in 1 .. n |-> record(o[j])]
    BY Zenon DEF OverlaysShape
  <1>2. \A j \in 1 .. n : o[j] = record(o[j])
    <2> HIDE DEF n, record
    <2> QED
      BY <1>1
  <1>3. record(other) = other
    <2>1. o[i] = record(o[i])
      BY <1>1, <1>2
    <2> QED
      BY <2>1
  <1> HIDE DEF n, record, other
  <1>4. DOMAIN x = 1 .. n /\ \A j \in 1 .. n : x[j] = record(x[j])
    BY <1>1, <1>2, <1>3
  <1>5. x = [j \in 1 .. n |-> x[j]]
    BY <1>1
  <1> HIDE DEF x
  <1>6. x = [j \in 1 .. n |-> record(x[j])]
    BY <1>4, <1>5
  <1>7. Len(x) = n
    BY <1>1, <1>5
  <1> QED
    BY <1>1, <1>4, <1>6, <1>7 DEF OverlaysShape, record, x, other

\* Every edit of a manifest leaves it the fields of one.
LEMMA ManifestEdits ==
  ASSUME NEW m, ManifestShape(m), NEW v
  PROVE  /\ ManifestShape([m EXCEPT !.inputs = v]) /\ ManifestShape([m EXCEPT !.pack.digest = v])
         /\ ManifestShape([m EXCEPT !.profile.id = v]) /\ ManifestShape([m EXCEPT !.output.digest = v])
         /\ \A i \in DOMAIN m.overlays : ManifestShape([m EXCEPT !.overlays[i].digest = v])
  <1>1. m = [inputs |-> m.inputs, pack |-> m.pack, profile |-> m.profile,
             overlays |-> m.overlays, output |-> m.output]
    BY Zenon DEF ManifestShape, ManifestFields
  <1>2. OverlaysShape(m.overlays)
    BY DEF ManifestShape
  <1>3. ASSUME NEW x, NEW w, \/ x = [m EXCEPT !.inputs = w] \/ x = [m EXCEPT !.pack = w]
                             \/ x = [m EXCEPT !.profile = w] \/ x = [m EXCEPT !.output = w]
        PROVE  ManifestShape(x)
    <2>1. ManifestFields(x) /\ x.overlays = m.overlays
      BY <1>1, <1>3 DEF ManifestFields
    <2> QED
      BY <1>2, <2>1, Zenon DEF ManifestShape
  <1>4. ASSUME NEW o, OverlaysShape(o)
        PROVE  ManifestShape([m EXCEPT !.overlays = o])
    <2> DEFINE x == [m EXCEPT !.overlays = o]
    <2>1. ManifestFields(x) /\ x.overlays = o
      BY <1>1 DEF ManifestFields
    <2> QED
      BY <1>4, <2>1, Zenon DEF ManifestShape
  <1>5. [m EXCEPT !.pack.digest = v] = [m EXCEPT !.pack = [m.pack EXCEPT !.digest = v]]
    BY <1>1
  <1>6. [m EXCEPT !.profile.id = v] = [m EXCEPT !.profile = [m.profile EXCEPT !.id = v]]
    BY <1>1
  <1>7. [m EXCEPT !.output.digest = v] = [m EXCEPT !.output = [m.output EXCEPT !.digest = v]]
    BY <1>1
  <1>8. ASSUME NEW i \in DOMAIN m.overlays
        PROVE  ManifestShape([m EXCEPT !.overlays[i].digest = v])
    <2> DEFINE o == [m.overlays EXCEPT ![i] = [m.overlays[i] EXCEPT !.digest = v]]
    <2>1. [m EXCEPT !.overlays[i].digest = v] = [m EXCEPT !.overlays = o]
      BY <1>1
    <2>2. OverlaysShape(o)
      BY <1>2, OverlayEdit
    <2> QED
      BY <1>4, <2>1, <2>2, Zenon
  <1> QED
    BY <1>3, <1>5, <1>6, <1>7, <1>8

\* An edited lock still has the fields of a lock.
LEMMA TamperedShape ==
  ASSUME NEW lock, LockShape(lock), NEW other \in Locks!Tampered(lock)
  PROVE  LockShape(other)
  <1> DEFINE m == lock.manifest
             bare == {[m EXCEPT !.output.digest = Locks!Digest("bytes", <<"x">>)],
                      [m EXCEPT !.pack.digest = Locks!NotHex],
                      [m EXCEPT !.profile.id = "no identifier"],
                      [m EXCEPT !.inputs = Locks!Digest("inputs", [m EXCEPT !.inputs = Locks!NotHex])]}
                     \cup {[m EXCEPT !.overlays[i].digest = Locks!Digest("bytes", <<"x">>)] :
                             i \in DOMAIN m.overlays}
             good(x) == [x EXCEPT !.inputs = Locks!InputsDigest(x.pack.digest, x.profile.digest, x.overlays)]
  <1>1. ManifestShape(m)
    BY DEF LockShape, ManifestShape
  <1>2. \A x \in bare : ManifestShape(x)
    <2>1. \A v : /\ ManifestShape([m EXCEPT !.inputs = v]) /\ ManifestShape([m EXCEPT !.pack.digest = v])
                 /\ ManifestShape([m EXCEPT !.profile.id = v])
                 /\ ManifestShape([m EXCEPT !.output.digest = v])
                 /\ \A i \in DOMAIN m.overlays : ManifestShape([m EXCEPT !.overlays[i].digest = v])
      <3> HIDE DEF m
      <3> QED
        BY <1>1, ManifestEdits
    <2> DEFINE x == Locks!Digest("bytes", <<"x">>)
               again == Locks!Digest("inputs", [m EXCEPT !.inputs = Locks!NotHex])
    <2> HIDE DEF m, x, again
    <2>2. /\ ManifestShape([m EXCEPT !.output.digest = x])
          /\ ManifestShape([m EXCEPT !.pack.digest = Locks!NotHex])
          /\ ManifestShape([m EXCEPT !.profile.id = "no identifier"])
          /\ ManifestShape([m EXCEPT !.inputs = again])
          /\ \A i \in DOMAIN m.overlays : ManifestShape([m EXCEPT !.overlays[i].digest = x])
      BY <2>1, Zenon
    <2> QED
      BY <2>2, Zenon DEF x, again
  <1>3. \A x : ManifestShape(x) => ManifestShape(good(x))
    BY ManifestEdits, Zenon
  <1>4. ASSUME NEW x, ManifestShape(x)
        PROVE  LockShape([lock EXCEPT !.manifest = x]) /\ LockShape(Locks!Seal(x))
    <2>1. lock = [format |-> lock.format, manifest |-> lock.manifest, digest |-> lock.digest]
      BY Zenon DEF LockShape, LockFields
    <2>2. LockFields([lock EXCEPT !.manifest = x]) /\ [lock EXCEPT !.manifest = x].manifest = x
      BY <2>1 DEF LockFields
    <2>3. LockFields(Locks!Seal(x)) /\ Locks!Seal(x).manifest = x
      BY DEF Locks!Seal, LockFields
    <2> QED
      BY <1>4, <2>2, <2>3, Zenon DEF LockShape, ManifestShape
  <1>5. LockShape([lock EXCEPT !.format = "v0"])
    <2>1. lock = [format |-> lock.format, manifest |-> lock.manifest, digest |-> lock.digest]
      BY Zenon DEF LockShape, LockFields
    <2>2. /\ LockFields([lock EXCEPT !.format = "v0"])
          /\ [lock EXCEPT !.format = "v0"].manifest = lock.manifest
      BY <2>1 DEF LockFields
    <2> QED
      BY <2>2, Zenon DEF LockShape
  <1>6. other \in {[lock EXCEPT !.manifest = x] : x \in bare} \cup {Locks!Seal(x) : x \in bare}
                    \cup {Locks!Seal(good(x)) : x \in bare} \cup {[lock EXCEPT !.format = "v0"]}
    BY Zenon DEF Locks!Tampered
  <1> HIDE DEF m, bare, good
  <1> QED
    BY <1>2, <1>3, <1>4, <1>5, <1>6, Zenon

(***************************************************************************)
(* The inductive invariant of a history of locks, and its steps.           *)
(***************************************************************************)

\* A text is the lock of what it is said to be made from, if of anything.
Faithful(text, from) ==
  from.made => /\ PackShape(from.pack)
               /\ \E profile \in Profiles :
                    LET lock == Locks!Build(from.pack, profile, from.files)
                    IN text = [layout |-> "canonical", lock |-> lock] /\ ~Locks!EncodedTooLarge(lock)

Opened(text, from) ==
  Faithful(text, from) /\ TextShape(text) /\ Locks!DecodeRefusal(text) = Locks!Ok

\* What a verification that composed reports.
LockComposed ==
  /\ "current" \in DOMAIN did /\ did.result \in {Locks!Ok, "LockfileTooLarge"}
  /\ did.current = Locks!Build(did.world.pack, did.profile, did.world.files)
  /\ did.drifts = Locks!Drifts(did.text.lock, did.current)

Answered ==
  /\ did.cmd \in {"none", "lock", "verify", "diff"} /\ did.result \in Locks!Errors \cup {Locks!Ok}
  /\ did.cmd = "lock" => did.result \in {Locks!Ok, "LockfileTooLarge"}
  /\ did.cmd = "verify" =>
       /\ Faithful(did.text, did.truth)
       /\ LockComposed \/ (did.result = Locks!DecodeRefusal(did.text) /\ did.result # Locks!Ok)
  /\ did.cmd = "diff" /\ did.result = Locks!Ok =>
       /\ TextShape(did.left) /\ TextShape(did.right)
       /\ Locks!DecodeRefusal(did.left) = Locks!Ok /\ Locks!DecodeRefusal(did.right) = Locks!Ok
       /\ did.drifts = Locks!CompareLocks(did.left.lock, did.right.lock)

LockInv ==
  /\ PackShape(locked)
  /\ DOMAIN locks = Slots /\ DOMAIN truth = Slots
  /\ \A slot \in Slots : /\ Faithful(locks[slot], truth[slot])
                         /\ locks[slot] = Locks!NoText \/ TextShape(locks[slot])
  /\ opened = Locks!NoText \/ Opened(opened.text, opened.truth)
  /\ Answered

LEMMA Untouched ==
  ASSUME NEW text
  PROVE  Faithful(text, Locks!Edited)
  BY DEF Faithful, Locks!Edited

LEMMA InitLockInv ==
  Locks!LockfileAssumption /\ Locks!Init => LockInv
  <1> SUFFICES ASSUME Locks!LockfileAssumption, Locks!Init PROVE LockInv
    OBVIOUS
  <1>1. PackShape(locked)
    BY Zenon DEF Locks!LockfileAssumption, Locks!Init, PackShape
  <1>2. /\ DOMAIN locks = Slots /\ DOMAIN truth = Slots
        /\ \A slot \in Slots : locks[slot] = Locks!NoText /\ truth[slot] = Locks!Edited
    BY DEF Locks!Init
  <1>3. Answered
    BY DEF Locks!Init, Locks!Idle, Answered, Locks!Ok
  <1> QED
    BY <1>1, <1>2, <1>3, Untouched, Zenon DEF LockInv, Locks!Init

LEMMA LockAnswers ==
  ASSUME NEW d, \/ d = [cmd |-> "lock", result |-> "LockfileTooLarge"]
                \/ d = [cmd |-> "lock", result |-> Locks!Ok]
  PROVE  d.cmd = "lock" /\ d.result \in {Locks!Ok, "LockfileTooLarge"}
  OBVIOUS

LEMMA LockStep ==
  ASSUME "no identifier" \notin Profiles, LockInv,
         NEW slot \in Slots, NEW profile \in Profiles, Locks!Lock(slot, profile)
  PROVE  LockInv'
  <1> DEFINE lock == Locks!Build(locked, profile, files)
             text == [layout |-> "canonical", lock |-> lock]
  <1>1. HasName(profile)
    BY Zenon DEF HasName
  <1>2. PackShape(locked)
    BY DEF LockInv
  <1>3. LockShape(lock) /\ Locks!Validate(lock) = Locks!Ok
    BY <1>1, <1>2, BuildIsValid, Zenon
  <1>4. /\ UNCHANGED <<locked, files, opened>> /\ opened = Locks!NoText
        /\ \/ Locks!EncodedTooLarge(lock) /\ did' = [cmd |-> "lock", result |-> "LockfileTooLarge"]
              /\ UNCHANGED <<locks, truth>>
           \/ /\ ~Locks!EncodedTooLarge(lock) /\ did' = [cmd |-> "lock", result |-> Locks!Validate(lock)]
              /\ locks' = [locks EXCEPT ![slot] = text] /\ truth' = [truth EXCEPT ![slot] = Locks!World]
    BY Zenon DEF Locks!Lock
  <1> HIDE DEF lock
  <1>5. Answered'
    <2>1. did'.cmd = "lock" /\ did'.result \in {Locks!Ok, "LockfileTooLarge"}
      <3>1. \/ did' = [cmd |-> "lock", result |-> "LockfileTooLarge"]
            \/ did' = [cmd |-> "lock", result |-> Locks!Ok]
        BY <1>3, <1>4, Zenon
      <3> QED
        BY <3>1, LockAnswers, Zenon
    <2>2. did'.result \in Locks!Errors \cup {Locks!Ok}
      BY <2>1, Zenon DEF Locks!Errors
    <2> QED
      BY <2>1, <2>2, Zenon DEF Answered
  <1>6. CASE UNCHANGED <<locks, truth>>
    BY <1>2, <1>4, <1>5, <1>6, Zenon DEF LockInv
  <1>7. CASE /\ ~Locks!EncodedTooLarge(lock)
             /\ locks' = [locks EXCEPT ![slot] = text] /\ truth' = [truth EXCEPT ![slot] = Locks!World]
    <2>1. TextShape(text)
      BY <1>3 DEF TextShape, TextFields
    <2>2. Locks!World.made /\ Locks!World.pack = locked /\ Locks!World.files = files
      BY DEF Locks!World
    <2>3. Faithful(text, Locks!World)
      BY <1>2, <1>7, <2>2, Zenon DEF Faithful, lock
    <2> HIDE DEF text
    <2>4. /\ DOMAIN locks' = Slots /\ DOMAIN truth' = Slots
          /\ \A s \in Slots : \/ locks'[s] = text /\ truth'[s] = Locks!World
                              \/ locks'[s] = locks[s] /\ truth'[s] = truth[s]
      BY <1>7 DEF LockInv
    <2>5. \A s \in Slots : /\ Faithful(locks'[s], truth'[s])
                           /\ locks'[s] = Locks!NoText \/ TextShape(locks'[s])
      BY <2>1, <2>3, <2>4, Zenon DEF LockInv
    <2> QED
      BY <1>2, <1>4, <1>5, <2>4, <2>5, Zenon DEF LockInv
  <1> QED
    BY <1>4, <1>6, <1>7

LEMMA VerifyOpenStep ==
  ASSUME LockInv, NEW slot \in Slots, Locks!VerifyOpen(slot)
  PROVE  LockInv'
  <1> DEFINE text == locks[slot]
             from == truth[slot]
             refusal == Locks!DecodeRefusal(text)
  <1>1. Faithful(text, from) /\ TextShape(text)
    BY Zenon DEF LockInv, Locks!VerifyOpen
  <1>2. refusal \in Locks!Errors \cup {Locks!Ok}
    BY DecodeCases, Zenon
  <1>3. UNCHANGED <<locked, files, locks, truth>>
    BY Zenon DEF Locks!VerifyOpen
  <1>4. \/ /\ refusal # Locks!Ok /\ UNCHANGED opened
           /\ did' = [cmd |-> "verify", result |-> refusal, text |-> text, truth |-> from]
        \/ /\ refusal = Locks!Ok /\ UNCHANGED did
           /\ opened' = [layout |-> "opened", text |-> text, truth |-> from]
    BY Zenon DEF Locks!VerifyOpen
  <1> HIDE DEF text, from, refusal
  <1>5. CASE /\ refusal # Locks!Ok /\ UNCHANGED opened
             /\ did' = [cmd |-> "verify", result |-> refusal, text |-> text, truth |-> from]
    <2>1. /\ did'.cmd = "verify" /\ did'.result = refusal
          /\ did'.text = text /\ did'.truth = from
      BY <1>5
    <2>2. "verify" # "lock" /\ "verify" # "diff"
      OBVIOUS
    <2>3. Answered'
      BY <1>1, <1>2, <1>5, <2>1, <2>2, Zenon DEF Answered, refusal
    <2> QED
      BY <1>3, <1>5, <2>3, Zenon DEF LockInv
  <1>6. CASE /\ refusal = Locks!Ok /\ UNCHANGED did
             /\ opened' = [layout |-> "opened", text |-> text, truth |-> from]
    <2>1. opened'.text = text /\ opened'.truth = from
      BY <1>6
    <2>2. Opened(opened'.text, opened'.truth)
      BY <1>1, <1>6, <2>1, Zenon DEF Opened, refusal
    <2>3. Answered'
      BY <1>6, Zenon DEF LockInv, Answered, LockComposed
    <2> QED
      BY <1>3, <2>2, <2>3, Zenon DEF LockInv
  <1> QED
    BY <1>4, <1>5, <1>6

LEMMA VerifyComposeStep ==
  ASSUME LockInv, NEW profile \in Profiles, Locks!VerifyCompose(profile)
  PROVE  LockInv'
  <1> DEFINE current == Locks!Build(locked, profile, files)
             refusal == IF Locks!EncodedTooLarge(current) THEN "LockfileTooLarge" ELSE Locks!Ok
             drifts  == Locks!Drifts(opened.text.lock, current)
  <1>1. Faithful(opened.text, opened.truth)
    BY Zenon DEF LockInv, Locks!VerifyCompose, Opened
  <1>2. refusal \in {Locks!Ok, "LockfileTooLarge"}
    BY Zenon
  <1>3. /\ UNCHANGED <<locked, files, locks, truth>> /\ opened' = Locks!NoText
        /\ did' = [cmd |-> "verify", result |-> refusal, text |-> opened.text,
                   truth |-> opened.truth, current |-> current, world |-> Locks!World,
                   profile |-> profile, drifts |-> drifts]
    BY Zenon DEF Locks!VerifyCompose
  <1> HIDE DEF current, refusal, drifts
  <1>4. /\ did'.cmd = "verify" /\ did'.result = refusal /\ did'.text = opened.text
        /\ did'.truth = opened.truth /\ did'.current = current /\ did'.world = Locks!World
        /\ did'.profile = profile /\ did'.drifts = drifts /\ "current" \in DOMAIN did'
    BY <1>3
  <1>5. Locks!World.pack = locked /\ Locks!World.files = files
    BY DEF Locks!World
  <1>6. LockComposed'
    BY <1>2, <1>4, <1>5, Zenon DEF LockComposed, current, drifts
  <1>7. "verify" # "lock" /\ "verify" # "diff"
    OBVIOUS
  <1>8. Answered'
    <2>1. did'.result \in Locks!Errors \cup {Locks!Ok}
      BY <1>2, <1>4, Zenon DEF Locks!Errors
    <2> QED
      BY <1>1, <1>4, <1>6, <1>7, <2>1, Zenon DEF Answered
  <1> QED
    BY <1>3, <1>8, Zenon DEF LockInv

LEMMA DiffStep ==
  ASSUME LockInv, NEW baseline \in Slots, NEW candidate \in Slots, Locks!Diff(baseline, candidate)
  PROVE  LockInv'
  <1> DEFINE left == locks[baseline]
             right == locks[candidate]
             refusal == IF Locks!DecodeRefusal(left) # Locks!Ok THEN Locks!DecodeRefusal(left) ELSE Locks!DecodeRefusal(right)
             drifts == IF refusal # Locks!Ok THEN {} ELSE Locks!CompareLocks(left.lock, right.lock)
  <1>1. TextShape(left) /\ TextShape(right)
    BY Zenon DEF LockInv, Locks!Diff
  <1>2. /\ refusal \in Locks!Errors \cup {Locks!Ok}
        /\ refusal = Locks!Ok => Locks!DecodeRefusal(left) = Locks!Ok /\ Locks!DecodeRefusal(right) = Locks!Ok
    BY DecodeCases, Zenon
  <1>3. /\ UNCHANGED <<locked, files, locks, truth, opened>>
        /\ did' = [cmd |-> "diff", result |-> refusal, left |-> left, right |-> right,
                   drifts |-> drifts]
    BY Zenon DEF Locks!Diff
  <1> HIDE DEF left, right, refusal
  <1>4. refusal = Locks!Ok => drifts = Locks!CompareLocks(left.lock, right.lock)
    BY Zenon
  <1> HIDE DEF drifts
  <1>5. /\ did'.cmd = "diff" /\ did'.result = refusal /\ did'.left = left
        /\ did'.right = right /\ did'.drifts = drifts
    BY <1>3
  <1>6. "diff" # "lock" /\ "diff" # "verify"
    OBVIOUS
  <1>7. Answered'
    BY <1>1, <1>2, <1>4, <1>5, <1>6, Zenon DEF Answered
  <1> QED
    BY <1>3, <1>7, Zenon DEF LockInv

LEMMA EditPackStep ==
  ASSUME \A p \in Packs : PackShape(p), LockInv, Locks!EditPack
  PROVE  LockInv'
  <1>1. PackShape(locked')
    BY Zenon DEF Locks!EditPack, LockInv
  <1>2. UNCHANGED <<locks, truth, opened, did>>
    BY Zenon DEF Locks!EditPack
  <1>3. Answered'
    BY <1>2, Zenon DEF LockInv, Answered, LockComposed
  <1> QED
    BY <1>1, <1>2, <1>3, Zenon DEF LockInv

LEMMA EditLockStep ==
  ASSUME LockInv, NEW slot \in Slots, Locks!EditLock(slot)
  PROVE  LockInv'
  <1>1. /\ UNCHANGED <<locked, files, opened, did>> /\ locks[slot].layout = "canonical"
        /\ truth' = [truth EXCEPT ![slot] = Locks!Edited]
    BY Zenon DEF Locks!EditLock
  <1>2. TextShape(locks[slot])
    <2>1. locks[slot] # Locks!NoText
      BY <1>1 DEF Locks!NoText
    <2> QED
      BY <2>1, Zenon DEF LockInv
  <1>3. PICK text : locks' = [locks EXCEPT ![slot] = text] /\ TextShape(text)
    <2>1. locks[slot] = [layout |-> locks[slot].layout, lock |-> locks[slot].lock]
      BY <1>2, Zenon DEF TextShape, TextFields
    <2>2. CASE \E layout \in {"spaced", "malformed", "too large"} :
                 locks' = [locks EXCEPT ![slot].layout = layout]
      <3>1. PICK layout : locks' = [locks EXCEPT ![slot].layout = layout]
        BY <2>2
      <3> DEFINE text == [locks[slot] EXCEPT !.layout = layout]
      <3>2. locks' = [locks EXCEPT ![slot] = text]
        BY <3>1 DEF LockInv
      <3>3. TextFields(text) /\ text.lock = locks[slot].lock
        BY <2>1 DEF TextFields
      <3> QED
        BY <1>2, <3>2, <3>3, Zenon DEF TextShape
    <2>3. CASE \E lock \in Locks!Tampered(locks[slot].lock) : locks' = [locks EXCEPT ![slot].lock = lock]
      <3>1. PICK lock \in Locks!Tampered(locks[slot].lock) : locks' = [locks EXCEPT ![slot].lock = lock]
        BY <2>3
      <3> DEFINE text == [locks[slot] EXCEPT !.lock = lock]
      <3>2. locks' = [locks EXCEPT ![slot] = text]
        BY <3>1 DEF LockInv
      <3>3. TextFields(text) /\ text.lock = lock
        BY <2>1 DEF TextFields
      <3>4. LockShape(lock)
        BY <1>2, TamperedShape, Zenon DEF TextShape
      <3> QED
        BY <3>2, <3>3, <3>4, Zenon DEF TextShape
    <2> QED
      BY <2>2, <2>3, Zenon DEF Locks!EditLock
  <1>4. /\ DOMAIN locks' = Slots /\ DOMAIN truth' = Slots
        /\ \A s \in Slots : \/ locks'[s] = text /\ truth'[s] = Locks!Edited
                            \/ locks'[s] = locks[s] /\ truth'[s] = truth[s]
    BY <1>1, <1>3 DEF LockInv
  <1>5. \A s \in Slots : /\ Faithful(locks'[s], truth'[s])
                         /\ locks'[s] = Locks!NoText \/ TextShape(locks'[s])
    BY <1>3, <1>4, Untouched, Zenon DEF LockInv
  <1>6. Answered'
    BY <1>1, Zenon DEF LockInv, Answered, LockComposed
  <1> QED
    BY <1>1, <1>4, <1>5, <1>6, Zenon DEF LockInv

LEMMA LockStutterStep ==
  ASSUME LockInv, UNCHANGED Locks!vars
  PROVE  LockInv'
  <1>1. UNCHANGED <<locked, files, locks, truth, opened, did>>
    BY Zenon DEF Locks!vars
  <1>2. Answered'
    BY <1>1, Zenon DEF LockInv, Answered, LockComposed
  <1> QED
    BY <1>1, <1>2, Zenon DEF LockInv

\* Every step of a lock's history keeps the invariant.
LEMMA NextLockInv ==
  Locks!LockfileAssumption /\ LockInv /\ [Locks!Next]_(Locks!vars) => LockInv'
  <1> SUFFICES ASSUME Locks!LockfileAssumption, LockInv, [Locks!Next]_(Locks!vars) PROVE LockInv'
    OBVIOUS
  <1>1. "no identifier" \notin Profiles /\ \A p \in Packs : PackShape(p)
    BY Zenon DEF Locks!LockfileAssumption, PackShape
  <1>2. CASE UNCHANGED Locks!vars
    BY <1>2, LockStutterStep, Zenon
  <1>3. ASSUME NEW slot \in Slots, NEW profile \in Profiles, Locks!Lock(slot, profile)
        PROVE  LockInv'
    BY <1>1, <1>3, LockStep, Zenon
  <1>4. ASSUME NEW slot \in Slots, Locks!VerifyOpen(slot)
        PROVE  LockInv'
    BY <1>4, VerifyOpenStep, Zenon
  <1>5. ASSUME NEW slot \in Slots, Locks!EditLock(slot)
        PROVE  LockInv'
    BY <1>5, EditLockStep, Zenon
  <1>6. ASSUME NEW profile \in Profiles, Locks!VerifyCompose(profile)
        PROVE  LockInv'
    BY <1>6, VerifyComposeStep, Zenon
  <1>7. ASSUME NEW baseline \in Slots, NEW candidate \in Slots, Locks!Diff(baseline, candidate)
        PROVE  LockInv'
    BY <1>7, DiffStep, Zenon
  <1>8. CASE Locks!EditPack
    BY <1>1, <1>8, EditPackStep, Zenon
  <1> QED
    BY <1>2, <1>3, <1>4, <1>5, <1>6, <1>7, <1>8, Zenon DEF Locks!Next

LEMMA SpecLockInv ==
  Locks!LockfileAssumption => (Locks!Spec => []LockInv)
  <1> SUFFICES ASSUME Locks!LockfileAssumption PROVE Locks!Spec => []LockInv
    OBVIOUS
  <1>1. Locks!Init => LockInv
    BY InitLockInv
  <1>2. LockInv /\ [Locks!Next]_(Locks!vars) => LockInv'
    BY NextLockInv
  <1> QED
    BY <1>1, <1>2, PTL DEF Locks!Spec

(***************************************************************************)
(* What the invariant says of an answer.                                   *)
(***************************************************************************)

LEMMA TextParts ==
  ASSUME NEW lock, NEW text, text = [layout |-> "canonical", lock |-> lock]
  PROVE  text.layout = "canonical" /\ text.lock = lock
  OBVIOUS

LEMMA FaithfulDecodes ==
  ASSUME NEW text, NEW from, Faithful(text, from), from.made, "no identifier" \notin Profiles
  PROVE  Locks!DecodeRefusal(text) = Locks!Ok
  <1>1. PICK profile \in Profiles :
          /\ text = [layout |-> "canonical", lock |-> Locks!Build(from.pack, profile, from.files)]
          /\ ~Locks!EncodedTooLarge(Locks!Build(from.pack, profile, from.files))
    BY Zenon DEF Faithful
  <1>2. PackShape(from.pack) /\ HasName(profile)
    BY Zenon DEF Faithful, HasName
  <1> DEFINE lock == Locks!Build(from.pack, profile, from.files)
  <1>3. Locks!Validate(lock) = Locks!Ok
    BY <1>2, BuildIsValid, Zenon
  <1>4. ~(Locks!LockBytes(lock) > MaxLockBytes)
    BY <1>1, Zenon DEF Locks!EncodedTooLarge
  <1> HIDE DEF lock
  <1>5. text = [layout |-> "canonical", lock |-> lock]
    BY <1>1, Zenon DEF lock
  <1>6. text.layout = "canonical" /\ text.lock = lock
    BY <1>5, TextParts, Zenon
  <1> QED
    BY <1>3, <1>4, <1>6, DecodeCases, Zenon

\* The lock of a faithful text compares as its making says.
LEMMA FaithfulCompares ==
  ASSUME NEW text, NEW from, Faithful(text, from), from.made, NEW q, NEW other, NEW holds
  PROVE  LET drifts == Locks!Drifts(text.lock, Locks!Build(q, other, holds))
         IN /\ drifts = {} <=> /\ q = from.pack /\ other = text.lock.manifest.profile.id
                               /\ SelectedSame(q, other, holds, from.files)
            /\ drifts # {<<"RenderedOutput">>}
  <1>1. PICK profile : text = [layout |-> "canonical", lock |-> Locks!Build(from.pack, profile, from.files)]
    BY Zenon DEF Faithful
  <1> DEFINE lock == Locks!Build(from.pack, profile, from.files)
             drifts == Locks!Drifts(lock, Locks!Build(q, other, holds))
  <1>2. text.lock = lock
    <2> HIDE DEF lock
    <2>1. text = [layout |-> "canonical", lock |-> lock]
      BY <1>1, Zenon DEF lock
    <2> QED
      BY <2>1, TextParts, Zenon
  <1>3. lock.manifest.profile.id = profile
    <2> DEFINE m == Locks!BuildManifest(from.pack, profile, from.files)
    <2>1. BuiltFrom(lock, m, from.pack, profile, from.files)
      BY BuildFields
    <2> HIDE DEF m, lock
    <2>2. lock.manifest = m
      BY <2>1, Zenon DEF BuiltFrom
    <2>3. m.profile.id = profile
      BY <2>1, BuiltName
    <2> QED
      BY <2>2, <2>3, Zenon
  <1>4. /\ drifts = {} <=> from.pack = q /\ profile = other
                           /\ SelectedSame(from.pack, profile, from.files, holds)
        /\ drifts # {<<"RenderedOutput">>}
    <2> HIDE DEF drifts
    <2>1. /\ Locks!Drifts(Locks!Build(from.pack, profile, from.files), Locks!Build(q, other, holds)) = {} <=>
               /\ from.pack = q /\ profile = other
               /\ SelectedSame(from.pack, profile, from.files, holds)
          /\ Locks!Drifts(Locks!Build(from.pack, profile, from.files), Locks!Build(q, other, holds))
               # {<<"RenderedOutput">>}
      BY MadeLocksCompare
    <2> QED
      BY <2>1, Zenon DEF drifts
  <1>5. SelectedSame(q, other, holds, from.files) <=> SelectedSame(q, other, from.files, holds)
    BY Zenon DEF SelectedSame
  <1> HIDE DEF lock
  <1> QED
    BY <1>2, <1>3, <1>4, <1>5, Zenon

\* An answer of verify is true of what was locked.
LEMMA TrueFromIInv ==
  ASSUME "no identifier" \notin Profiles, LockInv
  PROVE  Locks!LocksAreTrue
  <1>1. /\ did.cmd \in {"none", "lock", "verify", "diff"} /\ did.result \in Locks!Errors \cup {Locks!Ok}
        /\ did.cmd = "lock" => did.result \in {Locks!Ok, "LockfileTooLarge"}
    BY Zenon DEF LockInv, Answered
  <1>2. \A slot \in Slots : truth[slot].made => locks[slot].layout = "canonical"
    <2> TAKE slot \in Slots
    <2> HAVE truth[slot].made
    <2>1. Faithful(locks[slot], truth[slot])
      BY Zenon DEF LockInv
    <2>2. PICK lock : locks[slot] = [layout |-> "canonical", lock |-> lock]
      BY <2>1, Zenon DEF Faithful
    <2> QED
      BY <2>2, TextParts, Zenon
  <1>3. opened # Locks!NoText => opened.text.layout = "canonical"
    BY DecodeCases, Zenon DEF LockInv, Opened
  <1>4. Locks!TypeOK
    BY <1>1, <1>2, <1>3, Zenon DEF Locks!TypeOK
  <1>5. ASSUME did.cmd = "verify"
        PROVE  /\ Faithful(did.text, did.truth)
               /\ LockComposed \/ (did.result = Locks!DecodeRefusal(did.text) /\ did.result # Locks!Ok)
    BY <1>5, Zenon DEF LockInv, Answered
  <1>6. Locks!MadeLocksDecode
    <2> SUFFICES ASSUME Locks!Made
                 PROVE  did.result = Locks!Ok \/ (did.result = "LockfileTooLarge" /\ "current" \in DOMAIN did)
      BY Zenon DEF Locks!MadeLocksDecode
    <2>1. did.cmd = "verify" /\ did.truth.made
      BY DEF Locks!Made
    <2>2. Locks!DecodeRefusal(did.text) = Locks!Ok
      BY <1>5, <2>1, FaithfulDecodes, Zenon
    <2> QED
      BY <1>5, <2>1, <2>2, Zenon DEF LockComposed
  <1>7. ASSUME Locks!Verified, Locks!Made
        PROVE  /\ Locks!VerifiedIsUnchanged
               /\ did.drifts # {<<"RenderedOutput">>}
    <2>1. did.cmd = "verify" /\ did.result = Locks!Ok /\ did.truth.made
      BY <1>7 DEF Locks!Verified, Locks!Made
    <2>2. Faithful(did.text, did.truth) /\ LockComposed
      BY <1>5, <2>1, Zenon
    <2> DEFINE q == did.world.pack
               other == did.profile
               holds == did.world.files
    <2>3. did.drifts = Locks!Drifts(did.text.lock, Locks!Build(q, other, holds))
      BY <2>2, Zenon DEF LockComposed
    <2>4. /\ did.drifts = {} <=> /\ q = did.truth.pack /\ other = did.text.lock.manifest.profile.id
                                 /\ SelectedSame(q, other, holds, did.truth.files)
          /\ did.drifts # {<<"RenderedOutput">>}
      <3> DEFINE drifts == Locks!Drifts(did.text.lock, Locks!Build(q, other, holds))
      <3>1. /\ drifts = {} <=> /\ q = did.truth.pack /\ other = did.text.lock.manifest.profile.id
                               /\ SelectedSame(q, other, holds, did.truth.files)
            /\ drifts # {<<"RenderedOutput">>}
        BY <2>1, <2>2, FaithfulCompares
      <3> QED
        BY <2>3, <3>1, Zenon
    <2> QED
      BY <2>4, Zenon DEF Locks!VerifiedIsUnchanged, SelectedSame
  <1> QED
    BY <1>4, <1>6, <1>7, Zenon DEF Locks!LocksAreTrue, Locks!VerifiedIsUnchanged, Locks!OutputNeverAlone

\* What diff compares is all of a lock.
LEMMA ComparesFromIInv ==
  ASSUME LockInv
  PROVE  Locks!ComparesExactly
  <1>1. Locks!DiffIsVerify
    <2> SUFFICES ASSUME Locks!Verified PROVE did.drifts = Locks!CompareLocks(did.text.lock, did.current)
      BY DEF Locks!DiffIsVerify
    <2>1. LockComposed
      BY Zenon DEF LockInv, Answered, Locks!Verified
    <2> QED
      BY <2>1, DriftsAgree, Zenon DEF LockComposed
  <1>2. Locks!IdenticalIsEqual
    <2> SUFFICES ASSUME did.cmd = "diff", did.result = Locks!Ok
                 PROVE  did.drifts = {} <=> did.left = did.right
      BY DEF Locks!IdenticalIsEqual
    <2> DEFINE left == did.left
               right == did.right
    <2>1. /\ TextShape(left) /\ TextShape(right)
          /\ Locks!DecodeRefusal(left) = Locks!Ok /\ Locks!DecodeRefusal(right) = Locks!Ok
          /\ did.drifts = Locks!CompareLocks(left.lock, right.lock)
      BY Zenon DEF LockInv, Answered
    <2> HIDE DEF left, right
    <2>2. did.drifts = Locks!Drifts(left.lock, right.lock)
      BY <2>1, DriftsAgree, Zenon
    <2>3. /\ Locks!Validate(left.lock) = Locks!Ok /\ left.layout = "canonical"
          /\ Locks!Validate(right.lock) = Locks!Ok /\ right.layout = "canonical"
      BY <2>1, DecodeCases, Zenon
    <2>4. /\ TextFields(left) /\ LockShape(left.lock)
          /\ TextFields(right) /\ LockShape(right.lock)
      BY <2>1, Zenon DEF TextShape
    <2>5. ASSUME did.drifts = {} PROVE left = right
      <3>1. left.lock = right.lock
        BY <2>2, <2>3, <2>4, <2>5, EqualLocks, Zenon
      <3> QED
        BY <2>3, <2>4, <3>1, Zenon DEF TextFields
    <2>6. left = right => did.drifts = {}
      BY <2>2, NoDrift, Zenon
    <2> QED
      BY <2>5, <2>6, Zenon DEF left, right
  <1> QED
    BY <1>1, <1>2, Zenon DEF Locks!ComparesExactly

(***************************************************************************)
(* The theorems about locks.                                               *)
(***************************************************************************)

\* What a lock says can be relied on: `lock` writes nothing that `verify` refuses,
\* and `verify` says "verified" exactly when the pack, the profile and every
\* selected source are as they were locked (build_lockfile, verify_with).
THEOREM LocksTrue == Locks!Spec => []LocksAreTrue
  <1>1. Locks!LockfileAssumption
    BY LockAssumption
  <1>2. "no identifier" \notin Profiles
    BY <1>1, Zenon DEF Locks!LockfileAssumption
  <1>3. LockInv => LocksAreTrue
    BY <1>2, TrueFromIInv, Zenon DEF LocksAreTrue
  <1> QED
    BY <1>1, <1>3, SpecLockInv, PTL

\* `diff` of a lock with one made now says what `verify` says, and two locks in
\* which it finds nothing are the same lock, edited ones included (compare_locks).
THEOREM ComparesAll == Locks!Spec => []ComparesExactly
  <1>1. Locks!LockfileAssumption
    BY LockAssumption
  <1>2. LockInv => ComparesExactly
    BY ComparesFromIInv, Zenon DEF ComparesExactly
  <1> QED
    BY <1>1, <1>2, SpecLockInv, PTL
=============================================================================
