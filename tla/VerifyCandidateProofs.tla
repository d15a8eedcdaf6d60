----------------------- MODULE VerifyCandidateProofs -----------------------
(***************************************************************************)
(* Proofs about what a bundle goes through: VerifyCandidate, for any       *)
(* bytes, any manifests sorted by path, any lists of candidates and any    *)
(* limits, and, at the end, PublisherTrust.                                *)
(***************************************************************************)
EXTENDS BundleChecks, SequenceTheorems, FiniteSetTheorems, WellFoundedInduction, TLAPS

Record == [path : Nat \ {0}, length : Nat, digest : Contents]
File   == [path : Nat \ {0}, bytes : Contents]

(***************************************************************************)
(* Least elements.                                                         *)
(***************************************************************************)

LEMMA LeastExists ==
  ASSUME NEW S \in SUBSET Nat, S # {}
  PROVE  \E i \in S : \A j \in S : i <= j
  <1>1. PICK i \in S : \A j \in S : ~(<<j, i>> \in OpToRel(<, Nat))
    BY NatLessThanWellFounded, WFMin
  <1>2. \A j \in S : ~(j < i)
    BY <1>1 DEF OpToRel
  <1> QED
    BY <1>2

LEMMA LeastIs ==
  ASSUME NEW S \in SUBSET Nat, NEW w \in S, \A q \in S : w <= q
  PROVE  Least(S) = w
  <1>1. \E p \in S : \A q \in S : p <= q
    OBVIOUS
  <1>2. Least(S) \in S /\ \A q \in S : Least(S) <= q
    BY <1>1 DEF Least
  <1>3. w <= Least(S) /\ Least(S) <= w
    BY <1>2
  <1>4. w \in Nat /\ Least(S) \in Nat
    BY <1>2
  <1> QED
    BY <1>3, <1>4

\* A chain is Ok when no check applies, or it is the first one that does.
LEMMA FirstOfValue ==
  ASSUME NEW n \in Nat, NEW checks, DOMAIN checks = 1 .. n
  PROVE  \/ /\ \A i \in 1 .. n : ~checks[i].applies
            /\ FirstOf(checks) = Ok
         \/ \E i \in 1 .. n :
              /\ checks[i].applies /\ \A j \in 1 .. i - 1 : ~checks[j].applies
              /\ FirstOf(checks) = checks[i].refusal
  <1> DEFINE hits  == {i \in DOMAIN checks : checks[i].applies}
             first == CHOOSE i \in hits : \A j \in hits : i <= j
  <1>1. CASE hits = {}
    BY <1>1 DEF FirstOf
  <1>2. CASE hits # {}
    <2>1. hits \in SUBSET Nat
      OBVIOUS
    <2>2. first \in hits /\ \A j \in hits : first <= j
      <3> HIDE DEF hits
      <3>1. \E i \in hits : \A j \in hits : i <= j
        BY <1>2, <2>1, LeastExists
      <3> QED
        BY <3>1
    <2>3. FirstOf(checks) = checks[first].refusal
      BY <1>2 DEF FirstOf
    <2> HIDE DEF first
    <2> QED
      BY <2>2, <2>3
  <1> QED
    BY <1>1, <1>2

(***************************************************************************)
(* Lists by path.                                                          *)
(***************************************************************************)

\* No two elements share a path.
Distinct(list) == \A i, j \in DOMAIN list : list[i].path = list[j].path => i = j

\* Each path is greater than the ones before it.
Ascending(list) == \A i, j \in DOMAIN list : i < j => list[i].path < list[j].path

\* A path is repeated when two elements have it.
LEMMA RepeatedIs ==
  ASSUME NEW T, NEW list \in Seq(T), NEW p
  PROVE  p \in Repeated(list) <=>
           \E i, j \in DOMAIN list : i # j /\ list[i].path = p /\ list[j].path = p
  <1> DEFINE D  == DOMAIN list
             at == {i \in D : list[i].path = p}
  <1>1. D = 1 .. Len(list) /\ Len(list) \in Nat
    OBVIOUS
  <1>2. IsFiniteSet(at) /\ Cardinality(at) \in Nat
    <2>1. IsFiniteSet(D)
      BY <1>1, FS_Interval
    <2>2. at \subseteq D
      OBVIOUS
    <2> HIDE DEF D, at
    <2> QED
      BY <2>1, <2>2, FS_Subset, FS_CardinalityType
  <1>3. p \in Repeated(list) <=> p \in PathsOf(list) /\ Cardinality(at) > 1
    BY DEF Repeated
  <1>4. p \in PathsOf(list) <=> at # {}
    BY DEF PathsOf
  <1>5. (\E i, j \in D : i # j /\ list[i].path = p /\ list[j].path = p) <=>
          \E i, j \in at : i # j
    OBVIOUS
  <1>6. Cardinality(at) > 1 <=> \E i, j \in at : i # j
    <2> HIDE DEF at
    <2>1. CASE at = {}
      BY <2>1, FS_EmptySet
    <2>2. CASE at # {} /\ ~\E i, j \in at : i # j
      <3>1. PICK i : i \in at
        BY <2>2
      <3>2. at = {i}
        BY <2>2, <3>1
      <3>3. Cardinality(at) = 1
        BY <3>2, FS_Singleton
      <3> QED
        BY <2>2, <3>3
    <2>3. CASE \E i, j \in at : i # j
      <3>1. Cardinality(at) # 0
        BY <1>2, <2>3, FS_EmptySet
      <3>2. Cardinality(at) # 1
        BY <1>2, <2>3, FS_Singleton
      <3> QED
        BY <1>2, <2>3, <3>1, <3>2
    <2> QED
      BY <2>1, <2>2, <2>3
  <1> HIDE DEF at
  <1>7. (\E i, j \in at : i # j) => at # {}
    OBVIOUS
  <1> QED
    BY <1>3, <1>4, <1>5, <1>6, <1>7 DEF D

LEMMA NoneRepeated ==
  ASSUME NEW T, NEW list \in Seq(T)
  PROVE  Repeated(list) = {} <=> Distinct(list)
  <1>1. Repeated(list) = {} <=> \A p : p \notin Repeated(list)
    OBVIOUS
  <1>2. \A p : p \in Repeated(list) <=>
          \E i, j \in DOMAIN list : i # j /\ list[i].path = p /\ list[j].path = p
    BY RepeatedIs
  <1> QED
    BY <1>1, <1>2, Zenon DEF Distinct

\* A sorting is a permutation, in the order of the paths.
LEMMA Sorting ==
  ASSUME NEW files \in Seq(File), NEW sorted \in ByPath(files)
  PROVE  /\ sorted \in Seq(File) /\ Len(sorted) = Len(files) /\ DOMAIN sorted = DOMAIN files
         /\ \A i, j \in DOMAIN files : i < j => sorted[i].path <= sorted[j].path
         /\ PathsOf(sorted) = PathsOf(files)
         /\ \A p : Among(sorted, p) = Among(files, p)
         /\ Repeated(sorted) = Repeated(files)
  <1> DEFINE D == DOMAIN files
             n == Len(files)
  <1>1. D = 1 .. n /\ n \in Nat /\ \A i \in D : files[i] \in File
    OBVIOUS
  <1>2. PICK f \in Bijection(D, D) :
          /\ sorted = [k \in D |-> files[f[k]]]
          /\ \A i, j \in D : i < j =>
               files[f[i]].path < files[f[j]].path
               \/ (files[f[i]].path = files[f[j]].path /\ f[i] < f[j])
    BY DEF ByPath
  <1>3. /\ f \in [D -> D] /\ \A i, j \in D : f[i] = f[j] => i = j
        /\ \A k \in D : \E i \in D : f[i] = k
    BY DEF Bijection, Injection, Surjection, IsInjective
  <1>4. DOMAIN sorted = D /\ \A k \in D : sorted[k] = files[f[k]] /\ f[k] \in D
    BY <1>2, <1>3
  <1>5. sorted \in Seq(File) /\ Len(sorted) = n
    <2>1. sorted \in [1 .. n -> File]
      BY <1>1, <1>2, <1>4
    <2> QED
      BY <1>1, <2>1
  <1>6. \A i, j \in D : i < j => sorted[i].path <= sorted[j].path
    <2> SUFFICES ASSUME NEW i \in D, NEW j \in D, i < j
                 PROVE  sorted[i].path <= sorted[j].path
      OBVIOUS
    <2>1. sorted[i].path < sorted[j].path \/ sorted[i].path = sorted[j].path
      BY <1>2, <1>4
    <2>2. sorted[i].path \in Nat /\ sorted[j].path \in Nat
      BY <1>1, <1>4 DEF File
    <2> QED
      BY <2>1, <2>2
  <1>7. \A k \in D : (\E i \in D : sorted[i] = files[k]) /\ (\E i \in D : files[i] = sorted[k])
    BY <1>3, <1>4
  <1>8. PathsOf(sorted) = PathsOf(files)
    <2> HIDE DEF D
    <2>1. \A x : x \in PathsOf(sorted) <=> \E i \in D : x = sorted[i].path
      BY <1>4 DEF PathsOf, D
    <2>2. \A x : x \in PathsOf(files) <=> \E i \in D : x = files[i].path
      BY DEF PathsOf, D
    <2>3. ASSUME NEW x \in PathsOf(sorted)  PROVE  x \in PathsOf(files)
      <3>1. PICK i \in D : x = sorted[i].path
        BY <2>1
      <3>2. PICK k \in D : files[k] = sorted[i]
        BY <1>7
      <3> QED
        BY <2>2, <3>1, <3>2
    <2>4. ASSUME NEW x \in PathsOf(files)  PROVE  x \in PathsOf(sorted)
      <3>1. PICK i \in D : x = files[i].path
        BY <2>2
      <3>2. PICK k \in D : sorted[k] = files[i]
        BY <1>7
      <3> QED
        BY <2>1, <3>1, <3>2
    <2> QED
      BY <2>3, <2>4
  <1>9. \A p : Among(sorted, p) = Among(files, p)
    <2> TAKE p
    <2>1. \A x : x \in Among(sorted, p) <=> \E i \in D : sorted[i].path = p /\ x = sorted[i]
      BY <1>4 DEF Among
    <2>2. \A x : x \in Among(files, p) <=> \E i \in D : files[i].path = p /\ x = files[i]
      BY DEF Among
    <2> HIDE DEF D
    <2>3. ASSUME NEW x \in Among(sorted, p)  PROVE  x \in Among(files, p)
      <3>1. PICK i \in D : sorted[i].path = p /\ x = sorted[i]
        BY <2>1
      <3>2. PICK k \in D : files[k] = sorted[i]
        BY <1>7
      <3> QED
        BY <2>2, <3>1, <3>2
    <2>4. ASSUME NEW x \in Among(files, p)  PROVE  x \in Among(sorted, p)
      <3>1. PICK i \in D : files[i].path = p /\ x = files[i]
        BY <2>2
      <3>2. PICK k \in D : sorted[k] = files[i]
        BY <1>7
      <3> QED
        BY <2>1, <3>1, <3>2
    <2> QED
      BY <2>3, <2>4
  <1>10. Repeated(sorted) = Repeated(files)
    <2>1. \A p : p \in Repeated(sorted) <=>
                   \E i, j \in D : i # j /\ sorted[i].path = p /\ sorted[j].path = p
      BY <1>4, <1>5, RepeatedIs
    <2>2. \A p : p \in Repeated(files) <=>
                   \E i, j \in D : i # j /\ files[i].path = p /\ files[j].path = p
      BY RepeatedIs
    <2> HIDE DEF D
    <2>3. ASSUME NEW p \in Repeated(sorted)  PROVE  p \in Repeated(files)
      BY <1>3, <1>4, <2>1, <2>2
    <2>4. ASSUME NEW p \in Repeated(files)  PROVE  p \in Repeated(sorted)
      BY <1>3, <1>4, <2>1, <2>2
    <2> QED
      BY <2>3, <2>4
  <1> QED
    BY <1>4, <1>5, <1>6, <1>8, <1>9, <1>10

\* In an ascending list a path belongs to one element.
LEMMA AscendingParts ==
  ASSUME NEW list, \A i \in DOMAIN list : list[i].path \in Nat, Ascending(list),
         DOMAIN list \subseteq Nat
  PROVE  /\ Distinct(list)
         /\ \A i \in DOMAIN list : Among(list, list[i].path) = {list[i]}
  <1>1. Distinct(list)
    <2> SUFFICES ASSUME NEW i \in DOMAIN list, NEW j \in DOMAIN list,
                        list[i].path = list[j].path, i # j
                 PROVE  FALSE
      BY Zenon DEF Distinct
    <2>1. i < j \/ j < i
      OBVIOUS
    <2>2. list[i].path < list[j].path \/ list[j].path < list[i].path
      BY <2>1 DEF Ascending
    <2> QED
      BY <2>2
  <1>2. ASSUME NEW i \in DOMAIN list  PROVE Among(list, list[i].path) = {list[i]}
    <2>1. {j \in DOMAIN list : list[j].path = list[i].path} = {i}
      BY <1>1 DEF Distinct
    <2> QED
      BY <2>1 DEF Among
  <1> QED
    BY <1>1, <1>2

(***************************************************************************)
(* The merge of the two lists, before their m-th elements.                 *)
(***************************************************************************)

AgreesAt(sorted, k) ==
  /\ sorted[k].path = manifest[k].path /\ sorted[k].bytes = manifest[k].digest
  /\ ByteLength(sorted[k].bytes) = manifest[k].length

MergedTo(sorted, m) ==
  /\ manifest \in Manifests /\ given \in Candidates
  /\ sorted \in ByPath(given) /\ Ascending(sorted)
  /\ m \in 1 .. Len(manifest) + 1 /\ m \in 1 .. Len(sorted) + 1
  /\ \A k \in 1 .. m - 1 : AgreesAt(sorted, k)

\* The paths of the m-th element and of those after it.
LeftOf(list, m) == {list[k].path : k \in m .. Len(list)}

LEMMA ListTypes ==
  ASSUME NEW sorted, NEW m, MergedTo(sorted, m)
  PROVE  /\ manifest \in Seq(Record) /\ given \in Seq(File) /\ sorted \in Seq(File)
         /\ DOMAIN manifest = 1 .. Len(manifest) /\ DOMAIN sorted = 1 .. Len(sorted)
         /\ Len(manifest) \in Nat /\ Len(sorted) \in Nat /\ m \in Nat \ {0}
         /\ \A k \in 1 .. Len(manifest) : manifest[k] \in Record /\ manifest[k].path \in Nat \ {0}
         /\ \A k \in 1 .. Len(sorted) : sorted[k] \in File /\ sorted[k].path \in Nat \ {0}
         /\ Ascending(manifest) /\ Ascending(sorted)
  <1>1. manifest \in Seq(Record) /\ given \in Seq(File)
    BY VerifyAssumption DEF MergedTo, Record, File
  <1>2. Ascending(manifest) /\ Ascending(sorted)
    BY VerifyAssumption DEF MergedTo, Ascending
  <1>3. sorted \in Seq(File)
    BY <1>1, Sorting DEF MergedTo
  <1>4. m \in Nat \ {0}
    BY <1>1 DEF MergedTo
  <1>5. /\ DOMAIN manifest = 1 .. Len(manifest) /\ DOMAIN sorted = 1 .. Len(sorted)
        /\ Len(manifest) \in Nat /\ Len(sorted) \in Nat
    BY <1>1, <1>3
  <1>6. /\ \A k \in 1 .. Len(manifest) : manifest[k] \in Record
        /\ \A k \in 1 .. Len(sorted) : sorted[k] \in File
    BY <1>1, <1>3
  <1>7. (\A r \in Record : r.path \in Nat \ {0}) /\ (\A f \in File : f.path \in Nat \ {0})
    BY DEF Record, File
  <1> QED
    BY <1>1, <1>2, <1>3, <1>4, <1>5, <1>6, <1>7

\* What lies behind is right; what is wrong lies ahead.
LEMMA WrongIsAhead ==
  ASSUME NEW sorted, NEW m, MergedTo(sorted, m)
  PROVE  Wrong \subseteq LeftOf(manifest, m) \cup LeftOf(sorted, m)
  <1>1. ASSUME NEW k \in 1 .. m - 1  PROVE Right(manifest[k].path)
    <2>1. k \in DOMAIN manifest /\ k \in DOMAIN sorted
      BY ListTypes DEF MergedTo
    <2>2. AgreesAt(sorted, k)
      BY DEF MergedTo
    <2>3. sorted[k] \in Among(sorted, sorted[k].path) /\ manifest[k] \in Among(manifest, manifest[k].path)
      BY <2>1 DEF Among
    <2>4. sorted[k].path \in PathsOf(sorted) /\ manifest[k].path \in PathsOf(manifest)
      BY <2>1 DEF PathsOf
    <2>5. PathsOf(sorted) = PathsOf(given) /\ \A p : Among(sorted, p) = Among(given, p)
      BY ListTypes, Sorting DEF MergedTo
    <2> QED
      BY <2>2, <2>3, <2>4, <2>5 DEF Right, AgreesAt
  <1>2. ASSUME NEW p \in Wrong  PROVE p \in LeftOf(manifest, m) \cup LeftOf(sorted, m)
    <2>1. ~Right(p) /\ p \in PathsOf(manifest) \cup PathsOf(sorted)
      <3>1. PathsOf(sorted) = PathsOf(given)
        BY ListTypes, Sorting DEF MergedTo
      <3> QED
        BY <3>1 DEF Wrong
    <2>2. CASE p \in PathsOf(manifest)
      <3>1. PICK k \in DOMAIN manifest : p = manifest[k].path
        BY <2>2 DEF PathsOf
      <3>2. k \in 1 .. Len(manifest) /\ ~(k \in 1 .. m - 1)
        BY <1>1, <2>1, <3>1, ListTypes
      <3>3. k \in m .. Len(manifest)
        BY <3>2, ListTypes
      <3> QED
        BY <3>1, <3>3 DEF LeftOf
    <2>3. CASE p \in PathsOf(sorted)
      <3>1. PICK k \in DOMAIN sorted : p = sorted[k].path
        BY <2>3 DEF PathsOf
      <3>2. \A j \in 1 .. m - 1 : sorted[j].path = manifest[j].path
        BY DEF MergedTo, AgreesAt
      <3>3. k \in 1 .. Len(sorted) /\ ~(k \in 1 .. m - 1)
        BY <1>1, <2>1, <3>1, <3>2, ListTypes
      <3>4. k \in m .. Len(sorted)
        BY <3>3, ListTypes
      <3> QED
        BY <3>1, <3>4 DEF LeftOf
    <2> QED
      BY <2>1, <2>2, <2>3
  <1> QED
    BY <1>2

\* Nothing ahead is below the m-th element.
LEMMA AheadIsAbove ==
  ASSUME NEW list, NEW m \in Nat \ {0}, DOMAIN list = 1 .. Len(list), Len(list) \in Nat,
         \A k \in 1 .. Len(list) : list[k].path \in Nat, Ascending(list)
  PROVE  /\ m > Len(list) => LeftOf(list, m) = {}
         /\ m <= Len(list) => \A q \in LeftOf(list, m) : q \in Nat /\ list[m].path <= q
         /\ m <= Len(list) => \A k \in 1 .. m - 1 : list[k].path < list[m].path
  <1>1. m > Len(list) => LeftOf(list, m) = {}
    BY DEF LeftOf
  <1>2. ASSUME m <= Len(list), NEW q \in LeftOf(list, m)  PROVE q \in Nat /\ list[m].path <= q
    <2>1. PICK k \in m .. Len(list) : q = list[k].path
      BY DEF LeftOf
    <2>2. k \in 1 .. Len(list) /\ m \in 1 .. Len(list) /\ (k = m \/ m < k)
      BY <1>2, <2>1
    <2>3. k = m \/ list[m].path < list[k].path
      BY <2>2 DEF Ascending
    <2> QED
      BY <2>1, <2>2, <2>3
  <1>3. ASSUME m <= Len(list), NEW k \in 1 .. m - 1  PROVE list[k].path < list[m].path
    <2>1. k \in DOMAIN list /\ m \in DOMAIN list /\ k < m
      BY <1>3
    <2> QED
      BY <2>1 DEF Ascending
  <1> QED
    BY <1>1, <1>2, <1>3

\* Both lists, seen from their m-th elements.
LEMMA MergeFacts ==
  ASSUME NEW sorted, NEW m, MergedTo(sorted, m)
  PROVE  /\ PathsOf(sorted) = PathsOf(given) /\ \A p : Among(sorted, p) = Among(given, p)
         /\ Repeated(given) = {}
         /\ Wrong \in SUBSET Nat
         /\ \A i \in 1 .. Len(sorted) : Among(sorted, sorted[i].path) = {sorted[i]}
         /\ \A i \in 1 .. Len(manifest) : Among(manifest, manifest[i].path) = {manifest[i]}
         /\ m > Len(manifest) => LeftOf(manifest, m) = {}
         /\ m > Len(sorted) => LeftOf(sorted, m) = {}
         /\ m <= Len(manifest) =>
              /\ \A q \in LeftOf(manifest, m) : q \in Nat /\ manifest[m].path <= q
              /\ \A k \in 1 .. m - 1 : manifest[k].path < manifest[m].path
         /\ m <= Len(sorted) =>
              /\ \A q \in LeftOf(sorted, m) : q \in Nat /\ sorted[m].path <= q
              /\ \A k \in 1 .. m - 1 : sorted[k].path < sorted[m].path
  <1>1. /\ PathsOf(sorted) = PathsOf(given) /\ \A p : Among(sorted, p) = Among(given, p)
        /\ Repeated(sorted) = Repeated(given)
    BY ListTypes, Sorting DEF MergedTo
  <1>2. /\ Distinct(sorted)
        /\ \A i \in DOMAIN sorted : Among(sorted, sorted[i].path) = {sorted[i]}
    <2>1. /\ \A i \in DOMAIN sorted : sorted[i].path \in Nat
          /\ Ascending(sorted) /\ DOMAIN sorted \subseteq Nat
      BY ListTypes
    <2> QED
      BY <2>1, AscendingParts
  <1>3. \A i \in DOMAIN manifest : Among(manifest, manifest[i].path) = {manifest[i]}
    <2>1. /\ \A i \in DOMAIN manifest : manifest[i].path \in Nat
          /\ Ascending(manifest) /\ DOMAIN manifest \subseteq Nat
      BY ListTypes
    <2> QED
      BY <2>1, AscendingParts
  <1>4. Repeated(given) = {}
    BY <1>1, <1>2, ListTypes, NoneRepeated
  <1>5. /\ m > Len(manifest) => LeftOf(manifest, m) = {}
        /\ m <= Len(manifest) =>
              /\ \A q \in LeftOf(manifest, m) : q \in Nat /\ manifest[m].path <= q
              /\ \A k \in 1 .. m - 1 : manifest[k].path < manifest[m].path
    <2>1. \A k \in 1 .. Len(manifest) : manifest[k].path \in Nat
      BY ListTypes
    <2> QED
      BY <2>1, ListTypes, AheadIsAbove
  <1>6. /\ m > Len(sorted) => LeftOf(sorted, m) = {}
        /\ m <= Len(sorted) =>
              /\ \A q \in LeftOf(sorted, m) : q \in Nat /\ sorted[m].path <= q
              /\ \A k \in 1 .. m - 1 : sorted[k].path < sorted[m].path
    <2>1. \A k \in 1 .. Len(sorted) : sorted[k].path \in Nat
      BY ListTypes
    <2> QED
      BY <2>1, ListTypes, AheadIsAbove
  <1>7. Wrong \in SUBSET Nat
    <2>1. LeftOf(manifest, m) \subseteq Nat
      BY <1>5, ListTypes
    <2>2. LeftOf(sorted, m) \subseteq Nat
      BY <1>6, ListTypes
    <2> QED
      BY <2>1, <2>2, WrongIsAhead
  <1> QED
    BY <1>1, <1>2, <1>3, <1>4, <1>5, <1>6, <1>7, ListTypes

\* An error is the one to report: of the least wrong path, what is wrong with it.
ToReport(why, path) ==
  /\ path \in Nat \ {0} /\ Wrong # {} /\ Repeated(given) = {}
  /\ path = Least(Wrong) /\ why = WhatIsWrong(path)

LEMMA UndeclaredIsToReport ==
  ASSUME NEW sorted, NEW m, MergedTo(sorted, m),
         m <= Len(sorted), m <= Len(manifest) => sorted[m].path < manifest[m].path
  PROVE  ToReport("UndeclaredFile", sorted[m].path)
  <1> DEFINE w == sorted[m].path
  <1>1. w \in Nat \ {0} /\ m \in 1 .. Len(sorted)
    BY ListTypes
  <1>2. w \in PathsOf(given)
    <2>1. w \in PathsOf(sorted)
      BY <1>1, ListTypes DEF PathsOf
    <2> QED
      BY <2>1, MergeFacts
  <1>3. w \notin PathsOf(manifest)
    <2> SUFFICES ASSUME NEW k \in DOMAIN manifest, manifest[k].path = w
                 PROVE  FALSE
      BY DEF PathsOf
    <2>1. k \in 1 .. Len(manifest) /\ k \in Nat
      BY ListTypes
    <2>2. CASE k \in 1 .. m - 1
      <3>1. sorted[k].path = manifest[k].path
        BY <2>2 DEF MergedTo, AgreesAt
      <3>2. sorted[k].path < w
        BY <2>2, MergeFacts
      <3>3. sorted[k].path \in Nat
        BY <2>2, <1>1, ListTypes
      <3> QED
        BY <1>1, <3>1, <3>2, <3>3
    <2>3. CASE ~(k \in 1 .. m - 1)
      <3>1. k \in m .. Len(manifest) /\ m <= Len(manifest)
        BY <2>1, <2>3, ListTypes
      <3>2. manifest[m].path <= w
        BY <3>1, MergeFacts DEF LeftOf
      <3>3. manifest[m].path \in Nat
        BY <3>1, ListTypes
      <3> QED
        BY <1>1, <3>1, <3>2, <3>3
    <2> QED
      BY <2>2, <2>3
  <1>4. w \in Wrong
    BY <1>2, <1>3 DEF Wrong, Right
  <1>5. ASSUME NEW q \in Wrong  PROVE w <= q
    <2>1. CASE q \in LeftOf(sorted, m)
      BY <2>1, MergeFacts
    <2>2. CASE q \in LeftOf(manifest, m)
      <3>1. m <= Len(manifest) /\ q \in Nat /\ manifest[m].path <= q
        <4>1. m <= Len(manifest)
          <5>1. ~(m > Len(manifest))
            BY <2>2, MergeFacts
          <5> QED
            BY <5>1, ListTypes
        <4> QED
          BY <2>2, <4>1, MergeFacts
      <3>2. manifest[m].path \in Nat
        BY <3>1, ListTypes
      <3> QED
        BY <1>1, <3>1, <3>2
    <2> QED
      BY <2>1, <2>2, WrongIsAhead
  <1>6. Least(Wrong) = w
    <2> HIDE DEF w
    <2> QED
      BY <1>4, <1>5, MergeFacts, LeastIs
  <1>7. Among(manifest, w) = {}
    BY <1>3 DEF Among, PathsOf
  <1>8. WhatIsWrong(w) = "UndeclaredFile"
    <2> HIDE DEF w
    <2> QED
      BY <1>2, <1>3, <1>7 DEF WhatIsWrong
  <1> QED
    BY <1>1, <1>4, <1>6, <1>8, MergeFacts DEF ToReport

LEMMA MissingIsToReport ==
  ASSUME NEW sorted, NEW m, MergedTo(sorted, m),
         m <= Len(manifest), m <= Len(sorted) => sorted[m].path > manifest[m].path
  PROVE  ToReport("MissingFile", manifest[m].path)
  <1> DEFINE w == manifest[m].path
  <1>1. w \in Nat \ {0} /\ m \in 1 .. Len(manifest)
    BY ListTypes
  <1>2. w \in PathsOf(manifest)
    BY <1>1, ListTypes DEF PathsOf
  <1>3. w \notin PathsOf(sorted)
    <2> SUFFICES ASSUME NEW k \in DOMAIN sorted, sorted[k].path = w
                 PROVE  FALSE
      BY DEF PathsOf
    <2>1. k \in 1 .. Len(sorted) /\ k \in Nat
      BY ListTypes
    <2>2. CASE k \in 1 .. m - 1
      <3>1. sorted[k].path = manifest[k].path
        BY <2>2 DEF MergedTo, AgreesAt
      <3>2. manifest[k].path < w
        BY <2>2, MergeFacts
      <3>3. manifest[k].path \in Nat
        BY <2>2, <1>1, ListTypes
      <3> QED
        BY <1>1, <3>1, <3>2, <3>3
    <2>3. CASE ~(k \in 1 .. m - 1)
      <3>1. k \in m .. Len(sorted) /\ m <= Len(sorted)
        BY <2>1, <2>3, ListTypes
      <3>2. sorted[m].path <= w
        BY <3>1, MergeFacts DEF LeftOf
      <3>3. sorted[m].path \in Nat
        BY <3>1, ListTypes
      <3> QED
        BY <1>1, <3>1, <3>2, <3>3
    <2> QED
      BY <2>2, <2>3
  <1>4. w \notin PathsOf(given) /\ w \in Wrong
    BY <1>2, <1>3, MergeFacts DEF Wrong, Right
  <1>5. ASSUME NEW q \in Wrong  PROVE w <= q
    <2>1. CASE q \in LeftOf(manifest, m)
      BY <2>1, MergeFacts
    <2>2. CASE q \in LeftOf(sorted, m)
      <3>1. m <= Len(sorted) /\ q \in Nat /\ sorted[m].path <= q
        BY <2>2, MergeFacts, ListTypes
      <3>2. sorted[m].path \in Nat
        BY <3>1, ListTypes
      <3> QED
        BY <1>1, <3>1, <3>2
    <2> QED
      BY <2>1, <2>2, WrongIsAhead
  <1>6. Least(Wrong) = w
    <2> HIDE DEF w
    <2> QED
      BY <1>4, <1>5, MergeFacts, LeastIs
  <1>7. Among(given, w) = {}
    BY <1>4 DEF Among, PathsOf
  <1>8. WhatIsWrong(w) = "MissingFile"
    <2> HIDE DEF w
    <2> QED
      BY <1>2, <1>4, <1>7 DEF WhatIsWrong
  <1> QED
    BY <1>1, <1>4, <1>6, <1>8, MergeFacts DEF ToReport

LEMMA MismatchIsToReport ==
  ASSUME NEW sorted, NEW m, MergedTo(sorted, m), m <= Len(manifest), m <= Len(sorted),
         sorted[m].path = manifest[m].path, ~AgreesAt(sorted, m)
  PROVE  ToReport(IF ByteLength(sorted[m].bytes) # manifest[m].length THEN "LengthMismatch"
                  ELSE "DigestMismatch", manifest[m].path)
  <1> DEFINE w == manifest[m].path
             c == sorted[m]
             d == manifest[m]
  <1>1. w \in Nat \ {0} /\ m \in 1 .. Len(manifest) /\ m \in 1 .. Len(sorted)
    BY ListTypes
  <1>2. w \in PathsOf(manifest) /\ w \in PathsOf(given)
    <2>1. w \in PathsOf(manifest) /\ w \in PathsOf(sorted)
      BY <1>1, ListTypes DEF PathsOf
    <2> QED
      BY <2>1, MergeFacts
  <1>3. Among(manifest, w) = {d} /\ Among(given, w) = {c}
    BY <1>1, MergeFacts
  <1>4. w \in Wrong
    <2>1. c.bytes # d.digest \/ ByteLength(c.bytes) # d.length
      BY DEF AgreesAt
    <2> HIDE DEF w, c, d
    <2> QED
      BY <1>2, <1>3, <2>1 DEF Wrong, Right
  <1>5. ASSUME NEW q \in Wrong  PROVE w <= q
    <2>1. q \in LeftOf(manifest, m) \/ q \in LeftOf(sorted, m)
      BY WrongIsAhead
    <2> QED
      BY <2>1, MergeFacts
  <1>6. Least(Wrong) = w
    <2> HIDE DEF w
    <2> QED
      BY <1>4, <1>5, MergeFacts, LeastIs
  <1>7. WhatIsWrong(w) = IF ByteLength(c.bytes) # d.length THEN "LengthMismatch" ELSE "DigestMismatch"
    <2> HIDE DEF w, c, d
    <2> QED
      BY <1>2, <1>3 DEF WhatIsWrong
  <1> QED
    BY <1>1, <1>4, <1>6, <1>7, MergeFacts DEF ToReport

LEMMA NothingIsWrong ==
  ASSUME NEW sorted, NEW m, MergedTo(sorted, m), m > Len(manifest), m > Len(sorted)
  PROVE  Wrong = {} /\ Repeated(given) = {} /\ Len(sorted) = Len(manifest)
  <1>1. Wrong = {} /\ Repeated(given) = {}
    BY MergeFacts, WrongIsAhead
  <1>2. Len(sorted) = Len(manifest)
    BY ListTypes DEF MergedTo
  <1> QED
    BY <1>1, <1>2

(***************************************************************************)
(* The inductive invariant: up to the sorting the candidates are as given, *)
(* and in the merge what lies behind agrees with the manifest.             *)
(***************************************************************************)

IInv ==
  /\ manifest \in Manifests /\ given \in Candidates /\ subjectMatches \in BOOLEAN
  /\ pc # "done" => error = Ok /\ where = NoPath
  /\ pc \in {"limits", "sort"} => candidates = given /\ mi = 1
  /\ pc \in {"sort", "merge"} => subjectMatches /\ Within
  /\ pc = "merge" => MergedTo(candidates, mi)
  /\ VerifiesExactly

(***************************************************************************)
(* Equal neighbours in a sorting.                                          *)
(***************************************************************************)

LEMMA NoNeighboursAlike ==
  ASSUME NEW files \in Seq(File), NEW sorted \in ByPath(files),
         \A i \in 1 .. Len(files) - 1 : sorted[i].path # sorted[i + 1].path
  PROVE  Ascending(sorted)
  <1>1. /\ DOMAIN sorted = 1 .. Len(files) /\ DOMAIN files = 1 .. Len(files) /\ Len(files) \in Nat
        /\ \A i, j \in DOMAIN files : i < j => sorted[i].path <= sorted[j].path
        /\ \A i \in DOMAIN files : sorted[i] \in File
    BY Sorting
  <1>2. \A i \in DOMAIN files : sorted[i].path \in Nat
    BY <1>1 DEF File
  <1> SUFFICES ASSUME NEW i \in DOMAIN sorted, NEW j \in DOMAIN sorted, i < j
               PROVE  sorted[i].path < sorted[j].path
    BY DEF Ascending
  <1>3. i + 1 \in DOMAIN files /\ i \in DOMAIN files /\ j \in DOMAIN files /\ i < i + 1
        /\ i \in 1 .. Len(files) - 1 /\ (i + 1 = j \/ i + 1 < j)
    BY <1>1
  <1>4. sorted[i].path < sorted[i + 1].path
    BY <1>1, <1>2, <1>3
  <1>5. sorted[i + 1].path <= sorted[j].path
    BY <1>1, <1>2, <1>3
  <1> QED
    BY <1>2, <1>3, <1>4, <1>5

LEMMA FirstNeighboursAlike ==
  ASSUME NEW files \in Seq(File), NEW sorted \in ByPath(files),
         NEW i \in 1 .. Len(files) - 1, sorted[i].path = sorted[i + 1].path,
         \A j \in 1 .. Len(files) - 1 : sorted[j].path = sorted[j + 1].path => i <= j
  PROVE  /\ Repeated(files) # {} /\ Least(Repeated(files)) = sorted[i].path
         /\ sorted[i].path \in Nat \ {0}
  <1> DEFINE D == 1 .. Len(files)
  <1>1. /\ sorted \in Seq(File) /\ DOMAIN sorted = D /\ DOMAIN files = D /\ Len(files) \in Nat
        /\ \A a, b \in D : a < b => sorted[a].path <= sorted[b].path
        /\ \A a \in D : sorted[a] \in File
        /\ Repeated(sorted) = Repeated(files)
    BY Sorting
  <1>2. \A a \in D : sorted[a].path \in Nat \ {0}
    BY <1>1 DEF File
  <1>3. \A p : p \in Repeated(files) <=>
                 \E a, b \in D : a # b /\ sorted[a].path = p /\ sorted[b].path = p
    <2>1. \A p : p \in Repeated(sorted) <=>
                 \E a, b \in DOMAIN sorted : a # b /\ sorted[a].path = p /\ sorted[b].path = p
      BY <1>1, RepeatedIs
    <2> QED
      BY <1>1, <2>1
  <1>4. i \in D /\ i + 1 \in D /\ i # i + 1
    BY <1>1
  <1>5. sorted[i].path \in Repeated(files)
    BY <1>3, <1>4
  <1>6. Repeated(files) \in SUBSET Nat
    BY <1>2, <1>3
  <1>7. ASSUME NEW q \in Repeated(files)  PROVE sorted[i].path <= q
    <2>1. PICK a \in D, b \in D : a # b /\ sorted[a].path = q /\ sorted[b].path = q
      BY <1>3
    <2>2. \E c, d \in D : c < d /\ sorted[c].path = q /\ sorted[d].path = q
      <3>1. a < b \/ b < a
        BY <2>1
      <3> QED
        BY <2>1, <3>1
    <2>3. PICK c \in D, d \in D : c < d /\ sorted[c].path = q /\ sorted[d].path = q
      BY <2>2
    <2>4. c \in 1 .. Len(files) - 1 /\ c + 1 \in D /\ (c + 1 = d \/ c + 1 < d) /\ c < c + 1
      BY <1>1, <2>3
    <2>5. sorted[c].path <= sorted[c + 1].path /\ sorted[c + 1].path <= sorted[d].path
      BY <1>1, <1>2, <2>3, <2>4
    <2>6. sorted[c].path = sorted[c + 1].path
      BY <1>2, <2>3, <2>4, <2>5
    <2>7. i <= c
      BY <2>4, <2>6
    <2> QED
      BY <1>1, <1>2, <1>4, <2>3, <2>7
  <1> QED
    BY <1>2, <1>4, <1>5, <1>6, <1>7, LeastIs

(***************************************************************************)
(* Every step keeps the invariant.                                         *)
(***************************************************************************)

\* The initial states.
LEMMA InitInv ==
  ASSUME Init
  PROVE  IInv
  <1>1. /\ manifest \in Seq(Record) /\ given \in Seq(File)
        /\ Len(manifest) \in Nat /\ Len(given) \in Nat
    <2>1. manifest \in Manifests /\ given \in Candidates
      BY DEF Init
    <2>2. manifest \in Seq(Record) /\ given \in Seq(File)
      BY <2>1, VerifyAssumption DEF Record, File
    <2> QED
      BY <2>2
  <1>2. TypeOK
    <2>1. /\ pc = "limits" /\ error = Ok /\ mi = 1 /\ ci = 1
          /\ Len(candidates) = Len(given) /\ Len(candidates) \in Nat
      BY <1>1 DEF Init
    <2>2. mi \in 1 .. Len(manifest) + 1 /\ ci \in 1 .. Len(candidates) + 1 /\ mi = ci
      BY <1>1, <2>1
    <2> QED
      BY <2>1, <2>2 DEF TypeOK
  <1>3. pc = "limits" /\ pc # "done"
    BY DEF Init
  <1>4. VerifiesExactly
    BY <1>2, <1>3 DEF VerifiesExactly, VerifiedIsExact, VerifiedFilesAreGiven, ErrorIsTheLeast, Passed
  <1> QED
    BY <1>3, <1>4 DEF Init, IInv

\* An error that is a reason for refusing, and names the right path if any.
Justified(why, path) ==
  /\ why \in Errors
  /\ ~(subjectMatches /\ Within /\ Repeated(given) = {} /\ Wrong = {})
  /\ path # NoPath =>
       IF Repeated(given) # {} THEN why = "DuplicatePath" /\ path = Least(Repeated(given))
       ELSE path = Least(Wrong) /\ why = WhatIsWrong(path)

LEMMA FailInv ==
  ASSUME IInv, NEW why, NEW path, Justified(why, path), Fail(why, path),
         Len(candidates') = Len(candidates)
  PROVE  IInv'
  <1>1. /\ pc' = "done" /\ error' = why /\ where' = path
        /\ subjectMatches' = subjectMatches /\ manifest' = manifest /\ given' = given
        /\ mi' = mi /\ ci' = ci
    BY DEF Fail
  <1>2. /\ Repeated(given)' = Repeated(given) /\ Within' = Within
        /\ Wrong' = Wrong /\ WhatIsWrong(path)' = WhatIsWrong(path)
    <2>1. Repeated(given)' = Repeated(given)
      BY <1>1
    <2>2. Within' = Within
      BY <1>1 DEF Within
    <2>3. Wrong' = Wrong
      BY <1>1 DEF Wrong, Right
    <2>4. WhatIsWrong(path)' = WhatIsWrong(path)
      BY <1>1 DEF WhatIsWrong
    <2> QED
      BY <2>1, <2>2, <2>3, <2>4
  <1>3. why \in Errors /\ why # Ok
    BY DEF Justified, Errors, Ok
  <1>4. TypeOK'
    <2>1. TypeOK
      BY DEF IInv, VerifiesExactly
    <2> QED
      BY <1>1, <1>3, <2>1 DEF TypeOK
  <1>5. VerifiedIsExact'
    BY <1>1, <1>2, <1>3 DEF VerifiedIsExact, Justified
  <1>6. VerifiedFilesAreGiven'
    BY <1>1, <1>3 DEF VerifiedFilesAreGiven, Passed
  <1>7. ErrorIsTheLeast'
    <2>1. ErrorIsTheLeast' <=>
            (pc' = "done" /\ where' # NoPath =>
               IF Repeated(given)' # {}
               THEN error' = "DuplicatePath" /\ where' = Least(Repeated(given)')
               ELSE where' = Least(Wrong') /\ error' = WhatIsWrong(where)')
      BY DEF ErrorIsTheLeast
    <2>2. WhatIsWrong(where)' = WhatIsWrong(path)
      BY <1>1 DEF WhatIsWrong
    <2> QED
      BY <1>1, <1>2, <2>1, <2>2 DEF Justified
  <1>8. VerifiesExactly'
    BY <1>4, <1>5, <1>6, <1>7 DEF VerifiesExactly
  <1> QED
    BY <1>1, <1>8 DEF IInv

\* The limits.
LEMMA LimitsInv ==
  ASSUME IInv, Limits
  PROVE  IInv'
  <1> DEFINE checks == <<When(~subjectMatches, "SubjectMismatch"),
                         When(Len(candidates) > MaxFiles, "TooManyFiles"),
                         When(Total(candidates) > MaxExpanded, "BundleTooLarge")>>
             refusal == FirstOf(checks)
  <1>1. /\ pc = "limits" /\ candidates = given /\ subjectMatches \in BOOLEAN
        /\ error = Ok /\ where = NoPath /\ TypeOK /\ mi = 1
    BY DEF Limits, IInv, VerifiesExactly
  <1>2. \/ /\ refusal # Ok /\ Fail(refusal, NoPath) /\ candidates' = candidates
        \/ /\ refusal = Ok /\ pc' = "sort"
           /\ UNCHANGED <<subjectMatches, manifest, given, candidates, mi, ci, error, where, verified>>
    BY DEF Limits
  <1>3. Len(given) \in Nat /\ MaxFiles \in Nat
    BY VerifyAssumption DEF IInv
  <1>4. /\ refusal = Ok => subjectMatches /\ Within
        /\ refusal # Ok => refusal \in Errors /\ ~(subjectMatches /\ Within)
    <2>1. DOMAIN checks = 1 .. 3
      OBVIOUS
    <2>2. /\ checks[1].applies = ~subjectMatches /\ checks[1].refusal = "SubjectMismatch"
          /\ checks[2].applies = (Len(candidates) > MaxFiles) /\ checks[2].refusal = "TooManyFiles"
          /\ checks[3].applies = (Total(candidates) > MaxExpanded)
          /\ checks[3].refusal = "BundleTooLarge"
      BY DEF When
    <2> HIDE DEF checks
    <2>3. \/ /\ \A i \in 1 .. 3 : ~checks[i].applies
             /\ refusal = Ok
          \/ \E i \in 1 .. 3 :
               /\ checks[i].applies /\ \A j \in 1 .. i - 1 : ~checks[j].applies
               /\ refusal = checks[i].refusal
      BY <2>1, FirstOfValue
    <2>4. Within <=> ~(Len(candidates) > MaxFiles) /\ ~(Total(candidates) > MaxExpanded)
      BY <1>1, <1>3 DEF Within
    <2> HIDE DEF refusal
    <2>5. CASE (\A i \in 1 .. 3 : ~checks[i].applies) /\ refusal = Ok
      <3>1. ~checks[1].applies /\ ~checks[2].applies /\ ~checks[3].applies
        BY <2>5
      <3>2. /\ subjectMatches /\ ~(Len(candidates) > MaxFiles)
            /\ ~(Total(candidates) > MaxExpanded)
        BY <1>1, <2>2, <3>1
      <3> QED
        BY <2>4, <2>5, <3>2
    <2>6. ASSUME NEW i \in 1 .. 3, checks[i].applies, refusal = checks[i].refusal
          PROVE  refusal \in Errors /\ refusal # Ok /\ ~(subjectMatches /\ Within)
      <3>1. i = 1 \/ i = 2 \/ i = 3
        OBVIOUS
      <3> QED
        BY <2>2, <2>4, <2>6, <3>1 DEF Errors, Ok
    <2> QED
      BY <2>3, <2>5, <2>6
  <1> HIDE DEF refusal
  <1>5. CASE refusal # Ok
    <2>1. Justified(refusal, NoPath)
      BY <1>4, <1>5 DEF Justified
    <2> QED
      BY <1>2, <1>5, <2>1, FailInv
  <1>6. CASE refusal = Ok
    <2>1. /\ pc' = "sort"
          /\ UNCHANGED <<subjectMatches, manifest, given, candidates, mi, ci, error, where, verified>>
      BY <1>2, <1>6
    <2>2. TypeOK'
      BY <1>1, <2>1 DEF TypeOK
    <2>3. VerifiesExactly'
      BY <2>1, <2>2 DEF VerifiesExactly, VerifiedIsExact, VerifiedFilesAreGiven, ErrorIsTheLeast,
                        Passed
    <2>4. Within'
      BY <1>4, <1>6, <2>1 DEF Within
    <2> QED
      BY <1>1, <1>4, <1>6, <2>1, <2>3, <2>4 DEF IInv
  <1> QED
    BY <1>5, <1>6

\* The sorting.
LEMMA SortInv ==
  ASSUME IInv, Sort
  PROVE  IInv'
  <1> DEFINE alike(i) == candidates'[i].path = candidates'[i + 1].path
             twice == {i \in 1 .. Len(candidates) - 1 : alike(i)}
             i == CHOOSE i \in twice : \A j \in twice : i <= j
  <1>1. /\ pc = "sort" /\ candidates = given /\ given \in Candidates /\ manifest \in Manifests
        /\ error = Ok /\ where = NoPath /\ TypeOK /\ subjectMatches /\ Within /\ mi = 1
    BY DEF Sort, IInv, VerifiesExactly
  <1>2. given \in Seq(File) /\ candidates' \in ByPath(given) /\ manifest \in Seq(Record)
    BY <1>1, VerifyAssumption DEF Sort, File, Record
  <1>3. Len(candidates') = Len(candidates) /\ Len(given) \in Nat
    BY <1>1, <1>2, Sorting
  <1>4. \/ twice # {} /\ Fail("DuplicatePath", candidates'[i].path)
        \/ /\ twice = {} /\ pc' = "merge"
           /\ UNCHANGED <<subjectMatches, manifest, given, mi, ci, error, where, verified>>
    BY DEF Sort
  <1>5. CASE twice # {}
    <2>1. twice \in SUBSET Nat
      BY <1>1, <1>3
    <2>2. i \in twice /\ \A j \in twice : i <= j
      <3> HIDE DEF twice
      <3>1. \E k \in twice : \A j \in twice : k <= j
        BY <1>5, <2>1, LeastExists
      <3> QED
        BY <3>1
    <2> HIDE DEF i
    <2>3. /\ i \in 1 .. Len(given) - 1 /\ alike(i)
          /\ \A j \in 1 .. Len(given) - 1 : alike(j) => i <= j
      BY <1>1, <2>2
    <2>4. PICK sorted \in ByPath(given) : sorted = candidates'
      BY <1>2
    <2>5. /\ Repeated(given) # {} /\ Least(Repeated(given)) = sorted[i].path
          /\ sorted[i].path \in Nat \ {0}
      BY <1>2, <2>3, <2>4, FirstNeighboursAlike
    <2>6. Justified("DuplicatePath", candidates'[i].path)
      BY <2>4, <2>5 DEF Justified, Errors
    <2>7. Fail("DuplicatePath", candidates'[i].path)
      BY <1>4, <1>5
    <2> QED
      BY <1>3, <2>6, <2>7, FailInv
  <1>6. CASE twice = {}
    <2>1. /\ pc' = "merge"
          /\ UNCHANGED <<subjectMatches, manifest, given, mi, ci, error, where, verified>>
      BY <1>4, <1>6
    <2>2. PICK sorted \in ByPath(given) : sorted = candidates'
      BY <1>2
    <2>3. \A j \in 1 .. Len(given) - 1 : sorted[j].path # sorted[j + 1].path
      BY <1>1, <1>6, <2>2
    <2>4. Ascending(sorted)
      BY <1>2, <2>3, NoNeighboursAlike
    <2>5. MergedTo(candidates, mi)'
      <3>1. manifest' \in Manifests /\ given' \in Candidates
        BY <1>1, <2>1
      <3>2. candidates' \in ByPath(given') /\ Ascending(candidates')
        BY <1>2, <2>1, <2>2, <2>4
      <3>3. mi' = 1 /\ Len(manifest') \in Nat /\ Len(candidates') \in Nat
        BY <1>1, <1>2, <1>3, <2>1
      <3>4. mi' \in 1 .. Len(manifest') + 1 /\ mi' \in 1 .. Len(candidates') + 1 /\ 1 .. mi' - 1 = {}
        BY <3>3
      <3> QED
        BY <3>1, <3>2, <3>4 DEF MergedTo
    <2>6. TypeOK'
      BY <1>1, <1>3, <2>1 DEF TypeOK
    <2>7. VerifiesExactly'
      BY <2>1, <2>6 DEF VerifiesExactly, VerifiedIsExact, VerifiedFilesAreGiven, ErrorIsTheLeast,
                        Passed
    <2>8. Within'
      BY <1>1, <2>1 DEF Within
    <2> QED
      BY <1>1, <2>1, <2>5, <2>7, <2>8 DEF IInv
  <1> QED
    BY <1>5, <1>6

\* A reported error that a step of the merge ends with.
LEMMA ReportInv ==
  ASSUME IInv, NEW why, NEW path, ToReport(why, path), why \in Errors, Fail(why, path),
         candidates' = candidates
  PROVE  IInv'
  <1>1. Justified(why, path)
    BY DEF ToReport, Justified
  <1> QED
    BY <1>1, FailInv

\* A step of the merge.
LEMMA MergeInv ==
  ASSUME IInv, Merge
  PROVE  IInv'
  <1>1. /\ pc = "merge" /\ MergedTo(candidates, mi) /\ mi = ci /\ candidates' = candidates
        /\ error = Ok /\ where = NoPath /\ TypeOK /\ subjectMatches /\ Within
        /\ mi <= Len(manifest) /\ mi <= Len(candidates)
    BY DEF Merge, Both, IInv, VerifiesExactly, TypeOK
  <1>2. mi \in 1 .. Len(manifest) /\ mi \in 1 .. Len(candidates) /\ mi \in Nat
    BY <1>1, ListTypes
  <1>3. Declared = manifest[mi] /\ Candidate = candidates[mi]
    BY <1>1 DEF Declared, Candidate
  <1>4. Declared.path \in Nat /\ Candidate.path \in Nat
    BY <1>1, <1>2, <1>3, ListTypes
  <1>5. Match = IF ByteLength(Candidate.bytes) # Declared.length THEN "LengthMismatch"
                ELSE IF Candidate.bytes # Declared.digest THEN "DigestMismatch" ELSE Ok
    <2> DEFINE checks == <<When(ByteLength(Candidate.bytes) # Declared.length, "LengthMismatch"),
                           When(Candidate.bytes # Declared.digest, "DigestMismatch")>>
    <2>1. DOMAIN checks = 1 .. 2 /\ Match = FirstOf(checks)
      BY DEF Match
    <2>2. /\ checks[1].applies = (ByteLength(Candidate.bytes) # Declared.length)
          /\ checks[1].refusal = "LengthMismatch"
          /\ checks[2].applies = (Candidate.bytes # Declared.digest)
          /\ checks[2].refusal = "DigestMismatch"
      BY DEF When
    <2> HIDE DEF checks
    <2>3. \/ /\ \A i \in 1 .. 2 : ~checks[i].applies
             /\ FirstOf(checks) = Ok
          \/ \E i \in 1 .. 2 :
               /\ checks[i].applies /\ \A j \in 1 .. i - 1 : ~checks[j].applies
               /\ FirstOf(checks) = checks[i].refusal
      BY <2>1, FirstOfValue
    <2>4. CASE (\A i \in 1 .. 2 : ~checks[i].applies) /\ FirstOf(checks) = Ok
      <3>1. ~checks[1].applies /\ ~checks[2].applies
        BY <2>4
      <3> QED
        BY <2>1, <2>2, <2>4, <3>1
    <2>5. ASSUME NEW i \in 1 .. 2, checks[i].applies, \A j \in 1 .. i - 1 : ~checks[j].applies,
                 FirstOf(checks) = checks[i].refusal
          PROVE  Match = IF ByteLength(Candidate.bytes) # Declared.length THEN "LengthMismatch"
                         ELSE IF Candidate.bytes # Declared.digest THEN "DigestMismatch" ELSE Ok
      <3>1. i = 1 \/ (i = 2 /\ ~checks[1].applies)
        BY <2>5
      <3>2. CASE i = 1
        BY <2>1, <2>2, <2>5, <3>2
      <3>3. CASE i = 2 /\ ~checks[1].applies
        BY <2>1, <2>2, <2>5, <3>3
      <3> QED
        BY <3>1, <3>2, <3>3
    <2> QED
      BY <2>3, <2>4, <2>5
  <1>6. CASE Candidate.path < Declared.path /\ Fail("UndeclaredFile", Candidate.path)
    <2>1. ToReport("UndeclaredFile", Candidate.path)
      BY <1>1, <1>3, <1>6, UndeclaredIsToReport
    <2> QED
      BY <1>1, <1>6, <2>1, ReportInv DEF Errors
  <1>7. CASE Candidate.path > Declared.path /\ Fail("MissingFile", Declared.path)
    <2>1. ToReport("MissingFile", Declared.path)
      BY <1>1, <1>3, <1>7, MissingIsToReport
    <2> QED
      BY <1>1, <1>7, <2>1, ReportInv DEF Errors
  <1>8. CASE Candidate.path = Declared.path /\ Match # Ok /\ Fail(Match, Declared.path)
    <2>1. ~AgreesAt(candidates, mi)
      BY <1>3, <1>5, <1>8 DEF AgreesAt
    <2>2. Match = (IF ByteLength(candidates[mi].bytes) # manifest[mi].length THEN "LengthMismatch"
                   ELSE "DigestMismatch")
      BY <1>3, <1>5, <1>8
    <2>3. ToReport(Match, Declared.path)
      BY <1>1, <1>3, <1>8, <2>1, <2>2, MismatchIsToReport
    <2>4. Match \in Errors
      BY <2>2 DEF Errors
    <2> QED
      BY <1>1, <1>8, <2>3, <2>4, ReportInv
  <1>9. CASE /\ Candidate.path = Declared.path /\ Match = Ok
             /\ mi' = mi + 1 /\ ci' = ci + 1
             /\ UNCHANGED <<subjectMatches, manifest, given, pc, error, where, verified>>
    <2>1. AgreesAt(candidates, mi)
      BY <1>3, <1>5, <1>9 DEF AgreesAt, Ok
    <2>2. MergedTo(candidates, mi + 1)
      <3>1. /\ mi + 1 \in 1 .. Len(manifest) + 1 /\ mi + 1 \in 1 .. Len(candidates) + 1
            /\ \A k \in 1 .. (mi + 1) - 1 : k \in 1 .. mi - 1 \/ k = mi
        BY <1>1, <1>2, ListTypes
      <3> QED
        BY <1>1, <2>1, <3>1 DEF MergedTo
    <2>3. MergedTo(candidates, mi)'
      BY <1>1, <1>9, <2>2 DEF MergedTo, AgreesAt
    <2>4. TypeOK'
      <3>1. /\ mi' \in 1 .. Len(manifest) + 1 /\ ci' \in 1 .. Len(candidates) + 1 /\ mi' = ci'
        BY <1>1, <1>9, <2>2 DEF MergedTo
      <3> QED
        BY <1>1, <1>9, <3>1 DEF TypeOK
    <2>5. VerifiesExactly'
      BY <1>1, <1>9, <2>4 DEF VerifiesExactly, VerifiedIsExact, VerifiedFilesAreGiven,
                              ErrorIsTheLeast, Passed
    <2>6. Within'
      BY <1>1, <1>9 DEF Within
    <2> QED
      BY <1>1, <1>9, <2>3, <2>5, <2>6 DEF IInv
  <1> QED
    BY <1>1, <1>6, <1>7, <1>8, <1>9 DEF Merge

\* What is verified: the declared files, with the bytes given for them.
LEMMA VerifiedFiles ==
  ASSUME NEW sorted, NEW m, MergedTo(sorted, m), m > Len(manifest), m > Len(sorted)
  PROVE  LET files == [i \in DOMAIN manifest |->
                         [path |-> sorted[i].path, bytes |-> sorted[i].bytes,
                          digest |-> manifest[i].digest]]
         IN /\ PathsOf(files) = PathsOf(manifest) /\ Len(files) = Len(manifest)
            /\ \A i \in DOMAIN files :
                 /\ \E j \in DOMAIN given : given[j].path = files[i].path
                                            /\ given[j].bytes = files[i].bytes
                 /\ files[i].digest = files[i].bytes
                 /\ i > 1 => files[i - 1].path < files[i].path
  <1> DEFINE D == DOMAIN manifest
             files == [i \in D |-> [path |-> sorted[i].path, bytes |-> sorted[i].bytes,
                                    digest |-> manifest[i].digest]]
  <1>1. /\ D = 1 .. Len(manifest) /\ DOMAIN sorted = D /\ DOMAIN files = D
        /\ Len(manifest) \in Nat
    BY ListTypes, NothingIsWrong
  <1>2. \A i \in D : AgreesAt(sorted, i)
    <2>1. \A i \in D : i \in 1 .. m - 1
      BY <1>1, ListTypes
    <2> QED
      BY <2>1 DEF MergedTo
  <1>3. \A i \in D : /\ files[i].path = sorted[i].path /\ files[i].bytes = sorted[i].bytes
                     /\ files[i].digest = manifest[i].digest
                     /\ files[i].path = manifest[i].path /\ files[i].digest = files[i].bytes
    BY <1>2 DEF AgreesAt
  <1>4. Len(files) = Len(manifest)
    BY <1>1
  <1>5. \A i \in D : \E j \in DOMAIN given : given[j] = sorted[i]
    <2> SUFFICES ASSUME NEW i \in D  PROVE \E j \in DOMAIN given : given[j] = sorted[i]
      OBVIOUS
    <2>1. sorted[i] \in Among(sorted, sorted[i].path)
      BY <1>1 DEF Among
    <2>2. sorted[i] \in Among(given, sorted[i].path)
      BY <2>1, MergeFacts
    <2> QED
      BY <2>2 DEF Among
  <1>6. \A i \in D : i > 1 => files[i - 1].path < files[i].path
    <2> SUFFICES ASSUME NEW i \in D, i > 1  PROVE files[i - 1].path < files[i].path
      OBVIOUS
    <2>1. i - 1 \in D /\ i - 1 < i
      BY <1>1
    <2>2. manifest[i - 1].path < manifest[i].path
      BY <2>1, ListTypes DEF Ascending
    <2> QED
      BY <1>3, <2>1, <2>2
  <1> HIDE DEF files
  <1>7. PathsOf(files) = PathsOf(manifest)
    BY <1>1, <1>3 DEF PathsOf
  <1>8. \A i \in D : \E j \in DOMAIN given : given[j].path = files[i].path
                                              /\ given[j].bytes = files[i].bytes
    BY <1>3, <1>5
  <1> QED
    BY <1>1, <1>3, <1>4, <1>6, <1>7, <1>8 DEF files

\* The end of the merge.
LEMMA FinishInv ==
  ASSUME IInv, Finish
  PROVE  IInv'
  <1>1. /\ pc = "merge" /\ MergedTo(candidates, mi) /\ mi = ci /\ candidates' = candidates
        /\ error = Ok /\ where = NoPath /\ TypeOK /\ subjectMatches /\ Within
        /\ ~(mi <= Len(manifest) /\ mi <= Len(candidates))
    BY DEF Finish, Both, IInv, VerifiesExactly, TypeOK
  <1>2. mi \in Nat /\ Len(manifest) \in Nat /\ Len(candidates) \in Nat
    BY <1>1, ListTypes
  <1>3. Declared = manifest[mi] /\ Candidate = candidates[mi]
    BY <1>1 DEF Declared, Candidate
  <1>4. CASE mi <= Len(manifest) /\ Fail("MissingFile", Declared.path)
    <2>1. ToReport("MissingFile", Declared.path)
      BY <1>1, <1>3, <1>4, MissingIsToReport
    <2> QED
      BY <1>1, <1>4, <2>1, ReportInv DEF Errors
  <1>5. CASE /\ mi > Len(manifest) /\ ci <= Len(candidates)
             /\ Fail("UndeclaredFile", Candidate.path)
    <2>1. ToReport("UndeclaredFile", Candidate.path)
      BY <1>1, <1>2, <1>3, <1>5, UndeclaredIsToReport
    <2> QED
      BY <1>1, <1>5, <2>1, ReportInv DEF Errors
  <1>6. CASE /\ mi > Len(manifest) /\ ci > Len(candidates) /\ pc' = "done"
             /\ verified' = [i \in DOMAIN manifest |->
                  [path |-> candidates[i].path, bytes |-> candidates[i].bytes,
                   digest |-> manifest[i].digest]]
             /\ UNCHANGED <<subjectMatches, manifest, given, mi, ci, error, where>>
    <2>1. Wrong = {} /\ Repeated(given) = {}
      BY <1>1, <1>6, NothingIsWrong
    <2>2. Wrong' = {} /\ Repeated(given)' = {} /\ Within'
      <3>1. Wrong' = Wrong
        BY <1>6 DEF Wrong, Right
      <3>2. Within'
        BY <1>1, <1>6 DEF Within
      <3> QED
        BY <1>6, <2>1, <3>1, <3>2
    <2>3. TypeOK'
      BY <1>1, <1>6 DEF TypeOK
    <2>4. VerifiedIsExact'
      BY <1>1, <1>6, <2>2 DEF VerifiedIsExact
    <2>5. VerifiedFilesAreGiven'
      <3> DEFINE files == [i \in DOMAIN manifest |->
                             [path |-> candidates[i].path, bytes |-> candidates[i].bytes,
                              digest |-> manifest[i].digest]]
      <3>0. /\ PathsOf(files) = PathsOf(manifest) /\ Len(files) = Len(manifest)
            /\ \A i \in DOMAIN files :
                 /\ \E j \in DOMAIN given : given[j].path = files[i].path
                                            /\ given[j].bytes = files[i].bytes
                 /\ files[i].digest = files[i].bytes
                 /\ i > 1 => files[i - 1].path < files[i].path
        <4>1. mi > Len(manifest) /\ mi > Len(candidates) /\ MergedTo(candidates, mi)
          BY <1>1, <1>6
        <4> QED
          BY <4>1, VerifiedFiles
      <3>2. verified' = files
        BY <1>6
      <3> HIDE DEF files
      <3>1. /\ PathsOf(verified') = PathsOf(manifest) /\ Len(verified') = Len(manifest)
            /\ \A i \in DOMAIN verified' :
                 /\ \E j \in DOMAIN given : given[j].path = verified'[i].path
                                            /\ given[j].bytes = verified'[i].bytes
                 /\ verified'[i].digest = verified'[i].bytes
                 /\ i > 1 => verified'[i - 1].path < verified'[i].path
        BY <3>0, <3>2
      <3> QED
        BY <1>6, <3>1 DEF VerifiedFilesAreGiven
    <2>6. ErrorIsTheLeast'
      BY <1>1, <1>6 DEF ErrorIsTheLeast
    <2>7. VerifiesExactly'
      BY <2>3, <2>4, <2>5, <2>6 DEF VerifiesExactly
    <2> QED
      BY <1>1, <1>6, <2>7 DEF IInv
  <1> QED
    BY <1>1, <1>4, <1>5, <1>6 DEF Finish

\* Nothing moves.
LEMMA StutterInv ==
  ASSUME IInv, UNCHANGED vars
  PROVE  IInv'
  <1>1. /\ subjectMatches' = subjectMatches /\ manifest' = manifest /\ candidates' = candidates
        /\ given' = given /\ mi' = mi /\ ci' = ci /\ pc' = pc /\ error' = error /\ where' = where
        /\ verified' = verified
    BY DEF vars
  <1>2. Within' = Within /\ Wrong' = Wrong
    BY <1>1 DEF Within, Wrong, Right
  <1>3. WhatIsWrong(where)' = WhatIsWrong(where)
    BY <1>1 DEF WhatIsWrong
  <1>4. TypeOK'
    BY <1>1 DEF IInv, VerifiesExactly, TypeOK
  <1>5. VerifiedIsExact'
    BY <1>1, <1>2 DEF IInv, VerifiesExactly, VerifiedIsExact
  <1>6. VerifiedFilesAreGiven'
    BY <1>1 DEF IInv, VerifiesExactly, VerifiedFilesAreGiven, Passed
  <1>7. ErrorIsTheLeast'
    BY <1>1, <1>2, <1>3 DEF IInv, VerifiesExactly, ErrorIsTheLeast
  <1>8. MergedTo(candidates, mi)' = MergedTo(candidates, mi)
    BY <1>1 DEF MergedTo, AgreesAt
  <1> QED
    BY <1>1, <1>2, <1>4, <1>5, <1>6, <1>7, <1>8 DEF IInv, VerifiesExactly

(***************************************************************************)
(* The theorems.                                                           *)
(***************************************************************************)

\* Every state verify_candidate goes through is one of IInv.
THEOREM MergesInStep == Spec => []IInv
  <1>1. Init => IInv
    BY InitInv
  <1>2. IInv /\ [Next]_vars => IInv'
    BY LimitsInv, SortInv, MergeInv, FinishInv, StutterInv DEF Next
  <1> QED
    BY <1>1, <1>2, PTL DEF Spec

\* A candidate is verified when, and only when, its files are the declared
\* ones: each there once, with the declared length and digest, and no other. An
\* error names the least path that is repeated or wrong, in whatever order the
\* files were given.
THEOREM CandidatesVerified == Spec => []VerifiesExactly
  <1>1. IInv => VerifiesExactly
    BY DEF IInv
  <1> QED
    BY <1>1, MergesInStep, PTL

-----------------------------------------------------------------------------
(***************************************************************************)
(* PublisherTrust, for any policies, assertions and subjects, and any      *)
(* limits.                                                                 *)
(***************************************************************************)

\* A chain is Ok when no check applies, or it is the first one that does.
LEMMA TrustFirstOf ==
  ASSUME NEW n \in Nat, NEW checks, DOMAIN checks = 1 .. n
  PROVE  \/ /\ \A i \in 1 .. n : ~checks[i].applies
            /\ Trust!FirstOf(checks) = Trust!Ok
         \/ \E i \in 1 .. n :
              /\ checks[i].applies /\ \A j \in 1 .. i - 1 : ~checks[j].applies
              /\ Trust!FirstOf(checks) = checks[i].refusal
  <1>1. Trust!FirstOf(checks) = FirstOf(checks) /\ Trust!Ok = Ok
    BY DEF Trust!FirstOf, Trust!Ok, FirstOf, Ok
  <1> QED
    BY <1>1, FirstOfValue

\* Attributes as a verifier or a rule lists them, and what may be wrong with a list.
AttributeList == Seq(STRING \X STRING)

Refusals == {"EmptyPublisherIdentity", "TooManyIdentityAttributes", "InvalidIdentityAttributeName",
             "InvalidIdentityAttributeValue", "DuplicateIdentityAttribute",
             "InvalidVerificationMechanism"}

\* The checks of the i-th attribute.
AttributeRefusal(attributes, i) ==
  Trust!FirstOf(<<
    Trust!When(attributes[i][1] = BadName, "InvalidIdentityAttributeName"),
    Trust!When(attributes[i][2] = BadValue, "InvalidIdentityAttributeValue"),
    Trust!When(\E j \in 1 .. i - 1 : attributes[j][1] = attributes[i][1],
               "DuplicateIdentityAttribute")>>)

LEMMA AttributeCases ==
  ASSUME NEW attributes, NEW i
  PROVE  /\ AttributeRefusal(attributes, i) \in Refusals \cup {Trust!Ok}
         /\ AttributeRefusal(attributes, i) = Trust!Ok =>
              ~\E j \in 1 .. i - 1 : attributes[j][1] = attributes[i][1]
  <1> DEFINE name  == attributes[i][1] = BadName
             value == attributes[i][2] = BadValue
             twice == \E j \in 1 .. i - 1 : attributes[j][1] = attributes[i][1]
             checks == <<Trust!When(name, "InvalidIdentityAttributeName"),
                         Trust!When(value, "InvalidIdentityAttributeValue"),
                         Trust!When(twice, "DuplicateIdentityAttribute")>>
  <1>1. AttributeRefusal(attributes, i) = Trust!FirstOf(checks)
    BY DEF AttributeRefusal
  <1>2. name \in BOOLEAN /\ value \in BOOLEAN /\ twice \in BOOLEAN
    OBVIOUS
  <1> HIDE DEF name, value, twice
  <1>3. /\ DOMAIN checks = 1 .. 3 /\ \A n \in 1 .. 3 : checks[n].refusal \in Refusals
        /\ checks[1].applies = name /\ checks[2].applies = value /\ checks[3].applies = twice
    BY <1>2 DEF Trust!When, Refusals
  <1> HIDE DEF checks
  <1>4. \/ (\A n \in 1 .. 3 : ~checks[n].applies) /\ Trust!FirstOf(checks) = Trust!Ok
        \/ \E n \in 1 .. 3 : checks[n].applies /\ Trust!FirstOf(checks) = checks[n].refusal
    BY <1>3, TrustFirstOf
  <1>5. Trust!Ok \notin Refusals
    BY DEF Trust!Ok, Refusals
  <1>6. /\ Trust!FirstOf(checks) \in Refusals \cup {Trust!Ok}
        /\ Trust!FirstOf(checks) = Trust!Ok => ~twice
    BY <1>2, <1>3, <1>4, <1>5
  <1> QED
    BY <1>1, <1>6 DEF twice

\* An identity that is not refused says something, and of no name two things.
LEMMA IdentityCases ==
  ASSUME NEW attributes \in AttributeList
  PROVE  /\ Trust!IdentityRefusal(attributes) \in Refusals \cup {Trust!Ok}
         /\ Trust!IdentityRefusal(attributes) = Trust!Ok =>
              /\ attributes # <<>>
              /\ \A i, j \in DOMAIN attributes : attributes[i][1] = attributes[j][1] => i = j
  <1> DEFINE list == [i \in DOMAIN attributes |-> i]
             hits == {i \in DOMAIN list : AttributeRefusal(attributes, list[i]) # Trust!Ok}
             first == CHOOSE i \in hits : \A j \in hits : i <= j
             refusal == IF hits = {} THEN Trust!Ok ELSE AttributeRefusal(attributes, list[first])
  <1>1. Trust!IdentityRefusal(attributes)
          = IF attributes = <<>> THEN "EmptyPublisherIdentity"
            ELSE IF Len(attributes) > MaxAttributes THEN "TooManyIdentityAttributes"
            ELSE refusal
    BY Zenon DEF Trust!IdentityRefusal, Trust!FirstIn, AttributeRefusal
  <1>2. Len(attributes) \in Nat /\ DOMAIN attributes = 1 .. Len(attributes)
    BY DEF AttributeList
  <1>3. /\ hits \in SUBSET Nat
        /\ hits = {i \in DOMAIN attributes : AttributeRefusal(attributes, i) # Trust!Ok}
    BY <1>2
  <1>4. refusal \in Refusals \cup {Trust!Ok} /\ (refusal = Trust!Ok => hits = {})
    <2>1. CASE hits = {}
      BY <2>1
    <2>2. CASE hits # {}
      <3> HIDE DEF hits
      <3>1. first \in hits
        BY <1>3, <2>2, LeastExists
      <3> HIDE DEF first
      <3>2. AttributeRefusal(attributes, list[first]) # Trust!Ok
        BY <3>1 DEF hits
      <3>3. AttributeRefusal(attributes, list[first]) \in Refusals \cup {Trust!Ok}
        BY AttributeCases, Zenon
      <3> QED
        BY <2>2, <3>2, <3>3
    <2> QED
      BY <2>1, <2>2
  <1> HIDE DEF refusal
  <1>5. ASSUME hits = {}, NEW i \in DOMAIN attributes, NEW j \in DOMAIN attributes,
               attributes[i][1] = attributes[j][1]
        PROVE  i = j
    <2>1. \A n \in DOMAIN attributes : AttributeRefusal(attributes, n) = Trust!Ok
      BY <1>3, <1>5
    <2>2. ~(j \in 1 .. i - 1) /\ ~(i \in 1 .. j - 1)
      BY <1>5, <2>1, AttributeCases, Zenon
    <2> QED
      BY <1>2, <2>2
  <1>6. Trust!IdentityRefusal(attributes) \in Refusals \cup {Trust!Ok}
    BY <1>1, <1>4 DEF Refusals
  <1>7. Trust!IdentityRefusal(attributes) = Trust!Ok => attributes # <<>> /\ hits = {}
    BY <1>1, <1>4 DEF Trust!Ok
  <1> QED
    BY <1>5, <1>6, <1>7, Zenon

\* What a rule or a report is, and what makes one that is not refused.
Report(made) == made.mechanism \in STRING /\ made.attributes \in AttributeList

LEMMA RefusalCases ==
  ASSUME NEW made, Report(made)
  PROVE  /\ Trust!Refusal(made) \in Refusals \cup {Trust!Ok}
         /\ Trust!Refusal(made) = Trust!Ok => Trust!IdentityRefusal(made.attributes) = Trust!Ok
  <1>1. Trust!IdentityRefusal(made.attributes) \in Refusals \cup {Trust!Ok}
    BY IdentityCases DEF Report
  <1>2. "InvalidVerificationMechanism" \in Refusals /\ "InvalidVerificationMechanism" # Trust!Ok
    BY DEF Refusals, Trust!Ok
  <1> QED
    BY <1>1, <1>2, Zenon DEF Trust!Refusal

\* The map that an identity is holds what the list says.
LEMMA IdentityHolds ==
  ASSUME NEW attributes \in AttributeList, Trust!IdentityRefusal(attributes) = Trust!Ok
  PROVE  /\ DOMAIN Trust!Identity(attributes) = {attributes[i][1] : i \in DOMAIN attributes}
         /\ \A i \in DOMAIN attributes : Trust!Identity(attributes)[attributes[i][1]] = attributes[i][2]
  <1> DEFINE said == {attributes[i] : i \in DOMAIN attributes}
             names == {attributes[i][1] : i \in DOMAIN attributes}
             one(name) == CHOOSE a \in said : a[1] = name
  <1>1. Trust!Identity(attributes) = [name \in names |-> one(name)[2]]
    BY DEF Trust!Identity
  <1>2. \A i, j \in DOMAIN attributes : attributes[i][1] = attributes[j][1] => i = j
    BY IdentityCases
  <1>3. ASSUME NEW i \in DOMAIN attributes
        PROVE  one(attributes[i][1]) = attributes[i]
    <2> DEFINE name == attributes[i][1]
    <2>1. attributes[i] \in said /\ attributes[i][1] = name
      OBVIOUS
    <2> HIDE DEF name
    <2>2. one(name) \in said /\ one(name)[1] = name
      <3> HIDE DEF said
      <3> QED
        BY <2>1
    <2>3. PICK j \in DOMAIN attributes : one(name) = attributes[j]
      BY <2>2
    <2>4. j = i
      BY <1>2, <2>1, <2>2, <2>3
    <2> QED
      BY <2>3, <2>4 DEF name
  <1> HIDE DEF one
  <1>4. \A i \in DOMAIN attributes : Trust!Identity(attributes)[attributes[i][1]] = attributes[i][2]
    BY <1>1, <1>3
  <1> QED
    BY <1>1, <1>4

\* A rule's identity is contained in another when what it says is said of the other.
LEMMA ContainsIsSaid ==
  ASSUME NEW a \in AttributeList, NEW r \in AttributeList,
         Trust!IdentityRefusal(a) = Trust!Ok, Trust!IdentityRefusal(r) = Trust!Ok
  PROVE  Trust!ContainsAll(Trust!Identity(a), Trust!Identity(r)) <=>
           {r[i] : i \in DOMAIN r} \subseteq {a[i] : i \in DOMAIN a}
  <1>1. /\ DOMAIN Trust!Identity(a) = {a[i][1] : i \in DOMAIN a}
        /\ \A i \in DOMAIN a : Trust!Identity(a)[a[i][1]] = a[i][2]
        /\ DOMAIN Trust!Identity(r) = {r[i][1] : i \in DOMAIN r}
        /\ \A i \in DOMAIN r : Trust!Identity(r)[r[i][1]] = r[i][2]
    BY IdentityHolds
  <1>2. /\ \A i \in DOMAIN a : a[i] = <<a[i][1], a[i][2]>>
        /\ \A i \in DOMAIN r : r[i] = <<r[i][1], r[i][2]>>
    <2>1. /\ \A i \in DOMAIN a : a[i] \in STRING \X STRING
          /\ \A i \in DOMAIN r : r[i] \in STRING \X STRING
      BY DEF AttributeList
    <2> QED
      BY <2>1
  <1>3. ASSUME Trust!ContainsAll(Trust!Identity(a), Trust!Identity(r)), NEW i \in DOMAIN r
        PROVE  \E j \in DOMAIN a : a[j] = r[i]
    <2>1. r[i][1] \in DOMAIN Trust!Identity(a) /\ Trust!Identity(a)[r[i][1]] = r[i][2]
      BY <1>1, <1>3 DEF Trust!ContainsAll
    <2>2. PICK j \in DOMAIN a : a[j][1] = r[i][1]
      BY <1>1, <2>1
    <2>3. a[j][2] = r[i][2]
      BY <1>1, <2>1, <2>2
    <2>4. a[j] = r[i]
      BY <1>2, <2>2, <2>3, Zenon
    <2> QED
      BY <2>4
  <1>4. ASSUME \A i \in DOMAIN r : \E j \in DOMAIN a : a[j] = r[i]
        PROVE  Trust!ContainsAll(Trust!Identity(a), Trust!Identity(r))
    <2> SUFFICES ASSUME NEW name \in DOMAIN Trust!Identity(r)
                 PROVE  /\ name \in DOMAIN Trust!Identity(a)
                        /\ Trust!Identity(a)[name] = Trust!Identity(r)[name]
      BY DEF Trust!ContainsAll
    <2>1. PICK i \in DOMAIN r : name = r[i][1]
      BY <1>1
    <2>2. PICK j \in DOMAIN a : a[j] = r[i]
      BY <1>4
    <2>3. Trust!Identity(r)[name] = r[i][2] /\ Trust!Identity(a)[name] = a[j][2] /\ name = a[j][1]
      BY <1>1, <2>1, <2>2
    <2> QED
      BY <1>1, <2>2, <2>3
  <1> DEFINE contains == Trust!ContainsAll(Trust!Identity(a), Trust!Identity(r))
             within == \A i \in DOMAIN r : \E j \in DOMAIN a : a[j] = r[i]
  <1>5. contains <=> within
    BY <1>3, <1>4, Zenon
  <1>6. within <=> {r[i] : i \in DOMAIN r} \subseteq {a[i] : i \in DOMAIN a}
    <2> HIDE DEF contains
    <2> QED
      OBVIOUS
  <1> QED
    BY <1>5, <1>6, Zenon
-----------------------------------------------------------------------------
(***************************************************************************)
(* The invariant: the rules made so far are those that are written.        *)
(***************************************************************************)

MadeRule(rule) == [mechanism |-> rule.mechanism, identity |-> Trust!Identity(rule.attributes)]

\* What an authorization and a refusal of it mean, rule by rule.
Vouches(rule) == rule.mechanism = reported.mechanism /\ Trust!Said(rule) \subseteq Trust!Said(reported)

InputsInv ==
  /\ written \in Seq([mechanism : STRING, attributes : AttributeList])
  /\ reported \in [mechanism : STRING, subject : STRING, attributes : AttributeList]

RulesInv ==
  /\ rules \in Seq([mechanism : STRING, identity : {Trust!Identity(a) : a \in AttributeList}])
  /\ Len(rules) <= Len(written)
  /\ \A i \in 1 .. Len(rules) : rules[i] = MadeRule(written[i]) /\ Trust!Refusal(written[i]) = Trust!Ok
  /\ trustPc \in {"assertion", "authorize"} => Len(rules) = Len(written) /\ Len(rules) \in 1 .. MaxRules
  /\ trustPc = "authorize" =>
       /\ Trust!Refusal(reported) = Trust!Ok
       /\ assertion = [mechanism |-> reported.mechanism, subject |-> reported.subject,
                       identity |-> Trust!Identity(reported.attributes)]

OutcomeInv ==
  /\ trustPc \in {"rules", "assertion", "authorize", "done"}
  /\ outcome \in Trust!Outcomes \cup {Trust!Ok} /\ (outcome = Trust!Ok <=> trustPc # "done")
  /\ outcome \in {"authorized", "PublisherNotAllowed"} =>
       /\ reported.subject = expected
       /\ written # <<>> /\ \A i \in DOMAIN written : Trust!Said(written[i]) # {}
       /\ outcome = "authorized" <=> \E i \in DOMAIN written : Vouches(written[i])

TrustInv == InputsInv /\ RulesInv /\ OutcomeInv

LEMMA InitIInv ==
  Trust!TrustAssumption /\ Trust!Init => TrustInv
  <1> SUFFICES ASSUME Trust!TrustAssumption, Trust!Init PROVE TrustInv
    OBVIOUS
  <1>1. InputsInv
    BY DEF Trust!TrustAssumption, Trust!Init, InputsInv, AttributeList
  <1>2. RulesInv
    BY <1>1 DEF Trust!Init, RulesInv, InputsInv
  <1>3. OutcomeInv
    BY DEF Trust!Init, OutcomeInv, Trust!Ok
  <1> QED
    BY <1>1, <1>2, <1>3 DEF TrustInv

\* An ending with an error says nothing of the rules.
LEMMA EndStep ==
  ASSUME TrustInv, NEW why, Trust!End(why),
         why \in Refusals \cup {"EmptyTrustPolicy", "TooManyTrustRules", "SubjectMismatch"}
  PROVE  TrustInv'
  <1>1. /\ UNCHANGED <<written, reported, expected, rules, assertion>>
        /\ trustPc' = "done" /\ outcome' = why
    BY DEF Trust!End
  <1>2. InputsInv' /\ RulesInv'
    BY <1>1 DEF TrustInv, InputsInv, RulesInv
  <1>3. OutcomeInv'
    BY <1>1 DEF OutcomeInv, Trust!Outcomes, Refusals, Trust!Ok
  <1> QED
    BY <1>2, <1>3 DEF TrustInv

LEMMA MakeRuleStep ==
  ASSUME TrustInv, Trust!MakeRule
  PROVE  TrustInv'
  <1> DEFINE n == Len(rules) + 1
             rule == written[n]
  <1>1. /\ trustPc = "rules" /\ Len(rules) < Len(written)
        /\ IF Trust!Refusal(rule) # Trust!Ok THEN Trust!End(Trust!Refusal(rule))
           ELSE /\ rules' = Append(rules, MadeRule(rule))
                /\ UNCHANGED <<written, reported, expected, assertion, trustPc, outcome>>
    BY Zenon DEF Trust!MakeRule, MadeRule
  <1>2. /\ rules \in Seq([mechanism : STRING, identity : {Trust!Identity(a) : a \in AttributeList}])
        /\ \A i \in 1 .. Len(rules) :
             rules[i] = MadeRule(written[i]) /\ Trust!Refusal(written[i]) = Trust!Ok
    BY DEF TrustInv, RulesInv
  <1>3. n \in DOMAIN written /\ n \in Nat /\ Len(rules) \in Nat /\ Len(written) \in Nat
    BY <1>1, <1>2 DEF TrustInv, InputsInv
  <1>4. rule \in [mechanism : STRING, attributes : AttributeList]
    <2>1. written \in Seq([mechanism : STRING, attributes : AttributeList])
      BY DEF TrustInv, InputsInv
    <2> HIDE DEF n
    <2>2. n \in 1 .. Len(written)
      BY <1>3, <2>1
    <2> QED
      BY <2>1, <2>2, ElementOfSeq
  <1>5. Trust!Refusal(rule) \in Refusals \cup {Trust!Ok}
    BY <1>4, RefusalCases DEF Report
  <1>6. CASE Trust!Refusal(rule) # Trust!Ok
    BY <1>1, <1>5, <1>6, EndStep, Zenon
  <1>7. CASE Trust!Refusal(rule) = Trust!Ok
    <2>1. /\ rules' = Append(rules, MadeRule(rule))
          /\ UNCHANGED <<written, reported, expected, assertion, trustPc, outcome>>
      BY <1>1, <1>7
    <2>2. MadeRule(rule) \in [mechanism : STRING, identity : {Trust!Identity(a) : a \in AttributeList}]
      BY <1>4 DEF MadeRule
    <2>3. /\ rules' \in Seq([mechanism : STRING, identity : {Trust!Identity(a) : a \in AttributeList}])
          /\ Len(rules') = n
          /\ \A i \in 1 .. n : rules'[i] = IF i = n THEN MadeRule(rule) ELSE rules[i]
      <3> HIDE DEF rule
      <3> QED
        BY <1>2, <1>3, <2>1, <2>2
    <2>4. \A i \in 1 .. n : rules'[i] = MadeRule(written[i]) /\ Trust!Refusal(written[i]) = Trust!Ok
      BY <1>2, <1>3, <1>7, <2>3
    <2>5. RulesInv'
      BY <1>1, <1>3, <2>1, <2>3, <2>4 DEF RulesInv
    <2>6. InputsInv' /\ OutcomeInv'
      BY <2>1 DEF TrustInv, InputsInv, OutcomeInv, Vouches
    <2> QED
      BY <2>5, <2>6 DEF TrustInv
  <1> QED
    BY <1>6, <1>7

LEMMA MakePolicyStep ==
  ASSUME MaxRules \in Nat, TrustInv, Trust!MakePolicy
  PROVE  TrustInv'
  <1>1. Len(rules) \in Nat /\ Len(rules) = Len(written)
    BY DEF TrustInv, RulesInv, Trust!MakePolicy
  <1>2. CASE rules = <<>>
    BY <1>2, EndStep, Zenon DEF Trust!MakePolicy
  <1>3. CASE rules # <<>> /\ Len(rules) > MaxRules
    BY <1>3, EndStep, Zenon DEF Trust!MakePolicy
  <1>4. CASE rules # <<>> /\ ~(Len(rules) > MaxRules)
    <2>1. /\ trustPc' = "assertion"
          /\ UNCHANGED <<written, reported, expected, rules, assertion, outcome>>
      BY <1>4, Zenon DEF Trust!MakePolicy
    <2>2. Len(rules) \in 1 .. MaxRules
      BY <1>1, <1>4 DEF TrustInv, RulesInv
    <2>3. InputsInv' /\ RulesInv'
      BY <1>1, <2>1, <2>2 DEF TrustInv, InputsInv, RulesInv
    <2>4. OutcomeInv'
      BY <2>1 DEF TrustInv, OutcomeInv, Vouches, Trust!MakePolicy
    <2> QED
      BY <2>3, <2>4 DEF TrustInv
  <1> QED
    BY <1>2, <1>3, <1>4

LEMMA MakeAssertionStep ==
  ASSUME TrustInv, Trust!MakeAssertion
  PROVE  TrustInv'
  <1>1. Trust!Refusal(reported) \in Refusals \cup {Trust!Ok}
    BY RefusalCases DEF Report, TrustInv, InputsInv
  <1>2. CASE Trust!Refusal(reported) # Trust!Ok
    BY <1>1, <1>2, EndStep, Zenon DEF Trust!MakeAssertion
  <1>3. CASE Trust!Refusal(reported) = Trust!Ok
    <2>1. /\ assertion' = [mechanism |-> reported.mechanism, subject |-> reported.subject,
                           identity |-> Trust!Identity(reported.attributes)]
          /\ trustPc' = "authorize" /\ UNCHANGED <<written, reported, expected, rules, outcome>>
          /\ trustPc = "assertion"
      BY <1>3, Zenon DEF Trust!MakeAssertion
    <2>2. InputsInv' /\ RulesInv'
      BY <1>3, <2>1 DEF TrustInv, InputsInv, RulesInv
    <2>3. OutcomeInv'
      BY <2>1 DEF TrustInv, OutcomeInv, Vouches
    <2> QED
      BY <2>2, <2>3 DEF TrustInv
  <1> QED
    BY <1>2, <1>3

\* A rule that was made matches the assertion when, as written, it vouches for it.
LEMMA MatchIsVouching ==
  ASSUME TrustInv, trustPc = "authorize", NEW i \in DOMAIN written
  PROVE  /\ Trust!Matches(rules[i], assertion) <=> Vouches(written[i])
         /\ Trust!Said(written[i]) # {}
  <1> DEFINE rule == written[i]
             a == reported.attributes
             r == rule.attributes
  <1>1. /\ Len(rules) = Len(written) /\ Len(written) \in Nat /\ DOMAIN written = 1 .. Len(written)
        /\ rule \in [mechanism : STRING, attributes : AttributeList]
        /\ reported \in [mechanism : STRING, subject : STRING, attributes : AttributeList]
    <2>1. /\ written \in Seq([mechanism : STRING, attributes : AttributeList])
          /\ reported \in [mechanism : STRING, subject : STRING, attributes : AttributeList]
          /\ Len(rules) = Len(written)
      BY DEF TrustInv, InputsInv, RulesInv
    <2>2. Len(written) \in Nat /\ DOMAIN written = 1 .. Len(written)
      BY <2>1
    <2>3. rule \in [mechanism : STRING, attributes : AttributeList]
      BY <2>1, <2>2, ElementOfSeq
    <2> QED
      BY <2>1, <2>2, <2>3
  <1>2. /\ rules[i] = MadeRule(rule) /\ Trust!Refusal(rule) = Trust!Ok
        /\ Trust!Refusal(reported) = Trust!Ok
        /\ assertion = [mechanism |-> reported.mechanism, subject |-> reported.subject,
                        identity |-> Trust!Identity(a)]
    BY <1>1 DEF TrustInv, RulesInv
  <1>3. /\ a \in AttributeList /\ Trust!IdentityRefusal(a) = Trust!Ok
        /\ r \in AttributeList /\ Trust!IdentityRefusal(r) = Trust!Ok
    BY <1>1, <1>2, RefusalCases DEF Report
  <1>4. /\ rules[i].mechanism = rule.mechanism /\ rules[i].identity = Trust!Identity(r)
        /\ assertion.mechanism = reported.mechanism /\ assertion.identity = Trust!Identity(a)
    BY <1>2 DEF MadeRule
  <1>5. Trust!Said(rule) = {r[j] : j \in DOMAIN r} /\ Trust!Said(reported) = {a[j] : j \in DOMAIN a}
    BY Zenon DEF Trust!Said
  <1>6. r # <<>>
    BY <1>3, IdentityCases
  <1>7. Trust!Said(rule) # {}
    <2>1. 1 \in DOMAIN r
      <3> HIDE DEF r
      <3> QED
        BY <1>3, <1>6 DEF AttributeList
    <2> QED
      BY <1>5, <2>1, Zenon
  <1> HIDE DEF a, r, rule
  <1>8. Trust!ContainsAll(Trust!Identity(a), Trust!Identity(r))
          <=> Trust!Said(rule) \subseteq Trust!Said(reported)
    BY <1>3, <1>5, ContainsIsSaid
  <1>9. Trust!Matches(rules[i], assertion) <=> Vouches(rule)
    BY <1>4, <1>8, Zenon DEF Trust!Matches, Vouches
  <1> QED
    BY <1>7, <1>9 DEF rule

LEMMA AuthorizeStep ==
  ASSUME TrustInv, Trust!Authorize
  PROVE  TrustInv'
  <1>1. /\ trustPc = "authorize" /\ assertion.subject = reported.subject
        /\ DOMAIN rules = DOMAIN written /\ written # <<>>
    BY DEF Trust!Authorize, TrustInv, InputsInv, RulesInv
  <1>2. CASE assertion.subject # expected
    BY <1>2, EndStep, Zenon DEF Trust!Authorize
  <1>3. CASE assertion.subject = expected
    <2> DEFINE matched == \E i \in DOMAIN rules : Trust!Matches(rules[i], assertion)
               why == IF matched THEN "authorized" ELSE "PublisherNotAllowed"
    <2>1. Trust!End(why)
      BY <1>3, Zenon DEF Trust!Authorize
    <2>2. /\ UNCHANGED <<written, reported, expected, rules, assertion>>
          /\ trustPc' = "done" /\ outcome' = why
      BY <2>1, Zenon DEF Trust!End
    <2>3. matched <=> \E i \in DOMAIN written : Vouches(written[i])
      BY <1>1, MatchIsVouching, Zenon
    <2>4. \A i \in DOMAIN written : Trust!Said(written[i]) # {}
      BY <1>1, MatchIsVouching, Zenon
    <2>5. InputsInv' /\ RulesInv'
      BY <2>2 DEF TrustInv, InputsInv, RulesInv
    <2> HIDE DEF matched
    <2>6. OutcomeInv'
      <3>1. /\ outcome' \in {"authorized", "PublisherNotAllowed"}
            /\ outcome' = "authorized" <=> matched
        BY <2>2
      <3>2. outcome' \in Trust!Outcomes \cup {Trust!Ok} /\ outcome' # Trust!Ok
        BY <3>1 DEF Trust!Outcomes, Trust!Ok
      <3>3. \A i \in DOMAIN written : /\ Vouches(written[i])' <=> Vouches(written[i])
                                      /\ Trust!Said(written[i])' = Trust!Said(written[i])
        BY <2>2, Zenon DEF Vouches, Trust!Said
      <3>4. reported'.subject = expected'
        BY <1>1, <1>3, <2>2
      <3> QED
        BY <1>1, <2>2, <2>3, <2>4, <3>1, <3>2, <3>3, <3>4, Zenon DEF OutcomeInv
    <2> QED
      BY <2>5, <2>6 DEF TrustInv
  <1> QED
    BY <1>2, <1>3

LEMMA NextIInv ==
  Trust!TrustAssumption /\ TrustInv /\ [Trust!Next]_(Trust!vars) => TrustInv'
  <1> SUFFICES ASSUME Trust!TrustAssumption, TrustInv, [Trust!Next]_(Trust!vars) PROVE TrustInv'
    OBVIOUS
  <1>1. MaxRules \in Nat
    BY DEF Trust!TrustAssumption
  <1>2. CASE UNCHANGED Trust!vars
    BY <1>2 DEF Trust!vars, TrustInv, InputsInv, RulesInv, OutcomeInv, Vouches
  <1> QED
    BY <1>1, <1>2, MakeRuleStep, MakePolicyStep, MakeAssertionStep, AuthorizeStep, Zenon DEF Trust!Next

LEMMA TrustFromIInv ==
  ASSUME TrustInv
  PROVE  Trust!TrustIsExact
  <1>1. Trust!TypeOK
    BY DEF TrustInv, OutcomeInv, RulesInv, Trust!TypeOK
  <1>2. Trust!AuthorizedExactly
    BY Zenon DEF TrustInv, OutcomeInv, Vouches, Trust!AuthorizedExactly
  <1>3. Trust!NothingByDefault
    <2> SUFFICES ASSUME outcome = "authorized"
                 PROVE  /\ written # <<>> /\ \A i \in DOMAIN written : Trust!Said(written[i]) # {}
                        /\ Trust!Said(reported) \cap UNION {Trust!Said(written[i]) : i \in DOMAIN written} # {}
      BY Zenon DEF Trust!NothingByDefault
    <2>1. /\ written # <<>> /\ \A i \in DOMAIN written : Trust!Said(written[i]) # {}
          /\ \E i \in DOMAIN written : Vouches(written[i])
      BY Zenon DEF TrustInv, OutcomeInv
    <2>2. PICK i \in DOMAIN written : Trust!Said(written[i]) \subseteq Trust!Said(reported)
      BY <2>1, Zenon DEF Vouches
    <2>3. PICK said \in Trust!Said(written[i]) : said \in Trust!Said(reported)
      BY <2>1, <2>2, Zenon
    <2>4. said \in UNION {Trust!Said(written[j]) : j \in DOMAIN written}
      BY <2>3, Zenon
    <2> QED
      BY <2>1, <2>3, <2>4, Zenon
  <1> QED
    BY <1>1, <1>2, <1>3 DEF Trust!TrustIsExact

\* The policy decides as it was written, and never by default (TrustPolicy::authorize).
THEOREM TrustExact == Trust!Spec => []TrustIsExact
  <1>1. Trust!Init => TrustInv
    BY PolicyAssumption, InitIInv
  <1>2. TrustInv /\ [Trust!Next]_(Trust!vars) => TrustInv'
    BY PolicyAssumption, NextIInv
  <1>3. TrustInv => TrustIsExact
    BY TrustFromIInv DEF TrustIsExact
  <1> QED
    BY <1>1, <1>2, <1>3, PTL DEF Trust!Spec

=============================================================================
