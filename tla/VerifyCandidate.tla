-------------------------- MODULE VerifyCandidate --------------------------
(***************************************************************************)
(* verify_candidate (crates/invokrum-acquisition/src/lib.rs): candidate    *)
(* files in any order against the sorted file records of a manifest, by a  *)
(* merge of the two lists.                                                 *)
(*                                                                         *)
(* Paths are numbers, in their order. Bytes are model values with a        *)
(* length; SHA-256 tells them apart, so a digest is the bytes it is of. A  *)
(* record need not be true of any bytes: its length may be another one's.  *)
(***************************************************************************)
EXTENDS Naturals, Sequences, FiniteSets, Functions, EarlyReturn

CONSTANTS
  Contents, ByteLength(_), \* bytes and how many they are
  Manifests,            \* sequences of [path, length, digest], sorted by path
  Candidates,           \* sequences of [path, bytes]
  MaxFiles,             \* MAX_BUNDLE_FILES
  MaxExpanded           \* MAX_BUNDLE_EXPANDED_BYTES

\* What is assumed of the constants. A manifest is what BundleManifest makes of one.
ASSUME VerifyAssumption ==
  /\ MaxFiles \in Nat /\ MaxExpanded \in Nat
  /\ Manifests \subseteq Seq([path : Nat \ {0}, length : Nat, digest : Contents])
  /\ Candidates \subseteq Seq([path : Nat \ {0}, bytes : Contents])
  /\ \A m \in Manifests : Len(m) <= MaxFiles /\
       \A i, j \in DOMAIN m : i < j => m[i].path < m[j].path

VARIABLES
  subjectMatches,       \* is the manifest's subject the one expected?
  manifest, candidates,
  given,                \* the candidates as they were handed in (ghost)
  mi, ci,               \* manifest_index, candidate_index
  pc, error, where,     \* the error and the path it names
  verified

vars == <<subjectMatches, manifest, candidates, given, mi, ci, pc, error, where, verified>>

Errors == {"SubjectMismatch", "TooManyFiles", "BundleTooLarge", "DuplicatePath",
           "MissingFile", "UndeclaredFile", "LengthMismatch", "DigestMismatch"}
NoPath == 0
-----------------------------------------------------------------------------
\* The length of the first n candidates together. (No candidate is over
\* MAX_BUNDLE_FILE_BYTES: CandidateFile::new does not make such a one.)
Total(files) ==
  LET sum[n \in 0 .. Len(files)] ==
        IF n = 0 THEN 0 ELSE sum[n - 1] + ByteLength(files[n].bytes)
  IN sum[Len(files)]

Fail(why, path) ==
  /\ pc' = "done" /\ error' = why /\ where' = path
  /\ UNCHANGED <<subjectMatches, manifest, given, mi, ci, verified>>

Init ==
  /\ subjectMatches \in BOOLEAN
  /\ manifest \in Manifests /\ given \in Candidates /\ candidates = given
  /\ mi = 1 /\ ci = 1 /\ pc = "limits" /\ error = Ok /\ where = NoPath /\ verified = <<>>

Limits ==
  /\ pc = "limits"
  /\ LET refusal == FirstOf(<<
           When(~subjectMatches, "SubjectMismatch"),
           When(Len(candidates) > MaxFiles, "TooManyFiles"),
           When(Total(candidates) > MaxExpanded, "BundleTooLarge")>>)
     IN IF refusal # Ok
        THEN Fail(refusal, NoPath) /\ UNCHANGED candidates
        ELSE /\ pc' = "sort"
             /\ UNCHANGED <<subjectMatches, manifest, given, candidates, mi, ci, error, where,
                            verified>>

\* The sorting by path (the only one: files of one path stay in their order).
ByPath(files) ==
  LET before(i, j) == \/ files[i].path < files[j].path
                      \/ files[i].path = files[j].path /\ i < j
  IN {[k \in DOMAIN files |-> files[place[k]]] :
        place \in {f \in Bijection(DOMAIN files, DOMAIN files) :
                    \A i, j \in DOMAIN files : i < j => before(f[i], f[j])}}

\* Mutant: equal neighbours are looked for in the order the files came in.
SortAfterDuplicates ==
  /\ pc = "sort" /\ pc' = "merge"
  /\ candidates' \in ByPath(candidates)
  /\ \A i \in 1 .. Len(candidates) - 1 : candidates[i].path # candidates[i + 1].path
  /\ UNCHANGED <<subjectMatches, manifest, given, mi, ci, error, where, verified>>

\* sort_by path, then the first two neighbours with one path.
Sort ==
  /\ pc = "sort"
  /\ candidates' \in ByPath(candidates)
  /\ LET twice == {i \in 1 .. Len(candidates) - 1 :
                     candidates'[i].path = candidates'[i + 1].path}
     IN IF twice # {}
        THEN Fail("DuplicatePath",
                  candidates'[CHOOSE i \in twice : \A j \in twice : i <= j].path)
        ELSE /\ pc' = "merge"
             /\ UNCHANGED <<subjectMatches, manifest, given, mi, ci, error, where, verified>>

Declared  == manifest[mi]
Candidate == candidates[ci]
Both      == mi <= Len(manifest) /\ ci <= Len(candidates)

\* One record and one candidate with the same path.
Match ==
  FirstOf(<<
    When(ByteLength(Candidate.bytes) # Declared.length, "LengthMismatch"),
    When(Candidate.bytes # Declared.digest, "DigestMismatch")>>)

\* The loop: one step of the merge, or the error that ends it.
Merge ==
  /\ pc = "merge" /\ Both
  /\ \/ Candidate.path < Declared.path /\ Fail("UndeclaredFile", Candidate.path)
     \/ Candidate.path > Declared.path /\ Fail("MissingFile", Declared.path)
     \/ /\ Candidate.path = Declared.path /\ Match # Ok
        /\ Fail(Match, Declared.path)
     \/ /\ Candidate.path = Declared.path /\ Match = Ok
        /\ mi' = mi + 1 /\ ci' = ci + 1
        /\ UNCHANGED <<subjectMatches, manifest, given, pc, error, where, verified>>
  /\ UNCHANGED candidates

\* What is left of one of the lists, or the verified files.
Finish ==
  /\ pc = "merge" /\ ~Both
  /\ \/ mi <= Len(manifest) /\ Fail("MissingFile", Declared.path)
     \/ mi > Len(manifest) /\ ci <= Len(candidates) /\ Fail("UndeclaredFile", Candidate.path)
     \/ /\ mi > Len(manifest) /\ ci > Len(candidates)
        /\ pc' = "done"
        /\ verified' = [i \in DOMAIN manifest |->
             [path |-> candidates[i].path, bytes |-> candidates[i].bytes,
              digest |-> manifest[i].digest]]
        /\ UNCHANGED <<subjectMatches, manifest, given, mi, ci, error, where>>
  /\ UNCHANGED candidates

Next == Limits \/ Sort \/ Merge \/ Finish

Spec == Init /\ [][Next]_vars
-----------------------------------------------------------------------------
(* The two lists once more, as sets.                                       *)

PathsOf(list)   == {list[i].path : i \in DOMAIN list}
Among(list, p)  == {list[i] : i \in {j \in DOMAIN list : list[j].path = p}}
Repeated(list)  == {p \in PathsOf(list) :
                      Cardinality({i \in DOMAIN list : list[i].path = p}) > 1}

\* A path is right when it is declared, there, and the bytes are the declared
\* ones in length and digest.
Right(p) ==
  /\ p \in PathsOf(manifest) \cap PathsOf(given)
  /\ \E d \in Among(manifest, p), c \in Among(given, p) :
       c.bytes = d.digest /\ ByteLength(c.bytes) = d.length
Wrong == {p \in PathsOf(manifest) \cup PathsOf(given) : ~Right(p)}

Least(S) == CHOOSE p \in S : \A q \in S : p <= q

WhatIsWrong(p) ==
  CASE p \notin PathsOf(given)    -> "MissingFile"
    [] p \notin PathsOf(manifest) -> "UndeclaredFile"
    [] \E c \in Among(given, p), d \in Among(manifest, p) :
         ByteLength(c.bytes) # d.length -> "LengthMismatch"
    [] OTHER -> "DigestMismatch"

Passed == pc = "done" /\ error = Ok
Within == Len(given) <= MaxFiles /\ ~(Total(given) > MaxExpanded)

TypeOK ==
  /\ pc \in {"limits", "sort", "merge", "done"}
  /\ error \in Errors \cup {Ok} /\ (error # Ok => pc = "done")
  /\ mi \in 1 .. Len(manifest) + 1 /\ ci \in 1 .. Len(candidates) + 1
  /\ mi = ci /\ Len(candidates) = Len(given)

\* A candidate is verified when, and only when, its files are the declared ones:
\* each there once, with the declared length and digest, and no other.
VerifiedIsExact ==
  pc = "done" =>
    (error = Ok <=> subjectMatches /\ Within /\ Repeated(given) = {} /\ Wrong = {})

\* The files handed to the installer carry each the bytes that came with its
\* path, and the digest declared for it, whatever order they were given in.
VerifiedFilesAreGiven ==
  Passed =>
    /\ PathsOf(verified) = PathsOf(manifest) /\ Len(verified) = Len(manifest)
    /\ \A i \in DOMAIN verified :
         /\ \E j \in DOMAIN given : given[j].path = verified[i].path
                                    /\ given[j].bytes = verified[i].bytes
         /\ verified[i].digest = verified[i].bytes
         /\ i > 1 => verified[i - 1].path < verified[i].path

\* The error does not depend on the order of the candidates: it is about the
\* least path that is repeated or, when none is, the least that is wrong, and
\* says of it what is the case.
ErrorIsTheLeast ==
  pc = "done" /\ where # NoPath =>
    IF Repeated(given) # {}
    THEN error = "DuplicatePath" /\ where = Least(Repeated(given))
    ELSE where = Least(Wrong) /\ error = WhatIsWrong(where)

\* Verified is what the manifest declares, file by file, and an error names the
\* first file that is wrong.
VerifiesExactly == TypeOK /\ VerifiedIsExact /\ VerifiedFilesAreGiven /\ ErrorIsTheLeast
=============================================================================
