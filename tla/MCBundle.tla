------------------------------ MODULE MCBundle ------------------------------
(***************************************************************************)
(* Instances for TLC of what a bundle goes through before it is installed: *)
(* UstarParse, VerifyCandidate, BundleManifest and PublisherTrust. The     *)
(* four share no state, so one run checks them as alternatives: `part`     *)
(* says which of them moves, and the others rest in an initial state of    *)
(* their own.                                                              *)
(***************************************************************************)
EXTENDS BundleChecks, Integers, TLC

LOCAL INSTANCE SequencesExt
-----------------------------------------------------------------------------
(* UstarParse: the archives of every list of up to three entries, sound    *)
(* and with any one block damaged, left out or added.                      *)

Plain(path, type, size) ==
  [checksum |-> "right", ustar |-> TRUE, odd |-> "none", size |-> size, type |-> type,
   path |-> path, slash |-> FALSE]

File(path, size) == Plain(path, "file", size)
a   == <<"a">>
db  == <<"d", "b">>

MCLower(path) == [i \in DOMAIN path |-> IF path[i] = "A" THEN "a" ELSE path[i]]

\* The headers there are, by the name of their block: those that lists are made
\* of, and those with something wrong.
Listed == [a0 |-> File(a, 0), a1 |-> File(a, 1), a3 |-> File(a, 3), b1 |-> File(db, 1),
           b2 |-> File(db, 2), dir |-> Plain(<<"d">>, "directory", 0)]

Odd ==
  [a2 |-> File(a, 2), a4 |-> File(a, 4), upper |-> File(<<"A">>, 0),
   undeclared |-> File(<<"u">>, 0), deep |-> File(db \o db, 0),
   extension |-> Plain(a, "x", 0), symlink |-> Plain(a, "symlink", 0),
   dir1 |-> Plain(<<"d">>, "directory", 1), dirslash |-> [Listed.dir EXCEPT !.slash = TRUE],
   checksum |-> [File(a, 0) EXCEPT !.checksum = "wrong"],
   format |-> [File(a, 0) EXCEPT !.ustar = FALSE], numbers |-> [File(a, 0) EXCEPT !.odd = "numbers"],
   links |-> [File(a, 0) EXCEPT !.odd = "links"], name |-> [File(a, 0) EXCEPT !.odd = "name"],
   nosize |-> [File(a, 0) EXCEPT !.size = -1], noname |-> File(<<>>, 0),
   slash |-> [File(a, 0) EXCEPT !.slash = TRUE]]

NoHeader(fill, checksum) ==
  [fill |-> fill, header |-> [File(<<>>, 0) EXCEPT !.checksum = checksum]]
Payloads == [zero |-> NoHeader("zero", "empty"), half |-> NoHeader("half", "empty"),
             full |-> NoHeader("full", "text")]

Headers == Listed @@ Odd
MCIs == Payloads @@ [n \in DOMAIN Headers |-> [fill |-> "head", header |-> Headers[n]]]

Payload(h) == [i \in 1 .. (h.size + 1) \div 2 |-> IF 2 * i > h.size THEN "half" ELSE "full"]
Encode(list) ==
  FlattenSeq([i \in DOMAIN list |-> <<list[i]>> \o Payload(Listed[list[i]])])
    \o <<"zero", "zero">>

Lists(n) == UNION {[1 .. m -> DOMAIN Listed] : m \in 0 .. n}
Sound    == {Encode(list) : list \in Lists(3)}
Short    == {Encode(list) : list \in Lists(2)}
Common   == DOMAIN Payloads \cup DOMAIN Listed

Replaced(bs, with) == UNION {{[b EXCEPT ![i] = w] : i \in DOMAIN b, w \in with} : b \in bs}
Added(bs, with) == UNION {{InsertAt(b, i, w) : i \in DOMAIN b, w \in with} : b \in bs}
LeftOut(bs) == UNION {{RemoveAt(b, i) : i \in DOMAIN b} : b \in bs}

Complete(bs) == [blocks : bs, whole : {TRUE}, packed : {FALSE}]
Starts(b)    == b # <<>> /\ b[1] # "zero"

MCArchives ==
  Complete(Sound \cup Replaced(Short, DOMAIN MCIs) \cup Added(Short, Common) \cup
           Replaced(Sound, {"zero", "half"}) \cup Added(Sound, {"zero"}) \cup LeftOut(Sound) \cup
           {b \o <<"zero", "zero", "zero">> : b \in Short} \cup
           {b \o <<"zero", "half">> : b \in Short})
  \cup [blocks : Short \cup {<<>>}, whole : {FALSE}, packed : {FALSE}]
  \cup [blocks : {b \in Short \cup {<<"full">> \o b : b \in Short} : Starts(b)},
         whole : BOOLEAN, packed : {TRUE}]

DeclaredPaths == {{a}, {a, db}, {a, <<"A">>}, {<<"d">>, db}}
-----------------------------------------------------------------------------
(* VerifyCandidate: every manifest of up to three records over three       *)
(* paths, every list of up to three candidates.                            *)

BytesLength(c) == IF c = "long" THEN 2 ELSE 1

RecordPaths == 1 .. 3
\* What a record may say: true of one of the contents, or of none.
Claims == {[length |-> 1, digest |-> "short"], [length |-> 2, digest |-> "long"],
           [length |-> 2, digest |-> "short"]}
SortedPaths == {s \in UNION {[1 .. n -> RecordPaths] : n \in 1 .. 3} :
             \A i, j \in DOMAIN s : i < j => s[i] < s[j]}

RecordLists ==
  UNION {{[i \in DOMAIN s |-> [path |-> s[i], length |-> c[i].length, digest |-> c[i].digest]] :
            c \in [DOMAIN s -> Claims]} : s \in SortedPaths}
CandidateLists == UNION {[1 .. n -> [path : RecordPaths, bytes : {"short", "other", "long"}]] : n \in 0 .. 3}
-----------------------------------------------------------------------------
(* BundleManifest: the format allows three files of two bytes and four     *)
(* bytes in all; texts and drafts go one beyond each.                      *)

FormatLimits == [files |-> 3, file |-> 2, expanded |-> 4]
LimitRequests == {[files |-> 4, file |-> 3, expanded |-> 5], [files |-> 2, file |-> 2, expanded |-> 4],
               [files |-> 3, file |-> 1, expanded |-> 3], [files |-> 3, file |-> 2, expanded |-> 3]}
\* Path 3 is one of those that take two bytes for each of theirs.
PathLength(p) == IF p = 3 THEN 3 ELSE 1

ListsOf(files, most) == UNION {[1 .. n -> files] : n \in 0 .. most}
ManifestFile(paths, sizes, hex) == [path : paths, size : sizes, hex : hex]
Text(layouts, formats, algorithms, entry, lists) ==
  [layout : layouts, format : formats, algorithm : algorithms, entry : entry, files : lists]

ManifestTexts ==
  \* anything wrong with a short text,
  Text({"canonical", "spaced", "twice", "malformed"}, {"v1", "v0"}, {"sha256", "md5"}, 0 .. 2,
       ListsOf(ManifestFile(0 .. 2, {1, 3}, BOOLEAN), 1))
  \cup Text({"canonical", "spaced"}, {"v1"}, {"sha256"}, 1 .. 2,
            ListsOf(ManifestFile(0 .. 2, 1 .. 3, BOOLEAN), 2))
  \* and long ones.
  \cup Text({"canonical", "spaced"}, {"v1"}, {"sha256"}, {1},
            ListsOf(ManifestFile(1 .. 3, 1 .. 2, {TRUE}), 3))
  \cup Text({"canonical"}, {"v1"}, {"sha256"}, {1}, [1 .. 4 -> ManifestFile(1 .. 3, {1}, {TRUE})])

ManifestDrafts == [entry : 1 .. 3, files : ListsOf(ManifestFile(1 .. 3, 1 .. 3, {TRUE}), 3)]
-----------------------------------------------------------------------------
(* PublisherTrust: two names, two values, up to three attributes and three *)
(* rules, one more of each than is allowed.                                *)

Key(v) == <<"key", v>>
Org(v) == <<"org", v>>
TrustAttributes ==
  {<<>>, <<Key("1")>>, <<Org("1")>>, <<Key("1"), Org("1")>>, <<Org("1"), Key("1")>>,
   <<Key("2"), Org("1")>>, <<Key("1"), Key("2")>>, <<Key("1"), <<"no name", "1">>>>,
   <<Org("no value")>>, <<Org("1"), Key("1"), Org("1")>>}
Rule(m, said) == [mechanism |-> m, attributes |-> said]
TrustRules == {Rule(m, said) : m \in {"ed25519", "other"}, said \in TrustAttributes}
             \cup {Rule("no mechanism", <<Key("1")>>)}
TrustPolicies ==
  {<<>>} \cup {<<r>> : r \in TrustRules} \cup {<<r, s>> : r, s \in TrustRules}
  \cup {<<r, r, r>> : r \in TrustRules}
TrustAssertions == [mechanism : {"ed25519", "other", "no mechanism"}, subject : {"a", "b"},
                 attributes : TrustAttributes]
-----------------------------------------------------------------------------
VARIABLES
  part,
  archive, declared, cursor, entries, keys, expanded, found, verdict,
  limits, draft, text, readPc, readError, readManifest

archiveVars == <<archive, declared, cursor, entries, keys, expanded, found, verdict>>
manifestVars == <<limits, draft, text, readPc, readError, readManifest>>

Archive == INSTANCE UstarParse WITH
  candidates <- found, Is <- MCIs, Archives <- MCArchives, Manifests <- DeclaredPaths,
  Lower <- MCLower, MaxEntries <- 2, MaxMetadata <- 4, MaxExpanded <- 4, MaxBlocks <- 7,
  MaxNesting <- 2, MaxFile <- 3

Manifest == INSTANCE BundleManifest WITH
  manifest <- readManifest, pc <- readPc, error <- readError,
  Texts <- ManifestTexts, Drafts <- ManifestDrafts, Requests <- LimitRequests,
  V1 <- FormatLimits, PathBytes <- PathLength, MaxText <- 5, NoPath <- 0

ASSUME ArchiveAssumption == Archive!LimitsAssumption

ArchiveRests ==
  /\ archive = [blocks |-> <<"zero", "zero">>, whole |-> TRUE, packed |-> FALSE]
  /\ declared = {a} /\ Archive!Init
CandidateRests ==
  /\ subjectMatches = TRUE /\ given = <<>>
  /\ manifest = <<[path |-> 1, length |-> 1, digest |-> "short"]>> /\ Init
ManifestRests ==
  limits = FormatLimits /\ draft = [entry |-> 1, files |-> <<>>] /\ Manifest!Init
TrustRests ==
  /\ written = <<>>
  /\ reported = [mechanism |-> "ed25519", subject |-> "a", attributes |-> <<>>] /\ Trust!Init

MCInit ==
  \/ part = "archive" /\ CandidateRests /\ ManifestRests /\ TrustRests /\ Archive!Init
  \/ part = "candidate" /\ ArchiveRests /\ ManifestRests /\ TrustRests /\ Init
  \/ part = "manifest" /\ ArchiveRests /\ CandidateRests /\ TrustRests /\ Manifest!Init
  \/ part = "trust" /\ ArchiveRests /\ CandidateRests /\ ManifestRests /\ Trust!Init

MCNext ==
  /\ UNCHANGED part
  /\ \/ part = "archive" /\ Archive!Next /\ UNCHANGED <<vars, manifestVars, trustVars>>
     \/ part = "candidate" /\ Next /\ UNCHANGED <<archiveVars, manifestVars, trustVars>>
     \/ part = "manifest" /\ Manifest!Next /\ UNCHANGED <<vars, archiveVars, trustVars>>
     \/ part = "trust" /\ Trust!Next /\ UNCHANGED <<vars, archiveVars, manifestVars>>

MCSpec == MCInit /\ [][MCNext]_<<part, vars, archiveVars, manifestVars, trustVars>>

\* The parser of archives reads the format: it accepts what is well formed, takes each
\* file from where it is, and says "missing" of nothing worse (parse_ustar).
ParsesExactly == Archive!ParsesExactly

\* The reader's manifests are the canonical texts within the limits, and the
\* maker's are among them.
ReadsExactly == Manifest!ReadsExactly
=============================================================================
