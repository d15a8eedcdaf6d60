--------------------------- MODULE BundleManifest ---------------------------
(***************************************************************************)
(* A bundle manifest from the one who makes it to the one who reads it:    *)
(* BundleManifest::new (crates/invokrum-distribution/src/lib.rs), then     *)
(* encode_bundle_manifest and decode_bundle_manifest                       *)
(* (crates/invokrum-distribution-json/src/lib.rs). The reader also meets   *)
(* texts that nobody made that way.                                        *)
(*                                                                         *)
(* A text is the record of what its JSON says and of how it is laid out:   *)
(* "canonical", "spaced" (other white space or key order), "twice" (a key  *)
(* repeated) or "malformed". Paths are numbers in their order, NoPath one  *)
(* that BundlePath::parse refuses. The subject of a manifest is the digest *)
(* of its text, that is, the text.                                         *)
(***************************************************************************)
EXTENDS Naturals, Sequences, FiniteSets, TLC, EarlyReturn

CONSTANTS
  Texts,       \* the texts a reader may be given
  Drafts,      \* [entry, files]: what a maker may hand to BundleManifest::new
  Requests,    \* the limits a host may ask for: [files, file, expanded]
  V1,          \* the limits of the format: MAX_BUNDLE_FILES, ...FILE_BYTES, ...EXPANDED_BYTES
  PathBytes(_), \* how many bytes a path takes in a text
  MaxText,     \* MAX_BUNDLE_MANIFEST_BYTES
  NoPath

VARIABLES
  limits,      \* the reader's BundleLimits
  draft,       \* what the maker started from, NoDraft for a text of unknown origin
  text, pc, error,
  manifest     \* what was accepted: [entry, files], NoManifest before

vars == <<limits, draft, text, pc, error, manifest>>

NoDraft == [entry |-> NoPath, files |-> <<>>]
NoManifest == NoDraft
-----------------------------------------------------------------------------
\* BundleLimits::new: limits may be tightened, never relaxed.
Clamp(asked) ==
  [l \in DOMAIN V1 |-> IF asked[l] > V1[l] THEN V1[l] ELSE asked[l]]

ByPath(files) == SortSeq(files, LAMBDA a, b : a.path < b.path)

\* The sizes of the first n files together.
Expanded(files, n) ==
  LET sum[i \in 0 .. n] == IF i = 0 THEN 0 ELSE sum[i - 1] + files[i].size IN sum[n]

\* The loop over the sizes, file by file: the first file that is too large, or
\* that takes the sum over its limit.
SizeRefusal(files, within) ==
  LET over == {i \in DOMAIN files : files[i].size > within.file
                                    \/ Expanded(files, i) > within.expanded}
      first == CHOOSE i \in over : \A j \in over : i <= j
  IN IF over = {} THEN Ok
     ELSE IF files[first].size > within.file THEN "FileTooLarge" ELSE "BundleTooLarge"

\* Two neighbours of the sorted files with one path.
HasTwice(files) ==
  LET sorted == ByPath(files)
  IN \E i \in 1 .. Len(files) - 1 : sorted[i].path = sorted[i + 1].path

\* BundleManifest::new: why it refuses, Ok when it does not.
NewRefusal(format, algorithm, entry, files, within) ==
  FirstOf(<<
    When(format # "v1", "UnsupportedBundleFormat"),
    When(algorithm # "sha256", "UnsupportedDigestAlgorithm"),
    When(files = <<>>, "EmptyBundle"),
    When(Len(files) > within.files, "TooManyFiles"),
    When(HasTwice(files), "DuplicatePath"),
    When(SizeRefusal(ByPath(files), within) # Ok, SizeRefusal(ByPath(files), within)),
    When(\A i \in DOMAIN files : files[i].path # entry, "EntryPointMissing")>>)

\* ... and what it makes.
New(entry, files) == [entry |-> entry, files |-> ByPath(files)]

\* encode_bundle_manifest: one text for one manifest.
Encode(m) ==
  [layout |-> "canonical", format |-> "v1", algorithm |-> "sha256",
   entry |-> m.entry, files |-> m.files]

TextBytes(t) ==
  LET sum[i \in 0 .. Len(t.files)] ==
        IF i = 0 THEN 0 ELSE sum[i - 1] + PathBytes(t.files[i].path)
  IN sum[Len(t.files)] + IF t.layout = "spaced" THEN 1 ELSE 0
-----------------------------------------------------------------------------
\* The reader's limits, and either a text of unknown origin or a draft.
Init ==
  /\ \E asked \in Requests : limits = Clamp(asked)
  /\ error = Ok /\ manifest = NoManifest
  /\ \/ text \in Texts /\ draft = NoDraft /\ pc = "parse"
     \/ draft \in Drafts /\ text = Encode(draft) /\ pc = "make"

Goto(next) == pc' = next /\ UNCHANGED error

Check(refusal, next) ==
  /\ IF refusal = Ok THEN Goto(next) ELSE pc' = "done" /\ error' = refusal
  /\ UNCHANGED <<limits, draft, text, manifest>>

\* A maker, under the limits of the format, writes the manifest of a draft.
Make ==
  /\ pc = "make"
  /\ LET refusal == NewRefusal("v1", "sha256", draft.entry, draft.files, V1)
     IN IF refusal # Ok THEN pc' = "unmade" /\ error' = refusal /\ UNCHANGED text
        ELSE Goto("parse") /\ text' = Encode(New(draft.entry, draft.files))
  /\ UNCHANGED <<limits, draft, manifest>>

\* decode_bundle_manifest, the size and the JSON.
Parse ==
  /\ pc = "parse"
  /\ Check(FirstOf(<<
       When(TextBytes(text) > MaxText, "InputTooLarge"),
       When(text.layout = "twice", "DuplicateKey"),
       When(text.layout = "malformed", "MalformedJson")>>), "limits")

\* Mutant: the limits of the format, not those of the host.
CheckLimitsOfFormat ==
  /\ pc = "limits"
  /\ Check(IF Len(text.files) > V1.files THEN "TooManyFiles" ELSE SizeRefusal(text.files, V1),
           "parts")

\* Before any path or digest is looked at: the number of files and their sizes,
\* in the order of the text.
CheckLimits ==
  /\ pc = "limits"
  /\ Check(IF Len(text.files) > limits.files THEN "TooManyFiles"
           ELSE SizeRefusal(text.files, limits), "parts")

\* BundlePath::parse of the entry point, then path and digest of each file.
CheckParts ==
  /\ pc = "parts"
  /\ LET bad == {i \in DOMAIN text.files : text.files[i].path = NoPath \/ ~text.files[i].hex}
         first == CHOOSE i \in bad : \A j \in bad : i <= j
     IN Check(IF text.entry = NoPath THEN "InvalidPath"
              ELSE IF bad = {} THEN Ok
              ELSE IF text.files[first].path = NoPath THEN "InvalidPath" ELSE "InvalidDigest",
              "new")

MakeNew ==
  /\ pc = "new"
  /\ LET refusal == NewRefusal(text.format, text.algorithm, text.entry, text.files, limits)
     IN IF refusal # Ok
        THEN Check(refusal, "compare")
        ELSE /\ Goto("compare") /\ manifest' = New(text.entry, text.files)
             /\ UNCHANGED <<limits, draft, text>>

\* The text must be, byte for byte, the one the manifest would be written as.
Compare ==
  /\ pc = "compare"
  /\ LET refusal == IF Encode(manifest) # text THEN "NonCanonical" ELSE Ok
     IN /\ error' = refusal /\ pc' = "done"
        /\ manifest' = IF refusal = Ok THEN manifest ELSE NoManifest
  /\ UNCHANGED <<limits, draft, text>>

Next == Make \/ Parse \/ CheckLimits \/ CheckParts \/ MakeNew \/ Compare

Spec == Init /\ [][Next]_vars
-----------------------------------------------------------------------------
JsonErrors == {"InputTooLarge", "DuplicateKey", "MalformedJson", "NonCanonical"}
LimitErrors == {"TooManyFiles", "FileTooLarge", "BundleTooLarge"}
DataErrors == {"InvalidPath", "InvalidDigest", "UnsupportedBundleFormat",
               "UnsupportedDigestAlgorithm", "EmptyBundle", "DuplicatePath",
               "EntryPointMissing"}

TypeOK ==
  /\ pc \in {"make", "unmade", "parse", "limits", "parts", "new", "compare", "done"}
  /\ error \in JsonErrors \cup LimitErrors \cup DataErrors \cup {Ok}
  /\ (error # Ok) => pc \in {"unmade", "done"} /\ manifest = NoManifest
  /\ (pc \in {"make", "unmade"}) => text = Encode(draft)

Accepted == pc = "done" /\ error = Ok
Read(t) == {t.files[i] : i \in DOMAIN t.files}

\* The sizes within l, said without an order.
Within(files, l) ==
  /\ Len(files) <= l.files /\ \A i \in DOMAIN files : files[i].size <= l.file
  /\ Expanded(files, Len(files)) <= l.expanded

\* A text is accepted when, and only when, it is the one canonical text of a
\* well-formed manifest within the limits of the host and of the format (so
\* there are never two texts, and two subjects, for one manifest), and then it
\* is accepted as what it says.
AcceptsExactly ==
  /\ Accepted => manifest = [entry |-> text.entry, files |-> text.files]
  /\ pc = "done" =>
    (error = Ok <=>
       /\ text.layout = "canonical" /\ TextBytes(text) <= MaxText
       /\ text.format = "v1" /\ text.algorithm = "sha256"
       /\ text.files # <<>> /\ Within(text.files, limits) /\ Within(text.files, V1)
       /\ text.entry \in {f.path : f \in Read(text)}
       /\ \A f \in Read(text) : f.path # NoPath /\ f.hex
       /\ \A i, j \in DOMAIN text.files : i < j => text.files[i].path < text.files[j].path)

\* The limits come before the contents (bundle-format-v1.md: "checks file-count
\* and byte limits before constructing the validated aggregate"): a text is
\* called wrong in its data, or put together, only when it is within them.
LimitsComeFirst ==
  pc # "unmade" /\ (error \in DataErrors \/ pc \in {"parts", "new", "compare"}) =>
    Within(text.files, limits)

\* What a maker's draft became is read back as it was meant, wherever the host
\* did not ask for less and the text is not too long to be looked at.
MadeIsReadBack ==
  pc = "done" /\ draft # NoDraft /\ Within(draft.files, limits) /\ TextBytes(text) <= MaxText =>
    /\ error = Ok /\ manifest.entry = draft.entry
    /\ Read(manifest) = Read(draft) /\ Len(manifest.files) = Len(draft.files)

\* The reader's manifests are the canonical texts within the limits, and the
\* maker's are among them.
ReadsExactly == TypeOK /\ AcceptsExactly /\ LimitsComeFirst /\ MadeIsReadBack
=============================================================================
