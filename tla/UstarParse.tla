----------------------------- MODULE UstarParse -----------------------------
(***************************************************************************)
(* UstarCandidateSource (crates/invokrum-acquisition-archive/src/lib.rs):  *)
(* the candidate files of a bundle are read from an uncompressed ustar     *)
(* archive, block by block, against the tree its manifest declares.        *)
(*                                                                         *)
(* A size is counted in half blocks, so that a file may end inside its     *)
(* last block, and a path is the sequence of its components. A block is    *)
(* all zero, or zero in its second half only, or neither; it also has what *)
(* parse_header would make of it, wherever it stands: payload may look     *)
(* like a header and a header may stand where payload is due.              *)
(***************************************************************************)
EXTENDS Integers, Sequences, FiniteSets, EarlyReturn

CONSTANTS
  Is,            \* the block of every name: [fill, header]
  Archives,      \* what a caller may supply: [blocks (names), whole, packed]
  Manifests,     \* sets of declared file paths
  Lower(_),      \* to_ascii_lowercase of a path
  MaxBlocks,     \* MAX_USTAR_ARCHIVE_BYTES
  MaxEntries,    \* ParserLimits::entries
  MaxMetadata,   \* ParserLimits::metadata_bytes, in blocks
  MaxExpanded,   \* ParserLimits::expanded_bytes, in half blocks
  MaxNesting,    \* ParserLimits::nesting
  MaxFile        \* MAX_BUNDLE_FILE_BYTES, in half blocks

\* How the limits hang together.
LimitsAssumption ==
  /\ {MaxBlocks, MaxEntries, MaxMetadata, MaxExpanded, MaxNesting, MaxFile} \subseteq Nat
  /\ MaxMetadata = MaxEntries + 2
  /\ MaxBlocks = MaxMetadata + (MaxExpanded + MaxEntries) \div 2

VARIABLES
  archive, declared,
  cursor,        \* blocks consumed
  entries, keys, expanded,
  candidates,    \* the files found: their path and the half blocks they cover
  verdict

vars == <<archive, declared, cursor, entries, keys, expanded, candidates, verdict>>

Fresh    == "supplied"
Reading  == "reading"
Accepted == "accepted"
Refusals ==
  {"ArchiveTooLarge", "CompressedArchiveUnsupported", "TruncatedArchive", "TrailingData",
   "MalformedHeader", "HeaderChecksumMismatch", "UnsupportedArchiveFormat",
   "UnsupportedMetadata", "UnsupportedEntryType", "InvalidEntryName",
   "LogicalPathCollision", "UndeclaredEntry", "MissingDeclaredFile", "FileTooLarge",
   "TooManyEntries", "MetadataLimitExceeded", "NestingLimitExceeded",
   "ExpandedBytesLimitExceeded"}
-----------------------------------------------------------------------------
(* Blocks, headers and the declared tree.                                  *)

NoSize == -1    \* an empty size field
NoPath == <<>>  \* a name that is empty or that BundlePath refuses

\* USTAR_BLOCK_BYTES: how many blocks hold so many half blocks.
Blocks(size) == (size + 1) \div 2

\* parse_header, its checks in the order of the code. `odd` says where a field
\* holds what the profile has no use for: "numbers" are reserved bytes, or text
\* where digits are due; "links" are a device, an owner or a link name; "name" is
\* text that is not printable.
HeaderRefusal(h) ==
  FirstOf(<<
    When(h.checksum = "text", "UnsupportedMetadata"),
    When(h.checksum = "empty", "MalformedHeader"),
    When(h.checksum = "wrong", "HeaderChecksumMismatch"),
    When(~h.ustar, "UnsupportedArchiveFormat"),
    When(h.odd = "numbers", "UnsupportedMetadata"),
    When(h.size = NoSize, "MalformedHeader"),
    When(h.odd = "links", "UnsupportedMetadata"),
    When(h.type \in {"x", "g", "L", "K"}, "UnsupportedMetadata"),
    When(h.type \notin {"file", "directory"}, "UnsupportedEntryType"),
    When(h.odd = "name", "UnsupportedMetadata"),
    When(h.path = NoPath, "InvalidEntryName"),
    When(h.slash /\ h.type = "file", "InvalidEntryName")>>)

Directories(files) == UNION {{SubSeq(p, 1, n) : n \in 1 .. Len(p) - 1} : p \in files}

\* ensure_portable_logical_tree
PortableTree(files) ==
  LET dirs == Directories(files)
  IN /\ files \cap dirs = {}
     /\ \A p, q \in files \cup dirs : Lower(p) = Lower(q) => p = q

\* ExpectedTree::contains
Expects(h) == h.path \in IF h.type = "file" THEN declared ELSE Directories(declared)

Length   == Len(archive.blocks)
At(i)    == Is[archive.blocks[i]]
Header   == At(cursor + 1).header
IsZero(i) == At(i).fill = "zero"
-----------------------------------------------------------------------------
Init ==
  /\ archive \in Archives
  /\ declared \in Manifests
  /\ cursor = 0 /\ entries = 0 /\ keys = {} /\ expanded = 0 /\ candidates = {}
  /\ verdict = Fresh

\* UstarCandidateSource::new, and what parse_ustar checks before its loop.
OpenRefusal ==
  FirstOf(<<
    When(archive.packed /\ ~(Length > 0 /\ HeaderRefusal(At(1).header) = Ok),
         "CompressedArchiveUnsupported"),
    When(Length > MaxBlocks \/ (Length = MaxBlocks /\ ~archive.whole), "ArchiveTooLarge"),
    When(Length < 2 \/ ~archive.whole, "TruncatedArchive"),
    When(~PortableTree(declared), "LogicalPathCollision")>>)

Open ==
  /\ verdict = Fresh
  /\ verdict' = IF OpenRefusal = Ok THEN Reading ELSE OpenRefusal
  /\ UNCHANGED <<archive, declared, cursor, entries, keys, expanded, candidates>>

Entry == verdict = Reading /\ cursor < Length /\ ~IsZero(cursor + 1)

\* What ends the loop for one entry, up to what its kind decides.
EntryRefusal ==
  FirstOf(<<
    When(entries >= MaxEntries, "TooManyEntries"),
    When(entries + 1 > MaxMetadata, "MetadataLimitExceeded"),
    When(HeaderRefusal(Header) # Ok, HeaderRefusal(Header)),
    When(Len(Header.path) - 1 > MaxNesting, "NestingLimitExceeded"),
    When(Lower(Header.path) \in keys, "LogicalPathCollision"),
    When(~Expects(Header), "UndeclaredEntry")>>)

\* The last block of the payload.
Padded == cursor + 1 + Blocks(Header.size)

\* Mutant: what follows the payload is not looked at.
PaddingIsZeroOrNot == TRUE

\* Is what follows the payload in its last block zero?
PaddingIsZero ==
  Header.size % 2 = 1 => At(Padded).fill \in {"zero", "half"}

FileRefusal ==
  FirstOf(<<
    When(Header.size > MaxFile, "FileTooLarge"),
    When(expanded + Header.size > MaxExpanded, "ExpandedBytesLimitExceeded"),
    When(Padded > Length, "TruncatedArchive")>>)

PayloadRefusal ==
  CASE Header.type = "directory" -> IF Header.size = 0 THEN Ok ELSE "UnsupportedMetadata"
    [] FileRefusal # Ok          -> FileRefusal
    [] OTHER                     -> IF PaddingIsZero THEN Ok ELSE "UnsupportedMetadata"

Refusal == IF EntryRefusal # Ok THEN EntryRefusal ELSE PayloadRefusal

Refuse ==
  /\ Entry /\ Refusal # Ok
  /\ verdict' = Refusal
  /\ UNCHANGED <<archive, declared, cursor, entries, keys, expanded, candidates>>

Observe ==
  /\ Entry /\ Refusal = Ok
  /\ entries' = entries + 1
  /\ keys' = keys \cup {Lower(Header.path)}

ReadDirectory ==
  /\ Observe
  /\ Header.type = "directory"
  /\ cursor' = cursor + 1
  /\ UNCHANGED <<archive, declared, expanded, candidates, verdict>>

ReadFile ==
  /\ Observe
  /\ Header.type = "file"
  /\ expanded' = expanded + Header.size
  /\ candidates' = candidates \cup
       {[path |-> Header.path, first |-> 2 * (cursor + 1), size |-> Header.size]}
  /\ cursor' = Padded
  /\ UNCHANGED <<archive, declared, verdict>>

\* The archive ends here: archive_terminated, ensure_all_declared_files_observed.
TerminationRefusal ==
  FirstOf(<<
    When(cursor + 1 >= Length, "TruncatedArchive"),
    When(cursor + 1 < Length /\ ~IsZero(cursor + 2), "MalformedHeader"),
    When(entries + 2 > MaxMetadata, "MetadataLimitExceeded"),
    When(\E i \in cursor + 1 .. Length : ~IsZero(i), "TrailingData"),
    When(declared # {c.path : c \in candidates}, "MissingDeclaredFile")>>)

Terminate ==
  /\ verdict = Reading
  /\ cursor < Length => IsZero(cursor + 1)
  /\ verdict' = IF TerminationRefusal = Ok THEN Accepted ELSE TerminationRefusal
  /\ UNCHANGED <<archive, declared, cursor, entries, keys, expanded, candidates>>

Next == Open \/ Refuse \/ ReadDirectory \/ ReadFile \/ Terminate

Spec == Init /\ [][Next]_vars
-----------------------------------------------------------------------------
(* The format once more, as a relation between an archive and a tree.      *)

CleanHeader(h) ==
  /\ h.checksum = "right" /\ h.ustar /\ h.odd = "none" /\ h.path # NoPath
  /\ Len(h.path) <= MaxNesting + 1
  /\ \/ h.type = "file" /\ ~h.slash /\ h.size \in 0 .. MaxFile
     \/ h.type = "directory" /\ h.size = 0

\* The entries of a well-formed archive are a set of header blocks: with their
\* payload they cover all of it up to two or more zero blocks, no two of them
\* overlap or have one path, and they are the given files and some of the given
\* directories. Nothing here limits metadata, or the length of an archive that
\* ends with its second zero block.
WellFormed(files, directories) ==
  LET head(i)  == At(i).header
      heads    == {i \in 1 .. Length : At(i).fill = "head" /\ CleanHeader(head(i))}
      last(i)  == i + ((head(i).size + 1) \div 2)
      size(S)  == LET sum[n \in 0 .. Length] ==
                        IF n = 0 THEN 0
                        ELSE sum[n - 1] + (IF n \in S THEN head(n).size ELSE 0)
                  IN sum[Length]
      paths(S, type) == {head(i).path : i \in {j \in S : head(j).type = type}}
  IN /\ archive.whole
     /\ \E S \in SUBSET heads :
          /\ paths(S, "file") = files /\ paths(S, "directory") \subseteq directories
          /\ Cardinality(S) <= MaxEntries /\ size(S) <= MaxExpanded
          /\ \A i, j \in S : i < j => last(i) < j /\ Lower(head(i).path) # Lower(head(j).path)
          /\ \E end \in 0 .. Length - 2 :
               /\ UNION {i .. last(i) : i \in S} = 1 .. end
               /\ \A i \in end + 1 .. Length : IsZero(i)
               /\ \A i \in S : head(i).size % 2 = 1 => At(last(i)).fill \in {"zero", "half"}
               /\ end = Length - 2 \/ Length <= MaxBlocks

TypeOK ==
  /\ declared \in Manifests
  /\ cursor \in 0 .. Length /\ entries \in 0 .. MaxEntries /\ expanded \in 0 .. MaxExpanded
  /\ \A c \in candidates : c.path \in declared /\ c.first + c.size <= 2 * Length
  /\ verdict \in Refusals \cup {Fresh, Reading, Accepted}

Whole == WellFormed(declared, Directories(declared))
Part  == \E files \in (SUBSET declared) \ {declared} : WellFormed(files, Directories(declared))
Done  == verdict \notin {Fresh, Reading}

\* What the parser accepts is what is well formed, no more and no less: no
\* damage to one block gets past it, and neither the limit on metadata nor the
\* limit on the archive's length ever costs an archive that is within the
\* others (parse_ustar, and the limits at the head of the file).
AcceptsExactly == Done => (verdict = Accepted <=> PortableTree(declared) /\ Whole)

\* The candidates handed on are the declared files, each once, and the bytes of
\* each are those between its own header and the next one: no payload takes in
\* a header, padding, or what belongs to another file.
PayloadsAreApart ==
  verdict = Accepted =>
    /\ Cardinality(candidates) = Cardinality(declared)
    /\ {c.path : c \in candidates} = declared
    /\ \A c, d \in candidates :
         /\ c.first % 2 = 0 /\ c.first > 0 /\ At(c.first \div 2).header.path = c.path
         /\ c.path # d.path => c.first + c.size < d.first \/ d.first + d.size < c.first

\* An archive is refused for a missing file when it is the well-formed archive
\* of a part of the tree and for no other reason, so that whoever reads the
\* error can trust the rest of the archive (ensure_all_declared_files_observed
\* comes after everything else).
MissingIsAllThatIsWrong ==
  Done => (verdict = "MissingDeclaredFile" <=> PortableTree(declared) /\ Part /\ ~Whole)

\* The parser reads the format: it accepts what is well formed, takes each file
\* from where it is, and says "missing" of nothing worse.
ParsesExactly == TypeOK /\ AcceptsExactly /\ PayloadsAreApart /\ MissingIsAllThatIsWrong
=============================================================================
