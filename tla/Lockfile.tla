------------------------------ MODULE Lockfile ------------------------------
(***************************************************************************)
(* Lock files over their life: written by `lock`, edited by hand, verified *)
(* against a pack that has moved on, compared with one another             *)
(* (crates/invokrum-integrity/src/lockfile.rs and canonical.rs, and the    *)
(* lock, verify and diff commands of crates/invokrum-cli/src/command.rs).  *)
(*                                                                         *)
(* A digest is <<what it is a digest of, its material>>: SHA-256 tells     *)
(* materials apart and canonical JSON is one text for one value. NotHex is *)
(* what valid_sha256 refuses. Contents are sequences of pieces, "nn" being *)
(* two line feeds, so that different contents may render alike.            *)
(***************************************************************************)
EXTENDS Naturals, Sequences, FiniteSets, EarlyReturn

CONSTANTS
  Starts,           \* [pack, files]: what a history begins with
  Packs,            \* [id, schema, picks, at, rest]: picks of a profile, where an overlay is, the rest
  Profiles,         \* the profiles every pack has
  Sources, Contents,
  Slots,            \* the lock files
  PathBytes(_), MaxLockBytes,  \* what a source path takes in a lock, MAX_LOCKFILE_BYTES
  MaxMoves          \* edits of packs, sources and locks (bound of the model)

\* What is assumed of the constants: profiles pick overlays that are somewhere, and
\* have names that name one.
LockfileAssumption ==
  /\ "no identifier" \notin Profiles
  /\ \A p \in Packs \cup {start.pack : start \in Starts} :
       \A profile \in Profiles : p.picks[profile] \in Seq(DOMAIN p.at)

VARIABLES
  pack, files,      \* the pack and what its sources hold, now
  locks,            \* the text of each lock file, NoText when there is none
  truth,            \* what a lock was made from, Edited when it was touched since (ghost)
  moves,
  opened,           \* verify: the lock it decoded and where, before it composes
  did               \* the last command and what came of it

vars == <<pack, files, locks, truth, moves, opened, did>>

NoText == [layout |-> "absent"]
Edited == [made |-> FALSE]
Idle == [cmd |-> "none", result |-> Ok]
-----------------------------------------------------------------------------
(* Composition, as Composition.tla has it, for a pack that composes.       *)

Segments(p, profile, held) ==
  [i \in DOMAIN p.picks[profile] |->
     [id |-> p.picks[profile][i], source |-> p.at[p.picks[profile][i]],
      bytes |-> held[p.at[p.picks[profile][i]]]]]

Rendered(segments) ==
  LET join[n \in 0 .. Len(segments)] ==
        IF n = 0 THEN <<>>
        ELSE IF n = 1 THEN segments[1].bytes
        ELSE join[n - 1] \o <<"nn">> \o segments[n].bytes
  IN join[Len(segments)]

Digest(of, material) == <<of, material>>
NotHex == <<"not hexadecimal">>

InputsDigest(packDigest, profileDigest, overlays) ==
  Digest("inputs", [pack |-> packDigest, profile |-> profileDigest, overlays |-> overlays])
ManifestDigest(manifest) == Digest("manifest", manifest)

LockedOverlay(segment) ==
  [id |-> segment.id, source |-> segment.source, length |-> Len(segment.bytes),
   digest |-> Digest("bytes", segment.bytes)]

\* Mutant: what is not about the overlays is left out of the pack.
PackDigestOfOverlays(p) == Digest("pack", [id |-> p.id, schema |-> p.schema, at |-> p.at])

\* The canonical JSON of the whole pack: profiles that are not selected, too.
PackDigest(p) == Digest("pack", p)

\* build_lockfile, the manifest: pack and profile by their canonical JSON, each
\* overlay and the rendered context by their bytes.
BuildManifest(p, profile, held) ==
  LET segments == Segments(p, profile, held)
      packDigest == PackDigest(p)
      profileDigest == Digest("profile", <<profile, p.picks[profile]>>)
      overlays == [i \in DOMAIN segments |-> LockedOverlay(segments[i])]
  IN [inputs   |-> InputsDigest(packDigest, profileDigest, overlays),
      pack     |-> [id |-> p.id, schema |-> p.schema, digest |-> packDigest],
      profile  |-> [id |-> profile, digest |-> profileDigest],
      overlays |-> overlays,
      output   |-> [length |-> Len(Rendered(segments)),
                    digest |-> Digest("bytes", Rendered(segments))]]

Seal(manifest) == [format |-> "v1", manifest |-> manifest, digest |-> ManifestDigest(manifest)]
Build(p, profile, held) == Seal(BuildManifest(p, profile, held))

LockBytes(lock) ==
  LET o == lock.manifest.overlays
      sum[n \in 0 .. Len(o)] == IF n = 0 THEN 0 ELSE sum[n - 1] + PathBytes(o[n].source)
  IN sum[Len(o)]

\* ensure_encoded_size, before a lock is given out.
EncodedTooLarge(lock) == LockBytes(lock) > MaxLockBytes

Digests(lock) ==
  {lock.digest, lock.manifest.inputs, lock.manifest.pack.digest, lock.manifest.profile.digest,
   lock.manifest.output.digest}
  \cup {lock.manifest.overlays[i].digest : i \in DOMAIN lock.manifest.overlays}

\* Mutant: the inner digest is left to the outer one.
ValidateOuter(lock) ==
  FirstOf(<<
    When(lock.format # "v1", "UnsupportedFormat"),
    When(lock.manifest.profile.id = "no identifier", "InvalidIdentity"),
    When(NotHex \in Digests(lock), "InvalidDigest"),
    When(lock.digest # ManifestDigest(lock.manifest), "LockfileIntegrityMismatch")>>)

\* validate_lockfile. (The overlays are at most the 256 a composition may have.)
Validate(lock) ==
  FirstOf(<<
    When(lock.format # "v1", "UnsupportedFormat"),
    When(lock.manifest.profile.id = "no identifier", "InvalidIdentity"),
    When(NotHex \in Digests(lock), "InvalidDigest"),
    When(lock.manifest.inputs # InputsDigest(lock.manifest.pack.digest,
                                  lock.manifest.profile.digest, lock.manifest.overlays),
         "LockfileIntegrityMismatch"),
    When(lock.digest # ManifestDigest(lock.manifest), "LockfileIntegrityMismatch")>>)

\* decode_lockfile: why it refuses a text, Ok when it does not.
DecodeRefusal(text) ==
  IF text.layout = "too large" \/ LockBytes(text.lock) > MaxLockBytes THEN "LockfileTooLarge"
  ELSE IF text.layout = "malformed" THEN "Decode"
  ELSE IF Validate(text.lock) # Ok THEN Validate(text.lock)
  ELSE IF text.layout # "canonical" THEN "NonCanonicalEncoding"
  ELSE Ok

SameOverlaySet(left, right) ==
  /\ Len(left) = Len(right)
  /\ \A i \in DOMAIN left : left[i].id = right[i].id /\ left[i].source = right[i].source

ContentDrifts(left, right) ==
  {<<"OverlayContent", i>> : i \in {j \in DOMAIN left :
     left[j].length # right[j].length \/ left[j].digest # right[j].digest}}

\* verify_with: what of the current pack is not as the lock has it.
Drifts(expected, current) ==
  LET e == expected.manifest  c == current.manifest
  IN (IF e.pack # c.pack THEN {<<"PackMetadata">>} ELSE {})
     \cup (IF e.profile # c.profile THEN {<<"ProfileSelection">>} ELSE {})
     \cup (IF SameOverlaySet(e.overlays, c.overlays) THEN ContentDrifts(e.overlays, c.overlays)
           ELSE {<<"OverlaySet">>})
     \cup (IF e.output # c.output THEN {<<"RenderedOutput">>} ELSE {})

\* compare_locks of the diff command, a comparison of its own.
CompareLocks(baseline, candidate) ==
  LET b == baseline.manifest  c == candidate.manifest
      unless(same, difference) == IF same THEN {} ELSE {<<difference>>}
  IN unless(b.pack = c.pack, "PackMetadata")
     \cup unless(b.profile = c.profile, "ProfileSelection")
     \cup (IF SameOverlaySet(b.overlays, c.overlays) THEN ContentDrifts(b.overlays, c.overlays)
           ELSE {<<"OverlaySet">>})
     \cup unless(b.output = c.output, "RenderedOutput")
-----------------------------------------------------------------------------
World == [made |-> TRUE, pack |-> pack, files |-> files]

Init ==
  /\ \E start \in Starts : pack = start.pack /\ files = start.files
  /\ locks = [s \in Slots |-> NoText] /\ truth = [s \in Slots |-> Edited]
  /\ moves = 0 /\ opened = NoText /\ did = Idle

\* The `lock` command into a lock file (with --force when it is there).
Lock(slot, profile) ==
  /\ opened = NoText /\ moves < MaxMoves /\ moves' = moves + 1
  /\ LET lock == Build(pack, profile, files)
     IN IF EncodedTooLarge(lock)
        THEN did' = [cmd |-> "lock", result |-> "LockfileTooLarge"] /\ UNCHANGED <<locks, truth>>
        ELSE /\ did' = [cmd |-> "lock", result |-> Validate(lock)]
             /\ locks' = [locks EXCEPT ![slot] = [layout |-> "canonical", lock |-> lock]]
             /\ truth' = [truth EXCEPT ![slot] = World]
  /\ UNCHANGED <<pack, files, opened>>

\* Verify, the first half: the lock file is read and decoded.
VerifyOpen(slot) ==
  /\ opened = NoText /\ locks[slot] # NoText
  /\ LET refusal == DecodeRefusal(locks[slot])
     IN IF refusal # Ok
        THEN /\ did' = [cmd |-> "verify", result |-> refusal, text |-> locks[slot],
                        truth |-> truth[slot]]
             /\ UNCHANGED opened
        ELSE /\ opened' = [layout |-> "opened", text |-> locks[slot], truth |-> truth[slot]]
             /\ UNCHANGED did
  /\ UNCHANGED <<pack, files, locks, truth, moves>>

\* ... and the second: pack and sources as they are by now, of the profile that
\* the command names.
VerifyCompose(profile) ==
  /\ opened # NoText /\ opened' = NoText
  /\ LET current == Build(pack, profile, files)
         refusal == IF EncodedTooLarge(current) THEN "LockfileTooLarge" ELSE Ok
     IN did' = [cmd |-> "verify", result |-> refusal, text |-> opened.text,
                truth |-> opened.truth, current |-> current, world |-> World,
                profile |-> profile, drifts |-> Drifts(opened.text.lock, current)]
  /\ UNCHANGED <<pack, files, locks, truth, moves>>

\* The `diff` command.
Diff(baseline, candidate) ==
  /\ opened = NoText /\ NoText \notin {locks[baseline], locks[candidate]}
  /\ LET refusal == IF DecodeRefusal(locks[baseline]) # Ok THEN DecodeRefusal(locks[baseline])
                    ELSE DecodeRefusal(locks[candidate])
     IN did' = [cmd |-> "diff", result |-> refusal, left |-> locks[baseline],
                right |-> locks[candidate],
                drifts |-> IF refusal # Ok THEN {}
                           ELSE CompareLocks(locks[baseline].lock, locks[candidate].lock)]
  /\ UNCHANGED <<pack, files, locks, truth, moves, opened>>

\* The pack, or one of its sources, is edited.
EditPack ==
  /\ moves < MaxMoves /\ moves' = moves + 1
  /\ \/ pack' \in Packs \ {pack} /\ UNCHANGED files
     \/ \E s \in Sources : \E c \in Contents \ {files[s]} : files' = [files EXCEPT ![s] = c]
        /\ UNCHANGED pack
  /\ UNCHANGED <<locks, truth, opened, did>>

\* What an edit by hand may make of a lock: a changed field, as it is or with
\* the digests over it made good again.
Tampered(lock) ==
  LET m == lock.manifest
      bare == {[m EXCEPT !.output.digest = Digest("bytes", <<"x">>)],
               [m EXCEPT !.pack.digest = NotHex],
               [m EXCEPT !.profile.id = "no identifier"],
               [m EXCEPT !.inputs = Digest("inputs", [m EXCEPT !.inputs = NotHex])]}
              \cup {[m EXCEPT !.overlays[i].digest = Digest("bytes", <<"x">>)] : i \in DOMAIN m.overlays}
      good(x) == [x EXCEPT !.inputs = InputsDigest(x.pack.digest, x.profile.digest, x.overlays)]
  IN {[lock EXCEPT !.manifest = x] : x \in bare} \cup {Seal(x) : x \in bare}
     \cup {Seal(good(x)) : x \in bare} \cup {[lock EXCEPT !.format = "v0"]}

EditLock(slot) ==
  /\ moves < MaxMoves /\ moves' = moves + 1
  /\ locks[slot].layout = "canonical"
  /\ \/ \E layout \in {"spaced", "malformed", "too large"} :
          locks' = [locks EXCEPT ![slot].layout = layout]
     \/ \E lock \in Tampered(locks[slot].lock) : locks' = [locks EXCEPT ![slot].lock = lock]
  /\ truth' = [truth EXCEPT ![slot] = Edited]
  /\ UNCHANGED <<pack, files, opened, did>>

Next ==
  \/ \E slot \in Slots : VerifyOpen(slot) \/ EditLock(slot)
                         \/ \E profile \in Profiles : Lock(slot, profile)
  \/ \E profile \in Profiles : VerifyCompose(profile)
  \/ \E baseline, candidate \in Slots : Diff(baseline, candidate)
  \/ EditPack

Spec == Init /\ [][Next]_vars
-----------------------------------------------------------------------------
Errors == {"LockfileTooLarge", "Decode", "NonCanonicalEncoding", "UnsupportedFormat",
           "InvalidIdentity", "InvalidDigest", "LockfileIntegrityMismatch"}

TypeOK ==
  /\ did.cmd \in {"none", "lock", "verify", "diff"} /\ did.result \in Errors \cup {Ok}
  /\ did.cmd = "lock" => did.result \in {Ok, "LockfileTooLarge"}
  /\ \A slot \in Slots : truth[slot].made => locks[slot].layout = "canonical"
  /\ opened # NoText => opened.text.layout = "canonical"

Verified == did.cmd = "verify" /\ did.result = Ok
Made == did.cmd = "verify" /\ did.truth.made

\* A lock file that `lock` wrote and nobody touched is decoded, whatever has
\* become of the pack: no size, name or digest that is written is refused.
MadeLocksDecode ==
  Made => did.result = Ok \/ (did.result = "LockfileTooLarge" /\ "current" \in DOMAIN did)

\* Verification says "verified" exactly when pack and profile are those that were
\* locked and every selected source holds, byte for byte, what it held then; what
\* is not selected does not matter.
VerifiedIsUnchanged ==
  Verified /\ Made =>
    (did.drifts = {} <=>
       /\ did.world.pack = did.truth.pack
       /\ did.profile = did.text.lock.manifest.profile.id
       /\ \A i \in DOMAIN did.world.pack.picks[did.profile] :
            LET s == did.world.pack.at[did.world.pack.picks[did.profile][i]]
            IN did.world.files[s] = did.truth.files[s])

\* The rendered output never drifts alone: some input of it is named as well.
\* (The converse fails: two contents may render alike, and still they drift.)
OutputNeverAlone ==
  Verified /\ Made => did.drifts # {<<"RenderedOutput">>}

\* The two comparisons agree: diff of the lock against a lock made now would say
\* what verify says.
DiffIsVerify ==
  Verified => did.drifts = CompareLocks(did.text.lock, did.current)

\* "Identical" is said of identical locks only, edited ones included: what the
\* comparison leaves out, validation ties to what it compares.
IdenticalIsEqual ==
  did.cmd = "diff" /\ did.result = Ok => (did.drifts = {} <=> did.left = did.right)

\* What a lock says can be relied on: `lock` writes nothing that `verify` refuses,
\* and `verify` says "verified" of nothing that has changed.
LocksAreTrue == TypeOK /\ MadeLocksDecode /\ VerifiedIsUnchanged /\ OutputNeverAlone

\* The two commands that compare locks compare alike, and all of a lock.
ComparesExactly == DiffIsVerify /\ IdenticalIsEqual
=============================================================================
