# Formal models of Invokrum

TLA+ models of the Rust workspace under `src/`, model-checked with TLC and, for
their central safety properties, proved with TLAPS. `PROJECT.json` lists the runs, the
theorems, the source lines each definition stands for and the mutated
definitions every property is known to reject.

## The system

Invokrum composes governed context packs (YAML packs and Markdown overlays) into
one deterministic text, locks and verifies the result, and installs signed
bundles of packs into a content-addressed store. Most crates are pure and
sequential. The state that outlives a call, and that several processes share, is
on the file system: the installation store and the output files of the CLI.

| Part (crate) | State it keeps | Operations | Talks to | What makes it correct |
|---|---|---|---|---|
| `invokrum-install-linux` | `.locks/`, `.staging/`, `sha256/` below a store root | open, install, install authenticated | the acquisition crates to reverify what it wrote; other installer processes through the file system | only complete trees under `sha256/`; published trees never change; receipts are true; leftovers never corrupt and seldom block |
| `invokrum-cli` output (`output.rs`) | the output file, a temporary beside it | write atomically, with or without `--force` | other invocations through the directory | the target is whole or absent, never replaced without `--force`, no litter |
| `invokrum-install` | none | install candidate, install authenticated candidate, authorize publisher | acquisition, verifier, store through traits | nothing reaches the store unverified or unauthorized |
| `invokrum-acquisition` | none | verify candidate against manifest | called by install and by the store | reports exactly the missing, unexpected, duplicate or altered files |
| `invokrum-acquisition-linux` | open descriptors during a load | load, read exact, rechecks | file system under a possibly concurrent writer | what it returns was one version of each file, inside the root |
| `invokrum-acquisition-archive` | a cursor into an archive | parse ustar blocks | called for archive installs | every accepted archive is within its limits, none is read past its end |
| `invokrum-distribution`, `-json` | none | build and parse bundle manifests | everywhere | paths are safe, unique and ordered; limits hold; the encoding is canonical |
| `invokrum-install-delivery` | key policy, store root | execute an install request | everything above | same errors in the same order; the root is private |
| `invokrum-core` | none | pack model, composition | schema, integrity, CLI | selection honours required classes, conflicts and limits, and is deterministic |
| `invokrum-integrity` | none | generate, verify, diff lockfiles | CLI | verification and diff agree; drift is classified once |
| `invokrum-schema` | parser counters | strict YAML to model | core | limits hold for every document |
| `invokrum-fs` | open descriptors | load pack sources | core | bounded reads below the root |
| `invokrum-cli` RPC (`rpc.rs`), `invokrum-host` | none | one JSON request per process, on stdin | core, integrity | one bounded answer per request, the same as the command line's |
| `invokrum-cli` commands, `invokrum-verifier-ed25519`, `invokrum-digest`, scripts | none | wiring, one signature check, SHA-256, tooling | | arguments are read as the usage says; exit codes tell what happened |

Hard behaviours are listed with their lines under `hazards` in `PROJECT.json`:
installers racing for one subject, locks that outlive their holder, fixed
quarantine names, errors after the commit point, power loss around a rename,
reads of files that are being written, and the edges of the parsers' limits.

## Modules and what is left

| Module | Models | Shows |
|---|---|---|
| `InstallStore`, `ContentStore`, `InstallStoreProofs` | the installation store and what it promises | below, with proofs |
| `AtomicOutput`, `OutputSlot`, `AtomicOutputProofs` | `output.rs` under concurrent invocations | below, with proofs |
| `InstallDelivery`, `InstallDeliveryProofs` | `invokrum install` from its input files to its result: delivery, workflow, verifier and the store as `ContentStore` | only verified and authorized bundles are stored, with the provenance asked for; proved |
| `StoreRoot`, `StoreRootProofs` | how the store's root and directories come to be, concurrently | losers fail cleanly, retries succeed, nothing is ever open to others; all but the retries proved |
| `PublisherTrust` | identities, rules, their evaluation | authorized exactly when one rule is met; proved in `VerifyCandidateProofs` |
| `StableRead` | one file read while others change it (candidate and pack source) | what is returned is what the file held at one moment, and the file had been at the path; proved in `CandidateTreeProofs` |
| `CandidateTree`, `CandidateTreeProofs` | the inspection of a candidate directory while others change it | listings are of one moment, directories stay, strangers are seen, an untouched tree is judged for what it is; proved |
| `UstarParse` | the block walk over an archive | accepts exactly the well-formed archives |
| `VerifyCandidate`, `VerifyCandidateProofs` | the merge of candidate and manifest | agrees with a definition on sets, error included; proved |
| `BundleManifest` | making, encoding and reading a manifest | one text per manifest; limits first |
| `PackSchema`, `PackEvents` | reading a pack document, and its normalized text | what is wrong is told in the documented order, nothing is lost |
| `Composition` | pack validation and composition | exact acceptance, declared order, exact context; proved in `PacksAndLocksProofs` |
| `Lockfile` | locks over a history of edits | verified means unchanged; diff says what verify says; proved in `PacksAndLocksProofs` |
| `PackCommands`, `PackCommandsProofs` | the commands and the host protocol side by side | evidence of one reading, exit codes, one response; proved |
| `CommandLine` | argument lists, dispatch, buffered output, exit codes | a run is exactly what the usage allows; only the rest of raw output may be lost unnoticed |
| `EarlyReturn` | helper: a chain of checks that return early | |

`MC...` modules hold the instances for TLC. Components that share no state but
are of one kind are checked in one run as alternatives: a
variable `part`, fixed in the initial state, says which of them moves, and the others
rest in an initial state of their own. This neither adds nor hides a behaviour of any
of them, and each conjunct of a property speaks of one component only (and says which
`part` it is about, where a liveness property would fail of a component at rest; in
`Making` a store at rest is an unsafe one, of which `OpensInTheEnd` claims nothing).

| Run | Module | Instances | Distinct states |
|---|---|---|---|
| `InstallStoreSafety`, `InstallStoreBrokenLocks`, `InstallStoreProgress` | `MCInstallStore` | `InstallStore` | 189,347, 897,681, 78,537 |
| `AtomicOutput` | `MCAtomicOutput` | `AtomicOutput` | 210,448 |
| `Install` | `MCInstall` | `InstallDelivery` | 312,082 |
| `Making` | `MCMaking` | `StoreRoot`, `AtomicOutput` | 236,875 |
| `LocalRead` | `MCLocalRead` | `LocalReads`: `CandidateTree`, `StableRead` | 451,100 |
| `Bundle` | `MCBundle` | `UstarParse`, `BundleManifest`, `BundleChecks`: `VerifyCandidate`, `PublisherTrust` | 523,131 |
| `Packs` | `MCPacks` | `PackSchema`, `PacksAndLocks`: `Composition`, `Lockfile` | 722,598 |
| `Commands`, `ResponseSchema`, `StdoutFailure` | `MCCommands` | `CommandLine`, `PackCommands` | 1,527,441 |

TLC's coverage shows every action and every branch of these modules taken, except
the `MissingOverlay` of `compose`, which a validated pack cannot cause (`ComposesExact` proves it).

A property that a run checks is often a conjunction of named parts, each with its
own comment in the module, that together say one thing of the component: for
example `AnswersAreTrue` of `InstallStore` is `NoSpuriousRefusal`, `MismatchIsProvenance`,
`OneFreshReceipt` and `ReceiptsAgree`. Where a type invariant is not a theorem it is
one of the parts.

The modules are joined where the code
is: `InstallDelivery` uses the store through `ContentStore`, which `InstallStore`
refines; `CandidateTree` uses `StableRead`'s promise for a file; `InstallDelivery`
takes verification of a candidate as `VerifyCandidate` shows it and authorization
as `PublisherTrust` does; `PackSchema` hands on what `Composition` begins
with; `PackCommands` takes composition and locks as
`Composition` and `Lockfile` have them, and `CommandLine` the outcome of a command
as `PackCommands` and `InstallDelivery` give it.

The MC modules extend the module whose theorems state the run's properties and instantiate
the others.

What is proved stands in the section of each module; every proof is for all values of the
constants that the module's named assumptions allow. Three modules are proved about
through an instance, which a module that puts two components side by side declares for
the run and for the proofs: `BundleChecks` is `VerifyCandidate` with `PublisherTrust` (`Trust`), proved
about in `VerifyCandidateProofs`; `LocalReads` is `CandidateTree` with `StableRead` (`File`), proved about
in `CandidateTreeProofs`; `PacksAndLocks` is `Composition` with `Lockfile` (`Locks`), both proved
about in `PacksAndLocksProofs`.

What stays with TLC. Liveness properties, because they need fairness and `ENABLED`. The
parsers, which fold over a whole text (`UstarParse`, `BundleManifest`, `PackSchema`,
`CommandLine`), with the reference definitions they are compared with.

Induction is by sets of numbers: the library gives that the natural numbers are well founded,
so a set of them that holds 0 and the successor of each member holds all (`NatInduct`
of `CandidateTreeProofs`). That is enough for a merge (`VerifyCandidate`), for the recursive
functions of `CandidateTree` and for the sort, the sums and the joined lists of `Composition`; operators declared `RECURSIVE` stay out of the modules with proofs.

## InstallStore

`InstallStore.tla` models `install_bundle_with_publisher` and everything it calls
in `crates/invokrum-install-linux/src/store.rs`, run by any number of processes
on one store.

| Variable | In the code |
|---|---|
| `locks[s]` | `.locks/<subject>.lock`, with the process that created it |
| `staging[s][a]` | `.staging/<subject>.<attempt>/`, how far each file and the record got to the disk |
| `final[s]` | `sha256/<subject>/` |
| `durable[s]` | has `sha256/` been synced since the subject appeared in it |
| `pc`, `subject`, `evidence`, `attempt`, `cursor`, `outcome` | one process's activation of the function: where it is, its bundle, its publisher, the staging attempt, the next file, the result it is about to return |
| `receipts` | every `InstalledBundle` returned so far (an observation) |
| `owner` of a tree | a ghost: the process that made the directory |

A subject is the digest of its manifest, so the files of a bundle have no
contents in the model, only a state: absent, written, synced. What two requests
for one subject can disagree on is the publisher in the installation record.
Each action is one file-system step that another process, a kill or a power loss
can separate from the next: creating the lock, looking the subject up, `mkdir`
of a quarantine name, creating and writing a file, syncing it, reading the
quarantine back, writing, then sealing the record, the rename, the sync of
`sha256/`, the final verification, the removal of the quarantine, the removal of
the lock. Every early return and every `let _ =` that drops an error is there:
`OpenLockFails`, `AcquireLockFails` (the lock file stays), `LookupFails`,
`CreateStagingFails` (the directory stays), `BuildFails`, `SyncPromotionFails` (an
error for a published subject), `ReadExistingFails` (every failure is reported as
a mismatch), `PromoteFindsPublishedLeaves`, `CleanupFails`, `ReleaseLockFails`.

The environment is part of the model:

- `Crash`: a kill leaves lock and quarantine as they are.
- `PowerLoss`: every process dies; of each tree only what was synced is left, and
  any promotion that was not synced may be taken back. This is the worst the
  disk can do to unsynced data; directory removals are taken to survive.
- `HostRemovesLock`: recovering a stale lock is left to the host
  (`docs/security/linux-local-installation.md`). With `LiveLockRemoval = FALSE` the
  host checks that no installer of the subject runs; with `TRUE` it does not.

Abstractions: reading a tree back (`verify_existing_installation`, the reload in
`stage_bundle`) is one atomic step, because the documents make it a precondition
that nobody else writes below the store root; the store root, its three
directories, modes and link counts are taken to be as `open_store` left them (`StoreRoot`
shows how);
failures before the lock file is opened change nothing and are `OpenLockFails`.

`ContentStore.tla` is what a caller may rely on: a register per subject that is
written once with evidence about that subject, made durable, acknowledged by
truthful receipts, at most one of which claims to have published, and lost only
if it was not yet durable. `ImplementsContentStore` is the refinement, by the
mapping `published = evidence of final`.

### Runs

All in `MCInstallStore.tla`.

- **InstallStoreSafety**: two processes, two requests each, one subject, signed and
  unsigned requests, bundles of two files, two quarantine names, one kill, one
  I/O failure, one power loss; the host removes only stale locks. Checks that
  published trees are complete, that the lock excludes, that a process never
  meets another's tree in its quarantine, that content errors never arise from
  scheduling, that mismatches are about provenance, that receipts are durable,
  unique and agree, and that only failures leave anything behind
  (`PublishedComplete`, `LocksExclude`, `AnswersAreTrue`, `LeftoversAreFaults`).
- **InstallStoreBrokenLocks**: three processes, one request each, one file, the host
  removes locks in use. Mutual exclusion is gone, so `LocksExclude`,
  `NoSpuriousRefusal` and `LeftoversAreFaults` do not hold and are not claimed;
  immutability, durable and truthful receipts (`FreshReceiptLasts`, the rest of
  `AnswersAreTrue`) and the refinement do, because a rename onto a directory that is not
  empty fails; so does completeness, which is proved for either kind of host. This run also reaches the
  branches that a respected lock makes unreachable, such as
  `PromoteFindsPublished` and `MaterializationConflict`.
- **InstallStoreProgress**: two processes, two subjects of which one uses the
  reserved record path, with fairness. Every request returns, a stale lock does
  not block it, and once failures have stopped, a request that got the lock
  leaves its subject published past abandoned quarantine trees.

Bounds: two processes are enough for every race between two requests; the
third in BrokenLocks is the one that takes a removed lock while two others still
believe they hold it. Two files separate a tree that is partly written from one
that is complete. Two quarantine names separate "taken" from "all taken" (the
code has 1024). One kill, one failure and one power loss each combine with one
another; `NoSpuriousRefusal` and `MismatchIsProvenance` are stated for runs without
I/O failures, since a failing `open` or read is reported as a conflict or a
mismatch by the code. `Refuse` changes only the request count.

Symmetry: processes are interchangeable in the two safety runs; the progress run
uses none. `CHECK_DEADLOCK FALSE`: requests are bounded, so a run may end.

Fairness: weak fairness of each process's own steps (`Step`), nothing of faults,
kills, new requests or the host. The code never waits for another process: it has
no loop but the bounded one over quarantine names, so a scheduled process makes
progress.

### What is not promised

A receipt with `reused = true` says that the existing tree matched. It comes
without a sync: if the request that renamed the tree into place failed to sync
`sha256/` or has not done so yet, a power loss may still take the subject back.
`FreshReceiptLasts` therefore speaks of receipts with `reused = false`, and
`ReceiptsAgree` of runs without a power loss.

### Proofs

`InstallStoreProofs.tla`, for any number of processes, subjects, publishers, files
and quarantine names, any bounds, and either kind of host. Assumed are
`ConstantsAssumption` and `EvidenceAssumption` (`NoEvidence` is not evidence).

| Theorem | Says |
|---|---|
| `TypeCorrect` | `Spec => []TypeOK` |
| `IInvInvariant` | `Spec => []IInv` |
| `PublishedCompleteInvariant` | `Spec => []PublishedComplete` |
| `FreshReceiptsLast` | `Spec => []FreshReceiptLasts` |
| `PublishedIsImmutable` | `Spec => Immutable` |

The argument. `PublishedComplete` is not inductive: nothing in it says that what a
process is about to rename is complete. `IInv` adds `BuildsOwn`: as long as the
subject is unpublished, a process that builds has its own tree at its path, as far
along as its program counter says. Only the creator of a quarantine name works
there, because `mkdir` is exclusive and a second process with the same name would
need the tree to be gone; cleanup by another process is possible only for its own
tree while the subject is unpublished (`OthersBuild`). After publication paths may
be shared once locks are broken, but then rename refuses. So locks are not needed
for safety, which is why the theorems hold with `LiveLockRemoval = TRUE`.
`ReceiptInv` carries durability from the sync of `sha256/` to the receipt;
`DurableLasts` is its core: a durable subject keeps its tree, also through a power
loss, because a complete tree is unchanged by it (`CompleteSettles`). `TypeInv`
(types and what each process relies on about its locals) is inductive on its own
and proved first.

From `IInv`, and the same assumptions, follow:

| Theorem | Says |
|---|---|
| `LocksExcludeOthers` | `Spec => []LocksExclude` |
| `AnswersTrue` | `Spec => []AnswersAreTrue` |
| `LeftoversCostFaults` | `Spec => []LeftoversAreFaults` |
| `StoreImplementsContentStore` | `Spec => ImplementsContentStore` |

The first and third speak, as their properties do, of a host that removes stale locks
only. `LocksExclude` is inductive once it says, of every process past the lock, that it
holds it and how far along its own tree is (`AllHold`); a step of one process leaves
alone whatever is not of its subject (`MovesOwn`), so no two holders meet. `AnswerInv`
follows an answer from where it is decided to where it is returned: between the rename
and the receipt a process is *publishing*, and one at most is, for only the rename of
an unpublished subject begins it (`OnePublishes`). A mismatch, decided long before, is
still true when it is returned because a published tree stays. `LeftInv` counts: an
abandoned name is one that is taken and no running process answers for, a step of a
process abandons none, and a fault abandons one at most per subject, a power loss
included, as one process at most works on a subject. The sets are finite, so this uses the
library's theorems on cardinality. The refinement has one lemma per step of
`ContentStore`: the rename is its `Publish` (`PromotePublishes`), the sync its `Persist`, a
return its `Acknowledge`, whose condition is `AnswerInv`, and a power loss its `Lose`,
which by `IInv` takes only what was not durable.

Only model-checked are the two liveness properties.

## AtomicOutput

`AtomicOutput.tla` models `write_atomic` (`crates/invokrum-cli/src/output.rs`), run
once by each of any number of CLI invocations on one output file.

| Variable | In the code |
|---|---|
| `dir` | the parent directory: which inode the target and each temporary name have |
| `file` | by inode: whose bytes it holds (`by`) and whether they are partial, written or synced |
| `pc`, `force`, `outcome` | an invocation's place in `write_platform`, its flag, its result |
| `pid[p]` | `std::process::id()`, which is all that tells temporary names apart between processes, as `NEXT_TEMP` starts at 1 in each (`temporary_path`) |
| `staged[p]` | the device and inode in the `Metadata` that `stage_file` returns |

Each action is one file-system call: `FirstCheck` (`check_target`), `CreateTemp`
or `TempTaken` (`create_new`), `WriteTemp`, `SyncTemp` with the check of the link
count, then with `--force` `SecondCheck` and `Rename` (`commit_replace`), without
it `Link` or `LinkExists` and `RemoveTemp` (`commit_no_clobber`), `Validate`
(`validate_committed_target`) and `SyncDirectory`. The two `FileGuard`s are the
program counters `withdraw`, `remove` and `drop`: `AfterError` says which guards an
error return passes through, in the order Rust drops them. The guard of the
temporary is armed before the file is created, so `TempTaken` removes the file it
ran into. Reading the target's identity and removing it by name are two steps.

Around them: `CallFails` (any call, and a parent found replaced), `GuardFails` (the
ignored result of `remove_file`), `Crash`, and `Appear` (somebody else creates a
regular file, or a link or directory, at the target). Process identifiers of dead
processes are reused and so are the numbers of inodes that have neither a name nor
an open file; live processes have distinct identifiers, which takes one PID
namespace. Refusals of path shapes and linked parents come before any effect and
are left out, as are modes and power losses.

`OutputSlot.tla` is what invocations without `--force` may rely on: the output is
filled once, and whoever filled it may take its own content back only before it
has reported success.

### Runs

- **AtomicOutput**: three invocations, with and without force. What stands at
  the target is whole and synced (`TargetWhole`); a temporary that no running process answers for cost a kill or a failed call
  (`NoLitter`); with nothing failing, an error means that somebody else made the target, or
  got past the commit or to an end of its own, which for the first error of a history means
  that it committed (`ErrorsAreRaces`); an existing output gives way to another file only by the
  rename of a forced invocation (`OnlyForceReplaces`); and as long as no invocation is forced
  (`Unforced`, which stays false once one was, since every invocation runs once and keeps its flag),
  each step is one of `OutputSlot` (`ImplementsOutputSlot`).
- **Making**, `part = "output"`: two invocations with fairness; each ends, and the leftover
  of a killed process costs one later process with its identifier a failure and is
  then gone (`EndsAndClears`).

Bounds: three invocations are two that race and one that reuses the identifier of a
dead one; three identifiers let them also be distinct. Four inodes are one per
invocation and one for a file of somebody else, so that reuse of a number is a
choice and never forced. One kill, one failing call, one foreign file. Invocations,
identifiers and inodes are interchangeable; the safety run uses the symmetry,
`Making` does not. Invocations run once, so a run may end
(`CHECK_DEADLOCK FALSE`). Fairness is weak fairness of each invocation's own steps;
the code has no loop and waits for nobody.

### What is not promised

When invocations with and without `--force` share a target, one without force that
fails after its hard link may remove an output that another, forced, has reported
as written: its guard compares inode numbers, which may have been reused by then,
and removes by name what it has just looked at. No document speaks of that mix, so
`OutputSlot` is claimed only as long as none was forced, while nothing replaces
a committed output. An error from `sync_directory` does not mean that nothing was
written: the output is in place by then.

### Proofs

`AtomicOutputProofs.tla`, for any number of invocations, identifiers and inodes and
any bounds, with and without force, from `OutputAssumption`.

| Theorem | Says |
|---|---|
| `TypeCorrect` | `Spec => []TypeOK` |
| `TargetAlwaysWhole` | `Spec => []TargetWhole` |
| `ReplacedByForceOnly` | `Spec => OnlyForceReplaces` |

The argument. `TargetWhole` says nothing of what is about to be renamed or linked.
`IInv` adds that a process finds its own file at its temporary name until it
commits (`OwnTemp`), which holds because live processes have distinct identifiers,
creation is exclusive, and a guard removes only the name of its own process; that
its file is synced once it is ready to commit, and not at the target before. A
reused inode number cannot make a file partial that is at the target, since a number
with a name is not free.

From this `IInv` follow:

| Theorem | Says |
|---|---|
| `LitterHasCost` | `Spec => []NoLitter` |
| `ErrorsHaveCause` | `Spec => []ErrorsAreRaces` |
| `OutputIsSlot` | `Spec => ImplementsOutputSlot` |
| `UnforcedRefinesSlot` | `~MayForce => (Spec => Abstract!Spec)` |

`NoLitter` compares a number of files with a number of failures; its invariant adds that
no two names of temporaries share an inode and that a temporary is gone once the commit is through
(`Named`), so that every step of a process tidies up after it (`StepTidies`) and only a kill or a
failed call adds a name. `ErrorsAreRaces` needs to know, as long as nothing has failed
(`Calm`), that every temporary has an owner that will remove it, that whatever stands at the target
was committed by somebody, and that the file a process has just committed is still
there unless somebody else committed as well (`RaceInv`). A second link count of one's own file, which
`validate_committed_target` refuses, is then somebody else's doing too. `OutputIsSlot` maps the
slot to the owner of the file at the target; without force a name that is taken stays
until its owner withdraws it, and a flag once set stays (`ForceStays`). Where `--force` is never
used the refinement is one of the whole specification (`UnforcedRefinesSlot`); why no more is promised
with `--force` is said above. Only model-checked are the two liveness properties.

## InstallDelivery

`InstallDelivery.tla` models `install` of `crates/invokrum-install-delivery`, the two
workflows of `crates/invokrum-install` it drives, the Ed25519 verifier and the trust
policy of one key, run by several invocations on one store and one set of input
files that others rewrite.

| Variable | In the code |
|---|---|
| `files` | what manifest, key, signature and candidate files hold now |
| `args[p]` | `InstallArgs`: the pinned subject, the trusted key, and whether the result can be rendered |
| `manifest`, `key`, `signature`, `publisher`, `candidate` | locals of `install`, `install_authenticated` and the workflows |
| `published`, `durable`, `receipts` | the store's register (`ContentStore`) |
| `stored[s]` | a ghost: who stored which content under a subject |

One action per read or decision, in the order of the code: `ReadManifest`,
`ReadKey`, `ReadSignature`, `AuthorizePublisher` or `RefusePublisher`,
`LoadCandidate` or `LoadFails`, `VerifyCandidate`, then the store, by what
`ContentStore` lets happen (`StorePublishes`, `StorePersists`, `StoreInstalled`,
`StoreReuses`, `StoreFails`), then `Render`. `Rewrite` changes an input file at any
time. A file that does not load or has the wrong form is `Unreadable` or
`Malformed`. Signatures are the set of pairs of key and subject that exist.

Run **Install**: two invocations, two bundles, two keys of which
one is weak, two rewrites. The store holds under a subject only its own content; a
publisher is recorded only if its key signed this subject and somebody was told to
trust it (`StoredIsVerified`, `EvidenceIsAuthorized`); success means the provenance asked
for, and a refusal stores nothing (`OutcomeIsTrue`); nothing is loaded for a publisher
that was not authorized (`LoadsAfterAuthorization`). Two rewrites are what it takes to
exchange a file and put it back between two reads. Requests are bounded, so a run
ends. No liveness is claimed: the input files are opened before their kind is known,
and on a FIFO an install waits in `open` for a writer.

An error of kind `Output` may follow a successful installation (a sync that fails
after the rename, a path in the result that is not UTF-8): it does not mean that
nothing was stored, and `RefusalStoresNothing` leaves that kind out.

### Proofs

`InstallDeliveryProofs.tla`, for any number of invocations, subjects, keys, signatures and
rewrites, from `DeliveryAssumption` and `InputsAssumption`.

| Theorem | Says |
|---|---|
| `StoredVerified` | `Spec => []StoredIsVerified` |
| `EvidenceAuthorized` | `Spec => []EvidenceIsAuthorized` |
| `LoadedAfterAuthorization` | `Spec => []LoadsAfterAuthorization` |
| `OutcomesTrue` | `Spec => []OutcomeIsTrue` |

The argument. The input files are free to change at any time, so nothing can rest on
them: the invariant `DInv` is about the copies an invocation has read. It says at each program
counter what has been established of these copies (`ReadInv`, `AuthorInv`), that a candidate
handed to the store is the manifest's, and that what a success reports
was published with this very evidence and is never replaced
(`StoringInv`; the store's part is `ContentStore`, which `InstallStore` is proved to
implement). An invocation that has stored something can no longer fail except in the
store or its output (`StoredInv`), which is why refusals store nothing.

## StoreRoot

`StoreRoot.tla` models `prepare_store_root`, then `open_store` and
`ensure_private_directory`, by any number of first installs at once.

`at` is what is at each of the four paths, directories by those of their modes that
the checks tell apart; `synced` whether the root was synced since a path appeared;
`pc` and `next` a process's step and path; `umaskStrips` says, from the start, whether the
umask takes the owner's bits from what `mkdir` makes. `Prepare`, `Make`, `MakeLoses`, `Secure`
(the `chmod`), `Open`, `Look`, `Recheck` and `Sync` are the system calls in their
order; `Kill` and `Retry` are the environment.

Run **Making**, `part = "root"`: two processes, a kill, any one path wrong at the start,
and either kind of umask. Directories are private from their first moment; an opened
store has private directories that survive a power loss but for one that its maker
has not synced yet (`PrivateAndDurable`); a racing process is refused at most once over
each path, and a store is unsafe only if it was from the start or a kill has left it so
(`RefusedForCause`); with retries the store opens (`OpensInTheEnd`). With a umask that
strips the owner's bits a process may meet a directory between `mkdir` and `chmod`, call
it unsafe and be right on retry; and a kill there leaves it unsafe for good.

Fairness: weak fairness of each live process's step, since nothing waits for another
process, and of `Retry`: "whoever is refused asks again" is the caller's part of the
liveness property and not of the code. Two processes are all that a race over one
`mkdir` takes.

Not promised by the code and so not claimed: the root's own name is not synced in
its parent. A directory found in place is used as it is, though its maker may not
have synced it yet. The second check of a directory after its `chmod` cannot fail
when nobody else changes it, as the documents require, so its refusal and
`StoreChanged` are not in the model.

### Proofs

`StoreRootProofs.tla`, for any number of processes and kills and any trees to start
from, from `StoreRootAssumption`: `StorePrivateAndDurable` (`[]PrivateAndDurable`) and
`RefusalsHaveCause` (`RefusedForCause`: an invariant and an action property).
`OpensInTheEnd` is liveness and only model-checked.

The argument. What a process has seen to be private would say nothing once it opens
the store, were it not that paths only ever move towards private: absent,
perhaps stripped, private (`PathsGrow`). So what a process has behind it stays as it
found it (`BehindInv`). A directory that is not synced is in the hands of the process
that made it, or of one that was killed there (`SyncInv`); a path that is neither as at the
start nor private is stripped and its maker not done (`CauseInv`), which is what an
unsafe store is refused for. That a process loses a path but once needs that what it has lost is there for good
and that it does not go to make it again (`LostInv`).

## PublisherTrust

`PublisherTrust.tla` takes a policy from the list of rules a host writes
(`TrustPolicy::new`, `PublisherIdentity::new`, each with its refusals in order) to the
decision of `authorize`. Run **Bundle**, `TrustIsExact`: every policy of up to two
rules (and three, one more than the instance allows) over identities with repeated,
malformed, too many and reordered attributes. Authorization is granted exactly when
the signed subject is the one asked for and all of one rule is said of the
publisher, and never by default. Attribute names and values are model values of which
one stands for all that `valid_attribute_name` refuses.

### Proofs

The end of `VerifyCandidateProofs.tla`, for any policies, assertions and subjects and any limits,
as long as identities are lists of pairs of strings (`TrustAssumption`): `TrustExact`,
`Spec => []TrustIsExact`.

The policy is decided on identities that have become maps, the property speaks of the lists as
they were written. The two agree because a list that is not refused names no attribute
twice (`IdentityCases`): then one map is within another exactly when the one list says nothing
that the other does not. The invariant `TrustInv` keeps, rule by rule, that what was
made is what was written and was not refused (`RulesInv`). As an identity that says nothing is refused, no
rule is met by default.

## StableRead

`StableRead.tla` models `read_declared_file` of `invokrum-acquisition-linux`
(`policy = "candidate"`) and `load_source` of `invokrum-fs` (`policy = "pack"`), system
call by system call: root, parent, lookup, open, `fstat`, target of the descriptor,
read, `fstat` again, lookup again, root again. The two differ in what they follow and
what they check again, which is where the variable `policy`, fixed from the start, is used.

| Variable | In the code or the world |
|---|---|
| `disk`, `entry` | inodes with kind, device, links, data, time stamp; the inode at the file's name |
| `rootPinned`, `parentReal` | is the root the pinned one, is the parent directory a real one? |
| `before`, `fd`, `opened` | the first metadata, the descriptor, its metadata |
| `bytes`, `outcome` | what was read, the result |
| `offered` | a ghost: every file and content the path has led to since the start |

Others write, truncate, append, link, replace or remove the file, exchange its
directory and put it back, or exchange the root.

Run **LocalRead**, `part = "file"`, with either policy: a file of two blocks at the limit, one over it, an empty one, a hard link, another device, a
FIFO; two changes at any moments, which is what it takes to change something and
change it back. A read that succeeds returned all that the open file held at one moment,
and that file was the one the path led to; of a candidate, it was so at a time when the path led there
(`ReadIsAtomic`). Memory is bounded however the file grows, and untouched files are returned
or refused exactly (`QuietIsExact`); with types that is `ReadsAreSound`. The read ends (`LoadsEnd`, by weak fairness of
the reader's own steps: it has no loop but the bounded read), except that it may wait in `open` for the writer
of a FIFO that took the file's place after the lookup: neither adapter asks for
`O_NONBLOCK`. Without such a change no FIFO is opened.

Assumptions, which the code shares: every change renews the time stamps (with stamps
coarser than two writes the second goes unnoticed if the length stays), and an
exchange of the root is for good ("assumes the host supplies a stable mount
namespace", `crates/invokrum-fs/src/lib.rs`).

### Proofs

The end of `CandidateTreeProofs.tla`, for files of any size, any set of inodes and any number of
changes, from `ReadAssumption` and `DiskAssumption`: `ReadsSound`, `Spec => []ReadsAreSound`.

The argument rests on stamps: as long as the open file has the stamp of its `fstat` it has the
data of its `fstat`, what was read is a part of that data, and a stamp once
lost never comes back (`ExamineInv`, `ReadingInv`). The second `fstat` therefore makes the
bytes those of one moment. The second lookup finds the inode at the path; of a candidate,
the check of the descriptor's target, which lies between the two `fstat`s, ties these bytes
to the path (`CompleteInv`). As long as nobody has changed anything, each check so far has said
of the file what the next one will say (`QuietInv`): a refusal is then of the file itself, and neither
`Changed` nor `RootEscape` is one.

The attempt to prove this corrected the property. It used to say of either
policy that the bytes returned were at the path at some moment. Of a pack source
that is false: of the descriptor `load_source` asks only whether it points below the root, where
`validate_opened_target` wants the very path. So a file that is moved away after the first lookup
and rewritten, is opened, examined and read there, rewritten again and moved back, is returned
as it was while it was away. It takes five changes, and the run's two hid it. What holds of a
pack source is that the bytes are what the file held at one moment and that the file has been
at the path; for a candidate the stronger statement stands.

## CandidateTree

`CandidateTree.tla` models `load_candidate`: the walk over the tree with the stack of
directories being inspected, the checks of each entry in their order, the counters,
`logical_paths`, the comparison of a directory's metadata when it is left, the
comparison with the manifest, the reads. Directories are inodes with entries and a
stamp. Opening a directory (lookup, open, target of the descriptor) is one step, and
the read of a file one moment or a refusal, as `StableRead` shows.

Run **LocalRead**, `part = "tree"`: trees of two and three levels, sound or with one thing wrong
of each kind the code tells apart, and two changes by others, among them moving a
directory away and another in. What is listed is what a directory held at one moment
(`ListingIsOneMoment`) and a directory stays in its place until its parent is left, unless one
further up has been changed (`DirectoriesStay`), together `WalkIsSteady`; whatever is there throughout and not declared is seen
(`StrangersAreSeen`); an untouched tree is accepted exactly if it is the declared one
(`QuietIsExact`), with `Exact` said of the tree's paths alone; the load ends (`LoadsEnd`) by weak fairness of its own steps, `StableRead`'s FIFO
apart. `MaxDepth` and `MaxEntries` are set to what the trees reach and exceed.

The exception in `DirectoriesStay` is the code's. `inspect_directory` opens a nested
directory by its whole path. If an ancestor is exchanged while that is done, and put
back, it inspects a directory of another tree and finds its own parent unchanged. The load is
refused all the same, but only where the walk leaves the ancestor, whose stamp has changed.
With directories one below another only (`MaxDepth = 1`) this does not happen, so the
run has three levels.

### Proofs

`CandidateTreeProofs.tla`, for any number of directories and names, any manifests, limits and
number of changes, from `CandidateTreeAssumption`: directories are not confused with the
other things an entry may be, names are in an order without repeats, manifests are finite, and manifests, initial trees
and changes are of these names.

| Theorem | Says |
|---|---|
| `NoStrangerEscapes` | `Spec => []StrangersAreSeen` |
| `ListedAtOneMoment` | `Spec => ListingIsOneMoment` |
| `StaysInPlace` | `Spec => DirectoriesStay` |
| `WalkSteady` | `Spec => WalkIsSteady`: these two and types and limits |
| `QuietExact` | `Spec => []QuietIsExact` |

The argument. Each step of `Next` is one of nine moves of the stack and the notes
(`NextMoves`), and `IInv` is kept by each. `BaseInv` has the types of the stack and
when it is empty.

`StrangersAreSeen` speaks of the end of a load, when the stack is gone. What leads there is
an account of every name (`SeenInv`): as long as nobody touched the way to a name in an inspected
directory, it is gone, or it is still in the list of a directory on the stack, or it is a declared
file, or it is a declared directory that has been inspected or is about to be. With the
stack empty nothing is in a list any more, so by induction over the path every declared directory that is
there has been inspected (`AllReached`), and nothing but declared things was in it. A path
is looked up name by name, and an untouched way leads where it led (`StillFound`); that is the
induction over `Resolve` (`ResolveSteps`, `UntouchedStays`). That every directory entry
appears in a listing, once, is the induction over `NamesIn` (`NamesListed`).

For the walk, the invariant says of the open directories what `StableRead` says of a file: as long
as a directory has the stamp it was opened with, what was noted of it is what it holds
(`ListedInv`), and as long as those above it have theirs too, it is where it was found (`ChainInv`), and
what was inspected in it is in it still (`StayInv`). The last needs that no path is inspected twice:
names are unique in a listing and leave it when they are looked at (`FreshInv`).

`QuietIsExact` has two directions. That a refusal of an untouched tree has its cause in
the tree (`CauseInv`) goes refusal by refusal, and needs that all that is noted is there:
what was listed (`WalkedInv`), what was marked (`ThereInv`), and, for the limit on entries, that
they are counted path by path, each once (`CountInv`, with the cardinalities of the
finite sets that `FreshInv` keeps apart). Two causes are shown not to occur: a
directory that is too deep (a manifest that names one is refused at the start) and a stamp that differs. That a
tree that is loaded is as declared needs the reverse: a name that is no longer waiting was
marked (`MarkedInv`), no two marked paths differ in case alone (`ApartInv`), and the checks
before and after the walk were made (`DoneInv`); then all that is there was marked
(`AllMarked`), and no declared file is above another (`WayOfDirectories`).

## UstarParse

`UstarParse.tla` models `parse_ustar` and what it calls. A block has a fill (zero, zero
in its second half, neither) and what `parse_header` would make of it wherever it
stands. Sizes are in half blocks, so that padding exists. Actions: `Open` (limits of
the whole, compression), `ReadDirectory`, `ReadFile`, `Refuse` (the first check of an
entry that fails, in the code's order), `Terminate` (the two zero blocks, the rest,
the declared files).

Run **Bundle**, `ParsesExactly`: archives of every list of up to three entries, and each
of up to two with any block replaced, left out or added, against four manifests. The
reference is a relation, `WellFormed`: a choice of header blocks that with their
payloads tile the archive. The walk accepts exactly those archives; payloads do not
overlap and lie behind their own header; "a declared file is missing" is said only
when nothing else is wrong. The limits of the instance keep the relations that the
constants of the code have (`LimitsAssumption`, checked on the run's instance); by them the limit on metadata and
the limit on the archive's length never cost an archive that is within the others.

## VerifyCandidate

`VerifyCandidate.tla` models `verify_candidate`: limits, sort, one step per turn of the
merge, and the end. Run **Bundle**, `VerifiesExactly`: every manifest of up to three
records over three paths, with true and false lengths and digests, and every list of
up to three candidates, repeats included. Verification agrees with equality of sets of
files; what is handed on are the given bytes with the declared digest; the error is
about the least wrong path and does not depend on the order of the candidates. Three
paths are what it takes to have something before, at and after a wrong one.

### Proofs

`VerifyCandidateProofs.tla`, for any limits, any contents, any candidates and any manifests that are
sorted by path and within the limit on files, as `BundleManifest` makes them
(`VerifyAssumption`): `CandidatesVerified`, `Spec => []VerifiesExactly`.

The invariant: before a step of the merge both indices are the same, and all elements before it
agree in path, length and digest (`MergedTo`, `MergesInStep`). So if the merge ends, the sorted
candidates are the manifest's files, and if it stops, the paths left on both sides tell why: the lesser
head is missing or unexpected, and nothing below it is wrong. That the error does not depend on the
order of the candidates comes of there being, up to repeated paths, one sorted list of them. Repeats are
adjacent once sorted, which is where the code finds them.

## BundleManifest

`BundleManifest.tla` follows a manifest from `BundleManifest::new` over
`encode_bundle_manifest` to `decode_bundle_manifest`, which also meets texts nobody made that
way. A text is what its JSON says and how it is laid out. Run **Bundle**, `ReadsExactly`: lists of up to four files against limits of three, host limits tighter and
looser. What is accepted is canonical, sorted, unique and within limits, and nothing
else is; the limits are checked before the contents, as `docs/bundle-format-v1.md` says;
a manifest made is read back as it was meant, if its text is not too long. It may be
too long: paths have a limit in bytes, but a quotation mark takes two in a text, and
a maker's list of the greatest size may exceed the reader's 1 MiB. Sums of sizes cannot
overflow `u64`, as each is bounded first.

## PackSchema

`PackSchema.tla` is `parse_json_with_limits` and `parse_yaml_with_limits`, and
`to_normalized_json`, whose text is read once more. A text is the events that a parser
makes of it (`PackEvents.tla`) with what serde would decode; the first pass (`StrictSeed`)
takes one event per step, with the keys of each open container on a stack, where the
code has the recursion of its visitor.

Run **Packs**, `part = "schema"`, `ReadsAsWritten`: documents of up to three declarations of
each kind, sound and unsound, in both formats, written in full or with optional parts
left out; and two documents, one of a later version, with any one key added, any
scalar nested up to six deep, or an end at any event. The walk stops at the first event
that is wrong where it stands, which is defined on positions and without a stack; a
later version is told apart from unknown fields; too many declarations are refused as
such whatever is wrong with them; nothing a text says is dropped; the normalized text of
a pack is read back as the pack unless it has outgrown the limit on bytes.
It spells out lists that the first text may have left out, so it is longer, and deeper
too: it has four levels, five with a profile, against a limit of 32 by default and of five in
the instance. A host that lowers the limit below that can read texts whose
normalized form it refuses.

## Composition

`Composition.tla` is `OverlayPack::new` (all checks in order, then sorting) and `compose`:
selection, incompatibilities, one `Load` per overlay with edits of sources in between,
`Finish`. Run **Packs**, `PacksExactly` and `ComposesExactly`: documents that are sound or unsound in every
way the checks tell. A document becomes a pack exactly if it is consistent; the order of segments is that of class numbers and of the profile;
overlays that rule each other out are never read, whoever says so; the context is
the segments with a separator between any two, and what was measured is what is
there. An overlay that rules itself out is accepted by `OverlayPack::new` and can never
be composed.

`Sorted` is the stable sort of the code, as a rank: the place of an element is how many
go before it, and of two that compare as equal the earlier one does.

### Proofs

`PacksAndLocksProofs.tla`, for any documents, disks, contents and limits and any number of edits.
`CompositionAssumption` says what a document is made of (sequences of declarations; identifiers, order
numbers and class limits that are natural numbers), that every source named is one of the sources, and that
contents have a length and are not the separator.

| Theorem | Says |
|---|---|
| `PacksExact` | `Spec => []PacksExactly` |
| `ComposesExact` | `Spec => []ComposesExactly` |

The argument. Neither sort loses an element, whatever order the document is in: where no identifier
is there twice the order is total, so the ranks are 0 to n - 1, each that of one place (`Ranks`, `ByIdAlike`,
`ByOrderAlike`). Hence neighbours with one order number are all there can be (`SameOrderIs`), and each check
refuses exactly what is not sound, though it looks at sorted lists and stops at the first fault it meets
(`PackRefusalIs`). For composition the invariant `IInv` says how far it is and with what pack (`Stage`),
that the selection is what the profile declares, within the limit and free of conflicts (`Choice`),
that the segments are those of its first overlays (`Loaded`), and that the context is theirs, to the
byte (`Framed`). It needs where each pick is declared, class by row and place in the class
(`PickedPlaced`), from which the order of the segments follows (`OrderHolds`); that a conflict is
found whichever of the two declares it, since all of them were compared before the first read
(`ConflictsHold`); and that `BytesOf` grows by what is appended (`BytesOfGrows`), so that the limit
on the output, checked on the next context, holds of what is kept (`FramedGrows`).

## Lockfile

`Lockfile.tla` is a history of `lock`, `verify`, `diff` and edits of the pack, its sources and
the locks. Verification is two steps, between which everything may be edited: the
lock is read first. A digest is a pair of what it is of and its material. Sources are
sequences of pieces of which one is the separator, so that different sources may
render alike. The order in which drift is reported is abstracted to a set.
Run **Packs**, three moves: locks that were written are read back;
"verified" is said of an untouched lock exactly when nothing selected has changed;
rendered output never drifts alone (`LocksAreTrue`); `diff` says what `verify` says, though the code has
the comparison twice; "identical" is said of identical locks only, edited ones
included (`ComparesExactly`). Three moves are a lock, an edit and a second lock or edit. As source paths have no limit of
their own, a lock may outgrow 1 MiB; it is refused when written.

### Proofs

`PacksAndLocksProofs.tla`, for any packs, profiles, sources, contents and lengths of paths, any size a
lock may have and any number of moves. `LockfileAssumption` says that the overlays a
profile picks are somewhere, and that the identifier which stands for all the invalid ones is no
profile's; `Composition` refuses any other pack before a lock is made.

| Theorem | Says |
|---|---|
| `LocksTrue` | `Locks!Spec => []LocksAreTrue` |
| `ComparesAll` | `Locks!Spec => []ComparesExactly` |

The argument. A lock file that nobody has edited holds what building it from the pack and the
sources of then gives (`Faithful`), and what is being verified is a lock that decodes, with what it was
made from (`Opened`), however the world moves on between the two steps. Two built locks drift in
nothing exactly when pack, profile and selected contents are equal (`MadeLocksCompare`): a digest
of each is in the lock, and digests tell materials apart. Of edited locks nothing is known but
their fields (`TamperedShape`); that `diff` still misses no difference is due to
decoding. The comparison leaves out the inputs digest and the digest of the manifest,
and a lock in which one of the two is not what the rest determines does not decode (`ValidateCases`,
`EqualLocks`).

## PackCommands

`PackCommands.tla` runs one command of the command line and one request of the host
protocol on the same inputs, each a script of steps in the code's order, with an
edit of the pack or its sources at any moment. Run **Commands**, `part = "packs"`: the
evidence is of the bytes it comes with; exit codes tell the cause, never drift for a
bad lock; every request has one response under its identifier (`AnswersAreExact`); both
ways agree on the same inputs (`FrontsAgree`). Agreement is claimed for locks that fit a request: one over three
quarters of 1 MiB does not once it is base64, so it can be verified on the command
line only, and the protocol's own check of the decoded size cannot fire.

The protocol is one request per process, on stdin until it ends.

**ResponseSchema** is expected to fail. `execute_rpc` puts `request_id` in its response as
soon as the request was parsed, also when it refuses it for being longer than 128
bytes or for an unknown protocol. `schemas/invokrum-host-response-v1.schema.json` limits
the `request_id` of a response to 128.

### Proofs

`PackCommandsProofs.tla`, for any pack files, locks and requests of the kinds the model has, any longest
identifier and any number of edits (`PackCommandsAssumption`).

| Theorem | Says |
|---|---|
| `CommandsStand` | `Spec => []IInv` |
| `AnswersExact` | `Spec => []AnswersAreExact` |
| `FrontsAlike` | `Spec => []FrontsAgree` |

The argument. A command is a script, and the invariant says where in it: a command stands
before its i-th step, with just what the steps before that have given it (`Reached`), or it was refused
there for what that step may refuse (`RefusedAt`), or it has answered accordingly
(`AnswerFits`). Evidence is of the version that was composed because no later step reads the
sources again. The two scripts of an operation differ only by the reading of the request in front;
as long as nobody edits anything (`Quiet`) a step refuses for the same reason on
both, so the first step to refuse does (`SameVerdict`).

## CommandLine

`CommandLine.tla` reads an argument list one argument at a time, by the parsers of `args.rs`
and of the install command, runs or refuses the command, and turns what came of it
and of stdout into the exit code. `main.rs` writes to the stdout of the standard library: `write_all`
passes on what ends in a line feed and reports a failure (`Write`, `WriteFails`); what follows the
last line feed is kept in a buffer if it is shorter than 1024 bytes, and `process::exit` flushes
it without a look at the outcome (`Flush`). `undelivered` is what has not been passed on. All output
ends in a line feed (`json_line`, `encode_response`, the texts) but that of `deliver`: a
context may end without one, and a lock, which is canonical JSON, has none. The descriptor is
assumed to be open for writing, since the library takes `EBADF` on stdout for a success.

Run **Commands**, `LinesRunAsTheyRead`: full command lines of
every command, their options in several orders, and every slip of one argument left
out, repeated, added or replaced. A command runs on exactly the lists that its usage,
stated on the list as a whole, allows; an install without a publisher had no
publisher option; a result that is told with another exit code than 6 was delivered
whole, except that the rest of a raw context or lock may be missing (`OnlyRawRestIsLost`). Reading a list
takes one step per argument and has no loop, so nothing is claimed of its ending.

**StdoutFailure** is expected to fail. `docs/usage.md` gives a failure of stdout the exit code 6
(`LossIsTold`); the run ends with a lock that was not written and exit code 0. Flushing
stdout in `run_with_stdin` before it returns, and reporting its error, would close the gap.

## Not modelled

- The scan of YAML lines for what is outside the accepted subset
  (`validate_yaml_subset`): whether it finds something is a fact of the text. The
  parsers of `serde_json` and `serde_yaml_ng` are taken as they are, and so is what they
  decode.
- SHA-256 (`invokrum-digest`, `loader.rs`) and the mathematics of Ed25519: an injective name,
  and a set of signatures that exist.
- JSON, base64, canonical text and the wording of output, but for what may be wrong
  with them.
- Modes of installed files and the encoding of the installation record.
- Refusals of path shapes and linked parents by `output.rs`, before any effect.
- Scripts and the reference host: tooling around the program.
