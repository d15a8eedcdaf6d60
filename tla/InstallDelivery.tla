-------------------------- MODULE InstallDelivery --------------------------
(***************************************************************************)
(* `invokrum install`: the delivery adapter                                *)
(* (crates/invokrum-install-delivery), the two installation workflows it   *)
(* drives (crates/invokrum-install), the Ed25519 verifier and the trust    *)
(* policy, on top of the store as ContentStore promises it.                *)
(*                                                                         *)
(* Several invocations run at once. Each reads four files that others may  *)
(* rewrite between its reads: the manifest, the publisher's key and        *)
(* signature, and the candidate. A manifest and the candidate that belongs *)
(* to it are named by the bundle subject they have.                        *)
(***************************************************************************)
EXTENDS Naturals, FiniteSets

CONSTANTS
  Invocations,
  Subjects,       \* digests of the manifests there are
  Keys,           \* public keys
  WeakKeys,       \* those the verifier refuses as weak
  Signatures,     \* the [key, subject] signatures that exist
  Unsigned,       \* no publisher
  Unreadable,     \* a file that is missing, not regular or too large
  Malformed,      \* a file that is read and has the wrong length or form
  NoEvidence,
  Requests,       \* what the command lines of the run may ask for
  Start,          \* the files the run may start with
  MaxRewrites     \* bound: input files rewritten during the run

ASSUME DeliveryAssumption ==
  /\ Signatures \subseteq [key : Keys, subject : Subjects]
  /\ WeakKeys \subseteq Keys
  /\ Unsigned \notin Keys
  /\ {Unreadable, Malformed} \cap (Subjects \cup Keys \cup Signatures) = {}
  /\ Unreadable # Malformed
  /\ NoEvidence \notin [publisher : Keys \cup {Unsigned}, subject : Subjects]
  /\ MaxRewrites \in Nat

Evidence == [publisher : Keys \cup {Unsigned}, subject : Subjects]
Bad      == {Unreadable, Malformed}

\* What the command line asks for; a key or subject may be no digest at all.
Args == [subject : Subjects \cup {Malformed},
         trusted : Keys \cup {Unsigned, Malformed},
         printable : BOOLEAN]   \* can the result be rendered as asked?

Files == [manifest  : Subjects \cup Bad,
          key       : Keys \cup Bad,
          signature : Signatures \cup Bad,
          candidate : Subjects \cup {Unreadable}]

ASSUME InputsAssumption == Requests \subseteq Args /\ Start \subseteq Files

\* ErrorKind
Kinds == {"Usage", "Input", "Validation", "Output"}

VARIABLES
  files, rewrites,
  published, durable, receipts,  \* the store (ContentStore)
  stored,                        \* by subject: who stored which candidate (ghost)
  pc, args,
  manifest, key, signature, publisher, candidate,  \* locals of an invocation
  outcome

store == <<published, durable, receipts, stored>>
local == <<manifest, key, signature, publisher, candidate>>
vars  == <<files, rewrites, store, pc, args, local, outcome>>

Receipt == [by : Invocations, subject : Subjects, evidence : Evidence, reused : BOOLEAN]

Store == INSTANCE ContentStore WITH Receipts <- Receipt

TypeOK ==
  /\ files \in Files
  /\ rewrites \in 0 .. MaxRewrites
  /\ published \in [Subjects -> Evidence \cup {NoEvidence}]
  /\ durable \in [Subjects -> BOOLEAN]
  /\ receipts \subseteq Receipt
  /\ stored \in [Subjects -> {NoEvidence} \cup [by : Invocations, content : Subjects]]
  /\ pc \in [Invocations -> {"manifest", "key", "signature", "publisher", "load", "verify",
                             "store", "persist", "receipt", "render", "done"}]
  /\ args \in [Invocations -> Args]
  /\ manifest \in [Invocations -> Subjects \cup Bad]
  /\ key \in [Invocations -> Keys \cup Bad]
  /\ signature \in [Invocations -> Signatures \cup Bad]
  /\ publisher \in [Invocations -> Evidence \cup {NoEvidence}]
  /\ candidate \in [Invocations -> Subjects \cup {Unreadable}]
  /\ outcome \in [Invocations -> {"none", "installed", "reused"} \cup Kinds]

Init ==
  /\ files \in Start
  /\ rewrites = 0
  /\ Store!Init
  /\ stored = [s \in Subjects |-> NoEvidence]
  /\ pc = [p \in Invocations |-> "manifest"]
  /\ args \in [Invocations -> Requests]
  /\ manifest = [p \in Invocations |-> Unreadable]
  /\ key = [p \in Invocations |-> Unreadable]
  /\ signature = [p \in Invocations |-> Unreadable]
  /\ publisher = [p \in Invocations |-> NoEvidence]
  /\ candidate = [p \in Invocations |-> Unreadable]
  /\ outcome = [p \in Invocations |-> "none"]

-----------------------------------------------------------------------------
Subject(p)       == args[p].subject
Authenticated(p) == args[p].trusted # Unsigned

\* The evidence the store is handed with the bundle.
Provenance(p) ==
  IF Authenticated(p) THEN publisher[p] ELSE [publisher |-> Unsigned, subject |-> manifest[p]]

Goto(p, from, to) == pc[p] = from /\ pc' = [pc EXCEPT ![p] = to] /\ UNCHANGED <<args, rewrites>>

Fail(p, from, kind) == Goto(p, from, "done") /\ outcome' = [outcome EXCEPT ![p] = kind]

-----------------------------------------------------------------------------
(* install: the manifest and the subject.                                  *)

ReadManifest(p) ==
  /\ manifest' = [manifest EXCEPT ![p] = files.manifest]
  /\ CASE files.manifest = Unreadable       -> Fail(p, "manifest", "Input")
       [] files.manifest = Malformed        -> Fail(p, "manifest", "Validation")
       [] OTHER ->
            CASE Subject(p) = Malformed     -> Fail(p, "manifest", "Usage")
              [] Subject(p) \in Subjects \ {files.manifest} -> Fail(p, "manifest", "Validation")
              [] OTHER -> Goto(p, "manifest", IF Authenticated(p) THEN "key" ELSE "load")
                          /\ UNCHANGED outcome
  /\ UNCHANGED <<files, store, key, signature, publisher, candidate>>

\* default_store_root finds neither XDG_DATA_HOME nor HOME.
NoStoreRoot(p) ==
  /\ Fail(p, "manifest", "Input")
  /\ Subject(p) = files.manifest
  /\ manifest' = [manifest EXCEPT ![p] = files.manifest]
  /\ UNCHANGED <<files, store, key, signature, publisher, candidate>>

-----------------------------------------------------------------------------
(* install_authenticated: key, signature, verification, authorization.     *)

ReadKey(p) ==
  /\ key' = [key EXCEPT ![p] = files.key]
  /\ CASE files.key = Unreadable -> Fail(p, "key", "Input")
       [] files.key = Malformed  -> Fail(p, "key", "Validation")
       [] OTHER                  -> Goto(p, "key", "signature") /\ UNCHANGED outcome
  /\ UNCHANGED <<files, store, manifest, signature, publisher, candidate>>

\* Mutant: the candidate is loaded before the publisher is authorized.
ReadSignatureThenLoad(p) ==
  /\ signature' = [signature EXCEPT ![p] = files.signature]
  /\ Goto(p, "signature", "load") /\ UNCHANGED outcome
  /\ UNCHANGED <<files, store, manifest, key, publisher, candidate>>

\* Then --trusted-key-sha256 is parsed.
ReadSignature(p) ==
  /\ signature' = [signature EXCEPT ![p] = files.signature]
  /\ CASE files.signature = Unreadable -> Fail(p, "signature", "Input")
       [] files.signature = Malformed  -> Fail(p, "signature", "Validation")
       [] OTHER -> IF args[p].trusted = Malformed
                     THEN Fail(p, "signature", "Usage")
                     ELSE Goto(p, "signature", "publisher") /\ UNCHANGED outcome
  /\ UNCHANGED <<files, store, manifest, key, publisher, candidate>>

\* Mutant: weak keys are let through.
VerifiedWeak(p) == signature[p] = [key |-> key[p], subject |-> Subject(p)]

\* Ed25519SubjectVerifier::verify
Verified(p) ==
  /\ key[p] \notin WeakKeys
  /\ signature[p] = [key |-> key[p], subject |-> Subject(p)]

\* TrustPolicy::authorize with the one rule of single_ed25519_policy.
Allowed(p) == key[p] = args[p].trusted

AuthorizePublisher(p) ==
  /\ Goto(p, "publisher", "load")
  /\ Verified(p) /\ Allowed(p)
  /\ publisher' = [publisher EXCEPT ![p] = [publisher |-> key[p], subject |-> Subject(p)]]
  /\ UNCHANGED <<files, store, manifest, key, signature, candidate, outcome>>

RefusePublisher(p) ==
  /\ Fail(p, "publisher", "Validation")
  /\ ~(Verified(p) /\ Allowed(p))
  /\ UNCHANGED <<files, store, local>>

-----------------------------------------------------------------------------
(* install_candidate, install_authenticated_candidate: load and verify.    *)

\* A candidate that is not the manifest's may already fail to load.
LoadCandidate(p) ==
  /\ Goto(p, "load", "verify")
  /\ files.candidate # Unreadable
  /\ candidate' = [candidate EXCEPT ![p] = files.candidate]
  /\ UNCHANGED <<files, store, manifest, key, signature, publisher, outcome>>

LoadFails(p) ==
  /\ Fail(p, "load", "Input")
  /\ files.candidate # manifest[p]
  /\ UNCHANGED <<files, store, local>>

\* Mutant: the candidate is not compared with the manifest.
MatchesAnything(p) == TRUE

\* verify_candidate: exactly the manifest's files.
Matches(p) == candidate[p] = manifest[p]

VerifyCandidate(p) ==
  /\ IF Matches(p) THEN Goto(p, "verify", "store") /\ UNCHANGED outcome
                   ELSE Fail(p, "verify", "Validation")
  /\ UNCHANGED <<files, store, local>>

-----------------------------------------------------------------------------
(* CliInstallStore, by what ContentStore promises.                         *)

StorePublishes(p) ==
  /\ Goto(p, "store", "persist")
  /\ Store!Publish(manifest[p], Provenance(p))
  /\ stored' = [stored EXCEPT ![manifest[p]] = [by |-> p, content |-> candidate[p]]]
  /\ UNCHANGED <<files, local, outcome>>

StorePersists(p) ==
  /\ Goto(p, "persist", "receipt")
  /\ Store!Persist(manifest[p])
  /\ UNCHANGED <<files, stored, local, outcome>>

Acknowledged(p, evidence, reused) ==
  /\ Store!Acknowledge([by |-> p, subject |-> manifest[p], evidence |-> evidence,
                        reused |-> reused])
  /\ outcome' = [outcome EXCEPT ![p] = IF reused THEN "reused" ELSE "installed"]
  /\ UNCHANGED <<files, stored, local>>

StoreInstalled(p) == Goto(p, "receipt", "render") /\ Acknowledged(p, Provenance(p), FALSE)

\* Mutant: whatever is installed for the subject is reused.
StoreReusesAny(p) ==
  /\ Goto(p, "store", "render")
  /\ published[manifest[p]] # NoEvidence
  /\ Acknowledged(p, published[manifest[p]], TRUE)

StoreReuses(p) == Goto(p, "store", "render") /\ Acknowledged(p, Provenance(p), TRUE)

\* The store root or the store fails, also after it has published.
StoreFails(p) ==
  /\ pc[p] \in {"store", "persist", "receipt"}
  /\ Fail(p, pc[p], "Output")
  /\ UNCHANGED <<files, store, local>>

\* render_json cannot show a path that is not UTF-8: an error after all.
Render(p) ==
  /\ Goto(p, "render", "done")
  /\ outcome' = IF args[p].printable THEN outcome ELSE [outcome EXCEPT ![p] = "Output"]
  /\ UNCHANGED <<files, store, local>>

-----------------------------------------------------------------------------
\* Somebody replaces one of the input files.
Rewrite ==
  /\ rewrites < MaxRewrites
  /\ rewrites' = rewrites + 1
  /\ \/ \E f \in Subjects \cup Bad : files' = [files EXCEPT !.manifest = f]
     \/ \E f \in Keys \cup Bad : files' = [files EXCEPT !.key = f]
     \/ \E f \in Signatures \cup Bad : files' = [files EXCEPT !.signature = f]
     \/ \E f \in Subjects \cup {Unreadable} : files' = [files EXCEPT !.candidate = f]
  /\ UNCHANGED <<store, pc, args, local, outcome>>

Step(p) ==
  \/ ReadManifest(p) \/ NoStoreRoot(p) \/ ReadKey(p) \/ ReadSignature(p)
  \/ AuthorizePublisher(p) \/ RefusePublisher(p)
  \/ LoadCandidate(p) \/ LoadFails(p) \/ VerifyCandidate(p)
  \/ StorePublishes(p) \/ StorePersists(p) \/ StoreInstalled(p) \/ StoreReuses(p)
  \/ StoreFails(p) \/ Render(p)

Next == Rewrite \/ \E p \in Invocations : Step(p)

Spec == Init /\ [][Next]_vars

-----------------------------------------------------------------------------
\* Whatever is rewritten when, the store holds under a subject only the
\* bytes that subject names ("exact verified bytes").
StoredIsVerified ==
  \A s \in Subjects : stored[s] # NoEvidence => stored[s].content = s

\* A record names a publisher only if that key signed this very subject, is
\* not weak, and an invocation for the subject was told to trust it.
EvidenceIsAuthorized ==
  \A s \in Subjects : published[s] # NoEvidence /\ published[s].publisher # Unsigned =>
    /\ [key |-> published[s].publisher, subject |-> s] \in Signatures
    /\ published[s].publisher \notin WeakKeys
    /\ \E p \in Invocations :
         args[p].trusted = published[s].publisher /\ args[p].subject = s

\* Success means that the subject is installed with just the provenance
\* that was asked for: nothing unsigned passes for signed, or the reverse.
SuccessIsAsAsked ==
  \A p \in Invocations : outcome[p] \in {"installed", "reused"} =>
    published[Subject(p)] = [publisher |-> args[p].trusted, subject |-> Subject(p)]

\* A usage, input or validation error leaves the store as it was.
RefusalStoresNothing ==
  \A p \in Invocations : outcome[p] \in Kinds \ {"Output"} =>
    \A s \in Subjects : stored[s] # NoEvidence => stored[s].by # p

\* The outcome tells what was done to the store.
OutcomeIsTrue == TypeOK /\ SuccessIsAsAsked /\ RefusalStoresNothing

\* "an invalid or unauthorized publisher cannot ... cause an untrusted
\* candidate tree/archive to be loaded"
LoadsAfterAuthorization ==
  \A p \in Invocations : candidate[p] # Unreadable /\ Authenticated(p) =>
    publisher[p] = [publisher |-> args[p].trusted, subject |-> Subject(p)]
=============================================================================
