------------------------ MODULE InstallDeliveryProofs ------------------------
(***************************************************************************)
(* Proofs about InstallDelivery, for any number of invocations, subjects,  *)
(* keys and signatures, any requests, and any number of rewritten files.   *)
(***************************************************************************)
EXTENDS InstallDelivery, TLAPS

(***************************************************************************)
(* The invariant. What an invocation has established at each point of its  *)
(* way, and that what it goes by cannot be taken back: its own copies of   *)
(* the files, and a record that is never replaced.                         *)
(***************************************************************************)

\* The provenance the command line asks for.
Asked(p) == [publisher |-> args[p].trusted, subject |-> Subject(p)]

Succeeded == {"installed", "reused"}
Loading   == {"load", "verify", "store", "persist", "receipt", "render"}

\* The manifest that was read is the one asked for.
ReadInv(p) ==
  /\ pc[p] \notin {"manifest", "done"} \/ outcome[p] \in Succeeded =>
       manifest[p] \in Subjects /\ Subject(p) = manifest[p]
  /\ pc[p] \in {"key", "signature", "publisher"} => Authenticated(p)
  /\ pc[p] \in {"signature", "publisher"} => key[p] \in Keys
  /\ pc[p] = "publisher" => signature[p] \in Signatures

\* The publisher has been authorized before anything is loaded, and what is
\* stored has been verified.
AuthorInv(p) ==
  /\ (pc[p] \in Loading \/ candidate[p] # Unreadable) /\ Authenticated(p) =>
       /\ publisher[p] = Asked(p)
       /\ args[p].trusted \in Keys \ WeakKeys
       /\ [key |-> args[p].trusted, subject |-> Subject(p)] \in Signatures
  /\ candidate[p] # Unreadable =>
       pc[p] \in {"verify", "store", "persist", "receipt", "render", "done"}
  /\ pc[p] \in {"store", "persist", "receipt", "render"} => candidate[p] = manifest[p]

\* What has been published or reused is what was asked for, and stands.
StoringInv(p) ==
  /\ pc[p] \in {"persist", "receipt"} =>
       published[manifest[p]] \in Evidence /\ published[manifest[p]] = Asked(p)
  /\ outcome[p] \in Succeeded =>
       published[Subject(p)] \in Evidence /\ published[Subject(p)] = Asked(p)
  /\ pc[p] = "render" => outcome[p] \in Succeeded
  /\ pc[p] \notin {"render", "done"} => outcome[p] = "none"

\* Stored bytes are the subject's, and who stored them can only succeed or
\* report that the store or the output failed.
StoredInv(s) ==
  stored[s] # NoEvidence =>
    /\ stored[s].content = s
    /\ pc[stored[s].by] \in {"persist", "receipt", "render", "done"}
    /\ outcome[stored[s].by] \notin Kinds \ {"Output"}

DInv ==
  /\ TypeOK
  /\ \A p \in Invocations : ReadInv(p) /\ AuthorInv(p) /\ StoringInv(p)
  /\ \A s \in Subjects : StoredInv(s)
  /\ EvidenceIsAuthorized

LEMMA Initially == Init => DInv
  <1> SUFFICES ASSUME Init PROVE DInv
    OBVIOUS
  <1> USE DeliveryAssumption, InputsAssumption DEF Init, Store!Init
  <1>1. TypeOK
    BY DEF TypeOK, Bad
  <1>2. \A p \in Invocations : ReadInv(p) /\ AuthorInv(p) /\ StoringInv(p)
    BY DEF ReadInv, AuthorInv, StoringInv, Loading, Succeeded
  <1>3. (\A s \in Subjects : StoredInv(s)) /\ EvidenceIsAuthorized
    BY DEF StoredInv, EvidenceIsAuthorized
  <1> QED
    BY <1>1, <1>2, <1>3 DEF DInv

(***************************************************************************)
(* Types.                                                                  *)
(***************************************************************************)

\* The evidence that a storing invocation hands over is what was asked for.
LEMMA ProvenanceAsked ==
  ASSUME DInv, NEW p \in Invocations, pc[p] \in {"store", "persist", "receipt"}
  PROVE  /\ Provenance(p) = Asked(p) /\ Provenance(p) \in Evidence
         /\ manifest[p] \in Subjects /\ candidate[p] = manifest[p] /\ Subject(p) = manifest[p]
  <1>1. /\ manifest[p] \in Subjects /\ candidate[p] = manifest[p] /\ Subject(p) = manifest[p]
        /\ Authenticated(p) => publisher[p] = Asked(p) /\ args[p].trusted \in Keys
    BY DEF DInv, ReadInv, AuthorInv, Loading
  <1>2. ~Authenticated(p) => args[p].trusted = Unsigned
    BY DEF Authenticated
  <1> QED
    BY <1>1, <1>2 DEF Provenance, Asked, Evidence

LEMMA TypeNext == DInv /\ [Next]_vars => TypeOK'
  <1> SUFFICES ASSUME DInv, [Next]_vars PROVE TypeOK'
    OBVIOUS
  <1>0. TypeOK
    BY DEF DInv
  <1> USE DeliveryAssumption DEF TypeOK, Goto, Fail, store, local, Kinds, Files
  <1>1. ASSUME NEW p \in Invocations, ReadManifest(p) \/ NoStoreRoot(p) PROVE TypeOK'
    BY <1>0, <1>1 DEF ReadManifest, NoStoreRoot
  <1>2. ASSUME NEW p \in Invocations, ReadKey(p) PROVE TypeOK'
    BY <1>0, <1>2 DEF ReadKey
  <1>3. ASSUME NEW p \in Invocations, ReadSignature(p) PROVE TypeOK'
    BY <1>0, <1>3 DEF ReadSignature, Files, Bad
  <1>4. ASSUME NEW p \in Invocations, AuthorizePublisher(p) PROVE TypeOK'
    <2>1. key[p] \in Keys /\ Subject(p) \in Subjects
      BY <1>4 DEF AuthorizePublisher, DInv, ReadInv
    <2>2. [publisher |-> key[p], subject |-> Subject(p)] \in Evidence
      BY <2>1 DEF Evidence
    <2> QED
      BY <1>0, <1>4, <2>2 DEF AuthorizePublisher
  <1>5. ASSUME NEW p \in Invocations, RefusePublisher(p) \/ LoadFails(p) \/ VerifyCandidate(p) PROVE TypeOK'
    BY <1>0, <1>5 DEF RefusePublisher, LoadFails, VerifyCandidate
  <1>6. ASSUME NEW p \in Invocations, LoadCandidate(p) PROVE TypeOK'
    BY <1>0, <1>6 DEF LoadCandidate
  <1>7. ASSUME NEW p \in Invocations, StorePublishes(p) PROVE TypeOK'
    <2>1. /\ Provenance(p) \in Evidence /\ manifest[p] \in Subjects
          /\ [by |-> p, content |-> candidate[p]] \in [by : Invocations, content : Subjects]
      BY <1>7, ProvenanceAsked DEF StorePublishes
    <2> QED
      BY <1>0, <1>7, <2>1 DEF StorePublishes, Store!Publish
  <1>8. ASSUME NEW p \in Invocations, StorePersists(p) PROVE TypeOK'
    BY <1>0, <1>8 DEF StorePersists, Store!Persist
  <1>9. ASSUME NEW p \in Invocations, StoreInstalled(p) \/ StoreReuses(p) PROVE TypeOK'
    <2>1. Provenance(p) \in Evidence /\ manifest[p] \in Subjects
      BY <1>9, ProvenanceAsked DEF StoreInstalled, StoreReuses
    <2>2. /\ receipts' \subseteq Receipt
          /\ UNCHANGED <<files, published, durable, stored, local, rewrites, args>>
      <3> DEFINE r(reused) == [by |-> p, subject |-> manifest[p], evidence |-> Provenance(p),
                               reused |-> reused]
      <3>1. \A reused \in BOOLEAN : r(reused) \in Receipt
        BY <2>1 DEF Receipt
      <3>2. \E reused \in BOOLEAN : receipts' = receipts \cup {r(reused)}
        BY <1>9 DEF StoreInstalled, StoreReuses, Acknowledged, Store!Acknowledge
      <3>3. UNCHANGED <<files, published, durable, stored, local, rewrites, args>>
        BY <1>9 DEF StoreInstalled, StoreReuses, Acknowledged, Store!Acknowledge
      <3> QED
        BY <1>0, <3>1, <3>2, <3>3
    <2>3. /\ pc' = [pc EXCEPT ![p] = "render"]
          /\ \E o \in {"installed", "reused"} : outcome' = [outcome EXCEPT ![p] = o]
      BY <1>9 DEF StoreInstalled, StoreReuses, Acknowledged
    <2> QED
      BY <1>0, <2>2, <2>3
  <1>10. ASSUME NEW p \in Invocations, StoreFails(p) \/ Render(p) PROVE TypeOK'
    BY <1>0, <1>10 DEF StoreFails, Render
  <1>11. CASE Rewrite
    <2>1. rewrites' \in 0 .. MaxRewrites /\ UNCHANGED <<store, pc, args, local, outcome>>
      BY <1>0, <1>11 DEF Rewrite
    <2>2. files' \in Files
      BY <1>0, <1>11 DEF Rewrite
    <2> QED
      BY <1>0, <2>1, <2>2
  <1>12. CASE UNCHANGED vars
    BY <1>0, <1>12 DEF vars
  <1> HIDE DEF TypeOK, Goto, Fail, store, local, Kinds, Files
  <1>13. ASSUME NEW p \in Invocations, Step(p) PROVE TypeOK'
    BY <1>1, <1>2, <1>3, <1>4, <1>5, <1>6, <1>7, <1>8, <1>9, <1>10, <1>13 DEF Step
  <1> QED
    BY <1>11, <1>12, <1>13 DEF Next

(***************************************************************************)
(* Steps.                                                                  *)
(***************************************************************************)

KeepsLocals(q) ==
  /\ pc'[q] = pc[q] /\ outcome'[q] = outcome[q] /\ manifest'[q] = manifest[q] /\ key'[q] = key[q]
  /\ signature'[q] = signature[q] /\ publisher'[q] = publisher[q] /\ candidate'[q] = candidate[q]

\* Nobody changes another one's locals or a record that is there.
Frame(p) ==
  /\ \A q \in Invocations \ {p} : KeepsLocals(q)
  /\ args' = args
  /\ \A s \in Subjects : published[s] # NoEvidence => published'[s] = published[s]
  /\ UNCHANGED stored \/ StorePublishes(p)
  /\ UNCHANGED published \/ StorePublishes(p)

LEMMA StepFrame ==
  ASSUME DInv, NEW p \in Invocations, Step(p)
  PROVE  Frame(p)
  <1>0. TypeOK
    BY DEF DInv
  <1> USE DEF TypeOK, Goto, Fail, store, local, Frame, KeepsLocals
  <1>1. CASE ReadManifest(p) \/ NoStoreRoot(p)
    BY <1>0, <1>1 DEF ReadManifest, NoStoreRoot
  <1>2. CASE ReadKey(p) \/ ReadSignature(p)
    BY <1>0, <1>2 DEF ReadKey, ReadSignature
  <1>3. CASE AuthorizePublisher(p) \/ RefusePublisher(p)
    BY <1>0, <1>3 DEF AuthorizePublisher, RefusePublisher
  <1>4. CASE LoadFails(p) \/ VerifyCandidate(p) \/ LoadCandidate(p)
    BY <1>0, <1>4 DEF LoadFails, VerifyCandidate, LoadCandidate
  <1>5. CASE StorePublishes(p)
    BY <1>0, <1>5, ProvenanceAsked DEF StorePublishes, Store!Publish
  <1>6. CASE StorePersists(p)
    BY <1>0, <1>6 DEF StorePersists, Store!Persist
  <1>7. CASE StoreInstalled(p) \/ StoreReuses(p)
    BY <1>0, <1>7 DEF StoreInstalled, StoreReuses, Acknowledged, Store!Acknowledge
  <1>8. CASE StoreFails(p) \/ Render(p)
    BY <1>0, <1>8 DEF StoreFails, Render
  <1> HIDE DEF TypeOK, Goto, Fail, store, local, Frame, KeepsLocals
  <1> QED
    BY <1>1, <1>2, <1>3, <1>4, <1>5, <1>6, <1>7, <1>8 DEF Step

\* A record an invocation relies on stays, so what holds of an invocation
\* holds after the step of another one.
LEMMA OthersKeep ==
  ASSUME DInv, NEW p \in Invocations, Frame(p), NEW q \in Invocations, q # p
  PROVE  ReadInv(q)' /\ AuthorInv(q)' /\ StoringInv(q)'
  <1>1. ReadInv(q) /\ AuthorInv(q) /\ StoringInv(q) /\ KeepsLocals(q) /\ args' = args
    BY DEF DInv, Frame
  <1>2. Asked(q)' = Asked(q) /\ Subject(q)' = Subject(q) /\ (Authenticated(q)' <=> Authenticated(q))
    BY <1>1 DEF Asked, Subject, Authenticated
  <1>3. ReadInv(q)'
    BY <1>1, <1>2 DEF ReadInv, KeepsLocals
  <1>4. AuthorInv(q)'
    BY <1>1, <1>2 DEF AuthorInv, KeepsLocals
  <1>5. \A s \in Subjects : published[s] \in Evidence => published'[s] = published[s]
    BY DeliveryAssumption DEF Frame, Evidence
  <1>6. StoringInv(q)'
    <2>1. pc[q] \in {"persist", "receipt"} => manifest[q] \in Subjects
      BY <1>1 DEF ReadInv
    <2>2. outcome[q] \in Succeeded => Subject(q) \in Subjects
      BY <1>1 DEF ReadInv
    <2> QED
      BY <1>1, <1>2, <1>5, <2>1, <2>2 DEF StoringInv, KeepsLocals
  <1> QED
    BY <1>3, <1>4, <1>6

\* What an invocation establishes by its own step.
LEMMA OwnKeeps ==
  ASSUME DInv, NEW p \in Invocations, Step(p)
  PROVE  ReadInv(p)' /\ AuthorInv(p)' /\ StoringInv(p)'
  <1>0. TypeOK /\ ReadInv(p) /\ AuthorInv(p) /\ StoringInv(p)
    BY DEF DInv
  <1> USE DEF TypeOK, Goto, Fail, store, local, ReadInv, AuthorInv, StoringInv, Asked, Subject,
          Authenticated, Loading, Succeeded, Kinds
  <1>1. CASE ReadManifest(p) \/ NoStoreRoot(p)
    BY <1>0, <1>1, DeliveryAssumption DEF ReadManifest, NoStoreRoot, Files, Args, Bad
  <1>2. CASE ReadKey(p)
    BY <1>0, <1>2 DEF ReadKey, Files, Bad
  <1>3. CASE ReadSignature(p)
    BY <1>0, <1>3 DEF ReadSignature, Files, Bad
  <1>4. CASE AuthorizePublisher(p)
    <2>1. /\ pc[p] = "publisher" /\ pc' = [pc EXCEPT ![p] = "load"] /\ key[p] = args[p].trusted
          /\ key[p] \in Keys \ WeakKeys /\ [key |-> key[p], subject |-> Subject(p)] \in Signatures
          /\ publisher' = [publisher EXCEPT ![p] = [publisher |-> key[p], subject |-> Subject(p)]]
          /\ UNCHANGED <<args, manifest, key, signature, candidate, outcome, published>>
      BY <1>0, <1>4 DEF AuthorizePublisher, Verified, Allowed
    <2> QED
      BY <1>0, <2>1
  <1>5. CASE RefusePublisher(p) \/ LoadFails(p)
    BY <1>0, <1>5 DEF RefusePublisher, LoadFails
  <1>6. CASE LoadCandidate(p)
    BY <1>0, <1>6 DEF LoadCandidate
  <1>7. CASE VerifyCandidate(p)
    BY <1>0, <1>7 DEF VerifyCandidate, Matches
  <1>8. CASE StorePublishes(p)
    BY <1>0, <1>8, ProvenanceAsked DEF StorePublishes, Store!Publish
  <1>9. CASE StorePersists(p)
    BY <1>0, <1>9 DEF StorePersists, Store!Persist
  <1>10. CASE StoreInstalled(p) \/ StoreReuses(p)
    <2>1. Provenance(p) = Asked(p) /\ Provenance(p) \in Evidence /\ Subject(p) = manifest[p]
      BY <1>10, ProvenanceAsked DEF StoreInstalled, StoreReuses
    <2>2. published[manifest[p]] = Provenance(p) /\ UNCHANGED published
      BY <1>10 DEF StoreInstalled, StoreReuses, Acknowledged, Store!Acknowledge
    <2> QED
      BY <1>0, <1>10, <2>1, <2>2 DEF StoreInstalled, StoreReuses, Acknowledged
  <1>11. CASE StoreFails(p) \/ Render(p)
    BY <1>0, <1>11 DEF StoreFails, Render
  <1> HIDE DEF TypeOK, Goto, Fail, store, local, ReadInv, AuthorInv, StoringInv, Asked, Subject,
          Authenticated, Loading, Succeeded, Kinds
  <1> QED
    BY <1>1, <1>2, <1>3, <1>4, <1>5, <1>6, <1>7, <1>8, <1>9, <1>10, <1>11 DEF Step

\* Who has stored something goes on to report that it did, or that the store
\* or the output failed.
LEMMA StorerGoesOn ==
  ASSUME DInv, NEW p \in Invocations, Step(p), pc[p] \in {"persist", "receipt", "render", "done"},
         outcome[p] \notin Kinds \ {"Output"}
  PROVE  /\ pc'[p] \in {"persist", "receipt", "render", "done"}
         /\ outcome'[p] \notin Kinds \ {"Output"}
         /\ UNCHANGED stored
  <1> USE DEF DInv, TypeOK, Goto, Fail, store, Kinds
  <1>1. StorePersists(p) \/ StoreInstalled(p) \/ StoreFails(p) \/ Render(p)
    BY DEF Step, ReadManifest, NoStoreRoot, ReadKey, ReadSignature, AuthorizePublisher, RefusePublisher,
       LoadCandidate, LoadFails, VerifyCandidate, StorePublishes, StoreReuses
  <1>2. CASE StorePersists(p) \/ StoreInstalled(p)
    BY <1>2 DEF StorePersists, StoreInstalled, Acknowledged
  <1>3. CASE StoreFails(p) \/ Render(p)
    BY <1>3 DEF StoreFails, Render
  <1> QED
    BY <1>1, <1>2, <1>3

LEMMA StoredStep ==
  ASSUME DInv, NEW p \in Invocations, Step(p), Frame(p), NEW s \in Subjects
  PROVE  StoredInv(s)'
  <1>0. TypeOK /\ StoredInv(s)
    BY DEF DInv
  <1>1. CASE StorePublishes(p) /\ s = manifest[p]
    <2>1. /\ stored'[s] = [by |-> p, content |-> candidate[p]] /\ candidate[p] = s
          /\ pc'[p] = "persist" /\ outcome'[p] = "none"
      <3>1. pc[p] = "store" /\ candidate[p] = s /\ outcome[p] = "none"
        BY <1>1, ProvenanceAsked DEF StorePublishes, Goto, DInv, StoringInv
      <3> QED
        BY <1>0, <1>1, <3>1 DEF StorePublishes, Goto, TypeOK
    <2> QED
      BY <2>1 DEF StoredInv, Kinds
  <1>2. CASE ~(StorePublishes(p) /\ s = manifest[p]) /\ stored[s] # NoEvidence
    <2>1. stored'[s] = stored[s] /\ stored[s].by \in Invocations
      BY <1>0, <1>2 DEF Frame, StorePublishes, TypeOK
    <2>2. CASE stored[s].by = p
      BY <1>0, <1>2, <2>1, <2>2, StorerGoesOn DEF StoredInv
    <2>3. CASE stored[s].by # p
      BY <1>0, <1>2, <2>1, <2>3 DEF StoredInv, Frame, KeepsLocals
    <2> QED
      BY <2>2, <2>3
  <1>3. CASE ~(StorePublishes(p) /\ s = manifest[p]) /\ stored[s] = NoEvidence
    BY <1>0, <1>3 DEF Frame, StorePublishes, TypeOK, StoredInv
  <1> QED
    BY <1>1, <1>2, <1>3

LEMMA EvidenceStep ==
  ASSUME DInv, NEW p \in Invocations, Step(p), Frame(p)
  PROVE  EvidenceIsAuthorized'
  <1> SUFFICES ASSUME NEW s \in Subjects, published'[s] # NoEvidence, published'[s].publisher # Unsigned
               PROVE  /\ [key |-> published'[s].publisher, subject |-> s] \in Signatures
                      /\ published'[s].publisher \notin WeakKeys
                      /\ \E q \in Invocations :
                           args'[q].trusted = published'[s].publisher /\ args'[q].subject = s
    BY DEF EvidenceIsAuthorized
  <1>0. TypeOK /\ EvidenceIsAuthorized /\ args' = args
    BY DEF DInv, Frame
  <1>1. CASE published'[s] = published[s]
    BY <1>0, <1>1 DEF EvidenceIsAuthorized
  <1>2. CASE published'[s] # published[s]
    <2>1. StorePublishes(p)
      BY <1>2 DEF Frame
    <2>2. /\ s = manifest[p] /\ published'[s] = Asked(p) /\ Subject(p) = s
          /\ AuthorInv(p) /\ pc[p] = "store"
      BY <1>0, <1>2, <2>1, ProvenanceAsked DEF StorePublishes, Goto, Store!Publish, TypeOK, DInv
    <2>3. Authenticated(p) /\ published'[s].publisher = args[p].trusted
      BY <2>2 DEF Asked, Authenticated
    <2> QED
      BY <1>0, <2>2, <2>3 DEF AuthorInv, Loading, Subject
  <1> QED
    BY <1>1, <1>2

LEMMA DInvNext == DInv /\ [Next]_vars => DInv'
  <1> SUFFICES ASSUME DInv, [Next]_vars PROVE DInv'
    OBVIOUS
  <1>1. ASSUME NEW p \in Invocations, Step(p) PROVE DInv'
    <2>1. Frame(p) /\ TypeOK'
      BY <1>1, StepFrame, TypeNext DEF Next
    <2>2. \A q \in Invocations : ReadInv(q)' /\ AuthorInv(q)' /\ StoringInv(q)'
      BY <1>1, <2>1, OwnKeeps, OthersKeep
    <2>3. (\A s \in Subjects : StoredInv(s)') /\ EvidenceIsAuthorized'
      BY <1>1, <2>1, StoredStep, EvidenceStep
    <2> QED
      BY <2>1, <2>2, <2>3 DEF DInv
  <1>2. CASE Rewrite \/ UNCHANGED vars
    <2>1. UNCHANGED <<store, pc, args, local, outcome>> /\ TypeOK'
      BY <1>2, TypeNext DEF Rewrite, vars, Next
    <2> QED
      BY <2>1 DEF store, local, DInv, ReadInv, AuthorInv, StoringInv, StoredInv, EvidenceIsAuthorized,
         Asked, Subject, Authenticated
  <1> QED
    BY <1>1, <1>2 DEF Next

\* What each invocation has established at each point of its way.
THEOREM DInvInvariant == Spec => []DInv
  BY Initially, DInvNext, PTL DEF Spec

\* "Exact verified bytes": whatever is rewritten between an invocation's
\* reads, and whoever else runs, the store holds under a subject only the
\* bytes that the subject names.
THEOREM StoredVerified == Spec => []StoredIsVerified
  <1>1. DInv => StoredIsVerified
    BY DEF DInv, StoredInv, StoredIsVerified
  <1> QED
    BY <1>1, DInvInvariant, PTL

\* A published record that names a key is about a subject that this key, not
\* a weak one, has signed, and some invocation was told to trust it for it.
THEOREM EvidenceAuthorized == Spec => []EvidenceIsAuthorized
  <1>1. DInv => EvidenceIsAuthorized
    BY DEF DInv
  <1> QED
    BY <1>1, DInvInvariant, PTL

\* Nothing is loaded for an authenticated request before its publisher has
\* been verified and authorized.
THEOREM LoadedAfterAuthorization == Spec => []LoadsAfterAuthorization
  <1>1. DInv => LoadsAfterAuthorization
    BY DEF DInv, AuthorInv, Asked, LoadsAfterAuthorization
  <1> QED
    BY <1>1, DInvInvariant, PTL

\* Success means that the subject is installed with the provenance asked
\* for, and a usage, input or validation error that the invocation stored
\* nothing.
THEOREM OutcomesTrue == Spec => []OutcomeIsTrue
  <1>1. DInv => SuccessIsAsAsked
    BY DEF DInv, StoringInv, Asked, Succeeded, SuccessIsAsAsked
  <1>2. DInv => RefusalStoresNothing
    BY DEF DInv, StoredInv, RefusalStoresNothing
  <1>3. DInv => OutcomeIsTrue
    BY <1>1, <1>2 DEF DInv, OutcomeIsTrue
  <1> QED
    BY <1>3, DInvInvariant, PTL

=============================================================================
