---------------------------- MODULE ContentStore ----------------------------
(***************************************************************************)
(* What the installation store promises its callers: a register per        *)
(* bundle subject that is written once, with the evidence of whoever       *)
(* published it, and receipts that tell the truth about it.                *)
(*                                                                         *)
(* Nothing is said of locks, quarantine directories or processes.          *)
(* InstallStore implements this module.                                    *)
(***************************************************************************)
CONSTANTS
  Subjects,    \* bundle subjects
  Evidence,    \* [publisher, subject] records
  NoEvidence,  \* the subject is not published
  Receipts     \* [by, nth, subject, evidence, reused] records

VARIABLES
  published,   \* the evidence each subject is published with
  durable,     \* would the subject survive a power loss?
  receipts     \* the receipts handed out so far

vars == <<published, durable, receipts>>

Init ==
  /\ published = [s \in Subjects |-> NoEvidence]
  /\ durable = [s \in Subjects |-> FALSE]
  /\ receipts = {}

\* Only an unpublished subject, and only with evidence about itself.
Publish(s, e) ==
  /\ published[s] = NoEvidence
  /\ e.subject = s
  /\ published' = [published EXCEPT ![s] = e]
  /\ durable' = [durable EXCEPT ![s] = FALSE]
  /\ UNCHANGED receipts

Persist(s) ==
  /\ published[s] # NoEvidence
  /\ durable' = [durable EXCEPT ![s] = TRUE]
  /\ UNCHANGED <<published, receipts>>

\* A receipt names the published evidence; the one receipt that claims to
\* have published the subject is given out only once it is durable.
Acknowledge(r) ==
  /\ published[r.subject] = r.evidence
  /\ ~r.reused =>
       /\ durable[r.subject]
       /\ \A q \in receipts : q.subject = r.subject => q.reused
  /\ receipts' = receipts \cup {r}
  /\ UNCHANGED <<published, durable>>

\* A power loss: what is not durable may be gone, what is left is durable.
Lose ==
  \E lost \in SUBSET {s \in Subjects : published[s] # NoEvidence /\ ~durable[s]} :
    /\ published' = [s \in Subjects |-> IF s \in lost THEN NoEvidence ELSE published[s]]
    /\ durable' = [s \in Subjects |-> published'[s] # NoEvidence]
    /\ UNCHANGED receipts

Next ==
  \/ \E s \in Subjects, e \in Evidence : Publish(s, e)
  \/ \E s \in Subjects : Persist(s)
  \/ \E r \in Receipts : Acknowledge(r)
  \/ Lose

Spec == Init /\ [][Next]_vars
=============================================================================
