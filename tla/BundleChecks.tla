---------------------------- MODULE BundleChecks ----------------------------
(***************************************************************************)
(* What is checked of a bundle before it is installed: its publisher       *)
(* against the trust policy (PublisherTrust), then its files against the   *)
(* manifest (VerifyCandidate). The two share no state: they are handed one *)
(* subject, in InstallDelivery.                                            *)
(***************************************************************************)
EXTENDS VerifyCandidate

CONSTANTS Policies, Assertions, Subjects, BadName, BadValue, BadMechanism, MaxAttributes, MaxRules

VARIABLES written, reported, expected, rules, assertion, trustPc, outcome

trustVars == <<written, reported, expected, rules, assertion, trustPc, outcome>>

Trust == INSTANCE PublisherTrust WITH pc <- trustPc

ASSUME PolicyAssumption == Trust!TrustAssumption

\* The policy decides as it was written, and never by default (TrustPolicy::authorize).
TrustIsExact == Trust!TrustIsExact
=============================================================================
