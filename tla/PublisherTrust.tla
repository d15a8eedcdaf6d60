--------------------------- MODULE PublisherTrust ---------------------------
(***************************************************************************)
(* Publisher identities and the host's policy about them                   *)
(* (crates/invokrum-distribution/src/lib.rs): a policy is made of rules    *)
(* one after the other, an assertion of what a verifier found, and the     *)
(* assertion is authorized, or not, for the bundle that is asked for.      *)
(*                                                                         *)
(* An attribute is <<name, value>>; BadName and BadValue stand for what    *)
(* valid_attribute_name and the check of values refuse.                    *)
(***************************************************************************)
EXTENDS Naturals, Sequences, FiniteSets, EarlyReturn

CONSTANTS
  Policies,     \* sequences of [mechanism, attributes]: the rules a host writes
  Assertions,   \* [mechanism, subject, attributes]: what a verifier reports
  Subjects, BadName, BadValue, BadMechanism,
  MaxAttributes, MaxRules  \* MAX_IDENTITY_ATTRIBUTES, MAX_TRUST_RULES

\* What is assumed of the constants.
TrustAssumption ==
  /\ MaxRules \in Nat
  /\ Policies \subseteq Seq([mechanism : STRING, attributes : Seq(STRING \X STRING)])
  /\ Assertions \subseteq [mechanism : STRING, subject : STRING, attributes : Seq(STRING \X STRING)]

VARIABLES
  written, reported, expected, \* the rules, the assertion, the subject asked for
  rules,        \* the rules made so far: [mechanism, identity]
  assertion,    \* [mechanism, subject, identity], NoAssertion before
  pc, outcome

vars == <<written, reported, expected, rules, assertion, pc, outcome>>

NoAssertion == [mechanism |-> BadMechanism]
-----------------------------------------------------------------------------
\* PublisherIdentity::new: the first attribute with something wrong about it, in
\* the order name, value, name seen before.
IdentityRefusal(attributes) ==
  IF attributes = <<>> THEN "EmptyPublisherIdentity"
  ELSE IF Len(attributes) > MaxAttributes THEN "TooManyIdentityAttributes"
  ELSE FirstIn([i \in DOMAIN attributes |-> i], LAMBDA i :
         FirstOf(<<
           When(attributes[i][1] = BadName, "InvalidIdentityAttributeName"),
           When(attributes[i][2] = BadValue, "InvalidIdentityAttributeValue"),
           When(\E j \in 1 .. i - 1 : attributes[j][1] = attributes[i][1],
                "DuplicateIdentityAttribute")>>))

\* ... and the map it makes.
Identity(attributes) ==
  [name \in {attributes[i][1] : i \in DOMAIN attributes} |->
     (CHOOSE a \in {attributes[i] : i \in DOMAIN attributes} : a[1] = name)[2]]

\* VerificationMechanism::parse, then the identity.
Refusal(made) ==
  IF made.mechanism = BadMechanism THEN "InvalidVerificationMechanism"
  ELSE IdentityRefusal(made.attributes)

ContainsAll(identity, required) ==
  \A name \in DOMAIN required : name \in DOMAIN identity /\ identity[name] = required[name]

\* Mutant: the mechanism of one rule and the identity of another.
MatchesSomewhere(rule, made) ==
  /\ \E other \in {rules[i] : i \in DOMAIN rules} : other.mechanism = made.mechanism
  /\ ContainsAll(made.identity, rule.identity)

\* TrustRule::matches.
Matches(rule, made) ==
  rule.mechanism = made.mechanism /\ ContainsAll(made.identity, rule.identity)
-----------------------------------------------------------------------------
Init ==
  /\ written \in Policies /\ reported \in Assertions /\ expected \in Subjects
  /\ rules = <<>> /\ assertion = NoAssertion /\ pc = "rules" /\ outcome = Ok

End(why) ==
  /\ pc' = "done" /\ outcome' = why
  /\ UNCHANGED <<written, reported, expected, rules, assertion>>

\* The next rule the host has written.
MakeRule ==
  /\ pc = "rules" /\ Len(rules) < Len(written)
  /\ LET rule == written[Len(rules) + 1]
     IN IF Refusal(rule) # Ok THEN End(Refusal(rule))
        ELSE /\ rules' = Append(rules, [mechanism |-> rule.mechanism,
                                        identity |-> Identity(rule.attributes)])
             /\ UNCHANGED <<written, reported, expected, assertion, pc, outcome>>

\* TrustPolicy::new.
MakePolicy ==
  /\ pc = "rules" /\ Len(rules) = Len(written)
  /\ IF rules = <<>> THEN End("EmptyTrustPolicy")
     ELSE IF Len(rules) > MaxRules THEN End("TooManyTrustRules")
     ELSE /\ pc' = "assertion"
          /\ UNCHANGED <<written, reported, expected, rules, assertion, outcome>>

\* What the verifier reports, as an assertion.
MakeAssertion ==
  /\ pc = "assertion"
  /\ IF Refusal(reported) # Ok THEN End(Refusal(reported))
     ELSE /\ assertion' = [mechanism |-> reported.mechanism, subject |-> reported.subject,
                           identity |-> Identity(reported.attributes)]
          /\ pc' = "authorize" /\ UNCHANGED <<written, reported, expected, rules, outcome>>

\* TrustPolicy::authorize.
Authorize ==
  /\ pc = "authorize"
  /\ End(IF assertion.subject # expected THEN "SubjectMismatch"
         ELSE IF \E i \in DOMAIN rules : Matches(rules[i], assertion) THEN "authorized"
         ELSE "PublisherNotAllowed")

Next == MakeRule \/ MakePolicy \/ MakeAssertion \/ Authorize

Spec == Init /\ [][Next]_vars
-----------------------------------------------------------------------------
Outcomes == {"EmptyPublisherIdentity", "TooManyIdentityAttributes", "InvalidIdentityAttributeName",
             "InvalidIdentityAttributeValue", "DuplicateIdentityAttribute", "EmptyTrustPolicy",
             "TooManyTrustRules", "InvalidVerificationMechanism", "SubjectMismatch",
             "PublisherNotAllowed", "authorized"}

TypeOK ==
  /\ pc \in {"rules", "assertion", "authorize", "done"}
  /\ outcome \in Outcomes \cup {Ok} /\ (outcome = Ok <=> pc # "done")
  /\ (pc \in {"assertion", "authorize"}) => Len(rules) \in 1 .. MaxRules

Said(made) == {made.attributes[i] : i \in DOMAIN made.attributes}

\* A publisher is authorized when, and only when, the signed subject is the one
\* asked for and everything that one single rule says, mechanism included, is
\* said of him; what else is said, and in which order, does not matter.
AuthorizedExactly ==
  /\ outcome = "authorized" =>
       /\ reported.subject = expected
       /\ \E i \in DOMAIN written : written[i].mechanism = reported.mechanism
                                    /\ Said(written[i]) \subseteq Said(reported)
  /\ outcome = "PublisherNotAllowed" =>
       /\ reported.subject = expected
       /\ \A i \in DOMAIN written :
            written[i].mechanism # reported.mechanism \/ ~(Said(written[i]) \subseteq Said(reported))

\* Nobody is let in by default: without a rule, or with one that asks for nothing,
\* or about whom no rule says a thing, there is no authorization.
NothingByDefault ==
  outcome = "authorized" =>
    /\ written # <<>> /\ \A i \in DOMAIN written : Said(written[i]) # {}
    /\ Said(reported) \cap UNION {Said(written[i]) : i \in DOMAIN written} # {}

\* The policy decides as it was written, and never by default.
TrustIsExact == TypeOK /\ AuthorizedExactly /\ NothingByDefault
=============================================================================
