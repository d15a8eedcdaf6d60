----------------------------- MODULE MCInstall -----------------------------
(***************************************************************************)
(* The instance of InstallDelivery for TLC.                                *)
(***************************************************************************)
EXTENDS InstallDelivery

CONSTANTS s1, s2, k1, k2

\* One key has signed both bundles, the other, which is weak, one.
MCSignatures == {[key |-> k1, subject |-> s1], [key |-> k1, subject |-> s2],
                 [key |-> k2, subject |-> s1]}

\* Digest-only and authenticated requests, and ones that name no digest.
MCRequests ==
  [subject : {s1}, trusted : {k1, k2, Unsigned}, printable : {TRUE}]
    \cup {[subject |-> s2, trusted |-> Unsigned, printable |-> FALSE],
          [subject |-> Malformed, trusted |-> k1, printable |-> TRUE],
          [subject |-> s1, trusted |-> Malformed, printable |-> TRUE]}

\* One bundle with the key and signature of each publisher.
MCStart ==
  {[manifest |-> s1, key |-> k, signature |-> [key |-> k, subject |-> s1], candidate |-> s1] :
     k \in {k1, k2}}
=============================================================================
