---------------------------- MODULE EarlyReturn ----------------------------
(***************************************************************************)
(* A chain of checks, each returning its own error: the first one that     *)
(* applies is the one reported. Its order is part of what the code does.   *)
(***************************************************************************)
EXTENDS Naturals, Sequences

Ok == "ok"

When(condition, refusal) == [applies |-> condition, refusal |-> refusal]

\* The refusal of the first check that applies, Ok when none does.
FirstOf(checks) ==
  LET hits == {i \in DOMAIN checks : checks[i].applies}
  IN IF hits = {} THEN Ok
     ELSE checks[CHOOSE i \in hits : \A j \in hits : i <= j].refusal

\* The same along a list: the refusal of its first element that has one.
FirstIn(list, Refusal(_)) ==
  LET hits == {i \in DOMAIN list : Refusal(list[i]) # Ok}
  IN IF hits = {} THEN Ok ELSE Refusal(list[CHOOSE i \in hits : \A j \in hits : i <= j])
=============================================================================
