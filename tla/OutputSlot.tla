----------------------------- MODULE OutputSlot -----------------------------
(***************************************************************************)
(* What invocations without --force may rely on: the output is filled by   *)
(* one of them, or by somebody else, and stays; whoever filled it may take *)
(* its own content back as long as it has not reported success.            *)
(***************************************************************************)
CONSTANTS Procs, None, Old, Special

VARIABLES
  content,       \* whose bytes the output has
  acknowledged   \* the invocations that reported success

vars == <<content, acknowledged>>

Init == content = None /\ acknowledged = {}

Fill(c) == content = None /\ content' = c /\ UNCHANGED acknowledged

TakeBack(p) ==
  content = p /\ p \notin acknowledged /\ content' = None /\ UNCHANGED acknowledged

Acknowledge(p) == content = p /\ acknowledged' = acknowledged \cup {p} /\ UNCHANGED content

Next ==
  \/ \E c \in Procs \cup {Old, Special} : Fill(c)
  \/ \E p \in Procs : TakeBack(p) \/ Acknowledge(p)

Spec == Init /\ [][Next]_vars
=============================================================================
