----------------------------- MODULE MCCommands -----------------------------
(***************************************************************************)
(* Instances of CommandLine and of PackCommands for TLC. The two share no  *)
(* state, so one run checks them as alternatives: `part` says which of the *)
(* two moves, and the other rests in an initial state of its own.          *)
(*                                                                         *)
(* For PackCommands, any one thing wrong with a request. For CommandLine,  *)
(* full command lines, their options in several orders, and what one slip  *)
(* makes of each.                                                          *)
(***************************************************************************)
EXTENDS PackCommands

LOCAL INSTANCE SequencesExt

CONSTANTS Raw, Absent

MCPackFiles == {"good", "no root", "not UTF-8", "invalid"}
Lock(carrier, size, bytes) == [carrier |-> carrier, size |-> size, bytes |-> bytes]
MCLockFiles ==
  {Lock("sound", size, "v1") : size \in {"small", "large", "oversized"}}
  \cup {Lock(carrier, size, "invalid") : carrier \in {"sound", "broken"}, size \in {"small", "large"}}

Good == [text |-> "good", protocol |-> "v1", id |-> 2]
MCRequests ==
  {[Good EXCEPT !.text = t] : t \in {"good", "stdin fails", "empty", "too deep"}}
  \cup {[Good EXCEPT !.protocol = "v9"], [Good EXCEPT !.id = 0], [Good EXCEPT !.id = 3]}
-----------------------------------------------------------------------------
\* A command and its arguments, by option.
Full ==
  {<<"validate", <<"--pack", "a">>, <<"--profile", "b">>, <<"--format", "json">>, <<"--no-color">>>>,
   <<"inspect", <<"--profile", "b">>, <<"--pack", "a">>, <<"--format", "human">>>>,
   <<"verify", <<"--lock", "l">>, <<"--pack", "a">>, <<"--profile", "b">>>>,
   <<"compose", <<"--pack", "a">>, <<"--profile", "b">>, <<"--output", "o">>, <<"--force">>>>,
   <<"lock", <<"--pack", "a">>, <<"--profile", "b">>>>,
   <<"diff", <<"a">>, <<"b">>, <<"--format", "json">>>>,
   <<"rpc", <<"--no-color">>>>,
   <<"install", <<"c">>, <<"--bundle-manifest", "m">>, <<"--subject", "s">>, <<"--store", Raw>>>>,
   <<"install", <<"c">>, <<"--bundle-manifest", "m">>, <<"--subject", "s">>,
     <<"--publisher-public-key", "k">>, <<"--publisher-signature", "g">>,
     <<"--trusted-key-sha256", "t">>, <<"--candidate-format", "ustar">>>>}

Rotated(s, k) == SubSeq(s, k + 1, Len(s)) \o SubSeq(s, 1, k)

Orders(f) ==
  {<<f[1]>> \o FlattenSeq(Rotated(s, k)) : s \in {Tail(f), Reverse(Tail(f))}, k \in 0 .. Len(f) - 2}

Slips == {"--publisher-public-key", "--publisher-signature", "--trusted-key-sha256", "--help", "-h",
          "--format", "--force", "--no-color", "--unknown", "help", Raw, "a"}

Slipped(l) ==
  {l} \cup {RemoveAt(l, i) : i \in DOMAIN l}
      \cup {InsertAt(l, i, l[i]) : i \in DOMAIN l}
      \cup {InsertAt(l, i, t) : i \in DOMAIN l, t \in Slips}
      \cup {ReplaceAt(l, i, t) : i \in DOMAIN l, t \in Slips}

MCLines == UNION {Slipped(l) : l \in UNION {Orders(f) : f \in Full}}
             \cup {<<"compose", "--pack", "a", "--profile", "b">>}
             \cup {<<>>, <<"version">>, <<"--help">>, <<"help", "a">>, <<"install", "--help">>}
-----------------------------------------------------------------------------
VARIABLES part, line, next, command, given, paths, pc, kind, undelivered, exit

lineVars == <<line, next, command, given, paths, pc, kind, undelivered, exit>>

Line == INSTANCE CommandLine WITH Lines <- MCLines

PacksRest ==
  /\ packFile = "good" /\ lockFile = Lock("sound", "small", "v1") /\ sources = "v1"
  /\ profile = "good" /\ request = Good
  /\ Init /\ run["cli"].op = "validate" /\ run["rpc"].op = "capabilities"

MCInit ==
  \/ part = "packs" /\ line = <<"version">> /\ Line!Init /\ Init
  \/ part = "line" /\ PacksRest /\ Line!Init

MCNext ==
  /\ UNCHANGED part
  /\ \/ part = "packs" /\ Next /\ UNCHANGED lineVars
     \/ part = "line" /\ Line!Next /\ UNCHANGED vars

MCSpec == MCInit /\ [][MCNext]_<<part, vars, lineVars>>

\* A command line is run as its usage says, or refused, and an exit code other
\* than 6 comes with the whole result, but for the rest of a raw one.
LinesRunAsTheyRead == Line!LinesRunAsTheyRead

\* usage.md: a failure of stdout is told by exit code 6.
LossIsTold == Line!LossIsTold
=============================================================================
