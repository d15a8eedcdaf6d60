---------------------------- MODULE PackCommands ----------------------------
(***************************************************************************)
(* The commands on packs and locks, from their inputs to their answer, by  *)
(* both ways in: the command line (crates/invokrum-cli/src/command.rs) and *)
(* one request of the host protocol (rpc.rs, over resolve_bundle and       *)
(* verify_bundle of crates/invokrum-host/src/lib.rs). A command reads its  *)
(* files one after the other, and they may be edited in between. Parsing,  *)
(* composition, locks and the output file have modules of their own: here  *)
(* is what their outcomes are turned into. Whether stdout takes an answer  *)
(* is told in CommandLine.                                                 *)
(***************************************************************************)
EXTENDS Naturals, Sequences, FiniteSets, EarlyReturn

CONSTANTS
  PackFiles, LockFiles,  \* what the pack path and the lock may be
  Requests,    \* [text, protocol, id]: what may be wrong with a request of the protocol
  MaxId,       \* the longest request_id, 128 bytes in the code
  MaxEdits     \* edits of the pack and its sources (bound of the model)

\* What is assumed of the constants.
ASSUME PackCommandsAssumption ==
  /\ PackFiles \subseteq {"good", "bad name", "no root", "rejected", "not UTF-8", "invalid"}
  /\ LockFiles \subseteq [carrier : {"sound", "broken"}, size : {"small", "large", "oversized"},
                         bytes : {"v1", "invalid"}]
  /\ Requests \subseteq [text : {"good", "stdin fails", "empty", "too large", "too deep", "malformed"},
                        protocol : {"v1", "v9"}, id : Nat]
  /\ MaxId \in Nat /\ MaxEdits \in Nat

Fronts == {"cli", "rpc"}

VARIABLES
  packFile,    \* what the pack path leads to
  sources,     \* what the overlays of the pack are: a version, or what is wrong
  lockFile,    \* the expected lock: [carrier, size, bytes]
  candidate,   \* the second lock of a diff: the version it locks, or "invalid"
  profile, request, edits,
  run          \* each front's command: [op, todo, kind, src, evidence, drift, answer]

vars == <<packFile, sources, lockFile, candidate, profile, request, edits, run>>
inputs == <<packFile, sources, lockFile, candidate, profile, request, edits>>

None == "none"
NoAnswer == [exit |-> 99, stdout |-> None, stderr |-> FALSE, id |-> 0, code |-> Ok]
-----------------------------------------------------------------------------
\* What each command does, in its order. The evidence is made from the composed
\* bytes in memory.
Steps(op) ==
  CASE op = "validate"                         -> <<"pack", "profile", "require">>
    [] op \in {"compose", "inspect"}           -> <<"pack", "profile", "compose">>
    [] op \in {"lock", "resolve"}              -> <<"pack", "profile", "compose", "evidence">>
    [] op = "verify" -> <<"lock", "pack", "profile", "compose", "evidence", "compare">>
    [] op = "diff"                             -> <<"lock", "candidate", "compare">>
    [] op = "capabilities"                     -> <<>>

Script(front, op) == (IF front = "rpc" THEN <<"request">> ELSE <<>>) \o Steps(op) \o <<"answer">>

\* read_bounded, validate_json_depth, the parser, the protocol, the length of the
\* identifier. A request whose lock is not small is over its own limit: base64
\* makes four bytes of three.
RequestRefusal(op) ==
  FirstOf(<<
    When(request.text = "stdin fails", "input"),
    When(request.text \in {"empty", "too large", "too deep", "malformed"}, "request"),
    When(op = "verify" /\ lockFile.size # "small", "request"),
    When(request.protocol # "v1", "request"),
    When(request.id = 0 \/ request.id > MaxId, "request")>>)

\* load_lock: a file read up to MAX_LOCKFILE_BYTES, then decoded; of a request,
\* the base64, then decoded.
LockRefusal(front) ==
  IF front = "rpc"
  THEN IF lockFile.carrier # "sound" THEN "request"
       ELSE IF lockFile.bytes = "invalid" THEN "integrity" ELSE Ok
  ELSE IF lockFile.carrier # "sound" \/ lockFile.size = "oversized" THEN "input"
       ELSE IF lockFile.bytes = "invalid" THEN "integrity" ELSE Ok

\* load_pack, the same in both: a name, a root, a file, UTF-8, a document.
PackRefusal ==
  CASE packFile \in {"bad name", "no root", "rejected", "not UTF-8"} -> "input"
    [] packFile = "invalid" -> "validation"
    [] OTHER -> Ok

\* Mutant: the command line calls a missing profile what validate calls it.
ComposeRefusalOfValidate(front) ==
  IF profile = "unknown" THEN IF front = "cli" THEN "validation" ELSE "composition"
  ELSE IF sources = "rejected" THEN "composition" ELSE Ok

\* compose: the profile is looked up, then the sources are read.
ComposeRefusal(front) ==
  IF profile = "unknown" \/ sources = "rejected" THEN "composition" ELSE Ok

Refusal(front, op, step, src) ==
  CASE step = "request"  -> RequestRefusal(op)
    [] step = "lock"     -> LockRefusal(front)
    [] step = "candidate" -> IF candidate = "invalid" THEN "integrity" ELSE Ok
    [] step = "pack"     -> PackRefusal
    [] step = "profile"  -> IF profile = "malformed" THEN "validation" ELSE Ok
    [] step = "require"  -> IF profile = "unknown" THEN "validation" ELSE Ok
    [] step = "compose"  -> ComposeRefusal(front)
    [] step = "evidence" -> IF src = "too much for a lock" THEN "integrity" ELSE Ok
    [] OTHER             -> Ok

Exit(kind) ==
  CASE kind = Ok -> 0
    [] kind \in {"request", "input"} -> 3
    [] kind \in {"validation", "composition"} -> 4
    [] kind = "output" -> 6
    [] kind = "integrity" -> 7
-----------------------------------------------------------------------------
Init ==
  /\ packFile \in PackFiles /\ lockFile \in LockFiles
  /\ sources \in {"v1", "v2", "rejected", "too much for a lock"}
  /\ profile \in {"good", "unknown", "malformed"} /\ request \in Requests /\ edits = 0
  /\ \E op \in [Fronts -> {"validate", "compose", "inspect", "lock", "resolve", "verify", "diff",
                           "capabilities"}] :
       /\ op["cli"] \in {"validate", "compose", "inspect", "lock", "verify", "diff"}
       /\ op["rpc"] \in {"capabilities", "resolve", "verify"}
       /\ candidate \in IF op["cli"] = "diff" THEN {"v1", "v2", "invalid"} ELSE {"v1"}
       /\ run = [front \in Fronts |->
            [op |-> op[front], todo |-> Script(front, op[front]), kind |-> Ok, src |-> None,
             evidence |-> None, drift |-> FALSE, answer |-> NoAnswer]]

\* Is what is compared with the expected lock another version?
Drifted(r) == lockFile.bytes # IF r.op = "diff" THEN candidate ELSE r.evidence

\* Mutant: the evidence is made from the sources as they are now.
DoneAgain(front, step) ==
  LET r == run[front]
  IN [r EXCEPT !.todo = Tail(@),
               !.src      = IF step = "compose" THEN sources ELSE @,
               !.evidence = IF step = "evidence" THEN sources ELSE @,
               !.drift    = IF step = "compare" THEN Drifted(r) ELSE @]

\* A step that went well: what the command has in its hands after it.
Done(front, step) ==
  LET r == run[front]
  IN [r EXCEPT !.todo = Tail(@),
               !.src      = IF step = "compose" THEN sources ELSE @,
               !.evidence = IF step = "evidence" THEN r.src ELSE @,
               !.drift    = IF step = "compare" THEN Drifted(r) ELSE @]

\* One step of a command, or the error that ends it.
Step(front) ==
  /\ run[front].todo # <<>> /\ Head(run[front].todo) # "answer"
  /\ LET step == Head(run[front].todo)
         refusal == Refusal(front, run[front].op, step, run[front].src)
     IN run' = [run EXCEPT ![front] =
                  IF refusal = Ok THEN Done(front, step)
                  ELSE [@ EXCEPT !.todo = <<"answer">>, !.kind = refusal]]
  /\ UNCHANGED inputs

Answer(front, answer) ==
  /\ run[front].todo = <<"answer">>
  /\ run' = [run EXCEPT ![front].todo = <<>>, ![front].answer = answer]
  /\ UNCHANGED inputs

\* A result on stdout, drift by the exit code; or the error on stderr. What is
\* composed or locked may go to a file, which may fail.
AnswerCli ==
  LET r == run["cli"]
  IN \/ /\ r.kind = Ok
        /\ Answer("cli", [NoAnswer EXCEPT !.exit = IF r.drift THEN 5 ELSE 0, !.stdout = "result"])
     \/ /\ r.kind = Ok /\ r.op \in {"compose", "lock"}
        /\ \/ Answer("cli", [NoAnswer EXCEPT !.exit = 0])
           \/ Answer("cli", [NoAnswer EXCEPT !.exit = Exit("output"), !.stderr = TRUE,
                                             !.code = "output"])
     \/ /\ r.kind # Ok
        /\ Answer("cli", [NoAnswer EXCEPT !.exit = Exit(r.kind), !.stderr = TRUE,
                                          !.code = r.kind])

\* Was the request parsed, so that its identifier is known?
Parsed(op) ==
  request.text = "good" /\ ~(op = "verify" /\ lockFile.size # "small")

\* The identifier of the response, 0 for null: whatever was parsed, as it is.
Echo(r) == IF Parsed(r.op) THEN request.id ELSE 0

\* success_execution and error_execution: one response on stdout in any case;
\* drift is a success.
AnswerRpc ==
  LET r == run["rpc"]
  IN Answer("rpc", [exit |-> Exit(r.kind), stdout |-> "response", stderr |-> FALSE,
                    id |-> Echo(r), code |-> r.kind])

\* The pack or its sources are edited while commands run.
Edit ==
  /\ edits < MaxEdits /\ edits' = edits + 1
  /\ \/ packFile' \in {"good", "invalid"} \ {packFile} /\ UNCHANGED sources
     \/ sources' \in {"v1", "v2", "rejected"} \ {sources} /\ UNCHANGED packFile
  /\ \E front \in Fronts : run[front].todo # <<>>
  /\ UNCHANGED <<lockFile, candidate, profile, request, run>>

Next == (\E front \in Fronts : Step(front)) \/ AnswerCli \/ AnswerRpc \/ Edit

Spec == Init /\ [][Next]_vars
-----------------------------------------------------------------------------
Kinds == {"request", "input", "validation", "composition", "integrity"}

TypeOK ==
  /\ \A front \in Fronts :
       LET r == run[front]
       IN /\ r.kind \in Kinds \cup {Ok}
          /\ r.answer # NoAnswer <=> r.todo = <<>>
          /\ r.drift => r.op \in {"verify", "diff"} /\ r.kind = Ok
  /\ run["cli"].kind # "request"

Answered(front) == run[front].todo = <<>>
Quiet == edits = 0
Sane == request.text = "good" /\ request.protocol = "v1" /\ request.id \in 1 .. MaxId

\* The two ways in agree: on inputs nobody touches, a lock is verified, found to
\* have drifted or refused, and a profile resolved or refused, by both alike and
\* for the same kind of reason.
FrontsAgree ==
  LET c == run["cli"]  r == run["rpc"]
  IN Answered("cli") /\ Answered("rpc") /\ Quiet /\ Sane =>
       /\ c.op = "lock" /\ r.op = "resolve" => c.kind = r.kind
       /\ c.op = "verify" /\ r.op = "verify" /\ lockFile.size = "small"
            /\ lockFile.carrier = "sound" => c.kind = r.kind /\ c.drift = r.drift

\* The evidence is about the bytes it comes with: context, lock and drift are of
\* one reading of the sources, however often they were edited. Validating reads
\* none of them (usage.md: "Validation does not read overlay files").
EvidenceIsOne ==
  \A front \in Fronts :
    LET r == run[front]
    IN /\ r.evidence # None => r.evidence = r.src
       /\ Answered(front) /\ r.op = "verify" /\ r.kind = Ok => (r.drift <=> r.src # lockFile.bytes)
       /\ r.op \in {"validate", "diff", "capabilities"} => r.src = None

\* The exit code says what was wrong, and nothing else was worse: a bad lock is
\* an error and never drift, a bad pack never a bad lock, and drift is told of
\* a lock and a pack that are both sound.
ExitTellsTheCause ==
  LET r == run["cli"]  e == r.answer.exit
      lockBad == \/ r.op \in {"verify", "diff"} /\ lockFile.bytes = "invalid"
                 \/ r.op = "diff" /\ candidate = "invalid"
      lockLost == r.op \in {"verify", "diff"}
                    /\ (lockFile.carrier = "broken" \/ lockFile.size = "oversized")
      packLost == packFile \in {"bad name", "no root", "rejected", "not UTF-8"}
  IN Answered("cli") /\ Quiet =>
       /\ e \in {0, 5} => ~lockBad /\ ~lockLost
                          /\ (r.op # "diff" => packFile = "good" /\ profile = "good")
       /\ e = 7 => lockBad \/ sources = "too much for a lock"
       /\ e = 3 => lockLost \/ (r.op # "diff" /\ packLost /\ ~lockBad)
       /\ e = 4 => /\ ~lockBad /\ ~lockLost /\ ~packLost
                   /\ packFile = "invalid" \/ profile # "good" \/ sources = "rejected"
       /\ e = 5 <=> /\ r.kind = Ok
                    /\ \/ r.op = "verify" /\ sources # "v1"
                       \/ r.op = "diff" /\ candidate # "v1"

\* A request is answered once, on stdout, under its own identifier (host-adapters.md:
\* "RPC failures still produce one JSON response on stdout. Stderr remains empty").
OneResponse ==
  Answered("rpc") =>
    LET a == run["rpc"].answer
    IN /\ a.stdout = "response" /\ ~a.stderr /\ a.exit \in {0, 3, 4, 7}
       /\ a.exit = 0 <=> a.code = Ok
       /\ a.id # 0 => a.id = request.id
       /\ a.code \notin {"request", "input"} => a.id = request.id /\ a.id # 0

\* What the schema of the response says of its identifier
\* (schemas/invokrum-host-response-v1.schema.json: "maxLength": 128).
ResponseIdFitsSchema == Answered("rpc") => run["rpc"].answer.id <= MaxId

\* What a command answers is of one reading of its inputs, told once, and told
\* as what it was.
AnswersAreExact == TypeOK /\ EvidenceIsOne /\ ExitTellsTheCause /\ OneResponse
=============================================================================
