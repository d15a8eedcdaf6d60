------------------------- MODULE PackCommandsProofs -------------------------
(***************************************************************************)
(* Proofs about PackCommands, for any requests, any longest identifier and *)
(* any number of edits.                                                    *)
(***************************************************************************)
EXTENDS PackCommands, SequenceTheorems, WellFoundedInduction, TLAPS

(***************************************************************************)
(* Chains of checks.                                                       *)
(***************************************************************************)

LEMMA LeastExists ==
  ASSUME NEW S \in SUBSET Nat, S # {}
  PROVE  \E i \in S : \A j \in S : i <= j
  <1>1. PICK i \in S : \A j \in S : ~(<<j, i>> \in OpToRel(<, Nat))
    BY NatLessThanWellFounded, WFMin
  <1>2. \A j \in S : ~(j < i)
    BY <1>1 DEF OpToRel
  <1> QED
    BY <1>2

\* A chain is Ok when no check applies, or it is the first one that does.
LEMMA FirstOfValue ==
  ASSUME NEW n \in Nat, NEW checks, DOMAIN checks = 1 .. n
  PROVE  \/ /\ \A i \in 1 .. n : ~checks[i].applies
            /\ FirstOf(checks) = Ok
         \/ \E i \in 1 .. n :
              /\ checks[i].applies /\ \A j \in 1 .. i - 1 : ~checks[j].applies
              /\ FirstOf(checks) = checks[i].refusal
  <1> DEFINE hits  == {i \in DOMAIN checks : checks[i].applies}
             first == CHOOSE i \in hits : \A j \in hits : i <= j
  <1>1. CASE hits = {}
    BY <1>1 DEF FirstOf
  <1>2. CASE hits # {}
    <2>1. hits \in SUBSET Nat
      OBVIOUS
    <2>2. first \in hits /\ \A j \in hits : first <= j
      <3> HIDE DEF hits
      <3>1. \E i \in hits : \A j \in hits : i <= j
        BY <1>2, <2>1, LeastExists
      <3> QED
        BY <3>1
    <2>3. FirstOf(checks) = checks[first].refusal
      BY <1>2 DEF FirstOf
    <2> HIDE DEF first
    <2> QED
      BY <2>2, <2>3
  <1> QED
    BY <1>1, <1>2

(***************************************************************************)
(* The scripts: which step comes before which.                             *)
(***************************************************************************)

OpsOf(front) ==
  IF front = "cli" THEN {"validate", "compose", "inspect", "lock", "verify", "diff"}
  ELSE {"capabilities", "resolve", "verify"}

StepNames == {"pack", "profile", "require", "compose", "evidence", "lock", "candidate", "compare"}

Words == StepNames \cup {"request", "answer"}

\* The steps before the i-th of a script.
Before(front, op, i) == {Script(front, op)[j] : j \in 1 .. i - 1}

LEMMA StepsType ==
  ASSUME NEW front \in Fronts, NEW op \in OpsOf(front)
  PROVE  Steps(op) \in Seq(StepNames)
  <1> USE DEF StepNames
  <1>1. CASE op = "validate"
    BY <1>1 DEF Steps
  <1>2. CASE op \in {"compose", "inspect"}
    <2>1. Steps(op) = <<"pack", "profile", "compose">>
      BY <1>2 DEF Steps
    <2> QED
      BY <2>1
  <1>3. CASE op \in {"lock", "resolve"}
    <2>1. Steps(op) = <<"pack", "profile", "compose", "evidence">>
      BY <1>3 DEF Steps
    <2> QED
      BY <2>1
  <1>4. CASE op = "verify"
    BY <1>4 DEF Steps
  <1>5. CASE op = "diff"
    BY <1>5 DEF Steps
  <1>6. CASE op = "capabilities"
    BY <1>6 DEF Steps
  <1> QED
    BY <1>1, <1>2, <1>3, <1>4, <1>5, <1>6 DEF OpsOf, Fronts

LEMMA ScriptParts ==
  ASSUME NEW front \in Fronts, NEW op \in OpsOf(front)
  PROVE  LET S == Script(front, op)
             n == IF front = "rpc" THEN 1 ELSE 0
         IN /\ S \in Seq(Words)
            /\ Len(Steps(op)) \in Nat /\ Len(S) = n + Len(Steps(op)) + 1
            /\ front = "rpc" => S[1] = "request"
            /\ \A i \in 1 .. Len(Steps(op)) : S[n + i] = Steps(op)[i] /\ Steps(op)[i] \in StepNames
            /\ S[Len(S)] = "answer"
  <1> DEFINE T    == Words
             head == IF front = "rpc" THEN <<"request">> ELSE <<>>
             s    == Steps(op)
             tail == <<"answer">>
  <1>1. /\ head \in Seq(T) /\ Len(head) = (IF front = "rpc" THEN 1 ELSE 0)
        /\ front = "rpc" => head[1] = "request"
    <2>1. CASE front = "rpc"
      BY <2>1 DEF Words
    <2>2. CASE front # "rpc"
      BY <2>2 DEF Words
    <2> QED
      BY <2>1, <2>2
  <1>2. tail \in Seq(T) /\ Len(tail) = 1 /\ tail[1] = "answer"
    BY DEF Words
  <1>3. s \in Seq(StepNames) /\ s \in Seq(T)
    <2>1. s \in Seq(StepNames)
      BY StepsType
    <2> HIDE DEF s
    <2> QED
      BY <2>1 DEF Words
  <1>4. Script(front, op) = (head \o s) \o tail
    BY DEF Script
  <1> HIDE DEF head, s, tail
  <1>5. /\ Len(s) \in Nat /\ \A i \in 1 .. Len(s) : s[i] \in StepNames
    BY <1>3
  <1>6. /\ head \o s \in Seq(T) /\ Len(head \o s) = Len(head) + Len(s)
        /\ \A i \in 1 .. Len(head) + Len(s) :
             (head \o s)[i] = IF i <= Len(head) THEN head[i] ELSE s[i - Len(head)]
    BY <1>1, <1>3, ConcatProperties
  <1>7. /\ Script(front, op) \in Seq(T) /\ Len(Script(front, op)) = Len(head) + Len(s) + 1
        /\ \A i \in 1 .. Len(head) + Len(s) + 1 :
             Script(front, op)[i] = IF i <= Len(head) + Len(s) THEN (head \o s)[i]
                                    ELSE tail[i - (Len(head) + Len(s))]
    <2> DEFINE hs == head \o s
    <2>1. hs \in Seq(T) /\ Len(hs) = Len(head) + Len(s)
      BY <1>6
    <2> HIDE DEF hs, T
    <2>2. /\ hs \o tail \in Seq(T) /\ Len(hs \o tail) = Len(hs) + Len(tail)
          /\ \A i \in 1 .. Len(hs) + Len(tail) :
               (hs \o tail)[i] = IF i <= Len(hs) THEN hs[i] ELSE tail[i - Len(hs)]
      <3>1. hs \in Seq(T)
        BY <2>1
      <3>2. tail \in Seq(T)
        BY <1>2
      <3> QED
        BY <3>1, <3>2, ConcatProperties
    <2>3. Script(front, op) = hs \o tail
      BY <1>4 DEF hs
    <2>4. /\ Script(front, op) \in Seq(T) /\ Len(Script(front, op)) = Len(head) + Len(s) + 1
          /\ \A i \in 1 .. Len(head) + Len(s) + 1 :
               Script(front, op)[i] = IF i <= Len(head) + Len(s) THEN hs[i]
                                      ELSE tail[i - (Len(head) + Len(s))]
      BY <1>2, <2>1, <2>2, <2>3
    <2> QED
      BY <2>4 DEF hs
  <1> DEFINE S == Script(front, op)
             n == IF front = "rpc" THEN 1 ELSE 0
  <1>8. n \in 0 .. 1 /\ Len(head) = n /\ Len(S) = n + Len(s) + 1 /\ S \in Seq(T)
    BY <1>1, <1>7
  <1>9. front = "rpc" => S[1] = "request"
    BY <1>1, <1>5, <1>6, <1>7
  <1>10. \A i \in 1 .. Len(s) : S[n + i] = s[i]
    <2> HIDE DEF S, n, T
    <2>1. \A i \in 1 .. Len(s) : n + i \in 1 .. Len(head) + Len(s) /\ n + i > Len(head)
                                 /\ n + i - Len(head) = i
      BY <1>5, <1>8
    <2>2. \A i \in 1 .. Len(head) + Len(s) + 1 :
            S[i] = IF i <= Len(head) + Len(s) THEN (head \o s)[i]
                   ELSE tail[i - (Len(head) + Len(s))]
      BY <1>7 DEF S
    <2> QED
      BY <1>5, <1>6, <1>8, <2>1, <2>2
  <1>11. S[Len(S)] = "answer"
    BY <1>2, <1>5, <1>7, <1>8
  <1> HIDE DEF S
  <1> QED
    BY <1>5, <1>8, <1>9, <1>10, <1>11 DEF S, s

\* What is composed comes before its evidence, and evidence before the comparison,
\* which is the last step.
LEMMA StepsOrder ==
  ASSUME NEW front \in Fronts, NEW op \in OpsOf(front), NEW i \in 1 .. Len(Steps(op))
  PROVE  LET s == Steps(op)
         IN /\ s[i] = "evidence" => \E j \in 1 .. i - 1 : s[j] = "compose"
            /\ s[i] = "compose" => \A j \in 1 .. i - 1 : s[j] \notin {"compose", "evidence"}
            /\ s[i] = "evidence" => \A j \in 1 .. i - 1 : s[j] # "evidence"
            /\ s[i] = "compare" => /\ i = Len(s) /\ op \in {"verify", "diff"}
                                   /\ op = "verify" => \E j \in 1 .. i - 1 : s[j] = "evidence"
            /\ s[i] = "compose" => op \notin {"validate", "diff", "capabilities"}
  <1> DEFINE s == Steps(op)
  <1>1. CASE op = "validate"
    <2>1. s = <<"pack", "profile", "require">>
      BY <1>1 DEF Steps
    <2> QED
      BY <1>1, <2>1
  <1>2. CASE op \in {"compose", "inspect"}
    <2>1. s = <<"pack", "profile", "compose">>
      BY <1>2 DEF Steps
    <2> QED
      BY <1>2, <2>1
  <1>3. CASE op \in {"lock", "resolve"}
    <2>1. s = <<"pack", "profile", "compose", "evidence">>
      BY <1>3 DEF Steps
    <2>2. i = 4 => s[3] = "compose" /\ 3 \in 1 .. i - 1
      BY <2>1
    <2>3. i \in 1 .. 4 /\ (i < 4 => s[i] # "evidence")
      BY <2>1
    <2> QED
      BY <1>3, <2>1, <2>2, <2>3
  <1>4. CASE op = "verify"
    <2>1. s = <<"lock", "pack", "profile", "compose", "evidence", "compare">>
      BY <1>4 DEF Steps
    <2>2. i \in 1 .. 6 /\ (s[i] = "evidence" => i = 5) /\ (s[i] = "compare" => i = 6)
          /\ (s[i] = "compose" => i = 4)
      BY <2>1
    <2>3. s[4] = "compose" /\ s[5] = "evidence" /\ Len(s) = 6
      BY <2>1
    <2>4. \A j \in 1 .. i - 1 : (s[j] = "evidence" => j = 5) /\ (s[j] = "compose" => j = 4)
      BY <2>1
    <2> HIDE DEF s
    <2>5. s[i] = "evidence" => \E j \in 1 .. i - 1 : s[j] = "compose"
      <3>1. i = 5 => 4 \in 1 .. i - 1
        OBVIOUS
      <3> QED
        BY <2>2, <2>3, <3>1
    <2>6. s[i] = "compare" => i = Len(s) /\ \E j \in 1 .. i - 1 : s[j] = "evidence"
      <3>1. i = 6 => 5 \in 1 .. i - 1
        OBVIOUS
      <3> QED
        BY <2>2, <2>3, <3>1
    <2>7. s[i] = "compose" => \A j \in 1 .. i - 1 : s[j] \notin {"compose", "evidence"}
      BY <2>2, <2>4
    <2>8. s[i] = "evidence" => \A j \in 1 .. i - 1 : s[j] # "evidence"
      BY <2>2, <2>4
    <2> QED
      BY <1>4, <2>5, <2>6, <2>7, <2>8 DEF s
  <1>5. CASE op = "diff"
    <2>1. s = <<"lock", "candidate", "compare">>
      BY <1>5 DEF Steps
    <2>2. i \in 1 .. 3 /\ Len(s) = 3 /\ s[i] \notin {"evidence", "compose"}
          /\ (s[i] = "compare" => i = 3)
      BY <2>1
    <2> HIDE DEF s
    <2> QED
      BY <1>5, <2>2 DEF s
  <1>6. CASE op = "capabilities"
    <2>1. s = <<>>
      BY <1>6 DEF Steps
    <2> QED
      BY <2>1
  <1> QED
    BY <1>1, <1>2, <1>3, <1>4, <1>5, <1>6 DEF OpsOf, Fronts

LEMMA ScriptOrder ==
  ASSUME NEW front \in Fronts, NEW op \in OpsOf(front), NEW i \in 1 .. Len(Script(front, op))
  PROVE  LET S == Script(front, op)
             B == Before(front, op, i)
         IN /\ S[i] = "answer" <=> i = Len(S)
            /\ S[i] = "request" <=> front = "rpc" /\ i = 1
            /\ S[i] = "evidence" => "compose" \in B
            /\ S[i] = "compose" => "compose" \notin B /\ "evidence" \notin B
            /\ S[i] = "evidence" => "evidence" \notin B
            /\ S[i] = "compare" => op \in {"verify", "diff"} /\ (op = "verify" => "evidence" \in B)
            /\ i < Len(S) => "compare" \notin B
            /\ S[i] = "compose" => op \notin {"validate", "diff", "capabilities"}
  <1> DEFINE S == Script(front, op)
             s == Steps(op)
             n == IF front = "rpc" THEN 1 ELSE 0
  <1>1. /\ n \in 0 .. 1 /\ Len(s) \in Nat /\ Len(S) = n + Len(s) + 1
        /\ front = "rpc" => S[1] = "request"
        /\ \A j \in 1 .. Len(s) : S[n + j] = s[j] /\ s[j] \in StepNames
        /\ S[Len(S)] = "answer"
    BY ScriptParts
  <1>2. \A j \in n + 1 .. n + Len(s) : S[j] = s[j - n] /\ j - n \in 1 .. Len(s) /\ s[j - n] \in StepNames
    <2> HIDE DEF S, s, n
    <2> TAKE j \in n + 1 .. n + Len(s)
    <2>1. j - n \in 1 .. Len(s) /\ n + (j - n) = j
      BY <1>1
    <2> QED
      BY <1>1, <2>1
  <1>3. \A j \in 1 .. Len(S) : \/ j = 1 /\ front = "rpc" /\ S[j] = "request"
                               \/ j \in n + 1 .. n + Len(s)
                               \/ j = Len(S) /\ S[j] = "answer"
    <2> HIDE DEF S, s
    <2> QED
      BY <1>1
  <1>4. CASE i = 1 /\ front = "rpc"
    BY <1>1, <1>4 DEF Before
  <1>5. CASE i = Len(S)
    <2>1. ~(i = 1 /\ front = "rpc")
      BY <1>1, <1>5
    <2> QED
      BY <1>1, <1>5, <2>1
  <1>6. CASE i \in n + 1 .. n + Len(s)
    <2> DEFINE k == i - n
    <2>1. k \in 1 .. Len(s) /\ S[i] = s[k] /\ s[k] \in StepNames
      BY <1>2, <1>6
    <2>2. \A j \in 1 .. k - 1 : n + j \in 1 .. i - 1 /\ S[n + j] = s[j]
      <3> HIDE DEF S, s
      <3> QED
        BY <1>1, <2>1, <1>6
    <2>3. \A j \in 1 .. i - 1 : S[j] = "request" \/ (j - n \in 1 .. k - 1 /\ S[j] = s[j - n])
      <3> HIDE DEF S, s
      <3> QED
        BY <1>1, <1>2, <1>3, <1>6
    <2>4. /\ s[k] = "evidence" => \E j \in 1 .. k - 1 : s[j] = "compose"
          /\ s[k] = "compose" => \A j \in 1 .. k - 1 : s[j] \notin {"compose", "evidence"}
          /\ s[k] = "evidence" => \A j \in 1 .. k - 1 : s[j] # "evidence"
          /\ s[k] = "compare" => /\ k = Len(s) /\ op \in {"verify", "diff"}
                                 /\ op = "verify" => \E j \in 1 .. k - 1 : s[j] = "evidence"
          /\ s[k] = "compose" => op \notin {"validate", "diff", "capabilities"}
      BY <2>1, StepsOrder
    <2>5. \A j \in 1 .. k - 1 : s[j] # "compare"
      <3>1. \A j \in 1 .. k - 1 : j \in 1 .. Len(s) /\ j # Len(s)
        BY <1>1, <2>1
      <3> QED
        BY <3>1, StepsOrder
    <2>6. i < Len(S) /\ ~(i = 1 /\ front = "rpc")
      <3> HIDE DEF S, s
      <3> QED
        BY <1>1, <1>6
    <2> HIDE DEF S, s, n, k
    <2> DEFINE B == Before(front, op, i)
    <2>7. \A j \in 1 .. k - 1 : s[j] \in B
      BY <2>2 DEF Before, S
    <2>8. \A b \in B : b = "request" \/ \E j \in 1 .. k - 1 : b = s[j]
      BY <2>3 DEF Before, S
    <2> HIDE DEF B
    <2>9. /\ s[k] = "evidence" => "compose" \in B /\ "evidence" \notin B
          /\ s[k] = "compose" => "compose" \notin B /\ "evidence" \notin B
          /\ s[k] = "compare" => op \in {"verify", "diff"} /\ (op = "verify" => "evidence" \in B)
          /\ "compare" \notin B
      BY <2>4, <2>5, <2>7, <2>8
    <2>10. S[i] \notin {"answer", "request"}
      BY <2>1 DEF StepNames
    <2> QED
      BY <2>1, <2>4, <2>6, <2>9, <2>10 DEF B, S
  <1> QED
    <2> HIDE DEF S, s, n
    <2> QED
      BY <1>3, <1>4, <1>5, <1>6 DEF S

(***************************************************************************)
(* What a step may be refused for.                                         *)
(***************************************************************************)

LEMMA RequestValue ==
  ASSUME NEW op
  PROVE  /\ RequestRefusal(op) \in {"input", "request", Ok}
         /\ RequestRefusal(op) = Ok <=>
              /\ request.text \notin {"stdin fails", "empty", "too large", "too deep", "malformed"}
              /\ ~(op = "verify" /\ lockFile.size # "small")
              /\ request.protocol = "v1"
              /\ ~(request.id = 0 \/ request.id > MaxId)
  <1> DEFINE unread  == request.text = "stdin fails"
             unfit   == request.text \in {"empty", "too large", "too deep", "malformed"}
             long    == op = "verify" /\ lockFile.size # "small"
             foreign == request.protocol # "v1"
             noName  == request.id = 0 \/ request.id > MaxId
             checks  == <<When(unread, "input"), When(unfit, "request"), When(long, "request"),
                          When(foreign, "request"), When(noName, "request")>>
  <1>1. /\ DOMAIN checks = 1 .. 5
        /\ checks[1] = When(unread, "input") /\ checks[2] = When(unfit, "request")
        /\ checks[3] = When(long, "request") /\ checks[4] = When(foreign, "request")
        /\ checks[5] = When(noName, "request")
    <2> HIDE DEF unread, unfit, long, foreign, noName
    <2> QED
      OBVIOUS
  <1>2. /\ When(unread, "input").applies <=> unread
        /\ When(unread, "input").refusal = "input"
    BY DEF When
  <1>3. /\ When(unfit, "request").applies <=> unfit
        /\ When(unfit, "request").refusal = "request"
    BY DEF When
  <1>4. /\ When(long, "request").applies <=> long
        /\ When(long, "request").refusal = "request"
    BY DEF When
  <1>5. /\ When(foreign, "request").applies <=> foreign
        /\ When(foreign, "request").refusal = "request"
    BY DEF When
  <1>6. /\ When(noName, "request").applies <=> noName
        /\ When(noName, "request").refusal = "request"
    BY DEF When
  <1>7. FirstOf(checks) = RequestRefusal(op)
    BY DEF RequestRefusal
  <1> HIDE DEF checks, unread, unfit, long, foreign, noName
  <1>8. /\ FirstOf(checks) \in {"input", "request", Ok}
        /\ FirstOf(checks) = Ok <=> ~unread /\ ~unfit /\ ~long /\ ~foreign /\ ~noName
    <2>1. \/ /\ \A i \in 1 .. 5 : ~checks[i].applies
             /\ FirstOf(checks) = Ok
          \/ \E i \in 1 .. 5 : checks[i].applies /\ FirstOf(checks) = checks[i].refusal
      <3>1. 5 \in Nat /\ DOMAIN checks = 1 .. 5
        BY <1>1
      <3> QED
        BY <3>1, FirstOfValue
    <2>2. /\ checks[1].applies <=> unread
          /\ checks[2].applies <=> unfit
          /\ checks[3].applies <=> long
          /\ checks[4].applies <=> foreign
          /\ checks[5].applies <=> noName
      BY <1>1, <1>2, <1>3, <1>4, <1>5, <1>6
    <2>3. \A i \in 1 .. 5 : checks[i].refusal \in {"input", "request"}
      BY <1>1, <1>2, <1>3, <1>4, <1>5, <1>6
    <2>4. CASE \A i \in 1 .. 5 : ~checks[i].applies
      BY <2>1, <2>2, <2>4 DEF Ok
    <2>5. CASE ~(\A i \in 1 .. 5 : ~checks[i].applies)
      <3>1. unread \/ unfit \/ long \/ foreign \/ noName
        BY <2>2, <2>5
      <3>2. FirstOf(checks) \in {"input", "request"}
        BY <2>1, <2>3, <2>5
      <3> QED
        BY <3>1, <3>2 DEF Ok
    <2> QED
      BY <2>4, <2>5
  <1> QED
    BY <1>7, <1>8 DEF unread, unfit, long, foreign, noName

LEMMA RefusalValue ==
  ASSUME NEW front, NEW op, NEW step, NEW src
  PROVE  /\ Refusal(front, op, step, src) \in Kinds \cup {Ok}
         /\ front = "cli" /\ step # "request" => Refusal(front, op, step, src) # "request"
         /\ step = "request" => Refusal(front, op, step, src) = RequestRefusal(op)
         /\ step \in {"compare", "answer"} => Refusal(front, op, step, src) = Ok
         /\ step # "evidence" =>
              \A other : Refusal(front, op, step, src) = Refusal(front, op, step, other)
  <1>1. RequestRefusal(op) \in {"input", "request", Ok}
    BY RequestValue
  <1> QED
    BY <1>1 DEF Refusal, LockRefusal, PackRefusal, ComposeRefusal, Kinds, Ok

LEMMA RefusalKept ==
  ASSUME NEW front, NEW op, NEW step, NEW src,
         UNCHANGED <<packFile, sources, lockFile, candidate, profile, request>>
  PROVE  Refusal(front, op, step, src)' = Refusal(front, op, step, src)
  BY DEF Refusal, RequestRefusal, LockRefusal, PackRefusal, ComposeRefusal

(***************************************************************************)
(* The inductive invariant. A command is before the i-th step of its       *)
(* script, or was refused there; it has in its hands what the steps before *)
(* gave it.                                                                *)
(***************************************************************************)

InputsOK ==
  /\ packFile \in {"good", "bad name", "no root", "rejected", "not UTF-8", "invalid"}
  /\ sources \in {"v1", "v2", "rejected", "too much for a lock"}
  /\ lockFile \in [carrier : {"sound", "broken"}, size : {"small", "large", "oversized"},
                   bytes : {"v1", "invalid"}]
  /\ candidate \in {"v1", "v2", "invalid"}
  /\ profile \in {"good", "unknown", "malformed"}
  /\ request \in [text : {"good", "stdin fails", "empty", "too large", "too deep", "malformed"},
                  protocol : {"v1", "v9"}, id : Nat]
  /\ edits \in Nat

Versions == {"v1", "v2", "rejected", "too much for a lock", None}

RunType ==
  run \in [Fronts -> [op : OpsOf("cli") \cup OpsOf("rpc"), todo : Seq(Words),
                      kind : Kinds \cup {Ok}, src : Versions, evidence : Versions,
                      drift : BOOLEAN,
                      answer : [exit : Nat, stdout : {None, "result", "response"},
                                stderr : BOOLEAN, id : Nat, code : Kinds \cup {Ok, "output"}]]]

Reached(front, i) ==
  LET r == run[front]
      B == Before(front, r.op, i)
  IN /\ r.src # None <=> "compose" \in B
     /\ r.evidence = IF "evidence" \in B THEN r.src ELSE None
     /\ r.drift <=> "compare" \in B /\ Drifted(r)
     /\ front = "rpc" /\ i > 1 => RequestRefusal(r.op) = Ok
     /\ Quiet => /\ "compose" \in B => r.src = sources
                 /\ \A step \in B : Refusal(front, r.op, step, sources) = Ok

RefusedAt(front, i) ==
  LET r == run[front]
      S == Script(front, r.op)
  IN /\ i < Len(S)
     /\ front = "cli" => r.kind # "request"
     /\ front = "rpc" /\ i = 1 => r.kind \in {"request", "input"}
     /\ Quiet => r.kind = Refusal(front, r.op, S[i], sources)

AnswerFits(front, a) ==
  LET r == run[front]
  IN IF front = "cli"
     THEN IF r.kind # Ok THEN a.exit = Exit(r.kind)
          ELSE \/ a.exit = IF r.drift THEN 5 ELSE 0
               \/ r.op \in {"compose", "lock"} /\ a.exit \in {0, 6}
     ELSE a = [exit |-> Exit(r.kind), stdout |-> "response", stderr |-> FALSE,
               id |-> Echo(r), code |-> r.kind]

StandsAt(front, i) ==
  LET r == run[front]
      S == Script(front, r.op)
  IN /\ Reached(front, i)
     /\ r.kind # Ok => RefusedAt(front, i)
     /\ \/ /\ r.todo = IF r.kind = Ok THEN SubSeq(S, i, Len(S)) ELSE <<"answer">>
           /\ r.answer = NoAnswer
        \/ r.todo = <<>> /\ (r.kind = Ok => i = Len(S)) /\ AnswerFits(front, r.answer)

FrontInv(front) ==
  /\ run[front].op \in OpsOf(front) /\ run[front].kind \in Kinds \cup {Ok}
  /\ \E i \in 1 .. Len(Script(front, run[front].op)) : StandsAt(front, i)

IInv == InputsOK /\ RunType /\ \A front \in Fronts : FrontInv(front)

LEMMA Initially == Init => IInv
  <1> SUFFICES ASSUME Init PROVE IInv
    OBVIOUS
  <1>1. PICK op \in [Fronts -> {"validate", "compose", "inspect", "lock", "resolve", "verify",
                                "diff", "capabilities"}] :
          /\ op["cli"] \in {"validate", "compose", "inspect", "lock", "verify", "diff"}
          /\ op["rpc"] \in {"capabilities", "resolve", "verify"}
          /\ candidate \in IF op["cli"] = "diff" THEN {"v1", "v2", "invalid"} ELSE {"v1"}
          /\ run = [front \in Fronts |->
               [op |-> op[front], todo |-> Script(front, op[front]), kind |-> Ok, src |-> None,
                evidence |-> None, drift |-> FALSE, answer |-> NoAnswer]]
    BY DEF Init
  <1>2. \A front \in Fronts : op[front] \in OpsOf(front)
    BY <1>1 DEF Fronts, OpsOf
  <1>3. InputsOK
    BY <1>1, PackCommandsAssumption DEF Init, InputsOK
  <1>4. \A front \in Fronts : Script(front, op[front]) \in Seq(Words)
    BY <1>2, ScriptParts
  <1>5. RunType
    BY <1>1, <1>2, <1>4 DEF RunType, NoAnswer, None, Ok, OpsOf, Fronts, Versions
  <1>6. ASSUME NEW front \in Fronts PROVE FrontInv(front)
    <2> DEFINE S == Script(front, op[front])
    <2>1. S \in Seq(Words) /\ Len(S) \in Nat /\ Len(S) >= 1
      BY <1>2, <1>4, ScriptParts
    <2>2. Before(front, op[front], 1) = {}
      BY DEF Before
    <2>3. S = SubSeq(S, 1, Len(S))
      <3> HIDE DEF S
      <3> QED
        BY <2>1
    <2>4. StandsAt(front, 1)
      BY <1>1, <2>2, <2>3 DEF StandsAt, Reached, RefusedAt
    <2>5. run[front].op = op[front] /\ run[front].kind = Ok
      BY <1>1
    <2> QED
      BY <1>2, <2>1, <2>4, <2>5 DEF FrontInv
  <1> QED
    BY <1>3, <1>5, <1>6 DEF IInv

\* Where a command stands that has yet to answer.
LEMMA StandsBefore ==
  ASSUME IInv, NEW front \in Fronts, run[front].todo # <<>>
  PROVE  \E i \in 1 .. Len(Script(front, run[front].op)) :
           LET S == Script(front, run[front].op)
           IN /\ Reached(front, i) /\ (run[front].kind # Ok => RefusedAt(front, i))
              /\ run[front].todo = IF run[front].kind = Ok THEN SubSeq(S, i, Len(S))
                                   ELSE <<"answer">>
              /\ run[front].answer = NoAnswer
  BY DEF IInv, FrontInv, StandsAt

\* What is left of a sequence from its i-th element on.
LEMMA LeftFrom ==
  ASSUME NEW T, NEW s \in Seq(T), NEW i \in 1 .. Len(s)
  PROVE  /\ SubSeq(s, i, Len(s)) \in Seq(T) /\ Len(SubSeq(s, i, Len(s))) = Len(s) - i + 1
         /\ SubSeq(s, i, Len(s)) # <<>>
         /\ Head(SubSeq(s, i, Len(s))) = s[i]
         /\ Tail(SubSeq(s, i, Len(s))) = SubSeq(s, i + 1, Len(s))
  <1>1. SubSeq(s, i, Len(s)) \in Seq(T) /\ Len(SubSeq(s, i, Len(s))) = Len(s) - i + 1
    OBVIOUS
  <1>2. Head(SubSeq(s, i, Len(s))) = s[i]
    OBVIOUS
  <1>3. Tail(SubSeq(s, i, Len(s))) = SubSeq(s, i + 1, Len(s))
    OBVIOUS
  <1>4. SubSeq(s, i, Len(s)) # <<>>
    <2>1. Len(s) - i + 1 # 0
      OBVIOUS
    <2>2. Len(<<>>) = 0
      OBVIOUS
    <2> QED
      BY <1>1, <2>1, <2>2
  <1> QED
    BY <1>1, <1>2, <1>3, <1>4

LEMMA ScriptTail ==
  ASSUME NEW front \in Fronts, NEW op \in OpsOf(front), NEW i \in 1 .. Len(Script(front, op))
  PROVE  LET S == Script(front, op)
         IN /\ S \in Seq(Words) /\ Len(S) \in Nat
            /\ SubSeq(S, i, Len(S)) # <<>>
            /\ Head(SubSeq(S, i, Len(S))) = S[i]
            /\ Tail(SubSeq(S, i, Len(S))) = SubSeq(S, i + 1, Len(S))
            /\ SubSeq(S, i, Len(S)) = <<"answer">> => i = Len(S)
            /\ i < Len(S) => Before(front, op, i + 1) = Before(front, op, i) \cup {S[i]}
  <1> DEFINE S == Script(front, op)
  <1>1. S \in Seq(Words) /\ Len(S) \in Nat
    BY ScriptParts
  <1>2. i < Len(S) => Before(front, op, i + 1) = Before(front, op, i) \cup {S[i]}
    <2>1. 1 .. (i + 1) - 1 = (1 .. i - 1) \cup {i}
      OBVIOUS
    <2> QED
      BY <2>1 DEF Before
  <1>3. i \in 1 .. Len(S)
    OBVIOUS
  <1> HIDE DEF S
  <1>4. /\ Len(SubSeq(S, i, Len(S))) = Len(S) - i + 1
        /\ SubSeq(S, i, Len(S)) # <<>>
        /\ Head(SubSeq(S, i, Len(S))) = S[i]
        /\ Tail(SubSeq(S, i, Len(S))) = SubSeq(S, i + 1, Len(S))
    BY <1>1, <1>3, LeftFrom
  <1>5. SubSeq(S, i, Len(S)) = <<"answer">> => i = Len(S)
    <2>1. Len(<<"answer">>) = 1
      OBVIOUS
    <2> QED
      BY <1>1, <1>3, <1>4, <2>1
  <1> QED
    BY <1>1, <1>2, <1>4, <1>5 DEF S

(***************************************************************************)
(* The steps keep it.                                                      *)
(***************************************************************************)

LEMMA InputsKept ==
  ASSUME InputsOK, UNCHANGED inputs
  PROVE  InputsOK'
  <1>1. /\ packFile' = packFile /\ sources' = sources /\ lockFile' = lockFile
        /\ candidate' = candidate /\ profile' = profile /\ request' = request /\ edits' = edits
    BY DEF inputs
  <1>2. lockFile' \in [carrier : {"sound", "broken"}, size : {"small", "large", "oversized"},
                       bytes : {"v1", "invalid"}]
    BY <1>1, Zenon DEF InputsOK
  <1>3. request' \in [text : {"good", "stdin fails", "empty", "too large", "too deep", "malformed"},
                      protocol : {"v1", "v9"}, id : Nat]
    BY <1>1, Zenon DEF InputsOK
  <1>4. edits' \in Nat
    BY <1>1 DEF InputsOK
  <1>5. packFile' \in {"good", "bad name", "no root", "rejected", "not UTF-8", "invalid"}
        /\ sources' \in {"v1", "v2", "rejected", "too much for a lock"}
        /\ candidate' \in {"v1", "v2", "invalid"} /\ profile' \in {"good", "unknown", "malformed"}
    BY <1>1 DEF InputsOK
  <1> QED
    BY <1>2, <1>3, <1>4, <1>5, Zenon DEF InputsOK

\* A command that does not move stands where it stood, unless the inputs it is
\* compared with are no longer quiet.
LEMMA OtherKept ==
  ASSUME NEW front \in Fronts, FrontInv(front), run'[front] = run[front],
         UNCHANGED <<lockFile, candidate, profile, request>>,
         UNCHANGED inputs \/ ~Quiet'
  PROVE  FrontInv(front)'
  <1> DEFINE r == run[front]
             S == Script(front, r.op)
  <1>1. PICK i \in 1 .. Len(S) : StandsAt(front, i)
    BY DEF FrontInv
  <1>2. RequestRefusal(r.op)' = RequestRefusal(r.op) /\ Drifted(r)' = Drifted(r)
        /\ Echo(r)' = Echo(r)
    BY DEF RequestRefusal, Drifted, Echo, Parsed
  <1>3. Quiet' => Quiet /\ sources' = sources
                  /\ \A step : Refusal(front, r.op, step, sources)'
                               = Refusal(front, r.op, step, sources)
    BY RefusalKept DEF inputs, Quiet
  <1>4. Reached(front, i)'
    BY <1>1, <1>2, <1>3 DEF StandsAt, Reached
  <1>5. r.kind # Ok => RefusedAt(front, i)'
    BY <1>1, <1>3 DEF StandsAt, RefusedAt
  <1>6. AnswerFits(front, r.answer) => AnswerFits(front, r.answer)'
    BY <1>2 DEF AnswerFits
  <1>7. StandsAt(front, i)'
    BY <1>1, <1>4, <1>5, <1>6 DEF StandsAt
  <1> QED
    BY <1>1, <1>7 DEF FrontInv

LEMMA StepGoesOn ==
  ASSUME IInv, NEW front \in Fronts, UNCHANGED inputs,
         NEW i \in 1 .. Len(Script(front, run[front].op)) - 1,
         NEW step, step = Script(front, run[front].op)[i],
         Reached(front, i), run[front].kind = Ok, run[front].answer = NoAnswer,
         run[front].todo = SubSeq(Script(front, run[front].op), i,
                                  Len(Script(front, run[front].op))),
         Refusal(front, run[front].op, step, run[front].src) = Ok,
         run' = [run EXCEPT ![front] = Done(front, step)]
  PROVE  RunType' /\ FrontInv(front)'
  <1> DEFINE r == run[front]
             S == Script(front, r.op)
             B == Before(front, r.op, i)
             n == run'[front]
  <1>1. r.op \in OpsOf(front) /\ RunType /\ InputsOK
    BY DEF IInv, FrontInv
  <1>op. PICK op : op = r.op
    OBVIOUS
  <1>2. /\ S \in Seq(Words) /\ Len(S) \in Nat /\ i \in 1 .. Len(S) /\ i < Len(S)
        /\ i + 1 \in 1 .. Len(S)
    BY <1>1, ScriptTail
  <1>3. /\ Tail(r.todo) = SubSeq(S, i + 1, Len(S)) /\ Tail(r.todo) \in Seq(Words)
        /\ Before(front, r.op, i + 1) = B \cup {step}
    <2>1. r.todo = SubSeq(S, i, Len(S)) /\ step = S[i]
      OBVIOUS
    <2>2. /\ Tail(SubSeq(S, i, Len(S))) = SubSeq(S, i + 1, Len(S))
          /\ i < Len(S) => Before(front, r.op, i + 1) = B \cup {S[i]}
      BY <1>1, <1>2, ScriptTail
    <2> HIDE DEF r, S, B
    <2>3. SubSeq(S, i + 1, Len(S)) \in Seq(Words)
      BY <1>2
    <2> QED
      BY <1>2, <2>1, <2>2, <2>3
  <1>4. /\ n = Done(front, step) /\ \A f \in Fronts \ {front} : run'[f] = run[f]
        /\ DOMAIN run' = Fronts
    BY <1>1 DEF RunType
  <1>5. /\ r \in [op : OpsOf("cli") \cup OpsOf("rpc"), todo : Seq(Words),
                  kind : Kinds \cup {Ok}, src : Versions, evidence : Versions, drift : BOOLEAN,
                  answer : [exit : Nat, stdout : {None, "result", "response"},
                            stderr : BOOLEAN, id : Nat, code : Kinds \cup {Ok, "output"}]]
    BY <1>1 DEF RunType
  <1>6. /\ n.op = r.op /\ n.kind = Ok /\ n.answer = NoAnswer /\ n.todo = SubSeq(S, i + 1, Len(S))
        /\ n.src = (IF step = "compose" THEN sources ELSE r.src)
        /\ n.evidence = (IF step = "evidence" THEN r.src ELSE r.evidence)
        /\ n.drift = (IF step = "compare" THEN Drifted(r) ELSE r.drift)
    BY <1>3, <1>4, <1>5 DEF Done
  <1>7. RunType'
    <2>1. sources \in Versions /\ Drifted(r) \in BOOLEAN
      BY <1>1 DEF InputsOK, Versions, Drifted
    <2> HIDE DEF r
    <2>3. Done(front, step) \in [op : OpsOf("cli") \cup OpsOf("rpc"), todo : Seq(Words),
                  kind : Kinds \cup {Ok}, src : Versions, evidence : Versions, drift : BOOLEAN,
                  answer : [exit : Nat, stdout : {None, "result", "response"},
                            stderr : BOOLEAN, id : Nat, code : Kinds \cup {Ok, "output"}]]
      BY <1>3, <1>5, <2>1 DEF Done, r
    <2> QED
      BY <1>1, <2>3 DEF RunType
  <1>8. /\ S[i] = "request" <=> front = "rpc" /\ i = 1
        /\ step = "evidence" => "compose" \in B
        /\ step = "compose" => "compose" \notin B /\ "evidence" \notin B
        /\ step = "evidence" => "evidence" \notin B
        /\ "compare" \notin B
    BY <1>1, <1>2, ScriptOrder
  <1>9. /\ r.src # None <=> "compose" \in B
        /\ r.evidence = IF "evidence" \in B THEN r.src ELSE None
        /\ r.drift <=> "compare" \in B /\ Drifted(r)
        /\ front = "rpc" /\ i > 1 => RequestRefusal(r.op) = Ok
        /\ Quiet => /\ "compose" \in B => r.src = sources
                    /\ \A s \in B : Refusal(front, r.op, s, sources) = Ok
    BY DEF Reached
  <1>10. /\ RequestRefusal(op)' = RequestRefusal(op) /\ sources' = sources /\ Quiet' = Quiet
         /\ \A s : Refusal(front, op, s, sources)' = Refusal(front, op, s, sources)
    <2>1. UNCHANGED <<packFile, sources, lockFile, candidate, profile, request, edits>>
      BY DEF inputs
    <2>2. RequestRefusal(op)' = RequestRefusal(op)
      BY <2>1 DEF RequestRefusal
    <2>3. \A s : Refusal(front, op, s, sources)' = Refusal(front, op, s, sources)
      BY <2>1, RefusalKept
    <2> QED
      BY <2>1, <2>2, <2>3 DEF Quiet
  <1> HIDE DEF r, S, B, n
  <1>11. Reached(front, i + 1)'
    <2>1. n.src # None <=> "compose" \in B \cup {step}
      <3>1. sources # None
        BY <1>1 DEF InputsOK, None
      <3> QED
        BY <1>6, <1>9, <3>1
    <2>2. n.evidence = IF "evidence" \in B \cup {step} THEN n.src ELSE None
      BY <1>6, <1>8, <1>9
    <2>3. n.drift <=> "compare" \in B \cup {step} /\ Drifted(run[front])'
      <3>1. step = "compare" => Drifted(run[front])' = Drifted(r)
        <4>1. step = "compare" => n.op = r.op /\ n.evidence = r.evidence
          BY <1>6
        <4> QED
          BY <4>1 DEF Drifted, inputs, n
      <3>2. Drifted(r) \in BOOLEAN
        BY DEF Drifted
      <3> QED
        BY <1>6, <1>8, <1>9, <3>1, <3>2
    <2>4. front = "rpc" => RequestRefusal(op)' = Ok
      <3>1. CASE i = 1
        BY <1>op, <1>8, <1>10, <3>1, RefusalValue DEF S, r
      <3>2. CASE i > 1
        BY <1>op, <1>9, <1>10, <3>2
      <3> QED
        BY <3>1, <3>2
    <2>5. ASSUME Quiet'
          PROVE  /\ "compose" \in B \cup {step} => n.src = sources
                 /\ \A s \in B \cup {step} : Refusal(front, op, s, sources)' = Ok
      <3>1. "compose" \in B \cup {step} => n.src = sources
        BY <1>6, <1>9, <1>10, <2>5
      <3>2. Refusal(front, r.op, step, sources) = Refusal(front, r.op, step, r.src)
        BY <1>8, <1>9, <1>10, <2>5, RefusalValue
      <3> QED
        BY <1>op, <1>9, <1>10, <2>5, <3>1, <3>2 DEF r
    <2>6. Before(front, n.op, i + 1) = B \cup {step}
      BY <1>3, <1>6 DEF r
    <2> QED
      BY <1>op, <1>6, <1>10, <2>1, <2>2, <2>3, <2>4, <2>5, <2>6 DEF Reached, n
  <1>12. StandsAt(front, i + 1)'
    BY <1>6, <1>11 DEF StandsAt, n, S
  <1>13. FrontInv(front)'
    BY <1>1, <1>2, <1>6, <1>12 DEF FrontInv, n, S, r
  <1> QED
    BY <1>7, <1>13

LEMMA StepRefused ==
  ASSUME IInv, NEW front \in Fronts, UNCHANGED inputs,
         NEW i \in 1 .. Len(Script(front, run[front].op)) - 1,
         NEW step, step = Script(front, run[front].op)[i],
         Reached(front, i), run[front].answer = NoAnswer,
         NEW refusal, refusal = Refusal(front, run[front].op, step, run[front].src),
         refusal # Ok,
         run' = [run EXCEPT ![front] = [@ EXCEPT !.todo = <<"answer">>, !.kind = refusal]]
  PROVE  RunType' /\ FrontInv(front)'
  <1> DEFINE r == run[front]
             S == Script(front, r.op)
             n == run'[front]
  <1>1. r.op \in OpsOf(front) /\ RunType /\ InputsOK
    BY DEF IInv, FrontInv
  <1>op. PICK op : op = r.op
    OBVIOUS
  <1>2. Len(S) \in Nat /\ i \in 1 .. Len(S) /\ i < Len(S)
    BY <1>1, ScriptTail
  <1>3. refusal \in Kinds
    BY RefusalValue
  <1>4. /\ r \in [op : OpsOf("cli") \cup OpsOf("rpc"), todo : Seq(Words),
                  kind : Kinds \cup {Ok}, src : Versions, evidence : Versions, drift : BOOLEAN,
                  answer : [exit : Nat, stdout : {None, "result", "response"},
                            stderr : BOOLEAN, id : Nat, code : Kinds \cup {Ok, "output"}]]
    BY <1>1 DEF RunType
  <1>5. n = [r EXCEPT !.todo = <<"answer">>, !.kind = refusal]
    BY <1>1 DEF RunType
  <1>6. RunType'
    <2>1. <<"answer">> \in Seq(Words)
      BY DEF Words
    <2>2. n \in [op : OpsOf("cli") \cup OpsOf("rpc"), todo : Seq(Words),
                  kind : Kinds \cup {Ok}, src : Versions, evidence : Versions, drift : BOOLEAN,
                  answer : [exit : Nat, stdout : {None, "result", "response"},
                            stderr : BOOLEAN, id : Nat, code : Kinds \cup {Ok, "output"}]]
      <3> HIDE DEF r, n
      <3> QED
        BY <1>3, <1>4, <1>5, <2>1
    <2> QED
      BY <1>1, <1>5, <2>2 DEF RunType
  <1>7. /\ n.op = r.op /\ n.kind = refusal /\ n.answer = NoAnswer /\ n.todo = <<"answer">>
        /\ n.src = r.src /\ n.evidence = r.evidence /\ n.drift = r.drift
    <2>1. r.answer = NoAnswer
      OBVIOUS
    <2> HIDE DEF r, n
    <2> QED
      BY <1>4, <1>5, <2>1
  <1>8. /\ S[i] = "request" <=> front = "rpc" /\ i = 1
        /\ S[i] = "evidence" => "compose" \in Before(front, r.op, i)
    BY <1>1, <1>2, ScriptOrder
  <1>9. /\ RequestRefusal(op)' = RequestRefusal(op) /\ sources' = sources /\ Quiet' = Quiet
        /\ Drifted(run[front])' = Drifted(r)
        /\ \A s : Refusal(front, op, s, sources)' = Refusal(front, op, s, sources)
    <2>1. UNCHANGED <<packFile, sources, lockFile, candidate, profile, request, edits>>
      BY DEF inputs
    <2>2. RequestRefusal(op)' = RequestRefusal(op)
      BY <2>1 DEF RequestRefusal
    <2>3. \A s : Refusal(front, op, s, sources)' = Refusal(front, op, s, sources)
      BY <2>1, RefusalKept
    <2>4. Drifted(run[front])' = Drifted(r)
      <3>1. run'[front].op = r.op /\ run'[front].evidence = r.evidence
        BY <1>7
      <3> QED
        BY <2>1, <3>1 DEF Drifted
    <2> QED
      BY <2>1, <2>2, <2>3, <2>4 DEF Quiet
  <1>10. Reached(front, i)'
    BY <1>op, <1>7, <1>9 DEF Reached
  <1>11. /\ front = "cli" => refusal # "request"
         /\ front = "rpc" /\ i = 1 => refusal \in {"request", "input"}
    <2>1. front = "cli" => step # "request"
      BY <1>8
    <2>2. front = "rpc" /\ i = 1 => refusal = RequestRefusal(r.op)
      BY <1>8, RefusalValue
    <2>3. front = "cli" => refusal # "request"
      BY <2>1, RefusalValue
    <2>4. RequestRefusal(r.op) \in {"input", "request", Ok}
      BY RequestValue
    <2> QED
      BY <2>2, <2>3, <2>4
  <1>12. Quiet => refusal = Refusal(front, r.op, step, sources)
    <2>1. CASE step = "evidence"
      BY <1>8, <2>1 DEF Reached
    <2>2. CASE step # "evidence"
      BY <2>2, RefusalValue
    <2> QED
      BY <2>1, <2>2
  <1> HIDE DEF r, S, n
  <1>13. RefusedAt(front, i)'
    BY <1>op, <1>2, <1>7, <1>9, <1>11, <1>12 DEF RefusedAt, n, S, r
  <1>14. StandsAt(front, i)'
    BY <1>3, <1>7, <1>10, <1>13 DEF StandsAt, n, Kinds, Ok
  <1>15. FrontInv(front)'
    BY <1>1, <1>2, <1>3, <1>7, <1>14 DEF FrontInv, n, S, r
  <1> QED
    BY <1>6, <1>15

LEMMA StepKeeps ==
  ASSUME IInv, NEW front \in Fronts, Step(front)
  PROVE  IInv'
  <1> DEFINE r == run[front]
             S == Script(front, r.op)
             step == Head(r.todo)
             refusal == Refusal(front, r.op, step, r.src)
  <1>1. /\ r.todo # <<>> /\ step # "answer" /\ UNCHANGED inputs
        /\ run' = [run EXCEPT ![front] =
                     IF refusal = Ok THEN Done(front, step)
                     ELSE [@ EXCEPT !.todo = <<"answer">>, !.kind = refusal]]
    BY DEF Step
  <1>2. PICK i \in 1 .. Len(S) :
          /\ Reached(front, i) /\ (r.kind # Ok => RefusedAt(front, i))
          /\ r.todo = IF r.kind = Ok THEN SubSeq(S, i, Len(S)) ELSE <<"answer">>
          /\ r.answer = NoAnswer
    BY <1>1, StandsBefore
  <1>3. r.op \in OpsOf(front) /\ RunType /\ InputsOK /\ \A f \in Fronts : FrontInv(f)
    BY DEF IInv, FrontInv
  <1>4. r.kind = Ok
    <2>1. Head(<<"answer">>) = "answer"
      OBVIOUS
    <2> QED
      BY <1>1, <1>2, <2>1
  <1>5. step = S[i] /\ Len(S) \in Nat /\ i # Len(S)
    <2>1. /\ Len(S) \in Nat /\ Head(SubSeq(S, i, Len(S))) = S[i]
          /\ S[i] = "answer" <=> i = Len(S)
      BY <1>3, ScriptTail, ScriptOrder
    <2> QED
      BY <1>1, <1>2, <1>4, <2>1
  <1>6. i \in 1 .. Len(S) - 1
    BY <1>5
  <1>7. RunType' /\ FrontInv(front)'
    <2> HIDE DEF step, refusal
    <2>1. CASE refusal = Ok
      <3>1. run' = [run EXCEPT ![front] = Done(front, step)]
        BY <1>1, <2>1
      <3> QED
        BY <1>1, <1>2, <1>4, <1>5, <1>6, <2>1, <3>1, StepGoesOn DEF refusal
    <2>2. CASE refusal # Ok
      <3>1. run' = [run EXCEPT ![front] = [@ EXCEPT !.todo = <<"answer">>, !.kind = refusal]]
        BY <1>1, <2>2
      <3> QED
        BY <1>1, <1>2, <1>4, <1>5, <1>6, <2>2, <3>1, StepRefused DEF refusal
    <2> QED
      BY <2>1, <2>2
  <1>8. \A f \in Fronts \ {front} : FrontInv(f)'
    <2>1. \A f \in Fronts \ {front} : run'[f] = run[f]
      BY <1>1, <1>3 DEF RunType
    <2> QED
      BY <1>1, <1>3, <2>1, OtherKept DEF inputs
  <1>9. InputsOK'
    BY <1>1, <1>3, InputsKept
  <1> QED
    BY <1>7, <1>8, <1>9 DEF IInv

LEMMA AnswerKeeps ==
  ASSUME IInv, NEW front \in Fronts,
         NEW answer \in [exit : Nat, stdout : {None, "result", "response"}, stderr : BOOLEAN,
                         id : Nat, code : Kinds \cup {Ok, "output"}],
         Answer(front, answer), AnswerFits(front, answer)
  PROVE  IInv'
  <1> DEFINE r == run[front]
             S == Script(front, r.op)
             n == run'[front]
  <1>1. /\ r.todo = <<"answer">> /\ UNCHANGED inputs
        /\ run' = [run EXCEPT ![front].todo = <<>>, ![front].answer = answer]
    BY DEF Answer
  <1>2. r.op \in OpsOf(front) /\ RunType /\ InputsOK /\ r.kind \in Kinds \cup {Ok}
        /\ \A f \in Fronts : FrontInv(f)
    BY DEF IInv, FrontInv
  <1>3. r.todo # <<>>
    <2>1. Head(<<"answer">>) = "answer" /\ Len(<<"answer">>) = 1 /\ Len(<<>>) = 0
      OBVIOUS
    <2> QED
      BY <1>1, <2>1
  <1>4. PICK i \in 1 .. Len(S) :
          /\ Reached(front, i) /\ (r.kind # Ok => RefusedAt(front, i))
          /\ r.todo = IF r.kind = Ok THEN SubSeq(S, i, Len(S)) ELSE <<"answer">>
          /\ r.answer = NoAnswer
    BY <1>3, StandsBefore
  <1>5. r.kind = Ok => i = Len(S)
    BY <1>1, <1>2, <1>4, ScriptTail
  <1>6. /\ r \in [op : OpsOf("cli") \cup OpsOf("rpc"), todo : Seq(Words),
                  kind : Kinds \cup {Ok}, src : Versions, evidence : Versions, drift : BOOLEAN,
                  answer : [exit : Nat, stdout : {None, "result", "response"},
                            stderr : BOOLEAN, id : Nat, code : Kinds \cup {Ok, "output"}]]
    BY <1>2 DEF RunType
  <1>7. n = [r EXCEPT !.todo = <<>>, !.answer = answer] /\ \A f \in Fronts \ {front} : run'[f] = run[f]
    BY <1>1, <1>2 DEF RunType
  <1>8. RunType'
    <2>1. <<>> \in Seq(Words)
      OBVIOUS
    <2>2. n \in [op : OpsOf("cli") \cup OpsOf("rpc"), todo : Seq(Words),
                  kind : Kinds \cup {Ok}, src : Versions, evidence : Versions, drift : BOOLEAN,
                  answer : [exit : Nat, stdout : {None, "result", "response"},
                            stderr : BOOLEAN, id : Nat, code : Kinds \cup {Ok, "output"}]]
      <3> HIDE DEF r, n
      <3> QED
        BY <1>6, <1>7, <2>1
    <2>3. run' = [run EXCEPT ![front] = n]
      BY <1>1, <1>7
    <2> HIDE DEF n
    <2> QED
      BY <1>2, <2>2, <2>3 DEF RunType
  <1>9. /\ n.op = r.op /\ n.kind = r.kind /\ n.src = r.src /\ n.evidence = r.evidence
        /\ n.drift = r.drift /\ n.todo = <<>> /\ n.answer = answer
    <2> HIDE DEF r, n
    <2> QED
      BY <1>6, <1>7
  <1>op. PICK op : op = r.op
    OBVIOUS
  <1>10. /\ RequestRefusal(op)' = RequestRefusal(op) /\ sources' = sources /\ Quiet' = Quiet
         /\ Drifted(run[front])' = Drifted(r) /\ Echo(run[front])' = Echo(r)
         /\ \A s : Refusal(front, op, s, sources)' = Refusal(front, op, s, sources)
    <2>1. UNCHANGED <<packFile, sources, lockFile, candidate, profile, request, edits>>
      BY <1>1 DEF inputs
    <2>2. RequestRefusal(op)' = RequestRefusal(op)
      BY <2>1 DEF RequestRefusal
    <2>3. \A s : Refusal(front, op, s, sources)' = Refusal(front, op, s, sources)
      BY <2>1, RefusalKept
    <2>4. Drifted(run[front])' = Drifted(r)
      BY <1>9, <2>1 DEF Drifted
    <2>5. Echo(run[front])' = Echo(r)
      BY <1>9, <2>1 DEF Echo, Parsed
    <2> QED
      BY <2>1, <2>2, <2>3, <2>4, <2>5 DEF Quiet
  <1>11. Reached(front, i)'
    BY <1>op, <1>4, <1>9, <1>10 DEF Reached
  <1>12. r.kind # Ok => RefusedAt(front, i)'
    BY <1>op, <1>4, <1>9, <1>10 DEF RefusedAt
  <1>13. AnswerFits(front, run[front].answer)'
    BY <1>9, <1>10 DEF AnswerFits
  <1>14. StandsAt(front, i)'
    BY <1>5, <1>9, <1>11, <1>12, <1>13 DEF StandsAt
  <1>15. FrontInv(front)'
    BY <1>2, <1>9, <1>14 DEF FrontInv
  <1>16. \A f \in Fronts \ {front} : FrontInv(f)'
    BY <1>1, <1>2, <1>7, OtherKept DEF inputs
  <1>17. InputsOK'
    BY <1>1, <1>2, InputsKept
  <1> QED
    BY <1>8, <1>15, <1>16, <1>17 DEF IInv

LEMMA CliKeeps == IInv /\ AnswerCli => IInv'
  <1> DEFINE r == run["cli"]
             A == [exit : Nat, stdout : {None, "result", "response"}, stderr : BOOLEAN,
                   id : Nat, code : Kinds \cup {Ok, "output"}]
             result == [NoAnswer EXCEPT !.exit = IF r.drift THEN 5 ELSE 0, !.stdout = "result"]
             filed  == [NoAnswer EXCEPT !.exit = 0]
             lost   == [NoAnswer EXCEPT !.exit = Exit("output"), !.stderr = TRUE, !.code = "output"]
             failed == [NoAnswer EXCEPT !.exit = Exit(r.kind), !.stderr = TRUE, !.code = r.kind]
  <1> SUFFICES ASSUME IInv, AnswerCli PROVE IInv'
    OBVIOUS
  <1>1. "cli" \in Fronts /\ r.kind \in Kinds \cup {Ok}
    BY DEF Fronts, IInv, FrontInv
  <1>2. CASE r.kind = Ok /\ Answer("cli", result)
    <2>1. result \in A /\ AnswerFits("cli", result)
      BY <1>2 DEF NoAnswer, None, Ok, AnswerFits
    <2> QED
      BY <1>1, <1>2, <2>1, AnswerKeeps
  <1>3. CASE r.kind = Ok /\ r.op \in {"compose", "lock"} /\ Answer("cli", filed)
    <2>1. filed \in A /\ AnswerFits("cli", filed)
      BY <1>3 DEF NoAnswer, None, Ok, AnswerFits
    <2> QED
      BY <1>1, <1>3, <2>1, AnswerKeeps
  <1>4. CASE r.kind = Ok /\ r.op \in {"compose", "lock"} /\ Answer("cli", lost)
    <2>1. lost \in A /\ AnswerFits("cli", lost)
      BY <1>4 DEF NoAnswer, None, Ok, AnswerFits, Exit
    <2> QED
      BY <1>1, <1>4, <2>1, AnswerKeeps
  <1>5. CASE r.kind # Ok /\ Answer("cli", failed)
    <2>1. Exit(r.kind) \in Nat
      BY <1>1, <1>5 DEF Exit, Kinds
    <2>2. failed \in A /\ AnswerFits("cli", failed)
      BY <1>1, <1>5, <2>1 DEF NoAnswer, None, Ok, AnswerFits
    <2> QED
      BY <1>1, <1>5, <2>2, AnswerKeeps
  <1> QED
    BY <1>2, <1>3, <1>4, <1>5 DEF AnswerCli

LEMMA RpcKeeps == IInv /\ AnswerRpc => IInv'
  <1> DEFINE r == run["rpc"]
             response == [exit |-> Exit(r.kind), stdout |-> "response", stderr |-> FALSE,
                          id |-> Echo(r), code |-> r.kind]
  <1> SUFFICES ASSUME IInv, AnswerRpc PROVE IInv'
    OBVIOUS
  <1>1. "rpc" \in Fronts /\ r.kind \in Kinds \cup {Ok}
    BY DEF Fronts, IInv, FrontInv
  <1>2. Exit(r.kind) \in Nat
    BY <1>1 DEF Exit, Kinds, Ok
  <1>3. Echo(r) \in Nat
    BY DEF Echo, IInv, InputsOK
  <1>4. Answer("rpc", response) /\ AnswerFits("rpc", response)
    BY DEF AnswerRpc, AnswerFits
  <1>5. response \in [exit : Nat, stdout : {None, "result", "response"}, stderr : BOOLEAN,
                      id : Nat, code : Kinds \cup {Ok, "output"}]
    BY <1>1, <1>2, <1>3
  <1> HIDE DEF response
  <1> QED
    BY <1>1, <1>4, <1>5, AnswerKeeps

LEMMA EditKeeps == IInv /\ Edit => IInv'
  <1> SUFFICES ASSUME IInv, Edit PROVE IInv'
    OBVIOUS
  <1>1. /\ edits' = edits + 1 /\ UNCHANGED <<lockFile, candidate, profile, request>> /\ run' = run
        /\ packFile' \in {"good", "invalid"} \/ packFile' = packFile
        /\ sources' \in {"v1", "v2", "rejected"} \/ sources' = sources
    BY DEF Edit
  <1>2. edits \in Nat /\ InputsOK /\ RunType /\ \A front \in Fronts : FrontInv(front)
    BY DEF IInv, InputsOK
  <1>3. ~Quiet'
    BY <1>1, <1>2 DEF Quiet
  <1>4. InputsOK'
    <2>1. lockFile' = lockFile /\ candidate' = candidate /\ profile' = profile /\ request' = request
      BY <1>1
    <2>2. lockFile' \in [carrier : {"sound", "broken"}, size : {"small", "large", "oversized"},
                         bytes : {"v1", "invalid"}]
      BY <1>2, <2>1, Zenon DEF InputsOK
    <2>3. request' \in [text : {"good", "stdin fails", "empty", "too large", "too deep", "malformed"},
                        protocol : {"v1", "v9"}, id : Nat]
      BY <1>2, <2>1, Zenon DEF InputsOK
    <2>4. edits' \in Nat
      BY <1>1, <1>2
    <2>5. packFile' \in {"good", "bad name", "no root", "rejected", "not UTF-8", "invalid"}
          /\ sources' \in {"v1", "v2", "rejected", "too much for a lock"}
          /\ candidate' \in {"v1", "v2", "invalid"} /\ profile' \in {"good", "unknown", "malformed"}
      BY <1>1, <1>2, <2>1 DEF InputsOK
    <2> QED
      BY <2>2, <2>3, <2>4, <2>5, Zenon DEF InputsOK
  <1>5. RunType'
    BY <1>1, <1>2, Zenon DEF RunType
  <1>6. \A front \in Fronts : FrontInv(front)'
    BY <1>1, <1>2, <1>3, OtherKept
  <1> QED
    BY <1>4, <1>5, <1>6 DEF IInv

LEMMA Preserved == IInv /\ [Next]_vars => IInv'
  <1> SUFFICES ASSUME IInv, [Next]_vars PROVE IInv'
    OBVIOUS
  <1>1. CASE \E front \in Fronts : Step(front)
    BY <1>1, StepKeeps
  <1>2. CASE AnswerCli
    BY <1>2, CliKeeps
  <1>3. CASE AnswerRpc
    BY <1>3, RpcKeeps
  <1>4. CASE Edit
    BY <1>4, EditKeeps
  <1>5. CASE UNCHANGED vars
    <2>1. UNCHANGED inputs /\ run' = run
      BY <1>5 DEF vars, inputs
    <2>2. UNCHANGED <<lockFile, candidate, profile, request>>
      BY <2>1 DEF inputs
    <2>3. InputsOK'
      BY <2>1, InputsKept DEF IInv
    <2>4. \A front \in Fronts : FrontInv(front)'
      BY <2>1, <2>2, OtherKept DEF IInv
    <2>5. RunType'
      BY <2>1, Zenon DEF IInv, RunType
    <2> QED
      BY <2>3, <2>4, <2>5 DEF IInv
  <1> QED
    BY <1>1, <1>2, <1>3, <1>4, <1>5 DEF Next

(***************************************************************************)
(* What it says of an answer.                                              *)
(***************************************************************************)

LEMMA AnsweredAt ==
  ASSUME IInv, NEW front \in Fronts, Answered(front)
  PROVE  LET r == run[front]
             S == Script(front, r.op)
         IN \E i \in 1 .. Len(S) :
              /\ Reached(front, i) /\ (r.kind # Ok => RefusedAt(front, i) /\ i < Len(S))
              /\ (r.kind = Ok => i = Len(S)) /\ AnswerFits(front, r.answer)
  <1> DEFINE r == run[front]
             S == Script(front, r.op)
  <1>1. r.op \in OpsOf(front)
    BY DEF IInv, FrontInv
  <1>2. PICK i \in 1 .. Len(S) : StandsAt(front, i)
    BY DEF IInv, FrontInv
  <1>3. SubSeq(S, i, Len(S)) # <<>>
    BY <1>1, <1>2, ScriptTail
  <1>4. <<"answer">> # <<>>
    <2>1. Len(<<"answer">>) = 1 /\ Len(<<>>) = 0
      OBVIOUS
    <2> QED
      BY <2>1
  <1>5. r.todo = <<>>
    BY DEF Answered
  <1>6. /\ Reached(front, i) /\ (r.kind # Ok => RefusedAt(front, i))
        /\ (r.kind = Ok => i = Len(S)) /\ AnswerFits(front, r.answer)
    BY <1>2, <1>3, <1>4, <1>5 DEF StandsAt
  <1>7. r.kind # Ok => i < Len(S)
    BY <1>6 DEF RefusedAt
  <1> QED
    BY <1>2, <1>6, <1>7

\* Where a script does its steps: after those before them.
LEMMA ScriptPlace ==
  ASSUME NEW front \in Fronts, NEW op \in OpsOf(front), NEW i \in 1 .. Len(Script(front, op))
  PROVE  LET S == Script(front, op)
             s == Steps(op)
             B == Before(front, op, i)
         IN /\ i < Len(S) => \/ front = "rpc" /\ i = 1
                             \/ \E k \in 1 .. Len(s) :
                                  S[i] = s[k] /\ \A j \in 1 .. k - 1 : s[j] \in B
            /\ i = Len(S) => \A j \in 1 .. Len(s) : s[j] \in B
            /\ \A b \in B : b = "request" \/ \E j \in 1 .. Len(s) : b = s[j]
  <1> DEFINE S == Script(front, op)
             s == Steps(op)
             n == IF front = "rpc" THEN 1 ELSE 0
             B == Before(front, op, i)
  <1>1. /\ n \in 0 .. 1 /\ Len(s) \in Nat /\ Len(S) = n + Len(s) + 1
        /\ front = "rpc" => S[1] = "request"
        /\ \A j \in 1 .. Len(s) : S[n + j] = s[j]
    BY ScriptParts
  <1>2. B = {S[j] : j \in 1 .. i - 1} /\ i \in 1 .. Len(S)
    BY DEF Before
  <1>3. n = 1 => front = "rpc"
    OBVIOUS
  <1> HIDE DEF S, s, n, B
  <1>4. \A j \in 1 .. Len(s) : n + j <= i - 1 => s[j] \in B
    <2> TAKE j \in 1 .. Len(s)
    <2> HAVE n + j <= i - 1
    <2>1. n + j \in 1 .. i - 1
      BY <1>1
    <2> QED
      BY <1>1, <1>2, <2>1
  <1>5. ASSUME i < Len(S), ~(front = "rpc" /\ i = 1)
        PROVE  \E k \in 1 .. Len(s) : S[i] = s[k] /\ \A j \in 1 .. k - 1 : s[j] \in B
    <2> DEFINE k == i - n
    <2>1. k \in 1 .. Len(s) /\ n + k = i
      BY <1>1, <1>2, <1>3, <1>5
    <2>2. \A j \in 1 .. k - 1 : j \in 1 .. Len(s) /\ n + j <= i - 1
      BY <1>1, <2>1
    <2>3. S[i] = s[k] /\ \A j \in 1 .. k - 1 : s[j] \in B
      BY <1>1, <1>4, <2>1, <2>2
    <2> QED
      BY <2>1, <2>3
  <1>6. i = Len(S) => \A j \in 1 .. Len(s) : s[j] \in B
    BY <1>1, <1>4
  <1>7. \A j \in 1 .. i - 1 : S[j] = "request" \/ \E m \in 1 .. Len(s) : S[j] = s[m]
    <2> TAKE j \in 1 .. i - 1
    <2>1. CASE j = 1 /\ n = 1
      BY <1>1, <1>3, <2>1
    <2>2. CASE ~(j = 1 /\ n = 1)
      <3>1. j - n \in 1 .. Len(s) /\ n + (j - n) = j
        BY <1>1, <1>2, <2>2
      <3> QED
        BY <1>1, <3>1
    <2> QED
      BY <2>1, <2>2
  <1> QED
    BY <1>2, <1>5, <1>6, <1>7 DEF S, s, B

\* The lock is read before the pack, and the pack before the rest.
LEMMA StepsGuard ==
  ASSUME NEW front \in Fronts, NEW op \in OpsOf(front), NEW i \in 1 .. Len(Steps(op))
  PROVE  LET s == Steps(op)
         IN /\ s[i] = "lock" => op \in {"verify", "diff"}
            /\ s[i] = "candidate" => op = "diff"
            /\ s[i] = "compare" => op \in {"verify", "diff"}
            /\ s[i] = "compose" => op \notin {"validate", "diff", "capabilities"}
            /\ s[i] \in {"pack", "profile", "require", "compose", "evidence"} =>
                 /\ op # "diff"
                 /\ op = "verify" => \E j \in 1 .. i - 1 : s[j] = "lock"
            /\ s[i] \in {"profile", "require", "compose", "evidence"} =>
                 \E j \in 1 .. i - 1 : s[j] = "pack"
  <1> DEFINE s == Steps(op)
  <1>1. CASE op = "validate"
    <2>1. s = <<"pack", "profile", "require">>
      BY <1>1 DEF Steps
    <2>2. i \in 1 .. 3 /\ s[1] = "pack" /\ s[2] = "profile" /\ s[3] = "require"
          /\ (i # 1 => 1 \in 1 .. i - 1)
      BY <2>1
    <2> HIDE DEF s
    <2> QED
      BY <1>1, <2>2 DEF s
  <1>2. CASE op \in {"compose", "inspect"}
    <2>1. s = <<"pack", "profile", "compose">>
      BY <1>2 DEF Steps
    <2>2. i \in 1 .. 3 /\ s[1] = "pack" /\ s[2] = "profile" /\ s[3] = "compose"
          /\ (i # 1 => 1 \in 1 .. i - 1)
      BY <2>1
    <2> HIDE DEF s
    <2> QED
      BY <1>2, <2>2 DEF s
  <1>3. CASE op \in {"lock", "resolve"}
    <2>1. s = <<"pack", "profile", "compose", "evidence">>
      BY <1>3 DEF Steps
    <2>2. i \in 1 .. 4 /\ s[1] = "pack" /\ s[2] = "profile" /\ s[3] = "compose"
          /\ s[4] = "evidence" /\ (i # 1 => 1 \in 1 .. i - 1)
      BY <2>1
    <2> HIDE DEF s
    <2> QED
      BY <1>3, <2>2 DEF s
  <1>4. CASE op = "verify"
    <2>1. s = <<"lock", "pack", "profile", "compose", "evidence", "compare">>
      BY <1>4 DEF Steps
    <2>2. i \in 1 .. 6 /\ s[1] = "lock" /\ s[2] = "pack" /\ s[3] = "profile" /\ s[4] = "compose"
          /\ s[5] = "evidence" /\ s[6] = "compare" /\ (i # 1 => 1 \in 1 .. i - 1)
          /\ (i \notin {1, 2} => 2 \in 1 .. i - 1)
      BY <2>1
    <2> HIDE DEF s
    <2> QED
      BY <1>4, <2>2 DEF s
  <1>5. CASE op = "diff"
    <2>1. s = <<"lock", "candidate", "compare">>
      BY <1>5 DEF Steps
    <2>2. i \in 1 .. 3 /\ s[1] = "lock" /\ s[2] = "candidate" /\ s[3] = "compare"
      BY <2>1
    <2> HIDE DEF s
    <2> QED
      BY <1>5, <2>2 DEF s
  <1>6. CASE op = "capabilities"
    <2>1. s = <<>>
      BY <1>6 DEF Steps
    <2> QED
      BY <2>1
  <1> QED
    BY <1>1, <1>2, <1>3, <1>4, <1>5, <1>6 DEF OpsOf, Fronts

\* A command that went through has checked everything it uses.
LEMMA StepsWhole ==
  ASSUME NEW front \in Fronts, NEW op \in OpsOf(front), NEW B,
         \A j \in 1 .. Len(Steps(op)) : Steps(op)[j] \in B
  PROVE  /\ op \in {"verify", "diff"} => "lock" \in B /\ "compare" \in B
         /\ op = "diff" => "candidate" \in B
         /\ op = "verify" => "evidence" \in B
         /\ op \notin {"diff", "capabilities"} =>
              "pack" \in B /\ "profile" \in B /\ ("require" \in B \/ "compose" \in B)
  <1> DEFINE s == Steps(op)
  <1>1. CASE op = "validate"
    <2>1. s = <<"pack", "profile", "require">>
      BY <1>1 DEF Steps
    <2>2. Len(s) = 3 /\ s[1] = "pack" /\ s[2] = "profile" /\ s[3] = "require"
      BY <2>1
    <2> QED
      BY <1>1, <2>2
  <1>2. CASE op \in {"compose", "inspect"}
    <2>1. s = <<"pack", "profile", "compose">>
      BY <1>2 DEF Steps
    <2>2. Len(s) = 3 /\ s[1] = "pack" /\ s[2] = "profile" /\ s[3] = "compose"
      BY <2>1
    <2> QED
      BY <1>2, <2>2
  <1>3. CASE op \in {"lock", "resolve"}
    <2>1. s = <<"pack", "profile", "compose", "evidence">>
      BY <1>3 DEF Steps
    <2>2. Len(s) = 4 /\ s[1] = "pack" /\ s[2] = "profile" /\ s[3] = "compose"
      BY <2>1
    <2> QED
      BY <1>3, <2>2
  <1>4. CASE op = "verify"
    <2>1. s = <<"lock", "pack", "profile", "compose", "evidence", "compare">>
      BY <1>4 DEF Steps
    <2>2. Len(s) = 6 /\ s[1] = "lock" /\ s[2] = "pack" /\ s[3] = "profile" /\ s[4] = "compose"
          /\ s[5] = "evidence" /\ s[6] = "compare"
      BY <2>1
    <2> QED
      BY <1>4, <2>2
  <1>5. CASE op = "diff"
    <2>1. s = <<"lock", "candidate", "compare">>
      BY <1>5 DEF Steps
    <2>2. Len(s) = 3 /\ s[1] = "lock" /\ s[2] = "candidate" /\ s[3] = "compare"
      BY <2>1
    <2> QED
      BY <1>5, <2>2
  <1>6. CASE op = "capabilities"
    BY <1>6
  <1> QED
    BY <1>1, <1>2, <1>3, <1>4, <1>5, <1>6 DEF OpsOf, Fronts

\* Only what was compared, in the end, may have drifted.
LEMMA DriftIsCompared ==
  ASSUME IInv, NEW front \in Fronts, run[front].drift
  PROVE  run[front].op \in {"verify", "diff"} /\ run[front].kind = Ok
  <1> DEFINE r == run[front]
             S == Script(front, r.op)
             s == Steps(r.op)
  <1>1. PICK i \in 1 .. Len(S) : StandsAt(front, i)
    BY DEF IInv, FrontInv
  <1>2. r.op \in OpsOf(front)
    BY DEF IInv, FrontInv
  <1>3. "compare" \in Before(front, r.op, i)
    BY <1>1 DEF StandsAt, Reached
  <1>4. i = Len(S)
    <2>1. i < Len(S) => "compare" \notin Before(front, r.op, i)
      BY <1>2, ScriptOrder
    <2>2. Len(S) \in Nat
      BY <1>2, ScriptTail
    <2> QED
      BY <1>3, <2>1, <2>2
  <1>5. r.kind = Ok
    BY <1>1, <1>4 DEF StandsAt, RefusedAt
  <1>6. PICK j \in 1 .. Len(s) : s[j] = "compare"
    BY <1>2, <1>3, ScriptPlace
  <1>7. r.op \in {"verify", "diff"}
    BY <1>2, <1>6, StepsGuard
  <1> QED
    BY <1>5, <1>7

LEMMA Typed == IInv => TypeOK
  <1> SUFFICES ASSUME IInv PROVE TypeOK
    OBVIOUS
  <1>1. ASSUME NEW front \in Fronts
        PROVE  LET r == run[front]
               IN /\ r.kind \in Kinds \cup {Ok}
                  /\ r.answer # NoAnswer <=> r.todo = <<>>
                  /\ r.drift => r.op \in {"verify", "diff"} /\ r.kind = Ok
    <2> DEFINE r == run[front]
    <2>1. r.kind \in Kinds \cup {Ok}
      BY DEF IInv, FrontInv
    <2>2. r.drift => r.op \in {"verify", "diff"} /\ r.kind = Ok
      BY DriftIsCompared
    <2>3. r.todo # <<>> => r.answer = NoAnswer
      BY StandsBefore
    <2>4. ASSUME r.todo = <<>> PROVE r.answer # NoAnswer
      <3>1. AnswerFits(front, r.answer)
        BY <2>4, AnsweredAt DEF Answered
      <3>2. CASE front = "cli"
        <4>1. r.answer.exit # 99
          BY <2>1, <3>1, <3>2 DEF AnswerFits, Exit, Kinds
        <4> QED
          BY <4>1 DEF NoAnswer
      <3>3. CASE front # "cli"
        <4>1. r.answer.stdout = "response"
          BY <3>1, <3>3 DEF AnswerFits
        <4> QED
          BY <4>1 DEF NoAnswer, None
      <3> QED
        BY <3>2, <3>3
    <2> QED
      BY <2>1, <2>2, <2>3, <2>4
  <1>2. run["cli"].kind # "request"
    <2>1. "cli" \in Fronts
      BY DEF Fronts
    <2>2. PICK i : StandsAt("cli", i)
      BY <2>1 DEF IInv, FrontInv
    <2> QED
      BY <2>2 DEF StandsAt, RefusedAt, Ok
  <1> QED
    BY <1>1, <1>2 DEF TypeOK

LEMMA EvidenceSays == IInv => EvidenceIsOne
  <1> SUFFICES ASSUME IInv, NEW front \in Fronts
               PROVE  LET r == run[front]
                      IN /\ r.evidence # None => r.evidence = r.src
                         /\ Answered(front) /\ r.op = "verify" /\ r.kind = Ok =>
                              (r.drift <=> r.src # lockFile.bytes)
                         /\ r.op \in {"validate", "diff", "capabilities"} => r.src = None
    BY DEF EvidenceIsOne
  <1> DEFINE r == run[front]
             S == Script(front, r.op)
             s == Steps(r.op)
  <1>1. PICK i \in 1 .. Len(S) : StandsAt(front, i)
    BY DEF IInv, FrontInv
  <1>2. r.op \in OpsOf(front) /\ Reached(front, i)
    BY <1>1 DEF IInv, FrontInv, StandsAt
  <1>3. r.evidence # None => r.evidence = r.src
    BY <1>2 DEF Reached
  <1>4. r.op \in {"validate", "diff", "capabilities"} => r.src = None
    <2>1. \A b \in Before(front, r.op, i) : b = "request" \/ \E j \in 1 .. Len(s) : b = s[j]
      BY <1>2, ScriptPlace
    <2>2. \A j \in 1 .. Len(s) : s[j] = "compose" => r.op \notin {"validate", "diff", "capabilities"}
      BY <1>2, StepsGuard
    <2> QED
      BY <1>2, <2>1, <2>2 DEF Reached
  <1>5. ASSUME Answered(front), r.op = "verify", r.kind = Ok
        PROVE  r.drift <=> r.src # lockFile.bytes
    <2>1. PICK k \in 1 .. Len(S) : Reached(front, k) /\ k = Len(S)
      BY <1>5, AnsweredAt
    <2>2. \A j \in 1 .. Len(s) : s[j] \in Before(front, r.op, k)
      BY <1>2, <2>1, ScriptPlace
    <2>3. "compare" \in Before(front, r.op, k) /\ "evidence" \in Before(front, r.op, k)
      BY <1>2, <1>5, <2>2, StepsWhole
    <2> QED
      BY <1>5, <2>1, <2>3 DEF Reached, Drifted
  <1> QED
    BY <1>3, <1>4, <1>5

LEMMA ResponseSays == IInv => OneResponse
  <1> SUFFICES ASSUME IInv, Answered("rpc") PROVE OneResponse
    BY DEF OneResponse
  <1> DEFINE r == run["rpc"]
             a == r.answer
             S == Script("rpc", r.op)
  <1>1. "rpc" \in Fronts /\ r.op \in OpsOf("rpc") /\ r.kind \in Kinds \cup {Ok} /\ InputsOK
    BY DEF Fronts, IInv, FrontInv
  <1>2. PICK i \in 1 .. Len(S) :
          /\ Reached("rpc", i) /\ (r.kind # Ok => RefusedAt("rpc", i))
          /\ (r.kind = Ok => i = Len(S)) /\ AnswerFits("rpc", a)
    BY <1>1, AnsweredAt
  <1>3. a = [exit |-> Exit(r.kind), stdout |-> "response", stderr |-> FALSE,
             id |-> Echo(r), code |-> r.kind]
    BY <1>2 DEF AnswerFits
  <1>4. a.exit \in {0, 3, 4, 7} /\ (a.exit = 0 <=> a.code = Ok)
    BY <1>1, <1>3 DEF Exit, Kinds, Ok
  <1>5. a.id # 0 => a.id = request.id
    BY <1>3 DEF Echo
  <1>6. ASSUME r.kind \notin {"request", "input"} PROVE a.id = request.id /\ a.id # 0
    <2>1. i # 1
      <3>1. CASE r.kind = Ok
        <4>1. Len(S) # 1
          BY <1>1, ScriptParts
        <4> QED
          BY <1>2, <3>1, <4>1
      <3>2. CASE r.kind # Ok
        BY <1>2, <1>6, <3>2 DEF RefusedAt
      <3> QED
        BY <3>1, <3>2
    <2>2. RequestRefusal(r.op) = Ok
      BY <1>2, <2>1 DEF Reached
    <2>3. /\ request.text \notin {"stdin fails", "empty", "too large", "too deep", "malformed"}
          /\ ~(r.op = "verify" /\ lockFile.size # "small")
          /\ request.id # 0
      BY <2>2, RequestValue
    <2>4. request.text = "good"
      BY <1>1, <2>3 DEF InputsOK
    <2> QED
      BY <1>3, <2>3, <2>4 DEF Echo, Parsed
  <1> QED
    BY <1>3, <1>4, <1>5, <1>6 DEF OneResponse

\* What a step that was not refused has found.
LEMMA FoundGood ==
  ASSUME InputsOK, NEW op
  PROVE  /\ Refusal("cli", op, "lock", sources) = Ok =>
              lockFile.carrier = "sound" /\ lockFile.size # "oversized" /\ lockFile.bytes = "v1"
         /\ Refusal("cli", op, "candidate", sources) = Ok => candidate # "invalid"
         /\ Refusal("cli", op, "pack", sources) = Ok => packFile = "good"
         /\ Refusal("cli", op, "profile", sources) = Ok => profile # "malformed"
         /\ Refusal("cli", op, "require", sources) = Ok => profile # "unknown"
         /\ Refusal("cli", op, "compose", sources) = Ok =>
              profile # "unknown" /\ sources # "rejected"
  BY DEF Refusal, LockRefusal, PackRefusal, ComposeRefusal, InputsOK, Ok

LEMMA ExitSays == IInv => ExitTellsTheCause
  <1> SUFFICES ASSUME IInv, Answered("cli"), Quiet PROVE ExitTellsTheCause
    BY DEF ExitTellsTheCause
  <1> DEFINE r == run["cli"]
             e == r.answer.exit
             S == Script("cli", r.op)
             s == Steps(r.op)
             lockBad == \/ r.op \in {"verify", "diff"} /\ lockFile.bytes = "invalid"
                        \/ r.op = "diff" /\ candidate = "invalid"
             lockLost == r.op \in {"verify", "diff"}
                           /\ (lockFile.carrier = "broken" \/ lockFile.size = "oversized")
             packLost == packFile \in {"bad name", "no root", "rejected", "not UTF-8"}
             Well(step) == Refusal("cli", r.op, step, sources) = Ok
             Told ==
               /\ e \in {0, 5} => ~lockBad /\ ~lockLost
                                  /\ (r.op # "diff" => packFile = "good" /\ profile = "good")
               /\ e = 7 => lockBad \/ sources = "too much for a lock"
               /\ e = 3 => lockLost \/ (r.op # "diff" /\ packLost /\ ~lockBad)
               /\ e = 4 => /\ ~lockBad /\ ~lockLost /\ ~packLost
                           /\ packFile = "invalid" \/ profile # "good" \/ sources = "rejected"
               /\ e = 5 <=> /\ r.kind = Ok
                            /\ \/ r.op = "verify" /\ sources # "v1"
                               \/ r.op = "diff" /\ candidate # "v1"
  <1> SUFFICES Told
    BY DEF ExitTellsTheCause
  <1>1. "cli" \in Fronts /\ r.op \in OpsOf("cli") /\ r.kind \in Kinds \cup {Ok} /\ InputsOK
        /\ r.kind # "request"
    BY Typed DEF Fronts, IInv, FrontInv, TypeOK
  <1>2. PICK i \in 1 .. Len(S) :
          /\ Reached("cli", i) /\ (r.kind # Ok => RefusedAt("cli", i) /\ i < Len(S))
          /\ (r.kind = Ok => i = Len(S)) /\ AnswerFits("cli", r.answer)
    BY <1>1, AnsweredAt
  <1> DEFINE B == Before("cli", r.op, i)
  <1>3. \A step \in B : Well(step)
    BY <1>2 DEF Reached
  <1>4. CASE r.kind = Ok
    <2>1. \A j \in 1 .. Len(s) : s[j] \in B
      BY <1>1, <1>2, <1>4, ScriptPlace
    <2>2. /\ r.op \in {"verify", "diff"} => "lock" \in B /\ "compare" \in B
          /\ r.op = "diff" => "candidate" \in B
          /\ r.op = "verify" => "evidence" \in B
          /\ r.op \notin {"diff", "capabilities"} =>
               "pack" \in B /\ "profile" \in B /\ ("require" \in B \/ "compose" \in B)
      BY <1>1, <2>1, StepsWhole
    <2>3. /\ r.op \in {"verify", "diff"} => /\ lockFile.carrier = "sound" /\ lockFile.bytes = "v1"
                                            /\ lockFile.size # "oversized"
          /\ r.op = "diff" => candidate # "invalid"
          /\ r.op # "diff" => packFile = "good" /\ profile \notin {"malformed", "unknown"}
      <3>1. r.op # "capabilities"
        BY <1>1 DEF OpsOf
      <3> QED
        BY <1>1, <1>3, <2>2, <3>1, FoundGood
    <2>4. e \in {0, 5, 6} /\ (e = 5 <=> r.drift)
      <3>1. r.drift => r.op \in {"verify", "diff"}
        BY <1>1, DriftIsCompared
      <3> QED
        BY <1>2, <1>4, <3>1 DEF AnswerFits
    <2>5. r.op = "verify" => (r.drift <=> sources # "v1")
      <3>1. r.op = "verify" => "compose" \in B
        <4>1. r.op = "verify" => "require" \notin B
          <5>1. r.op = "verify" => s = <<"lock", "pack", "profile", "compose", "evidence", "compare">>
            BY DEF Steps
          <5>2. r.op = "verify" => \A j \in 1 .. Len(s) : s[j] # "require"
            BY <5>1
          <5> QED
            BY <1>1, <5>2, ScriptPlace
        <4> QED
          BY <2>2, <4>1
      <3> QED
        BY <1>2, <2>2, <2>3, <3>1 DEF Reached, Drifted
    <2>6. r.op = "diff" => (r.drift <=> candidate # "v1")
      BY <1>2, <2>2, <2>3 DEF Reached, Drifted
    <2>7. r.drift => r.op \in {"verify", "diff"}
      BY <1>1, DriftIsCompared
    <2>8. profile \in {"good", "unknown", "malformed"}
      BY <1>1 DEF InputsOK
    <2>9. ~lockBad /\ ~lockLost /\ (r.op # "diff" => packFile = "good" /\ profile = "good")
      BY <2>3, <2>8
    <2>10. e = 5 <=> \/ r.op = "verify" /\ sources # "v1"
                     \/ r.op = "diff" /\ candidate # "v1"
      BY <2>4, <2>5, <2>6, <2>7
    <2> HIDE DEF r, e, lockBad, lockLost, packLost
    <2>11. e # 7 /\ e # 3 /\ e # 4
      BY <2>4
    <2> QED
      BY <1>4, <2>9, <2>10, <2>11
  <1>5. CASE r.kind # Ok
    <2>1. PICK k \in 1 .. Len(s) : S[i] = s[k] /\ \A j \in 1 .. k - 1 : s[j] \in B
      BY <1>1, <1>2, <1>5, ScriptPlace
    <2>2. r.kind = Refusal("cli", r.op, s[k], sources) /\ e = Exit(r.kind)
      BY <1>2, <1>5, <2>1 DEF RefusedAt, AnswerFits
    <2>3. /\ s[k] = "lock" => r.op \in {"verify", "diff"}
          /\ s[k] = "candidate" => r.op = "diff"
          /\ s[k] \in {"pack", "profile", "require", "compose", "evidence"} =>
               r.op # "diff" /\ (r.op = "verify" => "lock" \in B)
          /\ s[k] \in {"profile", "require", "compose", "evidence"} => "pack" \in B
      <3>1. /\ s[k] = "lock" => r.op \in {"verify", "diff"}
            /\ s[k] = "candidate" => r.op = "diff"
            /\ s[k] \in {"pack", "profile", "require", "compose", "evidence"} =>
                 /\ r.op # "diff"
                 /\ r.op = "verify" => \E j \in 1 .. k - 1 : s[j] = "lock"
            /\ s[k] \in {"profile", "require", "compose", "evidence"} =>
                 \E j \in 1 .. k - 1 : s[j] = "pack"
        BY <1>1, <2>1, StepsGuard
      <3> HIDE DEF r, s, B
      <3> QED
        BY <2>1, <3>1
    <2>4. s[k] \in StepNames
      BY <1>1, ScriptParts
    <2>5. PICK step : step = s[k]
      OBVIOUS
    <2>6. s[k] # "compare"
      BY <1>5, <2>2, RefusalValue
    <2>7. "lock" \in B => lockFile.carrier = "sound" /\ lockFile.size # "oversized"
                          /\ lockFile.bytes = "v1"
      BY <1>1, <1>3, FoundGood
    <2>8. "pack" \in B => packFile = "good"
      BY <1>1, <1>3, FoundGood
    <2>9. e \in {3, 4, 7} /\ (e = 3 <=> r.kind = "input") /\ (e = 7 <=> r.kind = "integrity")
      BY <1>1, <1>5, <2>2 DEF Exit, Kinds
    <2>10. CASE step = "lock"
      <3>1. r.kind = LockRefusal("cli") /\ r.op \in {"verify", "diff"}
        BY <2>2, <2>3, <2>5, <2>10 DEF Refusal
      <3>2. \/ r.kind = "input" /\ lockLost
            \/ r.kind = "integrity" /\ lockBad
        <4>1. lockFile.carrier \in {"sound", "broken"}
          BY <1>1 DEF InputsOK
        <4>2. \/ LockRefusal("cli") = "input" /\ (lockFile.carrier = "broken" \/ lockFile.size = "oversized")
              \/ LockRefusal("cli") = "integrity" /\ lockFile.bytes = "invalid"
              \/ LockRefusal("cli") = Ok
          BY <4>1 DEF LockRefusal
        <4> QED
          BY <1>5, <3>1, <4>2
      <3>3. e \in {3, 7} /\ (e = 3 => lockLost) /\ (e = 7 => lockBad)
        BY <2>9, <3>2
      <3>4. e \notin {0, 4, 5}
        BY <3>3
      <3> HIDE DEF r, e, lockBad, lockLost, packLost
      <3> QED
        BY <1>5, <3>3, <3>4
    <2>11. CASE step = "candidate"
      <3>1. r.kind = "integrity" /\ lockBad
        BY <1>5, <2>2, <2>3, <2>5, <2>11 DEF Refusal
      <3> HIDE DEF r, e, lockBad, lockLost, packLost
      <3> QED
        BY <1>5, <2>9, <3>1
    <2>12. CASE step = "pack"
      <3>1. r.op # "diff" /\ ~lockBad /\ ~lockLost
        BY <2>3, <2>5, <2>7, <2>12
      <3>2. \/ r.kind = "input" /\ packLost
            \/ r.kind = "validation" /\ packFile = "invalid"
        <4>1. r.kind = PackRefusal
          BY <2>2, <2>5, <2>12 DEF Refusal
        <4> QED
          BY <1>5, <4>1 DEF PackRefusal
      <3>3. \/ e = 3 /\ packLost
            \/ e = 4 /\ packFile = "invalid" /\ ~packLost
        BY <2>9, <3>2
      <3>4. e \notin {0, 5, 7}
        <4> HIDE DEF r, e, lockBad, lockLost, packLost
        <4> QED
          BY <3>3
      <3> HIDE DEF r, e, lockBad, lockLost, packLost
      <3> QED
        BY <1>5, <3>1, <3>3, <3>4
    <2>13. CASE step \in {"profile", "require", "compose", "evidence"}
      <3>1. r.op # "diff" /\ ~lockBad /\ ~lockLost /\ ~packLost
        BY <2>3, <2>5, <2>7, <2>8, <2>13
      <3>2. \/ r.kind \in {"validation", "composition"} /\ (profile # "good" \/ sources = "rejected")
            \/ r.kind = "integrity" /\ sources = "too much for a lock"
        BY <1>5, <2>2, <2>5, <2>13 DEF Refusal, ComposeRefusal
      <3>3. \/ e = 4 /\ (profile # "good" \/ sources = "rejected")
            \/ e = 7 /\ sources = "too much for a lock"
        BY <2>9, <3>2
      <3> HIDE DEF r, e, lockBad, lockLost, packLost
      <3>4. CASE e = 4 /\ (profile # "good" \/ sources = "rejected")
        <4>1. e \notin {0, 3, 5, 7}
          BY <3>4
        <4> QED
          BY <1>5, <3>1, <3>4, <4>1
      <3>5. CASE e = 7 /\ sources = "too much for a lock"
        <4>1. e \notin {0, 3, 4, 5}
          <5>1. e = 7
            BY <3>5
          <5> QED
            BY <5>1
        <4> QED
          BY <1>5, <3>1, <3>5, <4>1
      <3> QED
        BY <3>3, <3>4, <3>5
    <2> QED
      BY <2>4, <2>5, <2>6, <2>10, <2>11, <2>12, <2>13 DEF StepNames
  <1> QED
    BY <1>4, <1>5

LEMMA AnswersSay == IInv => AnswersAreExact
  BY Typed, EvidenceSays, ExitSays, ResponseSays DEF AnswersAreExact

\* A command that was answered from inputs nobody touched was refused by the first
\* of its steps that refuses them.
LEMMA VerdictOf ==
  ASSUME IInv, NEW front \in Fronts, Answered(front), Quiet,
         front = "rpc" => RequestRefusal(run[front].op) = Ok
  PROVE  LET r == run[front]
             s == Steps(r.op)
         IN \E m \in 1 .. Len(s) + 1 :
              /\ r.kind = Ok => m = Len(s) + 1
              /\ r.kind # Ok => m <= Len(s) /\ r.kind = Refusal(front, r.op, s[m], sources)
              /\ \A j \in 1 .. m - 1 : Refusal(front, r.op, s[j], sources) = Ok
  <1> DEFINE r == run[front]
             s == Steps(r.op)
             S == Script(front, r.op)
             n == IF front = "rpc" THEN 1 ELSE 0
             V(step) == Refusal(front, r.op, step, sources)
  <1>1. r.op \in OpsOf(front)
    BY DEF IInv, FrontInv
  <1>2. PICK i \in 1 .. Len(S) :
          /\ Reached(front, i) /\ (r.kind # Ok => RefusedAt(front, i) /\ i < Len(S))
          /\ (r.kind = Ok => i = Len(S))
    BY AnsweredAt
  <1>3. /\ n \in 0 .. 1 /\ Len(s) \in Nat /\ Len(S) = n + Len(s) + 1
        /\ front = "rpc" => S[1] = "request"
        /\ \A j \in 1 .. Len(s) : S[n + j] = s[j]
    BY <1>1, ScriptParts
  <1>4. r.kind # Ok => r.kind = V(S[i])
    BY <1>2 DEF RefusedAt
  <1>5. \A b \in Before(front, r.op, i) : V(b) = Ok
    BY <1>2 DEF Reached
  <1>6. n = 1 => front = "rpc"
    OBVIOUS
  <1>7. i > n
    <2>1. CASE r.kind = Ok
      <3> HIDE DEF S, s, n
      <3> QED
        BY <1>2, <1>3, <2>1
    <2>2. CASE r.kind # Ok /\ n = 1
      <3>1. ASSUME i = 1 PROVE FALSE
        <4>1. r.kind = V("request")
          BY <1>3, <1>4, <1>6, <2>2, <3>1
        <4> QED
          BY <1>6, <2>2, <4>1, RefusalValue
      <3> HIDE DEF S, n
      <3> QED
        BY <1>2, <2>2, <3>1
    <2>3. CASE n = 0
      <3> HIDE DEF S, n
      <3> QED
        BY <1>2, <2>3
    <2> HIDE DEF n
    <2> QED
      BY <1>3, <2>1, <2>2, <2>3
  <1> DEFINE m == i - n
  <1>8. m \in 1 .. Len(s) + 1 /\ n + m = i /\ (i < Len(S) <=> m <= Len(s)) /\ (i = Len(S) <=> m = Len(s) + 1)
    <2> HIDE DEF S, s, n
    <2> QED
      BY <1>2, <1>3, <1>7
  <1>9. m <= Len(s) => S[i] = s[m]
    <2> HIDE DEF S, s, n, m
    <2> QED
      BY <1>3, <1>8
  <1>10. ASSUME NEW j \in 1 .. m - 1 PROVE V(s[j]) = Ok
    <2>1. j \in 1 .. Len(s) /\ n + j \in 1 .. i - 1
      <3> HIDE DEF S, s, n
      <3> QED
        BY <1>3, <1>8
    <2>2. s[j] \in Before(front, r.op, i)
      BY <1>3, <2>1 DEF Before
    <2> QED
      BY <1>5, <2>2
  <1> HIDE DEF m
  <1>11. /\ r.kind = Ok => m = Len(s) + 1
         /\ r.kind # Ok => m <= Len(s) /\ r.kind = V(s[m])
    BY <1>2, <1>4, <1>8, <1>9
  <1> QED
    BY <1>8, <1>10, <1>11

LEMMA SameVerdict ==
  ASSUME IInv, Answered("cli"), Answered("rpc"), Quiet,
         RequestRefusal(run["rpc"].op) = Ok, Steps(run["cli"].op) = Steps(run["rpc"].op),
         \A j \in 1 .. Len(Steps(run["cli"].op)) :
           Refusal("cli", run["cli"].op, Steps(run["cli"].op)[j], sources)
             = Refusal("rpc", run["rpc"].op, Steps(run["cli"].op)[j], sources)
  PROVE  run["cli"].kind = run["rpc"].kind
  <1> DEFINE c == run["cli"].kind
             r == run["rpc"].kind
             s == Steps(run["cli"].op)
             V(step) == Refusal("cli", run["cli"].op, step, sources)
             W(step) == Refusal("rpc", run["rpc"].op, step, sources)
  <1> SUFFICES c = r
    OBVIOUS
  <1>1. "cli" \in Fronts /\ "rpc" \in Fronts
    BY DEF Fronts
  <1>2. PICK i \in 1 .. Len(s) + 1 :
          /\ c = Ok => i = Len(s) + 1
          /\ c # Ok => i <= Len(s) /\ c = V(s[i])
          /\ \A j \in 1 .. i - 1 : V(s[j]) = Ok
    BY <1>1, VerdictOf
  <1>3. PICK k \in 1 .. Len(s) + 1 :
          /\ r = Ok => k = Len(s) + 1
          /\ r # Ok => k <= Len(s) /\ r = W(s[k])
          /\ \A j \in 1 .. k - 1 : W(s[j]) = Ok
    BY <1>1, VerdictOf
  <1>4. Len(s) \in Nat
    <2>1. run["cli"].op \in OpsOf("cli")
      BY <1>1 DEF IInv, FrontInv
    <2> QED
      BY <1>1, <2>1, ScriptParts
  <1>5. \A j \in 1 .. Len(s) : V(s[j]) = W(s[j])
    OBVIOUS
  <1> HIDE DEF c, r, s, V, W
  <1>6. CASE i < k
    <2>1. i \in 1 .. Len(s) /\ i \in 1 .. k - 1 /\ i # Len(s) + 1
      BY <1>2, <1>3, <1>4, <1>6
    <2>2. V(s[i]) = Ok
      BY <1>3, <1>5, <2>1
    <2> QED
      BY <1>2, <2>1, <2>2
  <1>7. CASE k < i
    <2>1. k \in 1 .. Len(s) /\ k \in 1 .. i - 1 /\ k # Len(s) + 1
      BY <1>2, <1>3, <1>4, <1>7
    <2>2. W(s[k]) = Ok
      BY <1>2, <1>5, <2>1
    <2> QED
      BY <1>3, <2>1, <2>2
  <1>8. CASE i = k
    <2>1. CASE i = Len(s) + 1
      <3>1. ~(i <= Len(s))
        BY <1>4, <2>1
      <3> QED
        BY <1>2, <1>3, <1>8, <3>1
    <2>2. CASE i # Len(s) + 1
      <3>1. i \in 1 .. Len(s)
        BY <1>2, <1>4, <2>2
      <3> QED
        BY <1>2, <1>3, <1>5, <1>8, <2>2, <3>1
    <2> QED
      BY <2>1, <2>2
  <1> QED
    <2>1. i < k \/ k < i \/ i = k
      BY <1>2, <1>3, <1>4
    <2> QED
      BY <2>1, <1>6, <1>7, <1>8

LEMMA FrontsSay == IInv => FrontsAgree
  <1> DEFINE c == run["cli"]
             r == run["rpc"]
  <1> SUFFICES ASSUME IInv, Answered("cli"), Answered("rpc"), Quiet, Sane
               PROVE  /\ c.op = "lock" /\ r.op = "resolve" => c.kind = r.kind
                      /\ c.op = "verify" /\ r.op = "verify" /\ lockFile.size = "small"
                           /\ lockFile.carrier = "sound" => c.kind = r.kind /\ c.drift = r.drift
    BY DEF FrontsAgree
  <1>1. /\ "cli" \in Fronts /\ "rpc" \in Fronts
        /\ c.op \in OpsOf("cli") /\ r.op \in OpsOf("rpc") /\ RunType
    BY DEF Fronts, IInv, FrontInv
  <1>2. r.op # "verify" \/ lockFile.size = "small" => RequestRefusal(r.op) = Ok
    <2>1. request.id # 0 /\ ~(request.id > MaxId)
      <3>1. MaxId \in Nat
        BY PackCommandsAssumption
      <3> QED
        BY <3>1 DEF Sane
    <2> QED
      BY <2>1, RequestValue DEF Sane
  <1>3. ASSUME NEW step, step \notin {"request", "lock"}
        PROVE  Refusal("cli", c.op, step, sources) = Refusal("rpc", r.op, step, sources)
    BY <1>3 DEF Refusal, ComposeRefusal
  <1>4. \A j \in 1 .. Len(Steps(c.op)) : Steps(c.op)[j] # "request"
    <2>1. \A j \in 1 .. Len(Steps(c.op)) : Steps(c.op)[j] \in StepNames
      BY <1>1, ScriptParts
    <2> QED
      BY <2>1 DEF StepNames
  <1>5. ASSUME c.op = "lock", r.op = "resolve" PROVE c.kind = r.kind
    <2>1. Steps(c.op) = Steps(r.op)
      BY <1>5 DEF Steps
    <2>2. \A j \in 1 .. Len(Steps(c.op)) : Steps(c.op)[j] # "lock"
      BY <1>1, <1>5, StepsGuard
    <2> QED
      BY <1>2, <1>3, <1>4, <1>5, <2>1, <2>2, SameVerdict
  <1>6. ASSUME c.op = "verify", r.op = "verify", lockFile.size = "small",
               lockFile.carrier = "sound"
        PROVE  c.kind = r.kind /\ c.drift = r.drift
    <2>1. Refusal("cli", c.op, "lock", sources) = Refusal("rpc", r.op, "lock", sources)
      BY <1>6 DEF Refusal, LockRefusal
    <2>2. \A j \in 1 .. Len(Steps(c.op)) :
            Refusal("cli", c.op, Steps(c.op)[j], sources)
              = Refusal("rpc", r.op, Steps(c.op)[j], sources)
      BY <1>3, <1>4, <2>1
    <2>3. c.kind = r.kind
      BY <1>2, <1>6, <2>2, SameVerdict
    <2>4. ASSUME NEW front \in Fronts, run[front].kind = Ok
          PROVE  run[front].drift <=> sources # lockFile.bytes
      <3> DEFINE f == run[front]
      <3>1. f.op = "verify" /\ f.op \in OpsOf(front) /\ Answered(front)
        BY <1>1, <1>6 DEF Fronts
      <3>2. f.drift <=> f.src # lockFile.bytes
        BY <2>4, <3>1, EvidenceSays DEF EvidenceIsOne
      <3>3. PICK k \in 1 .. Len(Script(front, f.op)) :
              Reached(front, k) /\ k = Len(Script(front, f.op))
        BY <2>4, <3>1, AnsweredAt
      <3>4. \A j \in 1 .. Len(Steps(f.op)) : Steps(f.op)[j] \in Before(front, f.op, k)
        BY <3>1, <3>3, ScriptPlace
      <3>5. "compose" \in Before(front, f.op, k)
        <4>1. Steps(f.op) = <<"lock", "pack", "profile", "compose", "evidence", "compare">>
          BY <3>1 DEF Steps
        <4>2. Len(Steps(f.op)) = 6 /\ Steps(f.op)[4] = "compose"
          BY <4>1
        <4> QED
          BY <3>4, <4>2
      <3>6. f.src = sources
        BY <3>3, <3>5 DEF Reached
      <3> QED
        BY <3>2, <3>6
    <2>5. \A front \in Fronts : run[front].drift => run[front].kind = Ok
      BY DriftIsCompared
    <2>6. c.drift \in BOOLEAN /\ r.drift \in BOOLEAN
      BY <1>1 DEF RunType
    <2> QED
      BY <1>1, <2>3, <2>4, <2>5, <2>6
  <1> QED
    BY <1>5, <1>6

-----------------------------------------------------------------------------
\* Every command stands somewhere in its script, with what the steps before it gave.
THEOREM CommandsStand == Spec => []IInv
  <1>1. Init => IInv
    BY Initially
  <1>2. IInv /\ [Next]_vars => IInv'
    BY Preserved
  <1> QED
    BY <1>1, <1>2, PTL DEF Spec

\* What a command answers is of one reading of its inputs, told once and as what
\* it was (execute and dispatch of command.rs, execute and error_execution of rpc.rs).
THEOREM AnswersExact == Spec => []AnswersAreExact
  BY CommandsStand, AnswersSay, PTL

\* The command line and the host protocol come to the same verdict on the same
\* inputs (command.rs over resolve_bundle and verify_bundle; rpc.rs).
THEOREM FrontsAlike == Spec => []FrontsAgree
  BY CommandsStand, FrontsSay, PTL

=============================================================================
