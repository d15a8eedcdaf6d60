---------------------------- MODULE CommandLine ----------------------------
(***************************************************************************)
(* The command line of `invokrum` (crates/invokrum-cli: lib.rs, args.rs,   *)
(* install.rs, main.rs) and of its `install` command                       *)
(* (crates/invokrum-install-delivery, parse): the arguments are read one   *)
(* by one, a command is run or refused, and what came of it becomes the    *)
(* exit code. An argument is a string; a value is any string or Raw, which *)
(* is not UTF-8.                                                           *)
(*                                                                         *)
(* The stdout of main.rs is the one of the standard library: it hands on   *)
(* lines, and keeps what follows the last line feed in a buffer of 1024    *)
(* bytes. Its descriptor is taken to be open for writing, since the        *)
(* library reports no error on one that is not.                            *)
(***************************************************************************)
EXTENDS Naturals, Sequences, FiniteSets

CONSTANTS
  Lines,    \* the argument lists of the run, the program's name left out
  Raw,      \* an argument that is not UTF-8
  Absent    \* an option that was not given

VARIABLES
  line, next,    \* Cursor: the arguments and the one to read next
  command,
  given,         \* by option, its value
  paths,         \* arguments that are no options
  pc,
  kind,          \* what the command came to
  undelivered,   \* the parts of the result that stdout has not passed on
  exit

vars == <<line, next, command, given, paths, pc, kind, undelivered, exit>>

Validate == [options |-> {"--pack", "--profile", "--format"}, flags |-> {},
             required |-> {"--pack"}, paths |-> 0]
Inspect  == [Validate EXCEPT !.required = {"--pack", "--profile"}]
Verify   == [options |-> Validate.options \cup {"--lock"}, flags |-> {},
             required |-> {"--lock", "--pack", "--profile"}, paths |-> 0]
\* compose and lock: parse_pack_destination
Compose  == [options |-> {"--pack", "--profile", "--output"}, flags |-> {"--force"},
             required |-> {"--pack", "--profile"}, paths |-> 0]
Diff     == [options |-> {"--format"}, flags |-> {}, required |-> {}, paths |-> 2]
Rpc      == [options |-> {}, flags |-> {}, required |-> {}, paths |-> 0]

Publisher == {"--publisher-public-key", "--publisher-signature", "--trusted-key-sha256"}
Install  == [options |-> {"--bundle-manifest", "--subject", "--candidate-format", "--store",
                          "--format"} \cup Publisher,
             flags |-> {}, required |-> {"--bundle-manifest", "--subject"}, paths |-> 1]

Commands == [validate |-> Validate, inspect |-> Inspect, verify |-> Verify, compose |-> Compose,
             lock |-> Compose, diff |-> Diff, install |-> Install, rpc |-> Rpc]

AllOptions == UNION {Commands[c].options \cup Commands[c].flags : c \in DOMAIN Commands}

\* Options whose value must be text; the others take a path.
Text == {"--subject", "--trusted-key-sha256", "--format", "--candidate-format"}

\* parse_format, parse_candidate_format, Cursor::string_value
Accepts(option, value) ==
  /\ option = "--format" => value \in {"human", "json"}
  /\ option = "--candidate-format" => value \in {"directory", "ustar"}
  /\ option \in Text => value # Raw

Help    == {"--help", "-h"}
Dashed  == AllOptions \cup Help \cup {"--no-color", "--version", "--unknown"}

\* An argument that stands for itself: for install, one that is not UTF-8 too.
IsPath(c, argument) ==
  /\ Commands[c].paths > 0
  /\ argument \notin Dashed
  /\ c = "install" => argument # "help"

ExitCode == [success |-> 0, usage |-> 2, input |-> 3, validation |-> 4, composition |-> 4,
             drift |-> 5, output |-> 6, integrity |-> 7, internal |-> 7]

TypeOK ==
  /\ next \in 1 .. Len(line) + 1
  /\ command \in DOMAIN Commands \cup {"none", "help", "version"}
  /\ DOMAIN given = AllOptions
  /\ paths \in Seq({line[i] : i \in DOMAIN line})
  /\ pc \in {"dispatch", "options", "run", "write", "flush", "exited"}
  /\ kind \in DOMAIN ExitCode
  /\ undelivered \subseteq {"lines", "rest", "long rest"}
  /\ exit \in {Absent} \cup {ExitCode[k] : k \in DOMAIN ExitCode}

Init ==
  /\ line \in Lines
  /\ next = 1
  /\ command = "none"
  /\ given = [o \in AllOptions |-> Absent]
  /\ paths = <<>>
  /\ pc = "dispatch"
  /\ kind = "success"
  /\ undelivered = {}
  /\ exit = Absent

-----------------------------------------------------------------------------
Fails(k) == kind' = k /\ pc' = "exited" /\ exit' = ExitCode[k]

Usage == Fails("usage") /\ UNCHANGED <<line, next, command, given, paths, undelivered>>

Argument  == line[next]
HasNext   == next < Len(line)
Exhausted == next > Len(line)
Reading   == pc = "options" /\ ~Exhausted

Goes(step) == next' = next + step /\ UNCHANGED <<line, command, pc, kind, undelivered, exit>>

Runs(c) == command' = c /\ pc' = "run" /\ UNCHANGED <<line, next, given, paths, kind, undelivered, exit>>

\* run_with_stdin, and parse as far as the command
Dispatch ==
  /\ pc = "dispatch"
  /\ IF line = <<>> THEN Runs("version")
     ELSE IF line[1] # "install" /\ \E i \in DOMAIN line : line[i] = Raw THEN Usage
     ELSE IF line[1] \in DOMAIN Commands
       THEN command' = line[1] /\ next' = 2 /\ pc' = "options"
            /\ UNCHANGED <<line, given, paths, kind, undelivered, exit>>
     ELSE IF Len(line) = 1 /\ line[1] \in Help \cup {"help"} THEN Runs("help")
     ELSE IF Len(line) = 1 /\ line[1] \in {"version", "--version"} THEN Runs("version")
     ELSE Usage

\* Mutant: a second value replaces the first.
ReadOptionAgain ==
  /\ Reading
  /\ Argument \in Commands[command].options
  /\ IF HasNext /\ Accepts(Argument, line[next + 1])
       THEN /\ given' = [given EXCEPT ![Argument] = line[next + 1]]
            /\ Goes(2) /\ UNCHANGED paths
       ELSE Usage

\* The next argument is the value, whatever it looks like.
ReadOption ==
  /\ Reading
  /\ Argument \in Commands[command].options
  /\ IF HasNext /\ given[Argument] = Absent /\ Accepts(Argument, line[next + 1])
       THEN /\ given' = [given EXCEPT ![Argument] = line[next + 1]]
            /\ Goes(2) /\ UNCHANGED paths
       ELSE Usage

ReadFlag ==
  /\ Reading
  /\ Argument \in Commands[command].flags
  /\ IF given[Argument] = Absent
       THEN given' = [given EXCEPT ![Argument] = Argument] /\ Goes(1) /\ UNCHANGED paths
       ELSE Usage

ReadNoColor ==
  /\ Reading /\ command # "rpc"
  /\ Argument = "--no-color"
  /\ Goes(1) /\ UNCHANGED <<given, paths>>

\* compose and lock ignore what follows; install wants no other argument.
ReadHelp ==
  /\ Reading /\ command # "rpc"
  /\ Argument \in Help \/ (command = "install" /\ Argument = "help")
  /\ IF CASE command = "install"             -> Len(line) = 2
          [] command \in {"compose", "lock"} -> TRUE
          [] OTHER                           -> ~HasNext
       THEN Runs("help") ELSE Usage

ReadPath ==
  /\ Reading
  /\ IsPath(command, Argument)
  /\ IF command = "install" /\ paths # <<>>
       THEN Usage
       ELSE paths' = Append(paths, Argument) /\ Goes(1) /\ UNCHANGED given

ReadUnknown ==
  /\ Reading
  /\ ~IsPath(command, Argument)
  /\ Argument \notin Commands[command].options \cup Commands[command].flags
  /\ command = "rpc" \/ Argument \notin Help \cup {"--no-color"}
  /\ ~(command = "install" /\ Argument = "help")
  /\ Usage

\* publisher_inputs
PublisherComplete == \A o, q \in Publisher : given[o] = Absent <=> given[q] = Absent

Finish ==
  /\ pc = "options" /\ Exhausted
  /\ IF /\ \A o \in Commands[command].required : given[o] # Absent
        /\ Len(paths) = Commands[command].paths
        /\ given["--force"] # Absent => given["--output"] # Absent
        /\ PublisherComplete
       THEN Runs(command) ELSE Usage

-----------------------------------------------------------------------------
\* deliver: only a file can fail here.
ToFile == IF given["--output"] = Absent THEN {} ELSE {"output"}

\* What each command may come to: drift is a result, not an error.
Outcomes ==
  CASE command \in {"help", "version"} -> {"success"}
    [] command = "validate" -> {"success", "input", "validation"}
    [] command = "inspect"  -> {"success", "input", "validation", "composition"}
    [] command = "compose"  -> {"success", "input", "validation", "composition"} \cup ToFile
    [] command = "lock"     -> {"success", "input", "validation", "composition", "integrity"}
                                 \cup ToFile
    [] command = "verify"   -> {"success", "drift", "input", "validation", "composition",
                                "integrity"}
    [] command = "diff"     -> {"success", "drift", "input", "integrity"}
    [] command = "install"  -> {"success", "usage", "input", "validation", "output", "internal"}
    [] command = "rpc"      -> {"success", "input", "validation", "composition", "integrity"}

\* An rpc failure is a response: it goes to stdout too.
Responds(k) == k \in {"success", "drift"} \/ command = "rpc"

\* What is on stdout: its lines, up to the last line feed, and what follows, a
\* rest the buffer has room for or a long one. Everything ends in a line feed
\* but what compose and lock write raw; a lock has no line feed at all.
Results ==
  CASE command \notin {"compose", "lock"} -> {{"lines"}}
    [] given["--output"] # Absent         -> {{}}
    [] command = "lock"                   -> {{"rest"}, {"long rest"}}
    [] command = "compose"                ->
         {lines \cup rest : lines \in {{}, {"lines"}}, rest \in {{}, {"rest"}, {"long rest"}}}

Execute ==
  /\ pc = "run"
  /\ \E k \in Outcomes :
       IF Responds(k)
         THEN kind' = k /\ undelivered' \in Results /\ pc' = "write" /\ UNCHANGED exit
         ELSE Fails(k) /\ UNCHANGED undelivered
  /\ UNCHANGED <<line, next, command, given, paths>>

\* write_all went well, and a rest that fits stays in the buffer.
Write ==
  /\ pc = "write"
  /\ undelivered' = undelivered \cap {"rest"}
  /\ pc' = "flush" /\ exit' = ExitCode[kind]
  /\ UNCHANGED <<line, next, command, given, paths, kind>>

\* write_all fails at the lines, or after them; the buffer takes no part in it.
WriteFails ==
  /\ pc = "write"
  /\ \/ undelivered \cap {"lines", "long rest"} # {} /\ UNCHANGED undelivered
     \/ "long rest" \in undelivered /\ undelivered' = {"long rest"}
  /\ Fails("output")
  /\ UNCHANGED <<line, next, command, given, paths>>

\* process::exit flushes what is buffered, and does not look whether it could.
Flush ==
  /\ pc = "flush"
  /\ pc' = "exited" /\ undelivered' \in {{}, undelivered}
  /\ UNCHANGED <<line, next, command, given, paths, kind, exit>>

Parse == Dispatch \/ ReadOption \/ ReadFlag \/ ReadNoColor \/ ReadHelp \/ ReadPath \/ ReadUnknown
         \/ Finish
Next  == Parse \/ Execute \/ Write \/ WriteFails \/ Flush
Spec  == Init /\ [][Next]_vars

-----------------------------------------------------------------------------
\* Where an option or a path stands, rather than the value of an option.
Stands(l) ==
  LET stands[i \in DOMAIN l] ==
        i > 1 /\ ~(i > 2 /\ stands[i - 1] /\ l[i - 1] \in Commands[l[1]].options)
  IN {i \in DOMAIN l : stands[i]}

\* The usage of a command, of the arguments as a whole and in any order.
WellFormed(l) ==
  LET c       == Commands[l[1]]
      stand   == Stands(l)
      named   == c.options \cup c.flags
  IN /\ l[1] # "install" => \A i \in DOMAIN l : l[i] # Raw
     /\ \A i \in stand : l[i] \in named \/ IsPath(l[1], l[i])
                         \/ (l[i] = "--no-color" /\ l[1] # "rpc")
     /\ \A i \in stand : l[i] \in c.options => i < Len(l) /\ Accepts(l[i], l[i + 1])
     /\ \A i, j \in stand : l[i] = l[j] /\ l[i] \in named => i = j
     /\ c.required \subseteq {l[i] : i \in stand}
     /\ Cardinality({i \in stand : IsPath(l[1], l[i])}) = c.paths
     /\ "--force" \in {l[i] : i \in stand} => "--output" \in {l[i] : i \in stand}
     /\ Publisher \cap {l[i] : i \in stand} \in {{}, Publisher}

\* A command runs on exactly the arguments that its usage allows, read in
\* whatever order they were given, and each option has the value that
\* follows it.
RunsAsTheUsageSays ==
  [][pc = "options" =>
       /\ pc' = "run" /\ command' # "help" =>
            /\ WellFormed(line)
            /\ \A i \in Stands(line) :
                 line[i] \in Commands[command].options => given[line[i]] = line[i + 1]
       /\ pc' = "exited" => ~WellFormed(line)]_vars

\* "Omitting all publisher options performs digest-pinned installation": a
\* run without a publisher had no publisher option but as another's value.
NoSilentDowngrade ==
  pc = "run" /\ command = "install" /\ given["--trusted-key-sha256"] = Absent =>
    \A i \in DOMAIN line : line[i] \in Publisher =>
      i > 2 /\ line[i - 1] \in Commands["install"].options

\* "`6` | Stdout, persistent-output, or installation-store failure" (usage.md):
\* whoever does not get the whole result is told so by the exit code. The code
\* does not keep this: what it buffers may be lost.
LossIsTold == pc = "exited" /\ undelivered # {} => exit = ExitCode["output"]

\* It is kept for every result that ends in a line feed, an rpc failure and a
\* drift included. Without exit code 6 a result lacks at most the rest of what
\* compose or lock wrote raw to stdout.
OnlyRawRestIsLost ==
  pc = "exited" /\ undelivered # {} /\ exit # ExitCode["output"] =>
    /\ undelivered = {"rest"} /\ kind = "success"
    /\ command \in {"compose", "lock"} /\ "--output" \notin {line[i] : i \in Stands(line)}

\* A command line is run as its usage says, or refused, and an exit code other
\* than 6 comes with the whole result, but for the rest of a raw one.
LinesRunAsTheyRead ==
  RunsAsTheUsageSays /\ [](TypeOK /\ NoSilentDowngrade /\ OnlyRawRestIsLost)
=============================================================================
