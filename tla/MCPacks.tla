------------------------------ MODULE MCPacks ------------------------------
(***************************************************************************)
(* Instances of PackSchema and PacksAndLocks for TLC. Their three parts    *)
(* share no state, so one run checks them as alternatives: `part` says     *)
(* which of them moves, and the others rest in an initial state of their   *)
(* own.                                                                    *)
(*                                                                         *)
(* For Composition, documents with one thing or two of each kind, sound    *)
(* ones and every way the checks tell of being unsound. For Lockfile, two  *)
(* overlays, three sources (one of them with a path too long for a lock of *)
(* both), and packs that differ in one thing each. For PackSchema, texts   *)
(* of documents with one declaration or two of each kind, sound and with   *)
(* any one event damaged, left out or added.                               *)
(***************************************************************************)
EXTENDS PacksAndLocks, TLC

CONSTANTS empty, small, large
OverlayLength(c) == CASE c = empty -> 0 [] c = small -> 1 [] OTHER -> 3

Class(id, order, minimum, maximum) ==
  [id |-> id, order |-> order, minimum |-> minimum, maximum |-> maximum]
File(id, class, source, incompatible) ==
  [id |-> id, class |-> class, source |-> source, incompatible |-> incompatible]
Profile(id, selections) == [id |-> id, selections |-> selections]
Doc(family, classes, overlays, profiles, variables) ==
  [family |-> family, classes |-> classes, overlays |-> overlays, profiles |-> profiles,
   variables |-> variables]

PackClasses == {
  <<Class(1, 2, 0, 2), Class(2, 1, 0, 2)>>, <<Class(2, 1, 1, 1), Class(1, 2, 0, 2)>>,
  <<Class(1, 5, 0, 1), Class(2, 7, 0, 1), Class(3, 5, 0, 1)>>, <<Class(1, 1, 0, 2)>>,
  <<Class(1, 1, 0, 4)>>, <<Class(1, 1, 0, 2), Class(1, 2, 0, 2)>>}

PackOverlays ==
  {<<File(1, a, 1, x), File(2, b, 2, y)>> : a, b \in 1 .. 2, x, y \in {{}, {1}, {2}, {9}}}
  \cup {<<File(3, a, 1, x), File(1, 1, 2, {}), File(2, b, 1, y)>> :
          a, b \in 1 .. 2, x, y \in {{}, {1}, {3}}}
  \cup {<<File(1, 1, 1, {}), File(1, 2, 2, {})>>,
        <<File(4, 1, 3, {}), File(3, 1, 1, {}), File(2, 1, 2, {}), File(1, 1, 3, {})>>}

Selections ==
  {(1 :> p) : p \in {<<>>, <<1>>, <<2, 1>>, <<1, 1>>, <<9>>}}
  \cup {(1 :> <<2, 1, 3>>), (1 :> <<2, 1, 3, 4>>)}
  \cup {(1 :> p @@ 2 :> q) : p, q \in {<<1>>, <<2>>, <<1, 2>>, <<3, 1>>, <<2, 3>>}}
  \cup {(1 :> <<1>> @@ 4 :> <<2>>)}

PackProfiles ==
  {<<Profile(1, s)>> : s \in Selections}
  \cup {<<Profile(2, s), Profile(1, 1 :> <<1>>)>> : s \in {1 :> <<2>>, 1 :> <<1, 9>>, 2 :> <<2>>}}
  \cup {<<Profile(1, 1 :> <<1>>), Profile(1, 1 :> <<1>>)>>}

PackDocuments ==
  {Doc("v1", c, o, p, <<>>) : c \in PackClasses, o \in PackOverlays, p \in PackProfiles}
  \cup {Doc(f, <<Class(1, 1, 0, 2)>>, <<File(1, 1, 1, {})>>, <<Profile(1, 1 :> <<1>>)>>, v) :
          f \in {"", "v1"}, v \in {<<[id |-> 1]>>, <<[id |-> 1], [id |-> 1]>>}}

PackDisks == {<<empty, empty, small>>, <<small, empty, empty>>, <<small, small, small>>,
            <<small, large, empty>>, <<empty, Gone, small>>}
LockPack(id, picks, at, rest) == [id |-> id, schema |-> "s", picks |-> picks, at |-> at, rest |-> rest]
LockPacks == {
  LockPack("p", [one |-> <<1, 2>>, two |-> <<2>>], <<1, 2>>, "r"),
  LockPack("p", [one |-> <<2, 1>>, two |-> <<2>>], <<1, 2>>, "r"),
  LockPack("p", [one |-> <<1, 2>>, two |-> <<1>>], <<1, 2>>, "r"),
  LockPack("p", [one |-> <<1, 2>>, two |-> <<2>>], <<1, 1>>, "r"),
  LockPack("p", [one |-> <<1, 2>>, two |-> <<2>>], <<3, 3>>, "r"),
  LockPack("q", [one |-> <<1, 2>>, two |-> <<2>>], <<1, 2>>, "r")}
LockStarts ==
  {[pack |-> LockPack("p", [one |-> <<1, 2>>, two |-> <<2>>], <<1, 2>>, "r"),
    files |-> <<<<"a">>, <<"nn", "a">>, <<"a">>>>]}
LockProfiles == {"one", "two"}
LockContents == {<<"a">>, <<"a", "nn">>, <<"nn", "a">>}
LockPathBytes(source) == IF source = 3 THEN 2 ELSE 1
-----------------------------------------------------------------------------
Ev == INSTANCE PackEvents

TextClass(id, order, maximum) == [id |-> id, order |-> order, minimum |-> 1, maximum |-> maximum]
TextOverlay(id, class, source, list) ==
  [id |-> id, class |-> class, source |-> source, incompatible |-> list]
TextProfile(id, selections) == [id |-> id, selections |-> selections]
Selects(class, picks) == [class |-> class, picks |-> picks]
Content(schema, id, classes, overlays, profiles, variables) ==
  [schema |-> schema, id |-> id, classes |-> classes, overlays |-> overlays,
   profiles |-> profiles, variables |-> variables]

TextClasses == {<<>>, <<TextClass(1, 1, 1)>>, <<TextClass(1, 1, 0)>>, <<TextClass(0, 1, 2)>>,
                <<TextClass(2, 2, 1), TextClass(1, 1, 2)>>, <<TextClass(1, 1, 1), TextClass(2, 1, 1)>>,
                <<TextClass(1, 1, 1), TextClass(2, 2, 1), TextClass(3, 3, 1)>>}
TextOverlays ==
  {<<>>, <<TextOverlay(0, 1, 1, <<>>)>>, <<TextOverlay(1, 1, 0, <<>>)>>}
  \cup {<<TextOverlay(1, 1, 1, list)>> : list \in {<<2>>, <<2, 1>>, <<2, 2>>, <<2, 2, 0>>, <<0, 2, 2>>, <<1, 2, 3>>}}
  \cup {<<TextOverlay(2, 1, 1, a), TextOverlay(1, 2, 2, b)>> : a, b \in {<<>>, <<1>>, <<2, 1>>}}
TextProfiles ==
  {<<>>, <<TextProfile(0, <<>>)>>, <<TextProfile(1, <<Selects(1, <<>>), Selects(2, <<>>)>>)>>}
  \cup {<<TextProfile(2, <<Selects(1, p)>>), TextProfile(1, <<Selects(1, q), Selects(2, <<>>)>>)>> :
          p, q \in {<<>>, <<1>>, <<0>>}}

Few(set, some) == {x \in set : x # <<>> /\ x[1].id \in some /\ Len(x) < 3}
TextContents ==
  {Content("v1", 1, c, o, <<>>, v) : c \in TextClasses, o \in TextOverlays, v \in {<<2, 1>>}}
  \cup {Content("v1", 1, c, o, p, <<1>>) :
          c \in Few(TextClasses, {2}), o \in {<<>>, <<TextOverlay(1, 1, 1, <<2, 2>>)>>},
          p \in TextProfiles}
  \cup {Content(s, i, <<TextClass(1, 1, 1)>>, <<>>, <<>>, v) :
          s \in {"none", "v1", "v2"}, i \in 0 .. 1, v \in {<<0>>, <<1, 1, 2>>}}

\* As it is written, or with less than the normalized form spells out.
Written(c, format, bytes, events, rest, decodes) ==
  [format |-> format, bytes |-> bytes, feature |-> FALSE, events |-> events, rest |-> rest,
   decodes |-> decodes, content |-> c]
Sound(c, format) == Written(c, format, Len(Ev!Events(c)), Ev!Events(c), FALSE, TRUE)
Brief(c, format) == [Sound(c, format) EXCEPT !.bytes = 10]

\* One short document of each version, and what may happen to its structure.
Damaged ==
  {Content(s, 1, <<TextClass(1, 1, 1)>>, <<TextOverlay(1, 1, 1, <<2>>)>>,
           <<TextProfile(1, <<Selects(1, <<1>>), Selects(2, <<1>>)>>)>>, <<1>>) : s \in {"v1", "v2"}}
Nested(n) == [i \in 1 .. n |-> Ev!Open] \o <<Ev!Value>> \o [i \in 1 .. n |-> Ev!Close]
Spliced(events, i, with, from) == SubSeq(events, 1, i - 1) \o with \o SubSeq(events, from, Len(events))
Keys == {Ev!Key(k) : k \in {"id", "1", "2", "classes", "source", "<<", "other", Ev!NotAString}}
Damages(events) ==
  {Spliced(events, i, <<k, Ev!Value>>, i) :
     i \in {j \in DOMAIN events : Ev!IsKey(events[j])}, k \in Keys}
  \cup {Spliced(events, i, Nested(n), i + 1) :
          i \in {j \in DOMAIN events : events[j] = Ev!Value}, n \in 1 .. 6}
  \cup {SubSeq(events, 1, i) \o <<Ev!Bad>> : i \in 0 .. Len(events) - 1}

SchemaTexts ==
  UNION {{Sound(c, f), Brief(c, f)} : c \in TextContents, f \in {"json", "yaml"}}
  \cup UNION {{Written(c, f, 10, events, rest, FALSE) : events \in Damages(Ev!Events(c))} :
              c \in Damaged, f \in {"json", "yaml"}, rest \in BOOLEAN}
  \cup UNION {{Sound(c, f), [Sound(c, f) EXCEPT !.bytes = 101], [Brief(c, f) EXCEPT !.rest = TRUE],
               [Brief(c, f) EXCEPT !.feature = TRUE]} : c \in Damaged, f \in {"json", "yaml"}}

DeclarationLimits ==
  [class |-> 2, overlay |-> 2, profile |-> 2, variable |-> 2, selection |-> 4, incompatibility |-> 3]
-----------------------------------------------------------------------------
VARIABLES part, text, round, at, stack, document, first, textPc, textError

textVars == <<text, round, at, stack, document, first, textPc, textError>>

Schema == INSTANCE PackSchema WITH
  pc <- textPc, error <- textError, Texts <- SchemaTexts,
  MaxBytes <- 100, MaxDepth <- 5, MaxOf <- DeclarationLimits

\* A document that says nothing, for a composition at rest.
Resting ==
  /\ doc = Doc("v1", <<Class(1, 1, 0, 2)>>, <<File(1, 1, 1, {})>>, <<Profile(1, 1 :> <<1>>)>>,
               <<[id |-> 1]>>)
  /\ asked = 1 /\ disk = <<small, small, small>>

TextRests == text = Sound(CHOOSE c \in Damaged : c.schema = "v1", "json")

MCInit ==
  /\ part \in {"schema", "composition", "locks"}
  /\ part # "composition" => Resting
  /\ part # "schema" => TextRests
  /\ Init /\ Locks!Init /\ Schema!Init

MCNext ==
  /\ UNCHANGED part
  /\ \/ part = "schema" /\ Schema!Next /\ UNCHANGED <<vars, lockVars>>
     \/ part = "composition" /\ Next /\ UNCHANGED <<lockVars, textVars>>
     \/ part = "locks" /\ Locks!Next /\ UNCHANGED <<vars, textVars>>

MCSpec == MCInit /\ [][MCNext]_<<part, vars, lockVars, textVars>>

\* What is wrong with a document's text is told in the order the docs give, and what
\* a text says is read, and read back, as it is (parse_json, parse_yaml).
ReadsAsWritten == Schema!ReadsAsWritten
=============================================================================
