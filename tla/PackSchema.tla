----------------------------- MODULE PackSchema -----------------------------
(***************************************************************************)
(* From the text of a pack document to what OverlayPack::new is given:     *)
(* parse_json_with_limits and parse_yaml_with_limits                       *)
(* (crates/invokrum-schema), and back by to_normalized_json, whose text is *)
(* read once more.                                                         *)
(*                                                                         *)
(* A text is the events a JSON or YAML parser makes of it, and what serde  *)
(* would decode. The first pass over it (StrictSeed) takes one event per   *)
(* step. Identifiers are numbers in their order, and 0 is what             *)
(* Identifier::parse or PackRelativePath::parse refuses.                   *)
(***************************************************************************)
EXTENDS FiniteSets, EarlyReturn, PackEvents

CONSTANTS
  Texts,                \* [format, bytes, feature, events, rest, decodes, content]
  MaxBytes, MaxDepth,   \* SchemaLimits
  MaxOf                 \* DeclarationLimits: from each kind of declaration

VARIABLES
  text,                 \* what is being read
  round,                \* 1, and 2 when the normalized text is read
  at, stack,            \* the next event; the keys seen in each container that is open
  document,             \* what OverlayPack::new is given, NoDocument before
  first,                \* the pack of the first round
  pc, error

vars == <<text, round, at, stack, document, first, pc, error>>

NoDocument == [classes |-> <<>>, overlays |-> <<>>, profiles |-> <<>>, variables |-> <<>>]
-----------------------------------------------------------------------------
Init ==
  /\ text \in Texts /\ round = 1
  /\ at = 1 /\ stack = <<>> /\ document = NoDocument /\ first = NoDocument
  /\ pc = "size" /\ error = Ok

Refuse(why) ==
  /\ pc' = "done" /\ error' = why
  /\ UNCHANGED <<text, round, at, stack, document, first>>

\* ensure_document_size, then for YAML what validate_yaml_subset finds.
Size ==
  LET refusal == FirstOf(<<When(text.bytes > MaxBytes, "DocumentTooLarge"),
                           When(text.format = "yaml" /\ text.feature, "UnsupportedYamlFeature")>>)
  IN /\ pc = "size"
     /\ IF refusal # Ok THEN Refuse(refusal)
        ELSE pc' = "walk" /\ UNCHANGED <<text, round, at, stack, document, first, error>>

Walking == pc = "walk" /\ at <= Len(text.events)

Pass(deeper) ==
  /\ at' = at + 1 /\ stack' = deeper
  /\ UNCHANGED <<text, round, document, first, pc, error>>

\* enter_container
EnterContainer ==
  /\ Walking /\ text.events[at] = Open
  /\ IF Len(stack) + 1 > MaxDepth THEN Refuse("NestingTooDeep")
     ELSE Pass(Append(stack, {}))

LeaveContainer == Walking /\ text.events[at] = Close /\ Pass(Front(stack))

\* Mutant: the keys seen are those of the whole document.
VisitKeyAnywhere ==
  /\ Walking /\ IsKey(text.events[at])
  /\ LET name    == text.events[at][2]
         refusal ==
           FirstOf(<<When(name = NotAString, "Decode"),
                     When(text.format = "yaml" /\ name = "<<", "UnsupportedYamlFeature"),
                     When(\E i \in DOMAIN stack : name \in stack[i], "DuplicateMappingKey")>>)
     IN IF refusal # Ok THEN Refuse(refusal)
        ELSE Pass([stack EXCEPT ![Len(stack)] = @ \cup {name}])

\* visit_map: one key, before its value.
VisitKey ==
  /\ Walking /\ IsKey(text.events[at])
  /\ LET name    == text.events[at][2]
         refusal ==
           FirstOf(<<When(name = NotAString, "Decode"),
                     When(text.format = "yaml" /\ name = "<<", "UnsupportedYamlFeature"),
                     When(name \in Last(stack), "DuplicateMappingKey")>>)
     IN IF refusal # Ok THEN Refuse(refusal)
        ELSE Pass([stack EXCEPT ![Len(stack)] = @ \cup {name}])

VisitScalar == Walking /\ text.events[at] = Value /\ Pass(stack)

ParserFails == Walking /\ text.events[at] = Bad /\ Refuse("Decode")

\* What follows the value: end() of the JSON reader, the next YAML document.
EndOfDocument ==
  /\ pc = "walk" /\ at > Len(text.events)
  /\ IF text.rest
     THEN Refuse(IF text.format = "json" THEN "Decode" ELSE "MultipleYamlDocuments")
     ELSE pc' = "decode" /\ UNCHANGED <<text, round, at, stack, document, first, error>>
-----------------------------------------------------------------------------
(* What the text says, once it is decoded.                                 *)

\* The units each kind of declaration counts.
Counts(c) ==
  LET Sum(numbers) == FoldSeq(LAMBDA n, sum : n + sum, 0, numbers)
      Selected(profile) ==
        Sum([i \in DOMAIN profile.selections |-> 1 + Len(profile.selections[i].picks)])
  IN [class           |-> Len(c.classes),
      overlay         |-> Len(c.overlays),
      profile         |-> Len(c.profiles),
      variable        |-> Len(c.variables),
      selection       |-> Sum([i \in DOMAIN c.profiles |-> Selected(c.profiles[i])]),
      incompatibility |-> Sum([i \in DOMAIN c.overlays |-> Len(c.overlays[i].incompatible)])]

Kinds == <<"class", "overlay", "profile", "variable", "selection", "incompatibility">>

\* ensure_declaration_limits: the first kind, in this order, that there is too much of.
LimitRefusal(c) == FirstIn(Kinds, LAMBDA kind : IF Counts(c)[kind] > MaxOf[kind] THEN kind ELSE Ok)

\* parse_identifier_set: value by value, each parsed, then looked for among the earlier.
ListRefusal(list) ==
  LET Wrong(i) == list[i] = 0 \/ \E j \in 1 .. i - 1 : list[j] = list[i]
      wrong == {i \in DOMAIN list : Wrong(i)}
      least == CHOOSE i \in wrong : \A j \in wrong : i <= j
  IN IF wrong = {} THEN Ok
     ELSE IF list[least] = 0 THEN "InvalidIdentifier" ELSE "DuplicateListValue"

Invalid(ids) == IF \E i \in DOMAIN ids : ids[i] = 0 THEN "InvalidIdentifier" ELSE Ok

ClassRefusal(class) ==
  FirstOf(<<When(class.id = 0, "InvalidIdentifier"),
            When(class.maximum < class.minimum, "InvalidCardinality")>>)

OverlayRefusal(overlay) ==
  FirstOf(<<When(overlay.id = 0 \/ overlay.class = 0, "InvalidIdentifier"),
            When(overlay.source = 0, "InvalidPackPath"),
            When(ListRefusal(overlay.incompatible) # Ok, ListRefusal(overlay.incompatible))>>)

ProfileRefusal(profile) ==
  LET Selection(s) == Invalid(<<s.class>> \o s.picks)
      selections   == FirstIn(profile.selections, Selection)
  IN IF selections # Ok THEN selections ELSE Invalid(<<profile.id>>)

\* TryFrom<PackDocument>, in its order, up to OverlayPack::new.
ConversionRefusal(c) ==
  LET parts == <<FirstIn(c.classes, ClassRefusal), FirstIn(c.overlays, OverlayRefusal),
                 FirstIn(c.profiles, ProfileRefusal), Invalid(c.variables), Invalid(<<c.id>>)>>
  IN FirstIn(parts, LAMBDA part : part)

Converted(c) ==
  [classes   |-> c.classes,
   overlays  |-> [i \in DOMAIN c.overlays |->
                    [c.overlays[i] EXCEPT !.incompatible = Range(c.overlays[i].incompatible)]],
   profiles  |-> c.profiles,
   variables |-> c.variables]

\* The envelope, the family, the fields, the counts, the conversion.
DecodeRefusal(t) ==
  FirstOf(<<When(t.content.schema = "none", "Decode"),
            When(t.content.schema # "v1", "UnsupportedSchema"),
            When(~t.decodes, "Decode"),
            When(LimitRefusal(t.content) # Ok, "TooManyDeclarations"),
            When(ConversionRefusal(t.content) # Ok, ConversionRefusal(t.content))>>)

Decode ==
  /\ pc = "decode"
  /\ IF DecodeRefusal(text) # Ok THEN Refuse(DecodeRefusal(text))
     ELSE /\ document' = Converted(text.content) /\ pc' = "new"
          /\ UNCHANGED <<text, round, at, stack, first, error>>
-----------------------------------------------------------------------------
(* to_normalized_json                                                      *)

Sorted(set) == SetToSortSeq(set, LAMBDA a, b : a < b)

\* OverlayPack::new puts its lists in order (Composition has its checks).
Normal(d) ==
  [classes   |-> SortSeq(d.classes, LAMBDA a, b : a.order < b.order),
   overlays  |-> SortSeq(d.overlays, LAMBDA a, b : a.id < b.id),
   profiles  |-> SortSeq(d.profiles, LAMBDA a, b : a.id < b.id),
   variables |-> SortSeq(d.variables, LAMBDA a, b : a < b)]

Unique(list, Of(_)) == \A i, j \in DOMAIN list : Of(list[i]) = Of(list[j]) => i = j

\* No two declarations of one name or place, without which there is no pack.
Distinct(d) ==
  /\ Unique(d.classes, LAMBDA c : c.id) /\ Unique(d.classes, LAMBDA c : c.order)
  /\ Unique(d.overlays, LAMBDA o : o.id) /\ Unique(d.profiles, LAMBDA p : p.id)
  /\ Unique(d.variables, LAMBDA v : v)

\* From<&OverlayPack> for PackDocument. The length of a text is counted in events.
NormalizedText(d) ==
  LET content ==
        [text.content EXCEPT
           !.classes = d.classes, !.profiles = d.profiles, !.variables = d.variables,
           !.overlays = [i \in DOMAIN d.overlays |->
                           [d.overlays[i] EXCEPT !.incompatible = Sorted(@)]]]
  IN [format |-> "json", bytes |-> Len(Events(content)), feature |-> FALSE,
      events |-> Events(content), rest |-> FALSE, decodes |-> TRUE, content |-> content]

\* The domain refuses the document for a reason of its own,
Rejected ==
  /\ pc = "new" /\ round = 1
  /\ Refuse("Domain")

\* or makes it a pack, whose normalized text is then read.
Renormalize ==
  /\ pc = "new" /\ round = 1 /\ Distinct(document)
  /\ text' = NormalizedText(Normal(document))
  /\ first' = Normal(document)
  /\ round' = 2 /\ at' = 1 /\ stack' = <<>> /\ document' = NoDocument /\ pc' = "size"
  /\ UNCHANGED error

Next ==
  \/ Size \/ EnterContainer \/ LeaveContainer \/ VisitKey \/ VisitScalar \/ ParserFails
  \/ EndOfDocument \/ Decode \/ Rejected \/ Renormalize

Spec == Init /\ [][Next]_vars
-----------------------------------------------------------------------------
(* Positions: what the documents say of a text, without a stack.           *)

TypeOK ==
  /\ round \in 1 .. 2 /\ at \in 1 .. Len(text.events) + 1
  /\ Len(stack) \in 0 .. MaxDepth
  /\ pc \in {"size", "walk", "decode", "new", "done"}

\* How many containers are open around an event.
Level(i) ==
  Cardinality({j \in 1 .. i - 1 : text.events[j] = Open})
    - Cardinality({j \in 1 .. i - 1 : text.events[j] = Close})

\* Two keys are of one mapping when nothing between them leaves it.
SameMapping(i, j) == Level(i) = Level(j) /\ \A k \in i .. j : Level(k) >= Level(i)

WrongAt(i) ==
  LET e == text.events[i]
  IN FirstOf(<<
       When(e = Open /\ Level(i) >= MaxDepth, "NestingTooDeep"),
       When(e = Bad, "Decode"),
       When(IsKey(e) /\ e[2] = NotAString, "Decode"),
       When(text.format = "yaml" /\ e = Key("<<"), "UnsupportedYamlFeature"),
       When(IsKey(e) /\ \E j \in 1 .. i - 1 : text.events[j] = e /\ SameMapping(j, i),
            "DuplicateMappingKey")>>)

\* "the complete document must be [...] structurally unambiguous, and within the
\* container-depth limit" before anything is made of it: the walk stops at the first
\* event that is wrong where it stands, and at no other (visit_map, enter_container).
WalkIsExact ==
  /\ at > 1 => WrongAt(at - 1) = Ok
  /\ pc \in {"decode", "new"} => at > Len(text.events) /\ ~text.rest
  /\ pc = "done" /\ error \in {"NestingTooDeep", "DuplicateMappingKey"} =>
       WrongAt(at) = error

\* "A future-version document [...] receives an unsupported-version error rather
\* than a misleading unknown-field error", once its structure is sound.
FutureIsToldApart ==
  pc = "done" /\ text.content.schema = "v2" =>
    error # "Domain" /\ (error = "Decode" => text.rest \/ at <= Len(text.events))

\* Too large a text is not scanned; too many declarations are refused as such,
\* whatever is wrong with them, and nothing that is accepted has too many.
CountsComeFirst ==
  LET c == text.content
      over == \E kind \in DOMAIN MaxOf : Counts(c)[kind] > MaxOf[kind]
  IN /\ text.bytes > MaxBytes => at = 1 /\ error \in {Ok, "DocumentTooLarge"}
     /\ over => pc # "new" /\ error \notin {"InvalidIdentifier", "DuplicateListValue",
                                            "InvalidCardinality", "InvalidPackPath", "Domain"}
     /\ error = "TooManyDeclarations" => over

\* What the domain is given is all that the text says, and "incompatible_with values
\* must be unique; duplicates are rejected rather than silently deduplicated".
NothingIsLost ==
  pc = "new" =>
    /\ document.classes = text.content.classes /\ document.profiles = text.content.profiles
    /\ \A i \in DOMAIN document.overlays :
         Cardinality(document.overlays[i].incompatible)
           = Len(text.content.overlays[i].incompatible)

\* A pack's normalized text is read back as the same pack, unless it has grown
\* beyond what is read: it spells out what the first text may have left out.
NormalIsStable ==
  round = 2 =>
    /\ pc = "done" => error = "DocumentTooLarge"
    /\ pc = "new" => document = first /\ NormalizedText(Normal(document)) = text

\* What is wrong with a text is told by its structure, then by its version, then by
\* its size in declarations, then by what it says; and nothing is lost on the way.
ReadsAsWritten ==
  /\ TypeOK /\ WalkIsExact /\ FutureIsToldApart /\ CountsComeFirst /\ NothingIsLost
  /\ NormalIsStable
=============================================================================
