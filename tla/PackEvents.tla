----------------------------- MODULE PackEvents -----------------------------
(***************************************************************************)
(* A pack document as the events that a parser of JSON or YAML makes of    *)
(* it, in the form to_normalized_json writes (crates/invokrum-schema).     *)
(***************************************************************************)
EXTENDS Naturals, Sequences, SequencesExt

Open  == <<"open">>
Close == <<"close">>
Value == <<"value">>
Bad   == <<"bad">>       \* where the parser gives up
Key(name) == <<"key", name>>
IsKey(event) == event[1] = "key"
NotAString == "not a string"    \* a key of YAML that is not

Mapping(fields) == <<Open>> \o FlattenSeq(fields) \o <<Close>>
Field(name, value) == <<Key(name)>> \o value
ListOf(values) == <<Open>> \o FlattenSeq(values) \o <<Close>>
Scalars(values) == ListOf([i \in DOMAIN values |-> <<Value>>])

ClassEvents(c) ==
  Mapping([i \in 1 .. 4 |-> Field(<<"id", "order", "minimum", "maximum">>[i], <<Value>>)])
OverlayEvents(o) ==
  Mapping([i \in 1 .. 3 |-> Field(<<"id", "class", "source">>[i], <<Value>>)]
          \o <<Field("incompatible_with", Scalars(o.incompatible))>>)
ProfileEvents(p) ==
  Mapping(<<Field("id", <<Value>>),
            Field("selections",
                  Mapping([i \in DOMAIN p.selections |->
                             Field(ToString(p.selections[i].class), Scalars(p.selections[i].picks))]))>>)
VariableEvents(v) == Mapping(<<Field("name", <<Value>>), Field("sensitivity", <<Value>>)>>)

\* The events of a document that leaves nothing out.
Events(c) ==
  LET All(list, Of(_)) == ListOf([i \in DOMAIN list |-> Of(list[i])])
  IN Mapping(<<Field("schema", <<Value>>), Field("id", <<Value>>),
               Field("classes", All(c.classes, ClassEvents)),
               Field("overlays", All(c.overlays, OverlayEvents)),
               Field("profiles", All(c.profiles, ProfileEvents)),
               Field("variables", All(c.variables, VariableEvents))>>)
=============================================================================
