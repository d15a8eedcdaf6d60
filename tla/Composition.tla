---------------------------- MODULE Composition ----------------------------
(***************************************************************************)
(* From a pack document to the composed context of one of its profiles:    *)
(* OverlayPack::new (crates/invokrum-core/src/model.rs), which checks the  *)
(* document and puts it in order, then compose (composition.rs), which     *)
(* selects, checks for conflicts and reads the sources one by one while    *)
(* somebody else may be editing them.                                      *)
(*                                                                         *)
(* Identifiers are numbers in their order. What a source holds is a model  *)
(* value with a length; Gone stands for a source the adapter cannot read.  *)
(***************************************************************************)
EXTENDS Naturals, Sequences, FiniteSets, EarlyReturn

CONSTANTS
  Documents,            \* [family, classes, overlays, profiles, variables]
  ProfileIds,           \* the profiles a caller may ask for
  Sources, Disks,       \* the files overlays may name, and what they may hold at first
  Contents, Length(_), Gone,
  MaxOverlays, MaxOverlayBytes, MaxOutputBytes,  \* CompositionLimits
  MaxEdits              \* how often a file changes (bound of the model)

Separator == "LF LF"

\* What is assumed of the constants.
CompositionAssumption ==
  /\ \A d \in Documents :
       LET listed(list) == {list[i] : i \in DOMAIN list}
       IN /\ d.classes \in Seq([id : Nat, order : Nat, minimum : Nat, maximum : Nat])
          /\ d.overlays \in Seq(listed(d.overlays)) /\ d.profiles \in Seq(listed(d.profiles))
          /\ d.variables \in Seq(listed(d.variables))
          /\ \A o \in listed(d.overlays) : o.id \in Nat /\ o.source \in Sources
          /\ \A p \in listed(d.profiles) :
               p.id \in Nat /\ \A c \in DOMAIN p.selections : p.selections[c] \in Seq(Nat)
  /\ Disks \subseteq [Sources -> Contents \cup {Gone}]
  /\ \A content \in Contents : Length(content) \in Nat /\ content # Separator
  /\ {MaxOverlays, MaxOverlayBytes, MaxOutputBytes, MaxEdits} \subseteq Nat

VARIABLES
  doc,                  \* the document OverlayPack::new is given
  asked,                \* the profile asked for
  disk, edits,          \* what each source holds now, and how often that changed
  pack,                 \* the validated pack, NoPack before
  selected,             \* overlays in composition order
  segments, context, sourceBytes,
  pc, error

vars == <<doc, asked, disk, edits, pack, selected, segments, context, sourceBytes, pc, error>>

NoPack == [classes |-> <<>>]
-----------------------------------------------------------------------------
(* OverlayPack::new                                                        *)

Ids(list) == {list[i].id : i \in DOMAIN list}
With(list, id) == list[CHOOSE i \in DOMAIN list : list[i].id = id]
HasDuplicate(list) == Cardinality(Ids(list)) < Len(list)

\* The stable sort: each element at its rank. (SortSeq says nothing to the provers.)
Sorted(list, Before(_, _)) ==
  LET ahead(i) == {j \in DOMAIN list : \/ Before(list[j], list[i])
                                       \/ j < i /\ ~Before(list[i], list[j])}
  IN [n \in DOMAIN list |->
        list[CHOOSE i \in DOMAIN list : Cardinality(ahead(i)) = n - 1]]

\* Classes by their order number; everything else by identifier.
ByOrder(classes) ==
  Sorted(classes, LAMBDA a, b : a.order < b.order \/ (a.order = b.order /\ a.id < b.id))
ById(list) == Sorted(list, LAMBDA a, b : a.id < b.id)

Normal(d) ==
  [classes |-> ByOrder(d.classes), overlays |-> ById(d.overlays), profiles |-> ById(d.profiles)]

\* Mutant: equal order numbers are looked for before the classes are sorted.
SameOrderUnsorted(d) ==
  \E i \in 1 .. Len(d.classes) - 1 : d.classes[i].order = d.classes[i + 1].order

\* Neighbours of the sorted classes with one order number.
SameOrder(d) ==
  LET sorted == ByOrder(d.classes)
  IN \E i \in 1 .. Len(sorted) - 1 : sorted[i].order = sorted[i + 1].order

OverlayRefusal(d, o) ==
  FirstOf(<<When(o.class \notin Ids(d.classes), "UnknownClass"),
            When(~(o.incompatible \subseteq Ids(d.overlays)), "UnknownOverlayReference")>>)

Picks(profile, class) ==
  IF class \in DOMAIN profile.selections THEN profile.selections[class] ELSE <<>>

\* The i-th pick of a class.
PickRefusal(d, class, picks, i) ==
  IF \E j \in 1 .. i - 1 : picks[j] = picks[i] THEN "DuplicateProfileSelection"
  ELSE IF picks[i] \notin Ids(d.overlays) THEN "UnknownOverlayReference"
  ELSE IF With(d.overlays, picks[i]).class # class THEN "OverlayClassMismatch"
  ELSE Ok

\* Cardinality::accepts, then the picks one by one.
ClassRefusal(d, profile, class) ==
  LET picks == Picks(profile, class.id)
      wrong == {i \in DOMAIN picks : PickRefusal(d, class.id, picks, i) # Ok}
      first == CHOOSE i \in wrong : \A j \in wrong : i <= j
  IN IF Len(picks) < class.minimum \/ Len(picks) > class.maximum THEN "CardinalityViolation"
     ELSE IF wrong = {} THEN Ok ELSE PickRefusal(d, class.id, picks, first)

ProfileRefusal(d, profile) ==
  IF ~(DOMAIN profile.selections \subseteq Ids(d.classes)) THEN "UnknownProfileClass"
  ELSE FirstIn(ByOrder(d.classes), LAMBDA class : ClassRefusal(d, profile, class))

\* Why OverlayPack::new refuses a document, Ok when it does not.
PackRefusal(d) ==
  IF d.family = "" THEN "EmptySchemaFamily"
  ELSE IF \/ HasDuplicate(d.classes) \/ HasDuplicate(d.overlays)
          \/ HasDuplicate(d.profiles) \/ HasDuplicate(d.variables) THEN "DuplicateIdentifier"
  ELSE IF SameOrder(d) THEN "DuplicateClassOrder"
  ELSE LET overlays == FirstIn(ById(d.overlays), LAMBDA o : OverlayRefusal(d, o))
       IN IF overlays # Ok THEN overlays
          ELSE FirstIn(ById(d.profiles), LAMBDA p : ProfileRefusal(d, p))
-----------------------------------------------------------------------------
Init ==
  /\ doc \in Documents /\ asked \in ProfileIds
  /\ disk \in Disks /\ edits = 0
  /\ pack = NoPack /\ selected = <<>> /\ segments = <<>> /\ context = <<>> /\ sourceBytes = 0
  /\ pc = "new" /\ error = Ok

Fail(why) ==
  /\ pc' = "done" /\ error' = why
  /\ UNCHANGED <<doc, asked, disk, edits, pack, selected, segments, context, sourceBytes>>

NewPack ==
  /\ pc = "new"
  /\ IF PackRefusal(doc) # Ok THEN Fail(PackRefusal(doc))
     ELSE /\ pack' = Normal(doc) /\ pc' = "select"
          /\ UNCHANGED <<doc, asked, disk, edits, selected, segments, context, sourceBytes, error>>

\* resolve_selected: class by class in their order, in each as the profile says.
Picked(profile) ==
  LET upTo[n \in 0 .. Len(pack.classes)] ==
        IF n = 0 THEN <<>> ELSE upTo[n - 1] \o Picks(profile, pack.classes[n].id)
  IN upTo[Len(pack.classes)]

TooMany(overlays) == Len(overlays) > MaxOverlays

\* Mutant: only what comes later is looked at.
ConflictsForward(overlays) ==
  \E i, j \in DOMAIN overlays : i < j /\ overlays[j].id \in overlays[i].incompatible

\* reject_incompatibilities: each with each, itself included.
Conflicts(overlays) ==
  \E i, j \in DOMAIN overlays : overlays[j].id \in overlays[i].incompatible

\* compose, before anything is read. A pack that was validated has every overlay its
\* profiles name, so MissingOverlay is never reported for one.
Select ==
  /\ pc = "select"
  /\ IF asked \notin Ids(pack.profiles) THEN Fail("UnknownProfile")
     ELSE LET picked == Picked(With(pack.profiles, asked))
          IN IF ~({picked[i] : i \in DOMAIN picked} \subseteq Ids(pack.overlays))
             THEN Fail("MissingOverlay")
             ELSE LET overlays == [i \in DOMAIN picked |-> With(pack.overlays, picked[i])]
                  IN IF TooMany(overlays) THEN Fail("TooManyOverlays")
                     ELSE IF Conflicts(overlays) THEN Fail("IncompatibleOverlays")
                     ELSE /\ selected' = overlays /\ pc' = "assemble"
                          /\ UNCHANGED <<doc, asked, disk, edits, pack, segments, context,
                                         sourceBytes, error>>

BytesOf(sequence) ==
  LET sum[n \in 0 .. Len(sequence)] ==
        IF n = 0 THEN 0
        ELSE sum[n - 1] + IF sequence[n] = Separator THEN 2 ELSE Length(sequence[n])
  IN sum[Len(sequence)]

\* What is appended: two line feeds before every segment but the first.
Frame(bytes) == IF segments = <<>> THEN <<bytes>> ELSE <<Separator, bytes>>

Overlay == selected[Len(segments) + 1]

\* load_segment and one turn of the loop of assemble.
Load ==
  /\ pc = "assemble" /\ Len(segments) < Len(selected)
  /\ LET bytes == disk[Overlay.source]
     IN IF bytes = Gone THEN Fail("Source")
        ELSE IF Length(bytes) > MaxOverlayBytes
        THEN \* the adapter refuses what is over the limit it was given, or does not
             \E why \in {"Source", "OverlayTooLarge"} : Fail(why)
        ELSE IF BytesOf(context \o Frame(bytes)) > MaxOutputBytes THEN Fail("OutputTooLarge")
        ELSE /\ sourceBytes' = sourceBytes + Length(bytes)
             /\ context' = context \o Frame(bytes)
             /\ segments' = Append(segments, [class |-> Overlay.class, id |-> Overlay.id,
                                              source |-> Overlay.source, bytes |-> bytes])
             /\ UNCHANGED <<doc, asked, disk, edits, pack, selected, pc, error>>

Finish ==
  /\ pc = "assemble" /\ Len(segments) = Len(selected) /\ pc' = "done"
  /\ UNCHANGED <<doc, asked, disk, edits, pack, selected, segments, context, sourceBytes, error>>

\* Somebody edits or removes a source between two reads.
Edit(source) ==
  /\ pc = "assemble" /\ edits < MaxEdits /\ edits' = edits + 1
  /\ \E bytes \in (Contents \cup {Gone}) \ {disk[source]} :
       disk' = [disk EXCEPT ![source] = bytes]
  /\ UNCHANGED <<doc, asked, pack, selected, segments, context, sourceBytes, pc, error>>

Next == NewPack \/ Select \/ Load \/ Finish \/ \E source \in Sources : Edit(source)

Spec == Init /\ [][Next]_vars
-----------------------------------------------------------------------------
PackErrors == {"EmptySchemaFamily", "DuplicateIdentifier", "DuplicateClassOrder",
               "UnknownClass", "UnknownOverlayReference", "UnknownProfileClass",
               "CardinalityViolation", "DuplicateProfileSelection", "OverlayClassMismatch"}
ComposeErrors == {"UnknownProfile", "TooManyOverlays", "IncompatibleOverlays", "Source",
                  "OverlayTooLarge", "OutputTooLarge"}

\* That MissingOverlay is not among the errors is a claim of the code: compose
\* says "the validated aggregate is inconsistent" of it.
TypeOK ==
  /\ pc \in {"new", "select", "assemble", "done"}
  /\ error \in PackErrors \cup ComposeErrors \cup {Ok}
  /\ error \in PackErrors <=> pc = "done" /\ pack = NoPack
  /\ Len(segments) <= Len(selected) /\ Len(selected) <= MaxOverlays

Composed == pc = "done" /\ error = Ok
Elements(list) == {list[i] : i \in DOMAIN list}
Chosen == CHOOSE p \in Elements(doc.profiles) : p.id = asked

\* A document becomes a pack when, and only when, nothing in it is named twice or
\* not at all, every profile takes of each class as many as it allows, and each
\* only once and of its class, whatever order it declares them in.
PacksExactly ==
  LET once(list) == \A i, j \in DOMAIN list : list[i].id = list[j].id => i = j
      classOf(id) == {c \in Elements(doc.classes) : c.id = id}
      overlayOf(id) == {o \in Elements(doc.overlays) : o.id = id}
      sound ==
        /\ doc.family # ""
        /\ once(doc.classes) /\ once(doc.overlays) /\ once(doc.profiles) /\ once(doc.variables)
        /\ \A a, b \in Elements(doc.classes) : a.order = b.order => a = b
        /\ \A o \in Elements(doc.overlays) :
             classOf(o.class) # {} /\ \A id \in o.incompatible : overlayOf(id) # {}
        /\ \A p \in Elements(doc.profiles) :
             /\ \A c \in DOMAIN p.selections : classOf(c) # {}
             /\ \A c \in DOMAIN p.selections : \A i \in DOMAIN p.selections[c] :
                  /\ \E o \in overlayOf(p.selections[c][i]) : o.class = c
                  /\ \A j \in DOMAIN p.selections[c] : j # i => p.selections[c][j] # p.selections[c][i]
             /\ \A c \in Elements(doc.classes) :
                  LET n == IF c.id \in DOMAIN p.selections THEN Len(p.selections[c.id]) ELSE 0
                  IN c.minimum <= n /\ n <= c.maximum
  IN pc # "new" => (pack # NoPack <=> sound)

\* The order of the segments is that of the classes' numbers and, in a class,
\* that of the profile: never the order of the document or of the identifiers.
OrderIsDeclared ==
  Composed =>
    LET number(s) == (CHOOSE c \in Elements(doc.classes) : c.id = s.class).order
        place(s) == CHOOSE i \in DOMAIN Chosen.selections[s.class] :
                      Chosen.selections[s.class][i] = s.id
    IN /\ {s.id : s \in Elements(segments)}
            = UNION {Elements(Chosen.selections[c]) : c \in DOMAIN Chosen.selections}
       /\ \A i, j \in DOMAIN segments : i < j =>
            \/ number(segments[i]) < number(segments[j])
            \/ segments[i].class = segments[j].class /\ place(segments[i]) < place(segments[j])

\* Two overlays one of which rules out the other are never read, let alone
\* composed, whichever of the two says so and whichever comes first.
ConflictsAreNeverRead ==
  segments # <<>> =>
    \A c \in DOMAIN Chosen.selections, d \in DOMAIN Chosen.selections :
      \A x \in Elements(Chosen.selections[c]), y \in Elements(Chosen.selections[d]) :
        \A o \in Elements(doc.overlays) : o.id = x => y \notin o.incompatible

\* The context is the segments with two line feeds between any two of them, also
\* around an empty one, and the sizes of the manifest are true and within limits.
ContextIsExact ==
  LET n == Len(segments)
      total[i \in 0 .. n] == IF i = 0 THEN 0 ELSE total[i - 1] + Length(segments[i].bytes)
  IN /\ Len(context) = IF n = 0 THEN 0 ELSE 2 * n - 1
     /\ \A i \in 1 .. n : context[2 * i - 1] = segments[i].bytes
     /\ \A i \in 1 .. n - 1 : context[2 * i] = Separator
     /\ sourceBytes = total[n]
     /\ n > 0 => total[n] + 2 * (n - 1) <= MaxOutputBytes
     /\ \A i \in 1 .. n : Length(segments[i].bytes) <= MaxOverlayBytes

\* What is composed is what the pack declares, in its order, of one reading.
ComposesExactly == TypeOK /\ OrderIsDeclared /\ ConflictsAreNeverRead /\ ContextIsExact
=============================================================================
