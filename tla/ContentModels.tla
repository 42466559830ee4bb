--------------------------- MODULE ContentModels ---------------------------
(***************************************************************************)
(* One element being validated against a content model by each of the      *)
(* library's schema validators that can express the model: the DTD matcher *)
(* reads the whole list of children at the end tag, the XSD cursor and the *)
(* RELAX NG residual move child by child.  Every state is also the state   *)
(* at the end tag, were the element to end here.                           *)
(***************************************************************************)
EXTENDS DtdContent, XsdDfa, RelaxNg

CONSTANTS Schemas,       \* the schemas, each Compiled from a content model
          Letters,       \* the names of children, "#text" for a text node
          AttNames,      \* the names of attributes
          MaxChildren(_) \* how many children an element of the model may get

(* The names of each element particle: its own, or with XSD's substitutes.  *)
Elements    == DOMAIN Substitutes
OwnName     == [n \in Elements |-> {n}]
WithMembers == [n \in Elements |-> {n} \cup Range(Substitutes[n])]

(* What each validator makes of a model before it reads any document, and   *)
(* holds at an element's start tag.                                         *)
Compiled(p) ==
  [model   |-> p,
   dfa     |-> IF XsdModel(p) /\ ~IsAll(p) THEN build_matcher(p) ELSE Builder0,
   cursor  |-> IF XsdModel(p) THEN build_cursor(p) ELSE None,
   pattern |-> IF RngModel(p) THEN parse_pattern_element(p, OwnName) ELSE p_not_allowed]

VARIABLES model, atts, word,   \* the model, and the element so far
          dfa, cursor,         \* the XSD automaton and where its cursor is
          reports,             \* the unexpected children XSD reported
          residual             \* what RELAX NG still wants

model_vars == <<model, atts, word, dfa, cursor, reports, residual>>

StartTag(s) ==
  /\ model = s.model /\ dfa = s.dfa /\ cursor = s.cursor /\ residual = s.pattern
  /\ atts = <<>> /\ word = <<>> /\ reports = 0

(* The attributes are consumed before the content, in document order.       *)
Attribute(n) ==
  /\ word = <<>> /\ ~Contains(atts, n) /\ "attr" \in Kinds(model)
  /\ atts' = Append(atts, n)
  /\ residual' = consume_attribute(residual, n)
  /\ UNCHANGED <<model, word, dfa, cursor, reports>>

Child(a) ==
  /\ Len(word) < MaxChildren(model)
  /\ a = "#text" => "text" \in Kinds(model)
  /\ word' = Append(word, a)
  /\ residual' = IF RngModel(model) THEN consume(residual, a) ELSE residual
  /\ LET next == IF XsdModel(model) THEN match_in_cursor(model, dfa, cursor, a) ELSE cursor
     IN /\ cursor'  = IF next = None THEN cursor ELSE next
        /\ reports' = IF next = None /\ XsdModel(model) THEN reports + 1 ELSE reports
  /\ UNCHANGED <<model, atts, dfa>>

ModelNext == (\E n \in AttNames : Attribute(n)) \/ (\E a \in Letters : Child(a))

-----------------------------------------------------------------------------
DtdVerdict == check_content(model, word)
XsdAccepts == reports = 0 /\ ContentComplete(model, dfa, cursor)
RngAccepts == nullable(residual)

(* The children form a word of the model, with the attributes at some       *)
(* positions among them.                                                    *)
With(place) ==
  [k \in 1..Len(atts) + Len(word) |->
     IF k \in Range(place) THEN atts[CHOOSE i \in DOMAIN atts : place[i] = k]
     ELSE word[Cardinality((1..k) \ Range(place))]]
Belongs(names) ==
  \E place \in [DOMAIN atts -> 1..Len(atts) + Len(word)] :
     IsInjective(place) /\ Matches(LanguageOf(model, names), With(place))

RECURSIVE Parts0(_)
Parts0(p) == {p} \cup UNION {Parts0(Parts(p)[i]) : i \in DOMAIN Parts(p)}
Nullable(p) == Matches(LanguageOf(p, OwnName), <<>>)

(* No branch of a choice but the last, and nothing repeated without a bound, *)
(* may be empty: what the matcher needs, for it never takes a choice back.  *)
NothingEmptyTried(p) ==
  \A q \in Parts0(p) :
     /\ q[1][1] = "choice" => \A i \in DOMAIN Parts(q) : i < Len(Parts(q)) => ~Nullable(Parts(q)[i])
     /\ IsGroup(q) /\ q[3] = None => ~Nullable(P(q[1], 1, 1))

(* A group may be repeated, but not a bounded number of times.              *)
GroupsUnbounded(p) == \A q \in Parts0(p) : IsGroup(q) => q[2] <= 1 /\ q[3] \in {0, 1, None}
GroupsOnce(p)      == \A q \in Parts0(p) : IsGroup(q) => q[2] <= 1

-----------------------------------------------------------------------------
(* The DTD matcher never calls a word of no model valid, and decides every  *)
(* deterministic model in which nothing empty is tried before something     *)
(* else (check_content, match_group, match_particle).                       *)
DtdDecides ==
  DtdModel(model) =>
    /\ DtdVerdict = "valid" => Belongs(OwnName)
    /\ Deterministic(model, OwnName) /\ NothingEmptyTried(model) =>
         DtdVerdict = (IF Belongs(OwnName) THEN "valid" ELSE "invalid")

(* "Returns `true` if at least one matching of `group` against              *)
(* `names[pos..]` exists" (dtd/validate.rs:226), of deterministic models.   *)
DtdFindsMatching ==
  DtdModel(model) /\ Deterministic(model, OwnName) /\ Belongs(OwnName) => DtdVerdict = "valid"

(* The automaton of a model that respects Unique Particle Attribution       *)
(* accepts exactly the model's words; bounding a repeated group makes it    *)
(* accept more, never less (Dfa::step, the fragments of dfa.rs, match_all). *)
(* And such a model compiles, but for a repeated group with a wildcard      *)
(* (add_element, add_wildcard_checked).                                     *)
XsdDecides ==
  /\ XsdModel(model) /\ ~dfa.err /\ Deterministic(model, WithMembers) /\ GroupsOnce(model) =>
       /\ Belongs(WithMembers) => XsdAccepts
       /\ GroupsUnbounded(model) => (XsdAccepts => Belongs(WithMembers))
  /\ dfa.err /\ (GroupsOnce(model) \/ "wild" \notin Kinds(model)) =>
       ~Deterministic(model, WithMembers)

(* "bounded `max` becomes over-permissive [...] but we never under-accept"  *)
(* (xsd/dfa.rs:882).                                                        *)
XsdNeverUnderAccepts ==
  XsdModel(model) /\ ~dfa.err /\ Deterministic(model, WithMembers) /\ Belongs(WithMembers)
    => XsdAccepts

(* The derivatives decide every model, ambiguous or not, with attributes in *)
(* any order, as long as the element has at most one run of text            *)
(* (child_deriv, text_deriv, att_deriv, nullable).                          *)
RngDecides ==
  RngModel(model) /\ Cardinality({i \in DOMAIN word : word[i] = "#text"}) <= 1 =>
    RngAccepts = Belongs(OwnName)

(* "matches any sequence of text" (relaxng.rs:44): however many runs the    *)
(* children cut it into.                                                    *)
RngTextIsText == RngModel(model) => RngAccepts = Belongs(OwnName)
=============================================================================
