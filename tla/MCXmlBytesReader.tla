-------------------------- MODULE MCXmlBytesReader --------------------------
(* Instances of XmlBytesReader for TLC, and the grammar it must agree with. *)
EXTENDS XmlBytesReader

CONSTANTS a, b, e, f, u

Grammar == INSTANCE XmlGrammar

(* At the end, no error logged and a well-formed document are the same: a  *)
(* document that breaks a rule is never read without a report (if its      *)
(* references are resolved), and a well-formed one is neither refused nor  *)
(* repaired, unless it reaches a limit or the resolver cannot load an      *)
(* entity. It is about next() and all it calls, whose rules are spread     *)
(* over the document level, the text loop and the end of an entity.        *)
VerdictIsTheGrammars ==
  /\ outcome = "eof" /\ ~logged /\ opts.resolve => Grammar!WellFormed(doc, entities)
  /\ (outcome = "error" \/ logged) /\ failed = {}
       => ~Grammar!WellFormed(doc, entities)

T(kind)    == [k |-> kind, n |-> NONE]
S(name)    == [k |-> "start", n |-> name]
M(name)    == [k |-> "empty", n |-> name]
C(name)    == [k |-> "end", n |-> name]
R(name)    == [k |-> "ref", n |-> name]

UpTo(n, K) == UNION {[1..m -> K] : m \in 0..n}

Opt(recovery, resolve) == [recovery |-> recovery, resolve |-> resolve]
Expanded   == {Opt(FALSE, TRUE), Opt(TRUE, TRUE)}
AllOptions == Expanded \cup {Opt(FALSE, FALSE)}

Table(s, t, external) ==
  [x \in {e, f} |-> IF x = e THEN [text |-> s, external |-> external]
                            ELSE [text |-> t, external |-> FALSE]]

With(D, E) == [doc : D, entities : E]

(* Structure: every document of up to five tokens, no entities in play.    *)
Structures ==
  With(UpTo(5, {S(a), S(b), C(a), C(b), M(a), T("text")})
         \cup UpTo(3, {S(a), C(a), T("cdata"), T("misc"), T("lt"), T("junk"), T("ws")}),
       {Table(<< >>, << >>, FALSE)})

(* References inside a root element, around and behind it, to every pair   *)
(* of short replacement texts, the first of which may be external.         *)
References ==
  With({<<S(a)>> \o s \o <<C(a)>> : s \in UpTo(2, {R(e), S(b), C(b)})}
         \cup {<<R(e)>>, <<S(a), C(a), R(e)>>, <<S(a), R(u), C(a)>>,
               <<S(a), T("text"), R(e), R(f), R(e), C(a)>>},
       {Table(s, t, g) :
          s \in UpTo(2, {S(b), C(b), C(a), T("text"), R(f), R(u)})
                  \cup {<<M(b)>>, <<T("junk")>>},
          t \in {<< >>, <<R(e)>>, <<R(u)>>, <<S(a)>>}, g \in BOOLEAN})

Everything == Structures \cup References
=============================================================================
