----------------------------- MODULE XmlGrammar -----------------------------
(***************************************************************************)
(* When a document is well-formed, stated without a reader: of the tokens  *)
(* of XmlBytesReader, by XML 1.0 sections 2.1 (document), 3 (element type  *)
(* match), 4.1 (entity declared, no recursion) and 4.3.2 (each replacement *)
(* text matches content).                                                  *)
(***************************************************************************)
EXTENDS Naturals, Sequences, FiniteSets

CONSTANTS Entities, Undeclared, Source

(* How many of the first i tokens of s are of a kind.                      *)
CountOf(s, i, kind) == Cardinality({j \in 1..i : s[j].k = kind})

(* Token j ends the element that token i starts.                           *)
Closes(s, i, j) ==
  /\ i < j /\ s[j].k = "end"
  /\ CountOf(s, j, "start") - CountOf(s, i - 1, "start")
       = CountOf(s, j, "end") - CountOf(s, i - 1, "end")
  /\ \A m \in i..j - 1 :
       CountOf(s, m, "start") - CountOf(s, i - 1, "start")
         > CountOf(s, m, "end") - CountOf(s, i - 1, "end")

(* Starts and ends pair up, with the same names.                           *)
Balanced(s) ==
  /\ \A i \in DOMAIN s : s[i].k = "start" =>
       \E j \in DOMAIN s : Closes(s, i, j) /\ s[i].n = s[j].n
  /\ \A j \in DOMAIN s : s[j].k = "end" => \E i \in DOMAIN s : Closes(s, i, j)

Legal(s) == \A i \in DOMAIN s : s[i].k \notin {"lt", "junk"}

(* Token i of s lies inside no element.                                    *)
Outside(s, i) ==
  CountOf(s, i - 1, "start") = CountOf(s, i - 1, "end")

(* One element, with white space and misc around it.                       *)
OneRoot(s) ==
  /\ Cardinality({i \in DOMAIN s : Outside(s, i) /\ s[i].k \in {"start", "empty"}}) = 1
  /\ \A i \in DOMAIN s :
       Outside(s, i) => s[i].k \in {"start", "empty", "ws", "misc"}

Refs(s) == {s[i].n : i \in {j \in DOMAIN s : s[j].k = "ref"}}

TextOf(doc, table, x) == IF x = Source THEN doc ELSE table[x].text

(* The entities that the texts of X refer to.                              *)
Named(doc, table, X) ==
  Entities \cap (UNION {Refs(TextOf(doc, table, x)) : x \in X})

(* The texts a reader comes through from those of X by following the       *)
(* references to entities of E.                                            *)
Reached(doc, table, X, E) ==
  LET near[k \in 0..Cardinality(Entities)] ==
        IF k = 0 THEN X
        ELSE near[k - 1] \cup (Named(doc, table, near[k - 1]) \cap E)
  IN near[Cardinality(Entities)]

(* Inside an external entity an undeclared reference is no violation.      *)
WellFormed(doc, table) ==
  /\ Balanced(doc) /\ Legal(doc) /\ OneRoot(doc)
  /\ \A x \in Reached(doc, table, {Source}, Entities) \ {Source} :
       /\ Balanced(table[x].text) /\ Legal(table[x].text)
       /\ x \notin Reached(doc, table, Named(doc, table, {x}), Entities)
  /\ \A x \in Reached(doc, table, {Source}, {y \in Entities : ~table[y].external}) :
       Refs(TextOf(doc, table, x)) \cap Undeclared = {}
=============================================================================
