--------------------------- MODULE SubtreeStream ---------------------------
(***************************************************************************)
(* StreamParser (crates/core/src/stream_parser.rs): the reader's events go *)
(* in, and every element the emit mode selects comes out as a document of  *)
(* its own, its names resolved against declarations that may stand far     *)
(* above it.  A QName is <<prefix, local>>, the prefix "" for none; a      *)
(* start tag is [name, decls, atts], its declarations <<prefix, uri>>.     *)
(* LookupByPrefix, BuildableByPrefix and PopOne are altered forms of what  *)
(* follows each, used to show that a property can fail.                    *)
(***************************************************************************)
EXTENDS Naturals, Sequences, FiniteSets, SequencesExt, FiniteSetsExt

CONSTANTS XML, XMLNS,     \* the two reserved namespace names
          KeepGoing       \* the caller goes on calling after an error

VARIABLES emit,           \* <<"None">>, <<"Depth", d>>, <<"Path", p>>, <<"When", P>>
          sax_depth, name_stack, ns_bindings, ns_frames,
          current,        \* the emission: at most one, as a set
          emitted,        \* the documents returned
          outcome         \* of the last call: "ok", "error", or "panic"

spVars == <<emit, sax_depth, name_stack, ns_bindings, ns_frames, current, emitted, outcome>>

BuiltIn == <<<<"xml", XML>>, <<"xmlns", XMLNS>>>>

SPInit(modes) ==
  /\ emit \in modes
  /\ sax_depth = 0 /\ name_stack = <<>> /\ ns_frames = <<>>
  /\ ns_bindings = BuiltIn
  /\ current = {} /\ emitted = <<>> /\ outcome = "ok"

-----------------------------------------------------------------------------
(* Names and namespaces.                                                    *)

validate_qname(q) == q[1] # ":"          \* ":" stands for a malformed name

validate_xmlns_decl(d) ==
  /\ d[1] # "xmlns" /\ d[2] \notin {XMLNS, ""}
  /\ d[1] = "xml" <=> d[2] = XML

(* The declarations up to the first bad one are in the frame when it fails. *)
GoodDecls(decls) == \A i \in DOMAIN decls : decls[i][1] = "" \/ validate_xmlns_decl(decls[i])
Declared(decls) ==
  LET bad == {i \in DOMAIN decls : decls[i][1] # "" /\ ~validate_xmlns_decl(decls[i])}
      seen == IF bad = {} THEN decls ELSE SubSeq(decls, 1, Min(bad) - 1)
  IN SelectSeq(seen, LAMBDA d : d[1] # "xml")

(* The innermost binding wins.                                              *)
lookup_prefix(prefix, bindings) ==
  LET hits == {i \in DOMAIN bindings : bindings[i][1] = prefix}
  IN IF hits = {} THEN "undeclared" ELSE bindings[Max(hits)][2]

(* The namespace name of a QName, "" for none.                              *)
resolve_qname(q, bindings, is_attribute) ==
  CASE q[1] # ""                     -> lookup_prefix(q[1], bindings)
    [] q[1] = "" /\ is_attribute     -> ""
    [] q[1] = "" /\ ~is_attribute    ->
         LET href == lookup_prefix("", bindings) IN IF href = "undeclared" THEN "" ELSE href

validate_element_ns(tag, bindings) ==
  /\ validate_qname(tag.name) /\ resolve_qname(tag.name, bindings, FALSE) # "undeclared"
  /\ \A i \in DOMAIN tag.atts :
       validate_qname(tag.atts[i]) /\ resolve_qname(tag.atts[i], bindings, TRUE) # "undeclared"

(* In an emission two attributes of one expanded name are an error as well. *)
BuildableByPrefix(tag, bindings) ==
  /\ validate_element_ns(tag, bindings)
  /\ \A i, j \in DOMAIN tag.atts : i # j => tag.atts[i] # tag.atts[j]
Buildable(tag, bindings) ==
  /\ validate_element_ns(tag, bindings)
  /\ \A i, j \in DOMAIN tag.atts : i # j =>
       <<resolve_qname(tag.atts[i], bindings, TRUE), tag.atts[i][2]>>
         # <<resolve_qname(tag.atts[j], bindings, TRUE), tag.atts[j][2]>>

-----------------------------------------------------------------------------
(* The emission.  A node names its namespace by its place among the         *)
(* namespaces of the arena, 0 for none.                                     *)

LookupByPrefix(namespaces, pair) ==
  LET hits == {i \in DOMAIN namespaces : namespaces[i][1] = pair[1]}
  IN IF hits = {} THEN <<Append(namespaces, pair), Len(namespaces) + 1>>
     ELSE <<namespaces, Min(hits)>>
lookup_or_alloc_ns(namespaces, pair) ==
  LET hits == {i \in DOMAIN namespaces : namespaces[i] = pair}
  IN IF hits = {} THEN <<Append(namespaces, pair), Len(namespaces) + 1>>
     ELSE <<namespaces, Min(hits)>>

Bound(namespaces, q, bindings, is_attribute) ==
  LET href == resolve_qname(q, bindings, is_attribute)
  IN IF href = "" THEN <<namespaces, 0>> ELSE lookup_or_alloc_ns(namespaces, <<q[1], href>>)

build_element_with_ns(emis, tag, bindings) ==
  LET el   == Bound(emis.namespaces, tag.name, bindings, FALSE)
      atts == FoldLeft(LAMBDA acc, q : LET b == Bound(acc[1], q, bindings, TRUE)
                                       IN <<b[1], Append(acc[2], <<q, b[2]>>)>>,
                       <<el[1], <<>>>>, tag.atts)
      node == [kind |-> "Element", name |-> tag.name, ns |-> el[2], atts |-> atts[2],
               parent |-> IF emis.stack = <<>> THEN 0 ELSE Last(emis.stack)]
  IN [emis EXCEPT !.namespaces = atts[1], !.nodes = Append(@, node),
                  !.stack = Append(@, Len(emis.nodes) + 1)]

Emission(depth) == [start_depth |-> depth, stack |-> <<>>, nodes |-> <<>>, namespaces |-> <<>>]

element_matches(depth, names) ==
  CASE emit[1] = "None"  -> FALSE
    [] emit[1] = "Depth" -> depth - 1 = emit[2]
    [] emit[1] = "Path"  -> names = emit[2]
    [] emit[1] = "When"  -> names \in emit[2]

-----------------------------------------------------------------------------
Callable == outcome = "ok" \/ (KeepGoing /\ outcome = "error")

(* Depth and name are pushed before anything is checked, the frame before   *)
(* the declarations are; what fails then stays pushed.                      *)
SPStart(tag) ==
  LET depth    == sax_depth + 1
      names    == Append(name_stack, tag.name)
      bindings == ns_bindings \o Declared(tag.decls)
      starts   == current = {} /\ element_matches(depth, names)
      into     == IF starts THEN {Emission(depth)} ELSE current
      fails    == \/ ~GoodDecls(tag.decls)
                  \/ IF into = {} THEN ~validate_element_ns(tag, bindings)
                     ELSE ~Buildable(tag, bindings)
  IN /\ Callable
     /\ sax_depth' = depth /\ name_stack' = names
     /\ IF ~validate_qname(tag.name)
        THEN /\ outcome' = "error"
             /\ UNCHANGED <<ns_frames, ns_bindings, current>>
        ELSE /\ ns_frames' = Append(ns_frames, Len(ns_bindings))
             /\ ns_bindings' = bindings
             /\ outcome' = IF fails THEN "error" ELSE "ok"
             /\ current' = IF fails THEN current
                           ELSE {build_element_with_ns(e, tag, bindings) : e \in into}
     /\ UNCHANGED <<emit, emitted>>

Front0(s) == IF s = <<>> THEN s ELSE Front(s)

(* An end tag takes back all its start tag declared.                        *)
PopOne(bindings, frames) ==
  IF frames = <<>> \/ Len(bindings) = Last(frames) THEN bindings ELSE Front(bindings)
PopFrame(bindings, frames) ==
  IF frames = <<>> THEN bindings ELSE SubSeq(bindings, 1, Last(frames))

(* The anchor's own end tag ships the document; its root is stack[0].       *)
SPEnd ==
  /\ Callable
  /\ name_stack' = Front(name_stack)
  /\ ns_frames' = Front0(ns_frames)
  /\ ns_bindings' = PopFrame(ns_bindings, ns_frames)
  /\ sax_depth' = sax_depth - 1
  /\ LET ships == {e \in current : e.start_depth = sax_depth}
     IN /\ current' = {[e EXCEPT !.stack = Front0(@)] : e \in current \ ships}
        /\ outcome' = IF \E e \in ships : e.stack = <<>> THEN "panic" ELSE "ok"
        /\ emitted' = emitted \o [i \in 1..Cardinality({e \in ships : e.stack # <<>>}) |->
                                    CHOOSE e \in ships : TRUE]
  /\ UNCHANGED emit

(* Text, CDATA, comment, processing instruction, unexpanded reference.      *)
SPLeaf(kind) ==
  LET node(e) == [kind |-> kind, name |-> <<"", kind>>, ns |-> 0, atts |-> <<>>,
                  parent |-> Last(e.stack)]
  IN /\ Callable
     /\ outcome' = IF \E e \in current : e.stack = <<>> THEN "panic" ELSE "ok"
     /\ current' = {IF e.stack = <<>> THEN e ELSE [e EXCEPT !.nodes = Append(@, node(e))] :
                      e \in current}
     /\ UNCHANGED <<emit, sax_depth, name_stack, ns_bindings, ns_frames, emitted>>
=============================================================================
