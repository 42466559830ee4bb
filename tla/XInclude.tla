------------------------------ MODULE XInclude ------------------------------
(***************************************************************************)
(* XInclude, twice: the core's walk, which copies a document and replaces  *)
(* its includes on the way (core/src/xinclude.rs), and the C API's, which  *)
(* replaces them in the tree (compat/src/xinclude.rs).                     *)
(*                                                                         *)
(* An href is a resource's name, relative ones resolved; xpointer selects  *)
(* part of a resource and is left out.  Operators with a suffix are        *)
(* altered forms of the one they stand before.                             *)
(***************************************************************************)
EXTENDS Naturals, Sequences, FiniteSets, SequencesExt

(* A node: text, an element with its children, or an include, whose         *)
(* fallback is <<>> or the sequence of one list of children.                *)
TextNode(v)   == <<"text", v>>
El(kids)      == <<"el", kids>>
Inc(href, parse, fallback) == <<"include", href, parse, fallback>>

is_xinclude_element(n) == n[1] = "include"
NoHref == "-"
Fallback(n)    == n[4]
HasFallback(n) == n[4] # <<>>

(* A resource: its size, and its root, <<>> when it is not well-formed.     *)
(* A call: the resources, the limits, and the root of the document.         *)
Exists(call, href) == href \in DOMAIN call.resources

-----------------------------------------------------------------------------
(* The core.  `state' lives as long as the call: what is open must be given *)
(* back on every path.                                                      *)
State0 == [hrefs |-> {}, depth |-> 0, total_bytes |-> 0]
Done(out, s) == [ok |-> TRUE, out |-> out, s |-> s]
Failed(s)    == [ok |-> FALSE, out |-> <<>>, s |-> s]

(* Reasons to fail before anything is read, and the budget.                 *)
Refused(call, n, s) ==
  \/ n[3] \notin {"xml", "text"} \/ n[2] = NoHref
  \/ n[2] \in s.hrefs
  \/ ~Exists(call, n[2])

OverBudget(call, n, s) == s.total_bytes + call.resources[n[2]].size > call.max_total_bytes

RECURSIVE copy_subtree(_, _, _), copy_children_into(_, _, _),
          resolve_include(_, _, _), resolve_include_inner(_, _, _)

copy_subtree(call, n, s) ==
  IF n[1] # "el" THEN Done(<<n>>, s)
  ELSE LET r == copy_children_into(call, n[2], s) IN [r EXCEPT !.out = <<El(@)>>]

copy_children_into(call, kids, s) ==
  IF kids = <<>> THEN Done(<<>>, s)
  ELSE LET n == kids[1]
           r == IF is_xinclude_element(n) THEN resolve_include(call, n, s) ELSE copy_subtree(call, n, s)
           rest == copy_children_into(call, Tail(kids), r.s)
       IN IF r.ok THEN [rest EXCEPT !.out = r.out \o @] ELSE r

resolve_include_innerKept(call, n, s) ==   \* a failure inside leaves the href open
  LET file == call.resources[n[2]]
      s1 == [s EXCEPT !.total_bytes = @ + file.size]
      s2 == [s1 EXCEPT !.hrefs = @ \cup {n[2]}]
  IN CASE Refused(call, n, s) -> Failed(s)
       [] ~Refused(call, n, s) /\ OverBudget(call, n, s) -> Failed(s)
       [] ~Refused(call, n, s) /\ ~OverBudget(call, n, s) ->
            IF n[3] = "text" THEN Done(<<TextNode(n[2])>>, s1)
            ELSE IF file.root = <<>> THEN Failed(s1)
            ELSE LET r == IF is_xinclude_element(file.root) THEN resolve_include(call, file.root, s2)
                          ELSE copy_subtree(call, file.root, s2)
                 IN IF r.ok THEN [r EXCEPT !.s.hrefs = @ \ {n[2]}] ELSE r
resolve_include_inner(call, n, s) ==
  LET file == call.resources[n[2]]
      s1 == [s EXCEPT !.total_bytes = @ + file.size]
      s2 == [s1 EXCEPT !.hrefs = @ \cup {n[2]}]
  IN CASE Refused(call, n, s) -> Failed(s)
       [] ~Refused(call, n, s) /\ OverBudget(call, n, s) -> Failed(s)
       [] ~Refused(call, n, s) /\ ~OverBudget(call, n, s) ->
            IF n[3] = "text" THEN Done(<<TextNode(n[2])>>, s1)
            ELSE IF file.root = <<>> THEN Failed(s1)
            ELSE LET r == IF is_xinclude_element(file.root) THEN resolve_include(call, file.root, s2)
                          ELSE copy_subtree(call, file.root, s2)
                 IN [r EXCEPT !.s.hrefs = @ \ {n[2]}]

(* At the limit the include fails at once, its own fallback not tried.      *)
resolve_include(call, n, s) ==
  IF s.depth >= call.max_depth THEN Failed(s)
  ELSE LET primary == resolve_include_inner(call, n, [s EXCEPT !.depth = @ + 1])
           back == [primary.s EXCEPT !.depth = @ - 1]
       IN CASE primary.ok -> [primary EXCEPT !.s = back]
            [] ~primary.ok /\ HasFallback(n) -> copy_children_into(call, Fallback(n)[1], back)
            [] ~primary.ok /\ ~HasFallback(n) -> Failed(back)

process_xincludes(call) ==
  IF is_xinclude_element(call.root) THEN Failed(State0) ELSE copy_subtree(call, call.root, State0)

-----------------------------------------------------------------------------
(* The C API.  No record of the open resources, only a depth.  A copy has   *)
(* no parent until it is spliced in, so a copied node that is itself an     *)
(* include cannot be replaced: `attached' says whether n has one.           *)
Spliced(ok, out) == [ok |-> ok, out |-> out]

RECURSIVE process_one(_, _, _, _), resolve_primary(_, _, _), copy_and_expand(_, _, _),
          ExpandCollected(_, _, _), CopyEach(_, _, _)

process_one(call, n, depth, attached) ==
  IF depth > call.MAX_XINCLUDE_DEPTH THEN Spliced(FALSE, <<n>>)
  ELSE LET primary == resolve_primary(call, n, depth)
           new == CASE primary.ok -> primary
                    [] ~primary.ok /\ HasFallback(n) -> CopyEach(call, Fallback(n)[1], depth)
                    [] ~primary.ok /\ ~HasFallback(n) -> primary
       IN IF new.ok /\ attached THEN new ELSE Spliced(FALSE, <<n>>)

(* Anything but "text" is read as XML.                                      *)
resolve_primary(call, n, depth) ==
  IF n[2] = NoHref \/ ~Exists(call, n[2]) THEN Spliced(FALSE, <<>>)
  ELSE IF n[3] = "text" THEN Spliced(TRUE, <<TextNode(n[2])>>)
  ELSE IF call.resources[n[2]].root = <<>> THEN Spliced(FALSE, <<>>)
  ELSE copy_and_expand(call, call.resources[n[2]].root, depth)

copy_and_expand(call, tgt, depth) ==
  IF is_xinclude_element(tgt) THEN process_one(call, tgt, depth + 1, FALSE)
  ELSE ExpandCollected(call, <<tgt>>, depth + 1)

CopyEachRaw(call, kids, depth) == Spliced(TRUE, kids)
CopyEach(call, kids, depth) ==
  IF kids = <<>> THEN Spliced(TRUE, <<>>)
  ELSE LET r == copy_and_expand(call, kids[1], depth)
           rest == CopyEach(call, Tail(kids), depth)
       IN IF r.ok THEN Spliced(rest.ok, r.out \o rest.out) ELSE r

(* The includes of the nodes in document order, replaced one by one; after  *)
(* the first failure the rest stay as they are.                             *)
ExpandCollected(call, nodes, depth) ==
  IF nodes = <<>> THEN Spliced(TRUE, <<>>)
  ELSE LET n == nodes[1]
           inside == ExpandCollected(call, n[2], depth)
           r == CASE n[1] = "include" -> process_one(call, n, depth, TRUE)
                  [] n[1] = "el"      -> Spliced(inside.ok, <<El(inside.out)>>)
                  [] n[1] = "text"    -> Spliced(TRUE, <<n>>)
           rest == ExpandCollected(call, Tail(nodes), depth)
       IN IF r.ok THEN Spliced(rest.ok, r.out \o rest.out) ELSE Spliced(FALSE, r.out \o Tail(nodes))

xmlXIncludeProcessTree(call) == ExpandCollected(call, <<call.root>>, 0)

(* Of a whole document: from its first node, which may be a comment.        *)
xmlXIncludeProcessFlags(call) ==
  IF call.prolog THEN Spliced(TRUE, <<call.root>>) ELSE xmlXIncludeProcessTree(call)

-----------------------------------------------------------------------------
(* What inclusion means: a document in which every include stands for the   *)
(* expansion of its resource, or else of its fallback.  `chain' holds the   *)
(* resources the include is in; nothing else is remembered.                 *)
Means(ok, out) == [ok |-> ok, out |-> out]

RECURSIVE Expansion(_, _, _)
Expansion(call, nodes, chain) ==
  LET Usable(n) == /\ n[2] # NoHref /\ n[2] \notin chain /\ Exists(call, n[2])
                   /\ n[3] = "xml" /\ call.resources[n[2]].root # <<>>
      Resource(n) == Expansion(call, <<call.resources[n[2]].root>>, chain \cup {n[2]})
      Meaning(n) ==
        CASE n[1] = "text" -> Means(TRUE, <<n>>)
          [] n[1] = "el"   -> LET r == Expansion(call, n[2], chain) IN Means(r.ok, <<El(r.out)>>)
          [] n[1] = "include" ->
               IF Cardinality(chain) >= call.max_depth THEN Means(FALSE, <<>>)
               ELSE IF n[3] = "text" /\ n[2] # NoHref /\ n[2] \notin chain /\ Exists(call, n[2])
                 THEN Means(TRUE, <<TextNode(n[2])>>)
               ELSE IF Usable(n) /\ Resource(n).ok THEN Resource(n)
               ELSE IF HasFallback(n) THEN Expansion(call, Fallback(n)[1], chain)
               ELSE Means(FALSE, <<>>)
      each == [i \in DOMAIN nodes |-> Meaning(nodes[i])]
  IN IF \A i \in DOMAIN each : each[i].ok
       THEN Means(TRUE, FlattenSeq([i \in DOMAIN each |-> each[i].out]))
       ELSE Means(FALSE, <<>>)

(* What the two differ in: an include that is the root of a resource or a   *)
(* child of a fallback, a value of parse, a resource within itself.         *)
RECURSIVE NodesIn(_)
NodesIn(nodes) ==
  UNION {CASE n[1] = "text" -> {n}
           [] n[1] = "el"   -> {n} \cup NodesIn(n[2])
           [] n[1] = "include" -> {n} \cup (IF HasFallback(n) THEN NodesIn(Fallback(n)[1]) ELSE {})
         : n \in Range(nodes)}
RootsOf(call) == {call.resources[h].root : h \in DOMAIN call.resources} \ {<<>>}
AllNodes(call) == NodesIn(<<call.root>>) \cup UNION {NodesIn(<<r>>) : r \in RootsOf(call)}
Includes(call) == {n \in AllNodes(call) : n[1] = "include"}
Splices(call) ==
  /\ \A r \in RootsOf(call) : ~is_xinclude_element(r)
  /\ \A n \in Includes(call) : HasFallback(n) =>
       \A i \in DOMAIN Fallback(n)[1] : ~is_xinclude_element(Fallback(n)[1][i])
Direct(call, h) ==
  IF Exists(call, h) /\ call.resources[h].root # <<>>
  THEN {n[2] : n \in {n \in NodesIn(<<call.resources[h].root>>) : n[1] = "include"}} ELSE {}
RECURSIVE Reached(_, _)
Reached(call, H) ==
  LET next == H \cup UNION {Direct(call, h) : h \in H} IN IF next = H THEN H ELSE Reached(call, next)
Acyclic(call) == \A h \in DOMAIN call.resources : h \notin Reached(call, Direct(call, h))
=============================================================================
