------------------------------- MODULE XPath -------------------------------
(***************************************************************************)
(* XPath over a document: the index that numbers its nodes                 *)
(* (crates/core/src/xpath/context.rs), location paths and their predicates *)
(* (xpath/eval.rs), the two ways a pattern is matched backwards, by XSLT   *)
(* (crates/xslt/src/pattern.rs) and by libxml2's xmlPattern                *)
(* (crates/core/src/xpath/pattern.rs), and predicates on sequences.        *)
(*                                                                         *)
(* A document is the sequence of its top-level nodes; an element carries   *)
(* its namespace prefixes in scope, its attributes and its children.  A    *)
(* node test is a name or a kind.  Names have no namespace.                *)
(***************************************************************************)
EXTENDS Integers, Sequences, FiniteSets, SequencesExt, FiniteSetsExt

Element(name, ns, atts, children) ==
  [kind |-> "element", name |-> name, ns |-> ns, atts |-> atts, children |-> children]
Childless(kind) == [kind |-> kind, name |-> "", ns |-> <<>>, atts |-> <<>>, children |-> <<>>]

Step(axis, test, predicates) == [axis |-> axis, test |-> test, predicates |-> predicates]
desc_or_self_step == Step("descendant-or-self", "node()", <<>>)

(* Expressions: paths, unions, filters, and what predicates say.            *)
PathExpr(absolute, steps)  == [op |-> "path", absolute |-> absolute, steps |-> steps]
UnionExpr(l, r)            == [op |-> "union", l |-> l, r |-> r]
FilterExpr(primary, ps, steps) == [op |-> "filter", primary |-> primary, predicates |-> ps, steps |-> steps]
NumberExpr(n)              == [op |-> "number", n |-> n]
PositionCall               == [op |-> "position"]
LastCall                   == [op |-> "last"]
EqExpr(l, r)               == [op |-> "=", l |-> l, r |-> r]
NotCall(e)                 == [op |-> "not", e |-> e]

-----------------------------------------------------------------------------
(* The index: nodes are numbered as they are added, from 1, and the numbers *)
(* are taken for document order.  0 is the parent of the document node.     *)
INode(kind, name, parent) ==
  [kind |-> kind, name |-> name, parent |-> parent, ns |-> <<>>, attrs |-> <<>>, children |-> <<>>]

Ids(from, nodes) == [i \in DOMAIN nodes |-> from + i]

RECURSIVE add_node(_, _, _), add_nodes(_, _, _)
add_node(idx, node, parent) ==   \* [idx, ids]: the numbers under which the parent lists it
  LET id    == Len(idx) + 1
      INodes(kind, names) == [i \in DOMAIN names |-> INode(kind, names[i], id)]
      atts  == SelectSeq(node.atts, LAMBDA a : a # "xmlns")
      below == add_nodes(Append(idx, INode("element", node.name, parent))
                           \o INodes("namespace", node.ns) \o INodes("attribute", atts),
                         node.children, id)
  IN CASE node.kind = "element" ->
            [idx |-> [below.idx EXCEPT ![id] =
                        [@ EXCEPT !.ns = Ids(id, node.ns), !.attrs = Ids(id + Len(node.ns), atts),
                                  !.children = below.ids]],
             ids |-> <<id>>]
       [] node.kind \in {"text", "cdata", "comment", "pi"} ->
            [idx |-> Append(idx, INode(node.kind, "", parent)), ids |-> <<id>>]
       [] OTHER -> [idx |-> idx, ids |-> <<>>]   \* an entity reference, a DTD
add_nodes(idx, nodes, parent) ==
  IF nodes = <<>> THEN [idx |-> idx, ids |-> <<>>] ELSE
  LET first == add_node(idx, Head(nodes), parent)
      rest  == add_nodes(first.idx, Tail(nodes), parent)
  IN [idx |-> rest.idx, ids |-> first.ids \o rest.ids]

build(doc) ==
  LET top == add_nodes(<<INode("document", "", 0)>>, doc, 1)
  IN [top.idx EXCEPT ![1].children = top.ids]

-----------------------------------------------------------------------------
(* The axes; reverse axes nearest first.                                    *)
RECURSIVE ancestors(_, _), descendants(_, _), beyond(_, _, _)
ancestors(idx, node) ==
  LET p == idx[node].parent IN IF p = 0 THEN <<>> ELSE <<p>> \o ancestors(idx, p)

descendants(idx, node) ==
  FlattenSeq([i \in DOMAIN idx[node].children |->
                <<idx[node].children[i]>> \o descendants(idx, idx[node].children[i])])

(* The place among its parent's children: 0 for attributes and namespaces.  *)
Place(idx, node) ==
  LET siblings == idx[idx[node].parent].children
  IN IF Contains(siblings, node) THEN CHOOSE i \in DOMAIN siblings : siblings[i] = node ELSE 0

following_siblingsOfAny(idx, node) ==   \* altered: without asking whether it is a child
  IF idx[node].parent = 0 THEN <<>>
  ELSE LET siblings == idx[idx[node].parent].children
       IN SubSeq(siblings, Place(idx, node) + 1, Len(siblings))
following_siblings(idx, node) ==
  IF idx[node].parent = 0 \/ Place(idx, node) = 0 THEN <<>>
  ELSE LET siblings == idx[idx[node].parent].children
       IN SubSeq(siblings, Place(idx, node) + 1, Len(siblings))
preceding_siblings(idx, node) ==
  IF idx[node].parent = 0 THEN <<>>
  ELSE Reverse(SubSeq(idx[idx[node].parent].children, 1, Place(idx, node) - 1))

(* Up from node, the children of its parent on one side, with all below.    *)
beyond(idx, node, side) ==
  IF idx[node].parent = 0 THEN <<>> ELSE
  LET siblings == idx[idx[node].parent].children
      beside == IF side = "after" THEN SubSeq(siblings, Place(idx, node) + 1, Len(siblings))
                ELSE Reverse(SubSeq(siblings, 1, Place(idx, node) - 1))
      With(n) == IF side = "after" THEN <<n>> \o descendants(idx, n)
                 ELSE Reverse(<<n>> \o descendants(idx, n))
  IN FlattenSeq([i \in DOMAIN beside |-> With(beside[i])]) \o beyond(idx, idx[node].parent, side)

dedup_sort(idx, nodes) == SelectSeq([i \in DOMAIN idx |-> i], LAMBDA i : i \in nodes)

axis_nodes(idx, axis, node) ==
  CASE axis = "self" -> <<node>>
    [] axis = "child" -> idx[node].children
    [] axis = "parent" -> IF idx[node].parent = 0 THEN <<>> ELSE <<idx[node].parent>>
    [] axis = "attribute" -> idx[node].attrs
    [] axis = "namespace" -> idx[node].ns
    [] axis = "ancestor" -> ancestors(idx, node)
    [] axis = "ancestor-or-self" -> <<node>> \o ancestors(idx, node)
    [] axis = "descendant" -> descendants(idx, node)
    [] axis = "descendant-or-self" -> <<node>> \o descendants(idx, node)
    [] axis = "following-sibling" -> following_siblings(idx, node)
    [] axis = "preceding-sibling" -> preceding_siblings(idx, node)
    [] axis = "following" -> dedup_sort(idx, ToSet(beyond(idx, node, "after")) \ ToSet(descendants(idx, node)))
    [] axis = "preceding" -> SelectSeq(beyond(idx, node, "before"), LAMBDA n : n \notin ToSet(ancestors(idx, node)))

principal_kind(axis) == IF axis \in {"attribute", "namespace"} THEN axis ELSE "element"

node_matches(inode, test, axis) ==
  CASE test = "node()" -> TRUE
    [] test = "text()" -> inode.kind \in {"text", "cdata"}
    [] test = "comment()" -> inode.kind = "comment"
    [] test = "document-node()" -> inode.kind = "document"
    [] test = "*" -> inode.kind = principal_kind(axis)
    [] OTHER -> inode.kind = principal_kind(axis) /\ inode.name = test

-----------------------------------------------------------------------------
(* Predicates and paths.  The context is a node, its position among the     *)
(* candidates and their number.                                             *)
Nodes(ids) == [type |-> "nodes", v |-> ids]
Number(n)  == [type |-> "number", v |-> n]
Truth(b)   == [type |-> "boolean", v |-> b]
Context(node, pos, size) == [node |-> node, pos |-> pos, size |-> size]
value_to_bool(value) ==
  CASE value.type = "nodes" -> value.v # <<>>
    [] value.type = "number" -> value.v # 0
    [] OTHER -> value.v

(* [N], [position() = N] and [N = position()] take one node from the list.  *)
lit_pos_int(e) == IF e.op = "number" /\ e.n >= 1 THEN e.n ELSE 0
positional_indexAny(e) ==   \* altered: any comparison with a number
  IF e.op # "=" THEN lit_pos_int(e)
  ELSE IF e.r.op = "number" THEN lit_pos_int(e.r) ELSE lit_pos_int(e.l)
positional_index(e) ==
  IF e.op # "=" THEN lit_pos_int(e)
  ELSE IF e.l.op = "position" THEN lit_pos_int(e.r)
  ELSE IF e.r.op = "position" THEN lit_pos_int(e.l) ELSE 0

RECURSIVE eval_expr(_, _, _), eval_steps(_, _, _), apply_predicates(_, _, _)
(* Kept with the position each predicate before left it; a number is the    *)
(* position to keep.                                                        *)
apply_predicates(idx, nodes, predicates) ==
  IF predicates = <<>> THEN nodes ELSE
  LET pred == Head(predicates)
      nth  == positional_index(pred)
      keep(i) == LET v == eval_expr(idx, pred, Context(nodes[i], i, Len(nodes)))
                 IN IF v.type = "number" THEN v.v = i ELSE value_to_bool(v)
      kept == IF nth # 0 THEN SelectSeq(<<nth>>, LAMBDA i : i <= Len(nodes))
              ELSE SelectSeq([i \in DOMAIN nodes |-> i], keep)
  IN apply_predicates(idx, [k \in DOMAIN kept |-> nodes[kept[k]]], Tail(predicates))

(* From each node the axis, in its own order; the outcome in document order.*)
eval_step_on_nodesSorted(idx, nodes, step) ==   \* altered: each axis in document order first
  LET From(n) == apply_predicates(idx,
                   SelectSeq(dedup_sort(idx, ToSet(axis_nodes(idx, step.axis, n))),
                             LAMBDA m : node_matches(idx[m], step.test, step.axis)),
                   step.predicates)
  IN dedup_sort(idx, UNION {ToSet(From(nodes[i])) : i \in DOMAIN nodes})
eval_step_on_nodes(idx, nodes, step) ==
  LET From(n) == apply_predicates(idx,
                   SelectSeq(axis_nodes(idx, step.axis, n),
                             LAMBDA m : node_matches(idx[m], step.test, step.axis)),
                   step.predicates)
  IN dedup_sort(idx, UNION {ToSet(From(nodes[i])) : i \in DOMAIN nodes})

eval_steps(idx, nodes, steps) ==
  IF steps = <<>> THEN nodes
  ELSE eval_steps(idx, eval_step_on_nodes(idx, nodes, Head(steps)), Tail(steps))

eval_path(idx, path, node) ==
  eval_steps(idx, IF path.absolute THEN <<Last(<<node>> \o ancestors(idx, node))>> ELSE <<node>>,
             path.steps)

eval_expr(idx, e, ctx) ==
  CASE e.op = "path" -> Nodes(eval_path(idx, e, ctx.node))
    [] e.op = "union" -> Nodes(dedup_sort(idx, ToSet(eval_expr(idx, e.l, ctx).v)
                                               \cup ToSet(eval_expr(idx, e.r, ctx).v)))
    [] e.op = "filter" ->
         Nodes(eval_steps(idx, apply_predicates(idx, eval_expr(idx, e.primary, ctx).v, e.predicates),
                          e.steps))
    [] e.op = "number" -> Number(e.n)
    [] e.op = "position" -> Number(ctx.pos)
    [] e.op = "last" -> Number(ctx.size)
    [] e.op = "=" -> Truth(eval_expr(idx, e.l, ctx).v = eval_expr(idx, e.r, ctx).v)
    [] e.op = "not" -> Truth(~value_to_bool(eval_expr(idx, e.e, ctx)))

-----------------------------------------------------------------------------
(* XSLT: a node matches a pattern that selects it from one of its ancestors *)
(* or itself.  No step reaches a document node from above.                  *)
pattern_is_document_node(e) ==
  e.op = "path" /\ IF e.absolute THEN e.steps = <<>>
                    ELSE Len(e.steps) = 1 /\ e.steps[1].test = "document-node()"
                         /\ e.steps[1].predicates = <<>>

RECURSIVE matches_node(_, _, _)
matches_node(idx, pattern, node) ==
  IF pattern.op = "union" THEN matches_node(idx, pattern.l, node) \/ matches_node(idx, pattern.r, node)
  ELSE IF pattern_is_document_node(pattern) THEN idx[node].kind = "document"
  ELSE LET below == pattern.op = "path" /\ ~pattern.absolute /\ Len(pattern.steps) >= 2
                    /\ pattern.steps[1].test = "document-node()" /\ pattern.steps[1].predicates = <<>>
           p == IF below THEN PathExpr(TRUE, Tail(pattern.steps)) ELSE pattern
       IN \E c \in {node} \cup ToSet(ancestors(idx, node)) :
            Contains(eval_expr(idx, p, Context(c, 1, 1)).v, node)

-----------------------------------------------------------------------------
(* xmlPattern: a branch as written is [lead, steps, links] with links[i]    *)
(* between the steps i and i + 1, a step [test, attribute, predicates];     *)
(* compiled, it is reversed.                                                *)
PatternStep(test, attribute, predicates) ==
  [test |-> test, attribute |-> attribute, predicates |-> predicates]
parse_branch(source) ==
  [steps |-> Reverse(source.steps), links |-> Reverse(source.links), absolute |-> source.lead = "/"]
compiles(source) == \A i \in 1..(Len(source.steps) - 1) : ~source.steps[i].attribute

test_matches(inode, step) ==
  inode.kind = "element" /\ ~step.attribute /\ step.test \in {"*", inode.name}

(* Positions are counted among the element siblings of the same name.       *)
SameName(idx, node) ==
  SelectSeq(idx[idx[node].parent].children,
            LAMBDA s : idx[s].kind = "element" /\ idx[s].name = idx[node].name)
predicate_holds(idx, pred, node) ==
  CASE pred.op = "number" -> pred.n \in DOMAIN SameName(idx, node) /\ SameName(idx, node)[pred.n] = node
    [] pred.op = "last" -> Last(SameName(idx, node)) = node
    [] OTHER -> \E a \in ToSet(idx[node].attrs) : idx[a].name = pred.steps[1].test   \* [@name]

step_holds(idx, step, node) ==
  test_matches(idx[node], step) /\ \A p \in ToSet(step.predicates) : predicate_holds(idx, p, node)

(* An ancestor link goes to the nearest that fits the next step, and there  *)
(* is no way back from it.                                                  *)
RECURSIVE run_from(_, _, _, _)
run_from(idx, branch, i, node) ==
  /\ step_holds(idx, branch.steps[i], node)
  /\ IF i = Len(branch.steps) THEN ~branch.absolute \/ idx[idx[node].parent].kind = "document"
     ELSE LET above == ancestors(idx, node)
              fit   == SelectSeq(above, LAMBDA a : step_holds(idx, branch.steps[i + 1], a))
          IN IF branch.links[i] = "/" THEN above # <<>> /\ run_from(idx, branch, i + 1, above[1])
             ELSE fit # <<>> /\ run_from(idx, branch, i + 1, fit[1])

matches_attributeAbove(idx, branch, attr) ==   \* altered: an ancestor of the owner, not the owner
  LET step  == branch.steps[1]
      owner == ancestors(idx, attr)
      fit   == SelectSeq(Tail(owner), LAMBDA a : step_holds(idx, branch.steps[2], a))
  IN /\ step.attribute /\ step.test \in {"*", idx[attr].name} /\ step.predicates = <<>>
     /\ IF branch.links = <<>> THEN ~branch.absolute
        ELSE IF branch.links[1] = "/" THEN run_from(idx, branch, 2, owner[1])
        ELSE fit # <<>> /\ run_from(idx, branch, 2, fit[1])
matches_attribute(idx, branch, attr) ==
  LET step  == branch.steps[1]
      owner == ancestors(idx, attr)
      fit   == SelectSeq(owner, LAMBDA a : step_holds(idx, branch.steps[2], a))
  IN /\ step.attribute /\ step.test \in {"*", idx[attr].name} /\ step.predicates = <<>>
     /\ IF branch.links = <<>> THEN ~branch.absolute
        ELSE IF branch.links[1] = "/" THEN run_from(idx, branch, 2, owner[1])
        ELSE fit # <<>> /\ run_from(idx, branch, 2, fit[1])

xmlPatternMatch(idx, branches, node) ==
  \E b \in DOMAIN branches :
    IF idx[node].kind = "attribute" THEN matches_attribute(idx, parse_branch(branches[b]), node)
    ELSE run_from(idx, parse_branch(branches[b]), 1, node)

-----------------------------------------------------------------------------
(* What paths mean, by the places of the nodes: the way down from the       *)
(* document, each turn a number.  The namespaces of an element come before  *)
(* its attributes and these before its children, and places are in document *)
(* order when the first difference is.                                      *)
RECURSIVE Labels(_, _)
Labels(nodes, at) ==   \* the label of every place below `at' that a child takes
  LET Of(i) ==
        LET here == Append(at, 20 + i)  n == nodes[i]
        IN (here :> [kind |-> n.kind, name |-> n.name])
           @@ [a \in {Append(here, k) : k \in DOMAIN n.ns} |-> [kind |-> "namespace", name |-> n.ns[Last(a)]]]
           @@ [a \in {Append(here, 10 + k) : k \in {k \in DOMAIN n.atts : n.atts[k] # "xmlns"}} |->
                 [kind |-> "attribute", name |-> n.atts[Last(a) - 10]]]
           @@ Labels(n.children, here)
  IN FoldLeft(LAMBDA f, i : f @@ Of(i), <<>>,
              SelectSeq([i \in DOMAIN nodes |-> i], LAMBDA i : nodes[i].kind # "entity reference"))
PlacesOf(doc) == (<<>> :> [kind |-> "document", name |-> ""]) @@ Labels(doc, <<>>)

Before(a, b) ==
  \/ IsStrictPrefix(a, b)
  \/ \E n \in 1..Min({Len(a), Len(b)}) : SubSeq(a, 1, n - 1) = SubSeq(b, 1, n - 1) /\ a[n] < b[n]
IsContent(a) == a = <<>> \/ Last(a) > 20
IsChild(a, b) == b # <<>> /\ IsContent(b) /\ Front(b) = a

OnAxis(axis, a, b) ==   \* b is on the axis of a
  CASE axis = "self" -> a = b
    [] axis = "child" -> IsChild(a, b)
    [] axis = "parent" -> a # <<>> /\ b = Front(a)
    [] axis = "attribute" -> b # <<>> /\ Front(b) = a /\ Last(b) \in 11..20
    [] axis = "namespace" -> b # <<>> /\ Front(b) = a /\ Last(b) \in 1..10
    [] axis = "ancestor" -> IsStrictPrefix(b, a)
    [] axis = "ancestor-or-self" -> IsPrefix(b, a)
    [] axis = "descendant" -> IsContent(b) /\ IsStrictPrefix(a, b)
    [] axis = "descendant-or-self" -> a = b \/ (IsContent(b) /\ IsStrictPrefix(a, b))
    [] axis = "following-sibling" -> a # <<>> /\ IsContent(a) /\ IsChild(Front(a), b) /\ Before(a, b)
    [] axis = "preceding-sibling" -> a # <<>> /\ IsContent(a) /\ IsChild(Front(a), b) /\ Before(b, a)
    [] axis = "following" -> IsContent(b) /\ Before(a, b) /\ ~IsPrefix(a, b)
    [] axis = "preceding" -> IsContent(b) /\ Before(b, a) /\ ~IsPrefix(b, a)
Reversed(axis) == axis \in {"ancestor", "ancestor-or-self", "preceding", "preceding-sibling"}

(* The position of a place in a set of them, along an axis.                 *)
Rank(S, a, reversed) ==
  Cardinality({b \in S : a = b \/ IF reversed THEN Before(a, b) ELSE Before(b, a)})

RECURSIVE Selected(_, _, _, _), Filtered(_, _, _, _), Says(_, _, _, _, _)
Filtered(places, S, reversed, predicates) ==
  IF predicates = <<>> THEN S
  ELSE Filtered(places,
         {a \in S : Says(places, Head(predicates), a, Rank(S, a, reversed), Cardinality(S))},
         reversed, Tail(predicates))
Selected(places, S, steps, i) ==
  IF i > Len(steps) THEN S ELSE
  LET step == steps[i]
      From(a) == {b \in DOMAIN places : OnAxis(step.axis, a, b)
                                         /\ node_matches(places[b], step.test, step.axis)}
  IN Selected(places, UNION {Filtered(places, From(a), Reversed(step.axis), step.predicates) : a \in S},
              steps, i + 1)
(* A union and a path in parentheses are in document order.                 *)
RECURSIVE Result(_, _, _)
Result(places, e, a) ==
  CASE e.op = "path" -> Selected(places, {IF e.absolute THEN <<>> ELSE a}, e.steps, 1)
    [] e.op = "union" -> Result(places, e.l, a) \cup Result(places, e.r, a)
    [] e.op = "filter" -> Selected(places, Filtered(places, Result(places, e.primary, a), FALSE, e.predicates),
                                   e.steps, 1)
(* A predicate holds of a place at a position among so many.                *)
Says(places, e, a, pos, size) ==
  LET Num(x) == CASE x.op = "number" -> x.n [] x.op = "position" -> pos [] x.op = "last" -> size
  IN CASE e.op \in {"number", "position", "last"} -> Num(e) = pos
       [] e.op = "=" -> Num(e.l) = Num(e.r)
       [] e.op = "not" -> ~Says(places, e.e, a, pos, size)
       [] OTHER -> Result(places, e, a) # {}

(* What an xmlPattern branch means, as a path from the document.            *)
AsPath(source) ==
  LET n == Len(source.steps)
      Link(i) == IF i = 0 THEN IF source.lead = "/" THEN <<>> ELSE <<desc_or_self_step>>
                 ELSE IF source.links[i] = "/" THEN <<>> ELSE <<desc_or_self_step>>
      One(i) == LET s == source.steps[i]
                IN Step(IF s.attribute THEN "attribute" ELSE "child", s.test, s.predicates)
  IN PathExpr(TRUE, FlattenSeq([i \in 1..n |-> Append(Link(i - 1), One(i))]))
(* No `//' stands right of a `/' or of the anchor.                          *)
NoWayBackNeeded(source) ==
  \A i \in DOMAIN source.links :
    source.links[i] = "//" => source.lead # "/" /\ \A k \in 1..(i - 1) : source.links[k] = "//"

-----------------------------------------------------------------------------
(* Predicates on a sequence of items in XPath 2.0 and later                *)
(* (crates/core/src/xpath/eval.rs): item by item, or, for a comparison of  *)
(* `.' with what does not depend on it, by membership in a set that is     *)
(* made once.                                                              *)
(*                                                                         *)
(* An item is a number, a string or a node, with its text and its value,   *)
(* in halves; NaN is the value of what is no number.  The other side of a  *)
(* comparison is a sequence of items or a call, of position() or, on texts, *)
(* of string(.).  c.ci says that the collation ignores case, which c.Fold  *)
(* takes away.                                                             *)
NaN == -1
NumberItem(n) == [kind |-> "number", text |-> "", value |-> n]
Integral(item) == item.kind = "number" /\ item.value % 2 = 0

(* pred: keep the n-th, or what compares, under so many calls of not().     *)
Nth(n) == [op |-> "number", n |-> n]
Compared(op, nots, rhs) == [op |-> op, nots |-> nots, rhs |-> rhs]

values_eq(a, b, c) ==   \* of two items; a number is compared with the value of a text
  IF "number" \in {a.kind, b.kind} THEN a.value = b.value /\ a.value # NaN
  ELSE \/ a.text = b.text
       \/ c.ci /\ a.kind = "string" /\ b.kind = "string" /\ c.Fold[a.text] = c.Fold[b.text]

(* One item of rhs alone and a text of the other kind are a type error.     *)
reject_string_vs_numeric_cmp_2_0(item, rhs) ==
  Len(rhs) = 1 /\ {item.kind, rhs[1].kind} = {"string", "number"}

(* What the other side yields for the item at position pos.                 *)
eval_rhs(rhs, item, pos) ==
  CASE rhs.e = "items" -> rhs.items
    [] rhs.e = "position()" -> <<NumberItem(2 * pos)>>
    [] rhs.e = "string(.)" -> <<[item EXCEPT !.kind = "string"]>>

Odd(n) == n % 2 = 1

(* The item's own answer: "error" or whether it is kept.                    *)
eval_pred(pred, item, pos, c) ==
  IF pred.op = "number" THEN IF pred.n = pos THEN "kept" ELSE "dropped" ELSE
  LET rhs == eval_rhs(pred.rhs, item, pos)
      holds == \E i \in DOMAIN rhs : values_eq(item, rhs[i], c) = (pred.op = "=")
  IN IF reject_string_vs_numeric_cmp_2_0(item, rhs) THEN "error"
     ELSE IF holds # Odd(pred.nots) THEN "kept" ELSE "dropped"

Failure == [ok |-> FALSE, items |-> <<>>]
Kept(items) == [ok |-> TRUE, items |-> items]

each_item(items, pred, c) ==
  LET answers == [i \in DOMAIN items |-> eval_pred(pred, items[i], i, c)]
      kept == SelectSeq([i \in DOMAIN items |-> i], LAMBDA i : answers[i] = "kept")
  IN IF Contains(answers, "error") THEN Failure ELSE Kept([k \in DOMAIN kept |-> items[kept[k]]])

-----------------------------------------------------------------------------
(* Every `.' and every relative path in it; position() has neither.         *)
expr_references_context_item(rhs) == rhs.e = "string(.)"

(* Integers only or texts only; the empty sequence is of integers.          *)
build_membership_set(items) ==
  CASE \A i \in DOMAIN items : Integral(items[i]) ->
         [kind |-> "Int", members |-> {items[i].value : i \in DOMAIN items}]
    [] \E i \in DOMAIN items : items[i].kind = "number" -> [kind |-> "None"]
    [] OTHER -> [kind |-> "Str", members |-> {items[i].text : i \in DOMAIN items}]

(* Evaluated once, where the whole filter stands: outer is the item and the *)
(* position there.                                                          *)
Hoisted(pred, outer) == build_membership_set(eval_rhs(pred.rhs, outer.item, outer.pos))
try_membership_filterNots(pred, items, outer) ==   \* altered: under not() as without
  LET set == Hoisted(pred, outer)
      hit(item) == IF set.kind = "Int" THEN Integral(item) /\ item.value \in set.members
                   ELSE item.text \in set.members
      Keeps(item) == (set.kind = "Str" => item.kind # "number") /\ hit(item) # (pred.op = "!=")
  IN Kept(SelectSeq(items, Keeps))
try_membership_filter(pred, items, outer) ==
  LET set == Hoisted(pred, outer)
      negated == (pred.op = "!=") # Odd(pred.nots)
      hit(item) == IF set.kind = "Int" THEN Integral(item) /\ item.value \in set.members
                   ELSE item.text \in set.members
      Keeps(item) == (set.kind = "Str" => item.kind # "number") /\ hit(item) # negated
  IN Kept(SelectSeq(items, Keeps))
Hoistable(pred, outer) ==
  pred.op # "number" /\ ~expr_references_context_item(pred.rhs) /\ Hoisted(pred, outer).kind # "None"

RECURSIVE filter_sequence_by_predicates(_, _, _, _)
filter_sequence_by_predicates(items, predicates, outer, c) ==
  IF predicates = <<>> THEN Kept(items) ELSE
  LET pred == Head(predicates)
      next == IF Hoistable(pred, outer) THEN try_membership_filter(pred, items, outer)
              ELSE each_item(items, pred, c)
  IN IF ~next.ok THEN next
     ELSE filter_sequence_by_predicates(next.items, Tail(predicates), outer, c)

-----------------------------------------------------------------------------
(* What the predicates mean: each asked of every item in its turn.          *)
RECURSIVE EachInTurn(_, _, _)
EachInTurn(items, predicates, c) ==
  IF predicates = <<>> THEN Kept(items) ELSE
  LET next == each_item(items, Head(predicates), c)
  IN IF ~next.ok THEN next ELSE EachInTurn(next.items, Tail(predicates), c)

(* Items and members all numbers or all texts, in an exact collation; `!='  *)
(* against one value; no call.                                              *)
Uniform(items, pred, c) ==
  pred.op = "number" \/
  /\ ~c.ci
  /\ pred.rhs.e # "position()"
  /\ LET members == IF pred.rhs.e = "items" THEN pred.rhs.items ELSE <<>>
         kinds == {x.kind : x \in ToSet(items \o members)}
     IN /\ kinds \subseteq {"number"} \/ "number" \notin kinds
        /\ pred.op = "!=" /\ pred.rhs.e = "items" =>
             Cardinality({<<r.text, r.value>> : r \in ToSet(members)}) = 1
=============================================================================
