----------------------------- MODULE TextReader -----------------------------
(***************************************************************************)
(* xmlTextReader (crates/compat/src/reader.rs): a cursor that walks a      *)
(* finished tree in document order.  A tree is the sequence of its nodes   *)
(* in document order, [kind, name, parent, atts, value], the parent 0 at   *)
(* the top level; first_child and next_sibling are read off it.            *)
(* ClimbOnce is an altered form of Climb, for a check.                     *)
(***************************************************************************)
EXTENDS Naturals, Sequences, SequencesExt, FiniteSetsExt

VARIABLES tree,
          tcur,               \* [kind, node, att]; node 0 before the first read
          topen,              \* elements whose end is still owed
          string_holders      \* cursors whose strings were handed out and live

trVars == <<tree, tcur, topen, string_holders>>

Cursor(kind, node) == [kind |-> kind, node |-> node, att |-> 0]
AtEof == Cursor("Eof", 0)

TRInit == tcur = Cursor("Start", 0) /\ topen = <<>> /\ string_holders = {}

Least(S) == IF S = {} THEN 0 ELSE Min(S)
first_child(p)  == Least({n \in DOMAIN tree : tree[n].parent = p})
next_sibling(n) == Least({m \in DOMAIN tree : m > n /\ tree[m].parent = tree[n].parent})

classify_first_visit(n) == Cursor(IF tree[n].kind = "Element" THEN "Start" ELSE "Leaf", n)

(* The next sibling, else the end of the parent; at the top level the end   *)
(* of the document.                                                         *)
advance_after_element(n) ==
  CASE next_sibling(n) # 0                          -> classify_first_visit(next_sibling(n))
    [] next_sibling(n) = 0 /\ tree[n].parent # 0    -> Cursor("End", tree[n].parent)
    [] next_sibling(n) = 0 /\ tree[n].parent = 0    -> AtEof

(* An element without children owes no end; a read from an attribute ends   *)
(* the walk.                                                                *)
compute_next ==
  CASE tcur.kind = "Start" /\ first_child(tcur.node) # 0 -> classify_first_visit(first_child(tcur.node))
    [] tcur.kind = "Start" /\ first_child(tcur.node) = 0 ->
         IF tcur.node = 0 THEN AtEof ELSE advance_after_element(tcur.node)
    [] tcur.kind \in {"End", "Leaf"}                     -> advance_after_element(tcur.node)
    [] tcur.kind \in {"Attr", "Eof"}                     -> AtEof

xmlTextReaderRead ==
  /\ tcur' = compute_next
  /\ topen' = CASE tcur.kind = "Start" /\ tcur.node # 0 /\ first_child(tcur.node) # 0 -> Append(topen, tcur.node)
                [] tcur.kind = "End" /\ topen # <<>> -> Front(topen)
                [] OTHER -> topen
  /\ string_holders' = {}
  /\ UNCHANGED tree

(* On a node, not before the first read, on an attribute or at the end.     *)
OnNode == tcur.kind \in {"Start", "End", "Leaf"} /\ tcur.node # 0

MoveTo(cursor) == tcur' = cursor /\ string_holders' = {} /\ UNCHANGED <<tree, topen>>

xmlTextReaderNextSibling ==
  /\ OnNode /\ next_sibling(tcur.node) # 0
  /\ MoveTo(classify_first_visit(next_sibling(tcur.node)))

(* The first following sibling of the node or of an element above it.       *)
ClimbOnce ==
  IF next_sibling(tcur.node) # 0 THEN classify_first_visit(next_sibling(tcur.node)) ELSE AtEof
Climb ==
  LET next[n \in 0..Len(tree)] ==
        IF n = 0 THEN AtEof
        ELSE IF next_sibling(n) # 0 THEN classify_first_visit(next_sibling(n)) ELSE next[tree[n].parent]
  IN next[tcur.node]
xmlTextReaderNext == OnNode /\ MoveTo(Climb)

-----------------------------------------------------------------------------
(* The attributes of the element the cursor is on, or on whose attribute.   *)
Owner == IF tcur.kind \in {"Start", "Attr"} THEN tcur.node ELSE 0
IsNamespaceDecl(a) == tree[Owner].atts[a][1] = "xmlns"
Plain == {a \in DOMAIN tree[Owner].atts : ~IsNamespaceDecl(a)}

MoveToAtt(a) == a # 0 /\ MoveTo([kind |-> "Attr", node |-> Owner, att |-> a])

xmlTextReaderMoveToFirstAttribute == Owner # 0 /\ MoveToAtt(Least(Plain))

xmlTextReaderMoveToNextAttribute ==
  tcur.kind = "Attr" /\ MoveToAtt(Least({a \in Plain : a > tcur.att}))

(* By name, which may be that of a declaration; by number, which may not.   *)
xmlTextReaderMoveToAttribute(name) ==
  Owner # 0 /\ MoveToAtt(Least({a \in DOMAIN tree[Owner].atts : tree[Owner].atts[a][1] = name}))
xmlTextReaderMoveToAttributeNo(k) ==
  /\ Owner # 0 /\ k < Cardinality(Plain)
  /\ MoveToAtt(SetToSortSeq(Plain, <)[k + 1])

xmlTextReaderMoveToElement == tcur.kind = "Attr" /\ MoveTo(Cursor("Start", tcur.node))

(* ConstName, ConstLocalName and the like keep what they hand out.          *)
Const ==
  /\ tcur.kind \in {"Start", "End", "Leaf", "Attr"} /\ tcur.node # 0
  /\ string_holders' = string_holders \cup {tcur}
  /\ UNCHANGED <<tree, tcur, topen>>

xmlTextReaderDepth == Len(topen)
=============================================================================
