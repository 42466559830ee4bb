------------------------------ MODULE DomTree ------------------------------
(***************************************************************************)
(* The linked tree of the libxml2-compatible layer and the calls that      *)
(* relink it (crates/compat/src/mutate.rs): five pointers per node, parent *)
(* and document, written one after the other by every call.                *)
(*                                                                         *)
(* A tree is a record of the five pointer maps.  Each helper of the code   *)
(* (detach_node, append_child, ...) is an operator from trees to trees,    *)
(* and an action composes them in the order of the code.  The document is  *)
(* one more Thing: XmlDoc is laid out as a Node, so it has first and last  *)
(* child.  There is one document; Graft covers moves between documents.    *)
(*                                                                         *)
(* Contract of the caller (libxml2's): no node is hung below itself, only  *)
(* elements and the document have children, and a node given to            *)
(* xmlFreeNode, or below an element whose content was replaced, is not     *)
(* used again.  Nodes are named, so that a node used once is not reused.   *)
(*                                                                         *)
(* Definitions directly above an operator that carry its name and a suffix *)
(* are its mutated forms.  They occur in no specification.                 *)
(***************************************************************************)
EXTENDS Naturals, FiniteSets

CONSTANTS Nodes, Elements, Doc, NULL

ASSUME DomAssumption ==
  /\ Elements \subseteq Nodes /\ IsFiniteSet(Nodes)
  /\ Doc \notin Nodes /\ NULL \notin Nodes \cup {Doc}

VARIABLES
  tree,   \* the pointers of every node and of the document
  live,   \* nodes made and not given back
  gone    \* nodes given back

vars == <<tree, live, gone>>

Things == Nodes \cup {Doc}
Links  == [Things -> Things \cup {NULL}]
Trees  == [parent : Links, prev : Links, next : Links, first : Links,
           last : Links]

TypeOK ==
  /\ tree \in Trees /\ live \subseteq Nodes /\ gone \subseteq Nodes
  /\ live \cap gone = {}

-----------------------------------------------------------------------------
(* The pointer helpers. *)

DetachKeepsEnds(t, n) ==
  LET p == t.parent[n]  b == t.prev[n]  a == t.next[n] IN
  [parent |-> [t.parent EXCEPT ![n] = NULL],
   prev   |-> [m \in Things |-> IF m = n THEN NULL
                                ELSE IF p # NULL /\ m = a THEN b ELSE t.prev[m]],
   next   |-> [m \in Things |-> IF m = n THEN NULL
                                ELSE IF p # NULL /\ m = b THEN a ELSE t.next[m]],
   first  |-> [x \in Things |-> IF x = p /\ t.first[x] = n THEN a ELSE t.first[x]],
   last   |-> t.last]

(* detach_node: the neighbours and the ends of the parent's list are       *)
(* rewritten only if n has a parent.                                       *)
Detach(t, n) ==
  LET p == t.parent[n]  b == t.prev[n]  a == t.next[n] IN
  [parent |-> [t.parent EXCEPT ![n] = NULL],
   prev   |-> [m \in Things |-> IF m = n THEN NULL
                                ELSE IF p # NULL /\ m = a THEN b ELSE t.prev[m]],
   next   |-> [m \in Things |-> IF m = n THEN NULL
                                ELSE IF p # NULL /\ m = b THEN a ELSE t.next[m]],
   first  |-> [x \in Things |-> IF x = p /\ t.first[x] = n THEN a ELSE t.first[x]],
   last   |-> [x \in Things |-> IF x = p /\ t.last[x] = n THEN b ELSE t.last[x]]]

(* append_child: c, detached, becomes the last child of p.                 *)
AppendTo(t, p, c) ==
  LET l == t.last[p] IN
  [t EXCEPT !.parent = [@ EXCEPT ![c] = p],
            !.first = IF l = NULL THEN [@ EXCEPT ![p] = c] ELSE @,
            !.next = IF l = NULL THEN @ ELSE [@ EXCEPT ![l] = c],
            !.prev = IF l = NULL THEN @ ELSE [@ EXCEPT ![c] = l],
            !.last = [@ EXCEPT ![p] = c]]

(* The owner of the list n is in; a node without a parent is taken for a   *)
(* document-level node, its list for the document's.                       *)
ListOf(t, n) == IF t.parent[n] = NULL THEN Doc ELSE t.parent[n]

(* The wiring of xmlAddNextSibling, c detached.                            *)
LinkAfter(t, n, c) ==
  LET a == t.next[n] IN
  [t EXCEPT !.parent = [@ EXCEPT ![c] = t.parent[n]],
            !.prev = [m \in Things |-> IF m = a THEN c
                                       ELSE IF m = c THEN n ELSE t.prev[m]],
            !.next = [@ EXCEPT ![c] = a, ![n] = c],
            !.last = IF a = NULL THEN [@ EXCEPT ![ListOf(t, n)] = c] ELSE @]

(* The wiring of xmlAddPrevSibling, c detached.                            *)
LinkBefore(t, n, c) ==
  LET b == t.prev[n] IN
  [t EXCEPT !.parent = [@ EXCEPT ![c] = t.parent[n]],
            !.next = [m \in Things |-> IF m = b THEN c
                                       ELSE IF m = c THEN n ELSE t.next[m]],
            !.prev = [@ EXCEPT ![c] = b, ![n] = c],
            !.first = IF b = NULL THEN [@ EXCEPT ![ListOf(t, n)] = c] ELSE @]

(* The wiring of xmlReplaceNode, c detached: c takes the five links of     *)
(* `old', which has a parent.                                              *)
Swap(t, old, c) ==
  LET p == t.parent[old]  b == t.prev[old]  a == t.next[old] IN
  [parent |-> [t.parent EXCEPT ![c] = p, ![old] = NULL],
   prev   |-> [m \in Things |-> IF m = old THEN NULL ELSE IF m = a THEN c
                                ELSE IF m = c THEN b ELSE t.prev[m]],
   next   |-> [m \in Things |-> IF m = old THEN NULL ELSE IF m = b THEN c
                                ELSE IF m = c THEN a ELSE t.next[m]],
   first  |-> IF b = NULL THEN [t.first EXCEPT ![p] = c] ELSE t.first,
   last   |-> IF a = NULL THEN [t.last EXCEPT ![p] = c] ELSE t.last]

(* n and the siblings after it: the walk along `next'.                     *)
Run(t, n) ==
  {m \in Nodes : \A S \in SUBSET ((Nodes \cup {n}) \ {m}) :
     n \in S => \E k \in Nodes \cap S : t.next[k] \in Nodes \ S}

TailOf(t, n) == CHOOSE m \in Run(t, n) : t.next[m] = NULL

(* The first element on the walk along the document's list, if any.        *)
OldRoot(t) ==
  LET met == Run(t, t.first[Doc]) \cap Elements IN
  IF met = {} THEN NULL ELSE CHOOSE r \in met : met \subseteq Run(t, r)

(* xmlFreeNodeList collects a run of siblings, then detaches each.         *)
DetachRun(t, n) ==
  LET S == Run(t, n)  p == t.parent[n]  b == t.prev[n] IN
  [parent |-> [m \in Things |-> IF m \in S THEN NULL ELSE t.parent[m]],
   prev   |-> [m \in Things |-> IF m \in S THEN NULL ELSE t.prev[m]],
   next   |-> [m \in Things |-> IF m \in S \/ (p # NULL /\ m = b) THEN NULL
                                ELSE t.next[m]],
   first  |-> [x \in Things |-> IF x = p /\ t.first[x] \in S THEN NULL ELSE t.first[x]],
   last   |-> [x \in Things |-> IF x = p /\ t.last[x] \in S THEN b ELSE t.last[x]]]

-----------------------------------------------------------------------------
(* n and everything below it. *)
Below(n) ==
  {m \in Nodes : \A S \in SUBSET Nodes :
     (n \in S /\ \A k \in Nodes : tree.parent[k] \in S => k \in S) => m \in S}

Holder(x) == x = Doc \/ x \in live \cap Elements

Init ==
  /\ tree = [parent |-> [x \in Things |-> NULL], prev |-> [x \in Things |-> NULL],
             next |-> [x \in Things |-> NULL], first |-> [x \in Things |-> NULL],
             last |-> [x \in Things |-> NULL]]
  /\ live = {} /\ gone = {}

(* xmlNewDocNode, xmlNewDocText: nothing is linked. *)
NewNode(n) ==
  /\ n \notin live \cup gone
  /\ live' = live \cup {n}
  /\ UNCHANGED <<tree, gone>>

AddChildTree(p, c) == AppendTo(Detach(tree, c), p, c)

(* xmlAddChild *)
AddChild(p, c) ==
  /\ Holder(p) /\ c \in live /\ p \notin Below(c)
  /\ tree' = AddChildTree(p, c)
  /\ UNCHANGED <<live, gone>>

(* xmlAddNextSibling: a node after itself is a no-op.                      *)
NextSiblingTree(n, c) ==
  IF n = c THEN tree ELSE LinkAfter(Detach(tree, c), n, c)

PrevSiblingTreeStale(n, c) ==
  IF n = c THEN tree ELSE LinkBefore(tree, n, c)

PrevSiblingTree(n, c) ==
  IF n = c THEN tree ELSE LinkBefore(Detach(tree, c), n, c)

Beside(n, c) == {n, c} \subseteq live /\ (n \in Below(c) => n = c)

NextSiblingAny(n, c) ==
  /\ Beside(n, c)
  /\ tree' = NextSiblingTree(n, c)
  /\ UNCHANGED <<live, gone>>

(* xmlAddPrevSibling *)
PrevSiblingAny(n, c) ==
  /\ Beside(n, c)
  /\ tree' = PrevSiblingTree(n, c)
  /\ UNCHANGED <<live, gone>>

(* xmlAddSibling: after the last of the siblings of n.                     *)
AddSiblingAny(n, c) ==
  LET tail == TailOf(tree, n) IN
  /\ {n, c} \subseteq live /\ (n \in Below(c) => n = c)
  /\ tree' = NextSiblingTree(tail, c)
  /\ UNCHANGED <<live, gone>>

ReplaceTreeNoGuard(old, c) ==
  LET t == Detach(tree, c) IN
  IF t.parent[old] = NULL THEN t ELSE Swap(t, old, c)

(* xmlReplaceNode: c has left its place before the parent of `old' is      *)
(* looked at; without one, c stays detached.                               *)
ReplaceTree(old, c) ==
  LET t == Detach(tree, c) IN
  IF old = c THEN tree ELSE IF t.parent[old] = NULL THEN t ELSE Swap(t, old, c)

Replace(old, c) ==
  /\ Beside(old, c)
  /\ tree' = ReplaceTree(old, c)
  /\ UNCHANGED <<live, gone>>

(* xmlUnlinkNode *)
Unlink(n) ==
  /\ n \in live
  /\ tree' = Detach(tree, n)
  /\ UNCHANGED <<live, gone>>

GiveBack(S) == live' = live \ S /\ gone' = gone \cup S

(* xmlFreeNode *)
FreeNode(n) ==
  /\ n \in live
  /\ tree' = Detach(tree, n)
  /\ GiveBack(Below(n))

(* xmlFreeNodeList *)
FreeNodeList(n) ==
  /\ n \in live
  /\ tree' = DetachRun(tree, n)
  /\ GiveBack(UNION {Below(m) : m \in Run(tree, n)})

EmptiedHalf(t, e) == [t EXCEPT !.first = [@ EXCEPT ![e] = NULL]]

(* xmlNodeSetContent of an element: the list is cut off, a text node is    *)
(* appended when the content is not empty.                                 *)
Emptied(t, e) == [t EXCEPT !.first = [@ EXCEPT ![e] = NULL],
                           !.last = [@ EXCEPT ![e] = NULL]]

ClearContent(e) ==
  /\ e \in live \cap Elements
  /\ tree' = Emptied(tree, e)
  /\ GiveBack(Below(e) \ {e})

SetContent(e, txt) ==
  /\ e \in live \cap Elements /\ txt \in Nodes \ (Elements \cup live \cup gone)
  /\ tree' = AppendTo(Emptied(tree, e), e, txt)
  /\ live' = (live \ (Below(e) \ {e})) \cup {txt}
  /\ gone' = gone \cup (Below(e) \ {e})

(* xmlNodeAddContent of an element: into a text node that is last already, *)
(* or into a new one after the last.                                       *)
AddContent(e, txt) ==
  /\ e \in live \cap Elements /\ txt \in Nodes \ (Elements \cup live \cup gone)
  /\ tree.last[e] = NULL \/ tree.last[e] \in Elements
  /\ tree' = AppendTo(tree, e, txt)
  /\ live' = live \cup {txt}
  /\ UNCHANGED gone

(* xmlDocSetRootElement: three links of the old root and of the new one    *)
(* are cleared, nothing that points at them is.                            *)
RootTree(t, r) ==
  LET o == OldRoot(t) IN
  [parent |-> [n \in Things |-> IF n = r THEN Doc ELSE IF n = o THEN NULL
                                ELSE t.parent[n]],
   prev   |-> [n \in Things |-> IF n \in {r, o} THEN NULL ELSE t.prev[n]],
   next   |-> [n \in Things |-> IF n \in {r, o} THEN NULL ELSE t.next[n]],
   first  |-> [t.first EXCEPT ![Doc] = r],
   last   |-> [t.last EXCEPT ![Doc] = r]]

SetRootAny(r) ==
  /\ r \in live \cap Elements
  /\ tree' = RootTree(tree, r)
  /\ UNCHANGED <<live, gone>>

-----------------------------------------------------------------------------
(* The calls on anchors that are in a list, and a root put where it is the *)
(* only child of the document.  SpecLooseSiblings and SpecLooseRoot drop   *)
(* these guards and show what the code does then.                          *)

InList(n) == tree.parent[n] # NULL

AddNextSibling(n, c) == InList(n) /\ NextSiblingAny(n, c)

AddPrevSibling(n, c) == InList(n) /\ PrevSiblingAny(n, c)

AddSibling(n, c) == InList(n) /\ AddSiblingAny(n, c)

(* A detached root, in place of a root that is alone in the document.      *)
SetRoot(r) ==
  /\ tree.parent[r] = NULL /\ tree.first[Doc] = tree.last[Doc]
  /\ tree.first[Doc] \in Elements \cup {NULL}
  /\ SetRootAny(r)

Next ==
  \/ \E n \in Nodes : NewNode(n) \/ Unlink(n) \/ FreeNode(n)
                      \/ FreeNodeList(n) \/ ClearContent(n) \/ SetRoot(n)
  \/ \E p \in Things, c \in Nodes : AddChild(p, c)
  \/ \E n, c \in Nodes : AddNextSibling(n, c) \/ AddPrevSibling(n, c)
                         \/ AddSibling(n, c) \/ Replace(n, c)
  \/ \E e, txt \in Nodes : SetContent(e, txt) \/ AddContent(e, txt)

Spec == Init /\ [][Next]_vars

NextLooseSiblings ==
  Next \/ \E n, c \in Nodes : NextSiblingAny(n, c) \/ PrevSiblingAny(n, c)

SpecLooseSiblings == Init /\ [][NextLooseSiblings]_vars

SpecLooseRoot == Init /\ [][Next \/ \E r \in Nodes : SetRootAny(r)]_vars

-----------------------------------------------------------------------------
(* The pointers of a list agree: a link to a sibling is answered by the    *)
(* link back, both under one parent; the ends of a list are the nodes      *)
(* without a neighbour on that side; and nothing in use points at a node   *)
(* given back, whose memory a libxml2 consumer may already reuse.          *)

Mutual ==
  \A n \in live : \A m \in Nodes :
    /\ tree.next[n] = m =>
         m \in live /\ tree.prev[m] = n /\ tree.parent[m] = tree.parent[n]
    /\ tree.prev[n] = m =>
         m \in live /\ tree.next[m] = n /\ tree.parent[m] = tree.parent[n]

Loose ==
  \A n \in Nodes : tree.parent[n] = NULL /\ n \notin gone
                     => tree.prev[n] = NULL /\ tree.next[n] = NULL

Ends ==
  /\ \A n \in live : tree.parent[n] # NULL =>
       /\ Holder(tree.parent[n])
       /\ tree.prev[n] = NULL => tree.first[tree.parent[n]] = n
       /\ tree.next[n] = NULL => tree.last[tree.parent[n]] = n
  /\ \A x \in live \cup {Doc} :
       /\ tree.first[x] # NULL =>
            tree.first[x] \in live /\ tree.parent[tree.first[x]] = x
              /\ tree.prev[tree.first[x]] = NULL
       /\ tree.last[x] # NULL =>
            tree.last[x] \in live /\ tree.parent[tree.last[x]] = x
              /\ tree.next[tree.last[x]] = NULL
       /\ tree.first[x] = NULL <=> tree.last[x] = NULL

(* Every child is met on the walk along its parent's list: no sibling ring *)
(* and no stretch of a list is left behind by a relinking call.            *)
Listed ==
  \A x \in live \cup {Doc} :
    {n \in live : tree.parent[n] = x} \subseteq Run(tree, tree.first[x])

LinksOK == TypeOK /\ Mutual /\ Loose /\ Ends /\ Listed

(* Putting a node where it already is leaves the tree as it is: "they call *)
(* xmlAddPrevSibling(target, new_node) even when new_node is already       *)
(* target's prev or the same node and expect the tree to be unchanged"     *)
(* (mutate.rs).  The calls detach the node first and have to link it back. *)
InPlaceUnchanged ==
  [][\A n, c \in Nodes :
       \/ c \in {n, tree.prev[n]} /\ AddPrevSibling(n, c)
       \/ c \in {n, tree.next[n]} /\ AddNextSibling(n, c)
       \/ c = n /\ Replace(n, c)
       \/ \E p \in Things : tree.last[p] = c /\ AddChild(p, c)
       => tree' = tree]_vars

(* What a reader sees who walks from a first child along `next'; a node    *)
(* given back has no list any more.                                        *)
ChildrenOf(t, L) ==
  [x \in Things |-> IF x \in L \cup {Doc} THEN Run(t, t.first[x]) ELSE {}]

AfterOf(t, L) == [n \in Nodes |-> IF n \in L THEN Run(t, n) \ {n} ELSE {}]

Promise ==
  INSTANCE Forest WITH children <- ChildrenOf(tree, live),
                       after <- AfterOf(tree, live), live <- live

(* Every call relinks the pointers so that the ordered lists read from     *)
(* them change as Forest says: what moves is what the call names.          *)
ForestPromise == Promise!Spec
-----------------------------------------------------------------------------
(* What comments of the code claim and calls beyond those guards break.    *)

(* detach_node "mirrors libxml2's xmlUnlinkNode" (mutate.rs): no sibling   *)
(* still links to a node without links, with or without a parent.          *)
UnlinkedForGood ==
  \A n \in live :
    tree.parent[n] = NULL /\ tree.prev[n] = NULL /\ tree.next[n] = NULL
      => \A m \in live : n \notin {tree.prev[m], tree.next[m]}

(* xmlAddNextSibling: "nn is the new last document-level node: update the  *)
(* doc's last" (mutate.rs): what becomes last is in the document's list.   *)
LastOfDocument ==
  tree.last[Doc] # NULL => tree.last[Doc] \in Run(tree, tree.first[Doc])

(* xmlDocSetRootElement: "Detach the old root from its sibling chain"      *)
(* (mutate.rs): no node links to the old root any more.                    *)
OldRootDetached ==
  [][\A r \in Nodes : SetRootAny(r) /\ OldRoot(tree) \notin {r, NULL}
       => \A m \in live : OldRoot(tree) \notin {tree'.prev[m], tree'.next[m]}]_vars
=============================================================================
