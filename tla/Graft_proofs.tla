---------------------------- MODULE Graft_proofs ----------------------------
(***************************************************************************)
(* Proofs about Graft, for every number of threads, documents and nodes    *)
(* and any bound on the calls.  The inductive invariant follows a node     *)
(* along the tree: what it hangs below tells where its memory and its name *)
(* lie, whatever the `doc' pointers say, and the closure of that fact      *)
(* under `parent' reaches the document at the top.                         *)
(***************************************************************************)
EXTENDS Graft, TLAPS

(* A node that exists points at documents that were made, and hangs below  *)
(* one of them or below a node that exists.                                *)
MadeOK ==
  \A n \in Nodes :
    /\ home[n] # NULL =>
         /\ creator[home[n]] # NULL /\ docOf[n] # NULL /\ creator[docOf[n]] # NULL
         /\ nameIn[n] # NULL
    /\ parent[n] # NULL => home[n] # NULL
    /\ parent[n] \in Nodes => home[parent[n]] # NULL
    /\ parent[n] \in Docs => creator[parent[n]] # NULL

(* A thread keeps the arenas of the documents it made.                     *)
KeepOK == \A d \in Docs : creator[d] \in running => d \in keep[creator[d]]

(* While a move is under way its thread runs, both documents live, and     *)
(* what it has yet to visit has left its place; in the lookup the name of  *)
(* the node was just owned.                                                *)
MoveOK ==
  ~ Calm =>
    /\ move.thread \in running /\ DocLive(move.to) /\ move.from # creator[move.to]
    /\ \E d \in Docs : DocLive(d) /\ creator[d] = move.from
    /\ \A n \in move.todo : home[n] # NULL /\ route[n] # "native"
    /\ move.pc = "lookup" =>
         /\ move.node \in move.todo /\ nameIn[move.node] = move.from
         /\ rehome[move.thread] = <<move.from, move.node>>

Unvisited(n) == ~ Calm /\ n \in move.todo

(* The dictionary of the document a node is, or is about to be, in.        *)
Destined(n) == IF Unvisited(n) THEN creator[move.to] ELSE creator[docOf[n]]

(* A node that did not cross has its name in the dictionary it is in, or   *)
(* still in the one the move takes it from.                                *)
NameOK ==
  \A n \in Nodes : (home[n] # NULL /\ n \notin crossed) =>
    nameIn[n] = IF Unvisited(n) THEN move.from ELSE creator[docOf[n]]

(* A node that did not cross hangs below one that did not, in the same     *)
(* dictionary.                                                             *)
CrossOK ==
  \A n \in Nodes : n \notin crossed =>
    /\ parent[n] \in Nodes => parent[n] \notin crossed /\ Destined(parent[n]) = Destined(n)
    /\ parent[n] \in Docs => Destined(n) = creator[parent[n]]

(* The move under way will pin arena h for document e at the first name it *)
(* looks up, that of the node it moves, and h cannot be freed before that. *)
PinPending(h, e) ==
  /\ ~ Calm /\ move.to = e /\ stash[move.thread] = h /\ DocLive(h)
  /\ move.node \in move.todo /\ nameIn[move.node] = move.from

Pinned(h, e) ==
  creator[h] = creator[e] \/ h \in retained[creator[e]] \/ PinPending(h, e)

(* A native node is a node of its document, in a native tree of it.        *)
NativePlace(n) ==
  /\ docOf[n] = home[n] /\ nameIn[n] = creator[home[n]]
  /\ parent[n] \in Nodes => route[parent[n]] = "native" /\ home[parent[n]] = home[n]
  /\ parent[n] \in Docs => parent[n] = home[n]

(* A node grafted once hangs below its own kind, or below a native place   *)
(* its arena is pinned for.                                                *)
FirstPlace(n) ==
  /\ parent[n] \in Nodes =>
       \/ route[parent[n]] = "native" /\ Pinned(home[n], home[parent[n]])
       \/ route[parent[n]] = "first" /\ home[parent[n]] = home[n]
  /\ parent[n] \in Docs => Pinned(home[n], parent[n])

RouteOK ==
  \A n \in Nodes : home[n] # NULL =>
    /\ route[n] = "native" => NativePlace(n)
    /\ route[n] = "first" => FirstPlace(n)

GInv == TypeOK /\ MadeOK /\ KeepOK /\ MoveOK /\ NameOK /\ CrossOK /\ RouteOK
-----------------------------------------------------------------------------
(* What hangs below a node.                                                *)

LEMMA BelowSelf == ASSUME NEW c \in Nodes PROVE c \in Below(c)
BY DEF Below

LEMMA BelowDown ==
  ASSUME NEW x, NEW m \in Nodes, parent[m] \in Below(x) \cup {x}
  PROVE  m \in Below(x)
BY DEF Below

LEMMA BelowUp ==
  ASSUME NEW x, NEW n \in Below(x), n # x
  PROVE  parent[n] \in Below(x) \cup {x}
<1> SUFFICES ASSUME parent[n] \notin Below(x) \cup {x} PROVE FALSE
  OBVIOUS
<1> DEFINE S == (Below(x) \cup {x}) \ {n}
<1>1. S \in SUBSET (Nodes \cup {x}) /\ x \in S
  BY DEF Below
<1>2. ASSUME NEW m \in Nodes, parent[m] \in S PROVE m \in S
  BY <1>2, BelowDown
<1>3. n \in Nodes /\ n \notin S
  BY DEF Below
<1> HIDE DEF S
<1> QED BY <1>1, <1>2, <1>3 DEF Below

(* What is closed under `parent' and holds at the top holds below.         *)
LEMMA BelowClosed ==
  ASSUME NEW x, NEW S, x \in S,
         \A m \in Nodes : parent[m] \in S => m \in S,
         NEW n \in Below(x)
  PROVE  n \in S
<1> DEFINE T == S \cap (Nodes \cup {x})
<1>1. T \in SUBSET (Nodes \cup {x}) /\ x \in T /\ \A m \in Nodes : parent[m] \in T => m \in T
  OBVIOUS
<1> HIDE DEF T
<1>2. n \in T
  BY <1>1 DEF Below
<1> QED BY <1>2 DEF T

-----------------------------------------------------------------------------
(* Types.                                                                  *)

LEMMA InitAll == Init => GInv
BY GraftAssumption
   DEF Init, GInv, TypeOK, MadeOK, KeepOK, MoveOK, NameOK, CrossOK, RouteOK, NativePlace,
       FirstPlace, Calm, Moves, NoMove, Routes

(* What the callers may touch exists.                                      *)
LEMMA UsableMade ==
  ASSUME TypeOK, MadeOK, NEW n \in Nodes, Usable(n)
  PROVE  /\ home[n] \in Docs /\ nameIn[n] \in Threads
         /\ docOf[n] \in Docs /\ DocLive(docOf[n]) /\ creator[docOf[n]] \in Threads
         /\ creator[home[n]] \in Threads
BY DEF TypeOK, MadeOK, Usable, DocLive

LEMMA AnchorMade ==
  ASSUME TypeOK, MadeOK, NEW x \in Docs \cup Nodes, Anchor(x)
  PROVE  DocAt(x) \in Docs /\ DocLive(DocAt(x)) /\ creator[DocAt(x)] \in Threads
<1>1. CASE x \in Docs
  BY <1>1 DEF Anchor, DocAt, DocLive, TypeOK
<1>2. CASE x \notin Docs
  BY <1>2, UsableMade DEF Anchor, DocAt
<1> QED BY <1>1, <1>2

(* The place s hangs in, if any, is one of a document that was made.       *)
LEMMA ParentMade ==
  ASSUME TypeOK, MadeOK, NEW s \in Nodes, parent[s] # NULL
  PROVE  /\ parent[s] \in Nodes \cup Docs
         /\ DocAt(parent[s]) \in Docs /\ creator[DocAt(parent[s])] \in Threads
BY GraftAssumption DEF TypeOK, MadeOK, DocAt

LEMMA RerouteType ==
  ASSUME TypeOK, NEW c, NEW x, NEW r
  PROVE  Rerouted(c, x, r) \in [Nodes -> Routes]
BY DEF Rerouted, TypeOK, Routes

LEMMA CrossType ==
  ASSUME TypeOK, NEW c, NEW x
  PROVE  Crossing(c, x) \subseteq Nodes /\ JoinsCrossed(c, x) \subseteq Nodes
BY DEF Crossing, JoinsCrossed, TypeOK, Below

LEMMA RetainType ==
  ASSUME TypeOK, NEW c, docOf[c] \in Docs, NEW dst
  PROVE  RetainGraft(c, dst) \in [Threads -> SUBSET Docs]
BY DEF RetainGraft, TypeOK

LEMMA PinType ==
  ASSUME TypeOK, NEW t \in Threads, NEW n, NEW dict
  PROVE  LookupPin(t, n, dict) \in [Threads -> SUBSET Docs]
BY DEF LookupPin, TypeOK

LEMMA VisitedType ==
  ASSUME TypeOK, ~ Calm, NEW n \in Nodes, Visited(n)
  PROVE  move' \in Moves /\ docOf' \in [Nodes -> Docs \cup {NULL}]
<1> DEFINE M == [pc : {"owns", "lookup"}, thread : Threads, from : Threads, to : Docs,
                 node : Nodes, todo : SUBSET Nodes]
<1>1. move \in M
  BY DEF TypeOK, Moves, Calm
<1>2. [move EXCEPT !.pc = "owns", !.todo = move.todo \ {n}] \in M
  BY <1>1
<1>3. move.to \in Docs
  BY <1>1
<1> QED BY <1>2, <1>3 DEF Visited, TypeOK, Moves

LEMMA CallType == ASSUME TypeOK, Call PROVE calls' \in 0..MaxCalls
BY GraftAssumption DEF TypeOK, Call

LEMMA StepType == ASSUME TypeOK, MadeOK, Next PROVE TypeOK'
<1> USE DEF TypeOK
<1>1. ASSUME NEW t \in Threads, NEW d \in Docs, NewDoc(t, d) PROVE TypeOK'
  BY <1>1 DEF NewDoc, KeepAlive, treeVars
<1>2. ASSUME NEW d \in Docs, NEW n \in Nodes, NewNode(d, n) PROVE TypeOK'
  BY <1>2 DEF NewNode, threadVars
<1>3. ASSUME NEW x \in Docs \cup Nodes, NEW c \in Nodes, AddChild(x, c) PROVE TypeOK'
  <2>1. docOf[c] \in Docs /\ DocAt(x) \in Docs
    BY <1>3, UsableMade, AnchorMade DEF AddChild, CanGraft
  <2>2. retained' \in [Threads -> SUBSET Docs] /\ route' \in [Nodes -> Routes] /\ crossed' \subseteq Nodes
    BY <1>3, <2>1, RetainType, RerouteType, CrossType DEF AddChild
  <2>3. docOf' \in [Nodes -> Docs \cup {NULL}] /\ parent' \in [Nodes -> Nodes \cup Docs \cup {NULL}]
    BY <1>3, <2>1 DEF AddChild, GraftRetagged
  <2>4. calls' \in 0..MaxCalls
    BY <1>3, CallType DEF AddChild, CanGraft
  <2> QED BY <1>3, <2>2, <2>3, <2>4 DEF AddChild, threadVars
<1>4. ASSUME NEW s \in Nodes, NEW c \in Nodes, AddSibling(s, c) PROVE TypeOK'
  <2>1. docOf[c] \in Docs /\ docOf[s] \in Docs
    BY <1>4, UsableMade, GraftAssumption DEF AddSibling, CanGraft, Anchor
  <2>2. retained' \in [Threads -> SUBSET Docs] /\ route' \in [Nodes -> Routes] /\ crossed' \subseteq Nodes
    BY <1>4, <2>1, RetainType, RerouteType, CrossType DEF AddSibling
  <2>3. docOf' \in [Nodes -> Docs \cup {NULL}] /\ parent' \in [Nodes -> Nodes \cup Docs \cup {NULL}]
    BY <1>4, <2>1, ParentMade DEF AddSibling, GraftRetagged
  <2>4. calls' \in 0..MaxCalls
    BY <1>4, CallType DEF AddSibling, CanGraft
  <2> QED BY <1>4, <2>2, <2>3, <2>4 DEF AddSibling, threadVars
<1>5. ASSUME NEW old \in Nodes, NEW c \in Nodes, Replace(old, c) PROVE TypeOK'
  <2>1. docOf[c] \in Docs
    BY <1>5, UsableMade DEF Replace, CanGraft
  <2>2. retained' \in [Threads -> SUBSET Docs]
    BY <1>5, <2>1, RetainType DEF Replace
  <2>3. calls' \in 0..MaxCalls
    BY <1>5, CallType DEF Replace, CanGraft
  <2>4. CASE parent[old] = NULL
    BY <1>5, <2>2, <2>3, <2>4 DEF Replace, threadVars
  <2>5. CASE parent[old] # NULL
    <3>1. docOf' \in [Nodes -> Docs \cup {NULL}] /\ parent' \in [Nodes -> Nodes \cup Docs \cup {NULL}]
      BY <1>5, <2>5, ParentMade DEF Replace, GraftRetagged
    <3>2. route' \in [Nodes -> Routes] /\ crossed' \subseteq Nodes
      BY <1>5, <2>5, RerouteType, CrossType DEF Replace
    <3> QED BY <1>5, <2>2, <2>3, <3>1, <3>2 DEF Replace, threadVars
  <2> QED BY <2>4, <2>5
<1>6. ASSUME NEW d \in Docs, NEW r \in Nodes, SetRoot(d, r) PROVE TypeOK'
  <2>1. route' \in [Nodes -> Routes] /\ crossed' \subseteq Nodes
    BY <1>6, RerouteType, CrossType DEF SetRoot
  <2>2. calls' \in 0..MaxCalls
    BY <1>6, CallType DEF SetRoot
  <2> QED BY <1>6, <2>1, <2>2 DEF SetRoot, StampTree, threadVars
<1>7. ASSUME NEW t \in Threads, NEW n \in Nodes, Unlink(t, n) PROVE TypeOK'
  <2>1. calls' \in 0..MaxCalls
    BY <1>7, CallType DEF Unlink
  <2> QED BY <1>7, <2>1 DEF Unlink, Stashed
<1>8. ASSUME NEW t \in Threads, NEW x \in Docs \cup Nodes, NEW c \in Nodes, MoveBegin(t, x, c)
      PROVE  TypeOK'
  <2>1. /\ docOf[c] \in Docs /\ creator[docOf[c]] \in Threads /\ DocAt(x) \in Docs
        /\ Below(c) \subseteq Nodes
    BY <1>8, UsableMade, AnchorMade DEF MoveBegin, CanGraft, Below
  <2>2. calls' \in 0..MaxCalls /\ route' \in [Nodes -> Routes] /\ crossed' \subseteq Nodes
    BY <1>8, CallType, RerouteType, CrossType DEF MoveBegin, CanGraft
  <2>3. stash' \in [Threads -> Docs \cup {NULL}] /\ parent' \in [Nodes -> Nodes \cup Docs \cup {NULL}]
    BY <1>8, <2>1 DEF MoveBegin, Stashed
  <2>4. move' \in Moves /\ docOf' \in [Nodes -> Docs \cup {NULL}]
    BY <1>8, <2>1 DEF MoveBegin, Moves, StampTree
  <2> QED BY <1>8, <2>2, <2>3, <2>4 DEF MoveBegin
<1>9. ASSUME NEW n \in Nodes, MoveOwns(n) PROVE TypeOK'
  <2> DEFINE M == [pc : {"owns", "lookup"}, thread : Threads, from : Threads, to : Docs,
                   node : Nodes, todo : SUBSET Nodes]
  <2>1. ~ Calm /\ move \in M
    BY <1>9 DEF MoveOwns, Calm, NoMove, Moves
  <2>2. CASE nameIn[n] = move.from
    <3>1. [move EXCEPT !.pc = "lookup", !.node = n] \in M
      BY <2>1
    <3>2. <<move.from, n>> \in Threads \X Nodes
      BY <2>1
    <3>3. rehome' = [rehome EXCEPT ![move.thread] = <<move.from, n>>]
      BY <1>9, <2>2 DEF MoveOwns
    <3>4. rehome' \in [Threads -> (Threads \X Nodes) \cup {NULL}]
      BY <3>2, <3>3
    <3> QED BY <1>9, <2>2, <3>1, <3>4 DEF MoveOwns, Moves
  <2>3. CASE nameIn[n] # move.from
    <3>1. Visited(n) /\ rehome' = rehome
      BY <1>9, <2>3 DEF MoveOwns
    <3> QED BY <1>9, <2>1, <3>1, VisitedType DEF MoveOwns
  <2> QED BY <2>2, <2>3
<1>10. CASE MoveLookup
  <2> DEFINE M == [pc : {"owns", "lookup"}, thread : Threads, from : Threads, to : Docs,
                   node : Nodes, todo : SUBSET Nodes]
  <2>1. ~ Calm /\ move \in M
    BY <1>10 DEF MoveLookup, Calm, NoMove, Moves
  <2>2. move.thread \in Threads /\ move.node \in Nodes /\ move.to \in Docs
    BY <2>1
  <2>3. move' \in Moves /\ docOf' \in [Nodes -> Docs \cup {NULL}]
    BY <1>10, <2>1, <2>2, VisitedType DEF MoveLookup
  <2>4. retained' \in [Threads -> SUBSET Docs]
    BY <1>10, <2>2, PinType DEF MoveLookup
  <2>5. nameIn' \in [Nodes -> Threads \cup {NULL}]
    BY <1>10, <2>2 DEF MoveLookup, Rehomed
  <2> QED BY <1>10, <2>2, <2>3, <2>4, <2>5 DEF MoveLookup
<1>11. ASSUME NEW t \in Threads, NEW dict \in Threads, NEW n \in Nodes,
              PlainOwns(t, dict, n) \/ PlainLookup(t, dict, n)
       PROVE  TypeOK'
  <2>1. calls' \in 0..MaxCalls
    BY <1>11, CallType DEF PlainOwns, PlainLookup
  <2>2. CASE PlainOwns(t, dict, n)
    BY <2>1, <2>2 DEF PlainOwns, treeVars
  <2>3. CASE PlainLookup(t, dict, n)
    BY <2>1, <2>3, PinType DEF PlainLookup, treeVars
  <2> QED BY <1>11, <2>2, <2>3
<1>12. ASSUME NEW d \in Docs, FreeDoc(d) PROVE TypeOK'
  BY <1>12 DEF FreeDoc, threadVars, treeVars
<1>13. ASSUME NEW t \in Threads, Exit(t) PROVE TypeOK'
  BY <1>13 DEF Exit, treeVars
<1> QED BY <1>1, <1>2, <1>3, <1>4, <1>5, <1>6, <1>7, <1>8, <1>9, <1>10, <1>11, <1>12, <1>13
     DEF Next

-----------------------------------------------------------------------------
(* What exists, what is kept, and the move under way.                      *)

LEMMA BelowHome ==
  ASSUME TypeOK, MadeOK, NEW c \in Nodes, home[c] # NULL, NEW n \in Below(c)
  PROVE  n \in Nodes /\ home[n] # NULL
<1>1. n \in Nodes
  BY DEF Below
<1>2. CASE n # c
  <2>1. parent[n] \in Nodes
    BY <1>2, BelowUp DEF Below
  <2>2. parent[n] # NULL
    BY <2>1, GraftAssumption
  <2> QED BY <1>1, <2>2 DEF MadeOK
<1> QED BY <1>1, <1>2

(* A document that exists keeps its dictionary; only a new one gets one.   *)
LEMMA CreatorFixed ==
  ASSUME TypeOK, Next
  PROVE  \A d \in Docs : creator[d] # NULL => creator'[d] = creator[d]
BY DEF Next, NewDoc, NewNode, AddChild, AddSibling, Replace, SetRoot, Unlink, MoveBegin, MoveOwns,
       MoveLookup, PlainOwns, PlainLookup, FreeDoc, Exit, TypeOK

(* What a step on places and `doc' pointers must keep for MadeOK.           *)
StaysMade ==
  /\ UNCHANGED <<home, nameIn>>
  /\ \A n \in Nodes :
       \/ parent'[n] \in {parent[n], NULL}
       \/ /\ home[n] # NULL
          /\ parent'[n] \in Nodes => home[parent'[n]] # NULL
          /\ parent'[n] \in Docs => creator[parent'[n]] # NULL
  /\ \A n \in Nodes :
       docOf'[n] = docOf[n] \/ (docOf'[n] \in Docs /\ creator[docOf'[n]] # NULL)

LEMMA MadeFrame == ASSUME TypeOK, MadeOK, Next, StaysMade PROVE MadeOK'
<1>1. \A d \in Docs : creator[d] # NULL => creator'[d] = creator[d]
  BY CreatorFixed
<1>2. NULL \notin Nodes \cup Docs
  BY GraftAssumption
<1> QED BY <1>1, <1>2 DEF MadeOK, TypeOK, StaysMade

LEMMA StepMade == ASSUME TypeOK, MadeOK, MoveOK, Next PROVE MadeOK'
<1> USE DEF TypeOK
<1>0. NULL \notin Nodes \cup Docs /\ Nodes \cap Docs = {}
  BY GraftAssumption
<1>1. CASE UNCHANGED <<home, nameIn, parent, docOf>>
  <2>1. StaysMade
    BY <1>1 DEF StaysMade
  <2> QED BY <2>1, MadeFrame
<1>2. ASSUME NEW d \in Docs, NEW n \in Nodes, NewNode(d, n) PROVE MadeOK'
  <2>1. creator[d] # NULL /\ creator' = creator /\ parent' = parent
    BY <1>2 DEF NewNode, DocLive
  <2>2. /\ home' = [home EXCEPT ![n] = d] /\ nameIn' = [nameIn EXCEPT ![n] = creator[d]]
        /\ docOf' = [docOf EXCEPT ![n] = d]
    BY <1>2 DEF NewNode
  <2> QED BY <1>0, <2>1, <2>2 DEF MadeOK
<1>3. ASSUME NEW x \in Docs \cup Nodes, NEW c \in Nodes, AddChild(x, c) PROVE MadeOK'
  <2>1. home[c] # NULL /\ DocAt(x) \in Docs /\ creator[DocAt(x)] # NULL
    BY <1>0, <1>3, UsableMade, AnchorMade, GraftAssumption DEF AddChild, CanGraft, Usable
  <2>2. /\ x \in Nodes => home[x] # NULL
        /\ x \in Docs => creator[x] # NULL
    BY <1>0, <1>3 DEF AddChild, CanGraft, Anchor, Usable, DocLive
  <2>3. /\ UNCHANGED <<home, nameIn>> /\ parent' = [parent EXCEPT ![c] = x]
        /\ docOf' = [docOf EXCEPT ![c] = DocAt(x)]
    BY <1>3 DEF AddChild, GraftRetagged
  <2>4. StaysMade
    BY <2>1, <2>2, <2>3 DEF StaysMade
  <2> QED BY <2>4, MadeFrame
<1>4. ASSUME NEW s \in Nodes, NEW c \in Nodes, AddSibling(s, c) PROVE MadeOK'
  <2>1. home[c] # NULL /\ docOf[s] \in Docs /\ creator[docOf[s]] # NULL
    BY <1>0, <1>4, UsableMade, GraftAssumption DEF AddSibling, CanGraft, Anchor, Usable
  <2>2. parent[s] # NULL => DocAt(parent[s]) \in Docs /\ creator[DocAt(parent[s])] # NULL
    BY ParentMade, GraftAssumption
  <2>3. /\ parent[s] \in Nodes => home[parent[s]] # NULL
        /\ parent[s] \in Docs => creator[parent[s]] # NULL
    BY DEF MadeOK
  <2>4. \A n \in Nodes : n # c => parent'[n] = parent[n] /\ docOf'[n] = docOf[n]
    BY <1>4 DEF AddSibling, GraftRetagged
  <2>5. /\ parent'[c] = parent[s]
        /\ docOf'[c] = IF parent[s] = NULL THEN docOf[s] ELSE DocAt(parent[s])
    BY <1>4 DEF AddSibling, GraftRetagged
  <2>6. UNCHANGED <<home, nameIn>>
    BY <1>4 DEF AddSibling
  <2>7. StaysMade
    BY <2>1, <2>2, <2>3, <2>4, <2>5, <2>6 DEF StaysMade
  <2> QED BY <2>7, MadeFrame
<1>5. ASSUME NEW old \in Nodes, NEW c \in Nodes, Replace(old, c) PROVE MadeOK'
  <2>1. home[c] # NULL
    BY <1>5 DEF Replace, CanGraft, Usable
  <2>2. CASE parent[old] = NULL
    <3>1. StaysMade
      BY <1>5, <2>2 DEF Replace, StaysMade
    <3> QED BY <3>1, MadeFrame
  <2>3. CASE parent[old] # NULL
    <3>1. DocAt(parent[old]) \in Docs /\ creator[DocAt(parent[old])] # NULL
      BY <2>3, ParentMade, GraftAssumption
    <3>2. /\ parent[old] \in Nodes => home[parent[old]] # NULL
          /\ parent[old] \in Docs => creator[parent[old]] # NULL
      BY DEF MadeOK
    <3>3. \A n \in Nodes : n # c =>
            parent'[n] \in {parent[n], NULL} /\ docOf'[n] = docOf[n]
      BY <1>5, <2>3 DEF Replace, GraftRetagged
    <3>4. parent'[c] \in {parent[old], NULL} /\ docOf'[c] = DocAt(parent[old])
      BY <1>5, <2>3 DEF Replace, GraftRetagged
    <3>5. UNCHANGED <<home, nameIn>>
      BY <1>5 DEF Replace
    <3>6. StaysMade
      BY <2>1, <3>1, <3>2, <3>3, <3>4, <3>5 DEF StaysMade
    <3> QED BY <3>6, MadeFrame
  <2> QED BY <2>2, <2>3
<1>6. ASSUME NEW d \in Docs, NEW r \in Nodes, SetRoot(d, r) PROVE MadeOK'
  <2>1. creator[d] # NULL /\ home[r] # NULL
    BY <1>6 DEF SetRoot, DocLive, Usable
  <2>2. \A n \in Nodes : /\ parent'[n] \in {parent[n], NULL} \/ (n = r /\ parent'[n] = d)
                         /\ docOf'[n] \in {docOf[n], d}
    <3>1. /\ parent' = [n \in Nodes |-> IF n = r THEN d
                                        ELSE IF parent[n] = d THEN NULL ELSE parent[n]]
          /\ docOf' = [n \in Nodes |-> IF n \in Below(r) THEN d ELSE docOf[n]]
      BY <1>6 DEF SetRoot, StampTree
    <3> QED BY <3>1
  <2>3. UNCHANGED <<home, nameIn>>
    BY <1>6 DEF SetRoot
  <2>4. StaysMade
    BY <1>0, <2>1, <2>2, <2>3 DEF StaysMade
  <2> QED BY <2>4, MadeFrame
<1>7. ASSUME NEW t \in Threads, NEW n \in Nodes, Unlink(t, n) PROVE MadeOK'
  <2>1. StaysMade
    BY <1>7 DEF Unlink, StaysMade
  <2> QED BY <2>1, MadeFrame
<1>8. ASSUME NEW t \in Threads, NEW x \in Docs \cup Nodes, NEW c \in Nodes, MoveBegin(t, x, c)
      PROVE  MadeOK'
  <2>1. home[c] # NULL /\ DocAt(x) \in Docs /\ creator[DocAt(x)] # NULL
    BY <1>0, <1>8, UsableMade, AnchorMade, GraftAssumption DEF MoveBegin, CanGraft, Usable
  <2>2. /\ x \in Nodes => home[x] # NULL
        /\ x \in Docs => creator[x] # NULL
    BY <1>0, <1>8 DEF MoveBegin, CanGraft, Anchor, Usable, DocLive
  <2>3. \A n \in Nodes : docOf'[n] \in {docOf[n], DocAt(x)}
    BY <1>8 DEF MoveBegin, StampTree
  <2>4. UNCHANGED <<home, nameIn>> /\ parent' = [parent EXCEPT ![c] = x]
    BY <1>8 DEF MoveBegin
  <2>5. StaysMade
    BY <2>1, <2>2, <2>3, <2>4 DEF StaysMade
  <2> QED BY <2>5, MadeFrame
<1>9. ASSUME NEW n \in Nodes, ~ Calm, Visited(n), UNCHANGED <<home, parent, creator>>,
             \A m \in Nodes : nameIn'[m] = nameIn[m] \/ nameIn'[m] # NULL
      PROVE  MadeOK'
  <2>1. move.to \in Docs /\ creator[move.to] # NULL
    BY <1>9 DEF MoveOK, DocLive, Calm, Moves
  <2>2. docOf' = [docOf EXCEPT ![n] = move.to]
    BY <1>9 DEF Visited
  <2> QED BY <1>0, <1>9, <2>1, <2>2 DEF MadeOK
<1>10. ASSUME NEW n \in Nodes, MoveOwns(n) PROVE MadeOK'
  <2>1. ~ Calm
    BY <1>10 DEF MoveOwns, Calm, NoMove
  <2> QED BY <1>1, <1>9, <1>10, <2>1 DEF MoveOwns
<1>11. CASE MoveLookup
  <2>1. ~ Calm
    BY <1>11 DEF MoveLookup, Calm, NoMove
  <2>2. move.node \in Nodes /\ creator[move.to] # NULL
    BY <2>1 DEF MoveOK, DocLive, Calm, Moves
  <2>3. \A m \in Nodes : nameIn'[m] = nameIn[m] \/ nameIn'[m] # NULL
    BY <1>11, <2>2 DEF MoveLookup, Rehomed
  <2>4. Visited(move.node) /\ UNCHANGED <<home, parent, creator>>
    BY <1>11 DEF MoveLookup
  <2> QED BY <1>9, <2>1, <2>2, <2>3, <2>4
<1>12. CASE \/ \E t \in Threads, d \in Docs : NewDoc(t, d)
            \/ \E t, dict \in Threads, n \in Nodes : PlainOwns(t, dict, n) \/ PlainLookup(t, dict, n)
            \/ \E d \in Docs : FreeDoc(d)
            \/ \E t \in Threads : Exit(t)
  BY <1>1, <1>12 DEF NewDoc, PlainOwns, PlainLookup, FreeDoc, Exit, treeVars
<1> QED BY <1>2, <1>3, <1>4, <1>5, <1>6, <1>7, <1>8, <1>10, <1>11, <1>12 DEF Next

LEMMA StepKeep == ASSUME TypeOK, KeepOK, Next PROVE KeepOK'
<1> USE DEF TypeOK
<1>1. ASSUME NEW t \in Threads, NEW d \in Docs, NewDoc(t, d) PROVE KeepOK'
  BY <1>1 DEF NewDoc, KeepAlive, KeepOK
<1>2. ASSUME NEW t \in Threads, Exit(t) PROVE KeepOK'
  BY <1>2 DEF Exit, KeepOK
<1>3. CASE UNCHANGED <<running, creator, keep>>
  BY <1>3 DEF KeepOK
<1> QED BY <1>1, <1>2, <1>3
     DEF Next, NewNode, AddChild, AddSibling, Replace, SetRoot, Unlink, MoveBegin, MoveOwns,
         MoveLookup, PlainOwns, PlainLookup, FreeDoc, threadVars

(* One step of the move: n is visited, the rest stays.                     *)
LEMMA VisitedMove ==
  ASSUME TypeOK, ~ Calm, NEW n \in Nodes, Visited(n)
  PROVE  /\ docOf' = [docOf EXCEPT ![n] = move.to]
         /\ move.thread \in Threads /\ move.to \in Docs /\ move.from \in Threads
         /\ move.node \in Nodes /\ move.todo \subseteq Nodes
         /\ move.todo \ {n} = {} => move' = NoMove
         /\ move.todo \ {n} # {} =>
              /\ move'.pc = "owns" /\ move'.thread = move.thread /\ move'.from = move.from
              /\ move'.to = move.to /\ move'.node = move.node /\ move'.todo = move.todo \ {n}
              /\ move' # NoMove
<1> DEFINE M == [pc : {"owns", "lookup"}, thread : Threads, from : Threads, to : Docs,
                 node : Nodes, todo : SUBSET Nodes]
<1>1. move \in M
  BY DEF TypeOK, Moves, Calm
<1>2. move.todo \ {n} # {} => move' = [move EXCEPT !.pc = "owns", !.todo = move.todo \ {n}]
  BY DEF Visited
<1>3. ASSUME move.todo \ {n} # {} PROVE move'.pc = "owns"
  BY <1>1, <1>2, <1>3
<1>4. NoMove.pc = "none"
  BY DEF NoMove
<1> QED BY <1>1, <1>2, <1>3, <1>4 DEF Visited

LEMMA StepMove == ASSUME TypeOK, MadeOK, MoveOK, Next PROVE MoveOK'
<1> USE DEF TypeOK
<1>1. CASE move' = move /\ Calm
  BY <1>1 DEF MoveOK, Calm
<1>2. ASSUME UNCHANGED <<move, home, nameIn, route>>, ~ Calm,
             move.thread \in running', rehome'[move.thread] = rehome[move.thread],
             \A d \in Docs : DocLive(d) => DocLive(d)' /\ creator'[d] = creator[d]
      PROVE  MoveOK'
  <2>1. move.to \in Docs
    BY <1>2 DEF Calm, Moves
  <2> QED BY <1>2, <2>1 DEF MoveOK, Calm
<1>3. ASSUME NEW t \in Threads, NEW d \in Docs, NewDoc(t, d) PROVE MoveOK'
  <2>1. CASE Calm
    BY <1>1, <1>3, <2>1 DEF NewDoc
  <2>2. CASE ~ Calm
    <3>1. \A e \in Docs : DocLive(e) => DocLive(e)' /\ creator'[e] = creator[e]
      BY <1>3 DEF NewDoc, DocLive
    <3> QED BY <1>2, <1>3, <2>2, <3>1 DEF NewDoc, treeVars, MoveOK
  <2> QED BY <2>1, <2>2
<1>4. ASSUME NEW t \in Threads, Exit(t) PROVE MoveOK'
  <2>1. CASE Calm
    BY <1>1, <1>4, <2>1 DEF Exit
  <2>2. CASE ~ Calm
    <3>1. \A e \in Docs : DocLive(e) => DocLive(e)' /\ creator'[e] = creator[e]
      BY <1>4 DEF Exit, DocLive
    <3>2. move.thread # t /\ move.thread \in running /\ move.thread \in Threads
      BY <1>4, <2>2 DEF Exit, MoveOK
    <3> QED BY <1>2, <1>4, <2>2, <3>1, <3>2 DEF Exit, treeVars
  <2> QED BY <2>1, <2>2
<1>5. ASSUME NEW t \in Threads, NEW x \in Docs \cup Nodes, NEW c \in Nodes, MoveBegin(t, x, c)
      PROVE  MoveOK'
  <2>1. CASE creator[docOf[c]] = creator[DocAt(x)]
    BY <1>1, <1>5, <2>1 DEF MoveBegin, CanGraft, Call
  <2>2. CASE creator[docOf[c]] # creator[DocAt(x)]
    <3>1. move' = [pc |-> "owns", thread |-> t, from |-> creator[docOf[c]],
                   to |-> DocAt(x), node |-> c, todo |-> Below(c)]
      BY <1>5, <2>2 DEF MoveBegin
    <3>2. /\ t \in running /\ UNCHANGED <<running, creator, freed, home>>
          /\ Usable(c) /\ Anchor(x) /\ route' = Rerouted(c, x, "graft")
      BY <1>5 DEF MoveBegin, CanGraft
    <3>3. DocLive(DocAt(x)) /\ DocLive(docOf[c]) /\ docOf[c] \in Docs /\ home[c] # NULL
      BY <3>2, AnchorMade, UsableMade DEF Usable
    <3>4. \A n \in Below(c) : n \in Nodes /\ home[n] # NULL
      BY <3>3, BelowHome
    <3>5. \A n \in Below(c) : route'[n] # "native"
      BY <2>2, <3>2, <3>4 DEF Rerouted
    <3> QED BY <2>2, <3>1, <3>2, <3>3, <3>4, <3>5 DEF MoveOK, DocLive
  <2> QED BY <2>1, <2>2
<1>6. ASSUME NEW n \in Nodes, ~ Calm, n \in move.todo, Visited(n),
             UNCHANGED <<running, creator, freed, home, route>>
      PROVE  MoveOK'
  <2>1. CASE move.todo \ {n} = {}
    BY <1>6, <2>1, VisitedMove DEF MoveOK, Calm
  <2>2. CASE move.todo \ {n} # {}
    BY <1>6, <2>2, VisitedMove DEF MoveOK, DocLive
  <2> QED BY <2>1, <2>2
<1>7. ASSUME NEW n \in Nodes, MoveOwns(n) PROVE MoveOK'
  <2> DEFINE M == [pc : {"owns", "lookup"}, thread : Threads, from : Threads, to : Docs,
                   node : Nodes, todo : SUBSET Nodes]
  <2>1. ~ Calm /\ move \in M
    BY <1>7 DEF MoveOwns, Calm, NoMove, Moves
  <2>2. UNCHANGED <<running, creator, freed, home, route, nameIn>> /\ n \in move.todo
    BY <1>7 DEF MoveOwns
  <2>3. CASE nameIn[n] = move.from
    <3>1. /\ move' = [move EXCEPT !.pc = "lookup", !.node = n]
          /\ rehome' = [rehome EXCEPT ![move.thread] = <<move.from, n>>]
      BY <1>7, <2>3 DEF MoveOwns
    <3>2. /\ move'.thread = move.thread /\ move'.from = move.from /\ move'.to = move.to
          /\ move'.todo = move.todo /\ move'.node = n
      BY <2>1, <3>1
    <3>3. rehome'[move.thread] = <<move.from, n>>
      BY <2>1, <3>1
    <3> QED BY <2>1, <2>2, <2>3, <3>2, <3>3 DEF MoveOK, DocLive
  <2>4. CASE nameIn[n] # move.from
    BY <1>6, <1>7, <2>1, <2>2, <2>4 DEF MoveOwns
  <2> QED BY <2>3, <2>4
<1>8. CASE MoveLookup
  <2>1. ~ Calm
    BY <1>8 DEF MoveLookup, Calm, NoMove
  <2>2. move.node \in Nodes /\ move.node \in move.todo
    BY <1>8, <2>1 DEF MoveLookup, MoveOK, Calm, Moves
  <2> QED BY <1>6, <1>8, <2>1, <2>2 DEF MoveLookup
<1>9. CASE \/ \E d \in Docs, n \in Nodes : NewNode(d, n)
           \/ \E x \in Docs \cup Nodes, c \in Nodes : AddChild(x, c)
           \/ \E s \in Nodes, c \in Nodes : AddSibling(s, c)
           \/ \E old \in Nodes, c \in Nodes : Replace(old, c)
           \/ \E d \in Docs, r \in Nodes : SetRoot(d, r)
           \/ \E t \in Threads, n \in Nodes : Unlink(t, n)
           \/ \E t, dict \in Threads, n \in Nodes : PlainOwns(t, dict, n) \/ PlainLookup(t, dict, n)
           \/ \E d \in Docs : FreeDoc(d)
  BY <1>1, <1>9 DEF NewNode, AddChild, AddSibling, Replace, SetRoot, Unlink, PlainOwns,
                    PlainLookup, FreeDoc, CanGraft, Call
<1> QED BY <1>3, <1>4, <1>5, <1>7, <1>8, <1>9 DEF Next

-----------------------------------------------------------------------------
(* Where names and routes lead.                                            *)

Grows == \A t \in Threads : retained[t] \subseteq retained'[t]

(* Pinned after the step, of values taken before it.                       *)
PinPendingNext(h, e) ==
  /\ move' # NoMove /\ move'.to = e /\ stash'[move'.thread] = h
  /\ creator'[h] # NULL /\ h \notin freed'
  /\ move'.node \in move'.todo /\ nameIn'[move'.node] = move'.from

PinnedNext(h, e) ==
  creator'[h] = creator'[e] \/ h \in retained'[creator'[e]] \/ PinPendingNext(h, e)

(* What is to be pinned stays so, or is pinned.                            *)
PinsKept ==
  \A h, e \in Docs : PinPending(h, e) => PinPendingNext(h, e) \/ h \in retained'[creator[e]]

LEMMA PinnedKept ==
  ASSUME TypeOK, Next, Grows, PinsKept, NEW h \in Docs, NEW e \in Docs,
         creator[h] # NULL, creator[e] # NULL, Pinned(h, e)
  PROVE  PinnedNext(h, e)
<1>1. creator'[h] = creator[h] /\ creator'[e] = creator[e]
  BY CreatorFixed
<1>2. creator[e] \in Threads
  BY DEF TypeOK
<1>3. CASE PinPending(h, e)
  <2>1. PinPendingNext(h, e) \/ h \in retained'[creator[e]]
    BY <1>3 DEF PinsKept
  <2> QED BY <1>1, <2>1 DEF PinnedNext
<1>4. CASE ~ PinPending(h, e)
  BY <1>1, <1>2, <1>4 DEF Pinned, PinnedNext, Grows
<1> QED BY <1>3, <1>4

(* How a place stays right when the step leaves its node there.            *)
LEMMA NativeKept ==
  ASSUME TypeOK, MadeOK, Next, NEW n \in Nodes, home[n] # NULL, NativePlace(n),
         UNCHANGED home, docOf'[n] = docOf[n], nameIn'[n] = nameIn[n],
         parent'[n] \in {parent[n], NULL},
         parent[n] \in Nodes => route'[parent[n]] = route[parent[n]]
  PROVE  NativePlace(n)'
<1>1. creator'[home[n]] = creator[home[n]] /\ NULL \notin Nodes \cup Docs
  BY CreatorFixed, GraftAssumption DEF MadeOK, TypeOK
<1> QED BY <1>1 DEF NativePlace

LEMMA FirstKept ==
  ASSUME TypeOK, MadeOK, Next, Grows, PinsKept, NEW n \in Nodes, home[n] # NULL, FirstPlace(n),
         UNCHANGED home, parent'[n] \in {parent[n], NULL},
         parent[n] \in Nodes => route'[parent[n]] = route[parent[n]]
  PROVE  FirstPlace(n)'
<1>1. NULL \notin Nodes \cup Docs /\ home[n] \in Docs /\ creator[home[n]] # NULL
  BY GraftAssumption DEF MadeOK, TypeOK
<1>2. CASE parent[n] \in Nodes /\ parent'[n] = parent[n]
  <2>1. home[parent[n]] \in Docs /\ creator[home[parent[n]]] # NULL /\ parent[n] \notin Docs
    BY <1>2, GraftAssumption DEF MadeOK, TypeOK
  <2>2. Pinned(home[n], home[parent[n]]) => PinnedNext(home[n], home[parent[n]])
    BY <1>1, <2>1, PinnedKept
  <2> QED BY <1>2, <2>1, <2>2 DEF FirstPlace, Pinned, PinPending, PinnedNext, PinPendingNext, Calm,
                                  DocLive
<1>3. CASE parent[n] \in Docs /\ parent'[n] = parent[n]
  <2>1. creator[parent[n]] # NULL /\ parent[n] \notin Nodes
    BY <1>3, GraftAssumption DEF MadeOK
  <2>2. PinnedNext(home[n], parent[n])
    BY <1>1, <1>3, <2>1, PinnedKept DEF FirstPlace
  <2> QED BY <1>3, <2>1, <2>2 DEF FirstPlace, Pinned, PinPending, PinnedNext, PinPendingNext, Calm,
                                  DocLive
<1>4. CASE parent'[n] \notin Nodes \cup Docs
  BY <1>4 DEF FirstPlace
<1> QED BY <1>1, <1>2, <1>3, <1>4

(* Steps that hang nothing anew.                                           *)
Detaches ==
  /\ UNCHANGED <<home, docOf, route, crossed>>
  /\ \A n \in Nodes : parent'[n] \in {parent[n], NULL}

LEMMA DetachRoute ==
  ASSUME TypeOK, MadeOK, RouteOK, Next, Grows, PinsKept, Detaches, UNCHANGED nameIn
  PROVE  RouteOK'
<1>1. ASSUME NEW n \in Nodes, home'[n] # NULL, route'[n] = "native" PROVE NativePlace(n)'
  BY <1>1, NativeKept DEF Detaches, RouteOK
<1>2. ASSUME NEW n \in Nodes, home'[n] # NULL, route'[n] = "first" PROVE FirstPlace(n)'
  BY <1>2, FirstKept DEF Detaches, RouteOK
<1> QED BY <1>1, <1>2 DEF RouteOK

LEMMA DetachName ==
  ASSUME TypeOK, MadeOK, MoveOK, NameOK, CrossOK, Next, Detaches, UNCHANGED <<nameIn, move>>
  PROVE  NameOK' /\ CrossOK'
<1>1. /\ \A d \in Docs : creator[d] # NULL => creator'[d] = creator[d]
      /\ NULL \notin Nodes \cup Docs
  BY CreatorFixed, GraftAssumption
<1>2. ~ Calm => creator'[move.to] = creator[move.to]
  BY <1>1 DEF MoveOK, DocLive, TypeOK, Moves, Calm
<1>3. \A n \in Nodes : home[n] # NULL => creator'[docOf[n]] = creator[docOf[n]]
  BY <1>1 DEF MadeOK, TypeOK
<1>4. NameOK'
  BY <1>2, <1>3 DEF NameOK, Unvisited, Calm, Detaches
<1>5. \A n \in Nodes : home[n] # NULL => Destined(n)' = Destined(n)
  BY <1>2, <1>3 DEF Destined, Unvisited, Calm, Detaches
<1>6. CrossOK'
  <2>1. SUFFICES ASSUME NEW n \in Nodes, n \notin crossed, parent'[n] = parent[n], parent[n] # NULL
                 PROVE  /\ parent[n] \in Nodes => Destined(parent[n])' = Destined(n)'
                        /\ parent[n] \in Docs => Destined(n)' = creator'[parent[n]]
    BY <1>1 DEF CrossOK, Detaches
  <2> QED BY <1>1, <1>5, <2>1 DEF CrossOK, MadeOK, Destined, Unvisited, Calm
<1> QED BY <1>4, <1>6

LEMMA RetainGrows ==
  ASSUME TypeOK, NEW c, NEW dst, retained' = RetainGraft(c, dst)
  PROVE  Grows
BY DEF RetainGraft, Grows, TypeOK

LEMMA PinGrows ==
  ASSUME TypeOK, NEW t, NEW n, NEW dict, retained' = LookupPin(t, n, dict)
  PROVE  Grows
BY DEF LookupPin, Grows, TypeOK

LEMMA CalmPins == ASSUME Calm PROVE PinsKept
BY DEF PinsKept, PinPending

(* The steps that leave every node where it is, or detached.               *)
Frames ==
  \/ \E t \in Threads, d \in Docs : NewDoc(t, d)
  \/ \E old \in Nodes, c \in Nodes : parent[old] = NULL /\ Replace(old, c)
  \/ \E t \in Threads, n \in Nodes : Unlink(t, n)
  \/ \E t, dict \in Threads, n \in Nodes : PlainOwns(t, dict, n) \/ PlainLookup(t, dict, n)
  \/ \E d \in Docs : FreeDoc(d)
  \/ \E t \in Threads : Exit(t)

LEMMA FramesFrame ==
  ASSUME TypeOK, MoveOK, Frames
  PROVE  Detaches /\ UNCHANGED <<nameIn, move>> /\ Grows /\ PinsKept
<1>1. ASSUME NEW t \in Threads, NEW d \in Docs, NewDoc(t, d)
      PROVE  Detaches /\ UNCHANGED <<nameIn, move>> /\ Grows /\ PinsKept
  <2>1. Detaches /\ UNCHANGED <<nameIn, move, retained, stash, freed>>
    BY <1>1 DEF NewDoc, Detaches, treeVars
  <2>2. \A h \in Docs : creator[h] # NULL => creator'[h] # NULL
    BY <1>1 DEF NewDoc, TypeOK
  <2> QED BY <2>1, <2>2 DEF Grows, PinsKept, PinPending, PinPendingNext, Calm, DocLive
<1>2. ASSUME NEW old \in Nodes, NEW c \in Nodes, parent[old] = NULL, Replace(old, c)
      PROVE  Detaches /\ UNCHANGED <<nameIn, move>> /\ Grows /\ PinsKept
  <2>1. Calm /\ Grows
    BY <1>2, RetainGrows DEF Replace, CanGraft, Call
  <2>2. Detaches /\ UNCHANGED <<nameIn, move>>
    BY <1>2 DEF Replace, Detaches, TypeOK
  <2> QED BY <2>1, <2>2, CalmPins
<1>3. ASSUME NEW t \in Threads, NEW n \in Nodes, Unlink(t, n)
      PROVE  Detaches /\ UNCHANGED <<nameIn, move>> /\ Grows /\ PinsKept
  <2>1. Detaches /\ UNCHANGED <<nameIn, move, retained>> /\ Calm
    BY <1>3 DEF Unlink, Detaches, TypeOK, Call
  <2> QED BY <2>1, CalmPins DEF Grows
<1>4. ASSUME NEW t \in Threads, NEW dict \in Threads, NEW n \in Nodes,
             PlainOwns(t, dict, n) \/ PlainLookup(t, dict, n)
      PROVE  Detaches /\ UNCHANGED <<nameIn, move>> /\ Grows /\ PinsKept
  <2>1. Detaches /\ UNCHANGED <<nameIn, move>> /\ Calm
    BY <1>4 DEF PlainOwns, PlainLookup, Detaches, Call, treeVars
  <2>2. Grows
    <3>1. CASE retained' = retained
      BY <3>1 DEF Grows
    <3> QED BY <1>4, <3>1, PinGrows DEF PlainOwns, PlainLookup
  <2> QED BY <2>1, <2>2, CalmPins
<1>5. ASSUME NEW d \in Docs, FreeDoc(d)
      PROVE  Detaches /\ UNCHANGED <<nameIn, move>> /\ Grows /\ PinsKept
  BY <1>5, CalmPins DEF FreeDoc, Detaches, Grows, treeVars
<1>6. ASSUME NEW t \in Threads, Exit(t)
      PROVE  Detaches /\ UNCHANGED <<nameIn, move>> /\ Grows /\ PinsKept
  <2>1. Detaches /\ UNCHANGED <<nameIn, move, retained, creator, freed>>
    BY <1>6 DEF Exit, Detaches, treeVars
  <2>2. ~ Calm => move.thread # t /\ move.thread \in Threads
    BY <1>6 DEF Exit, MoveOK, TypeOK
  <2>3. ~ Calm => stash'[move.thread] = stash[move.thread]
    BY <1>6, <2>2 DEF Exit, TypeOK
  <2> QED BY <2>1, <2>3 DEF Grows, PinsKept, PinPending, PinPendingNext, Calm, DocLive
<1> QED BY <1>1, <1>2, <1>3, <1>4, <1>5, <1>6 DEF Frames

-----------------------------------------------------------------------------
(* Down a tree: one dictionary for what did not cross, one arena for what  *)
(* is native.                                                              *)

LEMMA SameDict ==
  ASSUME CrossOK, NEW x, NEW k,
         x \in Nodes \ crossed => Destined(x) = k,
         x \in Docs => creator[x] = k,
         x \in Nodes \cup Docs,
         NEW n \in Below(x), n \notin crossed
  PROVE  Destined(n) = k
<1> DEFINE S == {m \in Nodes \cup {x} : m \in Nodes \ crossed => Destined(m) = k}
<1>0. Nodes \cap Docs = {}
  BY GraftAssumption
<1>1. x \in S
  OBVIOUS
<1>2. ASSUME NEW m \in Nodes, parent[m] \in S PROVE m \in S
  <2>1. CASE m \in crossed
    BY <2>1
  <2>2. CASE m \notin crossed /\ parent[m] \in Nodes
    BY <1>2, <2>2 DEF CrossOK
  <2>3. CASE m \notin crossed /\ parent[m] \in Docs
    BY <1>0, <1>2, <2>3 DEF CrossOK
  <2> QED BY <1>2, <2>1, <2>2, <2>3
<1> HIDE DEF S
<1>3. n \in S
  BY <1>1, <1>2, BelowClosed
<1> QED BY <1>3 DEF S, Below

LEMMA SameHome ==
  ASSUME MadeOK, RouteOK, NEW c \in Nodes, NEW n \in Below(c), route[n] = "native"
  PROVE  home[n] = home[c] /\ route[c] = "native"
<1> DEFINE S == {m \in Nodes : route[m] = "native" => home[m] = home[c] /\ route[c] = "native"}
<1>1. c \in S
  OBVIOUS
<1>2. ASSUME NEW m \in Nodes, parent[m] \in S PROVE m \in S
  <2>1. parent[m] \in Nodes /\ parent[m] # NULL
    BY <1>2, GraftAssumption
  <2> QED BY <1>2, <2>1 DEF MadeOK, RouteOK, NativePlace
<1> HIDE DEF S
<1>3. n \in S
  BY <1>1, <1>2, BelowClosed
<1> QED BY <1>3 DEF S

-----------------------------------------------------------------------------
(* Grafts: c hangs below p, for x, and what changes its `doc' gets e.      *)

Hung(c, x, p, e, r) ==
  /\ Calm /\ UNCHANGED <<home, nameIn, creator>>
  /\ p \notin Below(c) /\ p \in Nodes \cup Docs \cup {NULL}
  /\ parent'[c] = p
  /\ \A n \in Nodes : n # c => parent'[n] \in {parent[n], NULL}
  /\ \A n \in Nodes : docOf'[n] # docOf[n] => n \in Below(c) /\ docOf'[n] = e
  /\ route' = Rerouted(c, x, r)

(* The place is in the dictionary of x.                                    *)
SameSide(x, p) ==
  x \notin crossed =>
    /\ p \in Nodes => p \notin crossed /\ creator[docOf[p]] = creator[DocAt(x)]
    /\ p \in Docs => creator[p] = creator[DocAt(x)]

LEMMA HungName ==
  ASSUME TypeOK, MadeOK, NameOK, CrossOK, NEW c \in Nodes, home[c] # NULL, NEW x, NEW p, NEW e, NEW r,
         Hung(c, x, p, e, r), SameSide(x, p), UNCHANGED move,
         crossed' = Crossing(c, x), x \notin crossed => creator[e] = creator[DocAt(x)]
  PROVE  NameOK' /\ CrossOK'
<1>1. /\ \A n : Destined(n) = creator[docOf[n]] /\ Destined(n)' = creator[docOf'[n]]
      /\ \A n : ~ Unvisited(n) /\ ~ Unvisited(n)'
  BY DEF Hung, Destined, Unvisited, Calm
<1>2. \A n \in Below(c) : n \notin crossed => creator[docOf[n]] = creator[docOf[c]]
  <2>1. ASSUME NEW n \in Below(c), n \notin crossed PROVE Destined(n) = Destined(c)
    BY <2>1, SameDict, GraftAssumption
  <2> QED BY <1>1, <2>1
<1>3. crossed \subseteq crossed' /\ crossed' \subseteq crossed \cup Below(c)
  BY DEF Crossing, JoinsCrossed
<1>4. CASE \E n \in Below(c) : n \notin crossed'
  <2>1. creator[docOf[c]] = creator[DocAt(x)] /\ x \notin crossed /\ crossed' = crossed
    BY <1>4 DEF Crossing, JoinsCrossed
  <2>2. \A n \in Nodes \ crossed : creator[docOf'[n]] = creator[docOf[n]]
    BY <1>2, <2>1 DEF Hung
  <2>3. NameOK'
    BY <1>1, <2>1, <2>2 DEF NameOK, Hung
  <2>4. ASSUME NEW n \in Nodes, n \notin crossed
        PROVE  /\ parent'[n] \in Nodes => parent'[n] \notin crossed
                                          /\ creator[docOf'[parent'[n]]] = creator[docOf'[n]]
               /\ parent'[n] \in Docs => creator[docOf'[n]] = creator[parent'[n]]
    <3>1. CASE n = c
      BY <2>1, <2>2, <2>4, <3>1 DEF Hung, SameSide
    <3>2. CASE n # c /\ parent'[n] = parent[n]
      BY <1>1, <2>2, <2>4, <3>2 DEF CrossOK
    <3>3. CASE parent'[n] = NULL
      BY <3>3, GraftAssumption
    <3> QED BY <3>1, <3>2, <3>3 DEF Hung
  <2> QED BY <1>1, <2>1, <2>3, <2>4 DEF CrossOK, Hung, Destined, Unvisited, Calm
<1>5. CASE \A n \in Below(c) : n \in crossed'
  <2>1. \A n \in Nodes \ crossed' : n \notin Below(c) /\ docOf'[n] = docOf[n] /\ n \notin crossed
    BY <1>3, <1>5 DEF Hung
  <2>2. NameOK'
    BY <1>1, <2>1 DEF NameOK, Hung
  <2>3. ASSUME NEW n \in Nodes, n \notin crossed'
        PROVE  /\ parent'[n] \in Nodes => parent'[n] \notin crossed'
                                          /\ creator[docOf'[parent'[n]]] = creator[docOf'[n]]
               /\ parent'[n] \in Docs => creator[docOf'[n]] = creator[parent'[n]]
    <3>1. n # c /\ n \notin Below(c)
      BY <2>1, <2>3, BelowSelf
    <3>2. CASE parent'[n] = parent[n] /\ parent[n] \in Nodes
      <4>1. parent[n] \notin Below(c) /\ parent[n] \notin crossed
        BY <2>1, <2>3, <3>1, <3>2, BelowDown DEF CrossOK
      <4> QED BY <1>1, <1>3, <2>1, <2>3, <3>2, <4>1, GraftAssumption DEF CrossOK, Hung
    <3>3. CASE parent'[n] = parent[n] /\ parent[n] \in Docs
      BY <1>1, <2>1, <2>3, <3>3, GraftAssumption DEF CrossOK
    <3>4. CASE parent'[n] \notin Nodes \cup Docs
      BY <3>4
    <3> QED BY <3>1, <3>2, <3>3, <3>4, GraftAssumption DEF Hung
  <2> QED BY <1>1, <2>2, <2>3 DEF CrossOK, Hung, Destined, Unvisited, Calm
<1> QED BY <1>4, <1>5

(* Below or beside a native place of a document: that place is native too. *)
NativeSide(x, p, e) ==
  NativeAt(x) =>
    /\ e = DocAt(x)
    /\ p \in Nodes => route[p] = "native" /\ home[p] = DocAt(x)
    /\ p \in Docs => p = DocAt(x)

LEMMA HungRoute ==
  ASSUME TypeOK, MadeOK, RouteOK, Next, NEW c \in Nodes, home[c] # NULL, NEW x, NEW p, NEW e, NEW r,
         Hung(c, x, p, e, r), NativeSide(x, p, e), Grows,
         r # "root" /\ route[c] = "native" /\ NativeAt(x) => PinnedNext(home[c], DocAt(x))
  PROVE  RouteOK'
<1>0. Calm /\ PinsKept /\ c \in Below(c) /\ UNCHANGED <<home, nameIn, creator>>
  BY CalmPins, BelowSelf DEF Hung
<1>1. \A n \in Nodes : n \notin Below(c) => parent[n] \notin Below(c)
  BY BelowDown
<1>2. CASE route[c] = "native" /\ NativeAt(x) /\ docOf[c] = DocAt(x)
  <2>1. route' = route /\ home[c] = DocAt(x) /\ NativePlace(c)
    BY <1>2 DEF Hung, Rerouted, RouteOK, NativePlace
  <2>2. ASSUME NEW n \in Nodes, home'[n] # NULL, route'[n] = "native" PROVE NativePlace(n)'
    <3>1. NativePlace(n) /\ home[n] # NULL /\ home[n] \in Docs
      BY <1>0, <2>1, <2>2 DEF RouteOK, TypeOK
    <3>2. docOf'[n] = docOf[n]
      <4>1. n \in Below(c) => home[n] = home[c]
        BY <2>1, <2>2, SameHome
      <4> QED BY <1>2, <2>1, <3>1, <4>1 DEF Hung, NativeSide, NativePlace
    <3>3. CASE n = c
      BY <1>0, <1>2, <2>1, <3>1, <3>2, <3>3 DEF Hung, NativeSide, NativePlace
    <3>4. CASE n # c
      <4>1. parent'[n] \in {parent[n], NULL}
        BY <3>4 DEF Hung
      <4> QED BY <1>0, <2>1, <3>1, <3>2, <4>1, NativeKept
    <3> QED BY <3>3, <3>4
  <2>3. ASSUME NEW n \in Nodes, home'[n] # NULL, route'[n] = "first" PROVE FirstPlace(n)'
    <3>1. FirstPlace(n) /\ n # c /\ home[n] # NULL
      BY <1>0, <1>2, <2>1, <2>3 DEF RouteOK
    <3>2. parent'[n] \in {parent[n], NULL}
      BY <3>1 DEF Hung
    <3> QED BY <1>0, <2>1, <3>1, <3>2, FirstKept
  <2> QED BY <2>2, <2>3 DEF RouteOK
<1>3. CASE ~ (route[c] = "native" /\ NativeAt(x) /\ docOf[c] = DocAt(x))
  <2>1. /\ \A n \in Nodes : n \notin Below(c) => route'[n] = route[n]
        /\ \A n \in Below(c) : n \in Nodes /\ route'[n] # "native"
        /\ \A n \in Below(c) : route'[n] = "first" => 
             r # "root" /\ route[n] = "native" /\ route[c] = "native" /\ NativeAt(x)
        /\ r # "root" /\ route[c] = "native" /\ NativeAt(x) =>
             \A n \in Below(c) : route[n] = "native" => route'[n] = "first"
    BY <1>3 DEF Hung, Rerouted, Below
  <2>2. ASSUME NEW n \in Nodes, home'[n] # NULL, route'[n] = "native" PROVE NativePlace(n)'
    <3>1. n \notin Below(c) /\ n # c /\ parent[n] \notin Below(c) /\ route[n] = "native"
      BY <1>0, <1>1, <2>1, <2>2
    <3>2. NativePlace(n) /\ home[n] # NULL
      BY <1>0, <2>2, <3>1 DEF RouteOK
    <3>3. parent'[n] \in {parent[n], NULL} /\ docOf'[n] = docOf[n]
      BY <3>1 DEF Hung
    <3> QED BY <1>0, <2>1, <3>1, <3>2, <3>3, NativeKept
  <2>3. ASSUME NEW n \in Nodes, home'[n] # NULL, route'[n] = "first" PROVE FirstPlace(n)'
    <3>1. CASE n \notin Below(c)
      <4>1. n # c /\ parent[n] \notin Below(c) /\ route[n] = "first"
        BY <1>0, <1>1, <2>1, <2>3, <3>1
      <4>2. FirstPlace(n) /\ home[n] # NULL
        BY <1>0, <2>3, <4>1 DEF RouteOK
      <4>3. parent'[n] \in {parent[n], NULL}
        BY <4>1 DEF Hung
      <4> QED BY <1>0, <2>1, <4>1, <4>2, <4>3, FirstKept
    <3>2. CASE n \in Below(c)
      <4>1. r # "root" /\ route[n] = "native" /\ route[c] = "native" /\ NativeAt(x)
        BY <2>1, <2>3, <3>2
      <4>2. CASE n = c
        <5>1. PinnedNext(home[c], DocAt(x))
          BY <4>1
        <5>2. p \in Nodes => p \notin Docs /\ route'[p] = "native" /\ home[p] = DocAt(x)
          BY <2>1, <4>1, GraftAssumption DEF Hung, NativeSide
        <5>3. p \in Docs => p = DocAt(x) /\ p \notin Nodes
          BY <4>1, GraftAssumption DEF NativeSide
        <5> QED BY <1>0, <4>2, <5>1, <5>2, <5>3
                DEF Hung, FirstPlace, Pinned, PinPending, PinnedNext, PinPendingNext, Calm, DocLive
      <4>3. CASE n # c
        <5>1. parent[n] \in Below(c) /\ parent[n] \in Nodes /\ parent[n] \notin Docs
          <6>1. parent[n] \in Below(c)
            BY <1>0, <3>2, <4>3, BelowUp
          <6> QED BY <6>1, GraftAssumption DEF Below
        <5>2. NativePlace(n) /\ parent'[n] \in {parent[n], NULL}
          BY <1>0, <2>3, <4>1, <4>3 DEF RouteOK, Hung
        <5>3. route'[parent[n]] = "first" /\ home'[parent[n]] = home'[n]
          BY <1>0, <2>1, <4>1, <5>1, <5>2 DEF NativePlace
        <5> QED BY <5>1, <5>2, <5>3, GraftAssumption DEF FirstPlace
      <4> QED BY <4>2, <4>3
    <3> QED BY <3>1, <3>2
  <2> QED BY <2>2, <2>3 DEF RouteOK
<1> QED BY <1>2, <1>3

LEMMA RetainPins ==
  ASSUME TypeOK, Next, NEW c, NEW e \in Docs, docOf[c] \in Docs,
         creator[docOf[c]] \in Threads, creator[e] \in Threads,
         retained' = RetainGraft(c, e)
  PROVE  PinnedNext(docOf[c], e)
<1>1. creator'[docOf[c]] = creator[docOf[c]] /\ creator'[e] = creator[e]
  BY CreatorFixed, GraftAssumption
<1> QED BY <1>1 DEF RetainGraft, PinnedNext, TypeOK

(* Below x itself.                                                         *)
LEMMA OnSide ==
  ASSUME TypeOK, MadeOK, RouteOK, NEW x \in Docs \cup Nodes, Anchor(x)
  PROVE  SameSide(x, x) /\ NativeSide(x, x, DocAt(x))
<1>1. x \in Nodes => home[x] # NULL
  BY GraftAssumption DEF Anchor, Usable
<1> QED BY <1>1, GraftAssumption
        DEF SameSide, NativeSide, NativeAt, DocAt, RouteOK, NativePlace

(* Beside s, in the tree s is in.                                          *)
LEMMA BesideSide ==
  ASSUME TypeOK, MadeOK, CrossOK, RouteOK, Calm, NEW s \in Nodes, home[s] # NULL, NEW e,
         e = IF parent[s] = NULL THEN docOf[s] ELSE DocAt(parent[s])
  PROVE  /\ SameSide(s, parent[s]) /\ NativeSide(s, parent[s], e)
         /\ s \notin crossed => creator[e] = creator[DocAt(s)]
<1>1. s \notin Docs /\ DocAt(s) = docOf[s] /\ \A n : Destined(n) = creator[docOf[n]]
  BY GraftAssumption DEF DocAt, Destined, Unvisited
<1>2. /\ parent[s] \in Nodes => parent[s] \notin Docs /\ home[parent[s]] # NULL
                                /\ DocAt(parent[s]) = docOf[parent[s]]
      /\ parent[s] \in Docs => parent[s] \notin Nodes /\ DocAt(parent[s]) = parent[s]
      /\ parent[s] \in Nodes \cup Docs \cup {NULL}
  BY GraftAssumption DEF DocAt, MadeOK, TypeOK
<1>3. SameSide(s, parent[s])
  BY <1>1, <1>2 DEF SameSide, CrossOK
<1>4. ASSUME route[s] = "native"
      PROVE  /\ NativePlace(s)
             /\ parent[s] \in Nodes => NativePlace(parent[s])
  BY <1>2, <1>4 DEF RouteOK, NativePlace
<1>5. NativeSide(s, parent[s], e)
  BY <1>1, <1>2, <1>4 DEF NativeSide, NativeAt, NativePlace
<1>6. s \notin crossed => creator[e] = creator[DocAt(s)]
  BY <1>1, <1>2 DEF CrossOK
<1> QED BY <1>3, <1>5, <1>6

(* What hangs beside a node outside Below(c) is outside, too.              *)
LEMMA BesideOut ==
  ASSUME TypeOK, NEW s \in Nodes, NEW c \in Nodes, s \notin Below(c)
  PROVE  parent[s] \notin Below(c) /\ parent[s] \in Nodes \cup Docs \cup {NULL}
BY BelowDown DEF TypeOK

Rest == NameOK /\ CrossOK /\ RouteOK

LEMMA AddChildRest ==
  ASSUME TypeOK, MadeOK, Rest, Next, NEW x \in Docs \cup Nodes, NEW c \in Nodes, AddChild(x, c)
  PROVE  Rest'
<1>1. /\ Usable(c) /\ Anchor(x) /\ x \notin Below(c) /\ Calm /\ home[c] # NULL
      /\ retained' = RetainGraft(c, DocAt(x)) /\ UNCHANGED move
      /\ crossed' = Crossing(c, x)
  BY DEF AddChild, CanGraft, Call, Usable
<1>2. /\ docOf[c] \in Docs /\ creator[docOf[c]] \in Threads
      /\ DocAt(x) \in Docs /\ creator[DocAt(x)] \in Threads
  BY <1>1, UsableMade, AnchorMade
<1>3. Hung(c, x, x, DocAt(x), "graft")
  BY <1>1, BelowSelf DEF AddChild, GraftRetagged, Hung, TypeOK
<1>4. SameSide(x, x) /\ NativeSide(x, x, DocAt(x))
  BY <1>1, OnSide DEF Rest
<1>5. NameOK' /\ CrossOK'
  BY <1>1, <1>3, <1>4, HungName DEF Rest
<1>6. Grows /\ PinnedNext(docOf[c], DocAt(x))
  BY <1>1, <1>2, RetainGrows, RetainPins
<1>7. route[c] = "native" => home[c] = docOf[c]
  BY <1>1 DEF Rest, RouteOK, NativePlace
<1>8. RouteOK'
  BY <1>1, <1>3, <1>4, <1>6, <1>7, HungRoute DEF Rest
<1> QED BY <1>5, <1>8 DEF Rest

LEMMA AddSiblingRest ==
  ASSUME TypeOK, MadeOK, Rest, Next, NEW s \in Nodes, NEW c \in Nodes, AddSibling(s, c)
  PROVE  Rest'
<1> DEFINE e == IF parent[s] = NULL THEN docOf[s] ELSE DocAt(parent[s])
<1>1. /\ Usable(c) /\ Anchor(s) /\ s \notin Below(c) /\ Calm /\ home[c] # NULL
      /\ retained' = RetainGraft(c, docOf[s]) /\ UNCHANGED move
      /\ crossed' = Crossing(c, s)
  BY DEF AddSibling, CanGraft, Call, Usable
<1>2. s \notin Docs /\ DocAt(s) = docOf[s] /\ home[s] # NULL
  BY <1>1, GraftAssumption DEF DocAt, Anchor, Usable
<1>3. /\ docOf[c] \in Docs /\ creator[docOf[c]] \in Threads
      /\ docOf[s] \in Docs /\ creator[docOf[s]] \in Threads
  BY <1>1, <1>2, UsableMade, AnchorMade
<1>4. Hung(c, s, parent[s], e, "graft")
  <2>1. parent[s] \notin Below(c) /\ parent[s] \in Nodes \cup Docs \cup {NULL}
    BY <1>1, BesideOut
  <2>2. docOf' = [docOf EXCEPT ![c] = e]
    BY DEF AddSibling, GraftRetagged
  <2> HIDE DEF e
  <2> QED BY <1>1, <2>1, <2>2, BelowSelf DEF AddSibling, Hung, TypeOK
<1>5. /\ SameSide(s, parent[s]) /\ NativeSide(s, parent[s], e)
      /\ s \notin crossed => creator[e] = creator[DocAt(s)]
  BY <1>1, <1>2, BesideSide DEF Rest
<1> HIDE DEF e
<1>6. NameOK' /\ CrossOK'
  BY <1>1, <1>4, <1>5, HungName DEF Rest
<1>7. Grows /\ PinnedNext(docOf[c], DocAt(s))
  BY <1>1, <1>2, <1>3, RetainGrows, RetainPins
<1>8. route[c] = "native" => home[c] = docOf[c]
  BY <1>1 DEF Rest, RouteOK, NativePlace
<1>9. RouteOK'
  BY <1>1, <1>4, <1>5, <1>7, <1>8, HungRoute DEF Rest
<1> QED BY <1>6, <1>9 DEF Rest

LEMMA ReplaceRest ==
  ASSUME TypeOK, MadeOK, Rest, Next, NEW old \in Nodes, NEW c \in Nodes, Replace(old, c),
         parent[old] # NULL
  PROVE  Rest'
<1> DEFINE e == IF parent[old] = NULL THEN docOf[old] ELSE DocAt(parent[old])
<1>1. /\ Usable(c) /\ Anchor(old) /\ old \notin Below(c) /\ Calm /\ home[c] # NULL
      /\ retained' = RetainGraft(c, docOf[old]) /\ UNCHANGED move
      /\ crossed' = Crossing(c, old)
  BY DEF Replace, CanGraft, Call, Usable
<1>2. /\ old \notin Docs /\ DocAt(old) = docOf[old] /\ home[old] # NULL
      /\ old # c
  BY <1>1, GraftAssumption, BelowSelf DEF DocAt, Anchor, Usable
<1>3. /\ docOf[c] \in Docs /\ creator[docOf[c]] \in Threads
      /\ docOf[old] \in Docs /\ creator[docOf[old]] \in Threads
  BY <1>1, <1>2, UsableMade, AnchorMade
<1>4. Hung(c, old, parent[old], e, "graft")
  <2>1. parent[old] \notin Below(c) /\ parent[old] \in Nodes \cup Docs \cup {NULL}
    BY <1>1, BesideOut
  <2>2. docOf' = [docOf EXCEPT ![c] = e]
    BY DEF Replace, GraftRetagged
  <2>3. parent' = [parent EXCEPT ![c] = parent[old], ![old] = NULL]
    BY DEF Replace
  <2>4. /\ parent'[c] = parent[old]
        /\ \A n \in Nodes : n # c => parent'[n] \in {parent[n], NULL}
    BY <1>2, <2>3 DEF TypeOK
  <2> HIDE DEF e
  <2> QED BY <1>1, <2>1, <2>2, <2>4, BelowSelf DEF Replace, Hung, TypeOK
<1>5. /\ SameSide(old, parent[old]) /\ NativeSide(old, parent[old], e)
      /\ old \notin crossed => creator[e] = creator[DocAt(old)]
  BY <1>1, <1>2, BesideSide DEF Rest
<1> HIDE DEF e
<1>6. NameOK' /\ CrossOK'
  BY <1>1, <1>4, <1>5, HungName DEF Rest
<1>7. Grows /\ PinnedNext(docOf[c], DocAt(old))
  BY <1>1, <1>2, <1>3, RetainGrows, RetainPins
<1>8. route[c] = "native" => home[c] = docOf[c]
  BY <1>1 DEF Rest, RouteOK, NativePlace
<1>9. RouteOK'
  BY <1>1, <1>4, <1>5, <1>7, <1>8, HungRoute DEF Rest
<1> QED BY <1>6, <1>9 DEF Rest

LEMMA SetRootRest ==
  ASSUME TypeOK, MadeOK, Rest, Next, NEW d \in Docs, NEW r \in Nodes, SetRoot(d, r)
  PROVE  Rest'
<1>1. /\ Usable(r) /\ Anchor(d) /\ Calm /\ home[r] # NULL /\ d \notin Nodes /\ DocAt(d) = d
      /\ UNCHANGED <<retained, move, home, nameIn, creator>>
      /\ crossed' = Crossing(r, d) /\ route' = Rerouted(r, d, "root")
  BY GraftAssumption DEF SetRoot, Call, Usable, Anchor, DocAt
<1>2. Hung(r, d, d, d, "root")
  <2>1. /\ parent' = [n \in Nodes |-> IF n = r THEN d
                                      ELSE IF parent[n] = d THEN NULL ELSE parent[n]]
        /\ docOf' = [n \in Nodes |-> IF n \in Below(r) THEN d ELSE docOf[n]]
    BY DEF SetRoot, StampTree
  <2>2. d \notin Below(r)
    BY <1>1 DEF Below
  <2> QED BY <1>1, <2>1, <2>2 DEF Hung
<1>3. SameSide(d, d) /\ NativeSide(d, d, DocAt(d))
  BY <1>1, OnSide DEF Rest
<1>4. NameOK' /\ CrossOK'
  BY <1>1, <1>2, <1>3, HungName DEF Rest
<1>5. Grows
  BY <1>1 DEF Grows
<1>6. RouteOK'
  BY <1>1, <1>2, <1>3, <1>5, HungRoute DEF Rest
<1> QED BY <1>4, <1>6 DEF Rest

LEMMA MoveBeginRest ==
  ASSUME TypeOK, MadeOK, Rest, Next, NEW t \in Threads, NEW x \in Docs \cup Nodes, NEW c \in Nodes,
         MoveBegin(t, x, c)
  PROVE  Rest'
<1>1. /\ Usable(c) /\ Anchor(x) /\ x \notin Below(c) /\ Calm /\ home[c] # NULL
      /\ parent' = [parent EXCEPT ![c] = x] /\ crossed' = JoinsCrossed(c, x)
      /\ UNCHANGED <<retained, home, nameIn, creator, freed>>
      /\ route' = Rerouted(c, x, "graft") /\ stash' = Stashed(t, c)
  BY DEF MoveBegin, CanGraft, Call, Usable
<1>2. /\ docOf[c] \in Docs /\ creator[docOf[c]] \in Threads /\ DocLive(docOf[c])
      /\ DocAt(x) \in Docs /\ creator[DocAt(x)] \in Threads
  BY <1>1, UsableMade, AnchorMade
<1>3. Hung(c, x, x, DocAt(x), "graft")
  <2>1. docOf' = docOf \/ docOf' = [n \in Nodes |-> IF n \in Below(c) THEN DocAt(x) ELSE docOf[n]]
    BY DEF MoveBegin, StampTree
  <2> QED BY <1>1, <2>1 DEF Hung, TypeOK
<1>4. SameSide(x, x) /\ NativeSide(x, x, DocAt(x))
  BY <1>1, OnSide DEF Rest
<1>5. Grows /\ (route[c] = "native" => home[c] = docOf[c] /\ nameIn[c] = creator[docOf[c]])
  BY <1>1 DEF Grows, Rest, RouteOK, NativePlace
<1>6. CASE creator[docOf[c]] = creator[DocAt(x)]
  <2>1. UNCHANGED move /\ crossed' = Crossing(c, x)
    BY <1>1, <1>6 DEF MoveBegin, Crossing
  <2>2. NameOK' /\ CrossOK'
    BY <1>1, <1>3, <1>4, <2>1, HungName DEF Rest
  <2>3. PinnedNext(docOf[c], DocAt(x))
    BY <1>1, <1>6 DEF PinnedNext
  <2>4. RouteOK'
    BY <1>1, <1>3, <1>4, <1>5, <2>3, HungRoute DEF Rest
  <2> QED BY <2>2, <2>4 DEF Rest
<1>7. CASE creator[docOf[c]] # creator[DocAt(x)]
  <2>1. /\ move' = [pc |-> "owns", thread |-> t, from |-> creator[docOf[c]], to |-> DocAt(x),
                    node |-> c, todo |-> Below(c)]
        /\ UNCHANGED docOf
    BY <1>7 DEF MoveBegin
  <2>2. /\ move' # NoMove /\ move'.thread = t /\ move'.to = DocAt(x) /\ move'.node = c
        /\ move'.from = creator[docOf[c]] /\ move'.todo = Below(c)
    <3>1. move'.pc # NoMove.pc
      BY <2>1 DEF NoMove
    <3> QED BY <2>1, <3>1
  <2>3. stash'[t] = docOf[c]
    BY <1>1 DEF Stashed, TypeOK
  <2>4. route[c] = "native" => PinnedNext(home[c], DocAt(x))
    BY <1>1, <1>2, <1>5, <2>2, <2>3, BelowSelf DEF PinnedNext, PinPendingNext, DocLive
  <2>5. RouteOK'
    BY <1>1, <1>3, <1>4, <1>5, <2>4, HungRoute DEF Rest
  <2>6. /\ \A n : Destined(n) = creator[docOf[n]]
        /\ \A n : Destined(n)' = IF n \in Below(c) THEN creator[DocAt(x)] ELSE creator[docOf[n]]
        /\ \A n : ~ Unvisited(n) /\ (Unvisited(n)' <=> n \in Below(c))
    BY <1>1, <2>1, <2>2 DEF Destined, Unvisited, Calm
  <2>7. \A n \in Below(c) : n \notin crossed => creator[docOf[n]] = creator[docOf[c]]
    <3>1. ASSUME NEW n \in Below(c), n \notin crossed PROVE Destined(n) = Destined(c)
      BY <3>1, SameDict, GraftAssumption DEF Rest
    <3> QED BY <2>6, <3>1
  <2>8. \A n \in Nodes : n \notin crossed' => n \notin crossed /\ (n \in Below(c) => x \notin crossed)
    BY <1>1 DEF JoinsCrossed
  <2>9. NameOK'
    BY <1>1, <2>1, <2>2, <2>6, <2>7, <2>8 DEF Rest, NameOK
  <2>10. x \in Nodes \ crossed => crossed' = crossed
    BY <1>1 DEF JoinsCrossed
  <2>11. ASSUME NEW n \in Nodes, n \notin crossed'
         PROVE  /\ parent'[n] \in Nodes => /\ parent'[n] \notin crossed'
                                           /\ \A m : m = parent'[n] => Destined(m)' = Destined(n)'
                /\ parent'[n] \in Docs => Destined(n)' = creator[parent'[n]]
    <3>1. CASE n = c
      BY <1>1, <2>6, <2>8, <2>11, <3>1, BelowSelf, GraftAssumption DEF DocAt, JoinsCrossed, TypeOK
    <3>2. CASE n # c /\ n \in Below(c)
      <4>1. parent'[n] = parent[n] /\ parent[n] \in Below(c)
        BY <1>1, <3>2, BelowUp, BelowSelf DEF TypeOK
      <4>2. parent[n] \in Nodes /\ parent[n] \notin Docs
        BY <4>1, GraftAssumption DEF Below
      <4>3. parent[n] \notin crossed'
        BY <1>1, <2>8, <2>11, <3>2, <4>2 DEF Rest, CrossOK, JoinsCrossed
      <4> QED BY <2>6, <3>2, <4>1, <4>2, <4>3
    <3>3. CASE n \notin Below(c)
      <4>1. parent'[n] = parent[n] /\ parent[n] \notin Below(c)
        BY <1>1, <3>3, BelowSelf, BelowDown DEF TypeOK
      <4>2. n \notin crossed
        BY <2>8, <2>11
      <4>3. parent[n] \in Nodes => parent[n] \notin crossed'
        BY <1>1, <4>1, <4>2 DEF Rest, CrossOK, JoinsCrossed
      <4> QED BY <2>6, <3>3, <4>1, <4>2, <4>3 DEF Rest, CrossOK
    <3> QED BY <3>1, <3>2, <3>3
  <2>12. CrossOK'
    BY <1>1, <2>11 DEF CrossOK, Destined, Unvisited, Calm
  <2> QED BY <2>5, <2>9, <2>12 DEF Rest
<1> QED BY <1>6, <1>7

LEMMA NewNodeRest ==
  ASSUME TypeOK, MadeOK, Rest, Next, NEW d \in Docs, NEW n \in Nodes, NewNode(d, n)
  PROVE  Rest'
<1>1. /\ Calm /\ home[n] = NULL /\ creator[d] \in Threads /\ creator[d] # NULL
      /\ home' = [home EXCEPT ![n] = d] /\ nameIn' = [nameIn EXCEPT ![n] = creator[d]]
      /\ docOf' = [docOf EXCEPT ![n] = d]
      /\ UNCHANGED <<creator, freed, retained, parent, move, route, crossed>>
  BY DEF NewNode, threadVars, DocLive, TypeOK
<1>2. parent[n] = NULL /\ \A m \in Nodes : parent[m] # n
  BY <1>1, GraftAssumption DEF MadeOK
<1>3. NULL \notin Nodes \cup Docs /\ Nodes \cap Docs = {} /\ Grows /\ PinsKept
  BY <1>1, CalmPins, GraftAssumption DEF Grows
<1>4. NameOK' /\ CrossOK'
  BY <1>1, <1>2, <1>3
     DEF Rest, NameOK, CrossOK, Destined, Unvisited, Calm, TypeOK
<1>5. \A m \in Nodes : m # n => /\ home'[m] = home[m] /\ docOf'[m] = docOf[m]
                                /\ nameIn'[m] = nameIn[m]
  BY <1>1 DEF TypeOK
<1>6. ASSUME NEW m \in Nodes, home'[m] # NULL, route[m] = "native" PROVE NativePlace(m)'
  <2>1. CASE m = n
    BY <1>1, <1>2, <1>3, <2>1 DEF NativePlace, TypeOK
  <2>2. CASE m # n
    <3>1. NativePlace(m)
      BY <1>5, <1>6, <2>2 DEF Rest, RouteOK
    <3> QED BY <1>1, <1>2, <1>5, <2>2, <3>1 DEF NativePlace
  <2> QED BY <2>1, <2>2
<1>7. ASSUME NEW m \in Nodes, home'[m] # NULL, route[m] = "first" PROVE FirstPlace(m)'
  <2>1. CASE m = n
    BY <1>1, <1>2, <1>3, <2>1 DEF FirstPlace
  <2>2. CASE m # n
    <3>1. FirstPlace(m)
      BY <1>5, <1>7, <2>2 DEF Rest, RouteOK
    <3> QED BY <1>1, <1>2, <1>5, <2>2, <3>1
            DEF FirstPlace, Pinned, PinPending, Calm
  <2> QED BY <2>1, <2>2
<1> QED BY <1>1, <1>4, <1>6, <1>7 DEF Rest, RouteOK

(* The visit of a node changes where no name is to be.                     *)
LEMMA VisitedRest ==
  ASSUME TypeOK, MadeOK, MoveOK, Rest, Next, ~ Calm, NEW n \in Nodes, n \in move.todo, Visited(n),
         UNCHANGED <<creator, home, parent, route, crossed>>, Grows, PinsKept,
         \A m \in Nodes : m # n => nameIn'[m] = nameIn[m],
         n \notin crossed => nameIn'[n] = creator[move.to]
  PROVE  Rest'
<1>1. /\ docOf' = [docOf EXCEPT ![n] = move.to] /\ move.to \in Docs
      /\ \A m \in Nodes : m # n => docOf'[m] = docOf[m]
      /\ docOf'[n] = move.to
  BY VisitedMove DEF TypeOK
<1>2. /\ \A m : Unvisited(m)' <=> (Unvisited(m) /\ m # n)
      /\ \A m : Unvisited(m)' => move'.to = move.to /\ move'.from = move.from
  BY VisitedMove DEF Unvisited, Calm
<1>3. \A m \in Nodes : Destined(m)' = Destined(m)
  BY <1>1, <1>2 DEF Destined, Unvisited
<1>4. NameOK'
  BY <1>1, <1>2 DEF Rest, NameOK
<1>5. ASSUME NEW m \in Nodes, m \notin crossed'
      PROVE  /\ parent'[m] \in Nodes => /\ parent'[m] \notin crossed'
                                        /\ \A k : k = parent'[m] => Destined(k)' = Destined(m)'
             /\ parent'[m] \in Docs => Destined(m)' = creator'[parent'[m]]
  BY <1>3, <1>5 DEF Rest, CrossOK
<1>6. CrossOK'
  BY <1>5 DEF CrossOK, Destined, Unvisited, Calm
<1>7. home[n] # NULL /\ route[n] # "native"
  BY DEF MoveOK
<1>8. ASSUME NEW m \in Nodes, home'[m] # NULL, route'[m] = "native" PROVE NativePlace(m)'
  <2>1. m # n /\ NativePlace(m)
    BY <1>7, <1>8 DEF Rest, RouteOK
  <2> QED BY <1>1, <1>8, <2>1, NativeKept
<1>9. ASSUME NEW m \in Nodes, home'[m] # NULL, route'[m] = "first" PROVE FirstPlace(m)'
  <2>1. FirstPlace(m)
    BY <1>9 DEF Rest, RouteOK
  <2> QED BY <1>9, <2>1, FirstKept
<1> QED BY <1>4, <1>6, <1>8, <1>9 DEF Rest, RouteOK

LEMMA MoveOwnsRest ==
  ASSUME TypeOK, MadeOK, MoveOK, Rest, Next, NEW n \in Nodes, MoveOwns(n)
  PROVE  Rest'
<1> DEFINE M == [pc : {"owns", "lookup"}, thread : Threads, from : Threads, to : Docs,
                 node : Nodes, todo : SUBSET Nodes]
<1>1. ~ Calm /\ move \in M
  BY DEF MoveOwns, Calm, NoMove, Moves, TypeOK
<1>2. /\ UNCHANGED <<creator, freed, stash, retained, home, nameIn, parent, route, crossed>>
      /\ n \in move.todo /\ (move.node \in move.todo => n = move.node)
  BY DEF MoveOwns
<1>3. Grows
  BY <1>2 DEF Grows
<1>4. CASE nameIn[n] = move.from
  <2>1. move' = [move EXCEPT !.pc = "lookup", !.node = n] /\ UNCHANGED docOf
    BY <1>4 DEF MoveOwns
  <2>2. /\ move'.thread = move.thread /\ move'.from = move.from /\ move'.to = move.to
        /\ move'.todo = move.todo /\ move'.node = n /\ move'.pc = "lookup"
    BY <1>1, <2>1
  <2>3. move' # NoMove
    BY <2>2 DEF NoMove
  <2>4. PinsKept
    BY <1>2, <1>4, <2>2, <2>3 DEF PinsKept, PinPending, PinPendingNext, DocLive
  <2>5. Detaches
    BY <1>2, <2>1 DEF Detaches
  <2>6. RouteOK'
    BY <1>2, <1>3, <2>4, <2>5, DetachRoute DEF Rest
  <2>7. \A m : Destined(m)' = Destined(m) /\ (Unvisited(m)' <=> Unvisited(m))
    BY <1>1, <1>2, <2>1, <2>2, <2>3 DEF Destined, Unvisited, Calm
  <2>8. NameOK'
    BY <1>2, <2>1, <2>2, <2>7 DEF Rest, NameOK
  <2>9. CrossOK'
    <3>1. ASSUME NEW m \in Nodes, m \notin crossed'
          PROVE  /\ parent'[m] \in Nodes => /\ parent'[m] \notin crossed'
                                            /\ \A k : k = parent'[m] => Destined(k)' = Destined(m)'
                 /\ parent'[m] \in Docs => Destined(m)' = creator'[parent'[m]]
      BY <1>2, <2>7, <3>1 DEF Rest, CrossOK
    <3> QED BY <3>1 DEF CrossOK, Destined, Unvisited, Calm
  <2> QED BY <2>6, <2>8, <2>9 DEF Rest
<1>5. CASE nameIn[n] # move.from
  <2>1. Visited(n)
    BY <1>5 DEF MoveOwns
  <2>2. PinsKept
    BY <1>2, <1>5 DEF PinsKept, PinPending
  <2>3. n \in crossed
    BY <1>1, <1>2, <1>5 DEF Rest, NameOK, MoveOK, Unvisited
  <2> QED BY <1>1, <1>2, <1>3, <2>1, <2>2, <2>3, VisitedRest
<1> QED BY <1>4, <1>5

LEMMA MoveLookupRest ==
  ASSUME TypeOK, MadeOK, MoveOK, Rest, Next, MoveLookup
  PROVE  Rest'
<1> DEFINE M == [pc : {"owns", "lookup"}, thread : Threads, from : Threads, to : Docs,
                 node : Nodes, todo : SUBSET Nodes]
           n == move.node
           dict == creator[move.to]
<1>1. ~ Calm /\ move \in M /\ move.pc = "lookup"
  BY DEF MoveLookup, Calm, NoMove, Moves, TypeOK
<1>2. /\ n \in Nodes /\ move.to \in Docs /\ move.thread \in Threads /\ move.from \in Threads
  BY <1>1
<1>3. /\ dict \in Threads /\ dict # move.from /\ n \in move.todo /\ nameIn[n] = move.from
      /\ rehome[move.thread] = <<move.from, n>>
  BY <1>1, <1>2 DEF MoveOK, DocLive, TypeOK
<1>4. /\ retained' = LookupPin(move.thread, n, dict) /\ nameIn' = [nameIn EXCEPT ![n] = dict]
      /\ Visited(n) /\ UNCHANGED <<creator, home, parent, route, crossed>>
  BY DEF MoveLookup, Rehomed
<1>5. Grows
  BY <1>4, PinGrows
<1>6. ASSUME NEW h \in Docs, NEW e \in Docs, PinPending(h, e) PROVE h \in retained'[creator[e]]
  <2>1. e = move.to /\ stash[move.thread] = h /\ h # NULL
    BY <1>6, GraftAssumption DEF PinPending
  <2>2. <<move.from, n>> \in Threads \X Nodes
    BY <1>2
  <2>3. rehome[move.thread] # NULL
    BY <1>3, <2>2, GraftAssumption
  <2>4. retained' = [retained EXCEPT ![dict] = @ \cup {h}]
    BY <1>3, <1>4, <2>1, <2>3 DEF LookupPin
  <2> QED BY <1>3, <2>1, <2>4 DEF TypeOK
<1>7. PinsKept
  BY <1>6 DEF PinsKept
<1>8. nameIn'[n] = dict /\ \A m \in Nodes : m # n => nameIn'[m] = nameIn[m]
  BY <1>2, <1>4 DEF TypeOK
<1> QED BY <1>1, <1>2, <1>3, <1>4, <1>5, <1>7, <1>8, VisitedRest

-----------------------------------------------------------------------------
(* The invariant, and what it says.                                        *)

LEMMA StepRest == ASSUME TypeOK, MadeOK, MoveOK, Rest, Next PROVE Rest'
<1>1. CASE Frames
  BY <1>1, FramesFrame, DetachRoute, DetachName DEF Rest
<1> QED BY <1>1, NewNodeRest, AddChildRest, AddSiblingRest, ReplaceRest, SetRootRest, MoveBeginRest,
           MoveOwnsRest, MoveLookupRest
        DEF Next, Frames

LEMMA GInvariance == Spec => []GInv
<1>1. GInv /\ [Next]_vars => GInv'
  <2>1. ASSUME GInv, Next PROVE GInv'
    <3>1. TypeOK /\ MadeOK /\ KeepOK /\ MoveOK /\ Rest
      BY <2>1 DEF GInv, Rest
    <3>2. TypeOK' /\ MadeOK' /\ KeepOK' /\ MoveOK' /\ Rest'
      BY <2>1, <3>1, StepType, StepMade, StepKeep, StepMove, StepRest
    <3> QED BY <3>2 DEF GInv, Rest
  <2>2. ASSUME GInv, UNCHANGED vars PROVE GInv'
    BY <2>2 DEF vars, GInv, TypeOK, MadeOK, KeepOK, MoveOK, NameOK, CrossOK, RouteOK, NativePlace,
                FirstPlace, Pinned, PinPending, Destined, Unvisited, Calm, DocLive
  <2> QED BY <2>1, <2>2
<1> QED BY <1>1, InitAll, PTL DEF Spec

(* Whatever a live document can reach, and that was grafted at most once,  *)
(* lies in live memory, for any number of threads, documents and nodes and *)
(* any depth of the trees (mutate.rs retain_graft_arena, dict.rs).         *)
THEOREM GraftsLive == Spec => []GraftedOnceLives
<1>1. ASSUME GInv, NEW d \in Docs, DocLive(d), NEW n \in Below(d), route[n] \in {"native", "first"}
      PROVE  ArenaLive(home[n]) \/ (creator[home[n]] = creator[d] /\ creator[d] \notin running)
  <2> USE DEF GInv
  <2> DEFINE Good(m) == /\ home[m] # NULL
                        /\ route[m] = "native" => home[m] = d
                        /\ route[m] = "first" => Pinned(home[m], d)
             S == {d} \cup {m \in Nodes : Good(m)}
  <2>0. d \notin Nodes /\ creator[d] \in Threads
    BY <1>1, GraftAssumption DEF DocLive, TypeOK
  <2>1. ASSUME NEW m \in Nodes, parent[m] \in S PROVE m \in S
    <3>1. home[m] # NULL
      BY <2>1, <1>1, GraftAssumption DEF MadeOK
    <3>2. /\ route[m] = "native" => NativePlace(m)
          /\ route[m] = "first" => FirstPlace(m)
      BY <1>1, <3>1 DEF RouteOK
    <3>3. CASE parent[m] = d
      BY <3>1, <3>2, <3>3 DEF NativePlace, FirstPlace
    <3>4. CASE parent[m] \in Nodes /\ Good(parent[m])
      BY <3>1, <3>2, <3>4 DEF NativePlace, FirstPlace
    <3> QED BY <2>1, <3>3, <3>4
  <2>2. n \in S
    <3>1. d \in S
      OBVIOUS
    <3> HIDE DEF S
    <3> QED BY <2>1, <3>1, BelowClosed
  <2>3. n \in Nodes /\ home[n] \in Docs
    BY <1>1, <2>0, <2>2 DEF Below, TypeOK
  <2>4. home[n] = d \/ Pinned(home[n], d)
    BY <1>1, <2>0, <2>2, <2>3
  <2>5. CASE home[n] = d
    BY <1>1, <2>5 DEF ArenaLive, ArenaHolders
  <2>6. CASE creator[home[n]] = creator[d] /\ creator[d] \in running
    <3>1. home[n] \in keep[creator[d]]
      BY <1>1, <2>3, <2>6 DEF KeepOK
    <3> QED BY <2>6, <3>1 DEF ArenaLive, ArenaHolders
  <2>7. CASE home[n] \in retained[creator[d]]
    <3>1. d \in DictHolders(creator[d])
      BY <1>1 DEF DictHolders
    <3> QED BY <2>0, <2>7, <3>1 DEF ArenaLive, ArenaHolders, DictLive
  <2>8. CASE PinPending(home[n], d)
    BY <2>8 DEF PinPending, ArenaLive, ArenaHolders
  <2> QED BY <2>4, <2>5, <2>6, <2>7, <2>8 DEF Pinned
<1>2. GInv => GraftedOnceLives
  BY <1>1 DEF GraftedOnceLives, Reach, GInv
<1> QED BY <1>2, GInvariance, PTL

(* The names of what did not cross dictionaries by an API call lie in a    *)
(* live dictionary: lxml's move re-interns the names of the whole subtree  *)
(* (dict.rs xmlDictOwns and xmlDictLookup).                                *)
THEOREM NamesStayLive == Spec => []NamesLive
<1>1. ASSUME GInv, NEW d \in Docs, DocLive(d), NEW n \in Below(d), n \notin crossed
      PROVE  DictLive(nameIn[n])
  <2> USE DEF GInv
  <2>0. d \notin Nodes
    BY GraftAssumption
  <2>1. Destined(n) = creator[d]
    BY <1>1, <2>0, SameDict
  <2>2. n \in Nodes /\ home[n] # NULL
    <3>1. n \in Nodes
      BY <2>0, <1>1, BelowUp DEF Below
    <3>2. parent[n] \in Below(d) \cup {d}
      BY <2>0, <3>1, BelowUp
    <3>3. parent[n] # NULL
      BY <3>2, GraftAssumption DEF Below
    <3> QED BY <1>1, <3>1, <3>3 DEF MadeOK
  <2>3. CASE Unvisited(n)
    <3>1. nameIn[n] = move.from
      BY <1>1, <2>2, <2>3 DEF NameOK
    <3>2. PICK e \in Docs : DocLive(e) /\ creator[e] = move.from
      BY <1>1, <2>3 DEF MoveOK, Unvisited
    <3> QED BY <3>1, <3>2 DEF DictLive, DictHolders
  <2>4. CASE ~ Unvisited(n)
    <3>1. nameIn[n] = creator[d]
      BY <1>1, <2>1, <2>2, <2>4 DEF NameOK, Destined
    <3> QED BY <1>1, <3>1 DEF DictLive, DictHolders
  <2> QED BY <2>3, <2>4
<1>2. GInv => NamesLive
  BY <1>1 DEF NamesLive, Reach
<1> QED BY <1>2, GInvariance, PTL

(* What holds an arena after a step held it before, but for the new clones *)
(* listed: the live document of a pin or of a stash, or a slot.            *)
LEMMA HoldersOld ==
  ASSUME TypeOK, Next, NEW a \in Docs, creator[a] # NULL, ArenaLive(a)'
  PROVE  \/ ArenaLive(a)
         \/ \E t \in running : a \in keep'[t] \ keep[t]
         \/ \E t \in running : stash'[t] = a /\ stash[t] # a
         \/ \E t \in Threads : a \in retained'[t] \ retained[t]
<1>1. /\ running' \subseteq running /\ freed \subseteq freed'
      /\ \A d \in Docs : creator'[d] # creator[d] => creator'[d] \in running
      /\ \A d \in Docs : creator[d] # NULL => creator'[d] = creator[d]
  <2>1. \A d \in Docs : creator[d] # NULL => creator'[d] = creator[d]
    BY CreatorFixed
  <2>2. ASSUME NEW t \in Threads, NEW d \in Docs, NewDoc(t, d)
        PROVE  /\ UNCHANGED <<running, freed>>
               /\ \A e \in Docs : creator'[e] # creator[e] => creator'[e] \in running
    BY <2>2 DEF NewDoc, TypeOK
  <2>3. CASE UNCHANGED <<running, creator, freed>>
    BY <2>1, <2>3
  <2>4. CASE \/ \E d \in Docs : FreeDoc(d)
             \/ \E t \in Threads : Exit(t)
    BY <2>1, <2>4 DEF FreeDoc, Exit
  <2> QED BY <2>1, <2>2, <2>3, <2>4
          DEF Next, NewNode, AddChild, AddSibling, Replace, SetRoot, Unlink, MoveBegin, MoveOwns,
              MoveLookup, PlainOwns, PlainLookup, treeVars, threadVars
<1>2. DocLive(a)' => DocLive(a)
  BY <1>1 DEF DocLive
<1>3. ASSUME NEW t \in Threads, DictLive(t)' PROVE DictLive(t)
  <2>1. CASE t \in running'
    BY <1>1, <2>1 DEF DictLive, DictHolders
  <2>2. CASE \E d \in Docs : creator'[d] = t /\ DocLive(d)'
    <3>1. PICK d \in Docs : creator'[d] = t /\ DocLive(d)'
      BY <2>2
    <3>2. CASE creator[d] = t
      <4>1. DocLive(d)
        BY <1>1, <3>1, <3>2 DEF DocLive
      <4> QED BY <3>2, <4>1 DEF DictLive, DictHolders
    <3>3. CASE creator[d] # t
      BY <1>1, <3>1, <3>3 DEF DictLive, DictHolders
    <3> QED BY <3>2, <3>3
  <2> QED BY <1>3, <2>1, <2>2 DEF DictLive, DictHolders
<1>4. CASE DocLive(a)'
  BY <1>2, <1>4 DEF ArenaLive, ArenaHolders
<1>5. CASE \E t \in running' : a \in keep'[t] \/ stash'[t] = a
  BY <1>1, <1>5 DEF ArenaLive, ArenaHolders
<1>6. CASE \E t \in Threads : DictLive(t)' /\ a \in retained'[t]
  BY <1>3, <1>6 DEF ArenaLive, ArenaHolders
<1> QED BY <1>4, <1>5, <1>6 DEF ArenaLive, ArenaHolders

(* A pin at a lookup is for an arena the slot of a running thread holds.   *)
LEMMA PinIsHeld ==
  ASSUME TypeOK, NEW t \in running, NEW n, NEW dict, retained' = LookupPin(t, n, dict),
         NEW a \in Docs, NEW u \in Threads, a \in retained'[u] \ retained[u]
  PROVE  ArenaLive(a)
<1>1. stash[t] = a
  BY DEF LookupPin, TypeOK
<1> QED BY <1>1 DEF ArenaLive, ArenaHolders

LEMMA GraftIsHeld ==
  ASSUME TypeOK, NEW c, NEW dst, docOf[c] \in Docs, DocLive(docOf[c]),
         retained' = RetainGraft(c, dst),
         NEW a \in Docs, NEW u \in Threads, a \in retained'[u] \ retained[u]
  PROVE  ArenaLive(a)
<1>1. docOf[c] = a
  BY DEF RetainGraft, TypeOK
<1> QED BY <1>1 DEF ArenaLive, ArenaHolders

(* Memory that was given back stays so: every new clone of an arena is     *)
(* made from one that exists.                                              *)
THEOREM FreedIsFreed == Spec => NeverRevived
<1>1. ASSUME TypeOK, MadeOK, MoveOK, Next, NEW a \in Docs, creator[a] # NULL, ArenaLive(a)'
      PROVE  ArenaLive(a)
  <2>1. CASE \E t \in running : a \in keep'[t] \ keep[t]
    <3>1. \E t \in Threads, d \in Docs : NewDoc(t, d)
      BY <1>1, <2>1
         DEF Next, NewNode, AddChild, AddSibling, Replace, SetRoot, Unlink, MoveBegin, MoveOwns,
             MoveLookup, PlainOwns, PlainLookup, FreeDoc, Exit, threadVars, TypeOK
    <3>2. PICK t \in Threads, d \in Docs : NewDoc(t, d)
      BY <3>1
    <3>3. d # a /\ keep' = [keep EXCEPT ![t] = @ \cup {d}]
      BY <1>1, <3>2 DEF NewDoc, KeepAlive
    <3> QED BY <1>1, <2>1, <3>3 DEF TypeOK
  <2>2. CASE \E t \in running : stash'[t] = a /\ stash[t] # a
    <3>1. ASSUME NEW t \in Threads, NEW n \in Nodes, Usable(n), stash' = Stashed(t, n)
          PROVE  ArenaLive(a)
      <4>1. docOf[n] = a
        BY <1>1, <2>2, <3>1 DEF Stashed, TypeOK
      <4> QED BY <3>1, <4>1 DEF Usable, ArenaLive, ArenaHolders
    <3>2. \E t \in Threads, n \in Nodes : Usable(n) /\ stash' = Stashed(t, n)
      <4>1. ASSUME NEW t \in Threads, stash' = [stash EXCEPT ![t] = NULL] PROVE FALSE
        BY <1>1, <2>2, <4>1, GraftAssumption DEF TypeOK
      <4>2. stash' # stash
        BY <2>2
      <4>3. CASE \/ \E t \in Threads, n \in Nodes : Unlink(t, n)
                 \/ \E t \in Threads, x \in Docs \cup Nodes, c \in Nodes : MoveBegin(t, x, c)
        BY <4>3 DEF Unlink, MoveBegin, CanGraft
      <4>4. CASE MoveLookup
        <5>1. move.thread \in Threads /\ stash' = [stash EXCEPT ![move.thread] = NULL]
          BY <1>1, <4>4 DEF MoveLookup, MoveOK, Calm, NoMove, TypeOK
        <5> QED BY <4>1, <5>1
      <4>5. CASE \/ \E t, dict \in Threads, n \in Nodes : PlainLookup(t, dict, n)
                 \/ \E t \in Threads : Exit(t)
        BY <4>1, <4>5 DEF PlainLookup, Exit
      <4> QED BY <1>1, <4>2, <4>3, <4>4, <4>5
              DEF Next, NewDoc, NewNode, AddChild, AddSibling, Replace, SetRoot, MoveOwns,
                  PlainOwns, FreeDoc, threadVars
    <3> QED BY <3>1, <3>2
  <2>3. CASE \E u \in Threads : a \in retained'[u] \ retained[u]
    <3>1. PICK u \in Threads : a \in retained'[u] \ retained[u]
      BY <2>3
    <3>2. ASSUME NEW c \in Nodes, Usable(c), NEW dst, retained' = RetainGraft(c, dst)
          PROVE  ArenaLive(a)
      BY <1>1, <3>1, <3>2, UsableMade, GraftIsHeld
    <3>3. ASSUME NEW t \in running, NEW n, NEW dict, retained' = LookupPin(t, n, dict)
          PROVE  ArenaLive(a)
      BY <1>1, <3>1, <3>3, PinIsHeld
    <3>4. CASE \/ \E x \in Docs \cup Nodes, c \in Nodes : AddChild(x, c)
               \/ \E s \in Nodes, c \in Nodes : AddSibling(s, c)
               \/ \E old \in Nodes, c \in Nodes : Replace(old, c)
      BY <3>2, <3>4 DEF AddChild, AddSibling, Replace, CanGraft
    <3>5. CASE MoveLookup
      <4>1. move.thread \in running /\ retained' = LookupPin(move.thread, move.node, creator[move.to])
        BY <1>1, <3>5 DEF MoveLookup, MoveOK, Calm, NoMove
      <4> QED BY <3>3, <4>1
    <3>6. CASE \E t, dict \in Threads, n \in Nodes : PlainLookup(t, dict, n)
      BY <3>3, <3>6 DEF PlainLookup
    <3>7. retained' # retained
      BY <3>1
    <3> QED BY <1>1, <3>4, <3>5, <3>6, <3>7
            DEF Next, NewDoc, NewNode, SetRoot, Unlink, MoveBegin, MoveOwns, PlainOwns, FreeDoc,
                Exit, threadVars
  <2> QED BY <1>1, <2>1, <2>2, <2>3, HoldersOld
<1>2. GInv /\ [Next]_vars =>
        [\A a \in Docs : creator[a] # NULL /\ ~ ArenaLive(a) => ~ ArenaLive(a)']_vars
  BY <1>1 DEF GInv
<1> QED BY <1>2, GInvariance, PTL DEF Spec, NeverRevived
=============================================================================
