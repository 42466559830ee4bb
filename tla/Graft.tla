------------------------------- MODULE Graft -------------------------------
(***************************************************************************)
(* The lifetime of node memory in the libxml2-compatible layer             *)
(* (crates/compat/src/mutate.rs, dict.rs, parse.rs).                       *)
(*                                                                         *)
(* A node lies in the bump arena of the document it was made for, and its  *)
(* name in the dictionary of that document, which is the dictionary of the *)
(* thread that made the document.  Both are reference counted; a node that *)
(* moves to another document keeps its memory where it was.  So something  *)
(* must hold the origin arena for as long as the destination can reach the *)
(* node: the keep-alive list of the thread, or, when the move crosses      *)
(* threads, the dictionary of the destination.                             *)
(*                                                                         *)
(* A document and its arena have one name here (a member of Docs), and so  *)
(* have a thread and its dictionary.  The document can itself be the place *)
(* a node hangs below: XmlDoc is laid out as a Node.                       *)
(*                                                                         *)
(* Contract of the caller, as in lxml under the interpreter lock: one tree *)
(* operation at a time; it works on nodes of live documents, never hangs a *)
(* node below itself, and does not use what xmlFreeDoc took.  The exit of  *)
(* a thread and the birth of a document may fall anywhere, inside a move   *)
(* too: neither needs the lock.                                            *)
(*                                                                         *)
(* Definitions directly above an operator that carry its name and a suffix *)
(* are its mutated forms.  They occur in no specification.                 *)
(***************************************************************************)
EXTENDS Naturals, FiniteSets, TLC

CONSTANTS
  Threads, Docs, Nodes, NULL,
  MaxCalls   \* bound on the tree and dictionary calls of a behaviour

ASSUME GraftAssumption ==
  /\ MaxCalls \in Nat
  /\ NULL \notin Threads \cup Docs \cup Nodes \cup (Threads \X Nodes)
  /\ Threads \cap Docs = {} /\ Threads \cap Nodes = {} /\ Docs \cap Nodes = {}

VARIABLES
  running,   \* threads that have not exited
  creator,   \* per document, the thread whose dictionary it adopted, or NULL
  freed,     \* documents given to xmlFreeDoc
  keep,      \* per thread, the arenas of THREAD_ARENAS
  retained,  \* per dictionary, its retained_arenas
  stash,     \* per thread, PENDING_GRAFT_ARENA
  rehome,    \* per thread, PENDING_REINTERN: the dictionary and the node named
  home,      \* per node, the arena it was allocated in, or NULL
  nameIn,    \* per node, the dictionary that holds the bytes of its name
  docOf,     \* per node, its `doc' pointer
  parent,    \* per node, the node or document it hangs below, or NULL
  move,      \* the move by direct pointer writes lxml is in the middle of
  route,     \* how each node came to where it is (auxiliary)
  crossed,   \* nodes that API calls took to another dictionary, and what came
             \* to hang below or beside one (auxiliary)
  calls      \* calls made so far, for the bound (auxiliary)

threadVars == <<keep, stash, rehome>>
treeVars   == <<home, nameIn, docOf, parent, route, crossed>>
vars == <<running, creator, freed, keep, retained, stash, rehome, home, nameIn,
          docOf, parent, move, route, crossed, calls>>

NoMove == [pc |-> "none"]

Moves == {NoMove} \cup
  [pc : {"owns", "lookup"}, thread : Threads, from : Threads, to : Docs,
   node : Nodes, todo : SUBSET Nodes]

(* "native": never left its document; "first": grafted once, as part of a  *)
(* native subtree and below a native anchor; "root": came with a root that *)
(* xmlDocSetRootElement took from another document; "again": the rest.     *)
Routes == {"native", "first", "root", "again"}

TypeOK ==
  /\ running \subseteq Threads
  /\ creator \in [Docs -> Threads \cup {NULL}]
  /\ freed \subseteq Docs
  /\ keep \in [Threads -> SUBSET Docs]
  /\ retained \in [Threads -> SUBSET Docs]
  /\ stash \in [Threads -> Docs \cup {NULL}]
  /\ rehome \in [Threads -> (Threads \X Nodes) \cup {NULL}]
  /\ home \in [Nodes -> Docs \cup {NULL}]
  /\ nameIn \in [Nodes -> Threads \cup {NULL}]
  /\ docOf \in [Nodes -> Docs \cup {NULL}]
  /\ parent \in [Nodes -> Nodes \cup Docs \cup {NULL}]
  /\ move \in Moves
  /\ route \in [Nodes -> Routes]
  /\ crossed \subseteq Nodes
  /\ calls \in 0..MaxCalls

-----------------------------------------------------------------------------
(* What is allocated. *)

DocLive(d) == creator[d] # NULL /\ d \notin freed

(* Who holds a reference to the dictionary of t (counted exactly, by       *)
(* Dict!RefcountExact): the thread itself and the documents it made.       *)
DictHolders(t) ==
  (running \cap {t}) \cup {d \in Docs : creator[d] = t /\ DocLive(d)}

DictLive(t) == DictHolders(t) # {}

ArenaHoldersWeakStash(a) ==
  {d \in {a} : DocLive(d)}
    \cup {t \in running : a \in keep[t]}
    \cup {t \in Threads : DictLive(t) /\ a \in retained[t]}

(* Who holds a clone of the Arc of an arena: its document, the keep-alive  *)
(* list and the pending slot of a thread, a dictionary.                    *)
ArenaHolders(a) ==
  {d \in {a} : DocLive(d)}
    \cup {t \in running : a \in keep[t] \/ stash[t] = a}
    \cup {t \in Threads : DictLive(t) /\ a \in retained[t]}

ArenaLive(a) == ArenaHolders(a) # {}

(* x and everything that hangs below it. *)
Below(x) ==
  {n \in Nodes : \A S \in SUBSET (Nodes \cup {x}) :
     (/\ x \in S
      /\ \A m \in Nodes : parent[m] \in S => m \in S) => n \in S}

DocAt(x) == IF x \in Docs THEN x ELSE docOf[x]

(* What the caller may still touch: in a live document, or detached from   *)
(* any, with every pointer the operations follow intact.                   *)
Usable(n) ==
  /\ home[n] # NULL /\ ArenaLive(home[n]) /\ DictLive(nameIn[n])
  /\ DocLive(docOf[n])
  /\ \A d \in freed : n \notin Below(d)

Anchor(x) == IF x \in Docs THEN DocLive(x) ELSE Usable(x)

Calm == move = NoMove

Call == Calm /\ calls < MaxCalls /\ calls' = calls + 1

-----------------------------------------------------------------------------
Init ==
  /\ running = Threads
  /\ creator = [d \in Docs |-> NULL] /\ freed = {}
  /\ keep = [t \in Threads |-> {}] /\ retained = [t \in Threads |-> {}]
  /\ stash = [t \in Threads |-> NULL] /\ rehome = [t \in Threads |-> NULL]
  /\ home = [n \in Nodes |-> NULL] /\ nameIn = [n \in Nodes |-> NULL]
  /\ docOf = [n \in Nodes |-> NULL] /\ parent = [n \in Nodes |-> NULL]
  /\ move = NoMove
  /\ route = [n \in Nodes |-> "native"] /\ crossed = {}
  /\ calls = 0

(* new_doc_arena: a clone of the Arc stays in the thread until it exits.   *)
KeepAlive(t, d) == [keep EXCEPT ![t] = @ \cup {d}]

(* A thread parses or makes a document. *)
NewDoc(t, d) ==
  /\ t \in running /\ creator[d] = NULL
  /\ creator' = [creator EXCEPT ![d] = t]
  /\ keep' = KeepAlive(t, d)
  /\ UNCHANGED <<running, freed, retained, stash, rehome, treeVars, move,
                 calls>>

(* A node in the arena of d, its name in the dictionary of d; not linked.  *)
NewNode(d, n) ==
  /\ Calm /\ DocLive(d) /\ home[n] = NULL
  /\ home' = [home EXCEPT ![n] = d]
  /\ nameIn' = [nameIn EXCEPT ![n] = creator[d]]
  /\ docOf' = [docOf EXCEPT ![n] = d]
  /\ UNCHANGED <<running, creator, freed, threadVars, retained, parent, move,
                 route, crossed, calls>>

-----------------------------------------------------------------------------
(* Grafts.  c leaves the place it has and hangs below x, or beside it.     *)

RetainGraftNever(c, dst) == retained

(* The arena of the document c points at, onto the dictionary of dst. *)
RetainGraft(c, dst) ==
  LET src == docOf[c] IN
  IF src = dst \/ creator[src] = creator[dst] THEN retained
  ELSE [retained EXCEPT ![creator[dst]] = @ \cup {src}]

NativeAt(x) == x \in Docs \/ route[x] = "native"

Rerouted(c, x, r) ==
  IF route[c] = "native" /\ NativeAt(x) /\ docOf[c] = DocAt(x) THEN route
  ELSE [n \in Nodes |->
          IF n \notin Below(c) THEN route[n]
          ELSE IF r = "root" \/ route[n] = "root" THEN "root"
          ELSE IF route[n] = "native" /\ route[c] = "native" /\ NativeAt(x)
               THEN "first"
          ELSE "again"]

(* The `doc' of a node that crossed inside a subtree is not its document's, *)
(* so what hangs there crosses whatever the two `doc' pointers say.         *)
JoinsCrossed(c, x) == IF x \in crossed THEN crossed \cup Below(c) ELSE crossed

Crossing(c, x) ==
  IF creator[docOf[c]] = creator[DocAt(x)] THEN JoinsCrossed(c, x)
  ELSE crossed \cup Below(c)

CanGraft(c, x) == Call /\ Usable(c) /\ Anchor(x) /\ x \notin Below(c)

GraftRetagged(c, dst) == [docOf EXCEPT ![c] = dst]

(* xmlAddChild: detach, pin, append, retag the top node.                   *)
AddChild(x, c) ==
  /\ CanGraft(c, x)
  /\ retained' = RetainGraft(c, DocAt(x))
  /\ parent' = [parent EXCEPT ![c] = x]
  /\ docOf' = GraftRetagged(c, DocAt(x))
  /\ route' = Rerouted(c, x, "graft") /\ crossed' = Crossing(c, x)
  /\ UNCHANGED <<running, creator, freed, threadVars, home, nameIn, move>>

(* xmlAddNextSibling, xmlAddPrevSibling: c takes the parent and the `doc'  *)
(* of s; a node beside itself is a no-op.                                  *)
AddSibling(s, c) ==
  /\ CanGraft(c, s) /\ s \in Nodes
  /\ retained' = RetainGraft(c, docOf[s])
  /\ parent' = [parent EXCEPT ![c] = parent[s]]
  /\ docOf' = IF parent[s] = NULL THEN GraftRetagged(c, docOf[s])
              ELSE GraftRetagged(c, DocAt(parent[s]))
  /\ route' = Rerouted(c, s, "graft") /\ crossed' = Crossing(c, s)
  /\ UNCHANGED <<running, creator, freed, threadVars, home, nameIn, move>>

(* xmlReplaceNode: the arena is pinned for the document of `old'; c goes   *)
(* below the parent of `old'.  Without a parent there, c stays detached.   *)
Replace(old, c) ==
  /\ CanGraft(c, old) /\ old \in Nodes
  /\ retained' = RetainGraft(c, docOf[old])
  /\ IF parent[old] = NULL
     THEN /\ parent' = [parent EXCEPT ![c] = NULL]
          /\ UNCHANGED <<docOf, route, crossed>>
     ELSE /\ parent' = [parent EXCEPT ![c] = parent[old], ![old] = NULL]
          /\ docOf' = GraftRetagged(c, DocAt(parent[old]))
          /\ route' = Rerouted(c, old, "graft") /\ crossed' = Crossing(c, old)
  /\ UNCHANGED <<running, creator, freed, threadVars, home, nameIn, move>>

StampTree(r, d) == [n \in Nodes |-> IF n \in Below(r) THEN d ELSE docOf[n]]

(* xmlDocSetRootElement: every `doc' of the new tree is stamped, the old   *)
(* root is left detached, and no arena is pinned.                          *)
SetRoot(d, r) ==
  /\ Call /\ DocLive(d) /\ Usable(r) /\ parent[r] = NULL
  /\ parent' = [n \in Nodes |-> IF n = r THEN d
                                ELSE IF parent[n] = d THEN NULL ELSE parent[n]]
  /\ docOf' = StampTree(r, d)
  /\ route' = Rerouted(r, d, "root") /\ crossed' = Crossing(r, d)
  /\ UNCHANGED <<running, creator, freed, threadVars, retained, home, nameIn,
                 move>>

(* The arena of the document n points at, in PENDING_GRAFT_ARENA.          *)
Stashed(t, n) == [stash EXCEPT ![t] = docOf[n]]

(* xmlUnlinkNode *)
Unlink(t, n) ==
  /\ Call /\ t \in running /\ Usable(n)
  /\ stash' = Stashed(t, n)
  /\ parent' = [parent EXCEPT ![n] = NULL]
  /\ UNCHANGED <<running, creator, freed, keep, rehome, retained, home,
                 nameIn, docOf, move, route, crossed>>

-----------------------------------------------------------------------------
(* The move of lxml: xmlUnlinkNode, its own pointer writes, and then, node *)
(* by node from the top and only between different dictionaries,           *)
(* xmlDictOwns(source, name), which answers yes for a name of that         *)
(* dictionary, and xmlDictLookup(destination, name).                       *)

MoveBegin(t, x, c) ==
  /\ t \in running /\ CanGraft(c, x)
  /\ stash' = Stashed(t, c)
  /\ parent' = [parent EXCEPT ![c] = x]
  /\ route' = Rerouted(c, x, "graft") /\ crossed' = JoinsCrossed(c, x)
  /\ IF creator[docOf[c]] = creator[DocAt(x)]
     THEN docOf' = StampTree(c, DocAt(x)) /\ UNCHANGED move
     ELSE /\ move' = [pc |-> "owns", thread |-> t, from |-> creator[docOf[c]],
                      to |-> DocAt(x), node |-> c, todo |-> Below(c)]
          /\ UNCHANGED docOf
  /\ UNCHANGED <<running, creator, freed, keep, rehome, retained, home,
                 nameIn>>

Visited(n) ==
  LET left == move.todo \ {n} IN
  /\ docOf' = [docOf EXCEPT ![n] = move.to]
  /\ move' = IF left = {} THEN NoMove
             ELSE [move EXCEPT !.pc = "owns", !.todo = left]

(* xmlDictOwns(source, name of n) arms PENDING_REINTERN when it answers 1. *)
MoveOwns(n) ==
  /\ move.pc = "owns" /\ n \in move.todo
  /\ move.node \in move.todo => n = move.node
  /\ IF nameIn[n] = move.from
     THEN /\ rehome' = [rehome EXCEPT ![move.thread] = <<move.from, n>>]
          /\ move' = [move EXCEPT !.pc = "lookup", !.node = n]
          /\ UNCHANGED docOf
     ELSE Visited(n) /\ UNCHANGED rehome
  /\ UNCHANGED <<running, creator, freed, keep, stash, retained, home, nameIn,
                 parent, route, crossed, calls>>

(* The arena xmlDictLookup pins when the name it is asked for is the one   *)
(* another dictionary just owned.                                          *)
LookupPin(t, n, dict) ==
  LET asked == rehome[t] IN
  IF /\ asked # NULL /\ stash[t] # NULL
     /\ asked[2] = n /\ asked[1] # dict
     THEN [retained EXCEPT ![dict] = @ \cup {stash[t]}]
     ELSE retained

RehomedNever(n, dict) == nameIn

Rehomed(n, dict) == [nameIn EXCEPT ![n] = dict]

(* xmlDictLookup(destination, name of n) takes both pending values.        *)
MoveLookup ==
  LET t == move.thread  n == move.node  dict == creator[move.to] IN
  /\ move.pc = "lookup"
  /\ retained' = LookupPin(t, n, dict)
  /\ stash' = [stash EXCEPT ![t] = NULL]
  /\ rehome' = [rehome EXCEPT ![t] = NULL]
  /\ nameIn' = Rehomed(n, dict)
  /\ Visited(n)
  /\ UNCHANGED <<running, creator, freed, keep, home, parent, route, crossed,
                 calls>>

-----------------------------------------------------------------------------
(* xmlDictOwns and xmlDictLookup outside a move, about the name of n.      *)

PlainOwns(t, dict, n) ==
  /\ Call /\ t \in running /\ DictLive(dict) /\ Usable(n) /\ nameIn[n] = dict
  /\ rehome' = [rehome EXCEPT ![t] = <<dict, n>>]
  /\ UNCHANGED <<running, creator, freed, keep, stash, retained, treeVars,
                 move>>

PlainLookup(t, dict, n) ==
  /\ Call /\ t \in running /\ DictLive(dict) /\ Usable(n)
  /\ retained' = LookupPin(t, n, dict)
  /\ stash' = [stash EXCEPT ![t] = NULL]
  /\ rehome' = [rehome EXCEPT ![t] = NULL]
  /\ UNCHANGED <<running, creator, freed, keep, treeVars, move>>

(* xmlFreeDoc, then XmlDoc::free: the stake in the dictionary and the      *)
(* document's own clone of the arena go.                                   *)
FreeDoc(d) ==
  /\ Calm /\ DocLive(d)
  /\ freed' = freed \cup {d}
  /\ UNCHANGED <<running, creator, threadVars, retained, treeVars, move,
                 calls>>

(* A thread exits: its thread-locals are dropped.                          *)
Exit(t) ==
  /\ t \in running /\ (~ Calm => move.thread # t)
  /\ running' = running \ {t}
  /\ keep' = [keep EXCEPT ![t] = {}]
  /\ stash' = [stash EXCEPT ![t] = NULL]
  /\ rehome' = [rehome EXCEPT ![t] = NULL]
  /\ UNCHANGED <<creator, freed, retained, treeVars, move, calls>>

Next ==
  \/ \E t \in Threads, d \in Docs : NewDoc(t, d)
  \/ \E d \in Docs, n \in Nodes : NewNode(d, n)
  \/ \E x \in Docs \cup Nodes, c \in Nodes : AddChild(x, c)
  \/ \E s \in Nodes, c \in Nodes : AddSibling(s, c)
  \/ \E old \in Nodes, c \in Nodes : Replace(old, c)
  \/ \E d \in Docs, r \in Nodes : SetRoot(d, r)
  \/ \E t \in Threads, n \in Nodes : Unlink(t, n)
  \/ \E t \in Threads, x \in Docs \cup Nodes, c \in Nodes : MoveBegin(t, x, c)
  \/ \E n \in Nodes : MoveOwns(n)
  \/ MoveLookup
  \/ \E t \in Threads, dict \in Threads, n \in Nodes : PlainOwns(t, dict, n)
  \/ \E t \in Threads, dict \in Threads, n \in Nodes : PlainLookup(t, dict, n)
  \/ \E d \in Docs : FreeDoc(d)
  \/ \E t \in Threads : Exit(t)

Spec == Init /\ [][Next]_vars

-----------------------------------------------------------------------------
(* What must hold of the nodes a live document can reach. *)

Reach(P(_, _)) == \A d \in Docs : DocLive(d) => \A n \in Below(d) : P(d, n)

(* A node that is where it was made, or was grafted there once, lies in    *)
(* live memory, whatever threads exit and origin documents are freed: the  *)
(* keep-alive lists (dict.rs new_doc_arena), retain_graft_arena and the    *)
(* re-intern hook of xmlDictLookup together.  A graft between documents of *)
(* one thread is covered until that thread exits.                          *)
GraftedOnceLives ==
  TypeOK /\ Reach(LAMBDA d, n :
    route[n] \in {"native", "first"} =>
      \/ ArenaLive(home[n])
      \/ creator[home[n]] = creator[d] /\ creator[d] \notin running)

(* A node that reached its place without an API call that took it, or the  *)
(* node it hangs below, to another dictionary has a name in live memory:   *)
(* the re-intern of lxml's move has brought every name of the subtree to   *)
(* the destination.                                                        *)
NamesLive ==
  Reach(LAMBDA d, n : n \in crossed \/ DictLive(nameIn[n]))

(* Freed node memory is freed: no step hands an arena nobody held to a new *)
(* holder.  What xmlUnlinkNode stashed may be pinned by a much later       *)
(* lookup, when its document is long gone: the slot must own a clone.      *)
NeverRevived ==
  [][\A a \in Docs :
       creator[a] # NULL /\ ~ ArenaLive(a) => ~ ArenaLive(a)']_vars
-----------------------------------------------------------------------------
(* What the comments of the code claim and the code does not deliver.      *)

(* "A graft within one thread is safe by construction: every arena is held *)
(* in a per-thread keep-alive until the thread exits, so the origin arena  *)
(* outlives every same-thread destination document" (mutate.rs).           *)
SameThreadGraftLives ==
  Reach(LAMBDA d, n :
    creator[home[n]] = creator[d] => ArenaLive(home[n]))

(* "Cross-THREAD grafts, where the origin thread may exit first, are       *)
(* covered separately by retaining the origin arena onto the destination   *)
(* dict" (dict.rs): for the grafts that pin, whatever way the node took.   *)
CrossThreadGraftLives ==
  Reach(LAMBDA d, n :
    creator[home[n]] # creator[d] /\ route[n] # "root"
      => ArenaLive(home[n]))

(* The same claim of dict.rs for xmlDocSetRootElement.                     *)
CrossThreadRootLives ==
  Reach(LAMBDA d, n :
    creator[home[n]] # creator[d] /\ route[n] = "root"
      => ArenaLive(home[n]))

(* stamp_doc: "Walk a subtree and stamp node->doc = doc on every node +    *)
(* attr. Used by xmlDocSetRootElement and xmlAddChild cross-doc paths"     *)
(* (mutate.rs): the nodes below a document point at it.                    *)
SubtreeRetagged ==
  Calm => Reach(LAMBDA d, n : docOf[n] = d)

(* Pinning "keeps cross-thread-grafted memory alive" (mutate.rs): of a     *)
(* node in live memory the name is too.                                    *)
GraftedNamesLive ==
  Calm => Reach(LAMBDA d, n : ArenaLive(home[n]) => DictLive(nameIn[n]))

(* Threads, documents and nodes are alike.                                 *)
Sym == Permutations(Threads) \cup Permutations(Docs) \cup Permutations(Nodes)
=============================================================================
