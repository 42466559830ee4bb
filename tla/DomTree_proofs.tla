--------------------------- MODULE DomTree_proofs ---------------------------
(***************************************************************************)
(* Proofs about DomTree, for every set of nodes.  A call is a composition  *)
(* of operators on trees, so the invariant is stated of any tree t with    *)
(* the nodes L in use and G given back, there is one lemma per operator,   *)
(* and the actions compose the lemmas as the code composes the helpers.    *)
(***************************************************************************)
EXTENDS DomTree, TLAPS

(* The parts of LinksOK, of any tree.                                      *)
MutualAt(t, L) ==
  \A n \in L :
    /\ t.next[n] # NULL =>
         /\ t.next[n] \in L /\ t.prev[t.next[n]] = n
         /\ t.parent[t.next[n]] = t.parent[n]
    /\ t.prev[n] # NULL =>
         /\ t.prev[n] \in L /\ t.next[t.prev[n]] = n
         /\ t.parent[t.prev[n]] = t.parent[n]

LooseAt(t, G) ==
  \A n \in Nodes \ G : t.parent[n] = NULL => t.prev[n] = NULL /\ t.next[n] = NULL

HolderAt(L, x) == x = Doc \/ x \in L \cap Elements

EndsAt(t, L) ==
  /\ \A n \in L : t.parent[n] # NULL =>
       /\ HolderAt(L, t.parent[n])
       /\ t.prev[n] = NULL => t.first[t.parent[n]] = n
       /\ t.next[n] = NULL => t.last[t.parent[n]] = n
  /\ \A x \in L \cup {Doc} :
       /\ t.first[x] # NULL =>
            t.first[x] \in L /\ t.parent[t.first[x]] = x /\ t.prev[t.first[x]] = NULL
       /\ t.last[x] # NULL =>
            t.last[x] \in L /\ t.parent[t.last[x]] = x /\ t.next[t.last[x]] = NULL
       /\ t.first[x] = NULL <=> t.last[x] = NULL

ListedAt(t, L) ==
  \A x \in L \cup {Doc} : \A n \in L : t.parent[n] = x => n \in Run(t, t.first[x])

(* n and everything below it, in t.                                        *)
BelowAt(t, n) ==
  {m \in Nodes : \A S \in SUBSET Nodes :
     (n \in S /\ \A k \in Nodes : t.parent[k] \in S => k \in S) => m \in S}

(* Nothing hangs below itself.                                             *)
AcyclicAt(t) == \A n \in Nodes : t.parent[n] \notin BelowAt(t, n)

(* A node not yet made is linked to nothing.                               *)
FreshAt(t, L, G) ==
  \A n \in Nodes \ (L \cup G) :
    t.parent[n] = NULL /\ t.first[n] = NULL /\ t.last[n] = NULL

Good(t, L, G) ==
  /\ t \in Trees /\ L \subseteq Nodes /\ G \subseteq Nodes /\ L \cap G = {}
  /\ MutualAt(t, L) /\ LooseAt(t, G) /\ EndsAt(t, L) /\ ListedAt(t, L)
  /\ AcyclicAt(t) /\ FreshAt(t, L, G)

IInv == Good(tree, live, gone)
-----------------------------------------------------------------------------
(* Walks along a list and down a tree.                                     *)

LEMMA RunSelf == ASSUME NEW t, NEW n \in Nodes PROVE n \in Run(t, n)
BY DEF Run

LEMMA RunNext ==
  ASSUME NEW t, NEW n, NEW m \in Run(t, n), t.next[m] \in Nodes
  PROVE  t.next[m] \in Run(t, n)
<1> DEFINE j == t.next[m]
<1>1. ASSUME NEW S \in SUBSET ((Nodes \cup {n}) \ {j}), n \in S
      PROVE  \E k \in Nodes \cap S : t.next[k] \in Nodes \ S
  <2>1. CASE m \in S
    BY <1>1, <2>1 DEF Run
  <2>2. CASE m \notin S
    BY <1>1, <2>2 DEF Run
  <2> QED BY <2>1, <2>2
<1> QED BY <1>1 DEF Run

LEMMA RunClosed ==
  ASSUME NEW t, NEW n, NEW S, n \in S,
         \A k \in Nodes \cap S : t.next[k] \in Nodes => t.next[k] \in S,
         NEW m \in Run(t, n)
  PROVE  m \in S
<1> DEFINE T == S \cap (Nodes \cup {n})
<1>1. T \in SUBSET (Nodes \cup {n}) /\ n \in T
  OBVIOUS
<1>2. \A k \in Nodes \cap T : t.next[k] \in Nodes => t.next[k] \in T
  OBVIOUS
<1> HIDE DEF T
<1>3. m \in T
  BY <1>1, <1>2 DEF Run
<1> QED BY <1>3 DEF T

(* m is met from n on if every set that follows the walk holds it.         *)
LEMMA RunMeets ==
  ASSUME NEW t, NEW n, NEW m \in Nodes,
         ASSUME NEW S \in SUBSET (Nodes \cup {n}), n \in S,
                \A k \in Nodes \cap S : t.next[k] \in Nodes => t.next[k] \in S
         PROVE  m \in S
  PROVE  m \in Run(t, n)
<1>1. ASSUME NEW S \in SUBSET ((Nodes \cup {n}) \ {m}), n \in S
      PROVE  \E k \in Nodes \cap S : t.next[k] \in Nodes \ S
  BY <1>1
<1> QED BY <1>1 DEF Run

LEMMA BelowSelf == ASSUME NEW t, NEW n \in Nodes PROVE n \in BelowAt(t, n)
BY DEF BelowAt

LEMMA BelowDown ==
  ASSUME NEW t, NEW n, NEW m \in Nodes, t.parent[m] \in BelowAt(t, n)
  PROVE  m \in BelowAt(t, n)
BY DEF BelowAt

LEMMA BelowClosed ==
  ASSUME NEW t, NEW n \in Nodes, NEW S, n \in S,
         \A k \in Nodes : t.parent[k] \in S => k \in S,
         NEW m \in BelowAt(t, n)
  PROVE  m \in S
<1> DEFINE T == S \cap Nodes
<1>1. T \in SUBSET Nodes /\ n \in T /\ \A k \in Nodes : t.parent[k] \in T => k \in T
  OBVIOUS
<1> HIDE DEF T
<1>2. m \in T
  BY <1>1 DEF BelowAt
<1> QED BY <1>2 DEF T

LEMMA BelowUp ==
  ASSUME NEW t, NEW n \in Nodes, NEW m \in BelowAt(t, n), m # n
  PROVE  t.parent[m] \in BelowAt(t, n)
<1> SUFFICES ASSUME t.parent[m] \notin BelowAt(t, n) PROVE FALSE
  OBVIOUS
<1> DEFINE S == BelowAt(t, n) \ {m}
<1>1. n \in S
  BY BelowSelf
<1>2. ASSUME NEW k \in Nodes, t.parent[k] \in S PROVE k \in S
  BY <1>2, BelowDown
<1> HIDE DEF S
<1>3. m \in S
  BY <1>1, <1>2, BelowClosed
<1> QED BY <1>3 DEF S

(* Nothing below c is above it: c hung elsewhere, but not below itself,    *)
(* leaves the tree a tree.                                                 *)
LEMMA HangAcyclic ==
  ASSUME NEW t, NEW u, NEW c, AcyclicAt(t), NULL \notin Nodes,
         c \in Nodes => u.parent[c] \notin BelowAt(t, c),
         \A n \in Nodes \ {c} : u.parent[n] \in {t.parent[n], NULL}
  PROVE  AcyclicAt(u)
<1> SUFFICES ASSUME NEW n \in Nodes, u.parent[n] \in BelowAt(u, n) PROVE FALSE
  BY DEF AcyclicAt
<1>1. u.parent[n] \in Nodes
  BY DEF BelowAt
<1>2. CASE n = c
  <2>1. \A k \in Nodes : u.parent[k] \in BelowAt(t, c) => k \in BelowAt(t, c)
    BY <1>2, BelowSelf, BelowDown DEF BelowAt
  <2>2. u.parent[n] \in BelowAt(t, c)
    BY <1>2, <2>1, BelowSelf, BelowClosed
  <2> QED BY <1>2, <2>2
<1>3. CASE n # c /\ (c \in Nodes => u.parent[c] \notin BelowAt(t, n))
  <2>1. u.parent[n] = t.parent[n]
    BY <1>1, <1>3
  <2>2. \A k \in Nodes : u.parent[k] \in BelowAt(t, n) => k \in BelowAt(t, n)
    BY <1>3, BelowDown DEF BelowAt
  <2>3. u.parent[n] \in BelowAt(t, n)
    BY <2>2, BelowSelf, BelowClosed
  <2> QED BY <2>1, <2>3 DEF AcyclicAt
<1>4. CASE n # c /\ c \in Nodes /\ u.parent[c] \in BelowAt(t, n)
  <2> DEFINE S == BelowAt(t, n) \cup BelowAt(t, c)
  <2>1. u.parent[n] = t.parent[n]
    BY <1>1, <1>4
  <2>2. n \in S /\ \A k \in Nodes : u.parent[k] \in S => k \in S
    <3>1. n \in S /\ c \in S /\ NULL \notin S
      BY <1>4, BelowSelf DEF BelowAt
    <3>2. ASSUME NEW k \in Nodes \ {c}, u.parent[k] \in S PROVE k \in S
      BY <3>1, <3>2, BelowDown
    <3> QED BY <3>1, <3>2
  <2>3. u.parent[n] \in S
    <3> HIDE DEF S
    <3> QED BY <2>2, BelowClosed
  <2>4. t.parent[n] \in BelowAt(t, c)
    BY <2>1, <2>3 DEF AcyclicAt
  <2>5. n \in BelowAt(t, c)
    BY <2>4, BelowDown
  <2>6. u.parent[c] \in BelowAt(t, c)
    BY <1>4, <2>5, BelowDown, BelowClosed
  <2> QED BY <1>4, <2>6
<1> QED BY <1>2, <1>3, <1>4

-----------------------------------------------------------------------------
(* The helpers, field by field.                                            *)

LEMMA DetachFields ==
  ASSUME NEW t \in Trees, NEW n \in Nodes
  PROVE  LET u == Detach(t, n) p == t.parent[n]  b == t.prev[n]  a == t.next[n] IN
         /\ u \in Trees
         /\ \A m \in Things :
              /\ u.parent[m] = IF m = n THEN NULL ELSE t.parent[m]
              /\ u.prev[m] = IF m = n THEN NULL ELSE IF p # NULL /\ m = a THEN b ELSE t.prev[m]
              /\ u.next[m] = IF m = n THEN NULL ELSE IF p # NULL /\ m = b THEN a ELSE t.next[m]
              /\ u.first[m] = IF m = p /\ t.first[m] = n THEN a ELSE t.first[m]
              /\ u.last[m] = IF m = p /\ t.last[m] = n THEN b ELSE t.last[m]
BY DomAssumption DEF Detach, Trees, Links, Things

LEMMA AppendFields ==
  ASSUME NEW t \in Trees, NEW p \in Things, NEW c \in Nodes
  PROVE  LET u == AppendTo(t, p, c) l == t.last[p] IN
         /\ u \in Trees
         /\ \A m \in Things :
              /\ u.parent[m] = IF m = c THEN p ELSE t.parent[m]
              /\ u.prev[m] = IF m = c /\ l # NULL THEN l ELSE t.prev[m]
              /\ u.next[m] = IF m = l THEN c ELSE t.next[m]
              /\ u.first[m] = IF m = p /\ l = NULL THEN c ELSE t.first[m]
              /\ u.last[m] = IF m = p THEN c ELSE t.last[m]
BY DomAssumption DEF AppendTo, Trees, Links, Things

LEMMA AfterFields ==
  ASSUME NEW t \in Trees, NEW n \in Nodes, NEW c \in Nodes, n # c
  PROVE  LET u == LinkAfter(t, n, c) a == t.next[n] IN
         /\ u \in Trees
         /\ \A m \in Things :
              /\ u.parent[m] = IF m = c THEN t.parent[n] ELSE t.parent[m]
              /\ u.prev[m] = IF m = a THEN c ELSE IF m = c THEN n ELSE t.prev[m]
              /\ u.next[m] = IF m = n THEN c ELSE IF m = c THEN a ELSE t.next[m]
              /\ u.first[m] = t.first[m]
              /\ u.last[m] = IF m = ListOf(t, n) /\ a = NULL THEN c ELSE t.last[m]
BY DomAssumption DEF LinkAfter, ListOf, Trees, Links, Things

LEMMA BeforeFields ==
  ASSUME NEW t \in Trees, NEW n \in Nodes, NEW c \in Nodes, n # c
  PROVE  LET u == LinkBefore(t, n, c) b == t.prev[n] IN
         /\ u \in Trees
         /\ \A m \in Things :
              /\ u.parent[m] = IF m = c THEN t.parent[n] ELSE t.parent[m]
              /\ u.next[m] = IF m = b THEN c ELSE IF m = c THEN n ELSE t.next[m]
              /\ u.prev[m] = IF m = n THEN c ELSE IF m = c THEN b ELSE t.prev[m]
              /\ u.last[m] = t.last[m]
              /\ u.first[m] = IF m = ListOf(t, n) /\ b = NULL THEN c ELSE t.first[m]
BY DomAssumption DEF LinkBefore, ListOf, Trees, Links, Things

LEMMA SwapFields ==
  ASSUME NEW t \in Trees, NEW o \in Nodes, NEW c \in Nodes, o # c, t.parent[o] \in Things
  PROVE  LET u == Swap(t, o, c) p == t.parent[o]  b == t.prev[o]  a == t.next[o] IN
         /\ u \in Trees
         /\ \A m \in Things :
              /\ u.parent[m] = IF m = o THEN NULL ELSE IF m = c THEN p ELSE t.parent[m]
              /\ u.prev[m] = IF m = o THEN NULL ELSE IF m = a THEN c
                             ELSE IF m = c THEN b ELSE t.prev[m]
              /\ u.next[m] = IF m = o THEN NULL ELSE IF m = b THEN c
                             ELSE IF m = c THEN a ELSE t.next[m]
              /\ u.first[m] = IF m = p /\ b = NULL THEN c ELSE t.first[m]
              /\ u.last[m] = IF m = p /\ a = NULL THEN c ELSE t.last[m]
BY DomAssumption DEF Swap, Trees, Links, Things

LEMMA EmptiedFields ==
  ASSUME NEW t \in Trees, NEW e \in Nodes
  PROVE  LET u == Emptied(t, e) IN
         /\ u \in Trees
         /\ \A m \in Things :
              /\ u.parent[m] = t.parent[m] /\ u.prev[m] = t.prev[m] /\ u.next[m] = t.next[m]
              /\ u.first[m] = IF m = e THEN NULL ELSE t.first[m]
              /\ u.last[m] = IF m = e THEN NULL ELSE t.last[m]
BY DomAssumption DEF Emptied, Trees, Links, Things

-----------------------------------------------------------------------------
(* The helpers keep a good tree good.                                      *)

(* What Good says of one node's place.                                     *)
LEMMA PlaceFacts ==
  ASSUME NEW t, NEW L, NEW G, Good(t, L, G), NEW n \in L
  PROVE  /\ n \in Nodes /\ n \in Things /\ n # NULL /\ n # Doc
         /\ t.parent[n] \in Things \cup {NULL}
         /\ t.parent[n] # NULL => HolderAt(L, t.parent[n])
         /\ t.prev[n] \in L \cup {NULL} /\ t.next[n] \in L \cup {NULL}
         /\ t.next[n] # n /\ t.prev[n] # n /\ t.parent[n] # n
         /\ t.prev[n] # NULL \/ t.next[n] # NULL => t.parent[n] # NULL
<1>1. n \in Nodes /\ n \in Things /\ n # NULL /\ n # Doc
  BY DomAssumption DEF Good, Things
<1>2. t.parent[n] # n
  BY <1>1, BelowSelf DEF Good, AcyclicAt
<1>3. t.prev[n] # NULL \/ t.next[n] # NULL => t.parent[n] # NULL
  BY <1>1 DEF Good, LooseAt
<1>4. t.next[n] # n
  <2> SUFFICES ASSUME t.next[n] = n PROVE FALSE
    OBVIOUS
  <2> DEFINE x == t.parent[n]  S == (L \cup {t.first[x]}) \ {n}
  <2>1. t.prev[n] = n /\ x # NULL /\ x \in L \cup {Doc}
    BY <1>1, <1>3 DEF Good, MutualAt, EndsAt, HolderAt
  <2>2. t.first[x] # n
    BY <1>1, <2>1 DEF Good, EndsAt
  <2>3. n \in Run(t, t.first[x])
    BY <2>1 DEF Good, ListedAt
  <2>4. t.first[x] \in S
    BY <2>2
  <2>5. t.first[x] \in Nodes => t.first[x] \in L
    BY <2>1, DomAssumption DEF Good, EndsAt
  <2>6. \A k \in Nodes \cap S : t.next[k] \in Nodes => t.next[k] \in S
    <3>1. ASSUME NEW k \in Nodes \cap S, t.next[k] \in Nodes PROVE t.next[k] \in S
      <4>1. k \in L /\ t.next[k] # NULL
        BY <2>5, <3>1, DomAssumption
      <4>2. t.next[k] \in L /\ t.prev[t.next[k]] = k
        BY <4>1 DEF Good, MutualAt
      <4> QED BY <2>1, <3>1, <4>2
    <3> QED BY <3>1
  <2> HIDE DEF S
  <2>7. n \in S
    BY <2>3, <2>4, <2>6, RunClosed
  <2> QED BY <2>7 DEF S
<1>5. t.prev[n] # n
  BY <1>1, <1>4 DEF Good, MutualAt
<1>6. t.parent[n] \in Things \cup {NULL}
  BY <1>1 DEF Good, Trees, Links
<1> QED BY <1>1, <1>2, <1>3, <1>4, <1>5, <1>6 DEF Good, MutualAt, EndsAt

(* What Good says of the ends of a list.                                   *)
LEMMA EndFacts ==
  ASSUME NEW t, NEW L, NEW G, Good(t, L, G), NEW x \in L \cup {Doc}
  PROVE  /\ x \in Things /\ x # NULL
         /\ t.first[x] \in L \cup {NULL} /\ t.last[x] \in L \cup {NULL}
         /\ t.first[x] # NULL => t.parent[t.first[x]] = x /\ t.prev[t.first[x]] = NULL
         /\ t.last[x] # NULL => t.parent[t.last[x]] = x /\ t.next[t.last[x]] = NULL
         /\ t.first[x] = NULL <=> t.last[x] = NULL
         /\ t.first[x] = NULL => \A n \in L : t.parent[n] # x
<1>1. x \in Things /\ x # NULL
  BY DomAssumption DEF Good, Things
<1>2. ASSUME t.first[x] = NULL, NEW n \in L, t.parent[n] = x PROVE FALSE
  <2>1. n \in Run(t, NULL) /\ NULL \notin Nodes /\ n \in Nodes
    BY <1>2, DomAssumption DEF Good, ListedAt
  <2>2. n \in {NULL}
    BY <2>1, RunClosed
  <2> QED BY <2>1, <2>2
<1> QED BY <1>1, <1>2 DEF Good, EndsAt

LEMMA DetachGood ==
  ASSUME NEW t, NEW L, NEW G, Good(t, L, G), NEW n \in L
  PROVE  Good(Detach(t, n), L, G)
<1> DEFINE u == Detach(t, n)  p == t.parent[n]  b == t.prev[n]  a == t.next[n]
<1>1. t \in Trees /\ n \in Nodes /\ L \subseteq Nodes /\ NULL \notin Things /\ NULL \notin Nodes
      /\ Doc \notin Nodes /\ G \cap L = {} /\ Nodes \subseteq Things /\ Doc \in Things
  BY DomAssumption DEF Good, Things
<1>2. /\ u \in Trees
      /\ \A m \in Things :
           /\ u.parent[m] = IF m = n THEN NULL ELSE t.parent[m]
           /\ u.prev[m] = IF m = n THEN NULL ELSE IF p # NULL /\ m = a THEN b ELSE t.prev[m]
           /\ u.next[m] = IF m = n THEN NULL ELSE IF p # NULL /\ m = b THEN a ELSE t.next[m]
           /\ u.first[m] = IF m = p /\ t.first[m] = n THEN a ELSE t.first[m]
           /\ u.last[m] = IF m = p /\ t.last[m] = n THEN b ELSE t.last[m]
  BY <1>1, DetachFields
<1>3. /\ \A m \in L : t.prev[m] \in L \cup {NULL} /\ t.next[m] \in L \cup {NULL}
      /\ \A m \in L : t.next[m] # NULL => t.prev[t.next[m]] = m /\ t.parent[t.next[m]] = t.parent[m]
      /\ \A m \in L : t.prev[m] # NULL => t.next[t.prev[m]] = m /\ t.parent[t.prev[m]] = t.parent[m]
      /\ a # n /\ b # n /\ p # n
  BY PlaceFacts DEF Good, MutualAt
<1>4. (a # NULL \/ b # NULL) => p # NULL
  BY PlaceFacts
<1> HIDE DEF u, p, b, a
<1>5. MutualAt(u, L)
  BY <1>1, <1>2, <1>3, <1>4 DEF MutualAt, p, b, a
<1>6. LooseAt(u, G)
  <2>1. ASSUME NEW m \in Nodes \ G, u.parent[m] = NULL PROVE u.prev[m] = NULL /\ u.next[m] = NULL
    <3>1. m = n \/ (t.parent[m] = NULL /\ t.prev[m] = NULL /\ t.next[m] = NULL)
      BY <1>1, <1>2, <2>1 DEF Good, LooseAt
    <3>2. a \in Nodes \cup {NULL} /\ b \in Nodes \cup {NULL}
      BY <1>1, <1>3 DEF a, b
    <3>3. p # NULL /\ m = a => t.prev[m] = n
      BY <1>1, <1>3 DEF a
    <3>4. p # NULL /\ m = b => t.next[m] = n
      BY <1>1, <1>3 DEF b
    <3> QED BY <1>1, <1>2, <2>1, <3>1, <3>3, <3>4
  <2> QED BY <2>1 DEF LooseAt
<1>7. EndsAt(u, L)
  <2>1. ASSUME NEW m \in L, u.parent[m] # NULL
        PROVE  /\ HolderAt(L, u.parent[m])
               /\ u.prev[m] = NULL => u.first[u.parent[m]] = m
               /\ u.next[m] = NULL => u.last[u.parent[m]] = m
    <3>1. m # n /\ u.parent[m] = t.parent[m] /\ m \in Nodes /\ t.parent[m] \in Things
      BY <1>1, <1>2, <2>1, PlaceFacts
    <3>2. /\ HolderAt(L, t.parent[m])
          /\ t.prev[m] = NULL => t.first[t.parent[m]] = m
          /\ t.next[m] = NULL => t.last[t.parent[m]] = m
      BY <2>1, <3>1 DEF Good, EndsAt
    <3>3. /\ p # NULL /\ m = a => t.prev[m] = n /\ t.parent[m] = p
          /\ p # NULL /\ m = b => t.next[m] = n /\ t.parent[m] = p
      BY <1>1, <1>3 DEF a, b, p
    <3>4. /\ p # NULL /\ b = NULL => t.first[p] = n
          /\ p # NULL /\ a = NULL => t.last[p] = n
      BY DEF Good, EndsAt, p, a, b
    <3>5. /\ t.prev[m] = n => n = b \/ m = a
          /\ t.next[m] = n => n = a \/ m = b
      BY <1>1, <1>3, <2>1 DEF a, b
    <3>6. u.prev[m] = NULL => u.first[t.parent[m]] = m
      BY <1>1, <1>2, <3>1, <3>2, <3>3, <3>4
    <3>7. u.next[m] = NULL => u.last[t.parent[m]] = m
      BY <1>1, <1>2, <3>1, <3>2, <3>3, <3>4
    <3> QED BY <3>1, <3>2, <3>6, <3>7
  <2>2. ASSUME NEW x \in L \cup {Doc}
        PROVE  /\ u.first[x] # NULL =>
                    u.first[x] \in L /\ u.parent[u.first[x]] = x /\ u.prev[u.first[x]] = NULL
               /\ u.last[x] # NULL =>
                    u.last[x] \in L /\ u.parent[u.last[x]] = x /\ u.next[u.last[x]] = NULL
               /\ u.first[x] = NULL <=> u.last[x] = NULL
    <3>1. /\ x \in Things
          /\ t.first[x] \in L \cup {NULL} /\ t.last[x] \in L \cup {NULL}
          /\ t.first[x] # NULL => t.parent[t.first[x]] = x /\ t.prev[t.first[x]] = NULL
          /\ t.last[x] # NULL => t.parent[t.last[x]] = x /\ t.next[t.last[x]] = NULL
          /\ t.first[x] = NULL <=> t.last[x] = NULL
      BY EndFacts
    <3>2. t.first[x] = n => p = x /\ b = NULL
      BY <1>1, <3>1 DEF p, b
    <3>3. t.last[x] = n => p = x /\ a = NULL
      BY <1>1, <3>1 DEF p, a
    <3>4. p = x /\ b = NULL => t.first[x] = n
      BY <1>1, <3>1 DEF Good, EndsAt, p, b
    <3>5. p = x /\ a = NULL => t.last[x] = n
      BY <1>1, <3>1 DEF Good, EndsAt, p, a
    <3>6. /\ a \in L \cup {NULL} /\ b \in L \cup {NULL}
          /\ a # NULL => t.parent[a] = p /\ t.prev[a] = n
          /\ b # NULL => t.parent[b] = p /\ t.next[b] = n
      BY <1>1, <1>3 DEF a, b, p
    <3>7. /\ u.first[x] # NULL =>
                u.first[x] \in L /\ u.parent[u.first[x]] = x /\ u.prev[u.first[x]] = NULL
      BY <1>1, <1>2, <1>3, <3>1, <3>2, <3>4, <3>6
    <3>8. /\ u.last[x] # NULL =>
                u.last[x] \in L /\ u.parent[u.last[x]] = x /\ u.next[u.last[x]] = NULL
      BY <1>1, <1>2, <1>3, <3>1, <3>3, <3>5, <3>6
    <3>9. u.first[x] = NULL <=> u.last[x] = NULL
      BY <1>1, <1>2, <1>3, <3>1, <3>2, <3>3, <3>4, <3>5, <3>6
    <3> QED BY <3>7, <3>8, <3>9
  <2> QED BY <2>1, <2>2 DEF EndsAt
<1>8. ListedAt(u, L)
  <2> SUFFICES ASSUME NEW x \in L \cup {Doc}, NEW m \in L, u.parent[m] = x
               PROVE  m \in Run(u, u.first[x])
    BY DEF ListedAt
  <2>1. m # n /\ t.parent[m] = x /\ m \in Nodes /\ m \in Run(t, t.first[x]) /\ x \in Things /\ x # NULL
    BY <1>1, <1>2, PlaceFacts, EndFacts DEF Good, ListedAt
  <2>2. ASSUME NEW S \in SUBSET (Nodes \cup {u.first[x]}), u.first[x] \in S,
               \A k \in Nodes \cap S : u.next[k] \in Nodes => u.next[k] \in S
        PROVE  m \in S
    <3> DEFINE T == {k \in L \ {n} : k \in S /\ t.parent[k] = x} \cup ({NULL} \cap S)
                      \cup (IF p = x /\ (b = NULL \/ b \in S) THEN {n} ELSE {})
    <3>1. /\ t.first[x] \in L \cup {NULL}
          /\ t.first[x] # NULL => t.parent[t.first[x]] = x
          /\ t.first[x] = n => p = x /\ b = NULL
      BY <1>1, EndFacts DEF p, b
    <3>2. t.first[x] \in T
      BY <1>1, <1>2, <2>1, <2>2, <3>1
    <3>3. ASSUME NEW k \in Nodes \cap T, t.next[k] \in Nodes PROVE t.next[k] \in T
      <4>0. /\ k \in L /\ t.next[k] \in L /\ t.parent[k] = x
            /\ k # n => k \in S
            /\ k = n => b = NULL \/ b \in S
        BY <1>1, <1>3, <3>3 DEF p
      <4>1. /\ k \in L /\ t.next[k] \in L /\ t.prev[t.next[k]] = k
            /\ t.parent[t.next[k]] = x /\ t.parent[k] = x
        BY <1>1, <1>3, <3>3, <4>0
      <4>2. CASE k = n
        <5>1. p = x /\ (b = NULL \/ b \in S)
          BY <4>0, <4>2 DEF p
        <5>2. t.next[k] = a /\ a # NULL /\ a # n
          BY <1>1, <1>3, <3>3, <4>2 DEF a
        <5>3. CASE b = NULL
          <6>1. t.first[x] = n
            BY <2>1, <5>1, <5>3 DEF Good, EndsAt, p, b
          <6>2. u.first[x] = a
            BY <1>2, <2>1, <5>1, <6>1
          <6> QED BY <2>2, <4>1, <5>2, <6>2
        <5>4. CASE b # NULL
          <6>1. b \in S /\ b \in L /\ b # n
            BY <1>3, <5>1, <5>4 DEF b
          <6>2. u.next[b] = a
            BY <1>1, <1>2, <2>1, <5>1, <6>1
          <6> QED BY <1>1, <2>2, <4>1, <5>2, <6>1, <6>2
        <5> QED BY <5>3, <5>4
      <4>3. CASE k # n /\ t.next[k] = n
        <5>1. k = b /\ k \in S /\ t.parent[k] = x /\ p = t.parent[k]
          BY <1>1, <3>3, <4>0, <4>1, <4>3 DEF b, p
        <5> QED BY <4>3, <5>1
      <4>4. CASE k # n /\ t.next[k] # n
        <5>1. k \in S /\ (p # NULL => k # b)
          BY <1>1, <1>3, <3>3, <4>1, <4>4 DEF b
        <5>2. u.next[k] = t.next[k]
          BY <1>1, <1>2, <4>1, <4>4, <5>1
        <5> QED BY <2>2, <3>3, <4>1, <4>4, <5>1, <5>2
      <4> QED BY <4>2, <4>3, <4>4
    <3> HIDE DEF T
    <3>4. m \in T
      BY <2>1, <3>2, <3>3, RunClosed
    <3> QED BY <2>1, <3>4 DEF T
  <2> QED BY <2>1, <2>2, RunMeets
<1>9. AcyclicAt(u)
  <2>1. u.parent[n] \notin BelowAt(t, n)
    BY <1>1, <1>2 DEF BelowAt
  <2>2. \A m \in Nodes \ {n} : u.parent[m] \in {t.parent[m], NULL}
    BY <1>1, <1>2
  <2> QED BY <1>1, <2>1, <2>2, HangAcyclic DEF Good
<1>10. FreshAt(u, L, G)
  <2>1. ASSUME NEW m \in Nodes \ (L \cup G)
        PROVE  u.parent[m] = NULL /\ u.first[m] = NULL /\ u.last[m] = NULL
    <3>1. /\ t.parent[m] = NULL /\ t.first[m] = NULL /\ t.last[m] = NULL
          /\ m \in Things /\ m # n /\ n # NULL
      BY <1>1 DEF Good, FreshAt
    <3> QED BY <1>2, <3>1
  <2> QED BY <2>1 DEF FreshAt
<1> QED BY <1>1, <1>2, <1>5, <1>6, <1>7, <1>8, <1>9, <1>10 DEF Good, u

(* u is t with the detached c put between b and a in the list of p.        *)
Inserted(t, u, p, b, a, c) ==
  /\ u \in Trees
  /\ \A m \in Things :
       /\ u.parent[m] = IF m = c THEN p ELSE t.parent[m]
       /\ u.prev[m] = IF m = a THEN c ELSE IF m = c THEN b ELSE t.prev[m]
       /\ u.next[m] = IF m = b THEN c ELSE IF m = c THEN a ELSE t.next[m]
       /\ u.first[m] = IF m = p /\ b = NULL THEN c ELSE t.first[m]
       /\ u.last[m] = IF m = p /\ a = NULL THEN c ELSE t.last[m]

(* b and a are neighbours in the list of p, or its ends.                   *)
Gap(t, L, p, b, a) ==
  /\ HolderAt(L, p)
  /\ b # NULL => b \in L /\ t.parent[b] = p /\ t.next[b] = a
  /\ a # NULL => a \in L /\ t.parent[a] = p /\ t.prev[a] = b
  /\ b = NULL => t.first[p] = a
  /\ a = NULL => t.last[p] = b

LEMMA InsertGood ==
  ASSUME NEW t, NEW L, NEW G, Good(t, L, G), NEW c \in L, t.parent[c] = NULL,
         NEW p, NEW b, NEW a, Gap(t, L, p, b, a), p \notin BelowAt(t, c),
         NEW u, Inserted(t, u, p, b, a, c)
  PROVE  Good(u, L, G)
<1>1. t \in Trees /\ c \in Nodes /\ L \subseteq Nodes /\ NULL \notin Things /\ NULL \notin Nodes
      /\ Doc \notin Nodes /\ G \cap L = {} /\ Nodes \subseteq Things /\ Doc \in Things
      /\ p \in L \cup {Doc} /\ p \in Things /\ p # c
  BY DomAssumption, BelowSelf DEF Good, Things, Gap, HolderAt
<1>2. /\ u \in Trees
      /\ \A m \in Things :
           /\ u.parent[m] = IF m = c THEN p ELSE t.parent[m]
           /\ u.prev[m] = IF m = a THEN c ELSE IF m = c THEN b ELSE t.prev[m]
           /\ u.next[m] = IF m = b THEN c ELSE IF m = c THEN a ELSE t.next[m]
           /\ u.first[m] = IF m = p /\ b = NULL THEN c ELSE t.first[m]
           /\ u.last[m] = IF m = p /\ a = NULL THEN c ELSE t.last[m]
  BY DEF Inserted
<1>3. /\ \A m \in L : t.prev[m] \in L \cup {NULL} /\ t.next[m] \in L \cup {NULL}
      /\ \A m \in L : t.next[m] # NULL => t.prev[t.next[m]] = m /\ t.parent[t.next[m]] = t.parent[m]
      /\ \A m \in L : t.prev[m] # NULL => t.next[t.prev[m]] = m /\ t.parent[t.prev[m]] = t.parent[m]
      /\ t.prev[c] = NULL /\ t.next[c] = NULL
      /\ a # c /\ b # c /\ a \in L \cup {NULL} /\ b \in L \cup {NULL}
  BY <1>1, PlaceFacts DEF Good, MutualAt, Gap
<1>4. /\ b # NULL => t.parent[b] = p /\ t.next[b] = a
      /\ a # NULL => t.parent[a] = p /\ t.prev[a] = b
      /\ b = NULL => t.first[p] = a
      /\ a = NULL => t.last[p] = b
      /\ HolderAt(L, p)
      /\ b # NULL => a # b
  BY PlaceFacts DEF Gap
<1>5. MutualAt(u, L)
  <2>1. ASSUME NEW m \in L, u.next[m] # NULL
        PROVE  u.next[m] \in L /\ u.prev[u.next[m]] = m /\ u.parent[u.next[m]] = u.parent[m]
    <3>1. CASE m = b
      BY <1>1, <1>2, <1>3, <1>4, <3>1
    <3>2. CASE m = c
      BY <1>1, <1>2, <1>3, <1>4, <2>1, <3>2
    <3>3. CASE m # b /\ m # c
      <4>1. u.next[m] = t.next[m] /\ m \in Things /\ t.next[m] \in L /\ t.next[m] \in Things
        BY <1>1, <1>2, <1>3, <2>1, <3>3
      <4>2. t.next[m] # a /\ t.next[m] # c
        BY <1>1, <1>3, <1>4, <2>1, <3>3, <4>1
      <4> QED BY <1>2, <1>3, <2>1, <3>3, <4>1, <4>2
    <3> QED BY <3>1, <3>2, <3>3
  <2>2. ASSUME NEW m \in L, u.prev[m] # NULL
        PROVE  u.prev[m] \in L /\ u.next[u.prev[m]] = m /\ u.parent[u.prev[m]] = u.parent[m]
    <3>1. CASE m = a
      BY <1>1, <1>2, <1>3, <1>4, <3>1
    <3>2. CASE m = c
      BY <1>1, <1>2, <1>3, <1>4, <2>2, <3>2
    <3>3. CASE m # a /\ m # c
      <4>1. u.prev[m] = t.prev[m] /\ m \in Things /\ t.prev[m] \in L /\ t.prev[m] \in Things
        BY <1>1, <1>2, <1>3, <2>2, <3>3
      <4>2. t.prev[m] # b /\ t.prev[m] # c
        BY <1>1, <1>3, <1>4, <2>2, <3>3, <4>1
      <4> QED BY <1>2, <1>3, <2>2, <3>3, <4>1, <4>2
    <3> QED BY <3>1, <3>2, <3>3
  <2> QED BY <2>1, <2>2 DEF MutualAt
<1>6. LooseAt(u, G)
  <2>1. ASSUME NEW m \in Nodes \ G, u.parent[m] = NULL PROVE u.prev[m] = NULL /\ u.next[m] = NULL
    <3>1. m # c /\ t.parent[m] = NULL /\ t.prev[m] = NULL /\ t.next[m] = NULL
      BY <1>1, <1>2, <2>1 DEF Good, LooseAt
    <3>2. m # a /\ m # b
      BY <1>1, <1>4, <3>1
    <3> QED BY <1>1, <1>2, <2>1, <3>1, <3>2
  <2> QED BY <2>1 DEF LooseAt
<1>7. EndsAt(u, L)
  <2>1. ASSUME NEW m \in L, u.parent[m] # NULL
        PROVE  /\ HolderAt(L, u.parent[m])
               /\ u.prev[m] = NULL => u.first[u.parent[m]] = m
               /\ u.next[m] = NULL => u.last[u.parent[m]] = m
    <3>1. m \in Things /\ m # NULL
      BY <1>1
    <3>2. CASE m = c
      BY <1>1, <1>2, <1>3, <1>4, <2>1, <3>1, <3>2
    <3>3. CASE m # c
      <4>1. u.parent[m] = t.parent[m] /\ t.parent[m] \in Things
        BY <1>2, <2>1, <3>1, <3>3, PlaceFacts
      <4>2. /\ HolderAt(L, t.parent[m])
            /\ t.prev[m] = NULL => t.first[t.parent[m]] = m
            /\ t.next[m] = NULL => t.last[t.parent[m]] = m
        BY <2>1, <4>1 DEF Good, EndsAt
      <4>3. u.prev[m] = NULL => u.first[t.parent[m]] = m
        BY <1>1, <1>2, <1>3, <1>4, <3>1, <3>3, <4>1, <4>2
      <4>4. u.next[m] = NULL => u.last[t.parent[m]] = m
        BY <1>1, <1>2, <1>3, <1>4, <3>1, <3>3, <4>1, <4>2
      <4> QED BY <4>1, <4>2, <4>3, <4>4
    <3> QED BY <3>2, <3>3
  <2>2. ASSUME NEW x \in L \cup {Doc}
        PROVE  /\ u.first[x] # NULL =>
                    u.first[x] \in L /\ u.parent[u.first[x]] = x /\ u.prev[u.first[x]] = NULL
               /\ u.last[x] # NULL =>
                    u.last[x] \in L /\ u.parent[u.last[x]] = x /\ u.next[u.last[x]] = NULL
               /\ u.first[x] = NULL <=> u.last[x] = NULL
    <3>1. /\ x \in Things
          /\ t.first[x] \in L \cup {NULL} /\ t.last[x] \in L \cup {NULL}
          /\ t.first[x] # NULL => t.parent[t.first[x]] = x /\ t.prev[t.first[x]] = NULL
          /\ t.last[x] # NULL => t.parent[t.last[x]] = x /\ t.next[t.last[x]] = NULL
          /\ t.first[x] = NULL <=> t.last[x] = NULL
          /\ t.first[x] # c /\ t.last[x] # c
      BY <1>1, EndFacts
    <3>2. u.first[x] # NULL =>
            u.first[x] \in L /\ u.parent[u.first[x]] = x /\ u.prev[u.first[x]] = NULL
      BY <1>1, <1>2, <1>3, <1>4, <3>1
    <3>3. u.last[x] # NULL =>
            u.last[x] \in L /\ u.parent[u.last[x]] = x /\ u.next[u.last[x]] = NULL
      BY <1>1, <1>2, <1>3, <1>4, <3>1
    <3>4. u.first[x] = NULL <=> u.last[x] = NULL
      BY <1>1, <1>2, <1>3, <1>4, <3>1
    <3> QED BY <3>2, <3>3, <3>4
  <2> QED BY <2>1, <2>2 DEF EndsAt
<1>8. ListedAt(u, L)
  <2> SUFFICES ASSUME NEW x \in L \cup {Doc}, NEW m \in L, u.parent[m] = x
               PROVE  m \in Run(u, u.first[x])
    BY DEF ListedAt
  <2>1. m \in Nodes /\ x \in Things /\ x # NULL /\ m \in Things
    BY <1>1, EndFacts
  <2>2. ASSUME NEW S \in SUBSET (Nodes \cup {u.first[x]}), u.first[x] \in S,
               \A k \in Nodes \cap S : u.next[k] \in Nodes => u.next[k] \in S
        PROVE  m \in S
    <3> DEFINE T == {k \in L : k \in S /\ t.parent[k] = x} \cup ({NULL} \cap S)
                      \cup (IF b = NULL THEN {t.first[x]} ELSE {})
    <3>1. /\ t.first[x] \in L \cup {NULL}
          /\ t.first[x] # NULL => t.parent[t.first[x]] = x
      BY EndFacts
    <3>2. t.first[x] \in T
      BY <1>1, <1>2, <2>1, <2>2, <3>1
    <3>3. ASSUME x = p, b = NULL
          PROVE c \in S /\ (t.first[x] # NULL => t.first[x] \in S)
      <4>1. u.first[x] = c /\ t.first[x] = a /\ u.next[c] = a
        BY <1>1, <1>2, <1>3, <1>4, <2>1, <3>3
      <4> QED BY <1>1, <1>3, <2>2, <4>1
    <3>4. t.first[x] # NULL => t.first[x] \in S
      BY <1>2, <2>1, <2>2, <3>3
    <3>5. ASSUME NEW k \in Nodes \cap T, t.next[k] \in Nodes PROVE t.next[k] \in T
      <4>1. k \in L /\ t.parent[k] = x /\ k \in S /\ k # NULL
        BY <1>1, <3>1, <3>4, <3>5
      <4>2. t.next[k] \in L /\ t.parent[t.next[k]] = x
        BY <1>1, <1>3, <3>5, <4>1
      <4>3. CASE k = b
        <5>1. u.next[k] = c /\ c \in S /\ u.next[c] = a /\ a \in S /\ a = t.next[k]
          BY <1>1, <1>2, <1>3, <1>4, <2>2, <3>5, <4>1, <4>3
        <5> QED BY <4>2, <5>1
      <4>4. CASE k # b
        <5>1. u.next[k] = t.next[k]
          BY <1>1, <1>2, <1>3, <4>1, <4>2, <4>4
        <5> QED BY <2>2, <3>5, <4>1, <4>2, <5>1
      <4> QED BY <4>3, <4>4
    <3> HIDE DEF T
    <3>6. ASSUME NEW k \in L, t.parent[k] = x PROVE k \in S
      <4>1. k \in Run(t, t.first[x])
        BY <3>6 DEF Good, ListedAt
      <4>2. k \in T
        BY <3>2, <3>5, <4>1, RunClosed
      <4> QED BY <1>1, <3>4, <3>6, <4>2 DEF T
    <3>7. m # c => m \in S
      BY <1>2, <2>1, <3>6
    <3>8. CASE m = c
      <4>1. x = p
        BY <1>2, <2>1, <3>8
      <4>2. b # NULL => b \in S /\ u.next[b] = c
        BY <1>1, <1>2, <1>3, <1>4, <3>6, <4>1
      <4> QED BY <1>1, <1>3, <2>2, <3>3, <3>8, <4>1, <4>2
    <3> QED BY <3>7, <3>8
  <2> QED BY <2>1, <2>2, RunMeets
<1>9. AcyclicAt(u)
  <2>1. u.parent[c] \notin BelowAt(t, c)
    BY <1>1, <1>2
  <2>2. \A m \in Nodes \ {c} : u.parent[m] \in {t.parent[m], NULL}
    BY <1>1, <1>2
  <2> QED BY <1>1, <2>1, <2>2, HangAcyclic DEF Good
<1>10. FreshAt(u, L, G)
  <2>1. ASSUME NEW m \in Nodes \ (L \cup G)
        PROVE  u.parent[m] = NULL /\ u.first[m] = NULL /\ u.last[m] = NULL
    <3>1. /\ t.parent[m] = NULL /\ t.first[m] = NULL /\ t.last[m] = NULL
          /\ m \in Things /\ m # c /\ m # p
      BY <1>1 DEF Good, FreshAt
    <3> QED BY <1>2, <3>1
  <2> QED BY <2>1 DEF FreshAt
<1> QED BY <1>1, <1>2, <1>5, <1>6, <1>7, <1>8, <1>9, <1>10 DEF Good

LEMMA TreesEqual ==
  ASSUME NEW t \in Trees, NEW u \in Trees,
         \A m \in Things : /\ t.parent[m] = u.parent[m] /\ t.prev[m] = u.prev[m]
                           /\ t.next[m] = u.next[m] /\ t.first[m] = u.first[m]
                           /\ t.last[m] = u.last[m]
  PROVE  t = u
<1>1. /\ t.parent = u.parent /\ t.prev = u.prev /\ t.next = u.next
      /\ t.first = u.first /\ t.last = u.last
  BY DEF Trees, Links
<1> QED BY <1>1 DEF Trees

(* What the lemmas about single calls start from.                          *)
LEMMA GoodFacts ==
  ASSUME NEW t, NEW L, NEW G, Good(t, L, G)
  PROVE  /\ t \in Trees /\ L \subseteq Nodes /\ L \cap G = {}
         /\ NULL \notin Things /\ NULL \notin Nodes /\ Doc \notin Nodes
         /\ Nodes \subseteq Things /\ Doc \in Things /\ NULL # Doc
BY DomAssumption DEF Good, Things

LEMMA AppendGood ==
  ASSUME NEW t, NEW L, NEW G, Good(t, L, G), NEW c \in L, t.parent[c] = NULL,
         NEW p, HolderAt(L, p), p \notin BelowAt(t, c)
  PROVE  /\ Good(AppendTo(t, p, c), L, G)
         /\ Inserted(t, AppendTo(t, p, c), p, t.last[p], NULL, c)
         /\ Gap(t, L, p, t.last[p], NULL)
<1> DEFINE u == AppendTo(t, p, c)  l == t.last[p]
<1>1. p \in Things /\ c \in Nodes /\ c \in Things /\ p \in L \cup {Doc} /\ t \in Trees
      /\ NULL \notin Things /\ t.prev[c] = NULL /\ t.next[c] = NULL
  BY GoodFacts, PlaceFacts DEF HolderAt
<1>2. Gap(t, L, p, l, NULL)
  BY <1>1, EndFacts DEF Gap
<1>3. Inserted(t, u, p, l, NULL, c)
  <2>1. l # c
    BY <1>1, EndFacts
  <2>2. /\ u \in Trees
        /\ \A m \in Things :
              /\ u.parent[m] = IF m = c THEN p ELSE t.parent[m]
              /\ u.prev[m] = IF m = c /\ l # NULL THEN l ELSE t.prev[m]
              /\ u.next[m] = IF m = l THEN c ELSE t.next[m]
              /\ u.first[m] = IF m = p /\ l = NULL THEN c ELSE t.first[m]
              /\ u.last[m] = IF m = p THEN c ELSE t.last[m]
    BY <1>1, AppendFields
  <2> HIDE DEF u, l
  <2>3. \A m \in Things : m # NULL
    BY <1>1
  <2> QED BY <1>1, <2>1, <2>2, <2>3 DEF Inserted
<1> HIDE DEF u, l
<1>4. Good(u, L, G)
  BY <1>2, <1>3, InsertGood
<1> QED BY <1>2, <1>3, <1>4 DEF u, l

LEMMA LinkAfterGood ==
  ASSUME NEW t, NEW L, NEW G, Good(t, L, G), NEW c \in L, t.parent[c] = NULL,
         NEW n \in L, t.parent[n] # NULL, t.parent[n] \notin BelowAt(t, c)
  PROVE  /\ Good(LinkAfter(t, n, c), L, G)
         /\ Inserted(t, LinkAfter(t, n, c), t.parent[n], n, t.next[n], c)
         /\ Gap(t, L, t.parent[n], n, t.next[n])
<1> DEFINE u == LinkAfter(t, n, c)  p == t.parent[n]  a == t.next[n]
<1>1. n \in Nodes /\ c \in Nodes /\ n # c /\ t \in Trees /\ ListOf(t, n) = p /\ n # NULL
  BY GoodFacts DEF ListOf
<1>2. Gap(t, L, p, n, a)
  BY <1>1, PlaceFacts DEF Gap, Good, MutualAt, EndsAt
<1>3. Inserted(t, u, p, n, a, c)
  <2>1. /\ u \in Trees
        /\ \A m \in Things :
              /\ u.parent[m] = IF m = c THEN p ELSE t.parent[m]
              /\ u.prev[m] = IF m = a THEN c ELSE IF m = c THEN n ELSE t.prev[m]
              /\ u.next[m] = IF m = n THEN c ELSE IF m = c THEN a ELSE t.next[m]
              /\ u.first[m] = t.first[m]
              /\ u.last[m] = IF m = p /\ a = NULL THEN c ELSE t.last[m]
    BY <1>1, AfterFields
  <2> HIDE DEF u, p, a
  <2> QED BY <1>1, <2>1 DEF Inserted
<1> HIDE DEF u, p, a
<1>4. Good(u, L, G)
  BY <1>2, <1>3, InsertGood DEF p
<1> QED BY <1>2, <1>3, <1>4 DEF u, p, a

LEMMA LinkBeforeGood ==
  ASSUME NEW t, NEW L, NEW G, Good(t, L, G), NEW c \in L, t.parent[c] = NULL,
         NEW n \in L, t.parent[n] # NULL, t.parent[n] \notin BelowAt(t, c)
  PROVE  /\ Good(LinkBefore(t, n, c), L, G)
         /\ Inserted(t, LinkBefore(t, n, c), t.parent[n], t.prev[n], n, c)
         /\ Gap(t, L, t.parent[n], t.prev[n], n)
<1> DEFINE u == LinkBefore(t, n, c)  p == t.parent[n]  b == t.prev[n]
<1>1. n \in Nodes /\ c \in Nodes /\ n # c /\ t \in Trees /\ ListOf(t, n) = p /\ n # NULL
  BY GoodFacts DEF ListOf
<1>2. Gap(t, L, p, b, n)
  BY <1>1, PlaceFacts DEF Gap, Good, MutualAt, EndsAt
<1>3. Inserted(t, u, p, b, n, c)
  <2>1. /\ u \in Trees
        /\ \A m \in Things :
              /\ u.parent[m] = IF m = c THEN p ELSE t.parent[m]
              /\ u.next[m] = IF m = b THEN c ELSE IF m = c THEN n ELSE t.next[m]
              /\ u.prev[m] = IF m = n THEN c ELSE IF m = c THEN b ELSE t.prev[m]
              /\ u.last[m] = t.last[m]
              /\ u.first[m] = IF m = p /\ b = NULL THEN c ELSE t.first[m]
    BY <1>1, BeforeFields
  <2> HIDE DEF u, p, b
  <2> QED BY <1>1, <2>1 DEF Inserted
<1> HIDE DEF u, p, b
<1>4. Good(u, L, G)
  BY <1>2, <1>3, InsertGood DEF p
<1> QED BY <1>2, <1>3, <1>4 DEF u, p, b

(* xmlReplaceNode does what linking c after `old' and detaching `old'      *)
(* would do.                                                               *)
LEMMA SwapGood ==
  ASSUME NEW t, NEW L, NEW G, Good(t, L, G), NEW c \in L, t.parent[c] = NULL,
         NEW o \in L, t.parent[o] # NULL, t.parent[o] \notin BelowAt(t, c)
  PROVE  Good(Swap(t, o, c), L, G) /\ Swap(t, o, c) = Detach(LinkAfter(t, o, c), o)
<1> DEFINE v == LinkAfter(t, o, c)  u == Swap(t, o, c)  w == Detach(v, o)
           p == t.parent[o]  b == t.prev[o]  a == t.next[o]
<1>1. /\ o \in Nodes /\ o \in Things /\ c \in Nodes /\ c \in Things /\ o # c /\ t \in Trees
      /\ o # NULL /\ p \in Things /\ p # NULL /\ b # o /\ a # o /\ NULL \notin Things
      /\ p # c
  BY GoodFacts, PlaceFacts, BelowSelf
<1>2. Good(v, L, G) /\ Inserted(t, v, p, o, a, c)
  BY LinkAfterGood
<1>3. Good(w, L, G)
  BY <1>2, DetachGood
<1>4. /\ a # NULL => t.prev[a] = o /\ a \in Things
      /\ b # NULL => t.next[b] = o /\ b \in Things
      /\ b = NULL <=> t.first[p] = o
      /\ a = NULL <=> t.last[p] = o
      /\ t.prev[c] = NULL /\ t.next[c] = NULL
      /\ a # c /\ b # c /\ (a # NULL => a # b)
  <2>1. HolderAt(L, p) /\ p \in L \cup {Doc}
    BY PlaceFacts DEF HolderAt
  <2>2. /\ a # NULL => a \in L /\ t.prev[a] = o
        /\ b # NULL => b \in L /\ t.next[b] = o
        /\ t.prev[c] = NULL /\ t.next[c] = NULL
    BY PlaceFacts DEF Good, MutualAt
  <2>3. b = NULL <=> t.first[p] = o
    BY <1>1, <2>1, EndFacts DEF Good, EndsAt
  <2>4. a = NULL <=> t.last[p] = o
    BY <1>1, <2>1, EndFacts DEF Good, EndsAt
  <2>5. a # NULL => a # b
    <3>1. SUFFICES ASSUME a # NULL, a = b PROVE FALSE
      OBVIOUS
    <3>2. t.next[a] = o /\ t.next[o] = a /\ t.prev[a] = o /\ t.prev[o] = a /\ a \in L
      BY <2>2, <3>1
    <3> DEFINE S == (L \cup {t.first[p]}) \ {o, a}
    <3>3. o \in Run(t, t.first[p])
      BY <1>1, <2>1 DEF Good, ListedAt
    <3>4. t.first[p] # o /\ t.first[p] # a
      BY <1>1, <2>1, <2>3, <3>1, <3>2, EndFacts
    <3>5. t.first[p] \in S /\ (t.first[p] \in Nodes => t.first[p] \in L)
      BY <2>1, <3>4, EndFacts, GoodFacts
    <3>6. \A k \in Nodes \cap S : t.next[k] \in Nodes => t.next[k] \in S
      <4>1. ASSUME NEW k \in Nodes \cap S, t.next[k] \in Nodes PROVE t.next[k] \in S
        <5>1. k \in L /\ t.next[k] # NULL
          BY <3>5, <4>1, GoodFacts
        <5>2. t.next[k] \in L /\ t.prev[t.next[k]] = k
          BY <5>1 DEF Good, MutualAt
        <5> QED BY <3>2, <4>1, <5>2
      <4> QED BY <4>1
    <3> HIDE DEF S
    <3>7. o \in S
      BY <3>3, <3>5, <3>6, RunClosed
    <3> QED BY <3>7 DEF S
  <2>6. a # c /\ b # c
    BY <1>1, <2>2
  <2>7. a \in L => a \in Things
    BY GoodFacts
  <2>8. b \in L => b \in Things
    BY GoodFacts
  <2> QED BY <2>2, <2>3, <2>4, <2>5, <2>6, <2>7, <2>8
<1>5. /\ v \in Trees
      /\ \A m \in Things :
           /\ v.parent[m] = IF m = c THEN p ELSE t.parent[m]
           /\ v.prev[m] = IF m = a THEN c ELSE IF m = c THEN o ELSE t.prev[m]
           /\ v.next[m] = IF m = o THEN c ELSE IF m = c THEN a ELSE t.next[m]
           /\ v.first[m] = IF m = p /\ o = NULL THEN c ELSE t.first[m]
           /\ v.last[m] = IF m = p /\ a = NULL THEN c ELSE t.last[m]
  BY <1>2 DEF Inserted
<1>6. /\ u \in Trees
      /\ \A m \in Things :
           /\ u.parent[m] = IF m = o THEN NULL ELSE IF m = c THEN p ELSE t.parent[m]
           /\ u.prev[m] = IF m = o THEN NULL ELSE IF m = a THEN c
                             ELSE IF m = c THEN b ELSE t.prev[m]
           /\ u.next[m] = IF m = o THEN NULL ELSE IF m = b THEN c
                             ELSE IF m = c THEN a ELSE t.next[m]
           /\ u.first[m] = IF m = p /\ b = NULL THEN c ELSE t.first[m]
           /\ u.last[m] = IF m = p /\ a = NULL THEN c ELSE t.last[m]
  BY <1>1, SwapFields
<1>7. /\ w \in Trees
      /\ \A m \in Things :
           /\ w.parent[m] = IF m = o THEN NULL ELSE v.parent[m]
           /\ w.prev[m] = IF m = o THEN NULL
                          ELSE IF v.parent[o] # NULL /\ m = v.next[o] THEN v.prev[o] ELSE v.prev[m]
           /\ w.next[m] = IF m = o THEN NULL
                          ELSE IF v.parent[o] # NULL /\ m = v.prev[o] THEN v.next[o] ELSE v.next[m]
           /\ w.first[m] = IF m = v.parent[o] /\ v.first[m] = o THEN v.next[o] ELSE v.first[m]
           /\ w.last[m] = IF m = v.parent[o] /\ v.last[m] = o THEN v.prev[o] ELSE v.last[m]
  BY <1>1, <1>5, DetachFields
<1> HIDE DEF u, v, w
<1>8. v.parent[o] = p /\ v.prev[o] = b /\ v.next[o] = c
  BY <1>1, <1>4, <1>5
<1>9. \A m \in Things : u.parent[m] = w.parent[m] /\ u.prev[m] = w.prev[m] /\ u.next[m] = w.next[m]
  <2> HIDE DEF p, a, b
  <2> QED BY <1>1, <1>4, <1>5, <1>6, <1>7, <1>8
<1>10. \A m \in Things : u.first[m] = w.first[m] /\ u.last[m] = w.last[m]
  <2> HIDE DEF p, a, b
  <2> QED BY <1>1, <1>4, <1>5, <1>6, <1>7, <1>8
<1>11. u = w
  BY <1>6, <1>7, <1>9, <1>10, TreesEqual
<1> QED BY <1>3, <1>11 DEF u, v, w

-----------------------------------------------------------------------------
(* Nodes made and given back.                                              *)

LEMMA NewGood ==
  ASSUME NEW t, NEW L, NEW G, Good(t, L, G), NEW n \in Nodes \ (L \cup G)
  PROVE  Good(t, L \cup {n}, G)
<1> DEFINE M == L \cup {n}
<1>1. /\ t.parent[n] = NULL /\ t.first[n] = NULL /\ t.last[n] = NULL
      /\ t.prev[n] = NULL /\ t.next[n] = NULL
  BY DEF Good, FreshAt, LooseAt
<1>2. MutualAt(t, M)
  BY <1>1 DEF Good, MutualAt
<1>3. EndsAt(t, M)
  <2>1. ASSUME NEW m \in M, t.parent[m] # NULL
        PROVE  /\ HolderAt(M, t.parent[m])
               /\ t.prev[m] = NULL => t.first[t.parent[m]] = m
               /\ t.next[m] = NULL => t.last[t.parent[m]] = m
    BY <1>1, <2>1 DEF Good, EndsAt, HolderAt
  <2>2. ASSUME NEW x \in M \cup {Doc}
        PROVE  /\ t.first[x] # NULL =>
                    t.first[x] \in M /\ t.parent[t.first[x]] = x /\ t.prev[t.first[x]] = NULL
               /\ t.last[x] # NULL =>
                    t.last[x] \in M /\ t.parent[t.last[x]] = x /\ t.next[t.last[x]] = NULL
               /\ t.first[x] = NULL <=> t.last[x] = NULL
    BY <1>1, <2>2 DEF Good, EndsAt
  <2> QED BY <2>1, <2>2 DEF EndsAt
<1>4. ListedAt(t, M)
  <2> SUFFICES ASSUME NEW x \in M \cup {Doc}, NEW m \in M, t.parent[m] = x
               PROVE  m \in Run(t, t.first[x])
    BY DEF ListedAt
  <2>1. x # NULL /\ m # n
    BY <1>1, DomAssumption DEF Good
  <2>2. x # n
    <3>1. HolderAt(L, x)
      BY <2>1 DEF Good, EndsAt
    <3> QED BY <3>1, DomAssumption DEF HolderAt
  <2> QED BY <2>1, <2>2 DEF Good, ListedAt
<1>5. FreshAt(t, M, G)
  BY DEF Good, FreshAt
<1> QED BY <1>2, <1>3, <1>4, <1>5 DEF Good

(* u is t for the nodes that are kept, with the list of p cut after b: the *)
(* nodes B given back are the rest of that list and all below it.          *)
Kept(t, u, L, B, p, b) ==
  /\ u \in Trees
  /\ \A m \in L \ B :
       /\ u.parent[m] = t.parent[m] /\ u.prev[m] = t.prev[m]
       /\ u.next[m] = IF m = b THEN NULL ELSE t.next[m]
  /\ \A x \in (L \ B) \cup {Doc} :
       /\ u.first[x] = IF x = p /\ b = NULL THEN NULL ELSE t.first[x]
       /\ u.last[x] = IF x = p THEN b ELSE t.last[x]

Tail(t, L, B, p, b) ==
  /\ p \in (L \ B) \cup {Doc} /\ B \subseteq Nodes
  /\ \A k \in B \cap L : t.parent[k] \in B \cup {p}
  /\ \A m \in L \ B : t.parent[m] \notin B
  /\ \A m \in L \ B : t.parent[m] = p => t.prev[m] \notin B
  /\ \A m \in L \ B : t.parent[m] = p /\ m # b => t.next[m] \in L \ B
  /\ b = NULL => \A m \in L \ B : t.parent[m] # p
  /\ b # NULL => b \in L \ B /\ t.parent[b] = p /\ t.next[b] \in B

LEMMA CutGood ==
  ASSUME NEW t, NEW L, NEW G, Good(t, L, G), NEW B, NEW p, NEW b, Tail(t, L, B, p, b),
         NEW u, Kept(t, u, L, B, p, b), LooseAt(u, G \cup B),
         AcyclicAt(u), FreshAt(u, L \ B, G \cup B)
  PROVE  Good(u, L \ B, G \cup B)
<1> DEFINE M == L \ B
<1>1. t \in Trees /\ L \subseteq Nodes /\ NULL \notin Things /\ NULL \notin Nodes
      /\ Doc \notin Nodes /\ G \cap L = {} /\ Nodes \subseteq Things /\ Doc \in Things
      /\ p \in M \cup {Doc} /\ p \in Things /\ M \subseteq L /\ p # NULL
      /\ B \subseteq Nodes /\ NULL \notin B /\ Doc \notin B
  BY GoodFacts DEF Tail
<1>2. /\ \A m \in M : u.parent[m] = t.parent[m] /\ u.prev[m] = t.prev[m]
      /\ \A m \in M : u.next[m] = IF m = b THEN NULL ELSE t.next[m]
      /\ \A x \in M \cup {Doc} : u.first[x] = IF x = p /\ b = NULL THEN NULL ELSE t.first[x]
      /\ \A x \in M \cup {Doc} : u.last[x] = IF x = p THEN b ELSE t.last[x]
  BY DEF Kept
<1>3. /\ \A m \in L : t.prev[m] \in L \cup {NULL} /\ t.next[m] \in L \cup {NULL}
      /\ \A m \in L : t.next[m] # NULL => t.prev[t.next[m]] = m /\ t.parent[t.next[m]] = t.parent[m]
      /\ \A m \in L : t.prev[m] # NULL => t.next[t.prev[m]] = m /\ t.parent[t.prev[m]] = t.parent[m]
      /\ \A m \in L : t.prev[m] # NULL \/ t.next[m] # NULL => t.parent[m] # NULL
  BY PlaceFacts DEF Good, MutualAt
<1>4. /\ \A k \in B \cap L : t.parent[k] \in B \cup {p}
      /\ \A m \in M : t.parent[m] \notin B
      /\ \A m \in M : t.parent[m] = p => t.prev[m] \notin B
      /\ \A m \in M : t.parent[m] = p /\ m # b => t.next[m] \in M
      /\ b = NULL => \A m \in M : t.parent[m] # p
      /\ b # NULL => b \in M /\ t.parent[b] = p /\ t.next[b] \in B
  BY DEF Tail
<1>5. \A m \in M : t.prev[m] \in M \cup {NULL} /\ (m # b => t.next[m] \in M \cup {NULL})
  BY <1>1, <1>3, <1>4
<1>6. MutualAt(u, M)
  <2>1. ASSUME NEW m \in M, u.next[m] # NULL
        PROVE  u.next[m] \in M /\ u.prev[u.next[m]] = m /\ u.parent[u.next[m]] = u.parent[m]
    BY <1>1, <1>2, <1>3, <1>5, <2>1
  <2>2. ASSUME NEW m \in M, u.prev[m] # NULL
        PROVE  u.prev[m] \in M /\ u.next[u.prev[m]] = m /\ u.parent[u.prev[m]] = u.parent[m]
    <3>1. t.prev[m] # b
      <4>1. SUFFICES ASSUME t.prev[m] = b PROVE FALSE
        OBVIOUS
      <4>2. b # NULL /\ t.next[b] = m /\ t.parent[m] = p
        BY <1>1, <1>2, <1>3, <1>4, <2>2, <4>1
      <4> QED BY <1>1, <1>4, <4>1, <4>2
    <3> QED BY <1>1, <1>2, <1>3, <1>5, <2>2, <3>1
  <2> QED BY <2>1, <2>2 DEF MutualAt
<1>7. EndsAt(u, M)
  <2>1. ASSUME NEW m \in M, u.parent[m] # NULL
        PROVE  /\ HolderAt(M, u.parent[m])
               /\ u.prev[m] = NULL => u.first[u.parent[m]] = m
               /\ u.next[m] = NULL => u.last[u.parent[m]] = m
    <3>1. u.parent[m] = t.parent[m] /\ t.parent[m] # NULL
      BY <1>2, <2>1
    <3>2. /\ HolderAt(L, t.parent[m])
          /\ t.prev[m] = NULL => t.first[t.parent[m]] = m
          /\ t.next[m] = NULL => t.last[t.parent[m]] = m
      BY <1>1, <3>1 DEF Good, EndsAt
    <3>3. HolderAt(M, t.parent[m]) /\ t.parent[m] \in M \cup {Doc}
      BY <1>4, <3>2 DEF HolderAt
    <3>4. u.prev[m] = NULL => u.first[t.parent[m]] = m
      BY <1>2, <1>4, <3>2, <3>3
    <3>5. u.next[m] = NULL => u.last[t.parent[m]] = m
      BY <1>1, <1>2, <1>4, <3>2, <3>3
    <3> QED BY <3>1, <3>3, <3>4, <3>5
  <2>2. ASSUME NEW x \in M \cup {Doc}
        PROVE  /\ u.first[x] # NULL =>
                    u.first[x] \in M /\ u.parent[u.first[x]] = x /\ u.prev[u.first[x]] = NULL
               /\ u.last[x] # NULL =>
                    u.last[x] \in M /\ u.parent[u.last[x]] = x /\ u.next[u.last[x]] = NULL
               /\ u.first[x] = NULL <=> u.last[x] = NULL
    <3>1. /\ x \in Things /\ x # NULL
          /\ t.first[x] \in L \cup {NULL} /\ t.last[x] \in L \cup {NULL}
          /\ t.first[x] # NULL => t.parent[t.first[x]] = x /\ t.prev[t.first[x]] = NULL
          /\ t.last[x] # NULL => t.parent[t.last[x]] = x /\ t.next[t.last[x]] = NULL
          /\ t.first[x] = NULL <=> t.last[x] = NULL
          /\ t.first[x] = NULL => \A n \in L : t.parent[n] # x
      BY EndFacts
    <3>2. CASE x # p
      <4>1. x \notin B
        BY <1>1
      <4>2. t.first[x] \notin B /\ t.last[x] \notin B
        BY <1>1, <1>4, <3>1, <3>2, <4>1
      <4>3. b # NULL => t.last[x] # b
        BY <1>4, <3>1, <3>2
      <4> QED BY <1>2, <3>1, <3>2, <4>2, <4>3
    <3>3. CASE x = p /\ b = NULL
      BY <1>2, <3>3
    <3>4. CASE x = p /\ b # NULL
      <4>1. t.first[p] # NULL
        BY <1>4, <3>1, <3>4
      <4>2. t.first[p] \notin B
        <5>1. SUFFICES ASSUME t.first[p] \in B PROVE FALSE
          OBVIOUS
        <5> DEFINE S == {k \in B \cap L : t.parent[k] = p}
        <5>2. t.first[p] \in S
          BY <3>1, <3>4, <4>1, <5>1
        <5>3. \A k \in Nodes \cap S : t.next[k] \in Nodes => t.next[k] \in S
          <6>1. ASSUME NEW k \in S, t.next[k] \in Nodes PROVE t.next[k] \in S
            <7>1. t.next[k] \in L /\ t.prev[t.next[k]] = k /\ t.parent[t.next[k]] = p
              BY <1>1, <1>3, <6>1
            <7> QED BY <1>4, <6>1, <7>1
          <6> QED BY <6>1
        <5> HIDE DEF S
        <5>4. b \in Run(t, t.first[p])
          BY <1>4, <3>4 DEF Good, ListedAt
        <5>5. b \in S
          BY <5>2, <5>3, <5>4, RunClosed
        <5> QED BY <1>4, <3>4, <5>5 DEF S
      <4> QED BY <1>2, <1>4, <3>1, <3>4, <4>1, <4>2
    <3> QED BY <3>2, <3>3, <3>4
  <2> QED BY <2>1, <2>2 DEF EndsAt
<1>8. ListedAt(u, M)
  <2> SUFFICES ASSUME NEW x \in M \cup {Doc}, NEW m \in M, u.parent[m] = x
               PROVE  m \in Run(u, u.first[x])
    BY DEF ListedAt
  <2>1. m \in Nodes /\ x \in L \cup {Doc} /\ x # NULL /\ t.parent[m] = x
    BY <1>1, <1>2
  <2>2. ASSUME NEW S \in SUBSET (Nodes \cup {u.first[x]}), u.first[x] \in S,
               \A k \in Nodes \cap S : u.next[k] \in Nodes => u.next[k] \in S
        PROVE  m \in S
    <3> DEFINE T == {k \in L : t.parent[k] = x /\ k \in S \cup B} \cup ({NULL} \cap S)
    <3>1. t.first[x] \in L \cup {NULL} /\ (t.first[x] # NULL => t.parent[t.first[x]] = x)
      BY <2>1, EndFacts
    <3>2. u.first[x] = t.first[x]
      BY <1>2, <1>4, <2>1
    <3>3. t.first[x] \in T
      BY <2>2, <3>1, <3>2
    <3>4. ASSUME NEW k \in Nodes \cap T, t.next[k] \in Nodes PROVE t.next[k] \in T
      <4>1. k \in L /\ t.parent[k] = x /\ k \in S \cup B
        BY <1>1, <3>4
      <4>2. t.next[k] \in L /\ t.prev[t.next[k]] = k /\ t.parent[t.next[k]] = x /\ t.next[k] # NULL
        BY <1>1, <1>3, <3>4, <4>1
      <4>3. CASE t.next[k] \in B
        BY <4>2, <4>3
      <4>4. CASE t.next[k] \notin B
        <5>1. k \notin B
          BY <1>4, <2>1, <4>1, <4>2, <4>4
        <5>2. k # b
          BY <1>1, <1>4, <4>1, <4>4
        <5>3. u.next[k] = t.next[k] /\ k \in S
          BY <1>2, <4>1, <5>1, <5>2
        <5> QED BY <2>2, <3>4, <4>2, <5>3
      <4> QED BY <4>3, <4>4
    <3> HIDE DEF T
    <3>5. m \in Run(t, t.first[x])
      BY <2>1 DEF Good, ListedAt
    <3>6. m \in T
      BY <3>3, <3>4, <3>5, RunClosed
    <3> QED BY <1>1, <2>1, <3>6 DEF T
  <2> QED BY <2>1, <2>2, RunMeets
<1>9. M \cap (G \cup B) = {} /\ M \subseteq Nodes
  BY <1>1
<1>10. G \cup B \subseteq Nodes /\ u \in Trees
  BY <1>1 DEF Good, Kept
<1> QED BY <1>6, <1>7, <1>8, <1>9, <1>10 DEF Good

LEMMA DropGood ==
  ASSUME NEW t, NEW L, NEW G, Good(t, L, G), NEW B \in SUBSET Nodes,
         \A k \in B \cap L : t.parent[k] \in B \cup {NULL},
         \A m \in L \ B : t.parent[m] \notin B
  PROVE  Good(t, L \ B, G \cup B)
<1> DEFINE M == L \ B
<1>1. \A m \in M : t.prev[m] \notin B /\ t.next[m] \notin B
  <2>1. ASSUME NEW m \in M PROVE t.prev[m] \notin B /\ t.next[m] \notin B
    <3>1. /\ t.prev[m] \in L \cup {NULL} /\ t.next[m] \in L \cup {NULL}
          /\ t.next[m] # NULL => t.parent[t.next[m]] = t.parent[m]
          /\ t.prev[m] # NULL => t.parent[t.prev[m]] = t.parent[m]
          /\ t.prev[m] # NULL \/ t.next[m] # NULL => t.parent[m] # NULL
          /\ NULL \notin B
      BY PlaceFacts, GoodFacts DEF Good, MutualAt
    <3> QED BY <3>1
  <2> QED BY <2>1
<1>2. \A x \in M \cup {Doc} : t.first[x] \notin B /\ t.last[x] \notin B
  <2>1. ASSUME NEW x \in M \cup {Doc} PROVE t.first[x] \notin B /\ t.last[x] \notin B
    <3>1. /\ t.first[x] \in L \cup {NULL} /\ t.last[x] \in L \cup {NULL}
          /\ t.first[x] # NULL => t.parent[t.first[x]] = x
          /\ t.last[x] # NULL => t.parent[t.last[x]] = x
          /\ x # NULL /\ x \notin B /\ NULL \notin B
      BY EndFacts, GoodFacts
    <3> QED BY <3>1
  <2> QED BY <2>1
<1>3. MutualAt(t, M)
  BY <1>1 DEF Good, MutualAt
<1>4. LooseAt(t, G \cup B)
  BY DEF Good, LooseAt
<1>5. EndsAt(t, M)
  <2>1. ASSUME NEW m \in M, t.parent[m] # NULL
        PROVE  /\ HolderAt(M, t.parent[m])
               /\ t.prev[m] = NULL => t.first[t.parent[m]] = m
               /\ t.next[m] = NULL => t.last[t.parent[m]] = m
    BY <2>1 DEF Good, EndsAt, HolderAt
  <2>2. ASSUME NEW x \in M \cup {Doc}
        PROVE  /\ t.first[x] # NULL =>
                    t.first[x] \in M /\ t.parent[t.first[x]] = x /\ t.prev[t.first[x]] = NULL
               /\ t.last[x] # NULL =>
                    t.last[x] \in M /\ t.parent[t.last[x]] = x /\ t.next[t.last[x]] = NULL
               /\ t.first[x] = NULL <=> t.last[x] = NULL
    BY <1>2, <2>2 DEF Good, EndsAt
  <2> QED BY <2>1, <2>2 DEF EndsAt
<1>6. ListedAt(t, M)
  BY DEF Good, ListedAt
<1>7. FreshAt(t, M, G \cup B)
  BY DEF Good, FreshAt
<1> QED BY <1>3, <1>4, <1>5, <1>6, <1>7 DEF Good

(* The walk from n on stays among the siblings of n.                       *)
LEMMA RunIn ==
  ASSUME NEW t, NEW L, NEW G, Good(t, L, G), NEW n \in L, NEW m \in Run(t, n)
  PROVE  m \in L /\ t.parent[m] = t.parent[n]
<1> DEFINE S == {k \in L : t.parent[k] = t.parent[n]}
<1>1. \A k \in Nodes \cap S : t.next[k] \in Nodes => t.next[k] \in S
  BY GoodFacts DEF Good, MutualAt
<1>2. n \in S
  OBVIOUS
<1> HIDE DEF S
<1>3. m \in S
  BY <1>1, <1>2, RunClosed
<1> QED BY <1>3 DEF S

(* It meets a node after n from the sibling before that node.              *)
LEMMA RunUp ==
  ASSUME NEW t, NEW L, NEW G, Good(t, L, G), NEW n \in L, NEW m \in Run(t, n), m # n
  PROVE  t.prev[m] \in Run(t, n)
<1> SUFFICES ASSUME t.prev[m] \notin Run(t, n) PROVE FALSE
  OBVIOUS
<1> DEFINE S == Run(t, n) \ {m}
<1>1. n \in S
  BY RunSelf, GoodFacts
<1>2. ASSUME NEW k \in Nodes \cap S, t.next[k] \in Nodes PROVE t.next[k] \in S
  <2>1. t.next[k] \in Run(t, n)
    BY <1>2, RunNext
  <2>2. t.next[k] # m
    BY <1>2, RunIn, GoodFacts DEF Good, MutualAt
  <2> QED BY <2>1, <2>2
<1> HIDE DEF S
<1>3. m \in S
  BY <1>1, <1>2, RunClosed
<1> QED BY <1>3 DEF S

(* ... and never comes back to the node before n: a list is no ring.       *)
LEMMA NoRing ==
  ASSUME NEW t, NEW L, NEW G, Good(t, L, G), NEW n \in L
  PROVE  t.prev[n] \notin Run(t, n)
<1> SUFFICES ASSUME t.prev[n] \in Run(t, n) PROVE FALSE
  OBVIOUS
<1> DEFINE p == t.parent[n]  f == t.first[p]
<1>1. t.prev[n] # NULL /\ p # NULL /\ p \in L \cup {Doc}
  BY RunIn, GoodFacts, PlaceFacts DEF HolderAt
<1>2. n \in Run(t, f) /\ f \in L /\ t.parent[f] = p /\ t.prev[f] = NULL
  BY <1>1, EndFacts DEF Good, ListedAt
<1>3. \A k \in Run(t, n) : t.prev[k] \in Run(t, n)
  BY RunUp
<1>4. f \notin Run(t, n)
  BY <1>2, <1>3, RunIn, GoodFacts
<1> DEFINE S == L \ Run(t, n)
<1>5. ASSUME NEW k \in Nodes \cap S, t.next[k] \in Nodes PROVE t.next[k] \in S
  BY <1>3, <1>5, GoodFacts DEF Good, MutualAt
<1>6. f \in S
  BY <1>2, <1>4
<1> HIDE DEF S, f
<1>7. n \in S
  BY <1>2, <1>5, <1>6, RunClosed
<1> QED BY <1>7, RunSelf DEF S, Good

(* The walk from a child on reaches the last child.                        *)
LEMMA LastMet ==
  ASSUME NEW t, NEW L, NEW G, Good(t, L, G), NEW n \in L, t.parent[n] # NULL
  PROVE  t.last[t.parent[n]] \in Run(t, n)
<1> DEFINE p == t.parent[n]  f == t.first[p]  l == t.last[p]
           W == {k \in L : t.parent[k] = p /\ l \notin Run(t, k)}
<1>1. p \in L \cup {Doc} /\ p # NULL
  BY PlaceFacts DEF HolderAt
<1>2. /\ f \in L /\ t.parent[f] = p /\ l \in L /\ t.parent[l] = p /\ t.next[l] = NULL
  BY <1>1, EndFacts
<1>3. ASSUME NEW k \in W, t.next[k] \in Nodes PROVE t.next[k] \in W
  <2>1. t.next[k] \in L /\ t.parent[t.next[k]] = p
    BY <1>3, GoodFacts DEF Good, MutualAt
  <2>2. ASSUME l \in Run(t, t.next[k]) PROVE FALSE
    <3> DEFINE S == Run(t, k)
    <3>1. \A j \in Nodes \cap S : t.next[j] \in Nodes => t.next[j] \in S
      BY RunNext
    <3>2. t.next[k] \in S
      BY <1>3, RunSelf, RunNext, GoodFacts
    <3> HIDE DEF S
    <3>3. l \in S
      BY <2>2, <3>1, <3>2, RunClosed
    <3> QED BY <1>3, <3>3 DEF S
  <2> QED BY <2>1, <2>2
<1>4. ASSUME NEW k \in L, t.next[k] \in W PROVE k \in W
  <2>1. t.parent[k] = p /\ t.next[k] \in Nodes /\ t.next[k] # NULL /\ k \in Nodes
    BY <1>4, GoodFacts DEF Good, MutualAt
  <2>2. ASSUME l \in Run(t, k) PROVE FALSE
    <3> DEFINE S == Run(t, t.next[k]) \cup {k}
    <3>1. \A j \in Nodes \cap S : t.next[j] \in Nodes => t.next[j] \in S
      BY <2>1, RunNext, RunSelf
    <3>2. k \in S
      OBVIOUS
    <3> HIDE DEF S
    <3>3. l \in S
      BY <2>2, <3>1, <3>2, RunClosed
    <3>4. l # k
      BY <1>2, <2>1
    <3> QED BY <1>4, <3>3, <3>4 DEF S
  <2> QED BY <1>4, <2>1, <2>2
<1>5. l \notin W /\ l \in Nodes
  BY <1>2, RunSelf, GoodFacts
<1>6. ASSUME n \in W PROVE FALSE
  <2>1. CASE f \in W
    <3>1. l \in Run(t, f)
      BY <1>1, <1>2 DEF Good, ListedAt
    <3> HIDE DEF W
    <3>2. l \in W
      BY <1>3, <2>1, <3>1, RunClosed
    <3> QED BY <1>5, <3>2
  <2>2. CASE f \notin W
    <3> DEFINE S == L \ W
    <3>1. n \in Run(t, f)
      BY <1>1 DEF Good, ListedAt
    <3>2. f \in S
      BY <1>2, <2>2
    <3>3. \A k \in Nodes \cap S : t.next[k] \in Nodes => t.next[k] \in S
      BY <1>4, GoodFacts DEF Good, MutualAt
    <3> HIDE DEF S, W, f
    <3>4. n \in S
      BY <3>1, <3>2, <3>3, RunClosed
    <3> QED BY <1>6, <3>4 DEF S
  <2> QED BY <2>1, <2>2
<1> QED BY <1>6

(* Where xmlAddSibling links: the last sibling of n.                       *)
LEMMA TailFacts ==
  ASSUME NEW t, NEW L, NEW G, Good(t, L, G), NEW n \in L, t.parent[n] # NULL
  PROVE  TailOf(t, n) \in L /\ t.parent[TailOf(t, n)] = t.parent[n]
<1>1. t.next[t.last[t.parent[n]]] = NULL
  BY PlaceFacts, EndFacts DEF HolderAt
<1>2. TailOf(t, n) \in Run(t, n)
  BY <1>1, LastMet DEF TailOf
<1> QED BY <1>2, RunIn

-----------------------------------------------------------------------------
(* The calls keep a good tree good.                                        *)

(* Taking c out of its list takes nothing new below it.                    *)
LEMMA DetachBelow ==
  ASSUME NEW t \in Trees, NEW c \in Nodes, NEW x, x \notin BelowAt(t, c)
  PROVE  x \notin BelowAt(Detach(t, c), c)
<1> DEFINE u == Detach(t, c)  S == BelowAt(t, c)
<1>1. \A m \in Nodes : u.parent[m] = IF m = c THEN NULL ELSE t.parent[m]
  BY DetachFields DEF Things
<1>2. c \in S
  BY BelowSelf
<1>3. ASSUME NEW k \in Nodes, u.parent[k] \in S PROVE k \in S
  <2>1. CASE k = c
    BY <1>2, <2>1
  <2>2. CASE k # c
    BY <1>1, <1>3, <2>2, BelowDown
  <2> QED BY <2>1, <2>2
<1> HIDE DEF S, u
<1>4. BelowAt(u, c) \subseteq S
  BY <1>2, <1>3, BelowClosed
<1> QED BY <1>4 DEF S, u

LEMMA Detached ==
  ASSUME NEW t, NEW L, NEW G, Good(t, L, G), NEW c \in L
  PROVE  /\ Good(Detach(t, c), L, G)
         /\ Detach(t, c).parent[c] = NULL
         /\ \A m \in L : m # c => Detach(t, c).parent[m] = t.parent[m]
<1>1. t \in Trees /\ c \in Nodes /\ L \subseteq Things
  BY GoodFacts
<1>2. \A m \in Things : Detach(t, c).parent[m] = IF m = c THEN NULL ELSE t.parent[m]
  BY <1>1, DetachFields
<1> QED BY <1>1, <1>2, DetachGood

LEMMA AddChildGood ==
  ASSUME NEW t, NEW L, NEW G, Good(t, L, G), NEW c \in L,
         NEW p, HolderAt(L, p), p \notin BelowAt(t, c)
  PROVE  Good(AppendTo(Detach(t, c), p, c), L, G)
<1>1. p \notin BelowAt(Detach(t, c), c)
  BY DetachBelow, GoodFacts
<1> QED BY <1>1, Detached, AppendGood

(* The parent of n, c elsewhere, is not below c.                           *)
LEMMA BesideFacts ==
  ASSUME NEW t, NEW L, NEW G, Good(t, L, G), NEW c \in L, NEW n \in L, n # c,
         n \notin BelowAt(t, c)
  PROVE  /\ Detach(t, c).parent[n] = t.parent[n]
         /\ Detach(t, c).parent[n] \notin BelowAt(Detach(t, c), c)
<1>1. t.parent[n] \notin BelowAt(t, c)
  BY BelowDown, GoodFacts
<1> QED BY <1>1, Detached, DetachBelow, GoodFacts

LEMMA NextSiblingGood ==
  ASSUME NEW t, NEW L, NEW G, Good(t, L, G), NEW c \in L, NEW n \in L, n # c,
         n \notin BelowAt(t, c), t.parent[n] # NULL
  PROVE  Good(LinkAfter(Detach(t, c), n, c), L, G)
BY Detached, BesideFacts, LinkAfterGood

LEMMA PrevSiblingGood ==
  ASSUME NEW t, NEW L, NEW G, Good(t, L, G), NEW c \in L, NEW n \in L, n # c,
         n \notin BelowAt(t, c), t.parent[n] # NULL
  PROVE  Good(LinkBefore(Detach(t, c), n, c), L, G)
BY Detached, BesideFacts, LinkBeforeGood

LEMMA ReplaceGood ==
  ASSUME NEW t, NEW L, NEW G, Good(t, L, G), NEW c \in L, NEW o \in L, o # c,
         o \notin BelowAt(t, c)
  PROVE  Good(IF Detach(t, c).parent[o] = NULL THEN Detach(t, c)
              ELSE Swap(Detach(t, c), o, c), L, G)
BY Detached, BesideFacts, SwapGood

LEMMA TailBeside ==
  ASSUME NEW t, NEW L, NEW G, Good(t, L, G), NEW c \in L, NEW n \in L,
         t.parent[n] # NULL, n \in BelowAt(t, c) => n = c
  PROVE  /\ TailOf(t, n) \in L /\ t.parent[TailOf(t, n)] # NULL
         /\ TailOf(t, n) # c => TailOf(t, n) \notin BelowAt(t, c)
<1> DEFINE m == TailOf(t, n)
<1>1. m \in L /\ t.parent[m] = t.parent[n] /\ m \in Nodes /\ n \in Nodes /\ c \in Nodes
  BY TailFacts, GoodFacts
<1> HIDE DEF m
<1>2. ASSUME m # c, m \in BelowAt(t, c) PROVE FALSE
  <2>1. t.parent[n] \in BelowAt(t, c)
    BY <1>1, <1>2, BelowUp
  <2>2. n = c
    BY <1>1, <2>1, BelowDown
  <2> QED BY <1>1, <2>1, <2>2 DEF Good, AcyclicAt
<1> QED BY <1>1, <1>2 DEF m

LEMMA FreeGood ==
  ASSUME NEW t, NEW L, NEW G, Good(t, L, G), NEW n \in L
  PROVE  Good(Detach(t, n), L \ BelowAt(t, n), G \cup BelowAt(t, n))
<1> DEFINE u == Detach(t, n)  B == BelowAt(t, n)
<1>1. Good(u, L, G) /\ u.parent[n] = NULL /\ \A m \in L : m # n => u.parent[m] = t.parent[m]
  BY Detached
<1>2. B \in SUBSET Nodes /\ NULL \notin B /\ L \subseteq Nodes
  BY GoodFacts DEF BelowAt
<1>3. ASSUME NEW k \in B \cap L PROVE u.parent[k] \in B \cup {NULL}
  BY <1>1, <1>2, BelowUp
<1>4. ASSUME NEW m \in L \ B PROVE u.parent[m] \notin B
  <2>1. m # n
    BY <1>2, BelowSelf
  <2> QED BY <1>1, <1>2, <2>1, BelowDown
<1> HIDE DEF u, B
<1>5. Good(u, L \ B, G \cup B)
  BY <1>1, <1>2, <1>3, <1>4, DropGood
<1> QED BY <1>5 DEF u, B

LEMMA ClearGood ==
  ASSUME NEW t, NEW L, NEW G, Good(t, L, G), NEW e \in L
  PROVE  LET u == Emptied(t, e)  B == BelowAt(t, e) \ {e}
         IN Good(u, L \ B, G \cup B) /\ Tail(t, L, B, e, NULL) /\ Kept(t, u, L, B, e, NULL)
<1> DEFINE u == Emptied(t, e)  B == BelowAt(t, e) \ {e}
<1>1. e \in Nodes /\ t \in Trees /\ L \subseteq Nodes /\ Nodes \subseteq Things /\ Doc \in Things
      /\ NULL \notin Nodes /\ B \subseteq Nodes /\ NULL \notin Things
  BY GoodFacts DEF BelowAt
<1>2. /\ u \in Trees
      /\ \A m \in Things :
           /\ u.parent[m] = t.parent[m] /\ u.prev[m] = t.prev[m] /\ u.next[m] = t.next[m]
           /\ u.first[m] = IF m = e THEN NULL ELSE t.first[m]
           /\ u.last[m] = IF m = e THEN NULL ELSE t.last[m]
  BY <1>1, EmptiedFields
<1>3. Tail(t, L, B, e, NULL)
  <2>1. \A k \in B \cap L : t.parent[k] \in B \cup {e}
    BY <1>1, BelowUp
  <2>2. ASSUME NEW m \in L \ B PROVE t.parent[m] \notin BelowAt(t, e)
    <3>1. m \in Nodes
      BY <1>1
    <3> QED BY <3>1, BelowDown DEF Good, AcyclicAt
  <2>3. e \in BelowAt(t, e)
    BY <1>1, BelowSelf
  <2> QED BY <1>1, <2>1, <2>2, <2>3 DEF Tail
<1>4. Kept(t, u, L, B, e, NULL)
  BY <1>1, <1>2 DEF Kept
<1>5. LooseAt(u, G \cup B)
  BY <1>1, <1>2 DEF Good, LooseAt
<1>6. AcyclicAt(u)
  <2>1. \A m \in Nodes \ {NULL} : u.parent[m] \in {t.parent[m], NULL}
    BY <1>1, <1>2
  <2> HIDE DEF u
  <2> QED BY <1>1, <2>1, HangAcyclic DEF Good
<1>7. FreshAt(u, L \ B, G \cup B)
  BY <1>1, <1>2 DEF Good, FreshAt
<1> HIDE DEF u, B
<1>8. Good(u, L \ B, G \cup B)
  BY <1>3, <1>4, <1>5, <1>6, <1>7, CutGood
<1> QED BY <1>3, <1>4, <1>8 DEF u, B

LEMMA DetachRunFields ==
  ASSUME NEW t \in Trees, NEW n \in Nodes
  PROVE  LET u == DetachRun(t, n)  S == Run(t, n)  p == t.parent[n]  b == t.prev[n] IN
         /\ u \in Trees
         /\ \A m \in Things :
              /\ u.parent[m] = IF m \in S THEN NULL ELSE t.parent[m]
              /\ u.prev[m] = IF m \in S THEN NULL ELSE t.prev[m]
              /\ u.next[m] = IF m \in S \/ (p # NULL /\ m = b) THEN NULL ELSE t.next[m]
              /\ u.first[m] = IF m = p /\ t.first[m] \in S THEN NULL ELSE t.first[m]
              /\ u.last[m] = IF m = p /\ t.last[m] \in S THEN b ELSE t.last[m]
BY DomAssumption DEF DetachRun, Trees, Links, Things

LEMMA FreeListGood ==
  ASSUME NEW t, NEW L, NEW G, Good(t, L, G), NEW n \in L, t.parent[n] # NULL,
         NEW B, B = UNION {BelowAt(t, m) : m \in Run(t, n)}
  PROVE  /\ Good(DetachRun(t, n), L \ B, G \cup B)
         /\ Tail(t, L, B, t.parent[n], t.prev[n])
         /\ Kept(t, DetachRun(t, n), L, B, t.parent[n], t.prev[n])
<1> DEFINE u == DetachRun(t, n)  S == Run(t, n)  p == t.parent[n]  b == t.prev[n]
<1>1. n \in Nodes /\ t \in Trees /\ L \subseteq Nodes /\ Nodes \subseteq Things /\ Doc \in Things
      /\ NULL \notin Nodes /\ B \subseteq Nodes /\ NULL \notin Things /\ p \in L \cup {Doc}
      /\ p # NULL /\ Doc \notin Nodes
  BY GoodFacts, PlaceFacts DEF BelowAt, HolderAt
<1>2. /\ u \in Trees
      /\ \A m \in Things :
           /\ u.parent[m] = IF m \in S THEN NULL ELSE t.parent[m]
           /\ u.prev[m] = IF m \in S THEN NULL ELSE t.prev[m]
           /\ u.next[m] = IF m \in S \/ (p # NULL /\ m = b) THEN NULL ELSE t.next[m]
           /\ u.first[m] = IF m = p /\ t.first[m] \in S THEN NULL ELSE t.first[m]
           /\ u.last[m] = IF m = p /\ t.last[m] \in S THEN b ELSE t.last[m]
  BY <1>1, DetachRunFields
<1>3. /\ \A m \in S : m \in L /\ t.parent[m] = p
      /\ \A m \in S : m # n => t.prev[m] \in S
      /\ b \notin S /\ n \in S /\ t.last[p] \in S
  BY <1>1, RunIn, RunUp, NoRing, RunSelf, LastMet
<1>4. S \subseteq B
  BY <1>1, <1>3, BelowSelf
<1>5. ASSUME NEW m \in S PROVE p \notin BelowAt(t, m)
  BY <1>1, <1>3, <1>5 DEF Good, AcyclicAt
<1>6. p \notin B
  BY <1>5
<1>7. ASSUME NEW k \in B, t.parent[k] = p PROVE k \in S
  <2>1. PICK m \in S : k \in BelowAt(t, m)
    OBVIOUS
  <2>2. m \in Nodes
    BY <1>1, <1>3
  <2> HIDE DEF S
  <2> QED BY <1>5, <1>7, <2>1, <2>2, BelowUp
<1>8. /\ \A m \in L : t.prev[m] \in L \cup {NULL} /\ t.next[m] \in L \cup {NULL}
      /\ \A m \in L : t.next[m] # NULL => t.prev[t.next[m]] = m /\ t.parent[t.next[m]] = t.parent[m]
      /\ \A m \in L : t.prev[m] # NULL => t.next[t.prev[m]] = m /\ t.parent[t.prev[m]] = t.parent[m]
  BY PlaceFacts DEF Good, MutualAt
<1>9. Tail(t, L, B, p, b)
  <2>1. ASSUME NEW k \in B \cap L PROVE t.parent[k] \in B \cup {p}
    <3>1. PICK m \in S : k \in BelowAt(t, m)
      OBVIOUS
    <3>2. m \in Nodes /\ t.parent[m] = p
      BY <1>1, <1>3
    <3>3. k # m => t.parent[k] \in BelowAt(t, m)
      BY <3>1, <3>2, BelowUp
    <3> QED BY <3>1, <3>2, <3>3
  <2>2. ASSUME NEW m \in L \ B, t.parent[m] \in B PROVE FALSE
    <3>1. PICK k \in S : t.parent[m] \in BelowAt(t, k)
      BY <2>2
    <3>2. m \in BelowAt(t, k)
      BY <1>1, <3>1, BelowDown
    <3> QED BY <3>1, <3>2
  <2> HIDE DEF S
  <2>3. ASSUME NEW m \in L \ B, t.parent[m] = p, t.prev[m] \in B PROVE FALSE
    <3>1. t.parent[t.prev[m]] = p /\ t.next[t.prev[m]] = m
      BY <1>1, <1>8, <2>3
    <3>2. t.prev[m] \in S
      BY <1>7, <2>3, <3>1
    <3>3. m \in S
      BY <1>1, <3>1, <3>2, RunNext DEF S
    <3> QED BY <1>4, <2>3, <3>3
  <2>4. ASSUME NEW m \in L \ B, t.parent[m] = p, m # b PROVE t.next[m] \in L \ B
    <3>1. t.next[m] # NULL
      BY <1>1, <1>3, <1>4, <2>4 DEF Good, EndsAt
    <3>2. t.next[m] \in L /\ t.prev[t.next[m]] = m /\ t.parent[t.next[m]] = p
      BY <1>8, <2>4, <3>1
    <3>3. t.next[m] \notin S
      BY <1>3, <1>4, <2>4, <3>2
    <3> QED BY <1>7, <3>2, <3>3
  <2>5. ASSUME b = NULL, NEW m \in L \ B, t.parent[m] = p PROVE FALSE
    <3>1. t.first[p] = n /\ m \in Run(t, t.first[p])
      BY <1>1, <2>5 DEF Good, EndsAt, ListedAt
    <3> QED BY <1>4, <2>5, <3>1 DEF S
  <2>6. b # NULL => b \in L \ B /\ t.parent[b] = p /\ t.next[b] \in B
    BY <1>3, <1>4, <1>7, <1>8
  <2> QED BY <1>1, <1>6, <2>1, <2>2, <2>3, <2>4, <2>5, <2>6 DEF Tail
<1>10. Kept(t, u, L, B, p, b)
  <2> HIDE DEF u, S, p, b
  <2>1. ASSUME NEW m \in L \ B
        PROVE  /\ u.parent[m] = t.parent[m] /\ u.prev[m] = t.prev[m]
               /\ u.next[m] = IF m = b THEN NULL ELSE t.next[m]
    BY <1>1, <1>2, <1>4, <2>1
  <2>2. b = NULL => t.first[p] \in S
    BY <1>1, <1>3 DEF Good, EndsAt, p, b
  <2>3. b # NULL => t.first[p] \notin S
    <3>1. SUFFICES ASSUME b # NULL, t.first[p] \in S PROVE FALSE
      OBVIOUS
    <3>2. t.prev[t.first[p]] = NULL /\ t.first[p] # n
      BY <1>1, <1>3, <3>1, EndFacts DEF b
    <3> QED BY <1>1, <1>3, <3>1, <3>2
  <2>4. ASSUME NEW x \in (L \ B) \cup {Doc}
        PROVE  /\ u.first[x] = IF x = p /\ b = NULL THEN NULL ELSE t.first[x]
               /\ u.last[x] = IF x = p THEN b ELSE t.last[x]
    BY <1>1, <1>2, <1>3, <2>2, <2>3, <2>4
  <2> QED BY <1>2, <2>1, <2>4 DEF Kept
<1>11. LooseAt(u, G \cup B)
  <2> HIDE DEF u, S, p, b
  <2> QED BY <1>1, <1>2, <1>4 DEF Good, LooseAt
<1>12. AcyclicAt(u)
  <2>1. \A m \in Nodes \ {NULL} : u.parent[m] \in {t.parent[m], NULL}
    BY <1>1, <1>2
  <2> HIDE DEF u
  <2> QED BY <1>1, <2>1, HangAcyclic DEF Good
<1>13. FreshAt(u, L \ B, G \cup B)
  <2> HIDE DEF u, S, p, b
  <2>1. ASSUME NEW m \in Nodes \ ((L \ B) \cup (G \cup B))
        PROVE  u.parent[m] = NULL /\ u.first[m] = NULL /\ u.last[m] = NULL
    <3>1. /\ t.parent[m] = NULL /\ t.first[m] = NULL /\ t.last[m] = NULL
          /\ m \in Things /\ m \notin S /\ m # p
      BY <1>1, <1>4 DEF Good, FreshAt
    <3> QED BY <1>2, <3>1
  <2> QED BY <2>1 DEF FreshAt
<1> HIDE DEF u, S, p, b
<1>14. Good(u, L \ B, G \cup B)
  BY <1>9, <1>10, <1>11, <1>12, <1>13, CutGood
<1> QED BY <1>9, <1>10, <1>14 DEF u, p, b

(* A node without a parent is a run of its own.                            *)
LEMMA FreeLoneGood ==
  ASSUME NEW t, NEW L, NEW G, Good(t, L, G), NEW n \in L, t.parent[n] = NULL,
         NEW B, B = UNION {BelowAt(t, m) : m \in Run(t, n)}
  PROVE  /\ Good(DetachRun(t, n), L \ B, G \cup B)
         /\ B = BelowAt(t, n) /\ DetachRun(t, n) = Detach(t, n)
<1>1. n \in Nodes /\ t \in Trees /\ NULL \notin Nodes /\ NULL \notin Things /\ n # NULL
      /\ t.next[n] = NULL /\ t.prev[n] = NULL
  BY GoodFacts, PlaceFacts
<1>2. Run(t, n) = {n}
  <2>1. \A k \in Nodes \cap {n} : t.next[k] \in Nodes => t.next[k] \in {n}
    BY <1>1
  <2>2. n \in Run(t, n) /\ \A m \in Run(t, n) : m \in {n}
    BY <1>1, <2>1, RunSelf, RunClosed
  <2> QED BY <2>2
<1> DEFINE u == DetachRun(t, n)  w == Detach(t, n)
<1>3. /\ u \in Trees
      /\ \A m \in Things :
           /\ u.parent[m] = IF m \in {n} THEN NULL ELSE t.parent[m]
           /\ u.prev[m] = IF m \in {n} THEN NULL ELSE t.prev[m]
           /\ u.next[m] = IF m \in {n} \/ (t.parent[n] # NULL /\ m = t.prev[n]) THEN NULL ELSE t.next[m]
           /\ u.first[m] = IF m = t.parent[n] /\ t.first[m] \in {n} THEN NULL ELSE t.first[m]
           /\ u.last[m] = IF m = t.parent[n] /\ t.last[m] \in {n} THEN t.prev[n] ELSE t.last[m]
  <2> HIDE DEF u
  <2> QED BY <1>1, <1>2, DetachRunFields DEF u
<1>4. /\ w \in Trees
      /\ \A m \in Things :
           /\ w.parent[m] = IF m = n THEN NULL ELSE t.parent[m]
           /\ w.prev[m] = IF m = n THEN NULL
                          ELSE IF t.parent[n] # NULL /\ m = t.next[n] THEN t.prev[n] ELSE t.prev[m]
           /\ w.next[m] = IF m = n THEN NULL
                          ELSE IF t.parent[n] # NULL /\ m = t.prev[n] THEN t.next[n] ELSE t.next[m]
           /\ w.first[m] = IF m = t.parent[n] /\ t.first[m] = n THEN t.next[n] ELSE t.first[m]
           /\ w.last[m] = IF m = t.parent[n] /\ t.last[m] = n THEN t.prev[n] ELSE t.last[m]
  BY <1>1, DetachFields
<1> HIDE DEF u, w
<1>5. u = w
  BY <1>1, <1>3, <1>4, TreesEqual
<1>6. B = BelowAt(t, n)
  BY <1>2
<1> QED BY <1>5, <1>6, FreeGood DEF u, w

(* A root in place of a root that is alone is a replacement, a root in an  *)
(* empty document an append.                                               *)
LEMMA RootGood ==
  ASSUME NEW t, NEW L, NEW G, Good(t, L, G), NEW r \in L, t.parent[r] = NULL,
         t.first[Doc] = t.last[Doc], t.first[Doc] \in Elements \cup {NULL}
  PROVE  /\ Good(RootTree(t, r), L, G)
         /\ RootTree(t, r) = IF t.first[Doc] = NULL THEN AppendTo(t, Doc, r)
                             ELSE Swap(t, t.first[Doc], r)
<1> DEFINE u == RootTree(t, r)  f == t.first[Doc]
<1>1. /\ r \in Nodes /\ r \in Things /\ r # NULL /\ r # Doc /\ t \in Trees /\ NULL \notin Nodes
      /\ NULL \notin Things /\ Doc \in Things /\ Doc \notin Nodes /\ t.prev[r] = NULL
      /\ t.next[r] = NULL /\ f \in L \cup {NULL} /\ L \subseteq Nodes /\ Nodes \subseteq Things
      /\ Elements \subseteq Nodes
  BY GoodFacts, PlaceFacts, EndFacts, DomAssumption
<1>2. Doc \notin BelowAt(t, r)
  BY <1>1 DEF BelowAt
<1>3. OldRoot(t) = f
  <2>1. f # NULL => t.next[f] = NULL
    BY <1>1, EndFacts
  <2>2. \A k \in Nodes \cap {f} : t.next[k] \in Nodes => t.next[k] \in {f}
    BY <1>1, <2>1
  <2>3. \A m \in Run(t, f) : m \in {f}
    BY <2>2, RunClosed
  <2>4. CASE f = NULL
    <3>1. Run(t, f) \cap Elements = {}
      BY <1>1, <2>3, <2>4
    <3> QED BY <2>4, <3>1 DEF OldRoot
  <2>5. CASE f # NULL
    <3>1. f \in Run(t, f) /\ f \in Elements
      BY <1>1, <2>5, RunSelf
    <3>2. Run(t, f) \cap Elements = {f} /\ Run(t, f) = {f}
      BY <2>3, <3>1
    <3>3. \E x \in {f} : {f} \subseteq Run(t, x)
      BY <3>2
    <3>4. (CHOOSE x \in {f} : {f} \subseteq Run(t, x)) = f
      BY <3>3
    <3> QED BY <3>2, <3>4 DEF OldRoot
  <2> QED BY <2>4, <2>5
<1>4. /\ u \in Trees
      /\ \A m \in Things :
           /\ u.parent[m] = IF m = r THEN Doc ELSE IF m = f THEN NULL ELSE t.parent[m]
           /\ u.prev[m] = IF m = r \/ m = f THEN NULL ELSE t.prev[m]
           /\ u.next[m] = IF m = r \/ m = f THEN NULL ELSE t.next[m]
           /\ u.first[m] = IF m = Doc THEN r ELSE t.first[m]
           /\ u.last[m] = IF m = Doc THEN r ELSE t.last[m]
  BY <1>1, <1>3 DEF RootTree, Trees, Links
<1>5. CASE f = NULL
  <2> DEFINE w == AppendTo(t, Doc, r)
  <2>1. t.last[Doc] = NULL
    BY <1>5
  <2>2. /\ w \in Trees
        /\ \A m \in Things :
             /\ w.parent[m] = IF m = r THEN Doc ELSE t.parent[m]
             /\ w.prev[m] = IF m = r /\ t.last[Doc] # NULL THEN t.last[Doc] ELSE t.prev[m]
             /\ w.next[m] = IF m = t.last[Doc] THEN r ELSE t.next[m]
             /\ w.first[m] = IF m = Doc /\ t.last[Doc] = NULL THEN r ELSE t.first[m]
             /\ w.last[m] = IF m = Doc THEN r ELSE t.last[m]
    BY <1>1, AppendFields
  <2> HIDE DEF u, w, f
  <2>3. u = w
    BY <1>1, <1>4, <1>5, <2>1, <2>2, TreesEqual
  <2>4. Good(w, L, G)
    BY <1>2, AppendGood DEF w, HolderAt
  <2> QED BY <1>5, <2>3, <2>4 DEF u, w, f
<1>6. CASE f # NULL
  <2> DEFINE w == Swap(t, f, r)
  <2>1. /\ f \in L /\ f # r /\ t.parent[f] = Doc /\ t.prev[f] = NULL /\ t.next[f] = NULL
        /\ f \in Nodes /\ f # NULL /\ f \in Things
    BY <1>1, <1>6, EndFacts
  <2>2. /\ w \in Trees
        /\ \A m \in Things :
             /\ w.parent[m] = IF m = f THEN NULL ELSE IF m = r THEN t.parent[f] ELSE t.parent[m]
             /\ w.prev[m] = IF m = f THEN NULL ELSE IF m = t.next[f] THEN r
                               ELSE IF m = r THEN t.prev[f] ELSE t.prev[m]
             /\ w.next[m] = IF m = f THEN NULL ELSE IF m = t.prev[f] THEN r
                               ELSE IF m = r THEN t.next[f] ELSE t.next[m]
             /\ w.first[m] = IF m = t.parent[f] /\ t.prev[f] = NULL THEN r ELSE t.first[m]
             /\ w.last[m] = IF m = t.parent[f] /\ t.next[f] = NULL THEN r ELSE t.last[m]
    BY <1>1, <2>1, SwapFields
  <2>3. Good(w, L, G)
    BY <1>1, <1>2, <2>1, SwapGood
  <2> HIDE DEF u, w, f
  <2>4. u = w
    BY <1>1, <1>4, <2>1, <2>2, TreesEqual
  <2> QED BY <1>6, <2>3, <2>4 DEF u, w, f
<1> QED BY <1>5, <1>6

(* A child new in the tree, under a holder of the tree.                    *)
(* A node not yet made is above no holder of children.                     *)
LEMMA NewNotAbove ==
  ASSUME NEW t, NEW L, NEW G, Good(t, L, G), NEW c \in Nodes \ (L \cup G),
         NEW p, HolderAt(L, p)
  PROVE  p \notin BelowAt(t, c)
<1> DEFINE S == Nodes \ L
<1>1. ASSUME NEW k \in Nodes, t.parent[k] \in S PROVE k \in S
  <2>1. k \in L => t.parent[k] \notin Nodes \/ t.parent[k] \in L
    BY DomAssumption DEF Good, EndsAt, HolderAt
  <2> QED BY <1>1, <2>1
<1>2. c \in S /\ p \notin S
  BY GoodFacts DEF HolderAt
<1> HIDE DEF S
<1> QED BY <1>1, <1>2, BelowClosed

LEMMA AppendNewGood ==
  ASSUME NEW t, NEW L, NEW G, Good(t, L, G), NEW c \in Nodes \ (L \cup G),
         NEW p, HolderAt(L, p)
  PROVE  Good(AppendTo(t, p, c), L \cup {c}, G)
<1>1. Good(t, L \cup {c}, G) /\ t.parent[c] = NULL
  BY NewGood DEF Good, FreshAt
<1>2. HolderAt(L \cup {c}, p) /\ p # c /\ p \in L \cup {Doc}
  BY DomAssumption DEF HolderAt
<1>3. p \notin BelowAt(t, c)
  BY NewNotAbove
<1> QED BY <1>1, <1>2, <1>3, AppendGood

-----------------------------------------------------------------------------
(* Every call keeps the invariant.                                         *)

LEMMA TreeIs == \A n : Below(n) = BelowAt(tree, n)
BY DEF Below, BelowAt

LEMMA InitIInv == Init => IInv
<1> SUFFICES ASSUME Init PROVE IInv
  OBVIOUS
<1>1. /\ tree \in Trees /\ live = {} /\ gone = {}
      /\ \A x \in Things : /\ tree.parent[x] = NULL /\ tree.prev[x] = NULL
                           /\ tree.next[x] = NULL /\ tree.first[x] = NULL
                           /\ tree.last[x] = NULL
  BY DEF Init, Trees, Links
<1>2. Nodes \subseteq Things /\ Doc \in Things /\ NULL \notin Nodes
  BY DomAssumption DEF Things
<1>3. MutualAt(tree, live) /\ LooseAt(tree, gone) /\ EndsAt(tree, live)
  BY <1>1, <1>2 DEF MutualAt, LooseAt, EndsAt
<1>4. ListedAt(tree, live) /\ FreshAt(tree, live, gone)
  BY <1>1, <1>2 DEF ListedAt, FreshAt
<1>5. AcyclicAt(tree)
  BY <1>1, <1>2 DEF AcyclicAt, BelowAt
<1> QED BY <1>1, <1>3, <1>4, <1>5 DEF IInv, Good

LEMMA NextIInv ==
  ASSUME IInv, [Next]_vars
  PROVE  IInv'
<1> USE DEF IInv
<1>1. \A n : Below(n) = BelowAt(tree, n)
  BY TreeIs
<1>2. \A x : Holder(x) = HolderAt(live, x)
  BY DEF Holder, HolderAt
<1>3. live \subseteq Nodes
  BY GoodFacts
<1>4. ASSUME NEW n \in Nodes, NewNode(n) PROVE IInv'
  BY <1>4, NewGood DEF NewNode
<1>5. ASSUME NEW n \in Nodes, Unlink(n) PROVE IInv'
  BY <1>5, DetachGood DEF Unlink
<1>6. ASSUME NEW n \in Nodes, FreeNode(n) PROVE IInv'
  BY <1>1, <1>6, FreeGood DEF FreeNode, GiveBack
<1>7. ASSUME NEW n \in Nodes, FreeNodeList(n) PROVE IInv'
  <2> DEFINE B == UNION {Below(m) : m \in Run(tree, n)}
  <2>1. B = UNION {BelowAt(tree, m) : m \in Run(tree, n)}
    BY <1>1
  <2>2. n \in live /\ tree' = DetachRun(tree, n) /\ live' = live \ B /\ gone' = gone \cup B
    BY <1>7 DEF FreeNodeList, GiveBack
  <2> HIDE DEF B
  <2>3. Good(DetachRun(tree, n), live \ B, gone \cup B)
    BY <2>1, <2>2, FreeListGood, FreeLoneGood
  <2> QED BY <2>2, <2>3
<1>8. ASSUME NEW n \in Nodes, ClearContent(n) PROVE IInv'
  BY <1>1, <1>8, ClearGood DEF ClearContent, GiveBack
<1>9. ASSUME NEW n \in Nodes, SetRoot(n) PROVE IInv'
  BY <1>9, RootGood DEF SetRoot, SetRootAny
<1>10. ASSUME NEW p \in Things, NEW c \in Nodes, AddChild(p, c) PROVE IInv'
  BY <1>1, <1>2, <1>10, AddChildGood DEF AddChild, AddChildTree
<1>11. ASSUME NEW n \in Nodes, NEW c \in Nodes, AddNextSibling(n, c) PROVE IInv'
  BY <1>1, <1>11, NextSiblingGood DEF AddNextSibling, InList, NextSiblingAny, Beside, NextSiblingTree
<1>12. ASSUME NEW n \in Nodes, NEW c \in Nodes, AddPrevSibling(n, c) PROVE IInv'
  BY <1>1, <1>12, PrevSiblingGood DEF AddPrevSibling, InList, PrevSiblingAny, Beside, PrevSiblingTree
<1>13. ASSUME NEW n \in Nodes, NEW c \in Nodes, AddSibling(n, c) PROVE IInv'
  <2> DEFINE m == TailOf(tree, n)
  <2>1. /\ n \in live /\ c \in live /\ tree.parent[n] # NULL
        /\ n \in BelowAt(tree, c) => n = c
        /\ tree' = IF m = c THEN tree ELSE LinkAfter(Detach(tree, c), m, c)
        /\ live' = live /\ gone' = gone
    BY <1>1, <1>13 DEF AddSibling, InList, AddSiblingAny, NextSiblingTree
  <2>2. m \in live /\ tree.parent[m] # NULL /\ (m # c => m \notin BelowAt(tree, c))
    BY <2>1, TailBeside
  <2> HIDE DEF m
  <2> QED BY <2>1, <2>2, NextSiblingGood
<1>14. ASSUME NEW o \in Nodes, NEW c \in Nodes, Replace(o, c) PROVE IInv'
  BY <1>1, <1>14, ReplaceGood DEF Replace, Beside, ReplaceTree
<1>15. ASSUME NEW e \in Nodes, NEW txt \in Nodes, SetContent(e, txt) PROVE IInv'
  <2> DEFINE B == BelowAt(tree, e) \ {e}  L == live \ B
  <2>1. /\ e \in live /\ e \in Elements /\ txt \in Nodes /\ txt \notin live \cup gone
        /\ tree' = AppendTo(Emptied(tree, e), e, txt)
        /\ live' = L \cup {txt} /\ gone' = gone \cup B
    BY <1>1, <1>15 DEF SetContent
  <2>2. Good(Emptied(tree, e), L, gone \cup B)
    BY <2>1, ClearGood
  <2>3. txt \notin B
    <3>1. tree.parent[txt] = NULL
      BY <2>1 DEF Good, FreshAt
    <3>2. NULL \notin BelowAt(tree, e)
      BY DomAssumption DEF BelowAt
    <3> QED BY <2>1, <3>1, <3>2, BelowUp
  <2>4. HolderAt(L, e)
    BY <2>1 DEF HolderAt
  <2> HIDE DEF L, B
  <2>5. txt \in Nodes \ (L \cup (gone \cup B))
    BY <2>1, <2>3 DEF L
  <2> QED BY <2>1, <2>2, <2>4, <2>5, AppendNewGood
<1>16. ASSUME NEW e \in Nodes, NEW txt \in Nodes, AddContent(e, txt) PROVE IInv'
  BY <1>16, AppendNewGood DEF AddContent, HolderAt
<1>17. ASSUME UNCHANGED vars PROVE IInv'
  BY <1>17 DEF vars
<1> QED
  BY <1>4, <1>5, <1>6, <1>7, <1>8, <1>9, <1>10, <1>11, <1>12, <1>13, <1>14, <1>15, <1>16,
     <1>17 DEF Next

LEMMA TreeInvariance == Spec => []IInv
<1>1. IInv /\ [Next]_vars => IInv'
  BY NextIInv
<1> QED BY InitIInv, <1>1, PTL DEF Spec

LEMMA GoodLinks == IInv => LinksOK
<1> SUFFICES ASSUME IInv PROVE LinksOK
  OBVIOUS
<1>1. TypeOK
  BY DEF IInv, Good, TypeOK
<1>2. Mutual
  BY GoodFacts DEF IInv, Good, Mutual, MutualAt
<1>3. Loose
  BY DEF IInv, Good, Loose, LooseAt
<1>4. Ends
  <2>1. \A x : Holder(x) = HolderAt(live, x)
    BY DEF Holder, HolderAt
  <2> QED BY <2>1 DEF IInv, Good, Ends, EndsAt
<1>5. Listed
  BY DEF IInv, Good, Listed, ListedAt
<1> QED BY <1>1, <1>2, <1>3, <1>4, <1>5 DEF LinksOK

(* The links of the tree agree after every sequence of relinking calls     *)
(* (mutate.rs): every link to a sibling is answered, the ends of each list *)
(* are right, the walk along a list meets every child, and no node in use  *)
(* points at one given back, for any number of nodes.                      *)
THEOREM LinksAgree == Spec => []LinksOK
BY TreeInvariance, GoodLinks, PTL

-----------------------------------------------------------------------------
(* A node put back in the gap it came out of.                              *)
LEMMA PutBack ==
  ASSUME NEW t, NEW L, NEW G, Good(t, L, G), NEW c \in L, t.parent[c] # NULL,
         NEW u, Inserted(Detach(t, c), u, t.parent[c], t.prev[c], t.next[c], c)
  PROVE  u = t
<1> DEFINE v == Detach(t, c)  p == t.parent[c]  b == t.prev[c]  a == t.next[c]
<1>1. /\ t \in Trees /\ c \in Nodes /\ c \in Things /\ c # NULL /\ NULL \notin Things
      /\ b # c /\ a # c /\ p # c /\ p \in L \cup {Doc} /\ p # NULL
      /\ a \in L \cup {NULL} /\ b \in L \cup {NULL} /\ L \subseteq Things
  BY GoodFacts, PlaceFacts DEF HolderAt
<1>2. \A m \in Things :
        /\ v.parent[m] = IF m = c THEN NULL ELSE t.parent[m]
        /\ v.prev[m] = IF m = c THEN NULL ELSE IF p # NULL /\ m = a THEN b ELSE t.prev[m]
        /\ v.next[m] = IF m = c THEN NULL ELSE IF p # NULL /\ m = b THEN a ELSE t.next[m]
        /\ v.first[m] = IF m = p /\ t.first[m] = c THEN a ELSE t.first[m]
        /\ v.last[m] = IF m = p /\ t.last[m] = c THEN b ELSE t.last[m]
  BY <1>1, DetachFields
<1>3. /\ u \in Trees
      /\ \A m \in Things :
           /\ u.parent[m] = IF m = c THEN p ELSE v.parent[m]
           /\ u.prev[m] = IF m = a THEN c ELSE IF m = c THEN b ELSE v.prev[m]
           /\ u.next[m] = IF m = b THEN c ELSE IF m = c THEN a ELSE v.next[m]
           /\ u.first[m] = IF m = p /\ b = NULL THEN c ELSE v.first[m]
           /\ u.last[m] = IF m = p /\ a = NULL THEN c ELSE v.last[m]
  BY DEF Inserted
<1>4. /\ a # NULL => t.prev[a] = c
      /\ b # NULL => t.next[b] = c
      /\ b = NULL <=> t.first[p] = c
      /\ a = NULL <=> t.last[p] = c
  BY <1>1, EndFacts DEF Good, MutualAt, EndsAt
<1> HIDE DEF v, p, b, a
<1>5. \A m \in Things : u.parent[m] = t.parent[m] /\ u.prev[m] = t.prev[m] /\ u.next[m] = t.next[m]
  BY <1>1, <1>2, <1>3, <1>4 DEF p, b, a
<1>6. \A m \in Things : u.first[m] = t.first[m] /\ u.last[m] = t.last[m]
  BY <1>1, <1>2, <1>3, <1>4
<1> QED BY <1>1, <1>3, <1>5, <1>6, TreesEqual

(* xmlAddNextSibling of the next sibling, xmlAddPrevSibling of the         *)
(* previous one, xmlAddChild of the last child and the calls of a node on  *)
(* itself, which lxml makes and expects to change nothing (mutate.rs),     *)
(* change nothing, in every reachable tree.                                *)
THEOREM RepeatedCallsKeepTheTree == Spec => InPlaceUnchanged
<1>1. ASSUME IInv, [Next]_vars, NEW n \in Nodes, NEW c \in Nodes,
             c \in {n, tree.prev[n]} /\ AddPrevSibling(n, c)
      PROVE  tree' = tree
  <2>1. /\ n \in live /\ c \in live /\ tree.parent[n] # NULL
        /\ tree' = IF n = c THEN tree ELSE LinkBefore(Detach(tree, c), n, c)
        /\ n \in BelowAt(tree, c) => n = c
    BY <1>1, TreeIs DEF AddPrevSibling, InList, PrevSiblingAny, Beside, PrevSiblingTree
  <2>2. CASE n # c
    <3> DEFINE v == Detach(tree, c)
    <3>1. /\ c = tree.prev[n] /\ tree.next[c] = n /\ tree.parent[c] = tree.parent[n]
          /\ c # NULL
      BY <1>1, <2>1, <2>2, GoodFacts DEF IInv, Good, MutualAt
    <3>2. /\ v \in Trees /\ v.parent[n] = tree.parent[n] /\ v.prev[n] = tree.prev[c]
      BY <1>1, <2>1, <2>2, <3>1, GoodFacts, DetachFields DEF IInv
    <3>3. Inserted(v, LinkBefore(v, n, c), v.parent[n], v.prev[n], n, c)
      <4> HIDE DEF v
      <4>1. ListOf(v, n) = v.parent[n] /\ \A m \in Things : m # NULL /\ n # NULL
        BY <2>1, <3>2, DomAssumption DEF ListOf, Things
      <4>2. /\ LinkBefore(v, n, c) \in Trees
            /\ \A m \in Things :
              /\ LinkBefore(v, n, c).parent[m] = IF m = c THEN v.parent[n] ELSE v.parent[m]
              /\ LinkBefore(v, n, c).next[m] = IF m = v.prev[n] THEN c
                                              ELSE IF m = c THEN n ELSE v.next[m]
              /\ LinkBefore(v, n, c).prev[m] = IF m = n THEN c
                                              ELSE IF m = c THEN v.prev[n] ELSE v.prev[m]
              /\ LinkBefore(v, n, c).last[m] = v.last[m]
              /\ LinkBefore(v, n, c).first[m] =
                   IF m = ListOf(v, n) /\ v.prev[n] = NULL THEN c ELSE v.first[m]
        BY <1>1, <2>2, <3>2, BeforeFields
      <4> QED BY <4>1, <4>2, DomAssumption DEF Inserted
    <3>4. LinkBefore(v, n, c) = tree
      BY <1>1, <2>1, <3>1, <3>2, <3>3, PutBack DEF IInv
    <3> QED BY <2>1, <2>2, <3>4
  <2> QED BY <2>1, <2>2
<1>2. ASSUME IInv, [Next]_vars, NEW n \in Nodes, NEW c \in Nodes,
             c \in {n, tree.next[n]} /\ AddNextSibling(n, c)
      PROVE  tree' = tree
  <2>1. /\ n \in live /\ c \in live /\ tree.parent[n] # NULL
        /\ tree' = IF n = c THEN tree ELSE LinkAfter(Detach(tree, c), n, c)
        /\ n \in BelowAt(tree, c) => n = c
    BY <1>2, TreeIs DEF AddNextSibling, InList, NextSiblingAny, Beside, NextSiblingTree
  <2>2. CASE n # c
    <3> DEFINE v == Detach(tree, c)
    <3>1. /\ c = tree.next[n] /\ tree.prev[c] = n /\ tree.parent[c] = tree.parent[n]
          /\ c # NULL
      BY <1>2, <2>1, <2>2, GoodFacts DEF IInv, Good, MutualAt
    <3>2. /\ v \in Trees /\ v.parent[n] = tree.parent[n] /\ v.next[n] = tree.next[c]
      BY <1>2, <2>1, <2>2, <3>1, GoodFacts, DetachFields DEF IInv
    <3>3. Inserted(v, LinkAfter(v, n, c), v.parent[n], n, v.next[n], c)
      <4> HIDE DEF v
      <4>1. ListOf(v, n) = v.parent[n] /\ \A m \in Things : m # NULL /\ n # NULL
        BY <2>1, <3>2, DomAssumption DEF ListOf, Things
      <4>2. /\ LinkAfter(v, n, c) \in Trees
            /\ \A m \in Things :
              /\ LinkAfter(v, n, c).parent[m] = IF m = c THEN v.parent[n] ELSE v.parent[m]
              /\ LinkAfter(v, n, c).prev[m] = IF m = v.next[n] THEN c
                                             ELSE IF m = c THEN n ELSE v.prev[m]
              /\ LinkAfter(v, n, c).next[m] = IF m = n THEN c
                                             ELSE IF m = c THEN v.next[n] ELSE v.next[m]
              /\ LinkAfter(v, n, c).first[m] = v.first[m]
              /\ LinkAfter(v, n, c).last[m] =
                   IF m = ListOf(v, n) /\ v.next[n] = NULL THEN c ELSE v.last[m]
        BY <1>2, <2>2, <3>2, AfterFields
      <4> QED BY <4>1, <4>2, DomAssumption DEF Inserted
    <3>4. LinkAfter(v, n, c) = tree
      BY <1>2, <2>1, <3>1, <3>2, <3>3, PutBack DEF IInv
    <3> QED BY <2>1, <2>2, <3>4
  <2> QED BY <2>1, <2>2
<1>3. ASSUME NEW n \in Nodes, NEW c \in Nodes, c = n /\ Replace(n, c)
      PROVE  tree' = tree
  BY <1>3 DEF Replace, ReplaceTree
<1>4. ASSUME IInv, NEW p \in Things, NEW c \in Nodes, tree.last[p] = c /\ AddChild(p, c)
      PROVE  tree' = tree
  <2> DEFINE v == Detach(tree, c)
  <2>1. /\ c \in live /\ HolderAt(live, p) /\ p \in live \cup {Doc} /\ p \notin BelowAt(tree, c)
        /\ tree' = AppendTo(v, p, c)
    BY <1>4, TreeIs DEF AddChild, AddChildTree, Holder, HolderAt
  <2>2. /\ tree.parent[c] = p /\ tree.next[c] = NULL /\ c # NULL /\ c \in Things /\ p \in Things
        /\ p # NULL /\ NULL \notin Things
    BY <1>4, <2>1, GoodFacts, EndFacts DEF IInv
  <2>3. /\ v \in Trees /\ v.last[p] = tree.prev[c] /\ v.next[c] = NULL /\ v.prev[c] = NULL
        /\ tree.prev[c] # c
    BY <1>4, <2>1, <2>2, GoodFacts, PlaceFacts, DetachFields DEF IInv
  <2>4. Inserted(v, AppendTo(v, p, c), p, v.last[p], NULL, c)
    <3> HIDE DEF v
    <3>1. \A m \in Things : m # NULL
      BY <2>2
    <3> QED BY <2>1, <2>2, <2>3, <3>1, AppendFields DEF Inserted
  <2>5. AppendTo(v, p, c) = tree
    BY <1>4, <2>1, <2>2, <2>3, <2>4, PutBack DEF IInv
  <2> QED BY <2>1, <2>5
<1>5. IInv /\ [Next]_vars =>
        [\A n, c \in Nodes :
           \/ c \in {n, tree.prev[n]} /\ AddPrevSibling(n, c)
           \/ c \in {n, tree.next[n]} /\ AddNextSibling(n, c)
           \/ c = n /\ Replace(n, c)
           \/ \E p \in Things : tree.last[p] = c /\ AddChild(p, c)
           => tree' = tree]_vars
  BY <1>1, <1>2, <1>3, <1>4
<1> QED BY <1>5, TreeInvariance, PTL DEF Spec, InPlaceUnchanged

-----------------------------------------------------------------------------
(* The refinement.  What each helper does to the walks along the lists,    *)
(* then to the sets that Forest speaks of.                                 *)

(* A walk meets nodes only.                                                *)
LEMMA RunNodes == ASSUME NEW t, NEW n PROVE Run(t, n) \subseteq Nodes
BY DEF Run

(* There is nothing to walk from NULL.                                     *)
LEMMA RunNull == ASSUME NEW t PROVE Run(t, NULL) = {}
<1>1. \A k \in Nodes \cap {NULL} : t.next[k] \in Nodes => t.next[k] \in {NULL}
  BY DomAssumption
<1>2. \A m \in Run(t, NULL) : m \in {NULL}
  BY <1>1, RunClosed
<1> QED BY <1>2, DomAssumption, RunNodes

(* The walk from a node met on a walk is the rest of that walk.            *)
LEMMA RunRest ==
  ASSUME NEW t, NEW n, NEW m \in Run(t, n)
  PROVE  Run(t, m) \subseteq Run(t, n)
<1> DEFINE S == Run(t, n)
<1>1. \A k \in Nodes \cap S : t.next[k] \in Nodes => t.next[k] \in S
  BY RunNext
<1>2. m \in S
  OBVIOUS
<1> HIDE DEF S
<1>3. ASSUME NEW k \in Run(t, m) PROVE k \in S
  BY <1>1, <1>2, RunClosed
<1> QED BY <1>3 DEF S

(* A walk is its first node and the walk from the next one.                *)
LEMMA RunStep ==
  ASSUME NEW t, NEW L, NEW G, Good(t, L, G), NEW n \in L
  PROVE  Run(t, n) = {n} \cup Run(t, t.next[n]) /\ n \notin Run(t, t.next[n])
<1> DEFINE S == {n} \cup Run(t, t.next[n])
<1>1. n \in Nodes /\ t.next[n] \in L \cup {NULL} /\ L \subseteq Nodes /\ NULL \notin Nodes
  BY GoodFacts, PlaceFacts
<1>2. \A k \in Nodes \cap S : t.next[k] \in Nodes => t.next[k] \in S
  BY <1>1, RunNext, RunSelf
<1>3. n \in S
  OBVIOUS
<1> HIDE DEF S
<1>4. ASSUME NEW k \in Run(t, n) PROVE k \in S
  BY <1>2, <1>3, RunClosed
<1>5. Run(t, t.next[n]) \subseteq Run(t, n)
  <2>1. CASE t.next[n] = NULL
    BY <2>1, RunNull
  <2>2. CASE t.next[n] # NULL
    BY <1>1, <2>2, RunSelf, RunNext, RunRest
  <2> QED BY <2>1, <2>2
<1>6. n \notin Run(t, t.next[n])
  <2>1. CASE t.next[n] = NULL
    BY <2>1, RunNull
  <2>2. CASE t.next[n] # NULL
    <3>1. t.next[n] \in L /\ t.prev[t.next[n]] = n
      BY <1>1, <2>2 DEF Good, MutualAt
    <3> QED BY <3>1, NoRing
  <2> QED BY <2>1, <2>2
<1> QED BY <1>1, <1>4, <1>5, <1>6, RunSelf DEF S

(* Of two siblings one is met from the other, and only one way.            *)
LEMMA RunOrder ==
  ASSUME NEW t, NEW L, NEW G, Good(t, L, G), NEW m \in L, NEW n \in L,
         t.parent[m] = t.parent[n], t.parent[n] # NULL
  PROVE  n \in Run(t, m) <=> (m = n \/ m \notin Run(t, n))
<1> DEFINE p == t.parent[n]  f == t.first[p]
<1>1. /\ p \in L \cup {Doc} /\ p # NULL /\ m \in Nodes /\ n \in Nodes /\ L \subseteq Nodes
      /\ NULL \notin Nodes
  BY PlaceFacts, GoodFacts DEF HolderAt
<1>2. m \in Run(t, f) /\ n \in Run(t, f) /\ f \in L /\ t.prev[f] = NULL
  BY <1>1, EndFacts DEF Good, ListedAt
<1>3. ASSUME m # n, n \in Run(t, m), m \in Run(t, n) PROVE FALSE
  <2>1. t.prev[m] \in Run(t, n)
    BY <1>3, RunUp
  <2>2. Run(t, n) \subseteq Run(t, m)
    BY <1>3, RunRest
  <2> QED BY <2>1, <2>2, NoRing
<1>4. ASSUME n \notin Run(t, m), m \notin Run(t, n) PROVE FALSE
  <2> DEFINE S == {k \in L : m \in Run(t, k) /\ n \in Run(t, k)}
  <2>1. f \in S
    BY <1>2
  <2>2. ASSUME NEW k \in Nodes \cap S, t.next[k] \in Nodes PROVE t.next[k] \in S
    <3>1. k \in L /\ m \in Run(t, k) /\ n \in Run(t, k)
      BY <2>2
    <3>2. k # m /\ k # n
      BY <1>4, <3>1
    <3>3. t.next[k] \in L
      BY <1>1, <2>2, <3>1, PlaceFacts
    <3>4. m \in Run(t, t.next[k]) /\ n \in Run(t, t.next[k])
      BY <3>1, <3>2, RunStep
    <3> QED BY <3>3, <3>4
  <2> HIDE DEF S
  <2>3. m \in S
    BY <1>2, <2>1, <2>2, RunClosed
  <2> QED BY <1>4, <2>3 DEF S
<1>5. m = n => n \in Run(t, m)
  BY <1>1, RunSelf
<1> QED BY <1>3, <1>4, <1>5

(* The children of x are what is met from its first child on.              *)
LEMMA KidsMet ==
  ASSUME NEW t, NEW L, NEW G, Good(t, L, G), NEW x \in L \cup {Doc}
  PROVE  Run(t, t.first[x]) = {n \in L : t.parent[n] = x}
<1>1. /\ t.first[x] \in L \cup {NULL} /\ x # NULL
      /\ t.first[x] # NULL => t.parent[t.first[x]] = x
      /\ t.first[x] = NULL => \A n \in L : t.parent[n] # x
  BY EndFacts
<1>2. CASE t.first[x] = NULL
  BY <1>1, <1>2, RunNull
<1>3. CASE t.first[x] # NULL
  <2>1. \A n \in Run(t, t.first[x]) : n \in L /\ t.parent[n] = x
    BY <1>1, <1>3, RunIn
  <2>2. \A n \in L : t.parent[n] = x => n \in Run(t, t.first[x])
    BY DEF Good, ListedAt
  <2> QED BY <2>1, <2>2
<1> QED BY <1>2, <1>3

-----------------------------------------------------------------------------
(* What the helpers do to the walks.                                       *)

(* Detaching c takes c out of every walk and leaves the rest of it.        *)
LEMMA DetachRuns ==
  ASSUME NEW t, NEW L, NEW G, Good(t, L, G), NEW c \in L, NEW m \in L, m # c
  PROVE  Run(Detach(t, c), m) = Run(t, m) \ {c}
<1> DEFINE u == Detach(t, c)  p == t.parent[c]  b == t.prev[c]  a == t.next[c]
<1>1. /\ t \in Trees /\ c \in Nodes /\ m \in Nodes /\ L \subseteq Nodes /\ Nodes \subseteq Things
      /\ NULL \notin Nodes /\ c # NULL
      /\ a \in L \cup {NULL} /\ b \in L \cup {NULL} /\ a # c /\ b # c
      /\ b # NULL => t.next[b] = c /\ p # NULL
      /\ a # NULL => t.prev[a] = c /\ p # NULL
  BY GoodFacts, PlaceFacts DEF Good, MutualAt
<1>2. Good(u, L, G) /\ \A k \in Things :
        /\ u.next[k] = IF k = c THEN NULL ELSE IF p # NULL /\ k = b THEN a ELSE t.next[k]
        /\ u.prev[k] = IF k = c THEN NULL ELSE IF p # NULL /\ k = a THEN b ELSE t.prev[k]
  BY <1>1, DetachGood, DetachFields
<1> HIDE DEF u
<1>3. ASSUME NEW k \in L, t.next[k] = c PROVE k = b
  BY <1>1, <1>3 DEF Good, MutualAt
<1>4. ASSUME NEW k \in Run(u, m) PROVE k \in Run(t, m) \ {c}
  <2> DEFINE S == Run(t, m) \ {c}
  <2>1. m \in S
    BY <1>1, RunSelf
  <2>2. ASSUME NEW j \in Nodes \cap S, u.next[j] \in Nodes PROVE u.next[j] \in S
    <3>1. j \in L /\ j \in Run(t, m) /\ j # c /\ j \in Things
      BY <1>1, <2>2, RunIn
    <3>2. CASE j = b
      <4>1. u.next[j] = a /\ t.next[j] = c
        BY <1>1, <1>2, <3>1, <3>2
      <4>2. c \in Run(t, m)
        BY <1>1, <3>1, <4>1, RunNext
      <4> QED BY <1>1, <2>2, <4>1, <4>2, RunNext
    <3>3. CASE j # b
      <4>1. u.next[j] = t.next[j] /\ t.next[j] # c
        BY <1>2, <1>3, <3>1, <3>3
      <4> QED BY <2>2, <3>1, <4>1, RunNext
    <3> QED BY <3>2, <3>3
  <2> HIDE DEF S
  <2>3. k \in S
    BY <1>4, <2>1, <2>2, RunClosed
  <2> QED BY <2>3 DEF S
<1>5. c \notin Run(u, m)
  BY <1>1, <1>2, RunUp, RunNodes
<1>6. ASSUME NEW k \in Run(t, m), k # c PROVE k \in Run(u, m)
  <2> DEFINE S == Run(u, m) \cup {j \in {c} : b \in Run(u, m)}
  <2>1. m \in S
    BY <1>1, RunSelf
  <2>2. ASSUME NEW j \in Nodes \cap S, t.next[j] \in Nodes PROVE t.next[j] \in S
    <3>1. CASE j = c
      <4>1. b \in Run(u, m) /\ b \in Nodes /\ t.next[j] = a /\ a # NULL
        BY <1>1, <1>5, <2>2, <3>1, RunNodes
      <4>2. u.next[b] = a
        BY <1>1, <1>2, <4>1
      <4> QED BY <2>2, <4>1, <4>2, RunNext
    <3>2. CASE j # c
      <4>1. j \in Run(u, m) /\ j \in L /\ j \in Things
        BY <1>1, <1>2, <2>2, <3>2, RunIn
      <4>2. CASE j = b
        BY <1>1, <4>1, <4>2
      <4>3. CASE j # b
        <5>1. u.next[j] = t.next[j]
          BY <1>2, <3>2, <4>1, <4>3
        <5> QED BY <2>2, <4>1, <5>1, RunNext
      <4> QED BY <4>2, <4>3
    <3> QED BY <3>1, <3>2
  <2> HIDE DEF S
  <2>3. k \in S
    BY <2>1, <2>2, RunClosed
  <2> QED BY <1>6, <2>3 DEF S
<1> QED BY <1>4, <1>6 DEF u

(* A node without a parent is alone.                                       *)
LEMMA LoneRun ==
  ASSUME NEW t, NEW L, NEW G, Good(t, L, G), NEW c \in L, t.parent[c] = NULL
  PROVE  Run(t, c) = {c}
<1>1. t.next[c] = NULL
  BY PlaceFacts
<1> QED BY <1>1, RunStep, RunNull

(* Linking c into a gap puts c into the walks that cross the gap.          *)
LEMMA InsertRuns ==
  ASSUME NEW t, NEW L, NEW G, Good(t, L, G), NEW c \in L, t.parent[c] = NULL,
         NEW p, NEW b, NEW a, Gap(t, L, p, b, a), p \notin BelowAt(t, c),
         NEW u, Inserted(t, u, p, b, a, c)
  PROVE  /\ Run(u, c) = {c} \cup Run(t, a)
         /\ c \notin Run(t, a)
         /\ \A m \in L \ {c} :
              Run(u, m) = Run(t, m) \cup {k \in {c} : t.parent[m] = p /\ m \notin Run(t, a)}
<1>1. /\ c \in Nodes /\ L \subseteq Nodes /\ Nodes \subseteq Things /\ NULL \notin Nodes
      /\ c # NULL /\ t.prev[c] = NULL /\ t.next[c] = NULL
      /\ p \in L \cup {Doc} /\ p # NULL
  BY GoodFacts, PlaceFacts DEF Gap, HolderAt
<1>2. Good(u, L, G) /\ \A m \in Things : u.next[m] = IF m = b THEN c ELSE IF m = c THEN a ELSE t.next[m]
  BY InsertGood DEF Inserted
<1>3. /\ b \in L \cup {NULL} /\ a \in L \cup {NULL} /\ a # c /\ b # c
      /\ b # NULL => t.parent[b] = p /\ t.next[b] = a
      /\ a # NULL => t.parent[a] = p /\ t.prev[a] = b
      /\ b = NULL => t.first[p] = a
      /\ a = NULL => t.last[p] = b
  BY <1>1 DEF Gap
<1>4. ASSUME NEW m, m \in L \ {c} \/ m = a PROVE c \notin Run(t, m)
  <2>1. CASE m = NULL
    BY <2>1, RunNull
  <2>2. CASE m # NULL
    <3>1. m \in L /\ m # c
      BY <1>3, <1>4, <2>2
    <3> QED BY <1>1, <3>1, RunUp, RunNodes
  <2> QED BY <2>1, <2>2
<1>5. b \notin Run(t, a)
  <2>1. CASE a = NULL
    BY <2>1, RunNull
  <2>2. CASE a # NULL
    BY <1>3, <2>2, NoRing
  <2> QED BY <2>1, <2>2
(* A walk of u follows what a walk of t follows.                           *)
<1>6. ASSUME NEW m, NEW k \in Nodes \cap Run(u, m), t.next[k] \in Nodes
      PROVE  t.next[k] \in Run(u, m)
  <2>1. CASE k = b
    <3>1. u.next[k] = c /\ u.next[c] = a /\ t.next[k] = a
      BY <1>1, <1>2, <1>3, <1>6, <2>1
    <3>2. c \in Run(u, m)
      BY <1>1, <3>1, RunNext
    <3> QED BY <1>6, <3>1, <3>2, RunNext
  <2>2. CASE k # b
    <3>1. k # c /\ u.next[k] = t.next[k]
      BY <1>1, <1>2, <1>6, <2>2
    <3> QED BY <1>6, <3>1, RunNext
  <2> QED BY <2>1, <2>2
<1>7. ASSUME NEW m, NEW j \in Run(u, m) PROVE Run(t, j) \subseteq Run(u, m)
  <2> DEFINE S == Run(u, m)
  <2>1. \A k \in Nodes \cap S : t.next[k] \in Nodes => t.next[k] \in S
    BY <1>6
  <2>2. j \in S
    OBVIOUS
  <2> HIDE DEF S
  <2>3. ASSUME NEW k \in Run(t, j) PROVE k \in S
    BY <2>1, <2>2, RunClosed
  <2> QED BY <2>3 DEF S
<1>8. Run(u, c) = {c} \cup Run(t, a)
  <2> DEFINE S == {c} \cup Run(t, a)
  <2>1. ASSUME NEW k \in Nodes \cap S, u.next[k] \in Nodes PROVE u.next[k] \in S
    <3>1. CASE k = c
      <4>1. u.next[k] = a
        BY <1>1, <1>2, <1>3, <3>1
      <4> QED BY <2>1, <4>1, RunSelf
    <3>2. CASE k # c
      <4>1. k \in Run(t, a) /\ k # b
        BY <1>5, <2>1, <3>2
      <4>2. u.next[k] = t.next[k]
        BY <1>1, <1>2, <2>1, <3>2, <4>1
      <4> QED BY <2>1, <4>1, <4>2, RunNext
    <3> QED BY <3>1, <3>2
  <2>2. c \in S
    OBVIOUS
  <2> HIDE DEF S
  <2>3. \A k \in Run(u, c) : k \in S
    BY <2>1, <2>2, RunClosed
  <2>4. c \in Run(u, c)
    BY <1>1, RunSelf
  <2>5. Run(t, a) \subseteq Run(u, c)
    <3>1. CASE a = NULL
      BY <3>1, RunNull
    <3>2. CASE a # NULL
      <4>1. u.next[c] = a /\ a \in Nodes
        BY <1>1, <1>2, <1>3, <3>2
      <4>2. a \in Run(u, c)
        BY <2>4, <4>1, RunNext
      <4> QED BY <1>7, <4>2
    <3> QED BY <3>1, <3>2
  <2> QED BY <2>3, <2>4, <2>5 DEF S
<1>9. ASSUME NEW m \in L \ {c}
      PROVE  b \in Run(t, m) <=> (t.parent[m] = p /\ m \notin Run(t, a))
  <2>1. ASSUME b \in Run(t, m) PROVE t.parent[m] = p /\ m \notin Run(t, a)
    <3>1. b \in L /\ t.parent[b] = t.parent[m] /\ b # NULL
      BY <1>1, <2>1, RunIn
    <3>2. m \in Run(t, a) => b \in Run(t, a)
      BY <2>1, RunRest
    <3> QED BY <1>3, <1>5, <3>1, <3>2
  <2>2. ASSUME t.parent[m] = p, m \notin Run(t, a) PROVE b \in Run(t, m)
    <3>1. CASE a = NULL
      BY <1>1, <1>3, <2>2, <3>1, LastMet
    <3>2. CASE a # NULL
      <4>1. a \in L /\ t.parent[a] = p /\ t.prev[a] = b
        BY <1>3, <3>2
      <4>2. a \in Run(t, m) /\ a # m
        BY <1>1, <2>2, <4>1, RunOrder, RunSelf
      <4> QED BY <4>1, <4>2, RunUp
    <3> QED BY <3>1, <3>2
  <2> QED BY <2>1, <2>2
<1>10. ASSUME NEW m \in L \ {c}
       PROVE  Run(u, m) = Run(t, m) \cup {k \in {c} : b \in Run(t, m)}
  <2> DEFINE S == Run(t, m) \cup {k \in {c} : b \in Run(t, m)}
  <2>1. m \in Nodes /\ m \in Run(t, m) /\ m \in Run(u, m)
    BY <1>1, RunSelf
  <2>2. ASSUME NEW k \in Nodes \cap S, u.next[k] \in Nodes PROVE u.next[k] \in S
    <3>1. CASE k = c
      <4>1. b \in Run(t, m) /\ b \in Nodes
        BY <1>4, <2>2, <3>1, RunNodes
      <4>2. u.next[k] = a /\ t.next[b] = a
        BY <1>1, <1>2, <1>3, <3>1, <4>1
      <4> QED BY <2>2, <4>1, <4>2, RunNext
    <3>2. CASE k # c /\ k = b
      <4>1. u.next[k] = c /\ b \in Run(t, m)
        BY <1>1, <1>2, <2>2, <3>2
      <4> QED BY <4>1
    <3>3. CASE k # c /\ k # b
      <4>1. u.next[k] = t.next[k] /\ k \in Run(t, m)
        BY <1>1, <1>2, <2>2, <3>3
      <4> QED BY <2>2, <4>1, RunNext
    <3> QED BY <3>1, <3>2, <3>3
  <2>3. m \in S
    BY <2>1
  <2> HIDE DEF S
  <2>4. \A k \in Run(u, m) : k \in S
    BY <2>2, <2>3, RunClosed
  <2>5. Run(t, m) \subseteq Run(u, m)
    BY <1>7, <2>1
  <2>6. b \in Run(t, m) => c \in Run(u, m)
    <3>1. SUFFICES ASSUME b \in Run(t, m) PROVE c \in Run(u, m)
      OBVIOUS
    <3>2. b \in Nodes /\ b \in Run(u, m)
      BY <2>5, <3>1, RunNodes
    <3>3. u.next[b] = c
      BY <1>1, <1>2, <3>2
    <3> QED BY <1>1, <3>2, <3>3, RunNext
  <2> QED BY <2>4, <2>5, <2>6 DEF S
<1>11. c \notin Run(t, a)
  BY <1>4
<1> QED BY <1>8, <1>9, <1>10, <1>11

(* Cutting the tail of a list takes the nodes of B out of every walk.      *)
LEMMA CutRuns ==
  ASSUME NEW t, NEW L, NEW G, Good(t, L, G), NEW B, NEW p, NEW b, Tail(t, L, B, p, b),
         NEW u, Kept(t, u, L, B, p, b), Good(u, L \ B, G \cup B), NEW m \in L \ B
  PROVE  Run(u, m) = Run(t, m) \ B
<1>1. /\ L \subseteq Nodes /\ NULL \notin Nodes /\ B \subseteq Nodes /\ m \in Nodes
      /\ \A k \in L \ B : u.next[k] = IF k = b THEN NULL ELSE t.next[k]
      /\ \A k \in L : t.next[k] \in L \cup {NULL}
      /\ \A k \in L : t.next[k] # NULL =>
           t.prev[t.next[k]] = k /\ t.parent[t.next[k]] = t.parent[k]
  BY GoodFacts, PlaceFacts DEF Good, MutualAt, Tail, Kept
<1>2. /\ \A k \in B \cap L : t.parent[k] \in B \cup {p}
      /\ \A k \in L \ B : t.parent[k] \notin B
      /\ \A k \in L \ B : t.parent[k] = p => t.prev[k] \notin B
      /\ \A k \in L \ B : t.parent[k] = p /\ k # b => t.next[k] \in L \ B
      /\ b # NULL => b \in L \ B /\ t.next[b] \in B
  BY DEF Tail
<1>3. ASSUME NEW k \in Run(u, m) PROVE k \in Run(t, m) \ B
  <2> DEFINE S == Run(t, m) \ B
  <2>1. m \in S
    BY <1>1, RunSelf
  <2>2. ASSUME NEW j \in Nodes \cap S, u.next[j] \in Nodes PROVE u.next[j] \in S
    <3>1. j \in L \ B /\ j \in Run(t, m)
      BY <2>2, RunIn
    <3>2. j # b /\ u.next[j] = t.next[j]
      BY <1>1, <2>2, <3>1
    <3>3. t.next[j] \in L /\ t.parent[t.next[j]] = t.parent[j]
      BY <1>1, <2>2, <3>1, <3>2
    <3>4. t.next[j] \notin B
      BY <1>2, <3>1, <3>2, <3>3
    <3> QED BY <2>2, <3>1, <3>2, <3>4, RunNext
  <2> HIDE DEF S
  <2>3. k \in S
    BY <1>3, <2>1, <2>2, RunClosed
  <2> QED BY <2>3 DEF S
<1>4. ASSUME NEW k \in Run(t, m), k \notin B PROVE k \in Run(u, m)
  <2> DEFINE S == Run(u, m) \cup (B \cap L)
  <2>1. m \in S
    BY <1>1, RunSelf
  <2>2. ASSUME NEW j \in Nodes \cap S, t.next[j] \in Nodes PROVE t.next[j] \in S
    <3>1. CASE j \in B \cap L
      <4>1. t.next[j] \in L /\ t.prev[t.next[j]] = j /\ t.parent[t.next[j]] = t.parent[j]
        BY <1>1, <2>2, <3>1
      <4>2. t.next[j] \in B
        BY <1>2, <3>1, <4>1
      <4> QED BY <4>1, <4>2
    <3>2. CASE j \notin B \cap L
      <4>1. j \in Run(u, m) /\ j \in L \ B
        BY <2>2, <3>2, RunIn
      <4>2. CASE j = b
        BY <1>1, <1>2, <2>2, <4>1, <4>2
      <4>3. CASE j # b
        <5>1. u.next[j] = t.next[j]
          BY <1>1, <4>1, <4>3
        <5> QED BY <2>2, <4>1, <5>1, RunNext
      <4> QED BY <4>2, <4>3
    <3> QED BY <3>1, <3>2
  <2> HIDE DEF S
  <2>3. k \in S
    BY <2>1, <2>2, RunClosed
  <2> QED BY <1>4, <2>3 DEF S
<1> QED BY <1>3, <1>4

(* The children of x are the nodes whose parent is x.                      *)
LEMMA ChildrenAre ==
  ASSUME NEW t, NEW L, NEW G, Good(t, L, G)
  PROVE  ChildrenOf(t, L) =
           [x \in Things |-> IF x \in L \cup {Doc} THEN {n \in L : t.parent[n] = x} ELSE {}]
<1>1. \A x \in L \cup {Doc} : Run(t, t.first[x]) = {n \in L : t.parent[n] = x}
  BY KidsMet
<1> QED BY <1>1 DEF ChildrenOf

(* Of c that leaves its list.                                              *)
LEMMA DetachedLists ==
  ASSUME NEW t, NEW L, NEW G, Good(t, L, G), NEW c \in L
  PROVE  /\ AfterOf(Detach(t, c), L) =
              [m \in Nodes |-> IF m = c THEN {} ELSE AfterOf(t, L)[m] \ {c}]
         /\ ChildrenOf(Detach(t, c), L) = [x \in Things |-> ChildrenOf(t, L)[x] \ {c}]
<1> DEFINE u == Detach(t, c)
<1>1. /\ Good(u, L, G) /\ u.parent[c] = NULL /\ L \subseteq Nodes /\ c \in Nodes
      /\ \A m \in L : m # c => u.parent[m] = t.parent[m]
      /\ NULL \notin Things
  BY Detached, GoodFacts
<1>2. Run(u, c) = {c}
  BY <1>1, LoneRun
<1>3. \A m \in L : m # c => Run(u, m) = Run(t, m) \ {c}
  BY DetachRuns
<1> HIDE DEF u
<1>4. ASSUME NEW m \in Nodes
      PROVE  AfterOf(u, L)[m] = IF m = c THEN {} ELSE AfterOf(t, L)[m] \ {c}
  BY <1>1, <1>2, <1>3 DEF AfterOf
<1>5. AfterOf(u, L) = [m \in Nodes |-> IF m = c THEN {} ELSE AfterOf(t, L)[m] \ {c}]
  BY <1>4 DEF AfterOf
<1>6. ASSUME NEW x \in Things
      PROVE  (IF x \in L \cup {Doc} THEN {n \in L : u.parent[n] = x} ELSE {})
             = (IF x \in L \cup {Doc} THEN {n \in L : t.parent[n] = x} ELSE {}) \ {c}
  <2>1. x # NULL
    BY <1>1
  <2> QED BY <1>1, <2>1
<1>7. ChildrenOf(u, L) = [x \in Things |-> ChildrenOf(t, L)[x] \ {c}]
  BY <1>1, <1>6, ChildrenAre
<1> QED BY <1>5, <1>7 DEF u

(* Of c, in no list, put into a gap.                                       *)
LEMMA InsertedLists ==
  ASSUME NEW t, NEW L, NEW G, Good(t, L, G), NEW c \in L, t.parent[c] = NULL,
         NEW p, NEW b, NEW a, Gap(t, L, p, b, a), p \notin BelowAt(t, c),
         NEW u, Inserted(t, u, p, b, a, c)
  PROVE  /\ AfterOf(u, L) =
              [m \in Nodes |-> IF m = c THEN Run(t, a)
                 ELSE IF m \in ChildrenOf(t, L)[p] \ Run(t, a) THEN AfterOf(t, L)[m] \cup {c}
                 ELSE AfterOf(t, L)[m]]
         /\ ChildrenOf(u, L) =
              [x \in Things |-> IF x = p THEN ChildrenOf(t, L)[x] \cup {c}
                                ELSE ChildrenOf(t, L)[x]]
<1>1. /\ c \in Nodes /\ L \subseteq Nodes /\ NULL \notin Things /\ p \in L \cup {Doc}
      /\ p \in Things /\ L \subseteq Things
      /\ \A m \in Things : u.parent[m] = IF m = c THEN p ELSE t.parent[m]
  BY GoodFacts DEF Gap, HolderAt, Inserted
<1>2. Good(u, L, G)
  BY InsertGood
<1>3. /\ Run(u, c) = {c} \cup Run(t, a)
      /\ c \notin Run(t, a)
      /\ \A m \in L \ {c} :
           Run(u, m) = Run(t, m) \cup {k \in {c} : t.parent[m] = p /\ m \notin Run(t, a)}
  BY InsertRuns
<1>4. ChildrenOf(t, L)[p] = {n \in L : t.parent[n] = p}
  BY <1>1, ChildrenAre
<1>5. ASSUME NEW m \in Nodes
      PROVE  AfterOf(u, L)[m] =
               IF m = c THEN Run(t, a)
               ELSE IF m \in ChildrenOf(t, L)[p] \ Run(t, a) THEN AfterOf(t, L)[m] \cup {c}
               ELSE AfterOf(t, L)[m]
  <2>1. CASE m = c
    BY <1>1, <1>3, <2>1 DEF AfterOf
  <2>2. CASE m # c /\ m \in L
    <3>1. Run(u, m) = Run(t, m) \cup {k \in {c} : t.parent[m] = p /\ m \notin Run(t, a)}
      BY <1>3, <2>2
    <3>2. m \in ChildrenOf(t, L)[p] \ Run(t, a) <=> t.parent[m] = p /\ m \notin Run(t, a)
      BY <1>4, <2>2
    <3>3. AfterOf(u, L)[m] = Run(u, m) \ {m} /\ AfterOf(t, L)[m] = Run(t, m) \ {m}
      BY <2>2 DEF AfterOf
    <3> QED BY <2>2, <3>1, <3>2, <3>3
  <2>3. CASE m \notin L
    BY <1>1, <1>4, <2>3 DEF AfterOf
  <2> QED BY <2>1, <2>2, <2>3
<1>6. ASSUME NEW x \in Things
      PROVE  (IF x \in L \cup {Doc} THEN {n \in L : u.parent[n] = x} ELSE {})
             = IF x = p THEN (IF x \in L \cup {Doc} THEN {n \in L : t.parent[n] = x} ELSE {}) \cup {c}
               ELSE (IF x \in L \cup {Doc} THEN {n \in L : t.parent[n] = x} ELSE {})
  BY <1>1
<1>7. ChildrenOf(u, L) =
        [x \in Things |-> IF x = p THEN ChildrenOf(t, L)[x] \cup {c} ELSE ChildrenOf(t, L)[x]]
  <2>1. ASSUME NEW x \in Things
        PROVE  ChildrenOf(u, L)[x] = IF x = p THEN ChildrenOf(t, L)[x] \cup {c}
                                     ELSE ChildrenOf(t, L)[x]
    <3>1. ChildrenOf(t, L)[x] = IF x \in L \cup {Doc} THEN {n \in L : t.parent[n] = x} ELSE {}
      BY ChildrenAre
    <3>2. ChildrenOf(u, L)[x] = IF x \in L \cup {Doc} THEN {n \in L : u.parent[n] = x} ELSE {}
      BY <1>2, ChildrenAre
    <3> QED BY <1>6, <3>1, <3>2
  <2> QED BY <2>1 DEF ChildrenOf
<1> QED BY <1>5, <1>7 DEF AfterOf

(* c comes to stand in the list of x, just before the nodes of later.      *)
MovedTo(t, L, u, M, c, x, later) ==
  /\ AfterOf(u, M) =
       [m \in Nodes |-> IF m = c THEN later \ {c}
          ELSE IF m \in ChildrenOf(t, L)[x] \ later THEN AfterOf(t, L)[m] \cup {c}
          ELSE AfterOf(t, L)[m] \ {c}]
  /\ ChildrenOf(u, M) =
       [y \in Things |-> IF y = x THEN ChildrenOf(t, L)[y] \cup {c}
                         ELSE ChildrenOf(t, L)[y] \ {c}]

(* Detaching c and linking it into a gap is the move of Forest.            *)
LEMMA MovedLists ==
  ASSUME NEW t, NEW L, NEW G, Good(t, L, G), NEW c \in L, NEW v, v = Detach(t, c),
         NEW p, NEW b, NEW a, Gap(v, L, p, b, a), p \notin BelowAt(v, c),
         NEW u, Inserted(v, u, p, b, a, c),
         NEW later, Run(v, a) = later \ {c}
  PROVE  MovedTo(t, L, u, L, c, p, later)
<1>1. Good(v, L, G) /\ v.parent[c] = NULL /\ p \in Things
  BY Detached, GoodFacts DEF Gap, HolderAt
<1>2. /\ AfterOf(v, L) = [m \in Nodes |-> IF m = c THEN {} ELSE AfterOf(t, L)[m] \ {c}]
      /\ ChildrenOf(v, L) = [x \in Things |-> ChildrenOf(t, L)[x] \ {c}]
  BY DetachedLists
<1>3. /\ AfterOf(u, L) =
              [m \in Nodes |-> IF m = c THEN Run(v, a)
                 ELSE IF m \in ChildrenOf(v, L)[p] \ Run(v, a) THEN AfterOf(v, L)[m] \cup {c}
                 ELSE AfterOf(v, L)[m]]
      /\ ChildrenOf(u, L) =
              [x \in Things |-> IF x = p THEN ChildrenOf(v, L)[x] \cup {c}
                                ELSE ChildrenOf(v, L)[x]]
  BY <1>1, InsertedLists
<1>4. ASSUME NEW m \in Nodes
      PROVE  AfterOf(u, L)[m] =
               IF m = c THEN later \ {c}
               ELSE IF m \in ChildrenOf(t, L)[p] \ later THEN AfterOf(t, L)[m] \cup {c}
               ELSE AfterOf(t, L)[m] \ {c}
  <2>1. m # c => (m \in ChildrenOf(v, L)[p] \ Run(v, a) <=> m \in ChildrenOf(t, L)[p] \ later)
    BY <1>1, <1>2
  <2>2. AfterOf(v, L)[m] = IF m = c THEN {} ELSE AfterOf(t, L)[m] \ {c}
    BY <1>2
  <2> QED BY <1>3, <2>1, <2>2
<1>5. ASSUME NEW y \in Things
      PROVE  ChildrenOf(u, L)[y] = IF y = p THEN ChildrenOf(t, L)[y] \cup {c}
                                   ELSE ChildrenOf(t, L)[y] \ {c}
  <2>1. ChildrenOf(v, L)[y] = ChildrenOf(t, L)[y] \ {c}
    BY <1>2
  <2>2. ChildrenOf(u, L)[y] = IF y = p THEN ChildrenOf(v, L)[y] \cup {c}
                              ELSE ChildrenOf(v, L)[y]
    BY <1>3
  <2> QED BY <2>1, <2>2
<1> QED BY <1>3, <1>4, <1>5 DEF MovedTo

(* xmlAddChild puts c last.                                                *)
LEMMA AddChildLists ==
  ASSUME NEW t, NEW L, NEW G, Good(t, L, G), NEW c \in L,
         NEW p, HolderAt(L, p), p \notin BelowAt(t, c)
  PROVE  MovedTo(t, L, AppendTo(Detach(t, c), p, c), L, c, p, {})
<1> DEFINE v == Detach(t, c)
<1>1. Good(v, L, G) /\ v.parent[c] = NULL /\ p \notin BelowAt(v, c)
  BY Detached, DetachBelow, GoodFacts
<1> HIDE DEF v
<1>2. Inserted(v, AppendTo(v, p, c), p, v.last[p], NULL, c) /\ Gap(v, L, p, v.last[p], NULL)
  BY <1>1, AppendGood
<1>3. Run(v, NULL) = {} \ {c}
  BY RunNull
<1> QED BY <1>1, <1>2, <1>3, MovedLists DEF v

(* xmlAddNextSibling puts c just after n.                                  *)
LEMMA NextSiblingLists ==
  ASSUME NEW t, NEW L, NEW G, Good(t, L, G), NEW c \in L, NEW n \in L, n # c,
         n \notin BelowAt(t, c), t.parent[n] # NULL
  PROVE  MovedTo(t, L, LinkAfter(Detach(t, c), n, c), L, c, t.parent[n], AfterOf(t, L)[n])
<1> DEFINE v == Detach(t, c)
<1>1. /\ Good(v, L, G) /\ v.parent[c] = NULL /\ v.parent[n] = t.parent[n]
      /\ v.parent[n] \notin BelowAt(v, c)
  BY Detached, BesideFacts
<1>2. Run(v, n) = Run(t, n) \ {c} /\ n \in Nodes
  BY DetachRuns, GoodFacts
<1> HIDE DEF v
<1>3. /\ Inserted(v, LinkAfter(v, n, c), v.parent[n], n, v.next[n], c)
      /\ Gap(v, L, v.parent[n], n, v.next[n])
  BY <1>1, LinkAfterGood
<1>4. Run(v, n) = {n} \cup Run(v, v.next[n]) /\ n \notin Run(v, v.next[n])
  BY <1>1, RunStep
<1>5. Run(v, v.next[n]) = AfterOf(t, L)[n] \ {c}
  BY <1>2, <1>4 DEF AfterOf
<1> QED BY <1>1, <1>3, <1>5, MovedLists DEF v

(* xmlAddPrevSibling puts c just before n.                                 *)
LEMMA PrevSiblingLists ==
  ASSUME NEW t, NEW L, NEW G, Good(t, L, G), NEW c \in L, NEW n \in L, n # c,
         n \notin BelowAt(t, c), t.parent[n] # NULL
  PROVE  MovedTo(t, L, LinkBefore(Detach(t, c), n, c), L, c, t.parent[n],
                 {n} \cup AfterOf(t, L)[n])
<1> DEFINE v == Detach(t, c)
<1>1. /\ Good(v, L, G) /\ v.parent[c] = NULL /\ v.parent[n] = t.parent[n]
      /\ v.parent[n] \notin BelowAt(v, c)
  BY Detached, BesideFacts
<1>2. Run(v, n) = Run(t, n) \ {c} /\ n \in Nodes /\ n \in Run(t, n)
  BY DetachRuns, GoodFacts, RunSelf
<1> HIDE DEF v
<1>3. /\ Inserted(v, LinkBefore(v, n, c), v.parent[n], v.prev[n], n, c)
      /\ Gap(v, L, v.parent[n], v.prev[n], n)
  BY <1>1, LinkBeforeGood
<1>4. Run(v, n) = ({n} \cup AfterOf(t, L)[n]) \ {c}
  BY <1>2 DEF AfterOf
<1> QED BY <1>1, <1>3, <1>4, MovedLists DEF v

(* c takes the place of o in the list of x.                                *)
Exchanged(t, L, u, x, o, c) ==
  /\ AfterOf(u, L) =
       [m \in Nodes |-> IF m = o THEN {}
          ELSE IF m = c THEN AfterOf(t, L)[o] \ {c}
          ELSE IF o \in AfterOf(t, L)[m] THEN (AfterOf(t, L)[m] \ {o}) \cup {c}
          ELSE AfterOf(t, L)[m] \ {c}]
  /\ ChildrenOf(u, L) =
       [y \in Things |-> IF y = x THEN (ChildrenOf(t, L)[y] \ {o}) \cup {c}
                         ELSE ChildrenOf(t, L)[y] \ {c}]

(* xmlReplaceNode puts c where o was.                                      *)
LEMMA ReplaceLists ==
  ASSUME NEW t, NEW L, NEW G, Good(t, L, G), NEW c \in L, NEW o \in L, o # c,
         o \notin BelowAt(t, c), t.parent[o] # NULL
  PROVE  Exchanged(t, L, Swap(Detach(t, c), o, c), t.parent[o], o, c)
<1> DEFINE v == Detach(t, c)  w == LinkAfter(v, o, c)  u == Swap(v, o, c)  x == t.parent[o]
<1>1. /\ Good(v, L, G) /\ v.parent[c] = NULL /\ v.parent[o] = t.parent[o]
      /\ v.parent[o] \notin BelowAt(v, c) /\ o \in Nodes /\ c \in Nodes
      /\ x \in Things /\ x \in L \cup {Doc}
  BY Detached, BesideFacts, GoodFacts, PlaceFacts DEF HolderAt
<1>2. MovedTo(t, L, w, L, c, x, AfterOf(t, L)[o])
  BY NextSiblingLists
<1> HIDE DEF v
<1>3. Good(w, L, G) /\ u = Detach(w, o)
  BY <1>1, LinkAfterGood, SwapGood
<1> HIDE DEF w, u
<1>4. /\ AfterOf(u, L) = [m \in Nodes |-> IF m = o THEN {} ELSE AfterOf(w, L)[m] \ {o}]
      /\ ChildrenOf(u, L) = [y \in Things |-> ChildrenOf(w, L)[y] \ {o}]
  BY <1>3, DetachedLists
<1>5. o \notin AfterOf(t, L)[o]
  BY <1>1 DEF AfterOf
<1>6. \A y \in Things : ChildrenOf(t, L)[y] =
        IF y \in L \cup {Doc} THEN {n \in L : t.parent[n] = y} ELSE {}
  BY ChildrenAre
<1>7. ASSUME NEW m \in Nodes, m # o
      PROVE  o \in AfterOf(t, L)[m] <=> m \in ChildrenOf(t, L)[x] \ AfterOf(t, L)[o]
  <2>1. CASE m \notin L
    BY <1>1, <1>6, <2>1 DEF AfterOf
  <2>2. CASE m \in L /\ t.parent[m] # x
    <3>1. o \notin Run(t, m)
      BY <2>2, RunIn
    <3>2. o \notin AfterOf(t, L)[m]
      BY <2>2, <3>1 DEF AfterOf
    <3>3. ChildrenOf(t, L)[x] = {n \in L : t.parent[n] = x}
      BY <1>1, <1>6
    <3> QED BY <2>2, <3>2, <3>3
  <2>3. CASE m \in L /\ t.parent[m] = x
    <3>1. o \in Run(t, m) <=> m \notin Run(t, o)
      BY <1>7, <2>3, RunOrder
    <3> QED BY <1>1, <1>6, <1>7, <2>3, <3>1 DEF AfterOf
  <2> QED BY <2>1, <2>2, <2>3
<1>8. ASSUME NEW m \in Nodes
      PROVE  AfterOf(u, L)[m] =
               IF m = o THEN {}
               ELSE IF m = c THEN AfterOf(t, L)[o] \ {c}
               ELSE IF o \in AfterOf(t, L)[m] THEN (AfterOf(t, L)[m] \ {o}) \cup {c}
               ELSE AfterOf(t, L)[m] \ {c}
  <2>1. AfterOf(w, L)[m] =
          IF m = c THEN AfterOf(t, L)[o] \ {c}
          ELSE IF m \in ChildrenOf(t, L)[x] \ AfterOf(t, L)[o] THEN AfterOf(t, L)[m] \cup {c}
          ELSE AfterOf(t, L)[m] \ {c}
    BY <1>2 DEF MovedTo
  <2>2. AfterOf(u, L)[m] = IF m = o THEN {} ELSE AfterOf(w, L)[m] \ {o}
    BY <1>4
  <2> QED BY <1>5, <1>7, <2>1, <2>2
<1>9. ASSUME NEW y \in Things
      PROVE  ChildrenOf(u, L)[y] = IF y = x THEN (ChildrenOf(t, L)[y] \ {o}) \cup {c}
                                   ELSE ChildrenOf(t, L)[y] \ {c}
  <2>1. ChildrenOf(w, L)[y] = IF y = x THEN ChildrenOf(t, L)[y] \cup {c}
                              ELSE ChildrenOf(t, L)[y] \ {c}
    BY <1>2 DEF MovedTo
  <2>2. ChildrenOf(u, L)[y] = ChildrenOf(w, L)[y] \ {o}
    BY <1>4
  <2>3. y # x => o \notin ChildrenOf(t, L)[y]
    BY <1>6
  <2> QED BY <2>1, <2>2, <2>3
<1>10. Exchanged(t, L, u, x, o, c)
  <2>1. AfterOf(u, L) = [m \in Nodes |-> AfterOf(u, L)[m]]
    BY DEF AfterOf
  <2>2. ChildrenOf(u, L) = [y \in Things |-> ChildrenOf(u, L)[y]]
    BY DEF ChildrenOf
  <2> HIDE DEF x
  <2> QED BY <1>8, <1>9, <2>1, <2>2 DEF Exchanged
<1> QED BY <1>10 DEF u, v

(* detach_node changes nothing for a node in no list.                      *)
LEMMA LoneDetach ==
  ASSUME NEW t, NEW L, NEW G, Good(t, L, G), NEW c \in L, t.parent[c] = NULL
  PROVE  Detach(t, c) = t
<1> DEFINE u == Detach(t, c)
<1>1. /\ t \in Trees /\ c \in Nodes /\ NULL \notin Things /\ t.prev[c] = NULL /\ t.next[c] = NULL
  BY GoodFacts, PlaceFacts
<1>2. /\ u \in Trees
      /\ \A m \in Things :
              /\ u.parent[m] = IF m = c THEN NULL ELSE t.parent[m]
              /\ u.prev[m] = IF m = c THEN NULL ELSE IF t.parent[c] # NULL /\ m = t.next[c] THEN t.prev[c] ELSE t.prev[m]
              /\ u.next[m] = IF m = c THEN NULL ELSE IF t.parent[c] # NULL /\ m = t.prev[c] THEN t.next[c] ELSE t.next[m]
              /\ u.first[m] = IF m = t.parent[c] /\ t.first[m] = c THEN t.next[c] ELSE t.first[m]
              /\ u.last[m] = IF m = t.parent[c] /\ t.last[m] = c THEN t.prev[c] ELSE t.last[m]
  BY <1>1, DetachFields
<1> HIDE DEF u
<1> QED BY <1>1, <1>2, TreesEqual DEF u

(* The nodes of S leave the lists, and what is below one of them is in S.  *)
Discarded(t, L, u, S) ==
  /\ S \subseteq L
  /\ \A x \in S : ChildrenOf(t, L)[x] \subseteq S
  /\ AfterOf(u, L \ S) = [m \in Nodes |-> IF m \in S THEN {} ELSE AfterOf(t, L)[m] \ S]
  /\ ChildrenOf(u, L \ S) = [x \in Things |-> ChildrenOf(t, L)[x] \ S]

(* A tree that lost the nodes of B, closed under children.                 *)
LEMMA DiscardedLists ==
  ASSUME NEW t, NEW L, NEW G, Good(t, L, G), NEW B, NEW u, Good(u, L \ B, G \cup B),
         \A m \in L : t.parent[m] \in B => m \in B,
         \A m \in L \ B : u.parent[m] = t.parent[m] /\ Run(u, m) = Run(t, m) \ B,
         NEW S, S = B \cap L
  PROVE  Discarded(t, L, u, S) /\ L \ S = L \ B
<1>1. L \subseteq Nodes /\ Nodes \subseteq Things /\ Doc \notin Nodes /\ L \ S = L \ B
      /\ S \subseteq L
  BY GoodFacts
<1>2. \A x \in Things : ChildrenOf(t, L)[x] =
        IF x \in L \cup {Doc} THEN {n \in L : t.parent[n] = x} ELSE {}
  BY ChildrenAre
<1>3. \A x \in Things : ChildrenOf(u, L \ S)[x] =
        IF x \in (L \ S) \cup {Doc} THEN {n \in L \ S : u.parent[n] = x} ELSE {}
  <2>1. PICK K : K = L \ S
    OBVIOUS
  <2>2. Good(u, K, G \cup B)
    BY <1>1, <2>1
  <2>3. ChildrenOf(u, K) =
          [x \in Things |-> IF x \in K \cup {Doc} THEN {n \in K : u.parent[n] = x} ELSE {}]
    BY <2>2, ChildrenAre
  <2> QED BY <2>1, <2>3
<1>4. ASSUME NEW x \in S PROVE ChildrenOf(t, L)[x] \subseteq S
  BY <1>1, <1>2, <1>4
<1>5. ASSUME NEW x \in Things PROVE ChildrenOf(u, L \ S)[x] = ChildrenOf(t, L)[x] \ S
  <2>1. CASE x \in S
    <3>1. ChildrenOf(u, L \ S)[x] = {}
      <4>1. x \in Things /\ x \notin (L \ S) \cup {Doc}
        BY <1>1, <2>1
      <4> QED BY <1>3, <4>1
    <3> QED BY <1>4, <2>1, <3>1
  <2>2. CASE x \notin S
    <3>1. ChildrenOf(u, L \ S)[x] =
            IF x \in L \cup {Doc} THEN {n \in L \ S : t.parent[n] = x} ELSE {}
      <4>1. x \in (L \ S) \cup {Doc} <=> x \in L \cup {Doc}
        BY <2>2
      <4>2. {n \in L \ S : u.parent[n] = x} = {n \in L \ S : t.parent[n] = x}
        BY <1>1
      <4> QED BY <1>3, <4>1, <4>2
    <3> QED BY <1>2, <3>1
  <2> QED BY <2>1, <2>2
<1>6. ASSUME NEW m \in Nodes
      PROVE  AfterOf(u, L \ S)[m] = IF m \in S THEN {} ELSE AfterOf(t, L)[m] \ S
  <2>1. CASE m \in L \ S
    <3>1. Run(u, m) = Run(t, m) \ B /\ Run(t, m) \subseteq L
      BY <1>1, <2>1, RunIn
    <3> QED BY <1>1, <2>1, <3>1 DEF AfterOf
  <2>2. CASE m \notin L \ S
    BY <1>1, <2>2 DEF AfterOf
  <2> QED BY <2>1, <2>2
<1>7. AfterOf(u, L \ S) = [m \in Nodes |-> IF m \in S THEN {} ELSE AfterOf(t, L)[m] \ S]
  BY <1>6 DEF AfterOf
<1>8. ChildrenOf(u, L \ S) = [x \in Things |-> ChildrenOf(t, L)[x] \ S]
  BY <1>5 DEF ChildrenOf
<1> QED BY <1>1, <1>4, <1>7, <1>8 DEF Discarded

(* xmlFreeNode of n.                                                       *)
LEMMA FreeLists ==
  ASSUME NEW t, NEW L, NEW G, Good(t, L, G), NEW n \in L
  PROVE  LET S == BelowAt(t, n) \cap L
         IN Discarded(t, L, Detach(t, n), S) /\ L \ S = L \ BelowAt(t, n)
<1> DEFINE u == Detach(t, n)  B == BelowAt(t, n)
<1>1. Good(u, L \ B, G \cup B) /\ n \in Nodes /\ n \in B
  BY FreeGood, GoodFacts, BelowSelf
<1>2. \A m \in L : t.parent[m] \in B => m \in B
  BY GoodFacts, BelowDown
<1>3. ASSUME NEW m \in L \ B PROVE u.parent[m] = t.parent[m] /\ Run(u, m) = Run(t, m) \ B
  <2>1. m # n /\ u.parent[m] = t.parent[m] /\ Run(u, m) = Run(t, m) \ {n}
    BY <1>1, Detached, DetachRuns
  <2>2. ASSUME NEW k \in Run(t, m), k \in B, k # n PROVE FALSE
    <3>1. k \in L /\ t.parent[k] = t.parent[m]
      BY RunIn
    <3>2. t.parent[k] \in B
      BY <1>1, <2>2, BelowUp
    <3> QED BY <1>2, <3>1, <3>2
  <2> QED BY <1>1, <2>1, <2>2
<1> HIDE DEF u, B
<1>4. Discarded(t, L, u, B \cap L) /\ L \ (B \cap L) = L \ B
  BY <1>1, <1>2, <1>3, DiscardedLists
<1> QED BY <1>4 DEF u, B

(* A cut list.                                                             *)
LEMMA CutLists ==
  ASSUME NEW t, NEW L, NEW G, Good(t, L, G), NEW B, NEW p, NEW b, Tail(t, L, B, p, b),
         NEW u, Kept(t, u, L, B, p, b), Good(u, L \ B, G \cup B), NEW S, S = B \cap L
  PROVE  Discarded(t, L, u, S) /\ L \ S = L \ B
<1>1. \A m \in L : t.parent[m] \in B => m \in B
  BY DEF Tail
<1>2. \A m \in L \ B : u.parent[m] = t.parent[m] /\ Run(u, m) = Run(t, m) \ B
  BY CutRuns DEF Kept
<1> QED BY <1>1, <1>2, DiscardedLists

(* xmlFreeNodeList from n on.                                              *)
LEMMA FreeListLists ==
  ASSUME NEW t, NEW L, NEW G, Good(t, L, G), NEW n \in L,
         NEW B, B = UNION {BelowAt(t, m) : m \in Run(t, n)}, NEW S, S = B \cap L
  PROVE  Discarded(t, L, DetachRun(t, n), S) /\ L \ S = L \ B
<1>1. CASE t.parent[n] = NULL
  <2>1. B = BelowAt(t, n) /\ DetachRun(t, n) = Detach(t, n)
    BY <1>1, FreeLoneGood
  <2>2. LET R == BelowAt(t, n) \cap L
        IN Discarded(t, L, Detach(t, n), R) /\ L \ R = L \ BelowAt(t, n)
    BY FreeLists
  <2> QED BY <2>1, <2>2
<1>2. CASE t.parent[n] # NULL
  <2>1. /\ Good(DetachRun(t, n), L \ B, G \cup B)
        /\ Tail(t, L, B, t.parent[n], t.prev[n])
        /\ Kept(t, DetachRun(t, n), L, B, t.parent[n], t.prev[n])
    BY <1>2, FreeListGood
  <2> QED BY <2>1, CutLists
<1> QED BY <1>1, <1>2

(* A node just made is in no list and has none.                            *)
LEMMA NewLists ==
  ASSUME NEW t, NEW L, NEW G, Good(t, L, G), NEW n \in Nodes \ (L \cup G)
  PROVE  /\ AfterOf(t, L \cup {n}) = AfterOf(t, L)
         /\ ChildrenOf(t, L \cup {n}) = ChildrenOf(t, L)
<1>1. Good(t, L \cup {n}, G) /\ t.parent[n] = NULL /\ t.first[n] = NULL
  BY NewGood DEF Good, FreshAt
<1>2. Run(t, n) = {n} /\ Run(t, t.first[n]) = {}
  BY <1>1, LoneRun, RunNull
<1>3. ASSUME NEW m \in Nodes PROVE AfterOf(t, L \cup {n})[m] = AfterOf(t, L)[m]
  BY <1>2 DEF AfterOf
<1>4. ASSUME NEW x \in Things PROVE ChildrenOf(t, L \cup {n})[x] = ChildrenOf(t, L)[x]
  BY <1>2 DEF ChildrenOf
<1>5. AfterOf(t, L \cup {n}) = AfterOf(t, L)
  BY <1>3 DEF AfterOf
<1>6. ChildrenOf(t, L \cup {n}) = ChildrenOf(t, L)
  BY <1>4 DEF ChildrenOf
<1> QED BY <1>5, <1>6

(* c, new, comes last in the list of p.                                    *)
LEMMA AppendNewLists ==
  ASSUME NEW t, NEW L, NEW G, Good(t, L, G), NEW c \in Nodes \ (L \cup G),
         NEW p, HolderAt(L, p)
  PROVE  MovedTo(t, L, AppendTo(t, p, c), L \cup {c}, c, p, {})
<1> DEFINE u == AppendTo(t, p, c)  M == L \cup {c}
<1>1. Good(t, M, G) /\ c \in M /\ t.parent[c] = NULL /\ HolderAt(M, p) /\ p \in Things
  BY NewGood, GoodFacts DEF Good, FreshAt, HolderAt
<1>2. p \notin BelowAt(t, c)
  BY NewNotAbove
<1>3. Inserted(t, u, p, t.last[p], NULL, c) /\ Gap(t, M, p, t.last[p], NULL)
  BY <1>1, <1>2, AppendGood
<1>4. AfterOf(t, M) = AfterOf(t, L) /\ ChildrenOf(t, M) = ChildrenOf(t, L)
  BY NewLists
<1> HIDE DEF u, M
<1>5. /\ AfterOf(u, M) =
              [m \in Nodes |-> IF m = c THEN Run(t, NULL)
                 ELSE IF m \in ChildrenOf(t, M)[p] \ Run(t, NULL) THEN AfterOf(t, M)[m] \cup {c}
                 ELSE AfterOf(t, M)[m]]
      /\ ChildrenOf(u, M) =
              [x \in Things |-> IF x = p THEN ChildrenOf(t, M)[x] \cup {c}
                                ELSE ChildrenOf(t, M)[x]]
  BY <1>1, <1>2, <1>3, InsertedLists
<1>6. ASSUME NEW m \in Nodes PROVE c \notin AfterOf(t, L)[m]
  BY RunIn DEF AfterOf
<1>7. ASSUME NEW x \in Things PROVE c \notin ChildrenOf(t, L)[x]
  <2>1. ChildrenOf(t, L)[x] \subseteq L
    BY ChildrenAre
  <2> QED BY <2>1
<1>8. ASSUME NEW m \in Nodes
      PROVE  AfterOf(u, M)[m] = IF m = c THEN {} \ {c}
                                ELSE IF m \in ChildrenOf(t, L)[p] \ {} THEN AfterOf(t, L)[m] \cup {c}
                                ELSE AfterOf(t, L)[m] \ {c}
  <2>1. Run(t, NULL) = {} /\ ChildrenOf(t, L)[p] \ {} = ChildrenOf(t, L)[p]
    BY RunNull
  <2>2. AfterOf(u, M)[m] = IF m = c THEN {}
                           ELSE IF m \in ChildrenOf(t, L)[p] THEN AfterOf(t, L)[m] \cup {c}
                           ELSE AfterOf(t, L)[m]
    BY <1>4, <1>5, <2>1
  <2>3. AfterOf(t, L)[m] = AfterOf(t, L)[m] \ {c} /\ {} \ {c} = {}
    BY <1>6
  <2> QED BY <2>1, <2>2, <2>3
<1>9. ASSUME NEW x \in Things
      PROVE  ChildrenOf(u, M)[x] = IF x = p THEN ChildrenOf(t, L)[x] \cup {c}
                                   ELSE ChildrenOf(t, L)[x] \ {c}
  BY <1>4, <1>5, <1>7
<1>10. AfterOf(u, M) = [m \in Nodes |-> AfterOf(u, M)[m]]
  BY DEF AfterOf
<1>11. ChildrenOf(u, M) = [x \in Things |-> ChildrenOf(u, M)[x]]
  BY DEF ChildrenOf
<1>12. MovedTo(t, L, u, M, c, p, {})
  BY <1>8, <1>9, <1>10, <1>11 DEF MovedTo
<1> QED BY <1>12 DEF u, M

(* The children of e, with what is below them, give way to txt.            *)
Refilled(t, L, u, M, e, txt, S) ==
  /\ S \subseteq L /\ e \notin S /\ L \ S = L \ (BelowAt(t, e) \ {e})
  /\ \A x \in S \cup {e} : ChildrenOf(t, L)[x] \subseteq S
  /\ AfterOf(u, M) = [m \in Nodes |-> IF m \in S THEN {} ELSE AfterOf(t, L)[m] \ S]
  /\ ChildrenOf(u, M) = [x \in Things |-> IF x = e THEN {txt} ELSE ChildrenOf(t, L)[x] \ S]

(* xmlNodeSetContent of e.                                                 *)
LEMMA SetContentLists ==
  ASSUME NEW t, NEW L, NEW G, Good(t, L, G), NEW e \in L, e \in Elements,
         NEW txt \in Nodes \ (L \cup G),
         NEW S, S = (BelowAt(t, e) \ {e}) \cap L,
         NEW u, u = AppendTo(Emptied(t, e), e, txt), NEW M, M = (L \ S) \cup {txt}
  PROVE  Refilled(t, L, u, M, e, txt, S)
<1> DEFINE v == Emptied(t, e)  B == BelowAt(t, e) \ {e}  K == L \ B
<1>1. Good(v, K, G \cup B) /\ Tail(t, L, B, e, NULL) /\ Kept(t, v, L, B, e, NULL)
  BY ClearGood
<1>2. S = B \cap L /\ txt \notin B /\ e \in Nodes /\ e \in Things
  <2>1. t.parent[txt] = NULL
    BY DEF Good, FreshAt
  <2>2. NULL \notin BelowAt(t, e)
    BY DomAssumption DEF BelowAt
  <2> QED BY <2>1, <2>2, BelowUp, GoodFacts
<1> HIDE DEF v, B
<1>3. Discarded(t, L, v, S) /\ L \ S = K
  BY <1>1, <1>2, CutLists
<1>4. HolderAt(K, e) /\ txt \in Nodes \ (K \cup (G \cup B)) /\ e \notin B
  BY <1>2 DEF HolderAt, B
<1>5. MovedTo(v, K, u, M, txt, e, {})
  BY <1>1, <1>3, <1>4, AppendNewLists DEF v
<1>6. ChildrenOf(t, L)[e] \subseteq S
  <2>1. ChildrenOf(t, L)[e] = {n \in L : t.parent[n] = e}
    BY <1>2, ChildrenAre
  <2>2. ASSUME NEW n \in L, t.parent[n] = e PROVE n \in B
    <3>1. n \in BelowAt(t, e)
      BY <1>2, <2>2, BelowSelf, BelowDown, GoodFacts
    <3> QED BY <2>2, <3>1, PlaceFacts DEF B
  <2> QED BY <1>2, <2>1, <2>2
<1>17. /\ AfterOf(v, K) = [m \in Nodes |-> IF m \in S THEN {} ELSE AfterOf(t, L)[m] \ S]
       /\ ChildrenOf(v, K) = [x \in Things |-> ChildrenOf(t, L)[x] \ S]
  BY <1>3 DEF Discarded
<1>7. ChildrenOf(v, K)[e] = {}
  BY <1>2, <1>6, <1>17
<1>8. \A m \in Nodes : txt \notin AfterOf(v, K)[m]
  BY <1>1, <1>4, RunIn DEF AfterOf
<1>9. \A x \in Things : txt \notin ChildrenOf(v, K)[x]
  <2>1. ASSUME NEW x \in Things PROVE ChildrenOf(v, K)[x] \subseteq K
    BY <1>1, ChildrenAre
  <2> QED BY <1>4, <2>1
<1>10. AfterOf(t, L)[txt] = {} /\ txt \notin S
  BY <1>2 DEF AfterOf
<1>11. ASSUME NEW m \in Nodes
       PROVE  AfterOf(u, M)[m] = IF m \in S THEN {} ELSE AfterOf(t, L)[m] \ S
  <2>1. AfterOf(v, K)[m] = IF m \in S THEN {} ELSE AfterOf(t, L)[m] \ S
    BY <1>17
  <2>2. AfterOf(u, M)[m] = IF m = txt THEN {} ELSE AfterOf(v, K)[m]
    <3>1. AfterOf(u, M)[m] =
            IF m = txt THEN {} \ {txt}
            ELSE IF m \in ChildrenOf(v, K)[e] \ {} THEN AfterOf(v, K)[m] \cup {txt}
            ELSE AfterOf(v, K)[m] \ {txt}
      BY <1>5 DEF MovedTo
    <3>2. txt \notin AfterOf(v, K)[m]
      BY <1>8
    <3> QED BY <1>7, <3>1, <3>2
  <2> QED BY <1>10, <2>1, <2>2
<1>12. ASSUME NEW x \in Things
       PROVE  ChildrenOf(u, M)[x] = IF x = e THEN {txt} ELSE ChildrenOf(t, L)[x] \ S
  <2>1. ChildrenOf(v, K)[x] = ChildrenOf(t, L)[x] \ S
    BY <1>17
  <2>2. ChildrenOf(u, M)[x] = IF x = e THEN ChildrenOf(v, K)[x] \cup {txt}
                              ELSE ChildrenOf(v, K)[x]
    <3>1. ChildrenOf(u, M)[x] = IF x = e THEN ChildrenOf(v, K)[x] \cup {txt}
                                ELSE ChildrenOf(v, K)[x] \ {txt}
      BY <1>5 DEF MovedTo
    <3>2. txt \notin ChildrenOf(v, K)[x]
      BY <1>9
    <3> QED BY <3>1, <3>2
  <2> QED BY <1>7, <2>1, <2>2
<1>13. AfterOf(u, M) = [m \in Nodes |-> AfterOf(u, M)[m]]
  BY DEF AfterOf
<1>14. ChildrenOf(u, M) = [x \in Things |-> ChildrenOf(u, M)[x]]
  BY DEF ChildrenOf
<1>15. AfterOf(u, M) = [m \in Nodes |-> IF m \in S THEN {} ELSE AfterOf(t, L)[m] \ S]
  BY <1>11, <1>13
<1>16. ChildrenOf(u, M) = [x \in Things |-> IF x = e THEN {txt} ELSE ChildrenOf(t, L)[x] \ S]
  BY <1>12, <1>14
<1> QED BY <1>2, <1>3, <1>4, <1>6, <1>15, <1>16 DEF Discarded, Refilled, B

(* A detached root in place of one that is alone, or of none.              *)
LEMMA RootLists ==
  ASSUME NEW t, NEW L, NEW G, Good(t, L, G), NEW r \in L, t.parent[r] = NULL,
         t.first[Doc] = t.last[Doc], t.first[Doc] \in Elements \cup {NULL},
         NEW u, u = RootTree(t, r)
  PROVE  /\ \A x \in Things : r \notin ChildrenOf(t, L)[x]
         /\ AfterOf(u, L) = [m \in Nodes |-> IF m \in ChildrenOf(t, L)[Doc] THEN {}
                                             ELSE AfterOf(t, L)[m]]
         /\ ChildrenOf(u, L) = [ChildrenOf(t, L) EXCEPT ![Doc] = {r}]
<1> DEFINE f == t.first[Doc]
<1>1. /\ r \in Nodes /\ NULL \notin Things /\ Doc \in Things /\ Doc \notin Nodes
      /\ Nodes \subseteq Things /\ L \subseteq Nodes
      /\ Doc \notin BelowAt(t, r) /\ f \in L \cup {NULL}
  BY GoodFacts, EndFacts DEF BelowAt
<1>2. \A x \in Things : ChildrenOf(t, L)[x] =
        IF x \in L \cup {Doc} THEN {n \in L : t.parent[n] = x} ELSE {}
  BY ChildrenAre
<1>3. ASSUME NEW x \in Things PROVE r \notin ChildrenOf(t, L)[x]
  BY <1>1, <1>2
<1>4. Run(t, r) = {r} /\ AfterOf(t, L)[r] = {}
  BY <1>1, LoneRun DEF AfterOf
<1>5. ASSUME NEW m \in Nodes, r \in AfterOf(t, L)[m] PROVE FALSE
  <2>1. m \in L /\ r \in Run(t, m) /\ m # r
    BY <1>5 DEF AfterOf
  <2>2. t.parent[m] = NULL
    BY <2>1, RunIn
  <2>3. Run(t, m) = {m}
    BY <2>1, <2>2, LoneRun
  <2> QED BY <2>1, <2>3
<1>6. AfterOf(u, L) = [m \in Nodes |-> AfterOf(u, L)[m]]
      /\ ChildrenOf(u, L) = [x \in Things |-> ChildrenOf(u, L)[x]]
      /\ ChildrenOf(t, L) = [x \in Things |-> ChildrenOf(t, L)[x]]
  BY DEF AfterOf, ChildrenOf
<1>7. CASE f = NULL
  <2>1. u = AppendTo(t, Doc, r) /\ t.last[Doc] = NULL
    BY <1>7, RootGood
  <2>2. Inserted(t, u, Doc, NULL, NULL, r) /\ Gap(t, L, Doc, NULL, NULL)
    BY <1>1, <2>1, AppendGood DEF HolderAt
  <2>3. ChildrenOf(t, L)[Doc] = {}
    BY <1>7, RunNull, <1>1 DEF ChildrenOf
  <2>4. /\ AfterOf(u, L) =
              [m \in Nodes |-> IF m = r THEN Run(t, NULL)
                 ELSE IF m \in ChildrenOf(t, L)[Doc] \ Run(t, NULL) THEN AfterOf(t, L)[m] \cup {r}
                 ELSE AfterOf(t, L)[m]]
        /\ ChildrenOf(u, L) =
              [x \in Things |-> IF x = Doc THEN ChildrenOf(t, L)[x] \cup {r}
                                ELSE ChildrenOf(t, L)[x]]
    BY <1>1, <2>2, InsertedLists
  <2>5. \A m \in Nodes : AfterOf(u, L)[m] = IF m \in ChildrenOf(t, L)[Doc] THEN {}
                                            ELSE AfterOf(t, L)[m]
    BY <1>4, <2>3, <2>4, RunNull
  <2>6. ChildrenOf(u, L) = [ChildrenOf(t, L) EXCEPT ![Doc] = {r}]
    BY <1>6, <2>3, <2>4
  <2> QED BY <1>3, <1>6, <2>5, <2>6
<1>8. CASE f # NULL
  <2>1. /\ f \in L /\ t.parent[f] = Doc /\ t.next[f] = NULL /\ f # r
        /\ f \notin BelowAt(t, r) /\ f \in Nodes
    <3>1. f \in L /\ t.parent[f] = Doc /\ t.next[f] = NULL /\ f # r
      BY <1>1, <1>8, EndFacts
    <3> QED BY <1>1, <3>1, BelowUp
  <2>2. ChildrenOf(t, L)[Doc] = {f} /\ AfterOf(t, L)[f] = {}
    <3>1. Run(t, f) = {f}
      BY <2>1, RunStep, RunNull
    <3> QED BY <1>1, <2>1, <3>1 DEF ChildrenOf, AfterOf
  <2>3. u = Swap(t, f, r) /\ Detach(t, r) = t
    <3>1. Detach(t, r) = t
      BY LoneDetach
    <3> QED BY <1>8, <3>1, RootGood
  <2>4. Exchanged(t, L, u, Doc, f, r)
    BY <1>1, <2>1, <2>3, ReplaceLists
  <2>5. ASSUME NEW m \in Nodes, f \in AfterOf(t, L)[m] PROVE FALSE
    <3>1. m \in L /\ f \in Run(t, m) /\ m # f
      BY <2>5 DEF AfterOf
    <3>2. t.parent[m] = Doc
      BY <2>1, <3>1, RunIn
    <3> QED BY <1>1, <1>2, <2>2, <3>1, <3>2
  <2>6. ASSUME NEW m \in Nodes
        PROVE  AfterOf(u, L)[m] = IF m \in ChildrenOf(t, L)[Doc] THEN {} ELSE AfterOf(t, L)[m]
    <3>1. AfterOf(u, L)[m] =
            IF m = f THEN {}
            ELSE IF m = r THEN AfterOf(t, L)[f] \ {r}
            ELSE IF f \in AfterOf(t, L)[m] THEN (AfterOf(t, L)[m] \ {f}) \cup {r}
            ELSE AfterOf(t, L)[m] \ {r}
      BY <2>4 DEF Exchanged
    <3>2. r \notin AfterOf(t, L)[m] /\ f \notin AfterOf(t, L)[m]
      BY <1>5, <2>5
    <3> QED BY <1>4, <2>1, <2>2, <3>1, <3>2
  <2>7. ASSUME NEW x \in Things
        PROVE  ChildrenOf(u, L)[x] = IF x = Doc THEN {r} ELSE ChildrenOf(t, L)[x]
    <3>1. ChildrenOf(u, L)[x] = IF x = Doc THEN (ChildrenOf(t, L)[x] \ {f}) \cup {r}
                                ELSE ChildrenOf(t, L)[x] \ {r}
      BY <2>4 DEF Exchanged
    <3> QED BY <1>3, <2>2, <3>1
  <2>8. ChildrenOf(u, L) = [ChildrenOf(t, L) EXCEPT ![Doc] = {r}]
    BY <1>6, <2>7
  <2> QED BY <1>3, <1>6, <2>6, <2>8
<1> QED BY <1>7, <1>8

-----------------------------------------------------------------------------
(* Every call is a step of Forest.                                         *)

(* The first state is Forest's.                                            *)
LEMMA InitPromise == Init => Promise!Init
<1> SUFFICES ASSUME Init PROVE Promise!Init
  OBVIOUS
<1>1. live = {} /\ tree.first = [x \in Things |-> NULL] /\ Doc \in Things
  BY DEF Init, Things
<1>2. ChildrenOf(tree, live) = [x \in Things |-> {}]
  BY <1>1, RunNull DEF ChildrenOf
<1>3. AfterOf(tree, live) = [n \in Nodes |-> {}]
  BY <1>1 DEF AfterOf
<1> QED BY <1>1, <1>2, <1>3 DEF Promise!Init, Promise!Things, Things

(* Every step of a good tree is a step of Forest, or shows no change.      *)
LEMMA NextPromise ==
  ASSUME IInv, [Next]_vars
  PROVE  [Promise!Next]_(Promise!vars)
<1> DEFINE C == ChildrenOf(tree, live)  A == AfterOf(tree, live)
<1>0. /\ Good(tree, live, gone) /\ live \subseteq Nodes /\ Promise!Things = Things
      /\ Doc \in Things /\ Nodes \subseteq Things
      /\ \A n : Below(n) = BelowAt(tree, n)
      /\ \A x : Holder(x) = HolderAt(live, x)
  BY TreeIs, GoodFacts DEF IInv, Promise!Things, Things, Holder, HolderAt
<1>1. ASSUME UNCHANGED <<tree, live>> PROVE UNCHANGED Promise!vars
  BY <1>1 DEF Promise!vars
<1>2. ASSUME NEW n \in Nodes, NewNode(n) PROVE Promise!Create(n)
  BY <1>0, <1>2, NewLists DEF NewNode, Promise!Create
<1>3. ASSUME NEW n \in Nodes, Unlink(n) PROVE Promise!TakeOut(n)
  BY <1>0, <1>3, DetachedLists DEF Unlink, Promise!TakeOut, Promise!Without
(* What a caller sees of a call that gives nodes back.                     *)
<1>4. ASSUME NEW S, Discarded(tree, live, tree', S), live' = live \ S
      PROVE  Promise!Discard(S) /\ S \in SUBSET live
  BY <1>0, <1>4 DEF Discarded, Promise!Discard, Promise!Without
<1>5. ASSUME NEW n \in Nodes, FreeNode(n) PROVE \E S \in SUBSET live : Promise!Discard(S)
  <2>1. n \in live /\ tree' = Detach(tree, n) /\ live' = live \ BelowAt(tree, n)
    BY <1>0, <1>5 DEF FreeNode, GiveBack
  <2> QED BY <1>0, <1>4, <2>1, FreeLists
<1>6. ASSUME NEW n \in Nodes, FreeNodeList(n) PROVE \E S \in SUBSET live : Promise!Discard(S)
  <2> DEFINE B == UNION {BelowAt(tree, m) : m \in Run(tree, n)}
  <2>1. n \in live /\ tree' = DetachRun(tree, n) /\ live' = live \ B
    BY <1>0, <1>6 DEF FreeNodeList, GiveBack
  <2> HIDE DEF B
  <2>2. Discarded(tree, live, DetachRun(tree, n), B \cap live) /\ live \ (B \cap live) = live \ B
    BY <1>0, <2>1, FreeListLists DEF B
  <2> QED BY <1>4, <2>1, <2>2
<1>7. ASSUME NEW e \in Nodes, ClearContent(e) PROVE \E S \in SUBSET live : Promise!Discard(S)
  <2> DEFINE B == BelowAt(tree, e) \ {e}  u == Emptied(tree, e)
  <2>1. e \in live /\ tree' = u /\ live' = live \ B
    BY <1>0, <1>7 DEF ClearContent, GiveBack
  <2>2. Good(u, live \ B, gone \cup B) /\ Tail(tree, live, B, e, NULL) /\ Kept(tree, u, live, B, e, NULL)
    BY <1>0, <2>1, ClearGood
  <2> HIDE DEF B, u
  <2>3. Discarded(tree, live, u, B \cap live) /\ live \ (B \cap live) = live \ B
    BY <1>0, <2>2, CutLists
  <2> QED BY <1>4, <2>1, <2>3
<1>8. ASSUME NEW r \in Nodes, SetRoot(r) PROVE Promise!Install(r) /\ r \in live
  <2>1. /\ r \in live /\ tree.parent[r] = NULL /\ tree' = RootTree(tree, r) /\ live' = live
        /\ tree.first[Doc] = tree.last[Doc] /\ tree.first[Doc] \in Elements \cup {NULL}
    BY <1>8 DEF SetRoot, SetRootAny
  <2>2. /\ \A x \in Things : r \notin C[x]
        /\ AfterOf(tree', live) = [m \in Nodes |-> IF m \in C[Doc] THEN {} ELSE A[m]]
        /\ ChildrenOf(tree', live) = [C EXCEPT ![Doc] = {r}]
    BY <1>0, <2>1, RootLists
  <2> QED BY <1>0, <2>1, <2>2 DEF Promise!Install
(* ... and of a call that moves one node.                                  *)
<1>9. ASSUME NEW x, NEW c, NEW later, MovedTo(tree, live, tree', live', c, x, later)
      PROVE  Promise!Put(c, x, later)
  BY <1>0, <1>9 DEF MovedTo, Promise!Put
<1>10. ASSUME NEW n \in live, NEW x, tree.parent[n] = x, x # NULL PROVE x \in Things /\ n \in C[x]
  <2>1. x \in live \cup {Doc} /\ x \in Things
    BY <1>0, <1>10, PlaceFacts DEF HolderAt
  <2>2. C[x] = {k \in live : tree.parent[k] = x}
    BY <1>0, <2>1, ChildrenAre
  <2> QED BY <1>10, <2>1, <2>2
<1>11. ASSUME NEW p \in Things, NEW c \in Nodes, AddChild(p, c)
       PROVE  Promise!PutLast(p, c) /\ p \in live \cup {Doc} /\ c \in live
  <2>1. /\ c \in live /\ HolderAt(live, p) /\ p \notin BelowAt(tree, c) /\ live' = live
        /\ tree' = AppendTo(Detach(tree, c), p, c)
    BY <1>0, <1>11 DEF AddChild, AddChildTree
  <2>2. MovedTo(tree, live, tree', live', c, p, {})
    BY <1>0, <2>1, AddChildLists
  <2> QED BY <1>9, <2>1, <2>2 DEF Promise!PutLast, HolderAt
<1>12. ASSUME NEW n \in live, NEW c \in live, n # c, tree.parent[n] # NULL,
              n \notin BelowAt(tree, c), tree' = LinkAfter(Detach(tree, c), n, c), live' = live
       PROVE  \E x \in Things : \E m \in C[x] : \E d \in live \ {m} : Promise!PutAfter(x, m, d)
  <2>1. MovedTo(tree, live, tree', live', c, tree.parent[n], A[n])
    BY <1>0, <1>12, NextSiblingLists
  <2>2. Promise!PutAfter(tree.parent[n], n, c)
    BY <1>9, <1>12, <2>1 DEF Promise!PutAfter
  <2> QED BY <1>10, <1>12, <2>2
<1>13. ASSUME NEW n \in Nodes, NEW c \in Nodes, AddNextSibling(n, c)
       PROVE  \/ UNCHANGED <<tree, live>>
              \/ \E x \in Things : \E m \in C[x] : \E d \in live \ {m} : Promise!PutAfter(x, m, d)
  BY <1>0, <1>12, <1>13 DEF AddNextSibling, InList, NextSiblingAny, Beside, NextSiblingTree
<1>14. ASSUME NEW n \in Nodes, NEW c \in Nodes, AddSibling(n, c)
       PROVE  \/ UNCHANGED <<tree, live>>
              \/ \E x \in Things : \E m \in C[x] : \E d \in live \ {m} : Promise!PutAfter(x, m, d)
  <2> DEFINE k == TailOf(tree, n)
  <2>1. /\ n \in live /\ c \in live /\ tree.parent[n] # NULL
        /\ n \in BelowAt(tree, c) => n = c
        /\ tree' = IF k = c THEN tree ELSE LinkAfter(Detach(tree, c), k, c)
        /\ live' = live
    BY <1>0, <1>14 DEF AddSibling, InList, AddSiblingAny, NextSiblingTree
  <2>2. k \in live /\ tree.parent[k] # NULL /\ (k # c => k \notin BelowAt(tree, c))
    BY <1>0, <2>1, TailBeside
  <2> HIDE DEF k
  <2> QED BY <1>12, <2>1, <2>2
<1>15. ASSUME NEW n \in Nodes, NEW c \in Nodes, AddPrevSibling(n, c)
       PROVE  \/ UNCHANGED <<tree, live>>
              \/ \E x \in Things : \E m \in C[x] : \E d \in live \ {m} : Promise!PutBefore(x, m, d)
  <2>1. /\ n \in live /\ c \in live /\ tree.parent[n] # NULL /\ live' = live
        /\ tree' = IF n = c THEN tree ELSE LinkBefore(Detach(tree, c), n, c)
        /\ n \in BelowAt(tree, c) => n = c
    BY <1>0, <1>15 DEF AddPrevSibling, InList, PrevSiblingAny, Beside, PrevSiblingTree
  <2>2. CASE n # c
    <3>1. MovedTo(tree, live, tree', live', c, tree.parent[n], {n} \cup A[n])
      BY <1>0, <2>1, <2>2, PrevSiblingLists
    <3>2. Promise!PutBefore(tree.parent[n], n, c)
      BY <1>9, <2>1, <3>1 DEF Promise!PutBefore
    <3> QED BY <1>10, <2>1, <2>2, <3>2
  <2> QED BY <2>1, <2>2
<1>16. ASSUME NEW o \in Nodes, NEW c \in Nodes, Replace(o, c)
       PROVE  \/ UNCHANGED <<tree, live>>
              \/ c \in live /\ Promise!TakeOut(c)
              \/ \E x \in Things : \E m \in C[x] : \E d \in live \ {m} : Promise!Exchange(x, m, d)
  <2>1. /\ o \in live /\ c \in live /\ live' = live
        /\ o \in BelowAt(tree, c) => o = c
        /\ tree' = IF o = c THEN tree
                   ELSE IF Detach(tree, c).parent[o] = NULL THEN Detach(tree, c)
                   ELSE Swap(Detach(tree, c), o, c)
    BY <1>0, <1>16 DEF Replace, Beside, ReplaceTree
  <2>2. o # c => Detach(tree, c).parent[o] = tree.parent[o]
    BY <1>0, <2>1, Detached
  <2>3. CASE o # c /\ tree.parent[o] = NULL
    <3>1. tree' = Detach(tree, c)
      BY <2>1, <2>2, <2>3
    <3>2. /\ AfterOf(Detach(tree, c), live)
               = [m \in Nodes |-> IF m = c THEN {} ELSE AfterOf(tree, live)[m] \ {c}]
          /\ ChildrenOf(Detach(tree, c), live) = [x \in Things |-> ChildrenOf(tree, live)[x] \ {c}]
      <4>1. Good(tree, live, gone) /\ c \in live
        BY <1>0, <2>1
      <4> QED BY <4>1, DetachedLists
    <3>3. [m \in Nodes |-> IF m = c THEN {} ELSE A[m] \ {c}]
            = [m \in Nodes |-> IF m \in {c} THEN {} ELSE A[m] \ {c}]
      OBVIOUS
    <3> QED BY <1>0, <2>1, <3>1, <3>2, <3>3 DEF Promise!TakeOut, Promise!Without
  <2>4. CASE o # c /\ tree.parent[o] # NULL
    <3>1. tree' = Swap(Detach(tree, c), o, c)
      BY <2>1, <2>2, <2>4
    <3>2. Exchanged(tree, live, tree', tree.parent[o], o, c)
      BY <1>0, <2>1, <2>4, <3>1, ReplaceLists
    <3>3. Promise!Exchange(tree.parent[o], o, c)
      BY <1>0, <2>1, <3>2 DEF Exchanged, Promise!Exchange
    <3> QED BY <1>10, <2>1, <2>4, <3>3
  <2> QED BY <2>1, <2>3, <2>4
<1>17. ASSUME NEW e \in Nodes, NEW txt \in Nodes, SetContent(e, txt)
       PROVE  e \in live /\ \E S \in SUBSET live : Promise!Refill(e, S, txt)
  <2> DEFINE B == BelowAt(tree, e) \ {e}  S == B \cap live
  <2>1. /\ e \in live /\ e \in Elements /\ txt \in Nodes \ (live \cup gone)
        /\ tree' = AppendTo(Emptied(tree, e), e, txt) /\ live' = (live \ B) \cup {txt}
    BY <1>0, <1>17 DEF SetContent
  <2>2. live' = (live \ S) \cup {txt}
    BY <2>1
  <2>3. /\ S \subseteq live /\ e \notin S
        /\ \A x \in S \cup {e} : C[x] \subseteq S
        /\ AfterOf(tree', live') = [m \in Nodes |-> IF m \in S THEN {} ELSE A[m] \ S]
        /\ ChildrenOf(tree', live') = [x \in Things |-> IF x = e THEN {txt} ELSE C[x] \ S]
    <3>1. PICK t, L, G, T, u, M :
             /\ t = tree /\ L = live /\ G = gone /\ T = S /\ u = tree' /\ M = live'
      OBVIOUS
    <3>2. /\ Good(t, L, G) /\ e \in L /\ e \in Elements
          /\ txt \in Nodes \ (L \cup G) /\ T = (BelowAt(t, e) \ {e}) \cap L
          /\ u = AppendTo(Emptied(t, e), e, txt) /\ M = (L \ T) \cup {txt}
      BY <1>0, <2>1, <2>2, <3>1
    <3>3. Refilled(t, L, u, M, e, txt, T)
      BY ONLY txt \in Nodes, <3>2, SetContentLists
    <3> QED BY <3>1, <3>3 DEF Refilled
  <2> HIDE DEF S, C, A
  <2>4. Promise!Refill(e, S, txt)
    BY <1>0, <2>1, <2>2, <2>3 DEF Promise!Refill, C, A
  <2> QED BY <2>1, <2>3, <2>4
<1>18. ASSUME NEW e \in Nodes, NEW txt \in Nodes, AddContent(e, txt)
       PROVE  e \in live /\ Promise!Grow(e, txt)
  <2>1. /\ e \in live /\ HolderAt(live, e) /\ txt \in Nodes \ (live \cup gone)
        /\ tree' = AppendTo(tree, e, txt) /\ live' = live \cup {txt}
    BY <1>18 DEF AddContent, HolderAt
  <2>2. MovedTo(tree, live, tree', live', txt, e, {})
    BY <1>0, <2>1, AppendNewLists
  <2> QED BY <1>9, <2>1, <2>2 DEF Promise!Grow
<1>19. ASSUME NEW n \in Nodes, NewNode(n) \/ Unlink(n) \/ FreeNode(n)
                               \/ FreeNodeList(n) \/ ClearContent(n) \/ SetRoot(n)
       PROVE  Promise!Next
  <2>1. CASE NewNode(n)
    BY <1>2, <2>1 DEF Promise!Next
  <2>2. CASE Unlink(n)
    BY <1>3, <2>2 DEF Promise!Next, Unlink
  <2>3. CASE FreeNode(n) \/ FreeNodeList(n) \/ ClearContent(n)
    BY <1>5, <1>6, <1>7, <2>3 DEF Promise!Next
  <2>4. CASE SetRoot(n)
    BY <1>8, <2>4 DEF Promise!Next
  <2> QED BY <1>19, <2>1, <2>2, <2>3, <2>4
<1>20. ASSUME NEW p \in Things, NEW c \in Nodes, AddChild(p, c) PROVE Promise!Next
  BY <1>11, <1>20 DEF Promise!Next
<1>21. ASSUME NEW n \in Nodes, NEW c \in Nodes,
              AddNextSibling(n, c) \/ AddPrevSibling(n, c) \/ AddSibling(n, c) \/ Replace(n, c)
       PROVE  Promise!Next \/ UNCHANGED <<tree, live>>
  <2>1. CASE AddNextSibling(n, c) \/ AddSibling(n, c)
    BY <1>0, <1>13, <1>14, <2>1 DEF Promise!Next
  <2>2. CASE AddPrevSibling(n, c)
    BY <1>0, <1>15, <2>2 DEF Promise!Next
  <2>3. CASE Replace(n, c)
    BY <1>0, <1>16, <2>3 DEF Promise!Next
  <2> QED BY <1>21, <2>1, <2>2, <2>3
<1>22. ASSUME NEW e \in Nodes, NEW txt \in Nodes, SetContent(e, txt) \/ AddContent(e, txt)
       PROVE  Promise!Next
  BY <1>17, <1>18, <1>22 DEF Promise!Next
<1> QED BY <1>1, <1>19, <1>20, <1>21, <1>22 DEF Next, vars

(* Every call of mutate.rs relinks the pointers so that the ordered lists  *)
(* read from them change as Forest says, for any number of nodes: only     *)
(* what the call names moves, to the place it names, and every other node  *)
(* keeps its parent and its order.                                         *)
THEOREM TreeIsTheForest == Spec => ForestPromise
<1>1. Init => Promise!Init
  BY InitPromise
<1>2. IInv /\ [Next]_vars => [Promise!Next]_(Promise!vars)
  BY NextPromise
<1> QED BY <1>1, <1>2, TreeInvariance, PTL DEF Spec, ForestPromise, Promise!Spec

(* The sets read from the pointers are what Forest calls ordered lists.    *)
ListsAreOrdered ==
  LET C == ChildrenOf(tree, live)  A == AfterOf(tree, live) IN
  /\ \A x, y \in Things : x # y => C[x] \cap C[y] = {}
  /\ \A x \in Things : \A m \in C[x] :
       /\ m \notin A[m] /\ A[m] \subseteq C[x]
       /\ \A n \in A[m] : A[n] \subseteq A[m]
       /\ \A n \in C[x] \ {m} : n \in A[m] <=> m \notin A[n]

(* Following the next pointers from any child of a thing visits each of    *)
(* the later siblings once and nothing else: every node is in at most one  *)
(* list, and the order of a list is total, transitive and without a ring.  *)
THEOREM SiblingsAreOrdered == Spec => []ListsAreOrdered
<1>1. ASSUME IInv PROVE ListsAreOrdered
  <2> DEFINE C == ChildrenOf(tree, live)  A == AfterOf(tree, live)
  <2>1. Good(tree, live, gone) /\ live \subseteq Nodes /\ NULL \notin Things
    BY <1>1, GoodFacts DEF IInv
  <2>2. \A x \in Things : C[x] = IF x \in live \cup {Doc} THEN {n \in live : tree.parent[n] = x}
                                 ELSE {}
    BY <2>1, ChildrenAre
  <2>3. \A m \in live : A[m] = Run(tree, m) \ {m}
    BY <2>1 DEF AfterOf
  <2> HIDE DEF C, A
  <2>4. \A x, y \in Things : x # y => C[x] \cap C[y] = {}
    BY <2>2
  <2>5. ASSUME NEW x \in Things, NEW m \in C[x]
        PROVE  /\ m \in live /\ tree.parent[m] = x /\ x # NULL
               /\ \A n \in live : tree.parent[n] = x => n \in C[x]
    BY <2>1, <2>2
  <2>6. ASSUME NEW x \in Things, NEW m \in C[x]
        PROVE  m \notin A[m] /\ A[m] \subseteq C[x]
    <3>1. \A n \in Run(tree, m) : n \in live /\ tree.parent[n] = tree.parent[m]
      BY <2>1, <2>5, RunIn
    <3> QED BY <2>3, <2>5, <3>1
  <2>7. ASSUME NEW x \in Things, NEW m \in C[x], NEW n \in C[x], n # m
        PROVE  n \in A[m] <=> m \notin A[n]
    <3>1. n \in Run(tree, m) <=> (m = n \/ m \notin Run(tree, n))
      BY <2>1, <2>5, RunOrder
    <3> QED BY <2>3, <2>5, <2>7, <3>1
  <2>8. ASSUME NEW x \in Things, NEW m \in C[x], NEW n \in A[m] PROVE A[n] \subseteq A[m]
    <3>1. n \in C[x] /\ n # m /\ m \notin A[n]
      BY <2>6, <2>7
    <3>2. n \in Run(tree, m) /\ Run(tree, n) \subseteq Run(tree, m)
      BY <2>3, <2>5, RunRest
    <3> QED BY <2>3, <2>5, <3>1, <3>2
  <2> QED BY <2>4, <2>6, <2>7, <2>8 DEF ListsAreOrdered, C, A
<1> QED BY <1>1, TreeInvariance, PTL
=============================================================================
