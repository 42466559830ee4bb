------------------------------- MODULE Forest -------------------------------
(***************************************************************************)
(* What a caller of the tree functions is promised: every thing has an     *)
(* ordered list of children, a node is in at most one list, and each call  *)
(* moves the nodes it names and leaves the order of all others alone.      *)
(***************************************************************************)
CONSTANTS Nodes, Doc

VARIABLES
  children,  \* of each thing, the nodes in its list
  after,     \* of each node, those further on in its list
  live       \* the nodes that exist

vars == <<children, after, live>>

Things == Nodes \cup {Doc}

Init ==
  children = [x \in Things |-> {}] /\ after = [n \in Nodes |-> {}] /\ live = {}

(* The nodes of S leave their lists.                                       *)
Without(S) ==
  /\ after' = [m \in Nodes |-> IF m \in S THEN {} ELSE after[m] \ S]
  /\ children' = [x \in Things |-> children[x] \ S]

(* c comes to stand in the list of x, just before the nodes of later.      *)
Put(c, x, later) ==
  /\ after' = [m \in Nodes |-> IF m = c THEN later \ {c}
                               ELSE IF m \in children[x] \ later THEN after[m] \cup {c}
                               ELSE after[m] \ {c}]
  /\ children' = [y \in Things |-> IF y = x THEN children[y] \cup {c}
                                   ELSE children[y] \ {c}]

Create(n) ==
  live' = live \cup {n} /\ n \notin live /\ UNCHANGED <<children, after>>

PutLast(x, c) == UNCHANGED live /\ Put(c, x, {})

PutAfter(x, n, c) == UNCHANGED live /\ Put(c, x, after[n])

PutBefore(x, n, c) == UNCHANGED live /\ Put(c, x, {n} \cup after[n])

(* c takes the place of old.                                               *)
Exchange(x, old, c) ==
  /\ UNCHANGED live
  /\ after' = [m \in Nodes |-> IF m = old THEN {}
                               ELSE IF m = c THEN after[old] \ {c}
                               ELSE IF old \in after[m] THEN (after[m] \ {old}) \cup {c}
                               ELSE after[m] \ {c}]
  /\ children' = [y \in Things |-> IF y = x THEN (children[y] \ {old}) \cup {c}
                                   ELSE children[y] \ {c}]

TakeOut(c) == UNCHANGED live /\ Without({c})

(* The nodes of S are given back: a run of siblings with what is below, or *)
(* all that is below one element, in whose place a node may be put.        *)
Discard(S) ==
  /\ live' = live \ S
  /\ \A x \in S : children[x] \subseteq S
  /\ Without(S)

Refill(e, S, txt) ==
  /\ live' = (live \ S) \cup {txt} /\ txt \notin live
  /\ e \notin S /\ \A x \in S \cup {e} : children[x] \subseteq S
  /\ after' = [m \in Nodes |-> IF m \in S THEN {} ELSE after[m] \ S]
  /\ children' = [x \in Things |-> IF x = e THEN {txt} ELSE children[x] \ S]

Grow(e, txt) ==
  live' = live \cup {txt} /\ txt \notin live /\ Put(txt, e, {})

(* A root in place of another, or of none. *)
Install(r) ==
  /\ UNCHANGED live
  /\ \A x \in Things : r \notin children[x]
  /\ after' = [m \in Nodes |-> IF m \in children[Doc] THEN {} ELSE after[m]]
  /\ children' = [children EXCEPT ![Doc] = {r}]

Next ==
  \/ \E n \in Nodes : Create(n)
  \/ \E c \in live : TakeOut(c) \/ Install(c)
  \/ \E x \in live \cup {Doc}, c \in live : PutLast(x, c)
  \/ \E x \in Things : \E n \in children[x] : \E c \in live \ {n} :
       PutAfter(x, n, c) \/ PutBefore(x, n, c) \/ Exchange(x, n, c)
  \/ \E S \in SUBSET live : Discard(S)
  \/ \E e \in live, txt \in Nodes :
       Grow(e, txt) \/ \E S \in SUBSET live : Refill(e, S, txt)

Spec == Init /\ [][Next]_vars
=============================================================================
