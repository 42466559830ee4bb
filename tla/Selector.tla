------------------------------ MODULE Selector ------------------------------
(***************************************************************************)
(* The matcher of crates/core/src/selector.rs.  An element is the set of   *)
(* what a simple selector can ask of it (its tag, its id, a class, an      *)
(* attribute), a simple selector the set it asks for, and a selector a     *)
(* sequence of parts [sel, comb], comb in {"Start", "Descendant", "Child"}.*)
(* MatchLeftNearest is an altered form of match_left, for a check.         *)
(***************************************************************************)
EXTENDS Naturals, Sequences

SimpleMatches(sel, element) == sel \subseteq element

(* How far left the part before parts[right] may stand of cursor, by        *)
(* position: the child combinator looks at one place, the other at all.     *)
Candidates(comb, cursor) ==
  IF comb = "Child" THEN {cursor - 1} \ {0} ELSE 1..(cursor - 1)

(* cursor is the place of the element parts[right] matched, left[r] where   *)
(* that of parts[r] may be for the parts before it to be found.  The first  *)
(* ancestor is not the last word: the search goes on further left.          *)
MatchLeftNearest(parts, right, cursor, chain) ==
  LET left[r \in 1..Len(parts)] ==
        {c \in 1..Len(chain) :
           r = 1 \/ LET hits == {pos \in Candidates(parts[r].comb, c) :
                                   SimpleMatches(parts[r - 1].sel, chain[pos])}
                    IN \E pos \in hits : (\A q \in hits : q <= pos) /\ pos \in left[r - 1]}
  IN cursor \in left[right]
match_left(parts, right, cursor, chain) ==
  LET left[r \in 1..Len(parts)] ==
        {c \in 1..Len(chain) :
           r = 1 \/ \E pos \in Candidates(parts[r].comb, c) :
                      SimpleMatches(parts[r - 1].sel, chain[pos]) /\ pos \in left[r - 1]}
  IN cursor \in left[right]

(* chain is the ancestors from the root and, last, the element itself.      *)
matches(parts, chain) ==
  /\ parts # <<>>
  /\ SimpleMatches(parts[Len(parts)].sel, chain[Len(chain)])
  /\ match_left(parts, Len(parts), Len(chain), chain)

-----------------------------------------------------------------------------
(* What a selector means: its parts can be laid on the chain in order, the  *)
(* last on the element, a child part right below the one before it.         *)
Embeds(parts, chain) ==
  /\ parts # <<>>
  /\ \E f \in [1..Len(parts) -> 1..Len(chain)] :
       /\ f[Len(parts)] = Len(chain)
       /\ \A k \in DOMAIN parts : SimpleMatches(parts[k].sel, chain[f[k]])
       /\ \A k \in 2..Len(parts) :
            IF parts[k].comb = "Child" THEN f[k] = f[k - 1] + 1 ELSE f[k] > f[k - 1]
=============================================================================
