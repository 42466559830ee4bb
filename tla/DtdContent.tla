---------------------------- MODULE DtdContent ----------------------------
(***************************************************************************)
(* The content-model matcher of the DTD validator                          *)
(* (crates/core/src/dtd/validate.rs).  A match from a position is a record *)
(* [ok, pos, diverges]; `diverges' is set once a loop bounded by           *)
(* usize::MAX only takes iterations that consume nothing.                  *)
(***************************************************************************)
EXTENDS Language

Occurrences == {<<1, 1>>, <<0, 1>>, <<0, None>>, <<1, None>>}

Found(pos)  == [ok |-> TRUE, pos |-> pos, diverges |-> FALSE]
Failed(pos) == [ok |-> FALSE, pos |-> pos, diverges |-> FALSE]

RECURSIVE match_group(_, _, _), match_group_one(_, _, _), match_particle(_, _, _),
          Iterate(_, _, _, _, _)

(* The loop over q, which began at `start', after n iterations that ended   *)
(* at pos.  `matched' is one more; none is given back once it was taken.    *)
Iterate(q, names, start, pos, n) ==
  LET matched == CASE q[1][1] = "one"  -> match_group(q[1][2], names, pos)
                   [] q[1][1] = "elem" -> IF pos < Len(names) /\ names[pos + 1] = q[1][2]
                                          THEN Found(pos + 1) ELSE Failed(pos)
                   [] OTHER            -> match_group_one(q, names, pos)
      more == matched.ok /\ (q[3] = None \/ n < q[3])
  IN CASE matched.diverges                            -> matched
       [] more /\ q[3] = None /\ matched.pos = pos    -> [matched EXCEPT !.diverges = TRUE]
       [] more /\ ~(q[3] = None /\ matched.pos = pos) -> Iterate(q, names, start, matched.pos, n + 1)
       [] ~more /\ n < q[2]                           -> Failed(start)
       [] OTHER                                       -> Found(pos)

(* match_group asks for no iteration past its maximum.                      *)
match_group(p, names, pos) ==
  LET max == p[3]
  IN IF max = None
     THEN Iterate(p, names, pos, pos, 0)
     ELSE LET r == match_group_one(p, names, pos)
          IN IF r.ok \/ r.diverges THEN r ELSE IF p[2] = 0 THEN Found(pos) ELSE Failed(pos)

(* One iteration: every item in turn, or the first item that matches.       *)
match_group_one(p, names, pos) ==
  LET items == Parts(p)
      tries == [i \in DOMAIN items |-> match_particle(items[i], names, pos)]
      hits  == {i \in DOMAIN items : tries[i].ok \/ tries[i].diverges}
      seq   == FoldLeft(LAMBDA r, q : IF r.ok /\ ~r.diverges
                                      THEN match_particle(q, names, r.pos) ELSE r,
                        Found(pos), items)
  IN IF p[1][1] = "seq" THEN (IF seq.ok \/ seq.diverges THEN seq ELSE Failed(pos))
     ELSE IF hits = {} THEN Failed(pos) ELSE tries[Min(hits)]

(* A nested group carries its own occurrence and its particle is `One';     *)
(* either loop asks for one iteration more before it looks at its maximum.  *)
match_particle(q, names, pos) ==
  Iterate(IF IsGroup(q) THEN <<<<"one", q>>, 1, 1>> ELSE q, names, pos, pos, 0)

(* check_content of a Children model: "valid", "invalid" or "diverges".     *)
CheckPrefix(model, names) ==
  LET r == match_group(model, names, 0)
  IN IF r.diverges THEN "diverges" ELSE IF r.ok THEN "valid" ELSE "invalid"
check_content(model, names) ==
  LET r == match_group(model, names, 0)
  IN IF r.diverges THEN "diverges"
     ELSE IF r.ok /\ r.pos = Len(names) THEN "valid" ELSE "invalid"

DtdModel(p) == /\ IsGroup(p) /\ Kinds(p) \subseteq {"elem", "seq", "choice"}
               /\ Counts(p) \subseteq Occurrences
=============================================================================
