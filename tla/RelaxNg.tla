------------------------------ MODULE RelaxNg ------------------------------
(***************************************************************************)
(* The derivative validator of RELAX NG (crates/core/src/relaxng.rs).  A   *)
(* pattern is <<"Empty">>, <<"NotAllowed">>, <<"Text">>, <<"Element", S>>, *)
(* <<"Attribute", S>> (S: the names of the name class), <<"Group", p, q>>, *)
(* <<"Interleave", p, q>>, <<"Choice", p, q>> or <<"OneOrMore", p>>.  The  *)
(* content of a child element, its attributes included, and the value of   *)
(* an attribute are taken to fit.                                          *)
(***************************************************************************)
EXTENDS Language

p_empty       == <<"Empty">>
p_not_allowed == <<"NotAllowed">>

choice(p, q) == CASE p = p_not_allowed                        -> q
                  [] p # p_not_allowed /\ q = p_not_allowed   -> p
                  [] OTHER                                    -> <<"Choice", p, q>>

(* group and interleave: NotAllowed absorbs, Empty is the unit.             *)
both(kind, p, q) == CASE p_not_allowed \in {p, q}                 -> p_not_allowed
                      [] p_not_allowed \notin {p, q} /\ p = p_empty -> q
                      [] p_not_allowed # p /\ p # p_empty /\ q = p_empty -> p
                      [] OTHER                                    -> <<kind, p, q>>
group(p, q)      == both("Group", p, q)
interleave(p, q) == both("Interleave", p, q)

one_or_more(p) == IF p \in {p_not_allowed, p_empty} THEN p ELSE <<"OneOrMore", p>>

RECURSIVE nullable(_)
nullable(p) ==
  CASE p[1] \in {"Empty", "Text"}        -> TRUE
    [] p[1] \in {"Group", "Interleave"}  -> nullable(p[2]) /\ nullable(p[3])
    [] p[1] = "Choice"                   -> nullable(p[2]) \/ nullable(p[3])
    [] p[1] = "OneOrMore"                -> nullable(p[2])
    [] OTHER                             -> FALSE

(* The three derivatives differ at the leaves, and att_deriv reads a group  *)
(* from either side whether or not the first part is nullable.              *)
leaf_deriv(p, by, name) ==
  CASE by = "child" -> IF p[1] = "Element" /\ name \in p[2] THEN p_empty ELSE p_not_allowed
    [] by = "att"   -> IF p[1] = "Attribute" /\ name \in p[2] THEN p_empty ELSE p_not_allowed
    [] by = "text"  -> IF p = <<"Text">> THEN p_empty ELSE p_not_allowed

RECURSIVE deriv(_, _, _)
deriv(p, by, name) ==
  LET d(q) == deriv(q, by, name)
      left == group(d(p[2]), p[3])
      more == choice(p_empty, <<"OneOrMore", p[2]>>)
  IN CASE p[1] = "Choice"     -> choice(d(p[2]), d(p[3]))
       [] p[1] = "Group"      -> choice(left, IF by = "att" THEN group(p[2], d(p[3]))
                                              ELSE IF nullable(p[2]) THEN d(p[3])
                                              ELSE p_not_allowed)
       [] p[1] = "Interleave" -> choice(interleave(d(p[2]), p[3]), interleave(p[2], d(p[3])))
       [] p[1] = "OneOrMore"  -> group(d(p[2]), more)
       [] OTHER               -> leaf_deriv(p, by, name)

(* A later part of a group only becomes reachable past a nullable one.      *)
ChildDerivEager(p, name) ==
  CASE p[1] = "Group" -> choice(group(deriv(p[2], "child", name), p[3]), deriv(p[3], "child", name))
    [] OTHER          -> deriv(p, "child", name)
child_deriv(p, name) == deriv(p, "child", name)
text_deriv(p)        == deriv(p, "text", "#text")
att_deriv(p, name)   == deriv(p, "att", name)

(* consume_content stops at NotAllowed, as does consume_attributes.         *)
consume(p, item) ==
  CASE p = p_not_allowed                     -> p
    [] p # p_not_allowed /\ item = "#text"   -> text_deriv(p)
    [] p # p_not_allowed /\ item # "#text"   -> child_deriv(p, item)
consume_attribute(p, name) == IF p = p_not_allowed THEN p ELSE att_deriv(p, name)

-----------------------------------------------------------------------------
(* What parse_pattern_element makes of a model; names[n] is the name class  *)
(* of element n.  combine_seq, combine_choice and combine_interleave fold   *)
(* from the left; the occurrences are optional, zeroOrMore and oneOrMore.   *)

Combined(kind, ps) ==
  LET join(p, q) == CASE kind = "seq" -> group(p, q)
                      [] kind = "all" -> interleave(p, q)
                      [] kind = "choice" -> choice(p, q)
  IN IF ps = <<>> THEN (IF kind = "choice" THEN p_not_allowed ELSE p_empty)
     ELSE FoldLeft(join, Head(ps), Tail(ps))

RECURSIVE parse_pattern_element(_, _)
parse_pattern_element(p, names) ==
  LET parts == [i \in DOMAIN Parts(p) |-> parse_pattern_element(Parts(p)[i], names)]
      one == CASE p[1][1] = "elem" -> <<"Element", names[p[1][2]]>>
               [] p[1][1] = "wild" -> <<"Element", p[1][2]>>
               [] p[1][1] = "attr" -> <<"Attribute", {p[1][2]}>>
               [] p[1][1] = "text" -> <<"Text">>
               [] IsGroup(p)       -> Combined(p[1][1], parts)
  IN CASE <<p[2], p[3]>> = <<1, 1>>    -> one
       [] <<p[2], p[3]>> = <<0, 1>>    -> choice(p_empty, one)
       [] <<p[2], p[3]>> = <<0, None>> -> choice(p_empty, one_or_more(one))
       [] <<p[2], p[3]>> = <<1, None>> -> one_or_more(one)

RngModel(p) == Counts(p) \subseteq {<<1, 1>>, <<0, 1>>, <<0, None>>, <<1, None>>}
=============================================================================
