----------------------------- MODULE XsltRules -----------------------------
(***************************************************************************)
(* The template rules of an XSLT stylesheet: which is chosen for a node by *)
(* xsl:apply-templates, xsl:next-match, xsl:apply-imports and              *)
(* xsl:call-template (crates/xslt/src/pattern.rs, eval.rs).                *)
(*                                                                         *)
(* A template is [decl, precedence, path]: its declaration, the number of  *)
(* its module, and the place of the declaration, by position in the module *)
(* and in what includes it.  A pattern is the sequence of the operands of  *)
(* its outermost union, of each its shape and the nodes it matches; a      *)
(* priority is counted in quarters.                                        *)
(***************************************************************************)
EXTENDS Integers, Sequences, FiniteSets, SequencesExt, FiniteSetsExt

TemplateDecl(body, name, priority, operands) ==   \* priority: <<>> unless there is one
  [kind |-> "template", body |-> body, name |-> name, priority |-> priority, operands |-> operands]
Operand(shape, on) == [shape |-> shape, on |-> on]

-----------------------------------------------------------------------------
default_priority(shape) ==
  CASE shape = "name" -> 0 [] shape = "prefix:*" -> -1 [] shape = "any" -> -2 [] OTHER -> 2

PriorityOf(decl, b) ==
  IF decl.priority # <<>> THEN decl.priority[1] ELSE default_priority(decl.operands[b].shape)

IsTemplates(templates) ==
  /\ templates \in Seq(Range(templates))
  /\ \A i \in DOMAIN templates :
       /\ templates[i].precedence \in Int /\ templates[i].path \in Seq(Nat)
       /\ templates[i].decl.operands \in Seq(Range(templates[i].decl.operands))
       /\ \A b \in DOMAIN templates[i].decl.operands : PriorityOf(templates[i].decl, b) \in Int

(* A rule is a template and an operand of its pattern.                      *)
Matching(templates, node) ==
  {r \in UNION {{i} \X DOMAIN templates[i].decl.operands : i \in DOMAIN templates} :
     node \in templates[r[1]].decl.operands[r[2]].on}

(* Lexicographically; a longer path is after its prefixes.                  *)
After(p, q) ==
  \/ IsStrictPrefix(q, p)
  \/ \E n \in 1..Min({Len(p), Len(q)}) : SubSeq(p, 1, n - 1) = SubSeq(q, 1, n - 1) /\ p[n] > q[n]

(* Rule r comes before rule s in the order of conflict resolution.          *)
Beats(templates, r, s) ==
  LET t == templates[r[1]]  u == templates[s[1]]
      p == PriorityOf(t.decl, r[2])  q == PriorityOf(u.decl, s[2])
      branch_idx(x) == IF Len(templates[x[1]].decl.operands) > 1 THEN x[2] ELSE 0
  IN IF t.precedence # u.precedence THEN t.precedence > u.precedence
     ELSE IF p # q THEN p > q
     ELSE IF t.path # u.path THEN After(t.path, u.path)
     ELSE branch_idx(r) > branch_idx(s)

(* The loops replace the best rule so far only by one that beats it.        *)
Best(templates, rules) ==
  CHOOSE r \in rules :
    \A s \in rules \ {r} :
       Beats(templates, r, s) \/ (~Beats(templates, s, r) /\ (r[1] < s[1] \/ (r[1] = s[1] /\ r[2] < s[2])))

NoRule == <<>>
Chosen(templates, rules) == IF rules = {} THEN NoRule ELSE Best(templates, rules)

select_template_max_precedence(templates, node, cap) ==
  Chosen(templates, {r \in Matching(templates, node) : templates[r[1]].precedence <= cap})

select_template(templates, node) == Chosen(templates, Matching(templates, node))

(* More than one rule at the precedence and priority of the best: an error  *)
(* where XTRE0540 is reported.                                              *)
multiple(templates, node) ==
  LET rules == Matching(templates, node)
      Tier(r) == <<templates[r[1]].precedence, PriorityOf(templates[r[1]].decl, r[2])>>
  IN rules # {} /\ Cardinality({r \in rules : Tier(r) = Tier(Best(templates, rules))}) > 1

select_template_nextOther(templates, node, current) ==   \* no other operand of the template
  Chosen(templates, {r \in Matching(templates, node) :
                       r[1] # current[1] /\ Beats(templates, current, r)})
select_template_next(templates, node, current) ==
  Chosen(templates, {r \in Matching(templates, node) \ {current} : Beats(templates, current, r)})

ApplyImportsSame(templates, node, current) ==   \* the rules of the same level too
  select_template_max_precedence(templates, node, templates[current[1]].precedence)
ApplyImports(templates, node, current) ==
  select_template_max_precedence(templates, node, templates[current[1]].precedence - 1)

CallTemplate(templates, name) ==
  LET of == {i \in DOMAIN templates : templates[i].decl.name = name}
  IN IF of = {} THEN 0 ELSE Min(of)
=============================================================================
