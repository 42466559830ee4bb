---------------------------- MODULE XsltCompile ----------------------------
(***************************************************************************)
(* How the modules that a stylesheet includes and imports are put together *)
(* and their templates numbered (crates/xslt/src/compiler.rs), and what    *)
(* the numbers, and the choice of XsltRules among them, stand for.         *)
(*                                                                         *)
(* A module is the sequence of its top-level declarations, modules is a    *)
(* function from their names.                                              *)
(***************************************************************************)
EXTENDS XsltRules

IncludeDecl(href)  == [kind |-> "include", href |-> href]
ImportDecl(href)   == [kind |-> "import", href |-> href]

Places(decls, kind) ==
  SelectSeq([i \in DOMAIN decls |-> i], LAMBDA i : decls[i].kind = kind)

-----------------------------------------------------------------------------
(* The templates of a module, at its precedence, by position in it.         *)
Stamped(decls, precedence) ==
  LET at == Places(decls, "template")
  IN [k \in DOMAIN at |-> [decl |-> decls[at[k]], precedence |-> precedence, path |-> <<at[k]>>]]

(* The included modules, at the same precedence and at their place among    *)
(* the module's own templates; then the imported ones, the last first, each *)
(* at the next lower number of the counter.                                 *)
DirectivesForward(decls) ==   \* the first import first
  LET Of(at) == [k \in DOMAIN at |-> <<decls[at[k]], at[k]>>]
  IN Of(Places(decls, "include")) \o Of(Places(decls, "import"))
Directives(decls) ==
  LET Of(at) == [k \in DOMAIN at |-> <<decls[at[k]], at[k]>>]
  IN Of(Places(decls, "include")) \o Of(Reverse(Places(decls, "import")))

RECURSIVE compile_with_imports_inner(_, _, _, _), Merged(_, _, _, _, _)
compile_with_imports_inner(modules, href, IMPORT_CHAIN, acc) ==
  IF href \in IMPORT_CHAIN THEN [acc EXCEPT !.ok = FALSE]
  ELSE Merged(modules, IMPORT_CHAIN \cup {href}, acc.precedence_counter, Directives(modules[href]),
              [acc EXCEPT !.templates = @ \o Stamped(modules[href], acc.precedence_counter)])

Merged(modules, chain, this_precedence, directives, acc) ==
  IF directives = <<>> \/ ~acc.ok THEN acc ELSE
  LET d == Head(directives)[1]
      before == Len(acc.templates)
      prev == acc.precedence_counter
      included == compile_with_imports_inner(modules, d.href, chain,
                    [acc EXCEPT !.precedence_counter = this_precedence])
      next == IF d.kind = "import"
              THEN compile_with_imports_inner(modules, d.href, chain,
                     [acc EXCEPT !.precedence_counter = @ - 1])
              ELSE [included EXCEPT
                      !.precedence_counter = prev,
                      !.templates = [i \in DOMAIN @ |->
                         IF i > before THEN [@[i] EXCEPT !.path = <<Head(directives)[2]>> \o @] ELSE @[i]]]
  IN Merged(modules, chain, this_precedence, Tail(directives), next)

Compile(modules, href) ==
  compile_with_imports_inner(modules, href, {},
                             [ok |-> TRUE, templates |-> <<>>, precedence_counter |-> 0])

(* Two templates of one name at one precedence, and none above.             *)
validate_named_template_uniqueness(templates) ==
  \A i, j \in DOMAIN templates :
    (/\ i # j /\ templates[i].decl.name = templates[j].decl.name /\ templates[i].decl.name # ""
     /\ templates[i].precedence = templates[j].precedence)
    => \E k \in DOMAIN templates : /\ templates[k].decl.name = templates[i].decl.name
                                   /\ templates[k].precedence > templates[i].precedence

-----------------------------------------------------------------------------
(* What the numbers stand for: the levels of the tree of imports.  A level  *)
(* is a module with what it includes in place of the directives, and what   *)
(* any of these import comes after it, the last first.                      *)
RECURSIVE Inlined(_, _), Imported(_, _), Levels(_, _)
Inlined(modules, decls) ==
  FlattenSeq([i \in DOMAIN decls |->
    CASE decls[i].kind = "template" -> <<decls[i]>>
      [] decls[i].kind = "include"  -> Inlined(modules, modules[decls[i].href])
      [] OTHER -> <<>>])
Imported(modules, decls) ==
  FlattenSeq([i \in DOMAIN decls |->
    CASE decls[i].kind = "import"  -> <<decls[i].href>>
      [] decls[i].kind = "include" -> Imported(modules, modules[decls[i].href])
      [] OTHER -> <<>>])
Levels(modules, href) ==
  LET below == Reverse(Imported(modules, modules[href]))
  IN <<Inlined(modules, modules[href])>> \o FlattenSeq([i \in DOMAIN below |-> Levels(modules, below[i])])

(* The rules of a level for a node, in the order they come to be chosen.    *)
RulesOf(level, node) ==
  LET all == FlattenSeq([i \in DOMAIN level |-> [b \in DOMAIN level[i].operands |-> <<i, b>>]])
  IN SortSeq(SelectSeq(all, LAMBDA r : node \in level[r[1]].operands[r[2]].on),
             LAMBDA r, s : LET p == PriorityOf(level[r[1]], r[2])  q == PriorityOf(level[s[1]], s[2])
                           IN p > q \/ (p = q /\ (r[1] > s[1] \/ (r[1] = s[1] /\ r[2] > s[2]))))

(* Including and importing lead back to no module.                          *)
References(modules, href) == {modules[href][i].href : i \in {j \in DOMAIN modules[href] :
                                                               modules[href][j].kind # "template"}}
RECURSIVE Reach(_, _, _)
Reach(modules, S, n) ==
  IF n = 0 THEN S ELSE Reach(modules, S \cup UNION {References(modules, h) : h \in S}, n - 1)
WellFormed(modules, href) ==
  \A h \in Reach(modules, {href}, Cardinality(DOMAIN modules)) :
     h \notin Reach(modules, References(modules, h), Cardinality(DOMAIN modules))

(* No included module imports.                                              *)
IncludesImportNothing(modules, href) ==
  \A h \in Reach(modules, {href}, Cardinality(DOMAIN modules)) :
     \A i \in ToSet(Places(modules[h], "include")) : Places(modules[modules[h][i].href], "import") = <<>>

(* What is asked of a stylesheet, and what the code answers, for a node: the *)
(* rules that apply-templates and then next-match after next-match run; per *)
(* rule of the first the one that apply-imports runs; whether two are best. *)
RECURSIVE NextMatches(_, _, _)
NextMatches(templates, node, r) ==
  IF r = NoRule THEN <<>>
  ELSE <<r>> \o NextMatches(templates, node, select_template_next(templates, node, r))

RulesFor(templates, node) ==
  LET chain == NextMatches(templates, node, select_template(templates, node))
      Ran(r) == IF r = NoRule THEN NoRule ELSE <<templates[r[1]].decl.body, r[2]>>
  IN [chain    |-> [i \in DOMAIN chain |-> Ran(chain[i])],
      imports  |-> [i \in DOMAIN chain |-> Ran(ApplyImports(templates, node, chain[i]))],
      multiple |-> multiple(templates, node)]

(* The same from the levels.                                                *)
RulesMeant(levels, node) ==
  LET Of(l)   == RulesOf(levels[l], node)
      chain   == FlattenSeq([l \in DOMAIN levels |->
                   LET rules == Of(l) IN [i \in DOMAIN rules |-> [level |-> l, rule |-> rules[i]]]])
      Ran(c)  == <<levels[c.level][c.rule[1]].body, c.rule[2]>>
      Tier(c) == <<c.level, PriorityOf(levels[c.level][c.rule[1]], c.rule[2])>>
      Below(c) == {j \in DOMAIN chain : chain[j].level > c.level}
  IN [chain    |-> [i \in DOMAIN chain |-> Ran(chain[i])],
      imports  |-> [i \in DOMAIN chain |->
                      IF Below(chain[i]) = {} THEN NoRule ELSE Ran(chain[Min(Below(chain[i]))])],
      multiple |-> Len(chain) > 1 /\ Tier(chain[1]) = Tier(chain[2])]

(* The template a call runs, and the one it means: that of the first level  *)
(* that has the name.                                                       *)
Called(templates, name) ==
  LET i == CallTemplate(templates, name) IN IF i = 0 THEN NoRule ELSE <<templates[i].decl.body>>

CallsMeant(levels, name) ==
  LET of == {l \in DOMAIN levels : \E i \in DOMAIN levels[l] : levels[l][i].name = name}
  IN IF of = {} THEN NoRule
     ELSE LET l == levels[Min(of)] IN <<l[Min({i \in DOMAIN l : l[i].name = name})].body>>
=============================================================================
