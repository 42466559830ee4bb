---------------------------- MODULE TreeFunctions ----------------------------
(***************************************************************************)
(* Services that read documents and files and keep nothing between two     *)
(* calls: the lookup of an identifier in catalogs, XInclude in both        *)
(* implementations, canonical XML, the identity constraints of XSD, the    *)
(* template rules of an XSLT stylesheet, and XPath's paths, patterns and   *)
(* predicates on sequences.  A caller asks one of them.                    *)
(***************************************************************************)
EXTENDS Canonical, Catalog, XInclude, XsdIdentity, XsltCompile, XPath

CONSTANTS Given(_),  \* what a caller may have: catalogs, a stylesheet, or a document to include into
          Schemas    \* to validate against

VARIABLES given,   \* what the caller has: the above, a document to write or one to validate
          answer   \* of the last call

vars == <<given, answer, cvars, ivars>>

Writing    == [kind |-> "write"]
Validating == [kind |-> "validate"]
NoWriter   == mode = "C14n10" /\ inclusive_prefixes = {} /\ frames = <<>>
NoSchema   == IdentityInit(NoValue)

Init ==
  /\ answer = None
  /\ \/ Given(given) /\ NoWriter /\ NoSchema
     \/ given = Writing /\ CanonicalInit /\ NoSchema
     \/ given = Validating /\ NoWriter /\ \E s \in Schemas : IdentityInit(s)

Ask(ask) ==
  /\ given.kind = "catalogs" /\ answer = None
  /\ answer' = [ask |-> ask, found |-> resolve(load(given.files, given.roots), ask)]
  /\ UNCHANGED <<given, cvars, ivars>>

Include ==
  /\ given.kind = "include" /\ answer = None
  /\ answer' = [copied |-> process_xincludes(given), in_place |-> xmlXIncludeProcessFlags(given)]
  /\ UNCHANGED <<given, cvars, ivars>>

Transform ==
  /\ given.kind = "stylesheet" /\ answer = None
  /\ LET style == Compile(given.modules, "main")
     IN answer' = [ok    |-> style.ok,
                   rules |-> [n \in given.nodes |-> RulesFor(style.templates, n)],
                   named |-> validate_named_template_uniqueness(style.templates),
                   calls |-> [n \in given.names |-> Called(style.templates, n)]]
  /\ UNCHANGED <<given, cvars, ivars>>

Select ==
  /\ given.kind = "path" /\ answer = None
  /\ LET idx == build(given.doc)
     IN answer' = [found |-> [n \in DOMAIN idx |-> eval_expr(idx, given.expr, Context(n, 1, 1)).v],
                   match |-> {n \in DOMAIN idx : matches_node(idx, given.expr, n)}]
  /\ UNCHANGED <<given, cvars, ivars>>

Match ==
  /\ given.kind = "pattern" /\ answer = None
  /\ LET idx == build(given.doc)
     IN answer' = {n \in DOMAIN idx : idx[n].kind \in {"document", "element", "text", "attribute"}
                                       /\ xmlPatternMatch(idx, given.branches, n)}
  /\ UNCHANGED <<given, cvars, ivars>>

Filter ==
  /\ given.kind = "items" /\ answer = None
  /\ answer' = filter_sequence_by_predicates(given.items, given.predicates, given.outer, given.collation)
  /\ UNCHANGED <<given, cvars, ivars>>

Canonicalize == given.kind = "write" /\ Walk /\ UNCHANGED <<given, answer, ivars>>

Check == given.kind = "validate" /\ Validate /\ UNCHANGED <<given, answer, cvars>>

Return == answer # None /\ answer' = None /\ UNCHANGED <<given, cvars, ivars>>

Next ==
  \/ \E ask \in Asks : Ask(ask)
  \/ Include \/ Transform \/ Select \/ Match \/ Filter \/ Canonicalize \/ Check \/ Return

Spec == Init /\ [][Next]_vars

-----------------------------------------------------------------------------
Answered(kind) == given.kind = kind /\ answer # None

(* Scopes of `prefer' do not reach from one root file into the next, as     *)
(* they do in the code when the next does not set its own.                  *)
OwnPrefer == \A i \in 2..Len(given.roots) : given.files[given.roots[i]].prefer # ""

(* Cutting the files that are being loaded, and entering none twice, lose   *)
(* no answer and change none: a lookup finds what the order of the entries  *)
(* and files says along every chain of references (try_load_subcatalog,     *)
(* mark_seen, longest_delegate).                                            *)
CatalogFirstMatch ==
  Answered("catalogs") /\ OwnPrefer =>
    answer.found = Search(given.files, RootsListed(given.files, given.roots, {}), answer.ask)

(* Each file's entries are in the scope of its own `prefer', "Defaults to   *)
(* `Public`" (catalog.rs:48).                                               *)
CatalogScopes ==
  Answered("catalogs") =>
    answer.found = Search(given.files, RootsListed(given.files, given.roots, {}), answer.ask)

(* With bytes enough for what is read, an include stands for its resource's *)
(* expansion or else its fallback's, whatever was tried and given up before *)
(* it; the budget holds on every path (resolve_include).                    *)
XIncludeIsExpansion ==
  Answered("include") =>
    LET free == process_xincludes([given EXCEPT !.max_total_bytes = 1000])
        meaning == Expansion(given, <<given.root>>, {})
    IN /\ free.ok = (meaning.ok /\ ~is_xinclude_element(given.root))
       /\ free.ok => free.out = meaning.out
       /\ free.s.total_bytes <= given.max_total_bytes => answer.copied = free
       /\ answer.copied.s.total_bytes <= given.max_total_bytes

(* Replacing the includes in the tree gives the document that copying gives *)
(* (process_one, copy_and_expand), where the two implementations mean to    *)
(* read the same: no include is the root of a resource or a child of a      *)
(* fallback, none within itself, and nothing comes before the root.         *)
InPlaceAgrees ==
  Answered("include") /\ ~given.prolog /\ Acyclic(given) /\ Splices(given)
      /\ (\A n \in Includes(given) : n[3] \in {"xml", "text"})
    => LET meaning == Expansion([given EXCEPT !.max_depth = given.MAX_XINCLUDE_DEPTH + 1],
                                <<given.root>>, {})
       IN /\ answer.in_place.ok = meaning.ok
          /\ meaning.ok => answer.in_place.out = meaning.out

(* Both implementations.                                                    *)
XIncludeRight == XIncludeIsExpansion /\ InPlaceAgrees

(* A module with all it includes is one level, above all that it imports:   *)
(* the numbers and paths the templates are merged with choose for a node    *)
(* what the levels say, next-match after next-match and from every rule by  *)
(* apply-imports (compile_with_imports_inner, select_template_next); a call *)
(* runs the template of the first level.                                    *)
RulesAsImported ==
  Answered("stylesheet") =>
    /\ answer.ok = WellFormed(given.modules, "main")
    /\ answer.ok =>
         LET levels == Levels(given.modules, "main")
         IN /\ \A n \in given.nodes : answer.rules[n] = RulesMeant(levels, n)
            /\ answer.named => \A n \in given.names : answer.calls[n] = CallsMeant(levels, n)

(* Where no included module imports.                                        *)
RulesInOrder ==
  Answered("stylesheet") /\ IncludesImportNothing(given.modules, "main") => RulesAsImported

(* From every node a path gives what it means, in document order, and a     *)
(* pattern matches what it gives from some node, the steps down being all   *)
(* that patterns have (eval_path, pattern.rs matches).                      *)
NumberOfPlace(places, a) == Rank(DOMAIN places, a, FALSE)
IsPattern(e) ==
  e.op = "path" /\ \A i \in DOMAIN e.steps :
    e.steps[i].axis \in {"child", "attribute"} \/ e.steps[i] = desc_or_self_step
PathsRight ==
  Answered("path") =>
    LET places == PlacesOf(given.doc)
        Numbers(S) == {NumberOfPlace(places, a) : a \in S}
        meant == [a \in DOMAIN places |-> Result(places, given.expr, a)]
    IN \A a \in DOMAIN places :
         LET found == answer.found[NumberOfPlace(places, a)]
         IN /\ ToSet(found) = Numbers(meant[a])
            /\ \A i \in 1..(Len(found) - 1) : found[i] < found[i + 1]
            /\ IsPattern(given.expr) =>
                 (NumberOfPlace(places, a) \in answer.match)
                   = (\E b \in DOMAIN places : a \in meant[b])

(* An xmlPattern matches what its branches give as paths from the document, *)
(* "//" reaching "some ancestor (any distance)" (xpath/pattern.rs:102).     *)
PatternsMatchPaths ==
  Answered("pattern") =>
    LET places == PlacesOf(given.doc)
    IN answer = {NumberOfPlace(places, a) :
                   a \in UNION {Result(places, AsPath(given.branches[b]), <<>>) : b \in DOMAIN given.branches}}
(* As far as the nearest ancestor is as good as any.                        *)
PatternsRight ==
  Answered("pattern") /\ (\A b \in DOMAIN given.branches : NoWayBackNeeded(given.branches[b]))
    => PatternsMatchPaths

(* Membership in a set made once keeps the items that the comparison, made  *)
(* for each, keeps (try_membership_filter).                                 *)
MembershipIsComparison ==
  Answered("items") => answer = EachInTurn(given.items, given.predicates, given.collation)
(* On one kind of items.                                                    *)
FilterRight ==
  Answered("items") /\ (\A i \in DOMAIN given.predicates : Uniform(given.items, given.predicates[i], given.collation))
    => MembershipIsComparison

(* All three.                                                               *)
XPathRight == PathsRight /\ PatternsRight /\ FilterRight

(* "process from the doc's root element" (xinclude.rs:64).                  *)
FlagsProcessTheRoot ==
  Answered("include") => answer.in_place = xmlXIncludeProcessTree(given)
=============================================================================
