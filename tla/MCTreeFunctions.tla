-------------------------- MODULE MCTreeFunctions --------------------------
EXTENDS TreeFunctions

UpTo(n, S) == UNION {[1..k -> S] : k \in 0..n}

(* Canonical: at most one declaration in an element.                        *)
MCDeclarations == {[p \in NsPrefixes |-> None]}
  \cup {[p \in NsPrefixes |-> IF p = q THEN u ELSE None] : q \in NsPrefixes, u \in Uris}
  \cup {[p \in NsPrefixes |-> IF p = NoPrefix THEN NoUri ELSE None]}

(* Catalogs: three files that refer to each other; u1..u3 say which file    *)
(* and entry answered.                                                      *)
File(prefer, es) == [prefer |-> prefer, groups |-> [i \in DOMAIN es |-> ""], entries |-> es, parses |-> TRUE]
Refer(f, n) == {Entry("delegateSystem", 1, f), Entry("delegatePublic", 1, f), Entry("nextCatalog", 0, f)}
               \cup (IF n = 2 THEN {Entry("delegateSystem", 2, f), Entry("delegateURI", 1, f)} ELSE {})
Leaf(u) == {Entry("system", 0, u), Entry("public", 0, u)}
InA == Refer("b", 2) \cup Refer("c", 2) \cup {Entry("system", 0, "u1"), Entry("delegateSystem", NoMatch, "b")}
InB == Refer("a", 1) \cup Refer("c", 2) \cup Leaf("u2")
InC == {Entry("nextCatalog", 0, "b"), Entry("delegateSystem", 1, "a"), Entry("uri", 0, "u3")} \cup Leaf("u3")
FilesOf(a, b, c) == ("a" :> File("", a)) @@ ("b" :> File("", b)) @@ ("c" :> File("", c))
Chains(g) == \E a \in UpTo(2, InA), b \in UpTo(2, InB), c \in UpTo(1, InC) :
               g = [kind |-> "catalogs", roots |-> <<"a">>, files |-> FilesOf(a, b, c)]
(* Entries of one file, in every order: prefixes of several lengths, groups.*)
Own == {Entry("system", NoMatch, "u1"), Entry("system", 0, "u2"), Entry("public", 0, "u3"),
        Entry("rewriteSystem", 1, "u4"), Entry("rewriteSystem", 2, "u5"), Entry("rewriteUri", 2, "u6"),
        Entry("rewriteSystem", 1, "u7"), Entry("uri", 0, "u8"), Entry("delegateSystem", 3, "b")}
Alone(g) ==
  \E es \in UpTo(3, Own), p \in {"", "system"}, q \in {"", "public", "system"}, ok \in BOOLEAN :
    g = [kind |-> "catalogs", roots |-> <<"a">>,
         files |-> ("a" :> [File(p, es) EXCEPT !.groups = [i \in DOMAIN es |-> q]])
                   @@ ("b" :> [File("", <<Entry("public", 0, "u9")>>) EXCEPT !.parses = ok])]
(* Two roots.                                                               *)
Roots(g) ==
  \E a \in UpTo(2, Refer("c", 1) \cup {Entry("nextCatalog", 0, "b")} \cup Leaf("u1")),
     b \in UpTo(2, Refer("c", 1) \cup {Entry("nextCatalog", 0, "a")} \cup Leaf("u2")),
     p \in {"", "system"}, q \in {"", "public"} :
    g = [kind |-> "catalogs", roots |-> <<"a", "b">>,
         files |-> ("a" :> File(p, a)) @@ ("b" :> File(q, b))
                   @@ ("c" :> File("", <<Entry("public", 0, "u9")>>))]

(* XInclude: two resources and a document with up to two includes.          *)
T == TextNode("t")
Fallbacks == {<<>>, <<<<>>>>, <<<<T>>>>} \cup
             {<<<<f>>>> : f \in {Inc("a", "xml", <<>>), El(<<Inc("b", "xml", <<>>)>>),
                                 El(<<T, Inc("a", "xml", <<<<T>>>>)>>)}}
Incs == {Inc(h, "xml", f) : h \in {"a", "b"}, f \in Fallbacks}
        \cup {Inc("a", "text", <<>>), Inc(NoHref, "xml", <<>>), Inc("c", "xml", <<<<T>>>>),
              Inc("b", "zip", <<<<T>>>>)}
Few  == {Inc(h, "xml", f) : h \in {"a", "b"}, f \in {<<>>, <<<<T>>>>}}
Bodies == {El(<<i>>) : i \in Incs} \cup {El(<<i, El(<<k>>)>>) : i, k \in Few} \cup {El(<<T>>)} \cup Few
Resource(r) == [size |-> 1, root |-> r]
Documents(g) ==
  \E p \in BOOLEAN, l \in {<<2, 100>>, <<6, 2>>},
     r \in {El(<<i, k>>) : i, k \in Few} \cup {El(<<El(<<i>>), T>>) : i \in Incs} \cup Few,
     a \in Bodies \cup {<<>>},
     b \in {El(<<i>>) : i \in Few} \cup {El(<<T>>), Inc("a", "text", <<>>), <<>>} \cup Few :
    g = [kind |-> "include", prolog |-> p, root |-> r, MAX_XINCLUDE_DEPTH |-> 4,
         max_depth |-> l[1], max_total_bytes |-> l[2],
         resources |-> ("a" :> Resource(a)) @@ ("b" :> Resource(b))]

(* XSD: a schema each for keys on attributes, values compared by value, deep *)
(* fields, nested scopes, and assertions with wildcards.                    *)
Tag(n, as) == [name |-> n, atts |-> as]
X(v)       == "x" :> v
Decl(type, ids) == [type |-> type, identity |-> ids, asserts |-> FALSE, how |-> "particle"]
Constraint(n, kind, sel, fs, refer) ==
  [name |-> n, kind |-> kind, selector |-> sel, fields |-> fs, refer |-> refer]
Deep(steps) == Path(TRUE, steps)
From(steps) == Path(FALSE, steps)
AtX         == From(<<Att("x")>>)
SchemaOf(decls, tags, texts, size) ==
  [decls |-> decls, root |-> IF "r" \in DOMAIN decls THEN "r" ELSE "a",
   tags |-> tags, texts |-> texts, size |-> size]
Plainly == Decl("complex", <<>>)
MCSchemas ==
  { SchemaOf(   \* a key of a's anywhere, references from the children
      ("r" :> Decl("complex", <<Constraint("K", "key", {Deep(<<Child("a")>>)}, <<<<AtX>>>>, ""),
                                Constraint("R", "keyref", {From(<<Child("b")>>)}, <<<<AtX>>>>, "K")>>))
      @@ ("a" :> Plainly) @@ ("b" :> Plainly),
      {Tag("r", <<>>), Tag("a", X("1")), Tag("a", X("2")), Tag("a", <<>>), Tag("b", X("1")), Tag("b", <<>>)},
      {}, 5),
    SchemaOf(   \* values in three types, compared with each other
      ("r" :> Decl("complex", <<Constraint("R", "keyref", {From(<<Child("c")>>)}, <<<<Self>>>>, "U"),
                                Constraint("U", "unique", {From(<<Child("a")>>), From(<<Child("b")>>)},
                                           <<<<Self>>>>, "")>>))
      @@ ("a" :> Decl("decimal", <<>>)) @@ ("b" :> Decl("string", <<>>)) @@ ("c" :> Decl("decimal", <<>>)),
      {Tag(x, <<>>) : x \in {"r", "a", "b", "c"}}, {"1", "01"}, 4),
    SchemaOf(   \* a text field in a pair: no comparison by value
      ("r" :> Decl("complex", <<Constraint("K", "key", {From(<<Child("a")>>)}, <<<<Self>>>>, ""),
                                Constraint("R", "keyref", {From(<<Child("b")>>)}, <<<<AtX>>>>, "K")>>))
      @@ ("a" :> Decl("decimal", <<>>)) @@ ("b" :> Plainly),
      {Tag("r", <<>>), Tag("a", <<>>), Tag("b", X("1")), Tag("b", X("01"))}, {"1", "01"}, 4),
    SchemaOf(   \* fields two levels down, beside one at hand; the levels nest
      ("r" :> Decl("complex", <<Constraint("U", "unique", {Deep(<<Child("a")>>)},
                                  <<<<From(<<Child("b"), Child("*"), Att("x")>>)>>, <<AtX>>>>, "")>>))
      @@ ("a" :> Plainly) @@ ("b" :> Plainly),
      {Tag("r", <<>>), Tag("a", X("1")), Tag("b", X("1"))}, {}, 7),
    SchemaOf(   \* every a opens a scope of its own, in which it counts itself
      ("a" :> Decl("complex", <<Constraint("K", "key", {Self, From(<<Child("a")>>), Deep(<<Child("b"), Child("a")>>)},
                                           <<<<AtX, From(<<Child("b"), Att("y")>>)>>>>, "")>>))
      @@ ("b" :> Plainly),
      {Tag("a", X("1")), Tag("a", X("2")), Tag("a", <<>>), Tag("b", "y" :> "1"), Tag("b", <<>>)}, {}, 5),
    SchemaOf(   \* a reference from an inner scope to an outer key
      ("r" :> Decl("complex", <<Constraint("K", "key", {Deep(<<Child("a")>>)}, <<<<AtX>>>>, "")>>))
      @@ ("a" :> Plainly)
      @@ ("b" :> Decl("complex", <<Constraint("R", "keyref", {From(<<Child("c")>>)}, <<<<AtX>>>>, "K")>>))
      @@ ("c" :> Plainly),
      {Tag("r", <<>>), Tag("a", X("1")), Tag("b", <<>>), Tag("c", X("1")), Tag("c", X("2"))}, {}, 5),
    SchemaOf(   \* assertions above wildcards and skipped parts, with a key between
      ("r" :> [Plainly EXCEPT !.asserts = TRUE])
      @@ ("a" :> [Decl("complex", <<Constraint("K", "key", {From(<<Child("b")>>)}, <<<<AtX>>>>, "")>>)
                  EXCEPT !.how = "wildcard", !.asserts = TRUE])
      @@ ("b" :> [Plainly EXCEPT !.asserts = TRUE]) @@ ("c" :> [Plainly EXCEPT !.how = "skip"]),
      {Tag("r", <<>>), Tag("a", X("1")), Tag("b", X("1")), Tag("c", <<>>)}, {"1"}, 4) }
MCValue(type, text) == IF type = "decimal" THEN 1 ELSE text

(* XSLT: three modules, two nodes.                                          *)
Names1  == <<Operand("name", {"n"})>>
Union   == <<Operand("prefix:*", {"n", "m"}), Operand("any", {"n"}), Operand("any", {"n"})>>
Sheets(g) ==
  LET T1(b) == TemplateDecl(<<b, 1>>, "t", <<>>, Union)
      T2(b) == TemplateDecl(<<b, 2>>, "", <<-1>>, Names1)
      T3(b) == TemplateDecl(<<b, 3>>, "t", <<>>, Names1)
  IN \E main \in UpTo(3, {T1("main"), T2("main"), IncludeDecl("b"), IncludeDecl("c"),
                          ImportDecl("b"), ImportDecl("c")}),
        b \in UpTo(2, {T1("b"), T2("b"), IncludeDecl("c"), ImportDecl("c")}),
        c \in UpTo(1, {T1("c"), T3("c"), IncludeDecl("b")}) :
       g = [kind |-> "stylesheet", nodes |-> {"n", "m"}, names |-> {"t"},
            modules |-> ("main" :> main) @@ ("b" :> b) @@ ("c" :> c)]

(* XPath: three documents; one step and every predicate, two steps, and     *)
(* patterns of up to three.                                                 *)
Bare(name, kids) == Element(name, <<>>, <<>>, kids)
B0 == Bare("b", <<>>)
XDocs ==
  { <<Childless("comment"),
      Element("a", <<"xml", "p">>, <<"xmlns", "x", "y">>,
              <<Element("b", <<"xml">>, <<"x">>, <<>>), Childless("entity reference"), Childless("text"),
                Element("a", <<>>, <<"x">>, <<B0, Childless("cdata")>>)>>)>>,
    <<Bare("a", <<Bare("a", <<Bare("b", <<Element("b", <<>>, <<"x">>, <<>>)>>)>>)>>)>>,
    <<Bare("b", <<B0, Element("a", <<>>, <<"x">>, <<B0, B0>>), B0, Bare("a", <<Childless("text"), B0>>)>>)>> }
Axes == {"self", "child", "parent", "attribute", "namespace", "ancestor", "ancestor-or-self", "descendant",
         "descendant-or-self", "following-sibling", "preceding-sibling", "following", "preceding"}
To(axis, test) == PathExpr(FALSE, <<Step(axis, test, <<>>)>>)
Says1 == {NumberExpr(1), LastCall, EqExpr(PositionCall, NumberExpr(2)), EqExpr(LastCall, PositionCall), EqExpr(LastCall, NumberExpr(2)),
          To("child", "b"), To("attribute", "x"), NotCall(To("preceding-sibling", "b"))}
OneStep == {Step(x, t, ps) : x \in Axes, t \in {"node()", "*", "b", "text()"}, ps \in {<<>>} \cup {<<q>> : q \in Says1}}
           \cup {Step(x, "*", <<q, NumberExpr(1)>>) : x \in Axes, q \in {NumberExpr(2), To("child", "b")}}
Short == {Step(x, t, ps) : x \in {"child", "ancestor", "preceding", "following", "attribute", "descendant",
                                  "preceding-sibling"},
                           t \in {"node()"}, ps \in {<<>>, <<NumberExpr(1)>>, <<LastCall>>}} \cup {desc_or_self_step}
Downs == {Step("child", t, ps) : t \in {"a", "b", "node()"}, ps \in {<<>>, <<NumberExpr(1)>>}}
         \cup {Step("attribute", "x", <<>>), desc_or_self_step}
TwoSteps == {PathExpr(abs, <<s, u>>) : abs \in {FALSE}, s, u \in Short}
            \cup {PathExpr(abs, ss) : abs \in BOOLEAN, ss \in UpTo(2, Downs) \cup [1..3 -> Downs \ {Step("child", "node()", <<>>)}]}
Others == {FilterExpr(To(x, "node()"), <<q>>, ss) : x \in {"ancestor", "preceding", "child"},
             q \in {NumberExpr(1), LastCall}, ss \in UpTo(1, {Step("child", "*", <<NumberExpr(1)>>)})}
          \cup {UnionExpr(To(x, "node()"), To(y, "*")) : x, y \in {"attribute", "namespace", "preceding", "child"}}
          \cup {PathExpr(FALSE, <<Step("self", "document-node()", <<>>), Step("child", "a", <<>>)>>)}
Asking(g) ==
  \E d \in XDocs, e \in {PathExpr(abs, <<s>>) : abs \in {FALSE}, s \in OneStep} \cup TwoSteps \cup Others :
    g = [kind |-> "path", doc |-> d, expr |-> e]

PSteps == {PatternStep(t, FALSE, <<>>) : t \in {"a", "b", "*"}}
          \cup {PatternStep("b", FALSE, <<q>>) : q \in {NumberExpr(2), LastCall, To("attribute", "x")}}
PLast  == PSteps \cup {PatternStep("x", TRUE, <<>>)}
Written(n) == {[lead |-> l, steps |-> Append(ss, z), links |-> ks] :
                 l \in {"", "/", "//"}, ss \in [1..(n - 1) -> PSteps], z \in PLast, ks \in [1..(n - 1) -> {"/", "//"}]}
Patterns(g) ==
  \E d \in XDocs, bs \in {<<b>> : b \in UNION {Written(n) : n \in 1..2}}
                         \cup {<<[b EXCEPT !.steps = <<y>> \o @, !.links = <<k>> \o @]>> :
                                 b \in Written(2), y \in {PatternStep("a", FALSE, <<>>), PatternStep("b", FALSE, <<>>)},
                                 k \in {"/", "//"}}
                         \cup {<<b, c>> : b, c \in Written(1)} :
    g = [kind |-> "pattern", doc |-> d, branches |-> bs]

Text(kind, t, v) == [kind |-> kind, text |-> t, value |-> v]
XItems == {NumberItem(2), NumberItem(4), NumberItem(5), Text("string", "s", NaN), Text("string", "S", NaN),
           Text("node", "s", NaN), Text("node", "1", 2)}
Rhs == {[e |-> "items", items |-> is] : is \in UpTo(2, XItems)}
XPreds == {Compared(op, n, r) : op \in {"=", "!="}, n \in {0, 1}, r \in Rhs} \cup {Nth(1), Nth(2)}
          \cup {Compared("=", n, [e |-> c]) : n \in {0, 1}, c \in {"position()", "string(.)"}}
Texts(items) == \A i \in DOMAIN items : items[i].kind # "number"
Itemized(g) ==
  \E is \in UpTo(2, XItems), ps \in {<<q>> : q \in XPreds} \cup {<<Nth(2), Nth(1)>>, <<Compared("!=", 0, [e |-> "items", items |-> <<NumberItem(2)>>]), Nth(2)>>},
     ci \in BOOLEAN :
    /\ (\E i \in DOMAIN ps : ps[i].op # "number" /\ ps[i].rhs.e = "string(.)") => Texts(is)
    /\ g = [kind |-> "items", items |-> is, predicates |-> ps, outer |-> [item |-> Text("node", "s", NaN), pos |-> 1],
            collation |-> [ci |-> ci, Fold |-> ("s" :> "s") @@ ("S" :> "s") @@ ("1" :> "1")]]

MCGiven(g) == Asking(g) \/ Patterns(g) \/ Itemized(g)
              \/ Chains(g) \/ Alone(g) \/ Roots(g) \/ Documents(g) \/ Sheets(g)
============================================================================
