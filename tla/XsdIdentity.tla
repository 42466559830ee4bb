----------------------------- MODULE XsdIdentity -----------------------------
(***************************************************************************)
(* Identity constraints and assertions of the XSD validator                *)
(* (core/src/xsd/validate.rs, identity.rs).  The validator reads the       *)
(* document once: it marks at an element's start tag which constraints of  *)
(* the open scopes select it and how deep it must remember its content,    *)
(* takes the key values from that memory at the end tag, and compares the  *)
(* tables when the element that declares them ends.                        *)
(*                                                                         *)
(* A schema has one declaration for each name: its type, its constraints,  *)
(* whether it has assertions, and how its parents admit it: by a particle, *)
(* by a wildcard, or by a wildcard that skips.  The rest of validation is  *)
(* ContentModels'; namespaces and xsi:type are left out.  Operators with a *)
(* suffix are altered forms of the one they stand before.                  *)
(***************************************************************************)
EXTENDS Naturals, Sequences, FiniteSets, SequencesExt, FiniteSetsExt

CONSTANTS NoValue,     \* no value
          Value(_, _)  \* of a text in a simple type

(* A path: whether it begins with .//, and its steps.                       *)
Path(descendant, steps) == [descendant |-> descendant, steps |-> steps]
Child(n) == <<"child", n>>
Att(n)   == <<"attribute", n>>
Self     == Path(FALSE, <<>>)

VARIABLES schema,     \* [decls, root, tags, texts, size]: what is declared, what the document is made of
          tree,       \* the elements so far: [name, parent, atts, text, skipped]
          open,       \* those that are open, outermost first
          stack,      \* the validator's frames, one for each open element not skipped
          key_scopes, \* the scopes of the open elements that declare constraints
          skipping,   \* how deep the validator is in a part it skips
          ended,      \* the element whose end tag was just read, or 0
          issues,     \* reported at that end tag
          asserted    \* what the assertions of that element were given, or NoValue

ivars == <<schema, tree, open, stack, key_scopes, skipping, ended, issues, asserted>>

-----------------------------------------------------------------------------
(* At the start tag.                                                        *)
Unbounded == 100   \* usize::MAX

fits(nt, n) == nt \in {"*", n}

(* path_matches, for an element below the frames f, `rel' below the one that *)
(* declares the constraint.                                                 *)
path_matchesUnanchored(path, f, n, rel) ==
  LET names == Append([x \in DOMAIN f |-> f[x].name], n)   len == Len(path.steps)
  IN rel >= len /\ \A s \in 1..len : fits(path.steps[s][2], names[Len(names) - len + s])
path_matches(path, f, n, rel) ==
  LET names == Append([x \in DOMAIN f |-> f[x].name], n)   len == Len(path.steps)
  IN /\ rel = len \/ (path.descendant /\ len > 0 /\ rel > len)
     /\ \A s \in 1..len : fits(path.steps[s][2], names[Len(names) - len + s])

Identity(scope) == schema.decls[scope.decl].identity

check_active_scopes(scopes, n) ==
  {m \in UNION {{si} \X DOMAIN Identity(scopes[si]) : si \in DOMAIN scopes} :
     \E path \in Identity(scopes[m[1]])[m[2]].selector :
       path_matches(path, stack, n, Len(stack) - scopes[m[1]].declaring_depth)}

max_field_child_descent(field) ==
  Max({0} \cup {Len(SelectSeq(field[x].steps, LAMBDA s : s[1] = "child")) : x \in DOMAIN field})

CollectDepth(scopes, matched, asserts) ==
  IF asserts THEN Unbounded
  ELSE Max({0} \cup UNION {{max_field_child_descent(Identity(scopes[m[1]])[m[2]].fields[x]) :
                              x \in DOMAIN Identity(scopes[m[1]])[m[2]].fields} : m \in matched})

ParentDepth == IF stack = <<>> THEN 0 ELSE Last(stack).collect_depth
InheritedNone == 0
Inherited     == IF ParentDepth = 0 THEN 0 ELSE ParentDepth - 1

(* handle_start, or push_decl_ctx for an element that a wildcard admits,    *)
(* which does not look at the assertions.                                   *)
Push(tag, node) ==
  LET decl    == schema.decls[tag.name]
      scopes  == IF decl.identity = <<>> THEN key_scopes
                 ELSE Append(key_scopes, [declaring_depth |-> Len(stack), decl |-> tag.name,
                                          collected |-> [c \in DOMAIN decl.identity |-> <<>>]])
      matched == check_active_scopes(scopes, tag.name)
      asserts == decl.asserts /\ (decl.how = "particle" \/ stack = <<>>)
      capture == matched # {} \/ ParentDepth > 0 \/ asserts
  IN /\ key_scopes' = scopes
     /\ stack' = Append(stack,
          [name |-> tag.name, node |-> node, text_buf |-> "",
           cached_attrs |-> IF capture THEN tag.atts ELSE <<>>,
           declared_scope |-> decl.identity # <<>>, matched_constraints |-> matched,
           collect_depth |-> Max({CollectDepth(scopes, matched, asserts), Inherited}),
           child_snapshots |-> <<>>])

Quiet == ended' = 0 /\ issues' = <<>> /\ asserted' = NoValue

ElementStarts(tag) ==
  /\ Len(tree) < schema.size
  /\ IF open = <<>> THEN tree = <<>> /\ tag.name = schema.root ELSE TRUE
  /\ LET skip == skipping > 0 \/ (open # <<>> /\ schema.decls[tag.name].how = "skip")
     IN /\ tree' = Append(tree, [name |-> tag.name, parent |-> IF open = <<>> THEN 0 ELSE Last(open),
                                 atts |-> tag.atts, text |-> "", skipped |-> skip])
        /\ open' = Append(open, Len(tree) + 1)
        /\ IF skip THEN skipping' = skipping + 1 /\ UNCHANGED <<stack, key_scopes>>
           ELSE Push(tag, Len(tree) + 1) /\ UNCHANGED skipping
  /\ Quiet /\ UNCHANGED schema

(* One run of text for an element, at any place in it.                      *)
TextComes(v) ==
  /\ open # <<>> /\ tree[Last(open)].text = ""
  /\ tree' = [tree EXCEPT ![Last(open)].text = v]
  /\ stack' = IF skipping > 0 THEN stack ELSE [stack EXCEPT ![Len(stack)].text_buf = v]
  /\ Quiet /\ UNCHANGED <<schema, open, key_scopes, skipping>>

-----------------------------------------------------------------------------
(* At the end tag.                                                          *)
Missing   == <<"Missing">>
Ambiguous == <<"Ambiguous">>
Single(v) == <<"Single", v>>

(* The steps over what was remembered of an element.                        *)
RECURSIVE eval_path_steps(_, _)
eval_path_stepsFirst(steps, snap) ==   \* the first child that fits
  LET some == SelectSeq(snap.children, LAMBDA c : fits(Head(steps)[2], c.name))
  IN CASE steps = <<>> -> Single(snap.text)
       [] steps # <<>> /\ Head(steps)[1] = "attribute" ->
            IF Head(steps)[2] \in DOMAIN snap.atts THEN Single(snap.atts[Head(steps)[2]]) ELSE Missing
       [] steps # <<>> /\ Head(steps)[1] = "child" ->
            IF some = <<>> THEN Missing ELSE eval_path_steps(Tail(steps), some[1])
eval_path_steps(steps, snap) ==
  LET some == SelectSeq(snap.children, LAMBDA c : fits(Head(steps)[2], c.name))
  IN CASE steps = <<>> -> Single(snap.text)
       [] steps # <<>> /\ Head(steps)[1] = "attribute" ->
            IF Head(steps)[2] \in DOMAIN snap.atts THEN Single(snap.atts[Head(steps)[2]]) ELSE Missing
       [] steps # <<>> /\ Head(steps)[1] = "child" ->
            CASE Len(some) = 0 -> Missing
              [] Len(some) = 1 -> eval_path_steps(Tail(steps), some[1])
              [] Len(some) > 1 -> Ambiguous

(* The first branch that selects something.                                 *)
eval_field(field, snap) ==
  LET found == SelectSeq([x \in DOMAIN field |-> eval_path_steps(field[x].steps, snap)],
                         LAMBDA v : v # Missing)
  IN IF found = <<>> THEN Missing ELSE Head(found)

(* Values are compared by value where every path is `.', as texts elsewhere.*)
field_path_is_dot(field) == \A x \in DOMAIN field : field[x].steps = <<>>
AllDot(c) == \A x \in DOMAIN c.fields : field_path_is_dot(c.fields[x])
Peers(c, other) == IF c.kind = "keyref" THEN other.kind # "keyref" /\ other.name = c.refer
                   ELSE other.kind = "keyref" /\ other.refer = c.name
constraint_peers_all_dot(scopes, c) ==
  \A si \in DOMAIN scopes : \A ci \in DOMAIN Identity(scopes[si]) :
    Peers(c, Identity(scopes[si])[ci]) => AllDot(Identity(scopes[si])[ci])
canonical_field_key(text, type) == IF type = "complex" THEN text ELSE <<type, Value(type, text)>>

(* The key an element has for a constraint that selects it.                 *)
KeyTuple(c, snap) ==
  LET by_value == AllDot(c) /\ constraint_peers_all_dot(key_scopes, c)
      value(x) == eval_field(c.fields[x], snap)
  IN [x \in DOMAIN c.fields |->
        IF value(x)[1] # "Single" THEN NoValue
        ELSE IF by_value THEN canonical_field_key(value(x)[2], schema.decls[snap.name].type)
        ELSE value(x)[2]]
IsAmbiguous(c, snap) == \E x \in DOMAIN c.fields : eval_field(c.fields[x], snap) = Ambiguous

Issue(kind, c, tuple) == [kind |-> kind, name |-> c.name, tuple |-> tuple]
Complete(tuple) == \A x \in DOMAIN tuple : tuple[x] # NoValue

(* The table a keyref looks into: its own declaration's, else the nearest   *)
(* open scope's, as far as that has come.                                   *)
Referenced(scope, scopes, c) ==
  LET named(s) == {ci \in DOMAIN Identity(s) : Identity(s)[ci].name = c.refer}
      outer    == {si \in DOMAIN scopes : named(scopes[si]) # {}}
      from     == IF named(scope) # {} THEN scope ELSE scopes[Max(outer)]
  IN IF named(scope) = {} /\ outer = {} THEN NoValue ELSE <<from.collected[Min(named(from))]>>

finalize_key_scope(scope, scopes) ==
  LET key_issues(c, ts) ==
        FlattenSeq([x \in DOMAIN ts |->
          IF ~Complete(ts[x]) THEN IF c.kind = "key" THEN <<Issue("missing", c, NoValue)>> ELSE <<>>
          ELSE IF \E y \in 1..x - 1 : ts[y] = ts[x] THEN <<Issue("duplicate", c, ts[x])>> ELSE <<>>])
      ref_issues(c, ts) ==
        LET target == Referenced(scope, scopes, c)
        IN IF target = NoValue THEN <<Issue("unknown", c, NoValue)>>
           ELSE LET dangling == SelectSeq(ts, LAMBDA t : Complete(t) /\ ~Contains(target[1], t))
                IN [x \in DOMAIN dangling |-> Issue("dangling", c, dangling[x])]
      ids == Identity(scope)
  IN FlattenSeq([ci \in DOMAIN ids |->
       IF ids[ci].kind = "keyref" THEN ref_issues(ids[ci], scope.collected[ci])
       ELSE key_issues(ids[ci], scope.collected[ci])])

(* handle_end.                                                              *)
ElementEnds ==
  /\ open # <<>> /\ open' = Front(open)
  /\ IF skipping > 0
     THEN skipping' = skipping - 1 /\ Quiet /\ UNCHANGED <<stack, key_scopes>>
     ELSE LET ctx == Last(stack)
              snap == [name |-> ctx.name, atts |-> ctx.cached_attrs, text |-> ctx.text_buf,
                       children |-> ctx.child_snapshots]
              of(m) == Identity(key_scopes[m[1]])[m[2]]
              collected == [si \in DOMAIN key_scopes |->
                 [key_scopes[si] EXCEPT !.collected = [ci \in DOMAIN @ |->
                    IF <<si, ci>> \in ctx.matched_constraints
                    THEN Append(@[ci], KeyTuple(of(<<si, ci>>), snap)) ELSE @[ci]]]]
              unclear == SetToSeq({m \in ctx.matched_constraints : IsAmbiguous(of(m), snap)})
              rest == Front(stack)
              \* its children go to the parent, before the assertions are evaluated
              given == rest # <<>> /\ Last(rest).collect_depth > 0
          IN /\ key_scopes' = IF ctx.declared_scope THEN Front(collected) ELSE collected
             /\ issues' = [x \in DOMAIN unclear |-> Issue("ambiguous", of(unclear[x]), NoValue)]
                          \o (IF ctx.declared_scope
                              THEN finalize_key_scope(Last(collected), Front(collected)) ELSE <<>>)
             /\ stack' = IF given THEN [rest EXCEPT ![Len(rest)].child_snapshots = Append(@, snap)]
                         ELSE rest
             /\ asserted' = IF ~schema.decls[ctx.name].asserts THEN NoValue
                            ELSE IF given THEN [snap EXCEPT !.children = <<>>] ELSE snap
             /\ ended' = ctx.node
             /\ UNCHANGED skipping
  /\ UNCHANGED <<schema, tree>>

IdentityInit(s) ==
  /\ schema = s /\ tree = <<>> /\ open = <<>> /\ stack = <<>> /\ key_scopes = <<>>
  /\ skipping = 0 /\ ended = 0 /\ issues = <<>> /\ asserted = NoValue

(* The next document gets a validator of its own.                           *)
NextDocument ==
  /\ open = <<>> /\ tree # <<>>
  /\ tree' = <<>> /\ Quiet /\ UNCHANGED <<schema, open, stack, key_scopes, skipping>>

Validate ==
  \/ NextDocument
  \/ \E tag \in schema.tags : ElementStarts(tag)
  \/ \E v \in schema.texts : TextComes(v)
  \/ ElementEnds

-----------------------------------------------------------------------------
(* What the constraints mean, in the tree.                                  *)
Seen       == {x \in DOMAIN tree : ~tree[x].skipped}
KidsOf(S, nt) == {x \in Seen : tree[x].parent \in S /\ fits(nt, tree[x].name)}
Down(S, steps) == FoldLeft(LAMBDA acc, s : KidsOf(acc, s[2]), S, steps)

RECURSIVE Lineage(_)
Lineage(x) == IF x = 0 THEN {} ELSE {x} \cup Lineage(tree[x].parent)
Within(e)  == {x \in Seen : e \in Lineage(x)}

Selects(c, e) ==
  UNION {Down(IF path.descendant THEN Within(e) ELSE {e}, path.steps) : path \in c.selector}

(* The nodes of a field: elements, or attributes of elements.               *)
NodesAt(x, steps) ==
  IF steps # <<>> /\ Last(steps)[1] = "attribute"
  THEN {<<y, Last(steps)[2]>> : y \in {z \in Down({x}, Front(steps)) : Last(steps)[2] \in DOMAIN tree[z].atts}}
  ELSE {<<y>> : y \in Down({x}, steps)}
FieldNodes(x, field) == UNION {NodesAt(x, field[b].steps) : b \in DOMAIN field}

(* Where the validator means to differ from XPath: a second child on the    *)
(* way that leads nowhere counts, and of a union only the first branch.     *)
Plain(x, field) ==
  /\ Cardinality({b \in DOMAIN field : NodesAt(x, field[b].steps) # {}}) <= 1
  /\ \A b \in DOMAIN field : \A len \in 0..Len(field[b].steps) :
       Cardinality(NodesAt(x, SubSeq(field[b].steps, 1, len))) > 1 =>
         Cardinality(NodesAt(x, field[b].steps)) > 1

Decls(e)     == schema.decls[tree[e].name].identity
ByValue(c, cs) == AllDot(c) /\ \A x \in DOMAIN cs : Peers(c, cs[x]) => AllDot(cs[x])
KeyOf(x, c, cs) ==
  [fd \in DOMAIN c.fields |->
     LET nodes == FieldNodes(x, c.fields[fd])   it == CHOOSE y \in nodes : TRUE
     IN IF Cardinality(nodes) # 1 THEN NoValue
        ELSE IF Len(it) = 2 THEN tree[it[1]].atts[it[2]]
        ELSE IF ByValue(c, cs) THEN canonical_field_key(tree[it[1]].text, schema.decls[tree[it[1]].name].type)
        ELSE tree[it[1]].text]

(* How many issues of a kind an end tag must bring for constraint c of cs,  *)
(* declared at e, with the tuple in question.                               *)
Due(e, cs, c, kind, tuple) ==
  LET selected == Selects(c, e)
      having   == {x \in selected : KeyOf(x, c, cs) = tuple}
      keys     == UNION {{KeyOf(x, cs[k], cs) : x \in Selects(cs[k], e)} : k \in {k \in DOMAIN cs : cs[k].name = c.refer}}
  IN CASE kind = "missing"   -> IF c.kind = "key"
                                THEN Cardinality({x \in selected : ~Complete(KeyOf(x, c, cs))}) ELSE 0
       [] kind = "duplicate" -> IF c.kind = "keyref" \/ having = {} THEN 0 ELSE Cardinality(having) - 1
       [] kind = "dangling"  -> IF c.kind = "keyref" /\ tuple \notin keys THEN Cardinality(having) ELSE 0

Told(c, kind, tuple) ==
  Cardinality({x \in DOMAIN issues : issues[x] = [kind |-> kind, name |-> c.name, tuple |-> tuple]})

IsPlain(e) == \A k \in DOMAIN Decls(e) : \A x \in Selects(Decls(e)[k], e) :
                \A fd \in DOMAIN Decls(e)[k].fields : Plain(x, Decls(e)[k].fields[fd])

(* An element that declares constraints ends with exactly the issues that   *)
(* its subtree calls for: every element a selector reaches is in the table  *)
(* once, with the values its fields select at any depth, and in no other    *)
(* table; values remembered for one constraint serve no other wrongly       *)
(* (check_active_scopes, handle_end, finalize_key_scope).                   *)
KeysDecided ==
  ended # 0 /\ IsPlain(ended) =>
    LET cs == Decls(ended)
    IN \A k \in DOMAIN cs :
         LET c == cs[k]
             tuples == {KeyOf(x, c, cs) : x \in Selects(c, ended)}
         IN /\ Told(c, "missing", NoValue) = Due(ended, cs, c, "missing", NoValue)
            /\ \A t \in tuples : Complete(t) =>
                 /\ Told(c, "duplicate", t) = Due(ended, cs, c, "duplicate", t)
                 /\ (\E o \in DOMAIN cs : cs[o].name = c.refer) =>
                      Told(c, "dangling", t) = Due(ended, cs, c, "dangling", t)
            /\ \A x \in DOMAIN issues :
                 issues[x].name = c.name /\ issues[x].tuple # NoValue => issues[x].tuple \in tuples

(* An element is reported when a field of a constraint selects two nodes of *)
(* it ("a field xpath must select at most one node", validate.rs:1119).     *)
AmbiguityTold ==
  ended # 0 =>
    \A e \in Lineage(ended) : \A k \in DOMAIN Decls(e) :
      LET c == Decls(e)[k]
          two == \E fd \in DOMAIN c.fields : Cardinality(FieldNodes(ended, c.fields[fd])) > 1
      IN (\A fd \in DOMAIN c.fields : Plain(ended, c.fields[fd])) /\ ended \in Selects(c, e) =>
           (two <=> \E x \in DOMAIN issues : issues[x].kind = "ambiguous" /\ issues[x].name = c.name)

(* The assertions of an element that a particle admits, with none around it *)
(* that remembers its content, are given all of it that is validated: every *)
(* element below, with its attributes and texts, in order (CollectDepth,    *)
(* Inherited, handle_end).                                                  *)
RECURSIVE Subtree(_, _)
Subtree(e, S) ==
  LET kids == SetToSortSeq({x \in S : tree[x].parent = e}, <)
  IN [name |-> tree[e].name, atts |-> tree[e].atts, text |-> tree[e].text,
      children |-> [x \in DOMAIN kids |-> Subtree(kids[x], S)]]
AssertsSeeAll ==
  /\ asserted # NoValue
  /\ schema.decls[tree[ended].name].how = "particle" \/ tree[ended].parent = 0
  /\ stack = <<>> \/ Last(stack).collect_depth = 0
  => asserted = Subtree(ended, Seen)

(* Key values, ambiguities and assertions from what was remembered.         *)
IdentityRight == KeysDecided /\ AmbiguityTold /\ AssertsSeeAll

(* The whole of it always: "Each assertion sees the full subtree we          *)
(* snapshotted under `collect_depth`" (validate.rs:1349), "of every element *)
(* whose complex type carries assertions" (validate.rs:945).                *)
AssertsSeeEverything == asserted # NoValue => asserted = Subtree(ended, DOMAIN tree)

(* A keyref finds the key "within the *same* scope or an enclosing one"     *)
(* (identity.rs:30): a key element anywhere in the enclosing scope.         *)
Enclosing(c) == {e \in Range(open) : \E k \in DOMAIN Decls(e) : Decls(e)[k].name = c.refer}
OuterKeysFound ==
  ended # 0 /\ open # <<>> =>
    \A x \in DOMAIN issues : issues[x].kind = "dangling" =>
      LET c == CHOOSE d \in Range(Decls(ended)) : d.name = issues[x].name
      IN (\A o \in DOMAIN Decls(ended) : Decls(ended)[o].name # c.refer) =>
           \A e \in Enclosing(c) : \A k \in DOMAIN Decls(e) : Decls(e)[k].name = c.refer =>
             issues[x].tuple \notin {KeyOf(y, Decls(e)[k], <<>>) : y \in Selects(Decls(e)[k], e)}
=============================================================================
