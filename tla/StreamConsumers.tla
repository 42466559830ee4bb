-------------------------- MODULE StreamConsumers --------------------------
(***************************************************************************)
(* The two pull consumers of one event stream, StreamParser and Iterparse, *)
(* side by side, with the events kept as history: what they return is      *)
(* compared with what the history says the document is.                    *)
(***************************************************************************)
EXTENDS SubtreeStream, Iterparse, Selector

CONSTANTS Tags,           \* start tags the reader may deliver
          Leaves,         \* kinds of the other events
          Modes,          \* emit modes
          Selectors,
          MaxEvents, MaxDepth

ASSUME ConsumersAssumption ==
    /\ Leaves \subseteq {"Text", "CData", "Comment", "Pi", "EntityRef"}
    /\ \A sel \in Selectors : sel \in Seq(Range(sel))
    /\ MaxEvents \in Nat /\ MaxDepth \in Nat

VARIABLE events           \* each [kind, tag, chain], the chain the elements it is
                          \* in or of, from the root, by the places of their starts
vars == <<events, spVars, iterVars>>

Starts == {i \in DOMAIN events : events[i].kind = "Start"}
Open   == IF events = <<>> THEN <<>>
          ELSE LET last == Last(events) IN IF last.kind = "End" THEN Front(last.chain) ELSE last.chain
Happens(kind, tag, chain) == events' = Append(events, [kind |-> kind, tag |-> tag, chain |-> chain])
NoTag == [name |-> <<"", "">>, decls |-> <<>>, atts |-> <<>>]

Init == events = <<>> /\ SPInit(Modes) /\ IterInit

(* One root, nested elements, text only inside it: the reader's promise.    *)
More == Len(events) < MaxEvents

Start(tag) ==
  /\ More /\ Len(Open) < MaxDepth
  /\ Open = <<>> => Starts = {}
  /\ SPStart(tag) /\ IterStart(tag.name)
  /\ Happens("Start", tag, Append(Open, Len(events) + 1))

End ==
  /\ More /\ Open # <<>>
  /\ SPEnd /\ IterEnd
  /\ Happens("End", NoTag, Open)

Leaf(kind) ==
  /\ More /\ (Open = <<>> => kind \in {"Comment", "Pi"})
  /\ SPLeaf(kind) /\ IterLeaf(kind)
  /\ Happens(kind, NoTag, Open)

Eof ==
  /\ Open = <<>> /\ Starts # {}
  /\ IterStop /\ UNCHANGED <<events, spVars>>

(* Not well-formed from here on: both report it; the iterator is over.      *)
Malformed ==
  /\ outcome = "ok" /\ outcome' = "error"
  /\ IterFail
  /\ UNCHANGED <<events, emit, sax_depth, name_stack, ns_bindings, ns_frames, current, emitted>>

Next ==
  \/ \E tag \in Tags : Start(tag)
  \/ End
  \/ \E kind \in Leaves : Leaf(kind)
  \/ Eof
  \/ Malformed

Spec == Init /\ [][Next]_vars

-----------------------------------------------------------------------------
(* The document, read off the history.                                      *)

Tag(i)       == events[i].tag
Ancestors(k) == Range(events[k].chain) \ {k}
Names(k)     == [n \in DOMAIN events[k].chain |-> Tag(events[k].chain[n]).name]
Closes(k, i) == events[k].kind = "End" /\ Last(events[k].chain) = i
Closed       == {i \in Starts : \E k \in DOMAIN events : Closes(k, i)}
Content(i)   == {k \in DOMAIN events : i \in Range(events[k].chain) /\ events[k].kind # "End"}

Selected(i) ==
  CASE emit[1] = "None"  -> FALSE
    [] emit[1] = "Depth" -> Cardinality(Ancestors(i)) = emit[2]
    [] emit[1] = "Path"  -> Names(i) = emit[2]
    [] emit[1] = "When"  -> Names(i) \in emit[2]
Anchors == {i \in Starts : Selected(i) /\ \A a \in Ancestors(i) : ~Selected(a)}

(* The declaration of prefix that is in scope at element k: the innermost   *)
(* element that declares it, "undeclared" if none.                          *)
InScope(prefix, k) ==
  LET declaring == {i \in {k} \cup Ancestors(k) : \E d \in Range(Tag(i).decls) : d[1] = prefix}
  IN CASE prefix = "xml"   -> XML
       [] prefix = "xmlns" -> XMLNS
       [] prefix \notin {"xml", "xmlns"} /\ declaring = {} -> IF prefix = "" THEN "" ELSE "undeclared"
       [] OTHER -> (CHOOSE d \in Range(Tag(Max(declaring)).decls) : d[1] = prefix)[2]

AttUri(q, k) == IF q[1] = "" THEN "" ELSE InScope(q[1], k)

(* The n-th child of an emission, with the names it must resolve to.        *)
Meant(k, anchor) ==
  LET within == {i \in Ancestors(k) : i >= anchor}
      place(i) == Cardinality({j \in Content(anchor) : j <= i})
      start == events[k].kind = "Start"
  IN [kind   |-> IF start THEN "Element" ELSE events[k].kind,
      name   |-> IF start THEN Tag(k).name ELSE <<"", events[k].kind>>,
      uri    |-> IF start THEN InScope(Tag(k).name[1], k) ELSE "",
      atts   |-> IF start THEN [n \in DOMAIN Tag(k).atts |->
                                  <<Tag(k).atts[n], AttUri(Tag(k).atts[n], k)>>] ELSE <<>>,
      parent |-> IF within = {} THEN 0 ELSE place(Max(within))]

Found(doc) ==
  LET uri(ns) == IF ns = 0 THEN "" ELSE doc.namespaces[ns][2]
  IN [n \in DOMAIN doc.nodes |->
        LET node == doc.nodes[n]
        IN [kind |-> node.kind, name |-> node.name, uri |-> uri(node.ns),
            atts |-> [a \in DOMAIN node.atts |-> <<node.atts[a][1], uri(node.atts[a][2])>>],
            parent |-> node.parent]]

(* Every element the mode selects that stands in no other selected one is   *)
(* returned once, in document order: all its content, nothing else, and     *)
(* every prefix with the namespace of the innermost declaration around it,  *)
(* above the emission or within.                                            *)
EmittedIsSubtree ==
  LET over == SetToSortSeq(Anchors \cap Closed, <)
      content(i) == SetToSortSeq(Content(i), <)
  IN /\ Len(emitted) = Len(over)
     /\ \A n \in DOMAIN over :
          Found(emitted[n]) = [c \in DOMAIN content(over[n]) |-> Meant(content(over[n])[c], over[n])]

(* A start tag is refused exactly when a name in it is no QName, it binds a *)
(* reserved name, it uses a prefix nothing around it declares or, in an     *)
(* emission, it has one expanded attribute name twice.  In the iterator     *)
(* nothing is refused.                                                      *)
Refusable(k) ==
  \/ Tag(k).name[1] = ":" \/ \E q \in Range(Tag(k).atts) : q[1] = ":"
  \/ \E d \in Range(Tag(k).decls) : d[1] # "" /\ ~validate_xmlns_decl(d)
  \/ InScope(Tag(k).name[1], k) = "undeclared"
  \/ \E q \in Range(Tag(k).atts) : AttUri(q, k) = "undeclared"
  \/ /\ \E a \in Anchors : a = k \/ a \in Ancestors(k)
     /\ \E i, j \in DOMAIN Tag(k).atts :
          /\ i # j /\ Tag(k).atts[i][2] = Tag(k).atts[j][2]
          /\ AttUri(Tag(k).atts[i], k) = AttUri(Tag(k).atts[j], k)
RefusedIffWrong ==
  ~done => (outcome = "error" <=> Len(events) \in Starts /\ Refusable(Len(events)))

(* What a consumer of StreamParser relies on: no element it asked for is    *)
(* missed, cut, repeated or misnamed, and no document is refused wrongly.   *)
StreamParserExact == EmittedIsSubtree /\ RefusedIffWrong

(* A path names one element: no two start tags have the same, an end tag    *)
(* and a text have that of their element.  The comment on current_path      *)
(* allows a stale index; there is none.                                     *)
PathNamesElement ==
  LET told(k) == Cardinality({j \in 1..k : events[j].kind # "EntityRef"})
      path(k) == items[told(k)].path
      owner(k) == Last(events[k].chain)
      named == {k \in DOMAIN events : events[k].kind \in {"Start", "End", "Text", "CData"}}
  IN /\ \A i, j \in named : path(i) = path(j) <=> owner(i) = owner(j)
     /\ \A k \in named : items[told(k)].depth = Len(path(k))

(* The matcher finds the places of a selector's parts on the ancestors      *)
(* whenever they exist, by backtracking over descendant parts.              *)
Features(i) == {Tag(i).name} \cup {<<"[", q[2]>> : q \in Range(Tag(i).atts)}
SelectorFindsEmbedding ==
  LET k == Len(events)
  IN k \in Starts =>
       LET chain == [n \in DOMAIN events[k].chain |-> Features(events[k].chain[n])]
       IN \A sel \in Selectors : matches(sel, chain) <=> Embeds(sel, chain)

(* What a consumer of iterparse learns of where in the tree it is.          *)
PlacesRight == PathNamesElement /\ SelectorFindsEmbedding

(* What a caller that goes on after an error meets.                         *)
NoPanic == outcome # "panic"
=============================================================================
