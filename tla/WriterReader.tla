---------------------------- MODULE WriterReader ----------------------------
(***************************************************************************)
(* A program writes a document call by call with xmlTextWriter, closes it, *)
(* parses what the destination received and walks it with xmlTextReader.   *)
(* `meant' is the tree the calls describe, kept beside the writer.         *)
(***************************************************************************)
EXTENDS XmlWriter, TextReader

CONSTANTS Names, Atts, Texts, Uris, Sections,
          Dests, Encoders,
          MaxCalls, MaxNodes

VARIABLES writer,
          meant,              \* [nodes, path]: the tree and its open elements
          inside,             \* what the program has begun: "element", "attribute" or a section
          calls, phase        \* "writing", "reading", or "lost"

vars == <<writer, meant, inside, calls, phase, trVars>>

Init ==
  /\ \E d \in Dests, e \in Encoders :
       /\ d = "memory" => e = "UTF-8"
       /\ writer = NewWriter(NewBuffer(d, e))
  /\ meant = [nodes |-> <<>>, path |-> <<>>]
  /\ inside = "element" /\ calls = 0 /\ phase = "writing"
  /\ tree = <<>> /\ TRInit

-----------------------------------------------------------------------------
(* What a call means for the tree.                                          *)

Top(t) == IF t.path = <<>> THEN 0 ELSE Last(t.path)
Add(t, kind, name, atts, value) ==
  [t EXCEPT !.nodes = Append(@, [kind |-> kind, name |-> name, parent |-> Top(t),
                                 atts |-> atts, value |-> value])]
OpenElement(t, n, atts) ==
  [Add(t, "Element", n, atts, <<>>) EXCEPT !.path = Append(@, Len(t.nodes) + 1)]
Say(t, s)       == [t EXCEPT !.nodes[Len(t.nodes)].value = Append(@, s)]
AddText(t, s) ==
  IF t.nodes # <<>> /\ Last(t.nodes).kind = "Text" /\ Last(t.nodes).parent = Top(t) THEN Say(t, s)
  ELSE Add(t, "Text", "", <<>>, <<s>>)
CloseElement(t) == [t EXCEPT !.path = Front(@)]
AddAtt(t, n)    == [t EXCEPT !.nodes[Top(t)].atts = Append(@, <<n, <<>>>>)]
AddToAtt(t, s)  ==
  LET k == Len(t.nodes[Top(t)].atts) IN [t EXCEPT !.nodes[Top(t)].atts[k][2] = Append(@, s)]
Decls(uri)      == IF uri = {} THEN <<>> ELSE <<<<"xmlns", <<CHOOSE u \in uri : TRUE>>>>>>

-----------------------------------------------------------------------------
(* The writing program keeps to the order XML has: attributes in a tag, one *)
(* thing begun at a time, one root, each begun section ended.               *)

Call(w, t, in) ==
  /\ phase = "writing" /\ calls < MaxCalls /\ calls' = calls + 1
  /\ writer' = w /\ meant' = t /\ inside' = in
  /\ UNCHANGED <<phase, trVars>>

Free0      == inside = "element" /\ Len(meant.nodes) < MaxNodes
HasRoot    == \E n \in DOMAIN meant.nodes : meant.nodes[n].kind = "Element"
MayOpen    == Free0 /\ (meant.path = <<>> => ~HasRoot)
MaySay     == Free0 /\ meant.path # <<>>
TagOpen    == writer.pending_close_angle
FreshAtt(n) == \A a \in DOMAIN meant.nodes[Top(meant)].atts : meant.nodes[Top(meant)].atts[a][1] # n

StartElement == MayOpen /\ \E n \in Names, uri \in {{}} \cup {{u} : u \in Uris} :
  Call(xmlTextWriterStartElement(writer, n, uri), OpenElement(meant, n, Decls(uri)), inside)
WriteElement == MayOpen /\ \E n \in Names, s \in {{}} \cup {{t} : t \in Texts} :
  LET element == OpenElement(meant, n, <<>>)
  IN Call(xmlTextWriterWriteElement(writer, n, {}, s),
          CloseElement(FoldSet(LAMBDA t, acc : AddText(acc, t), element, s)), inside)
EndElement == inside = "element" /\ meant.path # <<>> /\
  \/ Call(xmlTextWriterEndElement(writer), CloseElement(meant), inside)
  \/ Call(xmlTextWriterFullEndElement(writer), CloseElement(meant), inside)
StartAttribute == inside = "element" /\ TagOpen /\ \E n \in {a \in Atts : FreshAtt(a)} :
  Call(xmlTextWriterStartAttribute(writer, n), AddAtt(meant, n), "attribute")
EndAttribute == inside = "attribute" /\ Call(xmlTextWriterEndAttribute(writer), meant, "element")
WriteAttribute == inside = "element" /\ TagOpen /\ \E n \in {a \in Atts : FreshAtt(a)}, s \in Texts :
  Call(xmlTextWriterWriteAttribute(writer, n, s), AddToAtt(AddAtt(meant, n), s), inside)
WriteString == \E s \in Texts :
  \/ MaySay /\ Call(xmlTextWriterWriteString(writer, s), AddText(meant, s), inside)
  \/ inside = "attribute" /\ Call(xmlTextWriterWriteString(writer, s), AddToAtt(meant, s), inside)
StartSectionCall == Free0 /\ \E k \in Sections : (meant.path = <<>> => k # "CDATA") /\
  Call(StartSection(writer, k), Add(meant, k, "", <<>>, <<>>), k)
WriteRaw == inside \in Sections /\
  Call(xmlTextWriterWriteRaw(writer, "plain"), Say(meant, "plain"), inside)
EndSectionCall == inside \in Sections /\ Call(EndSection(writer, inside), meant, "element")
WriteSectionCall == Free0 /\ \E k \in Sections : (meant.path = <<>> => k # "CDATA") /\
  Call(WriteSection(writer, k, "plain"), Add(meant, k, "", <<>>, <<"plain">>), inside)
StartDocument == meant.nodes = <<>> /\ writer.out.written = 0 /\
  Call(xmlTextWriterStartDocument(writer), meant, inside)
SetIndent == ~writer.indent /\ Call(xmlTextWriterSetIndent(writer, TRUE), meant, inside)
Flush == \E accepts \in BOOLEAN : Call(xmlTextWriterFlush(writer, accepts), meant, inside)
EndDocument == inside = "element" /\ meant.path # <<>> /\ \E accepts \in BOOLEAN :
  Call(xmlTextWriterEndDocument(writer, accepts), [meant EXCEPT !.path = <<>>], inside)

-----------------------------------------------------------------------------
(* The bytes as XML.  `bad' once they are none; mode is where the parser is.*)
(* Indentation is left out of the trees, also of the one that is walked.     *)

Decode(bytes) ==
  [i \in DOMAIN SelectSeq(bytes, LAMBDA b : b # BOM) |->
     LET b == SelectSeq(bytes, LAMBDA c : c # BOM)[i] IN IF b[1] = "enc" THEN b[2] ELSE b]

Bad(p) == [p EXCEPT !.mode = "bad"]
Character(b) == b[1] \in {"chars", "ref", "quote"}
Text(b)      == IF b[1] = "quote" THEN "quote" ELSE b[2]

InContent(p, b) ==
  CASE b[1] = "<"                    -> [p EXCEPT !.mode = "tag", !.doc = OpenElement(@, b[2], <<>>)]
    [] b[1] = "</"                   -> IF p.doc.path # <<>> /\ p.doc.nodes[Top(p.doc)].name = b[2]
                                        THEN [p EXCEPT !.doc = CloseElement(@)] ELSE Bad(p)
    [] b[1] = "open"                 -> [p EXCEPT !.mode = b[2], !.doc = Add(@, b[2], "", <<>>, <<>>)]
    [] b[1] = "<?xml"                -> IF p.doc.nodes = <<>> THEN p ELSE Bad(p)
    [] b[1] = "nl"                   -> p
    [] Character(b) /\ p.doc.path # <<>> -> [p EXCEPT !.doc = AddText(@, Text(b))]
    [] OTHER                         -> Bad(p)
InTag(p, b) ==
  CASE b[1] = ">"   -> [p EXCEPT !.mode = "content"]
    [] b[1] = "/>"  -> [p EXCEPT !.mode = "content", !.doc = CloseElement(@)]
    [] b[1] = "att" -> [p EXCEPT !.mode = "value", !.doc = AddAtt(@, b[2])]
    [] OTHER        -> Bad(p)
InValue(p, b) ==
  CASE b[1] = "quote"            -> [p EXCEPT !.mode = "tag"]
    [] b[1] \in {"chars", "ref"} -> [p EXCEPT !.doc = AddToAtt(@, b[2])]
    [] OTHER                     -> Bad(p)
InSection(p, b) ==
  CASE b = <<"close", p.mode>> -> [p EXCEPT !.mode = "content"]
    [] b[1] = "chars"          -> [p EXCEPT !.doc = Say(@, b[2])]
    [] OTHER                   -> Bad(p)

Parse(bytes) ==
  FoldLeft(LAMBDA p, b : CASE p.mode = "content" -> InContent(p, b)
                           [] p.mode = "tag"     -> InTag(p, b)
                           [] p.mode = "value"   -> InValue(p, b)
                           [] p.mode = "bad"     -> p
                           [] OTHER              -> InSection(p, b),
           [mode |-> "content", doc |-> [nodes |-> <<>>, path |-> <<>>]], Decode(bytes))

Delivered == writer.out.sink \o (IF writer.out.open THEN Staged(writer.out) ELSE <<>>)

(* The program closes a finished document and reads what it wrote.          *)
Close ==
  /\ phase = "writing" /\ inside = "element" /\ meant.path = <<>> /\ HasRoot
  /\ \E accepts \in BOOLEAN :
       LET closed == xmlFreeTextWriter(writer, accepts)
       IN /\ writer' = closed
          /\ phase' = IF accepts /\ ~writer.out.error THEN "reading" ELSE "lost"
          /\ tree' = IF phase' = "reading" THEN Parse(closed.out.sink).doc.nodes ELSE <<>>
  /\ UNCHANGED <<meant, inside, calls, tcur, topen, string_holders>>

Reading == phase = "reading" /\ UNCHANGED <<writer, meant, inside, calls, phase>>
Read        == Reading /\ xmlTextReaderRead
NextSibling == Reading /\ xmlTextReaderNextSibling
NextNode    == Reading /\ xmlTextReaderNext
Attributes  == Reading /\ (\/ xmlTextReaderMoveToFirstAttribute
                           \/ xmlTextReaderMoveToNextAttribute
                           \/ \E n \in Atts \cup {"xmlns"} : xmlTextReaderMoveToAttribute(n)
                           \/ \E k \in 0..1 : xmlTextReaderMoveToAttributeNo(k)
                           \/ xmlTextReaderMoveToElement)
Accessor    == Reading /\ Const

Next ==
  \/ StartElement \/ WriteElement \/ EndElement
  \/ StartAttribute \/ EndAttribute \/ WriteAttribute
  \/ WriteString \/ WriteRaw
  \/ StartSectionCall \/ EndSectionCall \/ WriteSectionCall
  \/ StartDocument \/ SetIndent \/ Flush \/ EndDocument
  \/ Close
  \/ Read \/ NextSibling \/ NextNode \/ Attributes \/ Accessor

Spec == Init /\ [][Next]_vars

-----------------------------------------------------------------------------
(* Whatever the calls, the flushes between them and the encoder, the bytes  *)
(* delivered and staged are XML up to here, and parse to the tree the calls *)
(* describe, indentation apart: unless a callback refused some, which the   *)
(* flag and the return code of the flush say.  An encoded document begins   *)
(* with its byte order mark, and has one only there, however often it was   *)
(* flushed.                                                                 *)
WritesWhatWasCalled ==
  phase # "lost" /\ ~writer.out.error =>
    /\ LET parsed == Parse(Delivered)
       IN parsed.mode # "bad" /\ parsed.doc = meant
    /\ \A i \in DOMAIN Delivered :
         Delivered[i] = BOM <=> (i = 1 /\ writer.out.encoder = "UTF-16")

(* The places of the visits in document order: starts and leaves at the     *)
(* node, ends, which only elements with content have, behind its subtree.   *)
Within(n)    == {m \in n..Len(tree) : \A j \in (n + 1)..m : tree[j].parent >= n}
LastOf(n)    == Max(Within(n))
WithContent  == {n \in DOMAIN tree : tree[n].kind = "Element" /\ Within(n) # {n}}
Place(c) ==
  CASE c.kind = "Eof"                           -> Len(tree) + Cardinality(WithContent) + 1
    [] c.kind # "Eof" /\ c.node = 0             -> 0
    [] c.kind \in {"Start", "Leaf"} /\ c.node # 0 ->
         c.node + Cardinality({e \in WithContent : LastOf(e) < c.node})
    [] c.kind = "End" ->
         1 + LastOf(c.node) + Cardinality({e \in WithContent :
                LastOf(e) < LastOf(c.node) \/ (LastOf(e) = LastOf(c.node) /\ e > c.node)})
Visits == {Cursor("Start", n) : n \in {m \in DOMAIN tree : tree[m].kind = "Element"}}
          \cup {Cursor("Leaf", n) : n \in {m \in DOMAIN tree : tree[m].kind # "Element"}}

(* A read goes to the very next place of the document, ends included, until *)
(* the end; Next to the first node behind the subtree it was on.            *)
WalksInOrder ==
  [][ /\ Read /\ tcur.kind \notin {"Attr", "Eof"} => Place(tcur') = Place(tcur) + 1
      /\ NextNode => LET behind == {v \in Visits : v.node > LastOf(tcur.node)}
                     IN tcur' \in behind \cup {AtEof}
                        /\ \A v \in behind : Place(tcur') <= Place(v) ]_vars

(* A name handed out is "a pointer that stays valid until the next Read()". *)
StringsLiveToRead == [][ string_holders \subseteq string_holders' \/ Read ]_vars

(* "Advance the reader to the next node in document order": from wherever   *)
(* it stands, an attribute counting as its element.                         *)
ReadAdvances ==
  [][ Read /\ tcur.kind = "Attr" =>
        Place(tcur') = Place(Cursor("Start", tcur.node)) + 1 ]_vars

(* "Nesting depth of the current node.  Root element is depth 0."           *)
Level(n) == Cardinality({e \in DOMAIN tree : e # n /\ n \in Within(e)})
DepthIsNesting ==
  tcur.kind \in {"Start", "Leaf", "End"} /\ tcur.node # 0 => xmlTextReaderDepth = Level(tcur.node)
=============================================================================
