----------------------------- MODULE XmlWriter -----------------------------
(***************************************************************************)
(* xmlOutputBuffer (crates/compat/src/outbuf.rs): writes are staged, raw   *)
(* in `buffer' and, where the encoder changes anything, encoded in `conv', *)
(* and reach their destination at a flush or at the close.  Bytes are the  *)
(* caller's tokens; an encoded one is <<"enc", token>>.  A buffer is a     *)
(* record                                                                  *)
(*   dest           "callback", "file" (or descriptor), "memory"           *)
(*   encoder        "UTF-8", "ASCII" or "UTF-16"                           *)
(*   buffer, conv   conv is <<>> until the first encoded write, then <<s>> *)
(*   written, error the count and the flag the C struct shows              *)
(*   sink           what the destination received                          *)
(*   open           not closed yet                                         *)
(*                                                                         *)
(* On one of them works xmlTextWriter (crates/compat/src/xmlwriter.rs).  A *)
(* writer is a record [out, stack, pending_close_angle, in_attribute,      *)
(* indent], every call a function from the writer before to the writer     *)
(* after; a call that returns -1 before it does anything leaves it as it is.*)
(*                                                                         *)
(* The bytes are tokens: <<"<", n>>, <<"</", n>>, <<">">>, <<"/>">>,       *)
(* <<"att", n>> for ` n="`, <<"quote">> for a quotation mark, <<"ref", s>> *)
(* for an escaped character, <<"chars", s>> for others, <<"nl">> for       *)
(* indentation, <<"open", k>> and <<"close", k>> for the delimiters of     *)
(* CDATA, comments and instructions.  StagedRaw and EscapeAsContent are    *)
(* altered forms of what follows each, for a check.                        *)
(***************************************************************************)
EXTENDS Naturals, Sequences, SequencesExt

NewBuffer(dest, encoder) ==
  [dest |-> dest, encoder |-> encoder, buffer |-> <<>>, conv |-> <<>>,
   written |-> 0, error |-> FALSE, sink |-> <<>>, open |-> TRUE]

BOM == <<"BOM">>
transcode_for_encoder(data) == [i \in DOMAIN data |-> <<"enc", data[i]>>]

(* Nothing is checked: a buffer whose flush failed goes on taking writes.   *)
(* UTF-16 starts with a byte order mark, all of `written' counted.          *)
xmlOutputBufferWrite(out, data) ==
  LET bom     == IF out.written = 0 /\ out.encoder = "UTF-16" THEN <<BOM>> ELSE <<>>
      so_far  == IF out.conv = <<>> THEN <<>> ELSE out.conv[1]
      encoded == <<so_far \o bom \o transcode_for_encoder(data)>>
  IN IF data = <<>> THEN out
     ELSE [out EXCEPT !.conv = IF out.encoder = "UTF-8" THEN @ ELSE encoded,
                      !.buffer = @ \o data, !.written = @ + Len(data)]

StagedRaw(out) == out.buffer
Staged(out) == IF out.conv # <<>> THEN out.conv[1] ELSE out.buffer

(* The callback takes all of it or fails; either way the stage is emptied.  *)
flush_user_callback(out, accepts) ==
  IF Staged(out) = <<>> THEN out
  ELSE [out EXCEPT !.sink = IF accepts THEN @ \o Staged(out) ELSE @,
                   !.buffer = <<>>, !.conv = IF @ = <<>> THEN @ ELSE <<<<>>>>,
                   !.error = @ \/ ~accepts]

xmlOutputBufferFlush(out, accepts) ==
  IF out.dest = "callback" THEN flush_user_callback(out, accepts) ELSE out

(* A destination that fails now leaves no trace in what the close returns.  *)
(* The caller's own buffer of a "memory" one holds the raw bytes.           *)
xmlOutputBufferClose(out, accepts) ==
  [out EXCEPT !.open = FALSE,
              !.sink = CASE out.dest = "memory" -> out.buffer
                         [] out.dest # "memory" /\ accepts -> @ \o Staged(out)
                         [] out.dest # "memory" /\ ~accepts -> @]

-----------------------------------------------------------------------------
NewWriter(out) ==
  [out |-> out, stack |-> <<>>, pending_close_angle |-> FALSE,
   in_attribute |-> FALSE, indent |-> FALSE]

write_raw_bytes(w, tokens) == [w EXCEPT !.out = xmlOutputBufferWrite(@, tokens)]

flush_pending_close_angle(w) ==
  IF w.pending_close_angle
  THEN [write_raw_bytes(w, <<<<">">>>>) EXCEPT !.pending_close_angle = FALSE] ELSE w

write_indent(w) == IF w.indent THEN write_raw_bytes(w, <<<<"nl">>>>) ELSE w

(* A text is "plain", "quote" for a quotation mark or "lt" for markup.      *)
EscapeAsContent(s, in_attr) ==
  IF s = "lt" THEN <<<<"ref", s>>>> ELSE IF s = "quote" THEN <<<<"quote">>>> ELSE <<<<"chars", s>>>>
push_escaped(s, in_attr) ==
  CASE s = "lt" \/ (s = "quote" /\ in_attr) -> <<<<"ref", s>>>>
    [] s = "quote" /\ ~in_attr              -> <<<<"quote">>>>
    [] s \notin {"lt", "quote"}             -> <<<<"chars", s>>>>

-----------------------------------------------------------------------------
xmlTextWriterStartDocument(w) == write_raw_bytes(w, <<<<"<?xml">>>>)

(* uri is {} for xmlTextWriterStartElement, {u} for ...StartElementNS.      *)
xmlTextWriterStartElement(w, n, uri) ==
  LET before == write_indent(flush_pending_close_angle(w))
      decl(u) == <<<<"att", "xmlns">>>> \o push_escaped(u, TRUE) \o <<<<"quote">>>>
      tag == <<<<"<", n>>>> \o FoldSet(LAMBDA u, acc : decl(u) \o acc, <<>>, uri)
  IN [write_raw_bytes(before, tag) EXCEPT !.stack = Append(@, n), !.pending_close_angle = TRUE]

EndTag(w) ==
  LET popped == [w EXCEPT !.stack = Front(@), !.pending_close_angle = FALSE]
  IN write_raw_bytes(write_indent(popped), <<<<"</", Last(w.stack)>>>>)

(* The short form if the tag is still open, the indented long one if not.   *)
xmlTextWriterEndElement(w) ==
  CASE w.stack = <<>> -> w
    [] w.stack # <<>> /\ w.pending_close_angle ->
         write_raw_bytes([w EXCEPT !.stack = Front(@), !.pending_close_angle = FALSE], <<<<"/>">>>>)
    [] w.stack # <<>> /\ ~w.pending_close_angle -> EndTag(w)

xmlTextWriterFullEndElement(w) ==
  LET closed == flush_pending_close_angle(w)
  IN IF w.stack = <<>> THEN closed ELSE EndTag(closed)

xmlTextWriterStartAttribute(w, n) ==
  IF ~w.pending_close_angle THEN w
  ELSE [write_raw_bytes(w, <<<<"att", n>>>>) EXCEPT !.in_attribute = TRUE]

xmlTextWriterEndAttribute(w) ==
  IF ~w.in_attribute THEN w
  ELSE write_raw_bytes([w EXCEPT !.in_attribute = FALSE], <<<<"quote">>>>)

(* Content closes an open tag, unless it is the value of an attribute.      *)
ForContent(w) == IF w.in_attribute THEN w ELSE flush_pending_close_angle(w)
xmlTextWriterWriteString(w, s) == write_raw_bytes(ForContent(w), push_escaped(s, w.in_attribute))
xmlTextWriterWriteRaw(w, s)    == write_raw_bytes(ForContent(w), <<<<"chars", s>>>>)

xmlTextWriterWriteAttribute(w, n, s) ==
  IF ~w.pending_close_angle THEN w
  ELSE xmlTextWriterEndAttribute(xmlTextWriterWriteString(xmlTextWriterStartAttribute(w, n), s))

(* s is {} for no content, {t} for the text t.                              *)
xmlTextWriterWriteElement(w, n, uri, s) ==
  LET started == xmlTextWriterStartElement(w, n, uri)
  IN xmlTextWriterEndElement(FoldSet(LAMBDA t, acc : xmlTextWriterWriteString(acc, t), started, s))

(* CDATA, comments, instructions and document types: opened, filled raw and *)
(* closed by calls of their own, or by one.                                 *)
StartSection(w, kind) ==
  LET closed == flush_pending_close_angle(w)
  IN write_raw_bytes(IF kind \in {"Comment", "PI"} THEN write_indent(closed) ELSE closed,
                     <<<<"open", kind>>>>)
EndSection(w, kind) == write_raw_bytes(w, <<<<"close", kind>>>>)
WriteSection(w, kind, s) == EndSection(xmlTextWriterWriteRaw(StartSection(w, kind), s), kind)

xmlTextWriterSetIndent(w, on) == [w EXCEPT !.indent = on]

xmlTextWriterFlush(w, accepts) == [w EXCEPT !.out = xmlOutputBufferFlush(@, accepts)]

(* Every open element, innermost first, then the flush.                     *)
xmlTextWriterEndDocument(w, accepts) ==
  xmlTextWriterFlush(FoldLeft(LAMBDA acc, n : xmlTextWriterEndElement(acc), w, w.stack), accepts)

xmlFreeTextWriter(w, accepts) == [w EXCEPT !.out = xmlOutputBufferClose(@, accepts)]
=============================================================================
