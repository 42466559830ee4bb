------------------------ MODULE XmlByteStreamReader ------------------------
(***************************************************************************)
(* The streaming reader (crates/core/src/streaming_reader.rs): the byte    *)
(* reader over a rolling buffer that is refilled between events from an    *)
(* io::Read.                                                               *)
(*                                                                         *)
(* The input is a well-formed UTF-8 document, a sequence of bytes.  Of a   *)
(* byte the model knows the token it belongs to: the number t of the       *)
(* token, its kind k, its size, and the place i of the byte in it; of a    *)
(* general entity reference also the replacement text, a sequence of       *)
(* kinds.  Character data and white space between top-level constructs are *)
(* tokens of one byte.  Every other token must lie in the buffer when      *)
(* next() comes to it: its end found missing is an error.                  *)
(*                                                                         *)
(* The XML declaration and the DOCTYPE, read in one piece by the first     *)
(* next(), and its check of the characters are left out.                   *)
(*                                                                         *)
(* What next() does with correct tokens, recovery and nested references is *)
(* the subject of XmlBytesReader; here next() is reduced to how it uses    *)
(* the cursor and the buffer.  The buffer is the part of the input between *)
(* `base' (drained before it) and `fetched' (read so far); positions in it *)
(* count from 0.                                                           *)
(*                                                                         *)
(* Definitions directly above an operator that carry its name and a suffix *)
(* are its mutated forms.  They occur in no specification.                 *)
(***************************************************************************)
EXTENDS Naturals, FiniteSets, SequencesExt

CONSTANTS
  Inputs,      \* the documents, as bytes
  Hints,       \* the size hints, or NONE for none
  BufferSize,  \* buffer_size: the largest token the caller will accept
  NONE

(* BUF_CAPACITY_MULTIPLE * buffer_size.                                    *)
InternalCap == 2 * BufferSize

Byte ==
  [t : Nat, k : {"start", "end", "empty", "misc", "char", "ref", "ws"},
   size : Nat \ {0}, i : Nat \ {0}, text : Seq({"start", "end", "char"})]

(* Tokens one behind the other, each in one piece.                         *)
InTokens(doc) ==
  /\ doc # << >> /\ doc[1].i = 1
  /\ \A m \in DOMAIN doc :
       /\ doc[m].i <= doc[m].size
       /\ doc[m].k \in {"char", "ws"} => doc[m].size = 1
       /\ IF doc[m].i < doc[m].size
          THEN m < Len(doc) /\ doc[m + 1] = [doc[m] EXCEPT !.i = @ + 1]
          ELSE m < Len(doc) => doc[m + 1].i = 1

(* How many elements were opened, and closed, in the first m bytes.        *)
Opened(doc, m) == Cardinality({l \in 1..m : doc[l].k = "start" /\ doc[l].i = 1})
Closed(doc, m) == Cardinality({l \in 1..m : doc[l].k = "end" /\ doc[l].i = 1})

(* There is a root and what is opened is closed; text is inside of         *)
(* elements, what is called white space outside.                           *)
Nested(doc) ==
  /\ \E m \in DOMAIN doc : doc[m].k \in {"start", "empty"}
  /\ Opened(doc, Len(doc)) = Closed(doc, Len(doc))
  /\ \A m \in DOMAIN doc :
       /\ Closed(doc, m) <= Opened(doc, m)
       /\ doc[m].k = "ws" => Closed(doc, m) = Opened(doc, m)
       /\ doc[m].k \in {"char", "ref"} => Closed(doc, m) < Opened(doc, m)

Entity == [text : Seq({"start", "end", "char"}), at : Nat, t : Nat]

ASSUME StreamAssumption ==
  /\ BufferSize \in Nat \ {0}
  /\ Inputs \subseteq Seq(Byte)
  /\ \A doc \in Inputs : InTokens(doc) /\ Nested(doc)
  /\ Hints \subseteq Nat \cup {NONE}
  /\ NONE \notin Nat \cup Entity

VARIABLES
  src,      \* the bytes the io::Read delivers
  fetched,  \* how many of them it has delivered
  base,     \* how many of those have been drained from the buffer
  eof,      \* a read has returned 0
  pos,      \* the cursor in the buffer (of the source, under an entity)
  entity,   \* the replacement text being read and the place in it, or NONE
  segment,  \* read_text is expanding references
  pending,  \* the offset of an empty element whose end is queued, or NONE
  depth, rootSeen,
  pc,       \* "runway", "fill", "next": in next_event; "done"
  outcome,  \* "reading", "eof", "error", "io", "clobbered"
  log       \* what the events said so far (auxiliary)

buffer == <<fetched, base, eof>>
parse  == <<entity, segment, pending, depth, rootSeen, log>>
vars   == <<src, fetched, base, eof, pos, entity, segment, pending, depth,
            rootSeen, pc, outcome, log>>

Least(m, n) == IF m <= n THEN m ELSE n
Monus(n)    == IF n = 0 THEN 0 ELSE n - 1

(* with_size_hint: reads are repeated until `initial' bytes or the end.    *)
Initial(hint) == IF hint = NONE THEN InternalCap ELSE Least(hint, InternalCap)

PrimedDryEarly(hint) == Initial(hint) < InternalCap

PrimedDry(hint) == Len(src) < Initial(hint)

Init ==
  /\ src \in Inputs
  /\ \E hint \in Hints :
       /\ fetched = Least(Initial(hint), Len(src))
       /\ eof = PrimedDry(hint)
  /\ base = 0 /\ pos = 0 /\ entity = NONE /\ segment = FALSE
  /\ pending = NONE /\ depth = 0 /\ rootSeen = FALSE
  /\ pc = "runway" /\ outcome = "reading" /\ log = << >>

BufLen == fetched - base
Runway == BufLen - pos

Stop(why) == pc' = "done" /\ outcome' = why
-----------------------------------------------------------------------------
(* ensure_runway.                                                          *)

EnoughLate == Runway > 0 \/ eof

Enough == Runway >= BufferSize \/ eof

KeepBuffer ==
  /\ pc = "runway" /\ Enough
  /\ pc' = "next"
  /\ UNCHANGED <<src, buffer, pos, parse, outcome>>

CompactKeepsCursor ==
  /\ pc = "runway" /\ ~Enough
  /\ base' = base + pos
  /\ pc' = "fill"
  /\ UNCHANGED <<src, fetched, eof, pos, parse, outcome>>

Compact ==
  /\ pc = "runway" /\ ~Enough
  /\ base' = base + pos /\ pos' = 0
  /\ pc' = "fill"
  /\ UNCHANGED <<src, fetched, eof, parse, outcome>>

Filled == BufLen = InternalCap \/ eof

(* One read: any part of what is left and fits, or nothing at the end.     *)
DryUnseen == FALSE

Dry == fetched = Len(src)

SpaceWhole == InternalCap

Space == InternalCap - BufLen

ReadChunk ==
  /\ pc = "fill" /\ ~Filled
  /\ \/ Dry /\ eof' = TRUE /\ UNCHANGED fetched
     \/ /\ \E n \in 1..Least(Space, Len(src) - fetched) : fetched' = fetched + n
        /\ UNCHANGED eof
  /\ UNCHANGED <<src, base, pos, parse, pc, outcome>>

ReadFails ==
  /\ pc = "fill" /\ ~Filled
  /\ Stop("io")
  /\ UNCHANGED <<src, buffer, pos, parse>>

(* rebind_scanner: under an entity it overwrites the cursor of the         *)
(* replacement text (a debug build asserts that there is none).            *)
Rebind ==
  /\ pc = "fill" /\ Filled
  /\ IF entity = NONE THEN pc' = "next" /\ UNCHANGED outcome
     ELSE Stop("clobbered")
  /\ UNCHANGED <<src, buffer, pos, parse>>
-----------------------------------------------------------------------------
(* next(), on the source.                                                  *)

Calling    == pc = "next" /\ pending = NONE /\ ~segment
OnSource   == Calling /\ entity = NONE
AtEnd      == pos = BufLen
Here       == src[base + pos + 1]
Looking(K) == ~AtEnd /\ Here.k \in K
Whole      == pos + Here.size <= BufLen

Give(items) == log' = log \o items
Item(kind)  == [k |-> kind, t |-> Here.t]

(* The event is handed out: the next call starts with ensure_runway.       *)
Return == pc' = "runway" /\ UNCHANGED outcome

Refuse ==
  /\ Stop("error")
  /\ UNCHANGED <<src, buffer, pos, parse>>

(* Between top-level constructs white space is passed over without event.  *)
SkipSpace ==
  /\ OnSource /\ depth = 0 /\ Looking({"ws"})
  /\ pos' = pos + 1
  /\ UNCHANGED <<src, buffer, parse, pc, outcome>>

(* next() takes the end of the buffer for the end of the document.         *)
EndOfBuffer ==
  /\ OnSource /\ AtEnd
  /\ IF depth > 0 \/ ~rootSeen THEN Refuse
     ELSE Stop("eof") /\ UNCHANGED <<src, buffer, pos, parse>>

CutToken ==
  /\ OnSource /\ Looking({"start", "end", "empty", "misc"}) /\ ~Whole
  /\ Refuse

TakeToken(kind) ==
  /\ OnSource /\ Looking({kind}) /\ Whole
  /\ pos' = pos + Here.size
  /\ Return
  /\ UNCHANGED <<src, buffer, entity, segment>>

StartElement ==
  /\ TakeToken("start")
  /\ depth' = depth + 1 /\ rootSeen' = TRUE
  /\ Give(<<Item("start")>>) /\ UNCHANGED pending

EndElement ==
  /\ TakeToken("end")
  /\ depth' = Monus(depth)
  /\ Give(<<Item("end")>>) /\ UNCHANGED <<rootSeen, pending>>

EmptyElement ==
  /\ TakeToken("empty")
  /\ rootSeen' = TRUE /\ pending' = pos
  /\ Give(<<Item("start")>>) /\ UNCHANGED depth

Misc ==
  /\ TakeToken("misc")
  /\ Give(<<Item("misc")>>) /\ UNCHANGED <<depth, rootSeen, pending>>

(* The queued end: its name is what the buffer now has at the offsets.     *)
NameAt(offset) == IF offset < BufLen THEN src[base + offset + 1].t ELSE NONE

PendingEnd ==
  /\ pc = "next" /\ pending # NONE
  /\ Give(<<[k |-> "end", t |-> NameAt(pending)]>>)
  /\ pending' = NONE
  /\ Return
  /\ UNCHANGED <<src, buffer, pos, entity, segment, depth, rootSeen>>
-----------------------------------------------------------------------------
(* read_text on the source.                                                *)

(* The cursor behind the character data at it.                             *)
AfterRun ==
  CHOOSE q \in pos..BufLen :
    /\ \A m \in pos + 1..q : src[base + m].k = "char"
    /\ q < BufLen => src[base + q + 1].k # "char"

Chars(q) == [m \in 1..q - pos |-> [k |-> "char", t |-> src[base + pos + m].t]]

(* The run up to `<' or the end of the buffer is an event; at `&' the loop *)
(* that expands references takes over.                                     *)
ReadText ==
  /\ OnSource /\ depth > 0 /\ Looking({"char", "ref"})
  /\ pos' = AfterRun /\ Give(Chars(AfterRun))
  /\ IF AfterRun < BufLen /\ src[base + AfterRun + 1].k = "ref"
     THEN segment' = TRUE /\ UNCHANGED <<pc, outcome>>
     ELSE Return /\ UNCHANGED segment
  /\ UNCHANGED <<src, buffer, entity, pending, depth, rootSeen>>

Expanding == pc = "next" /\ segment /\ entity = NONE

SegmentText ==
  /\ Expanding /\ Looking({"char"})
  /\ pos' = AfterRun /\ Give(Chars(AfterRun))
  /\ UNCHANGED <<src, buffer, entity, segment, pending, depth, rootSeen, pc, outcome>>

SegmentEnd ==
  /\ Expanding /\ ~Looking({"char", "ref"})
  /\ segment' = FALSE
  /\ Return
  /\ UNCHANGED <<src, buffer, pos, entity, pending, depth, rootSeen, log>>

CutReferenceSkips ==
  /\ Expanding /\ Looking({"ref"}) /\ ~Whole
  /\ pos' = BufLen /\ segment' = FALSE
  /\ Return
  /\ UNCHANGED <<src, buffer, entity, pending, depth, rootSeen, log>>

CutReference ==
  /\ Expanding /\ Looking({"ref"}) /\ ~Whole
  /\ Refuse

PushEntity ==
  /\ Expanding /\ Looking({"ref"}) /\ Whole
  /\ entity' = [text |-> Here.text, at |-> 1, t |-> Here.t]
  /\ pos' = pos + Here.size
  /\ UNCHANGED <<src, buffer, segment, pending, depth, rootSeen, pc, outcome, log>>
-----------------------------------------------------------------------------
(* Inside a replacement text: next_in_entity and read_text.                *)

InEntity   == pc = "next" /\ pending = NONE /\ entity # NONE
Exhausted  == entity.at > Len(entity.text)
Reading(k) == ~Exhausted /\ entity.text[entity.at] = k
Step       == entity' = [entity EXCEPT !.at = @ + 1]
Found(k)   == Give(<<[k |-> k, t |-> entity.t]>>)

EntityText ==
  /\ InEntity /\ Reading("char")
  /\ Step /\ Found("char")
  /\ IF segment THEN UNCHANGED <<pc, outcome>> ELSE Return
  /\ UNCHANGED <<src, buffer, pos, segment, pending, depth, rootSeen>>

EntityFlush ==
  /\ InEntity /\ segment /\ ~Exhausted /\ ~Reading("char")
  /\ segment' = FALSE
  /\ Return
  /\ UNCHANGED <<src, buffer, pos, entity, pending, depth, rootSeen, log>>

EntityTag ==
  /\ InEntity /\ ~segment
  /\ \/ Reading("start") /\ Found("start") /\ depth' = depth + 1
     \/ Reading("end") /\ Found("end") /\ depth' = Monus(depth)
  /\ Step /\ Return
  /\ UNCHANGED <<src, buffer, pos, segment, pending, rootSeen>>

PopEntity ==
  /\ InEntity /\ Exhausted
  /\ entity' = NONE
  /\ UNCHANGED <<src, buffer, pos, segment, pending, depth, rootSeen, pc, outcome, log>>
-----------------------------------------------------------------------------
Advance ==
  \/ KeepBuffer \/ Compact \/ ReadChunk \/ Rebind
  \/ SkipSpace \/ EndOfBuffer \/ CutToken
  \/ StartElement \/ EndElement \/ EmptyElement \/ Misc \/ PendingEnd
  \/ ReadText \/ SegmentText \/ SegmentEnd \/ CutReference \/ PushEntity
  \/ EntityText \/ EntityFlush \/ EntityTag \/ PopEntity

NextEvent == Advance \/ ReadFails

Spec == Init /\ [][NextEvent]_vars

(* Reads return, and the caller goes on until Eof or an error.  Nothing    *)
(* makes a read fail.                                                      *)
LiveSpec == Spec /\ WF_vars(Advance)
-----------------------------------------------------------------------------
(* What a reader that has the whole document would say.                    *)

Piece(b) ==
  IF b.i > 1 \/ b.k = "ws" THEN << >>
  ELSE CASE b.k = "empty" -> <<[k |-> "start", t |-> b.t], [k |-> "end", t |-> b.t]>>
         [] b.k = "ref" -> [m \in DOMAIN b.text |-> [k |-> b.text[m], t |-> b.t]]
         [] OTHER -> <<[k |-> b.k, t |-> b.t]>>

Expected(doc) == FlattenSeq([m \in DOMAIN doc |-> Piece(doc[m])])

(* The stretches of the document that one call of next() must see whole:   *)
(* a token; white space and the token behind it; text with a reference.    *)
Joined(a, b) ==
  \/ a.t = b.t
  \/ a.k = "ws"
  \/ a.k \in {"char", "ref"} /\ b.k \in {"char", "ref"}

Stretches(doc) ==
  {r \in (DOMAIN doc) \X (DOMAIN doc) :
     /\ r[1] <= r[2]
     /\ \A m \in r[1]..r[2] - 1 : Joined(doc[m], doc[m + 1])}

NeedsWhole(doc, r) ==
  \/ \E m \in r[1]..r[2] : doc[m].k = "ref"
  \/ \A m \in r[1]..r[2] : doc[m].k # "char"

(* No event refers back to the buffer after its call, and no replacement   *)
(* text outlives one.                                                      *)
StaysPut(doc) ==
  \A b \in Range(doc) : b.k # "empty" /\ Range(b.text) \subseteq {"char"}

Fits(doc) ==
  /\ StaysPut(doc)
  /\ \A r \in Stretches(doc) : NeedsWhole(doc, r) => r[2] - r[1] < BufferSize
-----------------------------------------------------------------------------
(* The cursor stays in the buffer and the buffer in the input.             *)
TypeOK ==
  /\ src \in Inputs
  /\ fetched \in 0..Len(src) /\ base \in 0..fetched
  /\ pos \in 0..BufLen
  /\ eof \in BOOLEAN /\ segment \in BOOLEAN /\ rootSeen \in BOOLEAN
  /\ \/ entity = NONE
     \/ entity.at \in 1..Len(entity.text) + 1 /\ entity.t \in Nat
  /\ pending \in Nat \cup {NONE}
  /\ depth \in Nat
  /\ pc \in {"runway", "fill", "next", "done"}
  /\ outcome \in {"reading", "eof", "error", "io", "clobbered"}

(* The buffer never outgrows its capacity, it is called drained to the end *)
(* only when it is, and the cursor never leaves it, however the buffer is  *)
(* compacted and refilled (ensure_runway; next_event_keeps_memory_bounded).*)
MemoryBounded ==
  TypeOK /\ BufLen <= InternalCap /\ (eof => fetched = Len(src))

(* Where no stretch exceeds buffer_size, chunk sizes, refills and hints    *)
(* are invisible: the events are those of the whole document, all of them  *)
(* before Eof, and only the io::Read can fail ("the inner reader never     *)
(* sees a transient ran-off-the-end condition"). With tokens of any size   *)
(* what is handed out is a beginning of the document: an oversized one     *)
(* "errors out", it is never dropped.                                      *)
SameAsWhole ==
  /\ StaysPut(src) => IsPrefix(log, Expected(src))
  /\ Fits(src) =>
       /\ outcome \in {"reading", "eof", "io"}
       /\ outcome = "eof" => log = Expected(src)

(* The end event of an empty element has the name of its start event,      *)
(* however the buffer moved in between: "any byte ranges captured at       *)
(* start-tag time would become stale" (with_size_hint), so names are owned.*)
NamesSurviveCompaction ==
  [][PendingEnd => NameAt(pending) = Last(log).t]_vars

(* Every document is read to Eof or to an error, whatever the io::Read     *)
(* delivers at a time.                                                     *)
ReadsAll == <>(pc = "done")
=============================================================================
