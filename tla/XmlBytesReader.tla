--------------------------- MODULE XmlBytesReader ---------------------------
(***************************************************************************)
(* The pull reader under every parser of the workspace                     *)
(* (crates/core/src/xml_bytes_reader.rs, with the stream stack of          *)
(* scanner.rs): how next() turns the tokens of a document into events,     *)
(* strictly or in recovery mode, and how it reads on inside the            *)
(* replacement text of an entity.                                          *)
(*                                                                         *)
(* A document is a sequence of tokens: a start, empty-element or end tag,  *)
(* character data, white space, a general entity reference, a CDATA        *)
(* section, a comment or processing instruction ("misc"), a `<' that opens *)
(* no tag ("lt"), character data XML forbids ("junk": `]]>' or a bare      *)
(* `&').  Attributes, names and characters are correct; the prolog has     *)
(* been read and the entity table is its result.  Options outside `opts'   *)
(* have their default values, skip_end_tag_check = FALSE among them.       *)
(*                                                                         *)
(* A behaviour is what one caller sees who calls next() until Eof or the   *)
(* first Err, as parser.rs does.  A call is one action, except that each   *)
(* turn of the loop that expands references inside text, each stream       *)
(* popped between events, and each token dropped without an event is an    *)
(* action of its own.                                                      *)
(*                                                                         *)
(* Definitions directly above an operator that carry its name and a suffix *)
(* are its mutated forms.  They occur in no specification.                 *)
(***************************************************************************)
EXTENDS Naturals, Sequences, FiniteSets

CONSTANTS
  Names,      \* element names
  Entities,   \* names of declared general entities
  Undeclared, \* names that occur in references and are declared nowhere
  Inputs,     \* what is read: a document and an entity table, which gives
              \* each declared entity its text and its kind
  Options,    \* the values of `opts'
  MaxDepth,   \* ParseOptions::max_element_depth
  Budget,     \* ParseOptions::max_entity_expansion_bytes, in tokens
  Source,     \* the name of the bottom stream
  Empty,      \* the name (0, 0) of an end tag: no bytes
  Elsewhere,  \* offsets into a replacement text, applied to the source
  NONE

Token ==
  [k : {"start", "empty", "end"}, n : Names]
    \cup [k : {"ref"}, n : Entities \cup Undeclared]
    \cup [k : {"text", "ws", "cdata", "misc", "lt", "junk"}, n : {NONE}]

ASSUME ReaderAssumption ==
  /\ MaxDepth \in Nat /\ Budget \in Nat
  /\ Inputs \subseteq
       [doc : Seq(Token),
        entities : [Entities -> [text : Seq(Token), external : BOOLEAN]]]
  /\ Options \subseteq [recovery : BOOLEAN, resolve : BOOLEAN]
  /\ Entities \cap Undeclared = {}
  /\ Source \notin Entities \cup Undeclared
  /\ {Empty, Elsewhere, NONE} \cap (Names \cup Entities \cup Undeclared) = {}
  /\ Empty # Elsewhere /\ NONE \notin Nat

VARIABLES
  doc, entities, opts,  \* what is read: the source, the table, the options
  streams,   \* Scanner: the source and the replacement texts above it
  deferred,  \* external entities not asked for yet
  failed,    \* external entities the resolver could not load
  used,      \* expansion_bytes
  depth, rootSeen, state,
  stack,     \* element_stack with element_streams, which is parallel to it
  segment,   \* the element depth read_text noted before expanding, or NONE
  logged,    \* whether recovered_errors has an entry of level Error
  outcome,   \* "reading", "eof", "error", "limit"; "panic" for the builder
  event,     \* the last event and, of an end, the element the builder closed
  open,      \* the builder's stack of open elements (parser.rs)
  taken      \* tokens read from replacement texts (auxiliary)

input      == <<doc, entities, opts>>
entityVars == <<deferred, failed, used>>
tagVars    == <<depth, rootSeen, stack>>
caller     == <<event, open>>
vars == <<doc, entities, opts, streams, deferred, failed, used, depth,
          rootSeen, state, stack, segment, logged, outcome, event, open, taken>>

Steady == [at |-> "Steady", name |-> NONE]

Init ==
  /\ \E i \in Inputs : doc = i.doc /\ entities = i.entities
  /\ opts \in Options
  /\ streams = <<[name |-> Source, pos |-> 1, atPush |-> 0]>>
  /\ deferred = {e \in Entities : entities[e].external}
  /\ failed = {} /\ used = 0 /\ depth = 0 /\ rootSeen = FALSE
  /\ state = Steady /\ stack = << >> /\ segment = NONE /\ logged = FALSE
  /\ outcome = "reading" /\ event = [k |-> "none", n |-> NONE, of |-> NONE]
  /\ open = << >> /\ taken = 0
-----------------------------------------------------------------------------
(* The scanner: a stack of streams, a cursor in each.                      *)

Top(s)     == s[Len(s)]
Popped(s)  == SubSeq(s, 1, Len(s) - 1)
OnSource   == Len(streams) = 1
Cursor     == Top(streams)
Bytes      == IF OnSource THEN doc ELSE entities[Cursor.name].text
AtEnd      == Cursor.pos > Len(Bytes)
Looking(K) == ~AtEnd /\ Bytes[Cursor.pos].k \in K
Here       == Bytes[Cursor.pos].n

(* Scanner::cur_set_pos, over the tokens before p.                         *)
MoveTo(p) ==
  /\ streams' = [streams EXCEPT ![Len(streams)].pos = p]
  /\ taken' = IF OnSource THEN taken ELSE taken + (p - Cursor.pos)

Advance == MoveTo(Cursor.pos + 1)
Stay    == UNCHANGED <<streams, taken>>

InExternalAny == ~OnSource

InExternalTop == ~OnSource /\ entities[Cursor.name].external

(* current_base_uri: some active stream was loaded from a URL.             *)
InExternal ==
  {i \in 2..Len(streams) : entities[streams[i].name].external} # {}

Monus(n) == IF n = 0 THEN 0 ELSE n - 1
-----------------------------------------------------------------------------
(* What a call gives back: an event, an error, or nothing yet.             *)

Start(name) ==
  /\ event' = [k |-> "start", n |-> name, of |-> NONE]
  /\ open' = Append(open, name)
  /\ UNCHANGED outcome

(* The builder pops its stack and takes it for granted that it can.        *)
End(name) ==
  IF open = << >>
  THEN outcome' = "panic" /\ UNCHANGED caller
  ELSE /\ event' = [k |-> "end", n |-> name, of |-> Top(open)]
       /\ open' = Popped(open)
       /\ UNCHANGED outcome

Leaf(kind) ==
  /\ event' = [k |-> kind, n |-> NONE, of |-> NONE]
  /\ UNCHANGED <<open, outcome>>

Silent == UNCHANGED <<caller, outcome>>

(* The reader is not used after an error.                                  *)
Fail(why) ==
  /\ outcome' = why
  /\ UNCHANGED <<streams, entityVars, tagVars, state, segment, logged, caller,
                 taken>>

(* maybe_recover.                                                          *)
Fatal       == ~opts.recovery /\ Fail("error")
Recoverable == opts.recovery /\ logged' = TRUE
Clean       == UNCHANGED logged

(* next() from the steady state, between two events.                       *)
Dispatching == outcome = "reading" /\ state = Steady /\ segment = NONE

StayInElement == UNCHANGED <<entityVars, tagVars, state, segment>>
-----------------------------------------------------------------------------
(* Element tags.                                                           *)

Frame(name) == [name |-> name, owned |-> ~OnSource, stream |-> Len(streams)]

(* The name a synthesized close can give: none for an owned entry.         *)
SynthName == IF Top(stack).owned THEN Empty ELSE Top(stack).name

SynthesizeCloseKeeps(from) ==
  /\ UNCHANGED <<stack, rootSeen>>
  /\ depth' = Monus(from)
  /\ End(IF stack = << >> THEN Empty ELSE SynthName)

(* synthesize_close: `from' is the depth it is called at.                  *)
SynthesizeClose(from) ==
  /\ stack' = IF stack = << >> THEN << >> ELSE Popped(stack)
  /\ depth' = Monus(from)
  /\ End(IF stack = << >> THEN Empty ELSE SynthName)
  /\ UNCHANGED rootSeen

(* dispatch_start_element: a second root is logged and then read.          *)
SecondRoot == depth = 0 /\ rootSeen

OpenTag(K, Read(_)) ==
  /\ Dispatching /\ Looking(K)
  /\ \/ SecondRoot /\ Fatal
     \/ /\ ~SecondRoot \/ opts.recovery
        /\ depth + 1 > MaxDepth
        /\ Fail("limit")
     \/ /\ depth + 1 <= MaxDepth
        /\ IF SecondRoot THEN Recoverable ELSE Clean
        /\ rootSeen' = (rootSeen \/ depth = 0)
        /\ Read(Here)
        /\ Start(Here) /\ Advance
        /\ UNCHANGED <<entityVars, segment>>

PushElement(name) ==
  /\ depth' = depth + 1
  /\ stack' = Append(stack, Frame(name))
  /\ UNCHANGED state

QueueCloseDeep(name) ==
  /\ state' = [at |-> "PendingEnd", name |-> IF OnSource THEN name ELSE Elsewhere]
  /\ depth' = depth + 1
  /\ UNCHANGED stack

(* The close is queued with the offsets of the name in the stream it was   *)
(* read from; the next call applies them to the source.                    *)
QueueClose(name) ==
  /\ state' = [at |-> "PendingEnd", name |-> IF OnSource THEN name ELSE Elsewhere]
  /\ UNCHANGED <<depth, stack>>

StartElement == OpenTag({"start"}, PushElement)
EmptyElement == OpenTag({"empty"}, QueueClose)

PendingEnd ==
  /\ outcome = "reading" /\ state.at = "PendingEnd"
  /\ state' = Steady
  /\ End(state.name)
  /\ Stay /\ Clean /\ UNCHANGED <<entityVars, tagVars, segment>>

(* read_end_element, for an end tag at the cursor.                         *)
SeeEnd == Dispatching /\ Looking({"end"})

OtherStreamUnchecked == FALSE

OtherStream == stack # << >> /\ Top(stack).stream # Len(streams)

OnStack(name) == {i \in DOMAIN stack : stack[i].name = name} # {}

EndElsewhere ==
  /\ SeeEnd /\ OtherStream
  /\ Fail("error")

EndMatched ==
  /\ SeeEnd /\ ~OtherStream
  /\ stack # << >> /\ Top(stack).name = Here
  /\ depth' = Monus(depth)
  /\ stack' = Popped(stack)
  /\ End(IF OnSource THEN Here ELSE Empty)
  /\ Advance /\ Clean /\ UNCHANGED <<entityVars, rootSeen, state, segment>>

EndMismatchedRewinds ==
  /\ SeeEnd /\ ~OtherStream
  /\ stack # << >> /\ Top(stack).name # Here
  /\ \/ Fatal
     \/ /\ Recoverable
        /\ IF OnStack(Here)
           THEN Stay /\ Silent /\ UNCHANGED tagVars
           ELSE Advance /\ SynthesizeClose(Monus(depth))
        /\ UNCHANGED <<entityVars, state, segment>>

(* The depth is already one less when synthesize_close lowers it again.    *)
(* If the name is open further out, the tag is read once more afterwards.  *)
EndMismatched ==
  /\ SeeEnd /\ ~OtherStream
  /\ stack # << >> /\ Top(stack).name # Here
  /\ \/ Fatal
     \/ /\ Recoverable
        /\ IF OnStack(Here) THEN Stay ELSE Advance
        /\ SynthesizeClose(Monus(depth))
        /\ UNCHANGED <<entityVars, state, segment>>

EndOrphan ==
  /\ SeeEnd /\ stack = << >>
  /\ \/ Fatal
     \/ /\ Recoverable /\ Advance /\ Silent
        /\ depth' = Monus(depth)
        /\ UNCHANGED <<entityVars, rootSeen, stack, state, segment>>
-----------------------------------------------------------------------------
(* The end of a stream.                                                    *)

(* WFC `Logical Structure': replacement text closes what it opens.         *)
Unbalanced(now) == Cursor.atPush # now

(* The loop of next_in_entity that leaves exhausted replacement texts.     *)
LeaveEntity ==
  /\ Dispatching /\ ~OnSource /\ AtEnd
  /\ \/ Unbalanced(Len(stack)) /\ Fail("error")
     \/ /\ ~Unbalanced(Len(stack))
        /\ streams' = Popped(streams)
        /\ Clean /\ Silent /\ UNCHANGED taken /\ StayInElement

AtDocumentEnd == Dispatching /\ OnSource /\ AtEnd

UnclosedAtEof ==
  /\ AtDocumentEnd /\ depth > 0
  /\ \/ Fatal
     \/ /\ Recoverable /\ Stay
        /\ SynthesizeClose(depth)
        /\ UNCHANGED <<entityVars, state, segment>>

Eof ==
  /\ AtDocumentEnd /\ depth = 0
  /\ \/ ~rootSeen /\ Fatal
     \/ /\ IF rootSeen THEN Clean ELSE Recoverable
        /\ outcome' = "eof"
        /\ Stay /\ UNCHANGED caller /\ StayInElement
-----------------------------------------------------------------------------
(* Between elements: the document level forbids what elements may hold.    *)

AtTop == OnSource /\ depth = 0

(* White space at the document level is no event.                          *)
SkipSpace ==
  /\ Dispatching /\ AtTop /\ Looking({"ws"})
  /\ Advance /\ Clean /\ Silent /\ StayInElement

Cdata ==
  /\ Dispatching /\ Looking({"cdata"})
  /\ \/ AtTop /\ Fail("error")
     \/ ~AtTop /\ Leaf("cdata") /\ Advance /\ Clean /\ StayInElement

Misc ==
  /\ Dispatching /\ Looking({"misc"})
  /\ Leaf("misc") /\ Advance /\ Clean /\ StayInElement

(* Outside the recovery of next(), a `<' is taken for a tag without name.  *)
BareLt ==
  /\ Dispatching /\ Looking({"lt"})
  /\ \/ /\ opts.recovery /\ OnSource /\ depth > 0
        /\ Recoverable /\ Leaf("text") /\ Advance /\ StayInElement
     \/ ~(opts.recovery /\ OnSource /\ depth > 0) /\ Fail("error")
-----------------------------------------------------------------------------
(* Text.                                                                   *)

(* The cursor after the run of plain text that starts at p.                *)
AfterRun(p) ==
  CHOOSE q \in p..Len(Bytes) + 1 :
    /\ \A i \in p..q - 1 : Bytes[i].k \in {"text", "ws"}
    /\ q <= Len(Bytes) => Bytes[q].k \notin {"text", "ws"}

(* Character data at the cursor, as next() dispatches it.                  *)
SeeText ==
  /\ Dispatching
  /\ Looking(IF AtTop THEN {"text", "ref", "junk"} ELSE {"text", "ws", "ref", "junk"})

StopsAt(q) == IF q > Len(Bytes) THEN "end" ELSE Bytes[q].k

(* read_text as far as the first `&' or `]]>'.  A run that ends the        *)
(* replacement text is an event; its stream is left by the next call.      *)
ReadText ==
  /\ SeeText
  /\ LET q == AfterRun(Cursor.pos)
     IN \/ AtTop /\ Fatal
        \/ ~AtTop /\ StopsAt(q) = "junk" /\ Fatal
        \/ /\ ~AtTop \/ opts.recovery
           /\ StopsAt(q) = "junk" => opts.recovery
           /\ IF AtTop THEN Recoverable ELSE Clean
           /\ MoveTo(q)
           /\ UNCHANGED <<entityVars, tagVars, state>>
           /\ IF StopsAt(q) \in {"ref", "junk"}
              THEN segment' = Len(stack) /\ Silent
              ELSE Leaf("text") /\ UNCHANGED segment

Expanding == outcome = "reading" /\ state = Steady /\ segment # NONE

(* The event with what the loop has gathered.                              *)
Flush ==
  /\ Leaf("text")
  /\ segment' = NONE

SegmentText ==
  /\ Expanding /\ Looking({"text", "ws"})
  /\ Advance /\ Clean /\ Silent /\ StayInElement

SegmentJunk ==
  /\ Expanding /\ Looking({"junk"})
  /\ \/ Fatal
     \/ Recoverable /\ Advance /\ Silent /\ StayInElement

SegmentTag ==
  /\ Expanding /\ ~AtEnd /\ ~Looking({"text", "ws", "junk", "ref"})
  /\ Flush /\ Stay /\ Clean /\ UNCHANGED <<entityVars, tagVars, state>>

(* Text goes on behind the reference: the loop leaves the stream itself.   *)
SegmentEnd ==
  /\ Expanding /\ AtEnd
  /\ \/ ~OnSource /\ Unbalanced(segment) /\ Fail("error")
     \/ /\ ~OnSource /\ ~Unbalanced(segment)
        /\ streams' = Popped(streams)
        /\ Clean /\ Silent /\ UNCHANGED taken /\ StayInElement
     \/ /\ OnSource
        /\ Flush /\ Stay /\ Clean /\ UNCHANGED <<entityVars, tagVars, state>>
-----------------------------------------------------------------------------
(* References in text.                                                     *)

SeeRef == Expanding /\ Looking({"ref"})

(* resolve_entities = FALSE: the text so far is this event, the reference  *)
(* the next one.                                                           *)
QueueRef ==
  /\ SeeRef /\ ~opts.resolve /\ OnSource
  /\ state' = [at |-> "PendingRef", name |-> Here]
  /\ Flush /\ Advance /\ Clean /\ UNCHANGED <<entityVars, tagVars>>

PendingRef ==
  /\ outcome = "reading" /\ state.at = "PendingRef"
  /\ state' = Steady
  /\ Leaf("ref")
  /\ Stay /\ Clean /\ UNCHANGED <<entityVars, tagVars, segment>>

ExpandRef == SeeRef /\ (opts.resolve \/ ~OnSource)

(* load_deferred_entity, at the first reference: the record is taken out   *)
(* before the resolver is asked, so it is asked once.                      *)
LoadEntity ==
  /\ ExpandRef /\ Here \in deferred
  /\ deferred' = deferred \ {Here}
  /\ \/ Clean /\ Silent /\ UNCHANGED failed
     \/ Recoverable /\ Silent /\ failed' = failed \cup {Here}
     \/ /\ ~opts.recovery /\ outcome' = "error"
        /\ Clean /\ UNCHANGED caller /\ failed' = failed \cup {Here}
  /\ Stay /\ UNCHANGED <<used, tagVars, state, segment>>

(* No replacement text: nothing inside an external entity, an error        *)
(* elsewhere, of which recovery keeps the reference as text.               *)
UnknownRef ==
  /\ ExpandRef /\ Here \in Undeclared \cup failed
  /\ \/ InExternal /\ Clean /\ Advance /\ Silent /\ StayInElement
     \/ ~InExternal /\ Fatal
     \/ ~InExternal /\ Recoverable /\ Advance /\ Silent /\ StayInElement

Active(x) == {i \in 2..Len(streams) : streams[i].name = x} # {}

CostNone(x) == 0

Cost(x) == Len(entities[x].text)

OverBudget(x) == used + Cost(x) > Budget

NewStream(x) == [name |-> x, pos |-> 1, atPush |-> segment]

(* expand_reference_bytes and push_entity_stream.                          *)
PushEntity ==
  /\ ExpandRef /\ Here \in Entities \ (deferred \cup failed)
  /\ \/ OverBudget(Here) /\ Fail("limit")
     \/ ~OverBudget(Here) /\ Active(Here) /\ Fail("error")
     \/ /\ ~OverBudget(Here) /\ ~Active(Here)
        /\ used' = used + Cost(Here)
        /\ streams' = Append([streams EXCEPT ![Len(streams)].pos = @ + 1],
                             NewStream(Here))
        /\ taken' = IF OnSource THEN taken ELSE taken + 1
        /\ Clean /\ Silent
        /\ UNCHANGED <<deferred, failed, tagVars, state, segment>>
-----------------------------------------------------------------------------
Next ==
  /\ UNCHANGED input
  /\ \/ StartElement \/ EmptyElement \/ PendingEnd
     \/ EndElsewhere \/ EndMatched \/ EndMismatched \/ EndOrphan
     \/ LeaveEntity \/ UnclosedAtEof \/ Eof
     \/ SkipSpace \/ Cdata \/ Misc \/ BareLt
     \/ ReadText \/ SegmentText \/ SegmentJunk \/ SegmentTag \/ SegmentEnd
     \/ QueueRef \/ PendingRef \/ LoadEntity \/ UnknownRef \/ PushEntity

Spec == Init /\ [][Next]_vars

(* The caller goes on calling next().                                      *)
LiveSpec == Spec /\ WF_vars(Next)
-----------------------------------------------------------------------------
(* The variables hold values the program can hold, and the builder never   *)
(* pops an empty stack: the `expect' of parser.rs, "XmlBytesReader         *)
(* invariant".                                                             *)
TypeOK ==
  /\ [doc |-> doc, entities |-> entities] \in Inputs /\ opts \in Options
  /\ streams # << >> /\ streams[1].name = Source
  /\ \A i \in DOMAIN streams :
       streams[i].pos \in Nat \ {0} /\ streams[i].atPush \in Nat
  /\ \A i \in 2..Len(streams) : streams[i].name \in Entities
  /\ deferred \subseteq Entities /\ failed \subseteq Entities
  /\ used \in 0..Budget /\ depth \in 0..MaxDepth /\ rootSeen \in BOOLEAN
  /\ state.at \in {"Steady", "PendingEnd", "PendingRef"}
  /\ stack \in Seq([name : Names, owned : BOOLEAN, stream : Nat \ {0}])
  /\ segment \in Nat \cup {NONE} /\ logged \in BOOLEAN
  /\ outcome \in {"reading", "eof", "error", "limit"}
  /\ open \in Seq(Names) /\ taken \in Nat

(* depth counts the open elements, as the comment at the end-of-document   *)
(* check says ("in lockstep with depth"): exactly in strict mode.  After a *)
(* recovery it may be too small (see CleanCloseOut), but never too large:  *)
(* next() closes at the end of the document no more than is open.          *)
DepthTracksStack ==
  /\ depth <= Len(stack)
  /\ ~opts.recovery => depth = Len(stack)

(* What the caller has been told is open is what the reader holds open,    *)
(* and the queued end of an empty element on top: whatever was repaired,   *)
(* the events nest, and an end that names an element names the innermost.  *)
(* (An empty element of a replacement text is the exception:               *)
(* EndNamesItsElement.)                                                    *)
EventsNest ==
  /\ TypeOK /\ DepthTracksStack
  /\ outcome = "reading" =>
       /\ Len(open) = Len(stack) + (IF state.at = "PendingEnd" THEN 1 ELSE 0)
       /\ \A i \in DOMAIN stack : open[i] = stack[i].name
  /\ event.k = "end" => event.n \in {event.of, Empty, Elsewhere}

(* An open element was started in a stream still being read, no deeper     *)
(* than the elements outside it: no replacement text is left with an       *)
(* element open in it, none closes an element of the text around it.       *)
ElementsStayInTheirText ==
  \A i \in DOMAIN stack :
    /\ stack[i].stream <= Len(streams)
    /\ i > 1 => stack[i - 1].stream <= stack[i].stream

(* However references nest and repeat, no more tokens are read from        *)
(* replacement texts than the budget allows.                               *)
WorkBounded == taken <= Budget

(* The doc of the end event and of PendingEnd: an end carries the name of  *)
(* its element (or no name, if that was read from a replacement text).     *)
EndNamesItsElement == event.k = "end" => event.n \in {event.of, Empty}

(* The comment on closing at the end of the document: in recovery mode the *)
(* caller sees a clean close-out, every element ended before Eof.          *)
CleanCloseOut == outcome = "eof" => open = << >>

(* The comment in read_end_element: an end tag whose name is not on the    *)
(* stack is discarded and reading goes on.                                 *)
SpuriousEndDiscarded ==
  [][SeeEnd /\ ~OnStack(Here) => stack' = stack]_vars

(* Every document is read to its end or to an error: no repair, no         *)
(* rewinding and no reference keeps next() busy for ever.                  *)
ReadsToTheEnd == <>(outcome # "reading")
=============================================================================
