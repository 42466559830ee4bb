----------------------------- MODULE PushParser -----------------------------
(***************************************************************************)
(* The push parser (crates/compat/src/pushparse.rs, pushincr.rs) and the   *)
(* replay of SAX callbacks from the tree it grows (saxreplay.rs).          *)
(*                                                                         *)
(* A consumer feeds a context the document Doc[c] in chunks cut anywhere.  *)
(* Each feed tokenizes the whole buffer again, builds the events past the  *)
(* watermark `events_fired' into one persistent tree, and fires the same   *)
(* events from a walk of that tree.  A callback may call the library:      *)
(* `frames' is the stack of the xmlParseChunk calls in progress.           *)
(*                                                                         *)
(* A document is a sequence of marks: <<"open", n>> is "<n", <<"close",n>> *)
(* is "</n", <<"gt">> is ">", <<"char">> and <<"blank">> are characters,   *)
(* <<"comment">> and <<"uncomment">> delimit a comment.  Names ending in a *)
(* word such as "Stale" or "Eager" are altered forms of the definition     *)
(* that follows them, used to show that the properties can fail.           *)
(***************************************************************************)
EXTENDS Naturals, Sequences, SequencesExt, FiniteSetsExt

CONSTANTS Ctxt,        \* addresses of parser contexts
          NoCtxt,      \* 0, the value of FINALIZING outside every call
          Doc,         \* Doc[c]: the marks the consumer of c feeds it
          Kind,        \* Kind[c]: "event" (handlers installed), "plain", "html"
          Recover,     \* XML_PARSE_RECOVER
          NoBlanks,    \* XML_PARSE_NOBLANKS
          MaxCalls     \* bound: calls a consumer makes (creates, resets, feeds)

ASSUME PushAssumption ==
    /\ NoCtxt \notin Ctxt
    /\ \A c \in Ctxt : Doc[c] \in Seq(Range(Doc[c]))
    /\ Kind \in [Ctxt -> {"event", "plain", "html"}]
    /\ Recover \in BOOLEAN /\ NoBlanks \in BOOLEAN
    /\ MaxCalls \in Nat

VARIABLES live,          \* the contexts created and not freed
          push_states,   \* PUSH_STATES: the states in the thread's map, by context
          finalizing,    \* FINALIZING
          frames,        \* the calls of xmlParseChunk in progress, outermost first
          wellFormed,    \* ctxt->wellFormed
          myDoc,         \* ctxt->myDoc is set
          fired,         \* history: the callbacks each document's consumer got
          fed,           \* history: how many marks of Doc[c] it fed before the close
          calls          \* history: calls made

vars == <<live, push_states, finalizing, frames, wellFormed, myDoc, fired, fed, calls>>

-----------------------------------------------------------------------------
(* The tokenizer, as the push parser sees it (XmlBytesReader::next).        *)

Start(n)  == <<"start", n>>
End(n)    == <<"end", n>>
Text(len) == <<"text", len>>
Comment   == <<"comment">>
StartDocument == <<"startDocument">>
EndDocument   == <<"endDocument">>

Fresh == [evs |-> <<>>, names |-> <<>>, child |-> <<>>, root |-> FALSE,
          pend |-> <<"none">>, run |-> 0, blanks |-> 0, err |-> "none"]

(* The run of characters read so far becomes one event; a blank run before  *)
(* markup is dropped or kept as `drop' says.                                *)
Flush(t, drop) ==
    LET n == IF t.run > 0 \/ ~drop THEN t.run + t.blanks ELSE 0
    IN  [t EXCEPT !.evs = IF n = 0 THEN @ ELSE @ \o <<Text(n)>>, !.run = 0, !.blanks = 0]

Opened(t, n) ==
    IF t.root /\ t.names = <<>> THEN [t EXCEPT !.err = "second root"]
    ELSE [t EXCEPT !.evs = Append(@, Start(n)), !.root = TRUE, !.pend = <<"none">>,
                   !.names = Append(@, n),
                   !.child = Append(IF @ = <<>> THEN @ ELSE Front(@) \o <<TRUE>>, FALSE)]

Closed(t, n) ==
    IF t.names = <<>> THEN [t EXCEPT !.err = "TagNameMismatch"]
    ELSE IF Last(t.names) # n THEN [t EXCEPT !.err = "TagNameMismatch"]
    ELSE [t EXCEPT !.evs = Append(@, End(n)), !.pend = <<"none">>,
                   !.names = Front(@), !.child = Front(@)]

(* Between "<" and ">", or the delimiters of a comment.                     *)
InMarkup(t, s) ==
    CASE t.pend[1] = "open"  -> IF s[1] = "gt" THEN Opened(t, t.pend[2])
                                ELSE [t EXCEPT !.err = "malformed tag"]
      [] t.pend[1] = "close" -> IF s[1] = "gt" THEN Closed(t, t.pend[2])
                                ELSE [t EXCEPT !.err = "malformed tag"]
      [] OTHER               -> IF s[1] # "uncomment" THEN t
                                ELSE [t EXCEPT !.evs = Append(@, Comment), !.pend = <<"none">>]

Characters(t, s) ==
    IF t.names = <<>>
    THEN IF s[1] = "blank" THEN t ELSE [t EXCEPT !.err = "text outside the root"]
    ELSE IF s[1] = "blank" /\ t.run = 0 THEN [t EXCEPT !.blanks = @ + 1]
    ELSE [t EXCEPT !.run = @ + t.blanks + 1, !.blanks = 0]

Read(t, s) ==
    IF t.err # "none" THEN t
    ELSE IF t.pend # <<"none">> THEN InMarkup(t, s)
    ELSE CASE s[1] \in {"open", "comment"} -> [Flush(t, NoBlanks) EXCEPT !.pend = s]
           [] s[1] = "close" ->
                  [Flush(t, NoBlanks /\ t.child # <<>> /\ Last(t.child)) EXCEPT !.pend = s]
           [] OTHER -> Characters(t, s)

AtEnd(t) ==
    LET u == IF t.err = "none" /\ t.pend = <<"none">> THEN Flush(t, FALSE) ELSE t
        complete == u.names = <<>> /\ u.root
    IN  IF u.err # "none" THEN u
        ELSE IF u.pend # <<"none">> \/ ~(Recover \/ complete) THEN [u EXCEPT !.err = "truncated"]
        ELSE [u EXCEPT !.evs = @ \o [i \in 1..Len(u.names) |-> End(Reverse(u.names)[i])]]

(* Tokens[c][n]: the events of the first n marks, and why they end.         *)
Tokens == [c \in Ctxt |-> [n \in 0..Len(Doc[c]) |->
    LET t == AtEnd(FoldLeft(Read, Fresh, SubSeq(Doc[c], 1, n))) IN [evs |-> t.evs, err |-> t.err]]]

cleanEof(c, n) == Tokens[c][n].err = "none"

GenuineEager(err) == err \in {"TagNameMismatch", "truncated"}

is_genuine_error(err) == err = "TagNameMismatch"

-----------------------------------------------------------------------------
(* The persistent tree is the sequence of build steps applied to it: an end *)
(* tag pops whatever element is on top of open_stack.                       *)

NewState(n) == [buf |-> n, finished |-> FALSE, doc |-> FALSE, events_fired |-> 0,
                started_doc |-> FALSE, inc_doc |-> <<>>, open_stack |-> <<>>]

Grow(st, ev) ==
    CASE ev[1] = "start" -> [st EXCEPT !.inc_doc = Append(@, ev), !.open_stack = Append(@, ev[2])]
      [] ev[1] = "end" /\ st.open_stack # <<>> ->
             [st EXCEPT !.inc_doc = Append(@, End(Last(st.open_stack))), !.open_stack = Front(@)]
      [] ev[1] = "end" /\ st.open_stack = <<>> -> st
      [] OTHER -> [st EXCEPT !.inc_doc = Append(@, ev)]

BuildAgain(c, st) == FoldLeft(Grow, st, Tokens[c][st.buf].evs)

build_prefix(c, st) ==
    LET evs == Tokens[c][st.buf].evs
    IN  FoldLeft(Grow, st, SubSeq(evs, st.events_fired + 1, Len(evs)))

(* The walk of the tree fires the ends of the elements still open, too.     *)
Walk(st) == st.inc_doc \o [i \in 1..Len(st.open_stack) |-> End(Reverse(st.open_stack)[i])]

replay_range(st, skip, count) == SubSeq(Walk(st), skip + 1, Min({skip + count, Len(Walk(st))}))

Reached(st, skip, count) == Min({skip + count, Len(Walk(st))})

FeedNoMark(c, st) ==
    LET b == build_prefix(c, st)
        n == Len(Tokens[c][st.buf].evs)
        new == n > st.events_fired
    IN  [state |-> IF new THEN [b EXCEPT !.started_doc = TRUE, !.events_fired = n - 1] ELSE b,
         queue |-> IF ~new THEN <<>>
                   ELSE (IF st.started_doc THEN <<>> ELSE <<StartDocument>>)
                        \o replay_range(b, st.events_fired, n - st.events_fired)]

incremental_feed(c, st) ==
    LET b == build_prefix(c, st)
        n == Len(Tokens[c][st.buf].evs)
        new == n > st.events_fired
        count == n - st.events_fired
    IN  [state |-> IF new
                   THEN [b EXCEPT !.started_doc = TRUE,
                                  !.events_fired = Max({@, Reached(b, st.events_fired, count)})]
                   ELSE b,
         queue |-> IF ~new THEN <<>>
                   ELSE (IF st.started_doc THEN <<>> ELSE <<StartDocument>>)
                        \o replay_range(b, st.events_fired, count)]

(* finalize_push_parse_incremental: the rest of the events, and endDocument *)
(* only when the document reached its end.                                  *)
finalize_incremental(c, st) ==
    LET b == build_prefix(c, st)
        n == Len(Tokens[c][st.buf].evs)
        count == IF n > st.events_fired THEN n - st.events_fired ELSE 0
    IN  IF ~cleanEof(c, st.buf)
        THEN [state |-> [b EXCEPT !.finished = TRUE], queue |-> <<>>]
        ELSE [state |-> [b EXCEPT !.finished = TRUE, !.doc = TRUE, !.started_doc = TRUE,
                                  !.events_fired = Max({@, Reached(b, st.events_fired, count)})],
              queue |-> (IF st.started_doc THEN <<>> ELSE <<StartDocument>>)
                        \o replay_range(b, st.events_fired, count) \o <<EndDocument>>]

(* finalize_push_parse: parse the whole buffer, then replay the whole tree; *)
(* `replay' fires nothing when no element handler is installed.             *)
finalize_push_parse(c, st) ==
    IF ~cleanEof(c, st.buf) THEN [state |-> [st EXCEPT !.finished = TRUE], queue |-> <<>>]
    ELSE [state |-> [st EXCEPT !.finished = TRUE, !.doc = TRUE],
          queue |-> IF Kind[c] = "plain" THEN <<>>
                    ELSE <<StartDocument>> \o Tokens[c][st.buf].evs \o <<EndDocument>>]

-----------------------------------------------------------------------------
InFlight == {frames[i].ctxt : i \in 1..Len(frames)}

(* The consumer calls between two of its own calls, or from a callback of   *)
(* the innermost call.  It does not feed or reset the context whose         *)
(* callback it is in.                                                       *)
MayCall == /\ calls < MaxCalls
           /\ frames # <<>> => Last(frames).began

Put(f, c, v) == [k \in DOMAIN f \cup {c} |-> IF k = c THEN v ELSE f[k]]
Drop(f, c)   == [k \in DOMAIN f \ {c} |-> f[k]]

Init ==
    /\ live = {} /\ frames = <<>> /\ finalizing = NoCtxt /\ calls = 0
    /\ push_states = [c \in {} |-> NewState(0)]
    /\ wellFormed = [c \in Ctxt |-> TRUE] /\ myDoc = [c \in Ctxt |-> FALSE]
    /\ fired = [c \in Ctxt |-> <<>>] /\ fed = [c \in Ctxt |-> 0]

xmlCreatePushParserCtxt(c, n) ==
    /\ MayCall /\ c \notin live /\ c \notin InFlight /\ n <= Len(Doc[c])
    /\ live' = live \cup {c}
    /\ push_states' = Put(push_states, c, NewState(n))
    /\ wellFormed' = [wellFormed EXCEPT ![c] = TRUE]
    /\ myDoc' = [myDoc EXCEPT ![c] = FALSE]
    /\ fired' = [fired EXCEPT ![c] = <<>>] /\ fed' = [fed EXCEPT ![c] = n]
    /\ calls' = calls + 1
    /\ UNCHANGED <<finalizing, frames>>

ResetStale(c, n) ==
    /\ MayCall /\ c \in live \ InFlight /\ n <= Len(Doc[c])
    /\ push_states' = Put(push_states, c,
           [NewState(n) EXCEPT !.events_fired = IF c \in DOMAIN push_states
                                                THEN push_states[c].events_fired ELSE 0])
    /\ wellFormed' = [wellFormed EXCEPT ![c] = TRUE]
    /\ fired' = [fired EXCEPT ![c] = <<>>] /\ fed' = [fed EXCEPT ![c] = n]
    /\ calls' = calls + 1
    /\ UNCHANGED <<live, finalizing, frames, myDoc>>

(* myDoc keeps the document of the parse before.                            *)
xmlCtxtResetPush(c, n) ==
    /\ MayCall /\ c \in live \ InFlight /\ n <= Len(Doc[c])
    /\ push_states' = Put(push_states, c, NewState(n))
    /\ wellFormed' = [wellFormed EXCEPT ![c] = TRUE]
    /\ fired' = [fired EXCEPT ![c] = <<>>] /\ fed' = [fed EXCEPT ![c] = n]
    /\ calls' = calls + 1
    /\ UNCHANGED <<live, finalizing, frames, myDoc>>

(* The state of a context in the middle of a call is not in the map.        *)
ForgetInMap(c) ==
    /\ live' = live \ {c}
    /\ push_states' = Drop(push_states, c)
    /\ UNCHANGED <<finalizing, frames, wellFormed, myDoc, fired, fed, calls>>

forget_push_state(c) ==
    /\ live' = live \ {c}
    /\ IF finalizing = c
       THEN finalizing' = NoCtxt /\ UNCHANGED push_states
       ELSE push_states' = Drop(push_states, c) /\ UNCHANGED finalizing
    /\ UNCHANGED <<frames, wellFormed, myDoc, fired, fed, calls>>

xmlFreeParserCtxt(c) ==
    /\ frames # <<>> => Last(frames).began
    /\ c \in live
    /\ forget_push_state(c)

(* xmlParseChunk up to its first callback: append, decide, check the state  *)
(* out of the map, build.                                                   *)
Work(c, st, terminate) ==
    CASE terminate /\ Kind[c] = "event"  -> finalize_incremental(c, st)
      [] terminate /\ Kind[c] # "event"  -> finalize_push_parse(c, st)
      [] ~terminate /\ Kind[c] = "event" -> incremental_feed(c, st)

xmlParseChunk(c, k, terminate) ==
    /\ MayCall /\ c \in live \ InFlight
    /\ calls' = calls + 1
    /\ UNCHANGED <<live, fired>>
    /\ IF c \notin DOMAIN push_states
       THEN UNCHANGED <<push_states, finalizing, frames, wellFormed, myDoc, fed>>
       ELSE LET st == [push_states[c] EXCEPT !.buf = @ + k]
            IN  /\ st.buf <= Len(Doc[c])
                /\ fed' = IF st.finished THEN fed ELSE [fed EXCEPT ![c] = st.buf]
                /\ IF st.finished \/ (~terminate /\ Kind[c] # "event")
                   THEN /\ push_states' = [push_states EXCEPT ![c] = st]
                        /\ UNCHANGED <<finalizing, frames, wellFormed, myDoc>>
                   ELSE LET w == Work(c, st, terminate)
                        IN  /\ push_states' = Drop(push_states, c)
                            /\ finalizing' = c
                            /\ frames' = Append(frames,
                                   [ctxt |-> c, state |-> w.state, queue |-> w.queue, began |-> FALSE,
                                    spoilt |-> ~terminate /\ is_genuine_error(Tokens[c][st.buf].err)])
                            /\ wellFormed' = IF terminate
                                             THEN [wellFormed EXCEPT ![c] = cleanEof(c, st.buf)]
                                             ELSE wellFormed
                            /\ myDoc' = [myDoc EXCEPT ![c] = @ \/ w.queue # <<>> \/ w.state.doc]

(* The next event reaches the consumer; the callback before it has returned. *)
Fire ==
    LET top == Last(frames) IN
    /\ frames # <<>> /\ top.queue # <<>>
    /\ fired' = [fired EXCEPT ![top.ctxt] = Append(@, Head(top.queue))]
    /\ frames' = [frames EXCEPT ![Len(frames)].queue = Tail(@), ![Len(frames)].began = TRUE]
    /\ UNCHANGED <<live, push_states, finalizing, wellFormed, myDoc, fed, calls>>

(* The last callback has returned: the call puts the state back, if FINALIZING *)
(* still names the context, and returns.                                     *)
ReturnAlways ==
    LET top == Last(frames) IN
    /\ frames # <<>> /\ top.queue = <<>>
    /\ frames' = Front(frames) /\ finalizing' = NoCtxt
    /\ push_states' = Put(push_states, top.ctxt, top.state)
    /\ wellFormed' = [wellFormed EXCEPT ![top.ctxt] = @ /\ ~top.spoilt]
    /\ UNCHANGED <<live, myDoc, fired, fed, calls>>

Return ==
    LET top == Last(frames) IN
    /\ frames # <<>> /\ top.queue = <<>>
    /\ frames' = Front(frames) /\ finalizing' = NoCtxt
    /\ push_states' = IF finalizing = top.ctxt
                      THEN Put(push_states, top.ctxt, top.state) ELSE push_states
    /\ wellFormed' = [wellFormed EXCEPT ![top.ctxt] = @ /\ ~top.spoilt]
    /\ UNCHANGED <<live, myDoc, fired, fed, calls>>

Next ==
    \/ \E c \in Ctxt : \/ \E n \in 0..1 : xmlCreatePushParserCtxt(c, n) \/ xmlCtxtResetPush(c, n)
                       \/ xmlFreeParserCtxt(c)
                       \/ \E k \in 0..Len(Doc[c]), t \in BOOLEAN : xmlParseChunk(c, k, t)
    \/ Fire
    \/ Return

Spec == Init /\ [][Next]_vars

-----------------------------------------------------------------------------
(* An event is that of the whole document at its place, or a text shorter   *)
(* than the run it stands for (build_prefix counts by index, replay_range   *)
(* fires by index).                                                         *)
IsText(ev)      == ev[1] = "text"
Told(ev, whole) == IF IsText(ev) THEN IsText(whole) /\ ev[2] <= whole[2] ELSE ev = whole

Delivers(evs, all) == Len(evs) <= Len(all) /\ \A i \in 1..Len(evs) : Told(evs[i], all[i])

EventsOf(c, n) == <<StartDocument>> \o Tokens[c][n].evs
WithoutEnd(evs) == IF evs # <<>> /\ Last(evs) = EndDocument THEN Front(evs) ELSE evs

(* Position by position the consumer gets the events of the whole document, *)
(* fed at once: none skipped, fired twice or out of order wherever the      *)
(* feeds were cut, and nothing after endDocument.                           *)
DeliveredInOrder ==
    \A c \in Ctxt : Delivers(WithoutEnd(fired[c]), EventsOf(c, Len(Doc[c])))

(* Between calls the events fired are exactly those of the tree's nodes, in  *)
(* the tree's order, and what is built is fired: an event always carries a  *)
(* node of the tree that the parse ends with.                               *)
FiredIsTheTree ==
    \A c \in DOMAIN push_states :
        Kind[c] = "event" =>
            LET st == push_states[c] IN
            st.doc \/ ~st.finished =>
                /\ fired[c] = (IF st.started_doc THEN <<StartDocument>> ELSE <<>>)
                                 \o st.inc_doc \o (IF st.doc THEN <<EndDocument>> ELSE <<>>)
                /\ Len(st.inc_doc) = st.events_fired

(* A context that closed well formed has delivered, between startDocument   *)
(* and endDocument, an event for every one of what it was fed before; one   *)
(* that closed badly never fires endDocument.                               *)
ClosedDelivered ==
    \A c \in DOMAIN push_states : push_states[c].finished =>
        IF wellFormed[c]
        THEN /\ cleanEof(c, fed[c]) /\ myDoc[c]
             /\ Kind[c] # "plain" =>
                  LET all == EventsOf(c, fed[c]) \o <<EndDocument>>
                  IN  Len(fired[c]) = Len(all) /\ Delivers(fired[c], all)
        ELSE EndDocument \notin Range(fired[c])

(* A valid document is not reported malformed before its consumer cuts it   *)
(* off: is_genuine_error takes no truncation at the end of a feed for one.  *)
ValidNeverMistaken ==
    \A c \in live : cleanEof(c, Len(Doc[c])) /\ ~wellFormed[c] =>
        \/ c \in DOMAIN push_states /\ push_states[c].finished
        \/ \E i \in 1..Len(frames) : frames[i].ctxt = c /\ frames[i].state.finished

(* What a consumer of the SAX callbacks relies on: at every moment a prefix *)
(* of the document's events, at the close all of them, and no end to them   *)
(* before that while the document is valid (xmlParseChunk).                 *)
EventsDelivered == DeliveredInOrder /\ ClosedDelivered /\ ValidNeverMistaken

(* A freed context never comes back into the map (its address may be given  *)
(* out again).                                                              *)
FreedStaysGone == DOMAIN push_states \subseteq live

(* The comment at xmlParseChunk's end puts a state back "unless this context *)
(* was freed": a live context outside any call has its state.               *)
LiveKeepsState == live \ InFlight \subseteq DOMAIN push_states

(* All of the text of a well-formed document reaches the consumer.          *)
TextComplete ==
    \A c \in DOMAIN push_states :
        push_states[c].doc /\ Kind[c] = "event" /\ push_states[c].buf = Len(Doc[c])
            => fired[c] = EventsOf(c, Len(Doc[c])) \o <<EndDocument>>
=============================================================================
