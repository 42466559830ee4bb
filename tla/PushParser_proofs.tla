------------------------- MODULE PushParser_proofs -------------------------
(***************************************************************************)
(* What the push parser's contexts keep and what their consumers are told, *)
(* proved for any contexts, documents and number of calls.                 *)
(*                                                                         *)
(* The first part is about where the states of the contexts are: a call of *)
(* xmlParseChunk takes a state from the map, is a frame while its          *)
(* callbacks run, and puts it back or not.  What it parses and fires is of *)
(* no account for that.                                                    *)
(*                                                                         *)
(* The second is about the callbacks, for a parser that neither recovers   *)
(* nor drops blanks.  Reading is a fold, so that what the tokenizer says   *)
(* of more marks follows by induction (LeastFalse): it says again what it  *)
(* said of the marks before, where only a text that ended with the marks   *)
(* may have grown.  Hence the tree, built by index from one feed after     *)
(* another, is always a tree of the events so far (Grown), and the queue   *)
(* of a call is what was built and not fired (StateOK).  DInv says so of   *)
(* every state, wherever it is.                                            *)
(***************************************************************************)
EXTENDS PushParser, SequenceTheorems, WellFoundedInduction, TLAPS

(* The state of a context is in one place: in the map, or with the one call *)
(* of xmlParseChunk that took it out.  FINALIZING names, if any context, a  *)
(* live one, that of the innermost call.                                    *)
FramesOK ==
    /\ frames \in Seq(Range(frames))
    /\ \A i \in 1..Len(frames) : "ctxt" \in DOMAIN frames[i] /\ frames[i].ctxt \in Ctxt

HeldOnce ==
    /\ DOMAIN push_states \cap InFlight = {}
    /\ \A i, j \in 1..Len(frames) : frames[i].ctxt = frames[j].ctxt => i = j

FinalizingOK ==
    finalizing # NoCtxt => /\ frames # <<>> /\ finalizing = Last(frames).ctxt
                           /\ finalizing \in live

IInv == FramesOK /\ HeldOnce /\ FinalizingOK /\ FreedStaysGone /\ live \subseteq Ctxt

LEMMA InitHolds == Init => IInv
BY DEF Init, IInv, FramesOK, HeldOnce, FinalizingOK, FreedStaysGone, InFlight, Range

(* What a call does to the frames, as far as the contexts in them go.       *)
LEMMA PushFrame ==
  ASSUME IInv, NEW c \in Ctxt \ InFlight, NEW e, "ctxt" \in DOMAIN e, e.ctxt = c,
         frames' = Append(frames, e), live' = live, c \in live,
         DOMAIN push_states' = DOMAIN push_states \ {c}, finalizing' = c
  PROVE  IInv'
<1> PICK fs : fs = frames'  OBVIOUS
<1>1. fs = Append(frames, e)  OBVIOUS
<1>2. /\ Len(fs) = Len(frames) + 1 /\ DOMAIN fs = 1..Len(frames) + 1
      /\ \A i \in 1..Len(frames) : fs[i] = frames[i]
      /\ fs[Len(frames) + 1] = e /\ Len(frames) \in Nat
  BY <1>1 DEF IInv, FramesOK
<1>3. fs \in Seq(Range(fs)) /\ fs # <<>>
  <2> DEFINE S == Range(frames) \cup {e}
  <2>1. frames \in Seq(S) /\ e \in S  BY DEF IInv, FramesOK
  <2> HIDE DEF S
  <2>2. fs \in Seq(S)  BY <1>1, <2>1
  <2>3. \A i \in 1..Len(fs) : fs[i] \in Range(fs)  BY <1>2 DEF Range
  <2>4. QED  BY <1>2, <2>2, <2>3
<1>4. Last(fs) = e
  BY <1>2, <1>3 DEF Last
<1>5. \A i \in 1..Len(fs) : "ctxt" \in DOMAIN fs[i] /\ fs[i].ctxt \in Ctxt
  BY <1>2 DEF IInv, FramesOK
<1>6. \A i \in 1..Len(frames) : frames[i].ctxt # c
  BY DEF InFlight
<1>7. \A i, j \in 1..Len(fs) : fs[i].ctxt = fs[j].ctxt => i = j
  BY <1>2, <1>6 DEF IInv, HeldOnce
<1>8. {fs[i].ctxt : i \in 1..Len(fs)} = InFlight \cup {c}
  BY <1>2 DEF InFlight
<1>9. QED
  BY <1>3, <1>4, <1>5, <1>7, <1>8
  DEF IInv, FramesOK, HeldOnce, FinalizingOK, FreedStaysGone, InFlight

LEMMA FrontOfSeq ==
  ASSUME NEW S, NEW s \in Seq(S), s # <<>>
  PROVE  /\ Front(s) \in Seq(S) /\ Len(Front(s)) = Len(s) - 1
         /\ \A i \in 1..Len(s) - 1 : Front(s)[i] = s[i]
<1>1. Len(s) \in Nat /\ Len(s) > 0 /\ \A i \in 1..Len(s) - 1 : s[i] \in S  OBVIOUS
<1> PICK m : m = Len(s) - 1  OBVIOUS
<1>2. m \in Nat /\ m \in Int /\ 1 \in Int  BY <1>1
<1>3. /\ SubSeq(s, 1, m) \in Seq(S) /\ Len(SubSeq(s, 1, m)) = IF 1 <= m THEN m - 1 + 1 ELSE 0
      /\ \A i \in 1..m - 1 + 1 : SubSeq(s, 1, m)[i] = s[1 + i - 1]
  BY <1>1, <1>2, SubSeqProperties
<1>4. QED  BY <1>1, <1>2, <1>3 DEF Front

LEMMA PopFrame ==
  ASSUME IInv, frames # <<>>, frames' = Front(frames), live' = live, finalizing' = NoCtxt,
         \/ DOMAIN push_states' = DOMAIN push_states
         \/ /\ finalizing = Last(frames).ctxt
            /\ DOMAIN push_states' = DOMAIN push_states \cup {Last(frames).ctxt}
  PROVE  IInv'
<1> DEFINE n == Len(frames)
<1> PICK fs : fs = frames'  OBVIOUS
<1>1. n \in Nat /\ n > 0 /\ frames \in Seq(Range(frames))  BY DEF IInv, FramesOK
<1>2. /\ fs \in Seq(Range(frames)) /\ Len(fs) = n - 1
      /\ \A i \in 1..n - 1 : fs[i] = frames[i]
  BY <1>1, FrontOfSeq
<1>3. fs \in Seq(Range(fs))
  <2>1. \A i \in 1..Len(fs) : fs[i] \in Range(fs)  BY <1>2 DEF Range
  <2>2. QED  BY <1>2, <2>1
<1>4. \A i \in 1..Len(fs) : "ctxt" \in DOMAIN fs[i] /\ fs[i].ctxt \in Ctxt
  BY <1>1, <1>2 DEF IInv, FramesOK
<1>5. \A i, j \in 1..Len(fs) : fs[i].ctxt = fs[j].ctxt => i = j
  BY <1>1, <1>2 DEF IInv, HeldOnce
<1>6. Last(frames) = frames[n]  BY DEF Last
<1>7. {fs[i].ctxt : i \in 1..Len(fs)} \subseteq InFlight \ {frames[n].ctxt}
  <2>1. \A i \in 1..Len(fs) : fs[i].ctxt \in InFlight /\ fs[i].ctxt # frames[n].ctxt
    BY <1>1, <1>2 DEF IInv, HeldOnce, InFlight
  <2>2. QED  BY <2>1
<1>8. DOMAIN push_states' \subseteq live
  <2>1. Last(frames).ctxt # NoCtxt  BY <1>1, <1>6, PushAssumption DEF IInv, FramesOK
  <2>2. QED  BY <2>1 DEF IInv, FinalizingOK, FreedStaysGone
<1>9. DOMAIN push_states' \cap {fs[i].ctxt : i \in 1..Len(fs)} = {}
  BY <1>6, <1>7 DEF IInv, HeldOnce
<1>10. (DOMAIN push_states \cap InFlight)' = {}
  BY <1>9 DEF InFlight
<1>11. FramesOK' /\ HeldOnce' /\ FinalizingOK'
  BY <1>3, <1>4, <1>5, <1>10 DEF FramesOK, HeldOnce, FinalizingOK
<1>12. QED
  BY <1>8, <1>11 DEF IInv, FreedStaysGone

(* The frames as they are, or with another queue in the last one.           *)
LEMMA SameContexts ==
  ASSUME IInv, frames' \in Seq(Range(frames')), Len(frames') = Len(frames),
         \A i \in 1..Len(frames) : "ctxt" \in DOMAIN frames'[i] /\ frames'[i].ctxt = frames[i].ctxt,
         live' \subseteq Ctxt, DOMAIN push_states' \subseteq live',
         DOMAIN push_states' \cap InFlight = {},
         \/ finalizing' = NoCtxt
         \/ finalizing' = finalizing /\ finalizing \in live'
  PROVE  IInv'
<1> PICK fs : fs = frames'  OBVIOUS
<1>1. Len(frames) \in Nat /\ (frames # <<>> <=> fs # <<>>)
  BY DEF IInv, FramesOK
<1>2. {fs[i].ctxt : i \in 1..Len(fs)} = InFlight
  BY DEF InFlight
<1>3. \A i \in 1..Len(fs) : "ctxt" \in DOMAIN fs[i] /\ fs[i].ctxt \in Ctxt
  BY DEF IInv, FramesOK
<1>4. \A i, j \in 1..Len(fs) : fs[i].ctxt = fs[j].ctxt => i = j
  BY DEF IInv, HeldOnce
<1>5. frames # <<>> => Last(fs).ctxt = Last(frames).ctxt
  BY <1>1 DEF Last, IInv, FramesOK
<1>6. QED
  BY <1>1, <1>2, <1>3, <1>4, <1>5
  DEF IInv, FramesOK, HeldOnce, FinalizingOK, FreedStaysGone, InFlight

LEMMA FramesUnchanged ==
  ASSUME IInv, UNCHANGED frames, live' \subseteq Ctxt, DOMAIN push_states' \subseteq live',
         DOMAIN push_states' \cap InFlight = {},
         \/ finalizing' = NoCtxt
         \/ finalizing' = finalizing /\ (finalizing # NoCtxt => finalizing \in live')
  PROVE  IInv'
<1>1. finalizing' = NoCtxt \/ (finalizing' = finalizing /\ finalizing \in live')
  OBVIOUS
<1>2. \A i \in 1..Len(frames) : "ctxt" \in DOMAIN frames'[i] /\ frames'[i].ctxt = frames[i].ctxt
  BY DEF IInv, FramesOK
<1>3. frames' \in Seq(Range(frames')) /\ Len(frames') = Len(frames)
  BY DEF IInv, FramesOK
<1>4. QED  BY <1>1, <1>2, <1>3, SameContexts

LEMMA NextKeeps == IInv /\ [Next]_vars => IInv'
<1> SUFFICES ASSUME IInv, [Next]_vars PROVE IInv'  OBVIOUS
<1> USE PushAssumption
<1>0. /\ live \subseteq Ctxt /\ DOMAIN push_states \subseteq live
      /\ DOMAIN push_states \cap InFlight = {}
      /\ finalizing # NoCtxt => finalizing \in live
  BY DEF IInv, FreedStaysGone, HeldOnce, FinalizingOK
<1>1. ASSUME NEW c \in Ctxt, NEW n, xmlCreatePushParserCtxt(c, n)  PROVE IInv'
  <2>1. /\ live' = live \cup {c} /\ c \notin InFlight
        /\ UNCHANGED <<finalizing, frames>>
        /\ DOMAIN push_states' = DOMAIN push_states \cup {c}
    BY <1>1 DEF xmlCreatePushParserCtxt, Put
  <2>2. QED  BY <1>0, <2>1, FramesUnchanged
<1>2. ASSUME NEW c \in Ctxt, NEW n, xmlCtxtResetPush(c, n)  PROVE IInv'
  <2>1. /\ live' = live /\ c \in live \ InFlight
        /\ UNCHANGED <<finalizing, frames>>
        /\ DOMAIN push_states' = DOMAIN push_states \cup {c}
    BY <1>2 DEF xmlCtxtResetPush, Put
  <2>2. QED  BY <1>0, <2>1, FramesUnchanged
<1>3. ASSUME NEW c \in Ctxt, xmlFreeParserCtxt(c)  PROVE IInv'
  <2>1. live' = live \ {c} /\ UNCHANGED frames
    BY <1>3 DEF xmlFreeParserCtxt, forget_push_state
  <2>2. CASE finalizing = c
    <3>1. finalizing' = NoCtxt /\ push_states' = push_states
      BY <1>3, <2>2 DEF xmlFreeParserCtxt, forget_push_state
    <3>2. c \notin DOMAIN push_states
      BY <1>3, <2>2 DEF IInv, FinalizingOK, HeldOnce, InFlight, Last, FramesOK, xmlFreeParserCtxt
    <3>3. QED  BY <1>0, <2>1, <3>1, <3>2, FramesUnchanged
  <2>3. CASE finalizing # c
    <3>1. finalizing' = finalizing /\ DOMAIN push_states' = DOMAIN push_states \ {c}
      BY <1>3, <2>3 DEF xmlFreeParserCtxt, forget_push_state, Drop
    <3>2. QED  BY <1>0, <2>1, <2>3, <3>1, FramesUnchanged
  <2>4. QED  BY <2>2, <2>3
<1>4. ASSUME NEW c \in Ctxt, NEW k, NEW t \in BOOLEAN, xmlParseChunk(c, k, t)  PROVE IInv'
  <2>1. live' = live /\ c \in live \ InFlight
    BY <1>4 DEF xmlParseChunk
  <2> DEFINE st == [push_states[c] EXCEPT !.buf = @ + k]
             w  == Work(c, st, t)
  <2>2. CASE UNCHANGED <<finalizing, frames>> /\ DOMAIN push_states' = DOMAIN push_states
    BY <1>0, <2>1, <2>2, FramesUnchanged
  <2>3. CASE /\ push_states' = Drop(push_states, c) /\ finalizing' = c
             /\ frames' = Append(frames,
                   [ctxt |-> c, state |-> w.state, queue |-> w.queue, began |-> FALSE,
                    spoilt |-> ~t /\ is_genuine_error(Tokens[c][st.buf].err)])
    <3> DEFINE e == [ctxt |-> c, state |-> w.state, queue |-> w.queue, began |-> FALSE,
                     spoilt |-> ~t /\ is_genuine_error(Tokens[c][st.buf].err)]
    <3>1. "ctxt" \in DOMAIN e /\ e.ctxt = c  OBVIOUS
    <3>2. DOMAIN push_states' = DOMAIN push_states \ {c}  BY <2>3 DEF Drop
    <3>3. frames' = Append(frames, e)  BY <2>3
    <3> HIDE DEF e, w, st
    <3>4. QED  BY <2>1, <2>3, <3>1, <3>2, <3>3, PushFrame
  <2>4. QED
    <3>1. \/ UNCHANGED <<finalizing, frames>> /\ push_states' = push_states
          \/ UNCHANGED <<finalizing, frames>> /\ push_states' = [push_states EXCEPT ![c] = st]
          \/ /\ push_states' = Drop(push_states, c) /\ finalizing' = c
             /\ frames' = Append(frames,
                   [ctxt |-> c, state |-> w.state, queue |-> w.queue, began |-> FALSE,
                    spoilt |-> ~t /\ is_genuine_error(Tokens[c][st.buf].err)])
      BY <1>4, Zenon DEF xmlParseChunk
    <3>2. QED  BY <2>2, <2>3, <3>1
<1>5. CASE Fire
  <2> DEFINE n == Len(frames)
  <2>1. /\ frames # <<>> /\ n \in Nat /\ n > 0 /\ frames \in Seq(Range(frames))
        /\ DOMAIN frames = 1..n
    BY <1>5 DEF Fire, IInv, FramesOK
  <2>2. /\ UNCHANGED <<live, push_states, finalizing>>
        /\ frames' = [frames EXCEPT ![n].queue = Tail(@), ![n].began = TRUE]
    BY <1>5 DEF Fire
  <2> PICK g : g = [frames EXCEPT ![n].queue = Tail(frames[n].queue)]  OBVIOUS
  <2>a. DOMAIN g = 1..n /\ "ctxt" \in DOMAIN g[n] /\ g[n].ctxt = frames[n].ctxt
    BY <2>1 DEF IInv, FramesOK
  <2>b. frames' = [g EXCEPT ![n].began = TRUE]
    BY <2>2
  <2>3. "ctxt" \in DOMAIN frames'[n] /\ frames'[n].ctxt = g[n].ctxt
    BY <2>1, <2>a, <2>b
  <2>4. DOMAIN frames' = 1..n /\ \A i \in 1..n - 1 : frames'[i] = frames[i]
    BY <2>1, <2>2
  <2>5. Len(frames') = n
    BY <2>1, <2>2
  <2>6. \A i \in 1..n : "ctxt" \in DOMAIN frames'[i] /\ frames'[i].ctxt = frames[i].ctxt
    BY <2>1, <2>3, <2>4, <2>a DEF IInv, FramesOK
  <2>7. frames' \in Seq(Range(frames'))
    <3> PICK fs : fs = frames'  OBVIOUS
    <3>1. fs \in [1..n -> Range(fs)]  BY <2>2, <2>4, <2>5 DEF Range
    <3>2. QED  BY <2>1, <2>5, <3>1
  <2>8. QED
    BY <1>0, <2>2, <2>5, <2>6, <2>7, SameContexts
<1>6. CASE Return
  <2>1. /\ frames # <<>> /\ frames' = Front(frames) /\ finalizing' = NoCtxt /\ live' = live
        /\ \/ push_states' = push_states
           \/ /\ finalizing = Last(frames).ctxt
              /\ push_states' = Put(push_states, Last(frames).ctxt, Last(frames).state)
    BY <1>6 DEF Return
  <2>2. \/ DOMAIN push_states' = DOMAIN push_states
        \/ /\ finalizing = Last(frames).ctxt
           /\ DOMAIN push_states' = DOMAIN push_states \cup {Last(frames).ctxt}
    BY <2>1 DEF Put
  <2>3. QED  BY <2>1, <2>2, PopFrame
<1>7. CASE UNCHANGED vars
  <2>1. UNCHANGED <<live, push_states, finalizing, frames>>  BY <1>7 DEF vars
  <2>2. QED  BY <1>0, <2>1, FramesUnchanged
<1>8. QED
  BY <1>1, <1>2, <1>3, <1>4, <1>5, <1>6, <1>7, Zenon DEF Next

(* No order of calls, those from callbacks included, has the state of a     *)
(* freed context put back where one that is given its address would find it *)
(* (xmlParseChunk, forget_push_state): for any number of contexts and of    *)
(* calls, and any depth of calls within callbacks.                          *)
THEOREM FreedNeverReturns == Spec => []FreedStaysGone
<1>1. IInv => FreedStaysGone  BY DEF IInv
<1>2. QED  BY InitHolds, NextKeeps, <1>1, PTL DEF Spec

(* No call finds, or leaves, a second state of a context whose state        *)
(* another call under way has taken out of the map.                         *)
THEOREM StatesAreHeldOnce == Spec => []HeldOnce
<1>1. IInv => HeldOnce  BY DEF IInv
<1>2. QED  BY InitHolds, NextKeeps, <1>1, PTL DEF Spec

-----------------------------------------------------------------------------
(* Induction over a set of numbers, by the least that fails: the provers    *)
(* cannot instantiate an induction theorem with an operator.                *)
LEMMA LeastFalse ==
  ASSUME NEW n \in Nat, NEW S \in SUBSET (0..n), 0 \in S,
         \A m \in 1..n : m - 1 \in S => m \in S
  PROVE  S = 0..n
<1> SUFFICES ASSUME (0..n) \ S # {} PROVE FALSE
  OBVIOUS
<1> DEFINE Z == (0..n) \ S  R == OpToRel(<, Nat)
<1>1. Z \subseteq Nat /\ Z # {}
  OBVIOUS
<1>2. PICK q \in Z : \A m \in Z : ~(<<m, q>> \in R)
  BY <1>1, NatLessThanWellFounded, WFMin, IsWellFoundedOnSubset
<1>3. q \in 1..n
  OBVIOUS
<1>4. q - 1 \in Nat /\ q - 1 < q /\ q \in Nat
  BY <1>3
<1>5. q - 1 \in Z
  BY <1>3, <1>4
<1>6. <<q - 1, q>> \in R
  BY <1>4 DEF OpToRel
<1> QED BY <1>2, <1>5, <1>6

LEMMA MaxIs ==
  ASSUME NEW k \in Nat, NEW s \in SUBSET (1..k + 1), k + 1 \in s
  PROVE  Max(s) = k + 1
<1>1. \A y \in s : y <= k + 1 /\ y \in Nat OBVIOUS
<1>2. \A x \in s : (\A y \in s : x >= y) => x = k + 1  BY <1>1
<1>3. \A y \in s : k + 1 >= y  BY <1>1
<1>4. QED  BY <1>2, <1>3 DEF Max

(* A fold of Read is what reading mark by mark gives. *)
LEMMA ReadFolds ==
  ASSUME NEW D, NEW N \in Nat, DOMAIN D = 1..N
  PROVE  \E r : /\ r[0] = Fresh /\ \A k \in 0..N - 1 : r[k + 1] = Read(r[k], D[k + 1])
                /\ FoldLeft(Read, Fresh, D) = r[N]
<1> DEFINE Solves(g, k) ==
      g = [s \in SUBSET (1..k) |-> IF s = {} THEN Fresh ELSE Read(g[s \ {Max(s)}], D[Max(s)])]
           S == {k \in 0..N : \E g : Solves(g, k)}
<1>1. 0 \in S
  <2> DEFINE g == [s \in SUBSET (1..0) |-> Fresh]
  <2>1. \A s \in SUBSET (1..0) : s = {}  OBVIOUS
  <2>2. Solves(g, 0)  BY <2>1
  <2>3. QED  BY <2>2
<1>2. ASSUME NEW m \in 1..N, m - 1 \in S  PROVE m \in S
  <2> PICK k \in 0..N - 1 : k = m - 1  OBVIOUS
  <2>0. m = k + 1 /\ k \in Nat OBVIOUS
  <2>1. PICK g : Solves(g, k)  BY <1>2
  <2> DEFINE h == [s \in SUBSET (1..k + 1) |-> IF k + 1 \in s THEN Read(g[s \ {k + 1}], D[k + 1]) ELSE g[s]]
  <2>2. ASSUME NEW s \in SUBSET (1..k + 1), k + 1 \in s
        PROVE  h[s] = Read(h[s \ {Max(s)}], D[Max(s)]) /\ s # {}
    <3>1. Max(s) = k + 1  BY <2>0, <2>2, MaxIs
    <3>2. s \ {k + 1} \in SUBSET (1..k)  BY <2>0
    <3>3. h[s \ {k + 1}] = g[s \ {k + 1}]  BY <3>2, <2>0
    <3>4. QED  BY <2>2, <3>1, <3>3
  <2>3. ASSUME NEW s \in SUBSET (1..k + 1), k + 1 \notin s, s # {}
        PROVE  h[s] = Read(h[s \ {Max(s)}], D[Max(s)])
    <3>0. s \in SUBSET (1..k)
      <4>1. \A x \in s : x \in 1..k + 1 /\ x # k + 1  BY <2>3
      <4>2. \A x \in s : x \in 1..k  BY <4>1
      <4>3. QED  BY <4>2
    <3>1. s \in SUBSET (1..k) /\ s \ {Max(s)} \in SUBSET (1..k)  BY <3>0
    <3>2. g[s] = Read(g[s \ {Max(s)}], D[Max(s)])  BY <2>1, <2>3, <3>1
    <3>3. h[s] = g[s] /\ h[s \ {Max(s)}] = g[s \ {Max(s)}]
      <4>1. k + 1 \notin s \ {Max(s)} /\ s \ {Max(s)} \in SUBSET (1..k+1) BY <2>3
      <4> QED BY <2>3, <4>1
    <3>4. QED  BY <3>2, <3>3
  <2>4. h[{}] = Fresh  BY <2>1, <2>0
  <2>5. Solves(h, k + 1)
    <3> HIDE DEF h
    <3>1. h = [s \in SUBSET (1..k + 1) |-> h[s]]  BY DEF h
    <3>2. \A s \in SUBSET (1..k + 1) : h[s] = IF s = {} THEN Fresh ELSE Read(h[s \ {Max(s)}], D[Max(s)])
      BY <2>2, <2>3, <2>4
    <3>3. QED  BY <3>1, <3>2
  <2>6. \E f : Solves(f, k + 1)  BY <2>5
  <2> HIDE DEF Solves
  <2>7. QED  BY <2>0, <2>6
<1>3. N \in S
  <2>1. S \in SUBSET (0..N)  OBVIOUS
  <2>2. \A m \in 1..N : m - 1 \in S => m \in S  BY <1>2
  <2> HIDE DEF S
  <2>3. QED  BY <1>1, <2>1, <2>2, LeastFalse
<1>4. PICK g0 : Solves(g0, N)  BY <1>3
<1> DEFINE g == CHOOSE f : Solves(f, N)
<1>5. Solves(g, N)  BY <1>4
<1>6. FoldLeft(Read, Fresh, D) = g[1..N]
  BY DEF FoldLeft, MapThenFoldSet
<1>7. g[{}] = Fresh  BY <1>5
<1>8. ASSUME NEW k \in 0..N - 1  PROVE g[1..k + 1] = Read(g[1..k], D[k + 1])
  <2>1. Max(1..k + 1) = k + 1  BY MaxIs
  <2>2. (1..k + 1) \ {k + 1} = 1..k /\ 1..k + 1 # {} /\ 1..k + 1 \in SUBSET (1..N) OBVIOUS
  <2> HIDE DEF g
  <2>3. QED  BY <1>5, <2>1, <2>2
<1> HIDE DEF g
<1> DEFINE r == [k \in 0..N |-> g[1..k]]
<1>9. r[0] = Fresh
  <2>1. 1..0 = {}  OBVIOUS
  <2>2. QED  BY <1>7, <2>1
<1>10. \A k \in 0..N - 1 : r[k + 1] = Read(r[k], D[k + 1])  BY <1>8
<1>11. FoldLeft(Read, Fresh, D) = r[N]  BY <1>6
<1> HIDE DEF r
<1>12. QED  BY <1>9, <1>10, <1>11

(* A fold of Grow is what growing event by event gives. *)
GrowsTo(base, D, N) ==
  \E r : /\ r[0] = base /\ \A k \in 0..N - 1 : r[k + 1] = Grow(r[k], D[k + 1])
         /\ FoldLeft(Grow, base, D) = r[N]

LEMMA GrowFolds ==
  ASSUME NEW base, NEW D, NEW N \in Nat, DOMAIN D = 1..N
  PROVE  GrowsTo(base, D, N)
<1> DEFINE Solves(g, k) ==
      g = [s \in SUBSET (1..k) |-> IF s = {} THEN base ELSE Grow(g[s \ {Max(s)}], D[Max(s)])]
           S == {k \in 0..N : \E g : Solves(g, k)}
<1>1. 0 \in S
  <2> DEFINE g == [s \in SUBSET (1..0) |-> base]
  <2>1. \A s \in SUBSET (1..0) : s = {}  OBVIOUS
  <2>2. Solves(g, 0)  BY <2>1
  <2>3. QED  BY <2>2
<1>2. ASSUME NEW m \in 1..N, m - 1 \in S  PROVE m \in S
  <2> PICK k \in 0..N - 1 : k = m - 1  OBVIOUS
  <2>0. m = k + 1 /\ k \in Nat OBVIOUS
  <2>1. PICK g : Solves(g, k)  BY <1>2
  <2> DEFINE h == [s \in SUBSET (1..k + 1) |-> IF k + 1 \in s THEN Grow(g[s \ {k + 1}], D[k + 1]) ELSE g[s]]
  <2>2. ASSUME NEW s \in SUBSET (1..k + 1), k + 1 \in s
        PROVE  h[s] = Grow(h[s \ {Max(s)}], D[Max(s)]) /\ s # {}
    <3>1. Max(s) = k + 1  BY <2>0, <2>2, MaxIs
    <3>2. s \ {k + 1} \in SUBSET (1..k)  BY <2>0
    <3>3. h[s \ {k + 1}] = g[s \ {k + 1}]  BY <3>2, <2>0
    <3>4. QED  BY <2>2, <3>1, <3>3
  <2>3. ASSUME NEW s \in SUBSET (1..k + 1), k + 1 \notin s, s # {}
        PROVE  h[s] = Grow(h[s \ {Max(s)}], D[Max(s)])
    <3>0. s \in SUBSET (1..k)
      <4>1. \A x \in s : x \in 1..k + 1 /\ x # k + 1  BY <2>3
      <4>2. \A x \in s : x \in 1..k  BY <4>1
      <4>3. QED  BY <4>2
    <3>1. s \in SUBSET (1..k) /\ s \ {Max(s)} \in SUBSET (1..k)  BY <3>0
    <3>2. g[s] = Grow(g[s \ {Max(s)}], D[Max(s)])  BY <2>1, <2>3, <3>1
    <3>3. h[s] = g[s] /\ h[s \ {Max(s)}] = g[s \ {Max(s)}]
      <4>1. k + 1 \notin s \ {Max(s)} /\ s \ {Max(s)} \in SUBSET (1..k+1) BY <2>3
      <4> QED BY <2>3, <4>1
    <3>4. QED  BY <3>2, <3>3
  <2>4. h[{}] = base  BY <2>1, <2>0
  <2>5. Solves(h, k + 1)
    <3> HIDE DEF h
    <3>1. h = [s \in SUBSET (1..k + 1) |-> h[s]]  BY DEF h
    <3>2. \A s \in SUBSET (1..k + 1) : h[s] = IF s = {} THEN base ELSE Grow(h[s \ {Max(s)}], D[Max(s)])
      BY <2>2, <2>3, <2>4
    <3>3. QED  BY <3>1, <3>2
  <2>6. \E f : Solves(f, k + 1)  BY <2>5
  <2> HIDE DEF Solves
  <2>7. QED  BY <2>0, <2>6
<1>3. N \in S
  <2>1. S \in SUBSET (0..N)  OBVIOUS
  <2>2. \A m \in 1..N : m - 1 \in S => m \in S  BY <1>2
  <2> HIDE DEF S
  <2>3. QED  BY <1>1, <2>1, <2>2, LeastFalse
<1>4. PICK g0 : Solves(g0, N)  BY <1>3
<1> DEFINE g == CHOOSE f : Solves(f, N)
<1>5. Solves(g, N)  BY <1>4
<1>6. FoldLeft(Grow, base, D) = g[1..N]
  BY DEF FoldLeft, MapThenFoldSet
<1>7. g[{}] = base  BY <1>5
<1>8. ASSUME NEW k \in 0..N - 1  PROVE g[1..k + 1] = Grow(g[1..k], D[k + 1])
  <2>1. Max(1..k + 1) = k + 1  BY MaxIs
  <2>2. (1..k + 1) \ {k + 1} = 1..k /\ 1..k + 1 # {} /\ 1..k + 1 \in SUBSET (1..N) OBVIOUS
  <2> HIDE DEF g
  <2>3. QED  BY <1>5, <2>1, <2>2
<1> HIDE DEF g
<1> DEFINE r == [k \in 0..N |-> g[1..k]]
<1>9. r[0] = base
  <2>1. 1..0 = {}  OBVIOUS
  <2>2. QED  BY <1>7, <2>1
<1>10. \A k \in 0..N - 1 : r[k + 1] = Grow(r[k], D[k + 1])  BY <1>8
<1>11. FoldLeft(Grow, base, D) = r[N]  BY <1>6
<1> HIDE DEF r
<1>12. QED  BY <1>9, <1>10, <1>11 DEF GrowsTo

-----------------------------------------------------------------------------
(* Events.                                                                  *)

NamesOf(c) == {Doc[c][i][2] : i \in {j \in 1..Len(Doc[c]) : Doc[c][j][1] \in {"open", "close"}}}

Ev(c) == {Start(n) : n \in NamesOf(c)} \cup {End(n) : n \in NamesOf(c)}
            \cup {Text(k) : k \in Nat} \cup {Comment}

LEMMA EventsAre ==
  ASSUME NEW c
  PROVE  /\ \A n \in NamesOf(c) : Start(n) \in Ev(c) /\ End(n) \in Ev(c)
         /\ \A k \in Nat : Text(k) \in Ev(c)
         /\ Comment \in Ev(c)
         /\ \A n : /\ Start(n)[1] = "start" /\ Start(n)[2] = n
                   /\ End(n)[1] = "end" /\ End(n)[2] = n
                   /\ Text(n)[1] = "text" /\ Text(n)[2] = n
         /\ Comment[1] = "comment"
         /\ StartDocument[1] = "startDocument" /\ EndDocument[1] = "endDocument"
BY DEF Ev, Start, End, Text, Comment, StartDocument, EndDocument

LEMMA EventKinds ==
  ASSUME NEW c, NEW e \in Ev(c)
  PROVE  /\ e[1] \in {"start", "end", "text", "comment"}
         /\ e[1] = "start" => e[2] \in NamesOf(c) /\ e = Start(e[2])
         /\ e[1] = "end" => e[2] \in NamesOf(c) /\ e = End(e[2])
         /\ e[1] = "text" => e[2] \in Nat /\ e = Text(e[2])
<1>1. CASE \E n \in NamesOf(c) : e = Start(n)  BY <1>1, EventsAre
<1>2. CASE \E n \in NamesOf(c) : e = End(n)  BY <1>2, EventsAre
<1>3. CASE \E n \in Nat : e = Text(n)  BY <1>3, EventsAre
<1>4. CASE e = Comment  BY <1>4, EventsAre
<1>5. QED  BY <1>1, <1>2, <1>3, <1>4 DEF Ev

(* An event told in part is told in part by what it grows to.               *)
LEMMA ToldIsOrder ==
  ASSUME NEW c
  PROVE  /\ \A e \in Ev(c) : Told(e, e)
         /\ \A e, f, g \in Ev(c) : Told(e, f) /\ Told(f, g) => Told(e, g)
         /\ \A e, f \in Ev(c) : Told(e, f) => e[1] = f[1] /\ (e[1] # "text" => e = f)
<1>1. \A e \in Ev(c) : e[1] = "text" => e[2] \in Nat  BY EventKinds
<1>2. QED  BY <1>1 DEF Told, IsText

LEMMA DeliversIsOrder ==
  ASSUME NEW c, NEW s \in Seq(Ev(c)), NEW t \in Seq(Ev(c))
  PROVE  /\ Delivers(s, s)
         /\ \A u \in Seq(Ev(c)) : Delivers(s, t) /\ Delivers(t, u) => Delivers(s, u)
         /\ \A e \in Ev(c) : Delivers(s, t) => Delivers(s, Append(t, e))
         /\ \A e, f \in Ev(c) : Told(e, f) => Delivers(Append(s, e), Append(s, f))
<1>1. Len(s) \in Nat /\ \A i \in 1..Len(s) : s[i] \in Ev(c)  OBVIOUS
<1>2. Len(t) \in Nat /\ \A i \in 1..Len(t) : t[i] \in Ev(c)  OBVIOUS
<1>3. Delivers(s, s)  BY <1>1, ToldIsOrder DEF Delivers
<1>4. ASSUME NEW u \in Seq(Ev(c)), Delivers(s, t), Delivers(t, u)  PROVE Delivers(s, u)
  <2>1. Len(u) \in Nat /\ \A i \in 1..Len(u) : u[i] \in Ev(c)  OBVIOUS
  <2>2. Len(s) <= Len(t) /\ Len(t) <= Len(u)  BY <1>4 DEF Delivers
  <2>3. ASSUME NEW i \in 1..Len(s)  PROVE Told(s[i], u[i])
    <3>1. i \in 1..Len(t) /\ i \in 1..Len(u)  BY <1>1, <1>2, <2>1, <2>2
    <3>2. Told(s[i], t[i]) /\ Told(t[i], u[i])  BY <1>4, <3>1 DEF Delivers
    <3>3. QED  BY <1>1, <1>2, <2>1, <3>1, <3>2, ToldIsOrder
  <2>4. QED  BY <1>1, <1>2, <2>1, <2>2, <2>3 DEF Delivers
<1>5. ASSUME NEW e \in Ev(c), Delivers(s, t)  PROVE Delivers(s, Append(t, e))
  <2>1. Len(s) <= Len(t) /\ \A i \in 1..Len(s) : Told(s[i], t[i])  BY <1>5 DEF Delivers
  <2>2. \A i \in 1..Len(s) : Append(t, e)[i] = t[i]  BY <1>1, <1>2, <2>1
  <2>3. Len(Append(t, e)) = Len(t) + 1  OBVIOUS
  <2>4. QED  BY <1>1, <1>2, <2>1, <2>2, <2>3 DEF Delivers
<1>6. ASSUME NEW e \in Ev(c), NEW f \in Ev(c), Told(e, f)  PROVE Delivers(Append(s, e), Append(s, f))
  <2>1. /\ Len(Append(s, e)) = Len(s) + 1 /\ Len(Append(s, f)) = Len(s) + 1
        /\ \A i \in 1..Len(s) : Append(s, e)[i] = s[i] /\ Append(s, f)[i] = s[i]
        /\ Append(s, e)[Len(s) + 1] = e /\ Append(s, f)[Len(s) + 1] = f
    OBVIOUS
  <2>2. ASSUME NEW i \in 1..Len(s) + 1  PROVE Told(Append(s, e)[i], Append(s, f)[i])
    <3>1. CASE i \in 1..Len(s)  BY <1>1, <2>1, <3>1, ToldIsOrder
    <3>2. CASE i = Len(s) + 1  BY <1>6, <2>1, <3>2
    <3>3. QED  BY <1>1, <3>1, <3>2
  <2>3. QED  BY <1>1, <2>1, <2>2 DEF Delivers
<1>7. QED  BY <1>3, <1>4, <1>5, <1>6

(* The elements open after each event.                                      *)
Nests(c, evs, S) ==
  /\ S[0] = <<>>
  /\ \A i \in 0..Len(evs) : S[i] \in Seq(NamesOf(c))
  /\ \A i \in 1..Len(evs) :
       /\ evs[i][1] = "start" => S[i] = Append(S[i - 1], evs[i][2])
       /\ evs[i][1] = "end" => /\ S[i - 1] # <<>> /\ evs[i] = End(Last(S[i - 1]))
                               /\ S[i] = Front(S[i - 1])
       /\ evs[i][1] \notin {"start", "end"} => S[i] = S[i - 1]

(* The events leave these names open.                                       *)
NestsTo(c, evs, names) == \E S : Nests(c, evs, S) /\ S[Len(evs)] = names

(* Event e takes the open names o to v.                                     *)
Moves(o, e, v) ==
  /\ e[1] = "start" => v = Append(o, e[2])
  /\ e[1] = "end" => o # <<>> /\ e = End(Last(o)) /\ v = Front(o)
  /\ e[1] \notin {"start", "end"} => v = o

LEMMA NestsAppend ==
  ASSUME NEW c, NEW evs \in Seq(Ev(c)), NEW o, NestsTo(c, evs, o), NEW e \in Ev(c),
         NEW v \in Seq(NamesOf(c)), Moves(o, e, v)
  PROVE  NestsTo(c, Append(evs, e), v)
<1> PICK S : Nests(c, evs, S) /\ S[Len(evs)] = o  BY DEF NestsTo
<1> DEFINE n == Len(evs)
           all == Append(evs, e)
           R == [i \in 0..n + 1 |-> IF i = n + 1 THEN v ELSE S[i]]
<1>1. n \in Nat /\ Len(all) = n + 1 /\ all[n + 1] = e /\ \A i \in 1..n : all[i] = evs[i]
  OBVIOUS
<1>2. R[n + 1] = v /\ \A i \in 0..n : R[i] = S[i]  BY <1>1
<1> HIDE DEF n, all, R
<1>3. R[0] = <<>> /\ \A i \in 0..n + 1 : R[i] \in Seq(NamesOf(c))
  <2>1. S[0] = <<>> /\ \A i \in 0..n : S[i] \in Seq(NamesOf(c))  BY DEF Nests, n
  <2>2. R[0] = <<>>  BY <1>1, <1>2, <2>1
  <2>3. ASSUME NEW i \in 0..n + 1  PROVE R[i] \in Seq(NamesOf(c))
    <3>1. CASE i = n + 1  BY <1>2, <3>1
    <3>2. CASE i # n + 1
      <4>1. i \in 0..n  BY <1>1, <3>2
      <4>2. QED  BY <1>2, <2>1, <4>1
    <3>3. QED  BY <3>1, <3>2
  <2>4. QED  BY <2>2, <2>3
<1>4. ASSUME NEW i \in 1..n + 1
      PROVE  /\ all[i][1] = "start" => R[i] = Append(R[i - 1], all[i][2])
             /\ all[i][1] = "end" => /\ R[i - 1] # <<>> /\ all[i] = End(Last(R[i - 1]))
                                     /\ R[i] = Front(R[i - 1])
             /\ all[i][1] \notin {"start", "end"} => R[i] = R[i - 1]
  <2>1. CASE i = n + 1
    <3>1. i - 1 = n /\ R[i - 1] = S[n] /\ R[i] = v /\ all[i] = e  BY <1>1, <1>2, <2>1
    <3>2. QED  BY <3>1 DEF n, Moves
  <2>2. CASE i \in 1..n
    <3>1. R[i] = S[i] /\ R[i - 1] = S[i - 1] /\ all[i] = evs[i]  BY <1>1, <1>2, <2>2
    <3>2. QED  BY <2>2, <3>1 DEF n, Nests
  <2>3. QED  BY <1>1, <2>1, <2>2
<1>5. Nests(c, all, R)  BY <1>1, <1>3, <1>4 DEF Nests
<1>6. QED  BY <1>1, <1>2, <1>5 DEF all, NestsTo

-----------------------------------------------------------------------------
(* The tokenizer.                                                           *)

Fields == {"evs", "names", "child", "root", "pend", "run", "blanks", "err"}
NoPend == <<"none">>

LexOK(c, t) ==
  /\ DOMAIN t = Fields
  /\ t = [x \in Fields |-> t[x]]
  /\ t.evs \in Seq(Ev(c)) /\ t.names \in Seq(NamesOf(c))
  /\ t.run \in Nat /\ t.blanks \in Nat
  /\ t.pend # NoPend => /\ t.pend[1] \in {"open", "close", "comment"}
                        /\ t.pend[1] # "comment" => t.pend[2] \in NamesOf(c)
  /\ t.run + t.blanks > 0 => t.pend = NoPend /\ t.err = "none" /\ t.names # <<>>
  /\ NestsTo(c, t.evs, t.names)

(* The events told if the input ended here.                                 *)
Told0(t) == IF t.run + t.blanks = 0 THEN t.evs ELSE Append(t.evs, Text(t.run + t.blanks))

LEMMA FreshIsOK ==
  ASSUME NEW c  PROVE LexOK(c, Fresh) /\ Told0(Fresh) = <<>>
<1> DEFINE S == [i \in 0..0 |-> <<>>]
<1>1. Nests(c, <<>>, S) /\ S[Len(<<>>)] = <<>>  BY DEF Nests
<1> HIDE DEF S
<1>2. QED  BY <1>1 DEF LexOK, Fresh, Fields, NoPend, Told0, NestsTo

(* Flush says what there is to say.                                         *)
LEMMA FlushSays ==
  ASSUME NEW c, NEW t, LexOK(c, t)
  PROVE  /\ LexOK(c, Flush(t, FALSE))
         /\ Flush(t, FALSE).evs = Told0(t) /\ Told0(t) \in Seq(Ev(c))
         /\ Flush(t, FALSE).run = 0 /\ Flush(t, FALSE).blanks = 0
         /\ Flush(t, FALSE).pend = t.pend /\ Flush(t, FALSE).names = t.names
         /\ Flush(t, FALSE).err = t.err /\ Flush(t, FALSE).root = t.root
<1> DEFINE n == t.run + t.blanks
           u == Flush(t, FALSE)
<1>1. n \in Nat /\ t.evs \in Seq(Ev(c))  BY DEF LexOK
<1>2. u = [t EXCEPT !.evs = IF n = 0 THEN @ ELSE @ \o <<Text(n)>>, !.run = 0, !.blanks = 0]
  BY DEF Flush
<1>3. Told0(t) = IF n = 0 THEN t.evs ELSE t.evs \o <<Text(n)>>
  <2>1. Text(n) \in Ev(c)  BY <1>1, EventsAre
  <2>2. \A e \in Ev(c) : Append(t.evs, e) = t.evs \o <<e>>  BY <1>1
  <2> HIDE DEF n
  <2>3. QED  BY <2>1, <2>2 DEF Told0, n
<1>4. /\ DOMAIN u = Fields /\ u = [x \in Fields |-> u[x]]
      /\ u.evs = Told0(t) /\ u.run = 0 /\ u.blanks = 0
      /\ u.pend = t.pend /\ u.names = t.names /\ u.err = t.err /\ u.root = t.root
  BY <1>2, <1>3, Zenon DEF LexOK, Fields
<1>5. Told0(t) \in Seq(Ev(c))  BY <1>1, EventsAre DEF Told0
<1>6. NestsTo(c, Told0(t), t.names)
  <2>1. NestsTo(c, t.evs, t.names)  BY DEF LexOK
  <2>2. CASE n = 0  BY <2>1, <2>2 DEF Told0
  <2>3. CASE n # 0
    <3>1. Told0(t) = Append(t.evs, Text(n))  BY <2>3 DEF Told0
    <3>2. Text(n) \in Ev(c) /\ Text(n)[1] = "text"  BY <1>1, EventsAre
    <3>3. t.names \in Seq(NamesOf(c))  BY DEF LexOK
    <3> HIDE DEF n
    <3>4. Moves(t.names, Text(n), t.names)  BY <3>2 DEF Moves
    <3>5. QED  BY <1>1, <2>1, <3>1, <3>2, <3>3, <3>4, NestsAppend
  <2>4. QED  BY <2>2, <2>3
<1> HIDE DEF u
<1>7. LexOK(c, u)  BY <1>4, <1>5, <1>6 DEF LexOK
<1>8. QED  BY <1>4, <1>5, <1>7 DEF u

(* Between the tokens there is nothing to say.                              *)
Quiet(t) == t.run = 0 /\ t.blanks = 0

(* What a mark does: the tokenizer goes on, and what it says is only more.  *)
Goes(c, t, u) == LexOK(c, u) /\ Delivers(Told0(t), Told0(u))

LEMMA Tells ==
  ASSUME NEW c, NEW t, LexOK(c, t), Quiet(t), NEW u,
         u = [x \in Fields |-> u[x]], Quiet(u),
         NEW e \in Ev(c), NEW v \in Seq(NamesOf(c)),
         u.evs = Append(t.evs, e), u.names = v, u.pend = NoPend,
         e[1] = "start" => v = Append(t.names, e[2]),
         e[1] = "end" => t.names # <<>> /\ e = End(Last(t.names)) /\ v = Front(t.names),
         e[1] \notin {"start", "end"} => v = t.names
  PROVE  Goes(c, t, u)
<1>1. NestsTo(c, t.evs, t.names)  BY DEF LexOK
<1>2. t.evs \in Seq(Ev(c)) /\ u.evs \in Seq(Ev(c))
  <2>1. t.evs \in Seq(Ev(c))  BY DEF LexOK
  <2>2. \A w \in Seq(Ev(c)) : Append(w, e) \in Seq(Ev(c))  OBVIOUS
  <2>3. QED  BY <2>1, <2>2, Zenon
<1>3. NestsTo(c, u.evs, v)
  <2>1. Moves(t.names, e, v)  BY Zenon DEF Moves
  <2>2. QED  BY <1>1, <1>2, <2>1, NestsAppend
<1>4. DOMAIN u = Fields  OBVIOUS
<1>5. LexOK(c, u)  BY <1>2, <1>3, <1>4 DEF LexOK, Quiet
<1>6. Told0(t) = t.evs /\ Told0(u) = u.evs  BY DEF Told0, Quiet
<1>7. Delivers(t.evs, Append(t.evs, e))  BY <1>2, DeliversIsOrder
<1>8. QED  BY <1>5, <1>6, <1>7 DEF Goes

LEMMA SaysNothing ==
  ASSUME NEW c, NEW t, LexOK(c, t), Quiet(t), NEW u,
         u = [x \in Fields |-> u[x]], Quiet(u),
         u.evs = t.evs, u.names = t.names,
         u.pend = t.pend \/ (u.pend[1] \in {"open", "close", "comment"}
                             /\ (u.pend[1] # "comment" => u.pend[2] \in NamesOf(c)))
  PROVE  Goes(c, t, u)
<1>1. DOMAIN u = Fields  OBVIOUS
<1>2. LexOK(c, u)
  <2>1. /\ u.evs \in Seq(Ev(c)) /\ u.names \in Seq(NamesOf(c)) /\ NestsTo(c, u.evs, u.names)
        /\ u.pend # NoPend => /\ u.pend[1] \in {"open", "close", "comment"}
                              /\ u.pend[1] # "comment" => u.pend[2] \in NamesOf(c)
    BY DEF LexOK
  <2>2. u.run \in Nat /\ u.blanks \in Nat /\ ~(u.run + u.blanks > 0)  BY DEF Quiet
  <2>3. QED  BY <1>1, <2>1, <2>2, Zenon DEF LexOK
<1>3. Told0(t) = t.evs /\ Told0(u) = u.evs  BY DEF Told0, Quiet
<1>4. Delivers(t.evs, t.evs)  BY DeliversIsOrder DEF LexOK
<1>5. QED  BY <1>2, <1>3, <1>4 DEF Goes

LEMMA OpenedGoes ==
  ASSUME NEW c, NEW t, LexOK(c, t), Quiet(t), NEW n \in NamesOf(c)
  PROVE  Goes(c, t, Opened(t, n))
<1> DEFINE u == Opened(t, n)
<1>1. CASE t.root /\ t.names = <<>>
  <2>1. u = [t EXCEPT !.err = "second root"]  BY <1>1 DEF Opened
  <2>2. u = [x \in Fields |-> u[x]] /\ Quiet(u) /\ u.evs = t.evs /\ u.names = t.names /\ u.pend = t.pend
    BY <2>1 DEF LexOK, Fields, Quiet
  <2> HIDE DEF u
  <2>3. Goes(c, t, u)  BY <2>2, SaysNothing
  <2>4. QED  BY <2>3 DEF u
<1>2. CASE ~(t.root /\ t.names = <<>>)
  <2> DEFINE child == Append(IF t.child = <<>> THEN t.child ELSE Front(t.child) \o <<TRUE>>, FALSE)
  <2>1. u = [t EXCEPT !.evs = Append(@, Start(n)), !.root = TRUE, !.pend = <<"none">>,
                      !.names = Append(@, n), !.child = child]
    BY <1>2, Zenon DEF Opened
  <2> HIDE DEF child
  <2>2. /\ u = [x \in Fields |-> u[x]] /\ Quiet(u) /\ u.evs = Append(t.evs, Start(n))
        /\ u.names = Append(t.names, n) /\ u.pend = NoPend
    BY <2>1 DEF LexOK, Fields, Quiet, NoPend
  <2>3. Start(n) \in Ev(c) /\ Start(n)[1] = "start" /\ Start(n)[2] = n  BY EventsAre
  <2>4. Append(t.names, n) \in Seq(NamesOf(c))  BY DEF LexOK
  <2> HIDE DEF u
  <2>5. Goes(c, t, u)  BY <2>2, <2>3, <2>4, Tells
  <2>6. QED  BY <2>5 DEF u
<1>3. QED  BY <1>1, <1>2

LEMMA ClosedGoes ==
  ASSUME NEW c, NEW t, LexOK(c, t), Quiet(t), NEW n \in NamesOf(c)
  PROVE  Goes(c, t, Closed(t, n))
<1> DEFINE u == Closed(t, n)
<1>1. CASE t.names = <<>> \/ Last(t.names) # n
  <2>1. u = [t EXCEPT !.err = "TagNameMismatch"]  BY <1>1 DEF Closed
  <2>2. u = [x \in Fields |-> u[x]] /\ Quiet(u) /\ u.evs = t.evs /\ u.names = t.names /\ u.pend = t.pend
    BY <2>1 DEF LexOK, Fields, Quiet
  <2> HIDE DEF u
  <2>3. Goes(c, t, u)  BY <2>2, SaysNothing
  <2>4. QED  BY <2>3 DEF u
<1>2. CASE t.names # <<>> /\ Last(t.names) = n
  <2>1. u = [t EXCEPT !.evs = Append(@, End(n)), !.pend = <<"none">>,
                      !.names = Front(@), !.child = Front(@)]
    BY <1>2 DEF Closed
  <2>2. /\ u = [x \in Fields |-> u[x]] /\ Quiet(u) /\ u.evs = Append(t.evs, End(n))
        /\ u.names = Front(t.names) /\ u.pend = NoPend
    BY <2>1 DEF LexOK, Fields, Quiet, NoPend
  <2>3. End(n) \in Ev(c) /\ End(n)[1] = "end"  BY EventsAre
  <2>4. Front(t.names) \in Seq(NamesOf(c))  BY <1>2, FrontOfSeq DEF LexOK
  <2> HIDE DEF u
  <2>5. Goes(c, t, u)  BY <1>2, <2>2, <2>3, <2>4, Tells
  <2>6. QED  BY <2>5 DEF u
<1>3. QED  BY <1>1, <1>2

(* A run of characters that grows.                                          *)
LEMMA CharactersGo ==
  ASSUME NEW c, NEW t, LexOK(c, t), t.err = "none", t.pend = NoPend, NEW s
  PROVE  Goes(c, t, Characters(t, s))
<1> DEFINE u == Characters(t, s)
           n == t.run + t.blanks
<1>0. t.run \in Nat /\ t.blanks \in Nat /\ n \in Nat /\ t.evs \in Seq(Ev(c))  BY DEF LexOK
<1>1. CASE u = t
  <2>1. Delivers(Told0(t), Told0(t))
    BY FlushSays, DeliversIsOrder
  <2> HIDE DEF u
  <2>2. Goes(c, t, u)  BY <1>1, <2>1 DEF Goes
  <2>3. QED  BY <2>2 DEF u
<1>2. CASE u = [t EXCEPT !.err = "text outside the root"] /\ Quiet(t)
  <2>1. u = [x \in Fields |-> u[x]] /\ Quiet(u) /\ u.evs = t.evs /\ u.names = t.names /\ u.pend = t.pend
    BY <1>2 DEF LexOK, Fields, Quiet
  <2> HIDE DEF u
  <2>2. Goes(c, t, u)  BY <1>2, <2>1, SaysNothing
  <2>3. QED  BY <2>2 DEF u
<1>3. ASSUME t.names # <<>>,
             u = [t EXCEPT !.blanks = @ + 1] \/ u = [t EXCEPT !.run = @ + t.blanks + 1, !.blanks = 0]
      PROVE  Goes(c, t, Characters(t, s))
  <2>1. /\ DOMAIN u = Fields /\ u = [x \in Fields |-> u[x]] /\ u.evs = t.evs /\ u.names = t.names
        /\ u.pend = t.pend /\ u.err = t.err
    BY <1>3 DEF LexOK, Fields
  <2>2. u.run \in Nat /\ u.blanks \in Nat /\ u.run + u.blanks = n + 1
    <3>1. CASE u = [t EXCEPT !.blanks = @ + 1]
      <4>1. u.run = t.run /\ u.blanks = t.blanks + 1  BY <3>1 DEF LexOK, Fields
      <4> HIDE DEF u
      <4>2. QED  BY <1>0, <4>1
    <3>2. CASE u = [t EXCEPT !.run = @ + t.blanks + 1, !.blanks = 0]
      <4>1. u.run = t.run + t.blanks + 1 /\ u.blanks = 0  BY <3>2 DEF LexOK, Fields
      <4> HIDE DEF u
      <4>2. QED  BY <1>0, <4>1
    <3>3. QED  BY <1>3, <3>1, <3>2
  <2> HIDE DEF u
  <2>3. LexOK(c, u)  BY <1>3, <2>1, <2>2 DEF LexOK
  <2>4. Told0(u) = Append(t.evs, Text(n + 1))
    <3> PICK m : m = u.run + u.blanks  OBVIOUS
    <3>1. m # 0 /\ m = n + 1  BY <1>0, <2>2
    <3>2. Told0(u) = Append(u.evs, Text(m))  BY <3>1 DEF Told0
    <3>3. QED  BY <2>1, <3>1, <3>2
  <2>5. Text(n + 1) \in Ev(c)  BY <1>0, EventsAre
  <2>6. CASE n = 0
    <3>1. Told0(t) = t.evs  BY <2>6 DEF Told0
    <3>2. Delivers(t.evs, Append(t.evs, Text(n + 1)))  BY <1>0, <2>5, DeliversIsOrder
    <3>3. QED  BY <2>3, <2>4, <3>1, <3>2 DEF Goes, u
  <2>7. CASE n # 0
    <3>1. Told0(t) = Append(t.evs, Text(n))  BY <2>7 DEF Told0
    <3>2. Text(n) \in Ev(c)  BY <1>0, EventsAre
    <3>3. Told(Text(n), Text(n + 1))
      <4>1. /\ Text(n)[1] = "text" /\ Text(n)[2] = n
            /\ Text(n + 1)[1] = "text" /\ Text(n + 1)[2] = n + 1
        BY EventsAre
      <4>2. n <= n + 1  BY <1>0
      <4> HIDE DEF n
      <4>3. QED  BY <4>1, <4>2 DEF Told, IsText
    <3> HIDE DEF n
    <3>4. Delivers(Append(t.evs, Text(n)), Append(t.evs, Text(n + 1)))
      BY <1>0, <2>5, <3>2, <3>3, DeliversIsOrder
    <3>5. QED  BY <2>3, <2>4, <3>1, <3>4 DEF Goes, u
  <2>8. QED  BY <2>6, <2>7
<1>4. QED
  <2>1. CASE t.names = <<>>
    <3>1. u = t \/ u = [t EXCEPT !.err = "text outside the root"]
      BY <2>1 DEF Characters
    <3>2. Quiet(t)  BY <1>0, <2>1 DEF LexOK, Quiet
    <3>3. QED  BY <1>1, <1>2, <3>1, <3>2
  <2>2. CASE t.names # <<>>
    <3>1. u = [t EXCEPT !.blanks = @ + 1] \/ u = [t EXCEPT !.run = @ + t.blanks + 1, !.blanks = 0]
      BY <2>2 DEF Characters
    <3>2. QED  BY <1>3, <2>2, <3>1
  <2>3. QED  BY <2>1, <2>2

(* One mark.                                                                *)
LEMMA MarkupGoes ==
  ASSUME NEW c, NEW t, LexOK(c, t), t.pend # NoPend, NEW s
  PROVE  Goes(c, t, InMarkup(t, s))
<1>0. Quiet(t)  BY DEF LexOK, Quiet
<1>1. t.pend[1] \in {"open", "close", "comment"} /\ (t.pend[1] # "comment" => t.pend[2] \in NamesOf(c))
  BY DEF LexOK
<1>2. ASSUME NEW e, NEW u, u = [t EXCEPT !.err = e]  PROVE Goes(c, t, u)
  <2>1. u = [x \in Fields |-> u[x]] /\ Quiet(u) /\ u.evs = t.evs /\ u.names = t.names /\ u.pend = t.pend
    BY <1>0, <1>2 DEF LexOK, Fields, Quiet
  <2>2. QED  BY <1>0, <2>1, SaysNothing
<1>3. CASE t.pend[1] = "open"
  <2>1. CASE s[1] = "gt"
    <3>1. InMarkup(t, s) = Opened(t, t.pend[2])  BY <1>3, <2>1 DEF InMarkup
    <3>2. QED  BY <1>0, <1>1, <1>3, <3>1, OpenedGoes
  <2>2. CASE s[1] # "gt"
    <3>1. InMarkup(t, s) = [t EXCEPT !.err = "malformed tag"]  BY <1>3, <2>2 DEF InMarkup
    <3>2. QED  BY <1>2, <3>1
  <2>3. QED  BY <2>1, <2>2
<1>4. CASE t.pend[1] = "close"
  <2>1. CASE s[1] = "gt"
    <3>1. InMarkup(t, s) = Closed(t, t.pend[2])  BY <1>4, <2>1 DEF InMarkup
    <3>2. QED  BY <1>0, <1>1, <1>4, <3>1, ClosedGoes
  <2>2. CASE s[1] # "gt"
    <3>1. InMarkup(t, s) = [t EXCEPT !.err = "malformed tag"]  BY <1>4, <2>2 DEF InMarkup
    <3>2. QED  BY <1>2, <3>1
  <2>3. QED  BY <2>1, <2>2
<1>5. CASE t.pend[1] = "comment"
  <2>1. CASE s[1] # "uncomment"
    <3>1. InMarkup(t, s) = t  BY <1>5, <2>1 DEF InMarkup
    <3>2. Delivers(Told0(t), Told0(t))  BY FlushSays, DeliversIsOrder
    <3>3. QED  BY <3>1, <3>2 DEF Goes
  <2>2. CASE s[1] = "uncomment"
    <3> PICK u : u = InMarkup(t, s)  OBVIOUS
    <3>1. u = [t EXCEPT !.evs = Append(@, Comment), !.pend = <<"none">>]
      BY <1>5, <2>2 DEF InMarkup
    <3>2. /\ u = [x \in Fields |-> u[x]] /\ Quiet(u) /\ u.evs = Append(t.evs, Comment)
          /\ u.names = t.names /\ u.pend = NoPend
      BY <1>0, <3>1 DEF LexOK, Fields, Quiet, NoPend
    <3>3. Comment \in Ev(c) /\ Comment[1] = "comment"  BY EventsAre
    <3>4. t.names \in Seq(NamesOf(c))  BY DEF LexOK
    <3>5. QED  BY <1>0, <3>2, <3>3, <3>4, Tells
  <2>3. QED  BY <2>1, <2>2
<1>6. QED  BY <1>1, <1>3, <1>4, <1>5

(* One mark, in a parse that keeps blank text.                              *)
LEMMA ReadGoes ==
  ASSUME ~NoBlanks, NEW c \in Ctxt, NEW i \in 1..Len(Doc[c]), NEW t, LexOK(c, t)
  PROVE  /\ Goes(c, t, Read(t, Doc[c][i]))
         /\ t.err # "none" => Read(t, Doc[c][i]) = t
<1> PICK s : s = Doc[c][i]  OBVIOUS
<1>0. Doc[c][i] = s  OBVIOUS
<1>a. NoBlanks = FALSE  BY PushAssumption
<1>1. CASE t.err # "none"
  <2>1. Read(t, s) = t  BY <1>1 DEF Read
  <2>2. Delivers(Told0(t), Told0(t))  BY FlushSays, DeliversIsOrder
  <2>3. QED  BY <1>0, <2>1, <2>2 DEF Goes
<1>2. CASE t.err = "none" /\ t.pend # NoPend
  <2>1. Read(t, s) = InMarkup(t, s)  BY <1>2 DEF Read, NoPend
  <2>2. QED  BY <1>0, <1>2, <2>1, MarkupGoes
<1>3. CASE t.err = "none" /\ t.pend = NoPend /\ s[1] \in {"open", "close", "comment"}
  <2> PICK f : f = Flush(t, FALSE)  OBVIOUS
  <2> PICK u : u = Read(t, s)  OBVIOUS
  <2>1. u = [f EXCEPT !.pend = s]
    <3>1. CASE s[1] \in {"open", "comment"}
      <4>1. u = [Flush(t, NoBlanks) EXCEPT !.pend = s]  BY <1>3, <3>1 DEF Read, NoPend
      <4>2. QED  BY <1>a, <4>1
    <3>2. CASE s[1] = "close"
      <4>1. u = [Flush(t, NoBlanks /\ t.child # <<>> /\ Last(t.child)) EXCEPT !.pend = s]
        BY <1>3, <3>2 DEF Read, NoPend
      <4>2. (NoBlanks /\ t.child # <<>> /\ Last(t.child)) = FALSE  BY <1>a
      <4>3. QED  BY <4>1, <4>2
    <3>3. QED  BY <1>3, <3>1, <3>2
  <2>2. LexOK(c, f) /\ f.evs = Told0(t) /\ Quiet(f)
    BY FlushSays DEF Quiet
  <2>3. /\ u = [x \in Fields |-> u[x]] /\ Quiet(u) /\ u.evs = f.evs /\ u.names = f.names /\ u.pend = s
    BY <2>1, <2>2 DEF LexOK, Fields, Quiet
  <2>4. s[1] # "comment" => s[2] \in NamesOf(c)
    BY <1>3 DEF NamesOf
  <2>5. Goes(c, f, u)  BY <1>3, <2>2, <2>3, <2>4, SaysNothing
  <2>6. Told0(f) = Told0(t)
    <3>1. Told0(f) = f.evs
      <4>1. f.run = 0 /\ f.blanks = 0  BY <2>2 DEF Quiet
      <4>2. f.run + f.blanks = 0
        <5>1. 0 + 0 = 0  OBVIOUS
        <5>2. QED  BY <4>1, <5>1
      <4>3. QED  BY <4>2, Zenon DEF Told0
    <3>2. QED  BY <2>2, <3>1
  <2>7. QED  BY <1>3, <2>5, <2>6 DEF Goes
<1>4. CASE t.err = "none" /\ t.pend = NoPend /\ s[1] \notin {"open", "close", "comment"}
  <2>1. Read(t, s) = Characters(t, s)  BY <1>4 DEF Read, NoPend
  <2>2. QED  BY <1>4, <2>1, CharactersGo
<1>5. QED  BY <1>1, <1>2, <1>3, <1>4

-----------------------------------------------------------------------------
(* The states of the tokenizer over a whole document.                       *)
Lexes(c, L) == L[0] = Fresh /\ \A i \in 1..Len(Doc[c]) : L[i] = Read(L[i - 1], Doc[c][i])

LEMMA DocIsSeq ==
  ASSUME NEW c \in Ctxt
  PROVE  Len(Doc[c]) \in Nat /\ DOMAIN Doc[c] = 1..Len(Doc[c]) /\ Doc[c] \in Seq(Range(Doc[c]))
BY PushAssumption

(* Each feed reads the buffer again, and comes by the same states.          *)
LEMMA LexedOnce ==
  ASSUME NEW c \in Ctxt
  PROVE  \E L : /\ Lexes(c, L)
                /\ \A n \in 0..Len(Doc[c]) : FoldLeft(Read, Fresh, SubSeq(Doc[c], 1, n)) = L[n]
<1> DEFINE D == Doc[c]
           N == Len(D)
<1>1. N \in Nat /\ D \in Seq(Range(D)) /\ DOMAIN D = 1..N  BY DocIsSeq
<1>2. PICK L : L[0] = Fresh /\ \A k \in 0..N - 1 : L[k + 1] = Read(L[k], D[k + 1])
  <2>1. \E r : /\ r[0] = Fresh /\ \A k \in 0..N - 1 : r[k + 1] = Read(r[k], D[k + 1])
               /\ FoldLeft(Read, Fresh, D) = r[N]
    <3> HIDE DEF D, N
    <3>1. QED  BY <1>1, ReadFolds, Zenon
  <2>2. QED  BY <2>1, Zenon
<1>3. Lexes(c, L)
  <2>1. ASSUME NEW i \in 1..N  PROVE L[i] = Read(L[i - 1], D[i])
    <3>1. i - 1 \in 0..N - 1 /\ (i - 1) + 1 = i  BY <1>1
    <3>2. QED  BY <1>2, <3>1
  <2>2. QED  BY <1>2, <2>1 DEF Lexes
<1>4. ASSUME NEW n \in 0..N  PROVE FoldLeft(Read, Fresh, SubSeq(D, 1, n)) = L[n]
  <2> PICK P : P = SubSeq(D, 1, n)  OBVIOUS
  <2>1. n \in Nat /\ DOMAIN P = 1..n /\ \A i \in 1..n : P[i] = D[i]
    <3>1. /\ P \in Seq(Range(D)) /\ Len(P) = IF 1 <= n THEN n - 1 + 1 ELSE 0
          /\ \A i \in 1..n - 1 + 1 : P[i] = D[1 + i - 1]
      <4>1. \A i \in 1..n : D[i] \in Range(D)  BY <1>1 DEF Range
      <4> HIDE DEF D
      <4>2. n \in Int /\ 1 \in Int  BY <1>1
      <4>3. QED  BY <1>1, <4>1, <4>2, SubSeqProperties
    <3> HIDE DEF D, N
    <3>2. n \in Nat /\ Len(P) = n  BY <1>1, <3>1
    <3>3. DOMAIN P = 1..n  BY <3>1, <3>2
    <3>4. \A i \in 1..n : 1 + i - 1 = i /\ i \in 1..n - 1 + 1  BY <3>2
    <3>5. QED  BY <3>1, <3>2, <3>3, <3>4
  <2>2. PICK r : /\ r[0] = Fresh /\ \A k \in 0..n - 1 : r[k + 1] = Read(r[k], P[k + 1])
                 /\ FoldLeft(Read, Fresh, P) = r[n]
    BY <2>1, ReadFolds
  <2> DEFINE S == {k \in 0..n : r[k] = L[k]}
  <2>3. 0 \in S  BY <1>2, <2>1, <2>2
  <2>4. ASSUME NEW m \in 1..n, m - 1 \in S  PROVE m \in S
    <3>1. m - 1 \in 0..n - 1 /\ m - 1 \in 0..N - 1 /\ (m - 1) + 1 = m  BY <1>1, <2>1
    <3>2. r[m] = Read(r[m - 1], P[m]) /\ L[m] = Read(L[m - 1], D[m])  BY <1>2, <2>2, <3>1
    <3>3. QED  BY <2>1, <2>4, <3>2
  <2>5. S \in SUBSET (0..n)  OBVIOUS
  <2> HIDE DEF S
  <2>6. S = 0..n  BY <2>1, <2>3, <2>4, <2>5, LeastFalse
  <2>7. r[n] = L[n]  BY <2>1, <2>6 DEF S
  <2>8. QED  BY <2>2, <2>7
<1>5. QED  BY <1>3, <1>4

(* What the tokenizer says at the end of what it has is what it told and    *)
(* the run under way: it makes up no end tags when it does not recover.     *)
LEMMA EndTells ==
  ASSUME ~Recover, NEW c, NEW t, LexOK(c, t)
  PROVE  /\ AtEnd(t).evs = Told0(t)
         /\ t.err # "none" => AtEnd(t).err = t.err
         /\ t.err = "none" => AtEnd(t).err \in {"none", "truncated"}
<1> DEFINE u == IF t.err = "none" /\ t.pend = <<"none">> THEN Flush(t, FALSE) ELSE t
           complete == u.names = <<>> /\ u.root
<1>1. u.evs = Told0(t) /\ u.err = t.err /\ LexOK(c, u)
  <2>1. CASE t.err = "none" /\ t.pend = <<"none">>
    BY <2>1, FlushSays
  <2>2. CASE ~(t.err = "none" /\ t.pend = <<"none">>)
    <3>0. t.run \in Nat /\ t.blanks \in Nat /\ ~(t.run + t.blanks > 0)
      BY <2>2, Zenon DEF LexOK, NoPend
    <3>1. t.run + t.blanks = 0  BY <3>0
    <3>2. Told0(t) = t.evs  BY <3>1, Zenon DEF Told0
    <3>3. QED  BY <2>2, <3>2
  <2>3. QED  BY <2>1, <2>2
<1>2. AtEnd(t) = IF u.err # "none" THEN u
                 ELSE IF u.pend # <<"none">> \/ ~(Recover \/ complete) THEN [u EXCEPT !.err = "truncated"]
                 ELSE [u EXCEPT !.evs = @ \o [i \in 1..Len(u.names) |-> End(Reverse(u.names)[i])]]
  BY DEF AtEnd
<1> HIDE DEF u, complete
<1>3. CASE u.err # "none"
  BY <1>1, <1>2, <1>3
<1>4. CASE u.err = "none" /\ AtEnd(t) = [u EXCEPT !.err = "truncated"]
  BY <1>1, <1>4 DEF LexOK, Fields
<1>5. CASE /\ u.err = "none" /\ u.names = <<>>
           /\ AtEnd(t) = [u EXCEPT !.evs = @ \o [i \in 1..Len(u.names) |-> End(Reverse(u.names)[i])]]
  <2> DEFINE ends == [i \in 1..Len(u.names) |-> End(Reverse(u.names)[i])]
  <2>1. ends = <<>>
    <3>1. 1..Len(u.names) = {}  BY <1>5
    <3>2. QED  BY <3>1
  <2> HIDE DEF ends
  <2>2. AtEnd(t) = [u EXCEPT !.evs = @ \o <<>>]  BY <1>5, <2>1 DEF ends
  <2>3. u.evs \o <<>> = u.evs  BY <1>1 DEF LexOK
  <2>4. QED  BY <1>1, <1>5, <2>2, <2>3 DEF LexOK, Fields
<1>6. QED  BY <1>2, <1>3, <1>4, <1>5 DEF complete

(* The events of a prefix of a document are told, some text apart, by every *)
(* longer one; they are nested; and an error in it stays.                   *)
LEMMA TokensGrow ==
  ASSUME ~Recover, ~NoBlanks, NEW c \in Ctxt
  PROVE  /\ Tokens[c][0].evs = <<>>
         /\ \A n \in 0..Len(Doc[c]) : Tokens[c][n].evs \in Seq(Ev(c))
         /\ \A m \in 0..Len(Doc[c]) : \A n \in 0..m : Delivers(Tokens[c][n].evs, Tokens[c][m].evs)
         /\ \A m \in 0..Len(Doc[c]) : \A n \in 0..m :
               Tokens[c][n].err = "TagNameMismatch" => Tokens[c][m].err = "TagNameMismatch"
         /\ \E S : Nests(c, Tokens[c][Len(Doc[c])].evs, S)
<1> DEFINE N == Len(Doc[c])
<1>0. N \in Nat  BY DocIsSeq
<1>1. PICK L : /\ Lexes(c, L)
               /\ \A n \in 0..N : FoldLeft(Read, Fresh, SubSeq(Doc[c], 1, n)) = L[n]
  BY LexedOnce
<1>2. \A n \in 0..N : LexOK(c, L[n])
  <2> DEFINE S == {n \in 0..N : LexOK(c, L[n])}
  <2>1. 0 \in S  BY <1>0, <1>1, FreshIsOK DEF Lexes
  <2>2. ASSUME NEW m \in 1..N, m - 1 \in S  PROVE m \in S
    <3>1. L[m] = Read(L[m - 1], Doc[c][m]) /\ LexOK(c, L[m - 1])  BY <1>1, <2>2 DEF Lexes
    <3>2. LexOK(c, L[m])  BY <3>1, ReadGoes DEF Goes
    <3>3. QED  BY <3>2
  <2>3. S \in SUBSET (0..N)  OBVIOUS
  <2> HIDE DEF S, N
  <2>4. S = 0..N  BY <1>0, <2>1, <2>2, <2>3, LeastFalse
  <2>5. QED  BY <2>4 DEF S
<1>3. \A n \in 0..N : /\ Tokens[c][n].evs = Told0(L[n])
                      /\ Tokens[c][n].err = AtEnd(L[n]).err
  <2> TAKE n \in 0..N
  <2>1. Tokens[c][n] = [evs |-> AtEnd(L[n]).evs, err |-> AtEnd(L[n]).err]
    BY <1>1 DEF Tokens
  <2>2. QED  BY <1>2, <2>1, EndTells
<1>4. \A n \in 0..N : Told0(L[n]) \in Seq(Ev(c))  BY <1>2, FlushSays
<1>5. ASSUME NEW m \in 0..N, NEW n \in 0..m
      PROVE  Delivers(Told0(L[n]), Told0(L[m])) /\ (L[n].err # "none" => L[m] = L[n])
  <2> DEFINE P(q) == Delivers(Told0(L[n]), Told0(L[q])) /\ (L[n].err # "none" => L[q] = L[n])
             S == {k \in 0..m - n : P(n + k)}
  <2>0. n \in Nat /\ m \in Nat /\ m - n \in Nat /\ m <= N  BY <1>0
  <2>1. 0 \in S
    <3>1. n + 0 = n /\ n \in 0..N  BY <1>0
    <3>2. Delivers(Told0(L[n]), Told0(L[n]))  BY <1>4, <3>1, DeliversIsOrder
    <3>3. QED  BY <2>0, <3>1, <3>2
  <2>2. ASSUME NEW k \in 1..m - n, k - 1 \in S  PROVE k \in S
    <3> DEFINE q == n + k
    <3>1. q \in 1..N /\ q - 1 = n + (k - 1) /\ q - 1 \in 0..N /\ n \in 0..N /\ q \in 0..N
      BY <1>0, <2>0
    <3>2. P(q - 1)  BY <2>2, <3>1
    <3> HIDE DEF q
    <3>3. L[q] = Read(L[q - 1], Doc[c][q])  BY <1>1, <3>1 DEF Lexes
    <3>4. /\ Delivers(Told0(L[q - 1]), Told0(L[q]))
          /\ L[q - 1].err # "none" => L[q] = L[q - 1]
      BY <1>2, <3>1, <3>3, ReadGoes DEF Goes
    <3>5. Delivers(Told0(L[n]), Told0(L[q]))
      BY <1>4, <3>1, <3>2, <3>4, DeliversIsOrder
    <3>6. P(q)  BY <3>2, <3>4, <3>5
    <3>7. QED  BY <3>6 DEF q
  <2>3. S \in SUBSET (0..m - n)  OBVIOUS
  <2> HIDE DEF S
  <2>4. S = 0..m - n  BY <2>0, <2>1, <2>2, <2>3, LeastFalse
  <2>5. P(n + (m - n))  BY <2>0, <2>4 DEF S
  <2>6. n + (m - n) = m  BY <2>0
  <2>7. QED  BY <2>5, <2>6
<1>6. ASSUME NEW m \in 0..N, NEW n \in 0..m, Tokens[c][n].err = "TagNameMismatch"
      PROVE  Tokens[c][m].err = "TagNameMismatch"
  <2>1. n \in 0..N  BY <1>0
  <2>2. L[n].err # "none"  BY <1>2, <1>3, <1>6, <2>1, EndTells
  <2>3. L[m] = L[n]  BY <1>5, <2>2
  <2>4. QED  BY <1>3, <1>6, <2>1, <2>3
<1>7. \E S : Nests(c, Told0(L[N]), S)
  <2>1. N \in 0..N  BY <1>0
  <2>2. LexOK(c, Flush(L[N], FALSE)) /\ Flush(L[N], FALSE).evs = Told0(L[N])
    BY <1>2, <2>1, FlushSays
  <2>3. QED  BY <2>2 DEF LexOK, NestsTo
<1>8. Tokens[c][0].evs = <<>>
  <2>1. 0 \in 0..N  BY <1>0
  <2>2. QED  BY <1>1, <1>3, <2>1, FreshIsOK DEF Lexes
<1>9. /\ \A n \in 0..N : Tokens[c][n].evs \in Seq(Ev(c))
      /\ \A m \in 0..N : \A n \in 0..m : Delivers(Tokens[c][n].evs, Tokens[c][m].evs)
  <2>1. \A m \in 0..N : \A n \in 0..m : n \in 0..N  BY <1>0
  <2>2. QED  BY <1>3, <1>4, <1>5, <2>1
<1>10. \E S : Nests(c, Tokens[c][N].evs, S)
  <2>1. N \in 0..N  BY <1>0
  <2>2. QED  BY <1>3, <1>7, <2>1
<1>11. QED  BY <1>6, <1>8, <1>9, <1>10

-----------------------------------------------------------------------------
(* The tree.                                                                *)

StFields == {"buf", "finished", "doc", "events_fired", "started_doc", "inc_doc", "open_stack"}

(* The elements open after each event of the whole document.                *)
StackOf(c) == CHOOSE S : Nests(c, Tokens[c][Len(Doc[c])].evs, S)

(* The tree in st is built from the events of the first n marks.            *)
Grown(c, st, n) ==
  /\ st = [x \in StFields |-> st[x]]
  /\ st.inc_doc \in Seq(Ev(c)) /\ Delivers(st.inc_doc, Tokens[c][n].evs)
  /\ st.open_stack = StackOf(c)[Len(st.inc_doc)]

(* Building changes the tree only by what it adds to it.                    *)
Kept(st, b) ==
  /\ \A x \in StFields \ {"inc_doc", "open_stack"} : b[x] = st[x]
  /\ Len(st.inc_doc) <= Len(b.inc_doc)
  /\ \A i \in 1..Len(st.inc_doc) : b.inc_doc[i] = st.inc_doc[i]

LEMMA WholeNests ==
  ASSUME ~Recover, ~NoBlanks, NEW c \in Ctxt
  PROVE  Nests(c, Tokens[c][Len(Doc[c])].evs, StackOf(c))
BY TokensGrow DEF StackOf

(* One event.  The end tag of an element finds that element on top.         *)
LEMMA GrowBuilds ==
  ASSUME ~Recover, ~NoBlanks, NEW c \in Ctxt, NEW n \in 0..Len(Doc[c]), NEW st, Grown(c, st, n),
         NEW j \in 1..Len(Tokens[c][n].evs), Len(st.inc_doc) = j - 1
  PROVE  LET b == Grow(st, Tokens[c][n].evs[j]) IN
         Grown(c, b, n) /\ Kept(st, b) /\ Len(b.inc_doc) = j
<1> DEFINE evs == Tokens[c][n].evs
           all == Tokens[c][Len(Doc[c])].evs
           S   == StackOf(c)
           e   == evs[j]
<1>1. evs \in Seq(Ev(c)) /\ all \in Seq(Ev(c)) /\ Delivers(evs, all)
  <2>1. Len(Doc[c]) \in Nat  BY DocIsSeq
  <2>2. Len(Doc[c]) \in 0..Len(Doc[c])  BY <2>1
  <2>3. QED  BY <2>2, TokensGrow
<1>2. Nests(c, all, S)  BY WholeNests
<1>a. Grown(c, st, n) /\ Len(st.inc_doc) = j - 1  OBVIOUS
<1> HIDE DEF evs, all, S
<1>3. /\ e \in Ev(c) /\ j \in 1..Len(all) /\ Told(e, all[j]) /\ all[j] \in Ev(c)
      /\ j - 1 \in 0..Len(all) /\ j \in 0..Len(all) /\ j \in Nat /\ Len(evs) \in Nat /\ j <= Len(evs)
  <2>1. j \in 1..Len(evs)  BY DEF evs
  <2>2. Len(evs) <= Len(all) /\ Len(all) \in Nat /\ Len(evs) \in Nat  BY <1>1 DEF Delivers
  <2>3. QED  BY <1>1, <2>1, <2>2 DEF Delivers
<1>4. /\ e[1] = all[j][1] /\ e[1] \in {"start", "end", "text", "comment"}
      /\ e[1] # "text" => e = all[j]
  BY <1>3, ToldIsOrder, EventKinds
<1>5. /\ st = [x \in StFields |-> st[x]] /\ st.inc_doc \in Seq(Ev(c)) /\ Delivers(st.inc_doc, evs)
      /\ st.open_stack = S[j - 1]
  BY <1>a DEF Grown, evs, S
<1> DEFINE u == [st EXCEPT !.inc_doc = Append(@, e), !.open_stack = S[j]]
<1>6. Grow(st, e) = u
  <2> HIDE DEF e
  <2>1. CASE e[1] = "start"
    <3>1. Grow(st, e) = [st EXCEPT !.inc_doc = Append(@, e), !.open_stack = Append(@, e[2])]
      BY <2>1 DEF Grow
    <3>2. S[j] = Append(S[j - 1], e[2])  BY <1>2, <1>3, <1>4, <2>1 DEF Nests
    <3>3. QED  BY <1>5, <3>1, <3>2 DEF StFields
  <2>2. CASE e[1] = "end"
    <3>1. S[j - 1] # <<>> /\ e = End(Last(S[j - 1])) /\ S[j] = Front(S[j - 1])
      BY <1>2, <1>3, <1>4, <2>2 DEF Nests
    <3>2. Grow(st, e) = [st EXCEPT !.inc_doc = Append(@, End(Last(st.open_stack))),
                                   !.open_stack = Front(@)]
      BY <1>5, <2>2, <3>1 DEF Grow
    <3>3. QED  BY <1>5, <3>1, <3>2 DEF StFields
  <2>3. CASE e[1] \notin {"start", "end"}
    <3>1. Grow(st, e) = [st EXCEPT !.inc_doc = Append(@, e)]
      BY <2>3 DEF Grow
    <3>2. S[j] = S[j - 1]  BY <1>2, <1>3, <1>4, <2>3 DEF Nests
    <3>3. QED  BY <1>5, <3>1, <3>2 DEF StFields
  <2>4. QED  BY <2>1, <2>2, <2>3
<1>7. /\ u = [x \in StFields |-> u[x]] /\ u.inc_doc = Append(st.inc_doc, e) /\ u.open_stack = S[j]
      /\ \A x \in StFields \ {"inc_doc", "open_stack"} : u[x] = st[x]
  BY <1>5 DEF StFields
<1> HIDE DEF u
<1>8. /\ u.inc_doc \in Seq(Ev(c)) /\ Len(u.inc_doc) = j /\ u.inc_doc[j] = e
      /\ \A i \in 1..j - 1 : u.inc_doc[i] = st.inc_doc[i]
  <2> HIDE DEF e
  <2>1. /\ Append(st.inc_doc, e) \in Seq(Ev(c)) /\ Len(Append(st.inc_doc, e)) = (j - 1) + 1
        /\ Append(st.inc_doc, e)[(j - 1) + 1] = e
        /\ \A i \in 1..j - 1 : Append(st.inc_doc, e)[i] = st.inc_doc[i]
    BY <1>3, <1>5, <1>a
  <2>2. (j - 1) + 1 = j  BY <1>3
  <2>3. QED  BY <1>7, <2>1, <2>2
<1>9. Delivers(u.inc_doc, evs)
  <2>1. \A i \in 1..j - 1 : Told(st.inc_doc[i], evs[i])  BY <1>5, <1>a DEF Delivers
  <2>2. Told(e, evs[j])  BY <1>3, ToldIsOrder
  <2>3. \A i \in 1..j : i \in 1..j - 1 \/ i = j  BY <1>3
  <2>4. \A i \in 1..j : Told(u.inc_doc[i], evs[i])  BY <1>8, <2>1, <2>2, <2>3, Zenon
  <2>5. QED  BY <1>3, <1>8, <2>4 DEF Delivers
<1>10. Grown(c, u, n)  BY <1>7, <1>8, <1>9 DEF Grown, evs, S
<1>11. Kept(st, u)
  <2>1. Len(st.inc_doc) <= Len(u.inc_doc)  BY <1>3, <1>8, <1>a
  <2>2. QED  BY <1>7, <1>8, <1>a, <2>1, Zenon DEF Kept
<1>12. QED  BY <1>6, <1>8, <1>10, <1>11 DEF evs

(* All of the events past the watermark.                                    *)
LEMMA BuildsPrefix ==
  ASSUME ~Recover, ~NoBlanks, NEW c \in Ctxt, NEW n \in 0..Len(Doc[c]), NEW st, Grown(c, st, n),
         st.buf = n, st.events_fired = Len(st.inc_doc)
  PROVE  LET b == build_prefix(c, st) IN
         /\ Grown(c, b, n) /\ Kept(st, b) /\ Len(b.inc_doc) = Len(Tokens[c][n].evs)
         /\ Len(st.inc_doc) <= Len(Tokens[c][n].evs)
<1> DEFINE evs == Tokens[c][n].evs
           ef  == Len(st.inc_doc)
           M   == Len(evs) - ef
           Q   == SubSeq(evs, ef + 1, Len(evs))
<1>1. evs \in Seq(Ev(c)) /\ Len(evs) \in Nat /\ \A i \in 1..Len(evs) : evs[i] \in Ev(c)
  <2>1. evs \in Seq(Ev(c))  BY TokensGrow
  <2> HIDE DEF evs
  <2>2. QED  BY <2>1
<1>2. ef \in Nat /\ ef <= Len(evs)  BY DEF Grown, Delivers
<1>3. build_prefix(c, st) = FoldLeft(Grow, st, Q)  BY DEF build_prefix
<1> HIDE DEF evs, ef
<1>4. M \in Nat /\ ef + M = Len(evs)  BY <1>1, <1>2
<1>5. DOMAIN Q = 1..M /\ \A i \in 1..M : Q[i] = evs[ef + i] /\ ef + i \in 1..Len(evs)
  <2>1. ef + 1 \in Int /\ Len(evs) \in Int /\ \A i \in ef + 1 .. Len(evs) : evs[i] \in Ev(c)
    BY <1>1, <1>2
  <2> PICK lo : lo = ef + 1  OBVIOUS
  <2>2. /\ Q \in Seq(Ev(c)) /\ Len(Q) = IF lo <= Len(evs) THEN Len(evs) - lo + 1 ELSE 0
        /\ \A i \in 1..Len(evs) - lo + 1 : Q[i] = evs[lo + i - 1]
    <3>1. Q = SubSeq(evs, lo, Len(evs)) /\ lo \in Int /\ \A i \in lo .. Len(evs) : evs[i] \in Ev(c)
      BY <2>1
    <3> HIDE DEF Q
    <3>2. QED  BY <2>1, <3>1, SubSeqProperties
  <2> HIDE DEF Q
  <2>3. Len(Q) = M
    <3>1. Len(Q) = IF lo <= Len(evs) THEN Len(evs) - lo + 1 ELSE 0  BY <2>2
    <3>2. lo = ef + 1 /\ M = Len(evs) - ef  OBVIOUS
    <3> HIDE DEF M
    <3>3. QED  BY <1>1, <1>2, <3>1, <3>2
  <2>4. DOMAIN Q = 1..M  BY <2>2, <2>3
  <2>5. \A i \in 1..M : lo + i - 1 = ef + i /\ i \in 1..Len(evs) - lo + 1 /\ ef + i \in 1..Len(evs)
    BY <1>1, <1>2
  <2>6. QED  BY <2>2, <2>4, <2>5
<1> HIDE DEF M, Q
<1>6. PICK r : /\ r[0] = st /\ \A k \in 0..M - 1 : r[k + 1] = Grow(r[k], Q[k + 1])
               /\ FoldLeft(Grow, st, Q) = r[M]
  <2>1. \E r : /\ r[0] = st /\ \A k \in 0..M - 1 : r[k + 1] = Grow(r[k], Q[k + 1])
               /\ FoldLeft(Grow, st, Q) = r[M]
    <3>1. GrowsTo(st, Q, M)  BY <1>4, <1>5, GrowFolds
    <3>2. QED  BY <3>1, Zenon DEF GrowsTo
  <2>2. QED  BY <2>1, Zenon
<1> DEFINE P(b, k) == Grown(c, b, n) /\ Kept(st, b) /\ Len(b.inc_doc) = ef + k
           S == {k \in 0..M : P(r[k], k)}
<1>7. 0 \in S
  <2>1. P(st, 0)  BY <1>2 DEF Kept, ef
  <2>2. QED  BY <1>4, <1>6, <2>1
<1>8. ASSUME NEW m \in 1..M, m - 1 \in S  PROVE m \in S
  <2> PICK k \in 0..M - 1 : k = m - 1  BY <1>4
  <2>1. m = k + 1 /\ k \in Nat /\ P(r[k], k)  BY <1>4, <1>8
  <2> DEFINE j == ef + m
  <2>2. j \in 1..Len(evs) /\ Len(r[k].inc_doc) = j - 1 /\ Q[k + 1] = evs[j]
    BY <1>1, <1>2, <1>4, <1>5, <2>1
  <2>3. r[m] = Grow(r[k], evs[j])  BY <1>6, <2>1, <2>2
  <2> HIDE DEF j
  <2>4. Grown(c, r[m], n) /\ Kept(r[k], r[m]) /\ Len(r[m].inc_doc) = j
    <3>1. j \in 1..Len(Tokens[c][n].evs) /\ r[m] = Grow(r[k], Tokens[c][n].evs[j])
      BY <2>2, <2>3 DEF evs
    <3>2. Grown(c, r[k], n) /\ Len(r[k].inc_doc) = j - 1  BY <2>1, <2>2
    <3> PICK b : b = r[k]  OBVIOUS
    <3>3. Grow(b, Tokens[c][n].evs[j]) = r[m] /\ Grown(c, b, n) /\ Len(b.inc_doc) = j - 1
      BY <3>1, <3>2
    <3>4. LET g == Grow(b, Tokens[c][n].evs[j]) IN
          Grown(c, g, n) /\ Kept(b, g) /\ Len(g.inc_doc) = j
      BY <3>1, <3>3, GrowBuilds
    <3>5. QED  BY <3>3, <3>4
  <2>5. Kept(st, r[m])
    <3>1. Len(st.inc_doc) \in Nat /\ Len(r[k].inc_doc) \in Nat /\ Len(r[m].inc_doc) \in Nat
      BY <1>2, <2>1, <2>2, <2>4 DEF ef
    <3>2. QED  BY <2>1, <2>4, <3>1 DEF Kept
  <2>6. QED  BY <2>4, <2>5 DEF j
<1>9. S \in SUBSET (0..M)  OBVIOUS
<1> HIDE DEF S
<1>10. S = 0..M  BY <1>4, <1>7, <1>8, <1>9, LeastFalse
<1>11. P(r[M], M)  BY <1>4, <1>10 DEF S
<1>12. QED  BY <1>2, <1>3, <1>4, <1>6, <1>11 DEF evs, ef

(* Sequences.                                                               *)
LEMMA ConcatLaws ==
  ASSUME NEW X, NEW a \in Seq(X), NEW b \in Seq(X), NEW d \in Seq(X)
  PROVE  /\ (a \o b) \o d = a \o (b \o d)
         /\ <<>> \o a = a /\ a \o <<>> = a
         /\ a \o b \in Seq(X) /\ Len(a \o b) = Len(a) + Len(b)
<1>1. Len(a) \in Nat /\ Len(b) \in Nat /\ Len(d) \in Nat  OBVIOUS
<1>2. (a \o b) \o d = a \o (b \o d)
  <2> PICK x : x = (a \o b) \o d  OBVIOUS
  <2> PICK y : y = a \o (b \o d)  OBVIOUS
  <2> DEFINE n == Len(a) + Len(b) + Len(d)
  <2>1. x \in Seq(X) /\ y \in Seq(X) /\ Len(x) = n /\ Len(y) = n
    BY <1>1
  <2>2. ASSUME NEW i \in 1..n  PROVE x[i] = y[i]
    BY <1>1
  <2>3. QED  BY <2>1, <2>2
<1>3. QED  BY <1>2

LEMMA SameSeq ==
  ASSUME NEW X, NEW u \in Seq(X), NEW v \in Seq(X), Len(u) = Len(v), \A i \in 1..Len(u) : u[i] = v[i]
  PROVE  u = v
OBVIOUS

LEMMA SplitAt ==
  ASSUME NEW X, NEW s \in Seq(X), NEW t \in Seq(X), Len(s) <= Len(t),
         \A i \in 1..Len(s) : t[i] = s[i]
  PROVE  /\ SubSeq(t, Len(s) + 1, Len(t)) \in Seq(X)
         /\ s \o SubSeq(t, Len(s) + 1, Len(t)) = t
         /\ Len(s) = Len(t) => SubSeq(t, Len(s) + 1, Len(t)) = <<>>
<1> PICK lo : lo = Len(s) + 1  OBVIOUS
<1> PICK n : n = Len(t)  OBVIOUS
<1> PICK u : u = SubSeq(t, lo, n)  OBVIOUS
<1>1. lo \in Nat /\ n \in Nat /\ Len(s) \in Nat /\ lo \in 1..n + 1
  OBVIOUS
<1>2. /\ u \in Seq(X) /\ Len(u) = IF lo <= n THEN n - lo + 1 ELSE 0
      /\ \A i \in 1..n - lo + 1 : u[i] = t[lo + i - 1]
  <2>1. \A i \in lo..n : t[i] \in X  BY <1>1
  <2>2. QED  BY <1>1, <2>1, SubSeqProperties
<1>3. Len(u) = n - Len(s)  BY <1>1, <1>2
<1>4. s \o u \in Seq(X) /\ Len(s \o u) = n  BY <1>1, <1>2, <1>3
<1>5. ASSUME NEW i \in 1..n  PROVE (s \o u)[i] = t[i]
  <2>1. CASE i \in 1..Len(s)  BY <1>1, <1>2, <2>1
  <2>2. CASE i \in lo..n
    <3>1. i - Len(s) \in 1..n - lo + 1 /\ lo + (i - Len(s)) - 1 = i /\ i - Len(s) \in 1..Len(u)
      BY <1>1, <1>3, <2>2
    <3>2. (s \o u)[i] = u[i - Len(s)]  BY <1>1, <1>2, <1>3, <2>2
    <3>3. QED  BY <1>2, <3>1, <3>2
  <2>3. QED  BY <1>1, <2>1, <2>2
<1>6. s \o u = t  BY <1>4, <1>5
<1>7. Len(s) = Len(t) => u = <<>>  BY <1>2, <1>3
<1>8. QED  BY <1>2, <1>6, <1>7

-----------------------------------------------------------------------------
(* What is fired from the tree.                                             *)
LEMMA WalkIs ==
  ASSUME ~Recover, ~NoBlanks, NEW c \in Ctxt, NEW n \in 0..Len(Doc[c]), NEW b, Grown(c, b, n),
         NEW ef \in Nat, ef <= Len(b.inc_doc)
  PROVE  /\ replay_range(b, ef, Len(b.inc_doc) - ef) = SubSeq(b.inc_doc, ef + 1, Len(b.inc_doc))
         /\ Reached(b, ef, Len(b.inc_doc) - ef) = Len(b.inc_doc)
<1> DEFINE inc == b.inc_doc
           all == Tokens[c][Len(Doc[c])].evs
           T == [i \in 1..Len(b.open_stack) |-> End(Reverse(b.open_stack)[i])]
           W == inc \o T
<1>1. inc \in Seq(Ev(c)) /\ Len(inc) \in Nat  BY DEF Grown
<1>2. b.open_stack \in Seq(NamesOf(c))
  <2>1. Len(Doc[c]) \in 0..Len(Doc[c]) /\ n \in 0..Len(Doc[c])  BY DocIsSeq
  <2>2. Delivers(Tokens[c][n].evs, all) /\ all \in Seq(Ev(c)) /\ Tokens[c][n].evs \in Seq(Ev(c))
    BY <2>1, TokensGrow
  <2>3. Len(inc) \in 0..Len(all)
    <3> PICK evs : evs = Tokens[c][n].evs  OBVIOUS
    <3>1. Len(inc) <= Len(evs) /\ Len(evs) <= Len(all)  BY <2>2 DEF Grown, Delivers
    <3> HIDE DEF inc, all
    <3>2. Len(evs) \in Nat /\ Len(all) \in Nat  BY <2>2
    <3>3. QED  BY <1>1, <3>1, <3>2
  <2>4. QED  BY <2>3, WholeNests DEF Nests, Grown
<1>3. T \in Seq(Range(T)) /\ Len(T) \in Nat
  <2>1. Len(b.open_stack) \in Nat  BY <1>2
  <2>2. T \in [1..Len(b.open_stack) -> Range(T)]  BY DEF Range
  <2> HIDE DEF T
  <2>3. QED  BY <2>1, <2>2
<1>4. Walk(b) = W  BY DEF Walk
<1> HIDE DEF T
<1> DEFINE X == Ev(c) \cup Range(T)
<1>5. inc \in Seq(X) /\ T \in Seq(X)  BY <1>1, <1>3
<1> HIDE DEF X, inc
<1>6. W \in Seq(X) /\ Len(W) = Len(inc) + Len(T) /\ \A i \in 1..Len(inc) : W[i] = inc[i]
  BY <1>1, <1>3, <1>5
<1> HIDE DEF W
<1>7. Min({ef + (Len(inc) - ef), Len(W)}) = Len(inc)
  <2>1. ef + (Len(inc) - ef) = Len(inc) /\ Len(inc) <= Len(W) /\ Len(W) \in Nat
    BY <1>1, <1>3, <1>6
  <2>2. \A x \in {Len(inc), Len(W)} : Len(inc) <= x  BY <1>1, <2>1
  <2>3. ASSUME NEW x \in {Len(inc), Len(W)}, \A y \in {Len(inc), Len(W)} : x <= y  PROVE x = Len(inc)
    <3>1. x <= Len(inc) /\ Len(inc) <= x /\ x \in Nat  BY <1>1, <2>1, <2>2, <2>3
    <3>2. QED  BY <1>1, <3>1
  <2>4. QED  BY <2>1, <2>2, <2>3 DEF Min
<1>8. SubSeq(W, ef + 1, Len(inc)) = SubSeq(inc, ef + 1, Len(inc))
  <2> PICK lo : lo = ef + 1  OBVIOUS
  <2> PICK m : m = Len(inc)  OBVIOUS
  <2> PICK u : u = SubSeq(W, lo, m)  OBVIOUS
  <2> PICK v : v = SubSeq(inc, lo, m)  OBVIOUS
  <2>1. lo \in Nat /\ lo \in 1..m + 1 /\ m \in Nat /\ ef <= m  BY <1>1 DEF inc
  <2>2. \A i \in lo..m : W[i] \in X /\ inc[i] \in X /\ W[i] = inc[i]
    BY <1>5, <1>6, <2>1
  <2>3. /\ u \in Seq(X) /\ Len(u) = IF lo <= m THEN m - lo + 1 ELSE 0
        /\ \A i \in 1..m - lo + 1 : u[i] = W[lo + i - 1]
    BY <1>6, <2>1, <2>2, SubSeqProperties
  <2>4. /\ v \in Seq(X) /\ Len(v) = IF lo <= m THEN m - lo + 1 ELSE 0
        /\ \A i \in 1..m - lo + 1 : v[i] = inc[lo + i - 1]
    BY <1>5, <2>1, <2>2, SubSeqProperties
  <2>5. \A i \in 1..m - lo + 1 : lo + i - 1 \in lo..m  BY <2>1
  <2>6. \A i \in 1..m - lo + 1 : u[i] = v[i]  BY <2>2, <2>3, <2>4, <2>5
  <2>7. Len(u) = Len(v) /\ (Len(u) = m - lo + 1)  BY <2>1, <2>3, <2>4
  <2>8. u = v
    <3> PICK k : k = m - lo + 1  OBVIOUS
    <3>1. u \in Seq(X) /\ v \in Seq(X) /\ Len(u) = k /\ Len(v) = k /\ \A i \in 1..k : u[i] = v[i]
      BY <2>3, <2>4, <2>6, <2>7
    <3>2. QED  BY <3>1, SameSeq
  <2>9. QED  BY <2>8
<1>9. QED  BY <1>4, <1>7, <1>8 DEF replay_range, Reached, inc

(* What a consumer can be told.                                             *)
SEv(c) == Ev(c) \cup {StartDocument, EndDocument}

Whole(c, n) == EventsOf(c, n) \o <<EndDocument>>

Shown(st) == (IF st.started_doc THEN <<StartDocument>> ELSE <<>>)
                \o st.inc_doc \o (IF st.doc THEN <<EndDocument>> ELSE <<>>)

(* The state st of c, whose consumer fed n marks and was told, or will be by *)
(* the call under way, the events f.                                        *)
StateOK(c, st, n, f) ==
  /\ n \in 0..Len(Doc[c]) /\ f \in Seq(SEv(c))
  /\ st = [x \in StFields |-> st[x]]
  /\ st.buf \in Nat /\ st.finished \in BOOLEAN /\ st.doc \in BOOLEAN /\ st.started_doc \in BOOLEAN
  /\ ~st.finished => ~st.doc /\ n = st.buf
  /\ st.doc => cleanEof(c, n)
  /\ Kind[c] = "event" /\ (st.doc \/ ~st.finished) =>
        /\ Grown(c, st, n) /\ st.events_fired = Len(st.inc_doc)
        /\ f = Shown(st) /\ (st.inc_doc # <<>> => st.started_doc)
        /\ st.doc => st.started_doc /\ Len(st.inc_doc) = Len(Tokens[c][n].evs)
  /\ Kind[c] # "event" /\ ~st.finished => f = <<>>
  /\ Kind[c] # "event" /\ st.doc => f = IF Kind[c] = "plain" THEN <<>> ELSE Whole(c, n)
  /\ st.finished /\ ~st.doc => Delivers(f, EventsOf(c, n))

(* Position by position, and nothing after endDocument.                     *)
Orderly(c, f) ==
  LET all == EventsOf(c, Len(Doc[c])) IN
  \A i \in 1..Len(f) : \/ i <= Len(all) /\ Told(f[i], all[i])
                       \/ i = Len(f) /\ f[i] = EndDocument

LEMMA SaidIsOrder ==
  ASSUME NEW c
  PROVE  /\ \A e \in SEv(c) : Told(e, e)
         /\ \A e, f, g \in SEv(c) : Told(e, f) /\ Told(f, g) => Told(e, g)
         /\ \A e \in SEv(c) : Told(e, EndDocument) => e = EndDocument
         /\ \A e \in SEv(c), f \in Ev(c) : Told(e, f) \/ Told(e, StartDocument) => e # EndDocument
<1>1. \A e \in SEv(c) : e[1] = "text" => e[2] \in Nat  BY EventKinds, EventsAre DEF SEv
<1>2. EndDocument[1] = "endDocument" /\ StartDocument[1] = "startDocument"  BY EventsAre
<1>3. \A e \in Ev(c) : e # EndDocument  BY <1>2, EventKinds
<1>4. \A e \in SEv(c) : Told(e, EndDocument) => e = EndDocument  BY <1>2 DEF Told, IsText
<1>5. \A e \in SEv(c) : Told(e, StartDocument) => e # EndDocument  BY <1>2 DEF Told, IsText
<1>6. \A e \in SEv(c), f \in Ev(c) : Told(e, f) => e # EndDocument
  BY <1>2, <1>3 DEF Told, IsText
<1>7. \A e \in SEv(c) : Told(e, e)  BY <1>1 DEF Told, IsText
<1>8. \A e, f, g \in SEv(c) : Told(e, f) /\ Told(f, g) => Told(e, g)
  BY <1>1 DEF Told, IsText
<1>9. QED  BY <1>4, <1>5, <1>6, <1>7, <1>8

LEMMA OneMore ==
  ASSUME NEW X, NEW s \in Seq(X), NEW e \in X
  PROVE  /\ Append(s, e) \in Seq(X) /\ Len(Append(s, e)) = Len(s) + 1
         /\ \A i \in 1..Len(s) : Append(s, e)[i] = s[i]
         /\ Append(s, e)[Len(s) + 1] = e
OBVIOUS

LEMMA BetweenIs ==
  ASSUME NEW c, NEW evs \in Seq(Ev(c))
  PROVE  LET all == <<StartDocument>> \o evs
             w   == all \o <<EndDocument>>
         IN  /\ Len(evs) \in Nat /\ all \in Seq(SEv(c)) /\ Len(all) = Len(evs) + 1
             /\ all[1] = StartDocument
             /\ \A i \in 1..Len(evs) : all[i + 1] = evs[i]
             /\ w \in Seq(SEv(c)) /\ Len(w) = Len(evs) + 2
             /\ \A i \in 1..Len(evs) + 1 : w[i] = all[i]
             /\ w[Len(evs) + 2] = EndDocument
<1> PICK s : s = StartDocument  OBVIOUS
<1> PICK e : e = EndDocument  OBVIOUS
<1> PICK all : all = <<s>> \o evs  OBVIOUS
<1> PICK w : w = all \o <<e>>  OBVIOUS
<1>1. Len(evs) \in Nat  OBVIOUS
<1>2. evs \in Seq(SEv(c)) /\ s \in SEv(c) /\ e \in SEv(c)
  <2>1. \A x \in Ev(c) : x \in SEv(c)  BY DEF SEv
  <2>2. QED  BY <1>1, <2>1 DEF SEv
<1>4. /\ all \in Seq(SEv(c)) /\ Len(all) = Len(evs) + 1 /\ all[1] = s
      /\ \A i \in 1..Len(evs) : all[i + 1] = evs[i]
  BY <1>1, <1>2
<1>5. /\ w \in Seq(SEv(c)) /\ Len(w) = Len(evs) + 2
      /\ \A i \in 1..Len(evs) + 1 : w[i] = all[i]
      /\ w[Len(evs) + 2] = e
  <2>1. w = all \o <<e>> /\ all \in Seq(SEv(c)) /\ Len(all) = Len(evs) + 1 /\ Len(evs) \in Nat
    BY <1>1, <1>4
  <2>2. /\ w \in Seq(SEv(c)) /\ Len(w) = Len(all) + 1 /\ w[Len(all) + 1] = e
        /\ \A i \in 1..Len(all) : w[i] = all[i]
    <3>1. \A q \in SEv(c) : Append(all, q) = all \o <<q>>  BY <2>1
    <3>2. w = Append(all, e)  BY <1>2, <2>1, <3>1
    <3>3. all \in Seq(SEv(c)) /\ e \in SEv(c)  BY <1>2, <2>1
    <3>4. QED  BY <3>2, <3>3, OneMore
  <2>3. Len(all) + 1 = Len(evs) + 2  BY <2>1
  <2>4. QED  BY <2>1, <2>2, <2>3
<1>6. QED  BY <1>1, <1>4, <1>5

LEMMA WholeIs ==
  ASSUME ~Recover, ~NoBlanks, NEW c \in Ctxt, NEW n \in 0..Len(Doc[c])
  PROVE  LET evs == Tokens[c][n].evs IN
         /\ evs \in Seq(Ev(c)) /\ Len(evs) \in Nat
         /\ EventsOf(c, n) \in Seq(SEv(c)) /\ Len(EventsOf(c, n)) = Len(evs) + 1
         /\ EventsOf(c, n)[1] = StartDocument
         /\ \A i \in 1..Len(evs) : EventsOf(c, n)[i + 1] = evs[i]
         /\ Whole(c, n) \in Seq(SEv(c)) /\ Len(Whole(c, n)) = Len(evs) + 2
         /\ \A i \in 1..Len(evs) + 1 : Whole(c, n)[i] = EventsOf(c, n)[i]
         /\ Whole(c, n)[Len(evs) + 2] = EndDocument
<1> PICK evs : evs = Tokens[c][n].evs  OBVIOUS
<1>1. evs \in Seq(Ev(c))
  <2>1. Tokens[c][n].evs \in Seq(Ev(c))  BY TokensGrow
  <2>2. QED  BY <2>1
<1>2. EventsOf(c, n) = <<StartDocument>> \o evs
      /\ Whole(c, n) = (<<StartDocument>> \o evs) \o <<EndDocument>>
  BY DEF EventsOf, Whole
<1>3. QED  BY <1>1, <1>2, BetweenIs

(* The events of a prefix are told by those of the whole document.          *)
LEMMA WholeGrows ==
  ASSUME ~Recover, ~NoBlanks, NEW c \in Ctxt, NEW m \in 0..Len(Doc[c]), NEW n \in 0..m
  PROVE  /\ Delivers(EventsOf(c, n), EventsOf(c, m)) /\ Delivers(Tokens[c][n].evs, Tokens[c][m].evs)
         /\ n \in 0..Len(Doc[c])
<1> PICK x : x = EventsOf(c, n)  OBVIOUS
<1> PICK y : y = EventsOf(c, m)  OBVIOUS
<1> PICK a : a = Tokens[c][n].evs  OBVIOUS
<1> PICK b : b = Tokens[c][m].evs  OBVIOUS
<1>1. n \in 0..Len(Doc[c])
  BY DocIsSeq
<1>2. Delivers(a, b)  BY TokensGrow
<1>3. /\ Len(a) \in Nat /\ Len(b) \in Nat /\ Len(x) = Len(a) + 1 /\ Len(y) = Len(b) + 1
      /\ x[1] = StartDocument /\ y[1] = StartDocument
      /\ \A i \in 1..Len(a) : x[i + 1] = a[i]
      /\ \A i \in 1..Len(b) : y[i + 1] = b[i]
  BY <1>1, WholeIs
<1>4. Len(a) <= Len(b) /\ \A i \in 1..Len(a) : Told(a[i], b[i])  BY <1>2 DEF Delivers
<1>5. ASSUME NEW i \in 1..Len(a) + 1  PROVE Told(x[i], y[i])
  <2>1. CASE i = 1
    <3>1. Told(StartDocument, StartDocument)  BY SaidIsOrder DEF SEv
    <3>2. QED  BY <1>3, <2>1, <3>1
  <2>2. CASE i # 1
    <3> PICK j \in 1..Len(a) : i = j + 1
      <4>1. i - 1 \in 1..Len(a) /\ i = (i - 1) + 1  BY <1>3, <2>2
      <4>2. QED  BY <4>1
    <3>1. j \in 1..Len(b)  BY <1>3, <1>4
    <3>2. x[i] = a[j] /\ y[i] = b[j]  BY <1>3, <3>1
    <3>3. QED  BY <1>4, <3>2
  <2>3. QED  BY <2>1, <2>2
<1>6. Len(x) <= Len(y)  BY <1>3, <1>4
<1>7. Delivers(x, y)  BY <1>3, <1>5, <1>6 DEF Delivers
<1>8. QED  BY <1>1, <1>2, <1>7

LEMMA DeliveredIsOrderly ==
  ASSUME ~Recover, ~NoBlanks, NEW c \in Ctxt, NEW n \in 0..Len(Doc[c]), NEW f \in Seq(SEv(c)),
         Delivers(f, Whole(c, n))
  PROVE  Orderly(c, f)
<1> DEFINE m == Len(Doc[c])
<1> PICK x : x = EventsOf(c, n)  OBVIOUS
<1> PICK y : y = EventsOf(c, m)  OBVIOUS
<1> PICK w : w = Whole(c, n)  OBVIOUS
<1>1. m \in 0..Len(Doc[c]) /\ m \in Nat /\ n \in 0..m  BY DocIsSeq
<1>2. Delivers(x, y)  BY <1>1, WholeGrows
<1>3. Len(x) <= Len(y) /\ \A i \in 1..Len(x) : Told(x[i], y[i])  BY <1>2 DEF Delivers
<1>4. x \in Seq(SEv(c)) /\ y \in Seq(SEv(c)) /\ Len(w) = Len(x) + 1
      /\ (\A i \in 1..Len(x) : w[i] = x[i]) /\ w[Len(x) + 1] = EndDocument
  <2> PICK k : k = Len(Tokens[c][n].evs)  OBVIOUS
  <2>1. /\ k \in Nat /\ x \in Seq(SEv(c)) /\ Len(x) = k + 1 /\ Len(w) = k + 2
        /\ (\A i \in 1..k + 1 : w[i] = x[i]) /\ w[k + 2] = EndDocument
    BY WholeIs
  <2>2. y \in Seq(SEv(c))  BY <1>1, WholeIs
  <2>3. k + 2 = (k + 1) + 1  BY <2>1
  <2>4. QED  BY <2>1, <2>2, <2>3
<1>5. /\ Len(f) \in Nat /\ Len(x) \in Nat /\ Len(y) \in Nat /\ \A i \in 1..Len(f) : f[i] \in SEv(c)
      /\ \A i \in 1..Len(x) : x[i] \in SEv(c)
      /\ \A i \in 1..Len(y) : y[i] \in SEv(c)
  BY <1>4
<1>6. Len(f) <= Len(w) /\ \A i \in 1..Len(f) : Told(f[i], w[i])  BY DEF Delivers
<1>7. ASSUME NEW i \in 1..Len(f)
      PROVE  \/ i <= Len(y) /\ Told(f[i], y[i])
             \/ i = Len(f) /\ f[i] = EndDocument
  <2>1. CASE i \in 1..Len(x)
    <3>1. i \in 1..Len(y) /\ i <= Len(y)  BY <1>3, <1>5, <2>1
    <3>2. Told(f[i], x[i]) /\ Told(x[i], y[i])  BY <1>3, <1>4, <1>6, <2>1
    <3>3. Told(f[i], y[i])  BY <1>5, <2>1, <3>1, <3>2, SaidIsOrder
    <3>4. QED  BY <3>1, <3>3
  <2>2. CASE i = Len(x) + 1
    <3>1. i = Len(f)  BY <1>4, <1>5, <1>6, <2>2
    <3>2. Told(f[i], EndDocument)  BY <1>4, <1>6, <2>2
    <3>3. QED  BY <1>5, <3>1, <3>2, SaidIsOrder
  <2>3. QED  BY <1>4, <1>5, <1>6, <2>1, <2>2
<1>8. QED  BY <1>7 DEF Orderly

-----------------------------------------------------------------------------
(* What was told, and the order it comes in.                                *)

LEMMA EmptyDelivers == \A all : Len(all) \in Nat => Delivers(<<>>, all)
BY DEF Delivers

(* What the tree holds of the first n marks, between the two ends.          *)
LEMMA BetweenDelivers ==
  ASSUME ~Recover, ~NoBlanks, NEW c \in Ctxt, NEW n \in 0..Len(Doc[c]), NEW inc \in Seq(Ev(c)),
         Delivers(inc, Tokens[c][n].evs)
  PROVE  LET f == <<StartDocument>> \o inc IN
         /\ Delivers(f, EventsOf(c, n)) /\ Delivers(f, Whole(c, n))
         /\ Len(inc) = Len(Tokens[c][n].evs) => Delivers(f \o <<EndDocument>>, Whole(c, n))
<1> PICK evs : evs = Tokens[c][n].evs  OBVIOUS
<1> PICK x : x = EventsOf(c, n)  OBVIOUS
<1> PICK w : w = Whole(c, n)  OBVIOUS
<1> PICK f : f = <<StartDocument>> \o inc  OBVIOUS
<1> PICK g : g = f \o <<EndDocument>>  OBVIOUS
<1>1. /\ Len(evs) \in Nat /\ Len(x) = Len(evs) + 1 /\ x[1] = StartDocument
      /\ \A i \in 1..Len(evs) : x[i + 1] = evs[i]
      /\ Len(w) = Len(evs) + 2 /\ (\A i \in 1..Len(evs) + 1 : w[i] = x[i])
      /\ w[Len(evs) + 2] = EndDocument
  BY WholeIs
<1>2. /\ Len(inc) \in Nat /\ Len(f) = Len(inc) + 1 /\ f[1] = StartDocument
      /\ \A i \in 1..Len(inc) : f[i + 1] = inc[i]
      /\ Len(g) = Len(inc) + 2 /\ (\A i \in 1..Len(inc) + 1 : g[i] = f[i])
      /\ g[Len(inc) + 2] = EndDocument
  BY BetweenIs
<1>3. Len(inc) <= Len(evs) /\ \A i \in 1..Len(inc) : Told(inc[i], evs[i])  BY DEF Delivers
<1>4. Told(StartDocument, StartDocument) /\ Told(EndDocument, EndDocument)
  BY SaidIsOrder DEF SEv
<1>5. ASSUME NEW i \in 1..Len(inc) + 1  PROVE Told(f[i], x[i]) /\ i \in 1..Len(evs) + 1
  <2>1. CASE i = 1  BY <1>1, <1>2, <1>4, <2>1
  <2>2. CASE i # 1
    <3> PICK j \in 1..Len(inc) : i = j + 1
      <4>1. i - 1 \in 1..Len(inc) /\ i = (i - 1) + 1  BY <1>2, <2>2
      <4>2. QED  BY <4>1
    <3>1. j \in 1..Len(evs)  BY <1>1, <1>2, <1>3
    <3>2. f[i] = inc[j] /\ x[i] = evs[j]  BY <1>1, <1>2, <3>1
    <3>3. Told(f[i], x[i])  BY <1>3, <3>2
    <3>4. i \in 1..Len(evs) + 1  BY <1>1, <3>1
    <3>5. QED  BY <3>3, <3>4
  <2>3. QED  BY <2>1, <2>2
<1>6. Len(f) <= Len(x) /\ Len(f) <= Len(w)  BY <1>1, <1>2, <1>3
<1>7. Delivers(f, x)  BY <1>2, <1>5, <1>6 DEF Delivers
<1>8. Delivers(f, w)  BY <1>1, <1>2, <1>5, <1>6 DEF Delivers
<1>9. ASSUME Len(inc) = Len(evs)  PROVE Delivers(g, w)
  <2>1. ASSUME NEW i \in 1..Len(g)  PROVE Told(g[i], w[i])
    <3>1. CASE i \in 1..Len(inc) + 1  BY <1>1, <1>2, <1>5, <3>1
    <3>2. CASE i = Len(inc) + 2  BY <1>1, <1>2, <1>4, <1>9, <3>2
    <3>3. i \in 1..Len(inc) + 1 \/ i = Len(inc) + 2
      <4>1. Len(inc) \in Nat /\ Len(g) = Len(inc) + 2  BY <1>2
      <4>2. QED  BY <4>1
    <3>4. QED  BY <3>1, <3>2, <3>3
  <2>2. Len(g) <= Len(w)  BY <1>1, <1>2, <1>9
  <2>3. QED  BY <2>1, <2>2 DEF Delivers
<1>10. QED  BY <1>7, <1>8, <1>9

(* What has been fired of a state, at any moment, is in order.              *)
LEMMA StateDelivers ==
  ASSUME ~Recover, ~NoBlanks, NEW c \in Ctxt, NEW st, NEW n, NEW f, StateOK(c, st, n, f)
  PROVE  Delivers(f, Whole(c, n)) /\ Orderly(c, f)
<1>1. n \in 0..Len(Doc[c]) /\ f \in Seq(SEv(c)) /\ st.doc \in BOOLEAN /\ st.finished \in BOOLEAN
      /\ st.started_doc \in BOOLEAN
  BY DEF StateOK
<1> SUFFICES Delivers(f, Whole(c, n))  BY <1>1, DeliveredIsOrderly
<1>w. Len(Whole(c, n)) \in Nat /\ Whole(c, n) \in Seq(SEv(c)) /\ EventsOf(c, n) \in Seq(SEv(c))
  BY <1>1, WholeIs
<1>0. f = <<>> => Delivers(f, Whole(c, n))  BY <1>w, EmptyDelivers
<1>2. CASE Kind[c] = "event" /\ (st.doc \/ ~st.finished)
  <2> PICK inc : inc = st.inc_doc  OBVIOUS
  <2>1. /\ inc \in Seq(Ev(c)) /\ Delivers(inc, Tokens[c][n].evs) /\ f = Shown(st)
        /\ inc # <<>> => st.started_doc
        /\ st.doc => st.started_doc /\ Len(inc) = Len(Tokens[c][n].evs)
    BY <1>2 DEF StateOK, Grown
  <2>2. <<StartDocument>> \o inc \in Seq(SEv(c))  BY <2>1, BetweenIs
  <2>3. \A a \in Seq(SEv(c)) : a \o <<>> = a  BY ConcatLaws
  <2>4. CASE ~st.started_doc
    <3>1. inc = <<>> /\ ~st.doc  BY <2>1, <2>4
    <3>2. f = <<>> \o <<>> \o <<>>  BY <2>1, <2>4, <3>1 DEF Shown
    <3>3. <<>> \o <<>> \o <<>> = <<>>  BY ConcatLaws
    <3>4. QED  BY <1>0, <3>2, <3>3
  <2>5. CASE st.started_doc /\ ~st.doc
    <3>1. f = <<StartDocument>> \o inc \o <<>>  BY <2>1, <2>5 DEF Shown
    <3>2. f = <<StartDocument>> \o inc  BY <2>2, <2>3, <3>1
    <3>3. QED  BY <1>1, <2>1, <3>2, BetweenDelivers
  <2>6. CASE st.doc
    <3>1. f = <<StartDocument>> \o inc \o <<EndDocument>>  BY <2>1, <2>6 DEF Shown
    <3>2. QED  BY <1>1, <2>1, <2>6, <3>1, BetweenDelivers
  <2>7. QED  BY <1>1, <2>4, <2>5, <2>6
<1>3. CASE Kind[c] # "event" /\ ~st.finished
  BY <1>0, <1>3 DEF StateOK
<1>4. CASE Kind[c] # "event" /\ st.doc
  <2>1. f = <<>> \/ f = Whole(c, n)  BY <1>4 DEF StateOK
  <2>2. Delivers(Whole(c, n), Whole(c, n))
    <3> PICK w : w = Whole(c, n)  OBVIOUS
    <3>1. Len(w) \in Nat /\ \A i \in 1..Len(w) : w[i] \in SEv(c)  BY <1>w
    <3>2. Delivers(w, w)  BY <3>1, SaidIsOrder DEF Delivers
    <3>3. QED  BY <3>2
  <2>3. QED  BY <1>0, <2>1, <2>2
<1>5. CASE st.finished /\ ~st.doc
  <2> PICK x : x = EventsOf(c, n)  OBVIOUS
  <2> PICK w : w = Whole(c, n)  OBVIOUS
  <2>1. Len(f) <= Len(x) /\ \A i \in 1..Len(f) : Told(f[i], x[i])
    BY <1>5 DEF StateOK, Delivers
  <2> PICK k : k = Len(Tokens[c][n].evs)  OBVIOUS
  <2>2. k \in Nat /\ Len(x) = k + 1 /\ Len(w) = k + 2 /\ \A i \in 1..k + 1 : w[i] = x[i]
    BY <1>1, WholeIs
  <2>3. Len(f) \in Nat  BY <1>1
  <2>4. Len(f) <= Len(w) /\ \A i \in 1..Len(f) : i \in 1..k + 1  BY <2>1, <2>2, <2>3
  <2>5. Delivers(f, w)  BY <2>1, <2>2, <2>4 DEF Delivers
  <2>6. QED  BY <2>5
<1>6. QED  BY <1>1, <1>2, <1>3, <1>4, <1>5

LEMMA OrderlyInOrder ==
  ASSUME ~Recover, ~NoBlanks, NEW c \in Ctxt, NEW f \in Seq(SEv(c)), Orderly(c, f)
  PROVE  Delivers(WithoutEnd(f), EventsOf(c, Len(Doc[c])))
<1> PICK all : all = EventsOf(c, Len(Doc[c]))  OBVIOUS
<1> PICK k : k = Len(all)  OBVIOUS
<1> PICK n : n = Len(f)  OBVIOUS
<1>1. k \in Nat /\ n \in Nat /\ \A i \in 1..k : all[i] \in SEv(c) /\ all[i] # EndDocument
  <2>1. Len(Doc[c]) \in 0..Len(Doc[c])  BY DocIsSeq
  <2> PICK evs : evs = Tokens[c][Len(Doc[c])].evs  OBVIOUS
  <2>2. /\ evs \in Seq(Ev(c)) /\ Len(evs) \in Nat /\ all \in Seq(SEv(c)) /\ k = Len(evs) + 1
        /\ all[1] = StartDocument /\ \A i \in 1..Len(evs) : all[i + 1] = evs[i]
    BY <2>1, WholeIs
  <2>3. StartDocument # EndDocument /\ \A e \in Ev(c) : e # EndDocument
    BY EventsAre, EventKinds
  <2>4. ASSUME NEW i \in 1..k  PROVE all[i] # EndDocument
    <3>1. CASE i = 1  BY <2>2, <2>3, <3>1
    <3>2. CASE i # 1
      <4>1. PICK j \in 1..Len(evs) : j + 1 = i
        <5>1. i - 1 \in 1..Len(evs) /\ (i - 1) + 1 = i  BY <2>2, <3>2
        <5>2. QED  BY <5>1
      <4>2. all[i] = evs[j]  BY <2>2, <4>1
      <4>3. evs[j] \in Ev(c)  BY <2>2
      <4>4. QED  BY <2>3, <4>2, <4>3
    <3>3. QED  BY <3>1, <3>2
  <2>5. \A s \in Seq(SEv(c)) : Len(s) \in Nat /\ \A i \in 1..Len(s) : s[i] \in SEv(c)  OBVIOUS
  <2>a. k \in Nat /\ \A i \in 1..k : all[i] \in SEv(c)  BY <2>2, <2>5
  <2>b. n \in Nat  BY <2>5
  <2>6. QED  BY <2>4, <2>a, <2>b
<1>2. \A i \in 1..n : \/ i <= k /\ Told(f[i], all[i])
                      \/ i = n /\ f[i] = EndDocument
  BY DEF Orderly
<1>3. n > 0 => Last(f) = f[n]  BY DEF Last
<1>4. CASE f # <<>> /\ Last(f) = EndDocument
  <2> PICK m : m = n - 1  OBVIOUS
  <2>1. n > 0 /\ m \in Nat /\ n = m + 1  BY <1>1, <1>4
  <2>2. WithoutEnd(f) = Front(f)  BY <1>4 DEF WithoutEnd
  <2>3. Len(Front(f)) = m /\ \A i \in 1..m : Front(f)[i] = f[i]
    BY <1>4, FrontOfSeq
  <2>4. \A i \in 1..m : i <= k /\ Told(f[i], all[i])  BY <1>1, <1>2, <2>1
  <2>5. m <= k  BY <1>1, <2>1, <2>4
  <2>6. QED  BY <2>2, <2>3, <2>4, <2>5 DEF Delivers
<1>5. CASE ~(f # <<>> /\ Last(f) = EndDocument)
  <2>1. WithoutEnd(f) = f  BY <1>5 DEF WithoutEnd
  <2>2. \A i \in 1..n : i <= k /\ Told(f[i], all[i])
    <3>1. n > 0 => f[n] # EndDocument  BY <1>3, <1>5
    <3>2. QED  BY <1>1, <1>2, <3>1
  <2>3. n <= k
    <3>1. n = 0 \/ n \in 1..n  BY <1>1
    <3>2. QED  BY <1>1, <2>2, <3>1
  <2>4. QED  BY <2>1, <2>2, <2>3 DEF Delivers
<1>6. QED  BY <1>4, <1>5

LEMMA OrderlyStart ==
  ASSUME NEW c, NEW a, NEW f, Len(a) \in Nat, Len(f) \in Nat, Len(a) <= Len(f),
         \A i \in 1..Len(a) : a[i] = f[i], Orderly(c, f)
  PROVE  Orderly(c, a)
<1> PICK all : all = EventsOf(c, Len(Doc[c]))  OBVIOUS
<1>1. \A i \in 1..Len(f) : \/ i <= Len(all) /\ Told(f[i], all[i])
                           \/ i = Len(f) /\ f[i] = EndDocument
  BY DEF Orderly
<1>2. ASSUME NEW i \in 1..Len(a)
      PROVE  \/ i <= Len(all) /\ Told(a[i], all[i])
             \/ i = Len(a) /\ a[i] = EndDocument
  <2>1. i \in 1..Len(f) /\ a[i] = f[i]  OBVIOUS
  <2>2. i = Len(f) => i = Len(a)  OBVIOUS
  <2>3. QED  BY <1>1, <2>1, <2>2, Zenon
<1>3. QED  BY <1>2 DEF Orderly

(* More marks in the buffer: what was told of the ones before stands.       *)
LEMMA Feeds ==
  ASSUME ~Recover, ~NoBlanks, NEW c \in Ctxt, NEW st, NEW n, NEW f, StateOK(c, st, n, f),
         NEW k \in Nat, NEW u, u = [st EXCEPT !.buf = @ + k], u.buf <= Len(Doc[c]),
         NEW m, m = IF st.finished THEN n ELSE u.buf
  PROVE  StateOK(c, u, m, f) /\ m \in 0..Len(Doc[c])
<1>0. /\ st = [x \in StFields |-> st[x]] /\ st.buf \in Nat /\ n \in 0..Len(Doc[c])
      /\ st.finished \in BOOLEAN /\ st.doc \in BOOLEAN /\ (~st.finished => ~st.doc /\ n = st.buf)
  BY DEF StateOK
<1>1. /\ u = [x \in StFields |-> u[x]] /\ u.buf = st.buf + k
      /\ \A x \in StFields \ {"buf"} : u[x] = st[x]
  <2>1. u = [st EXCEPT !.buf = st.buf + k] /\ st = [x \in StFields |-> st[x]]  BY <1>0
  <2>2. "buf" \in StFields  BY DEF StFields
  <2>3. QED  BY <2>1, <2>2, Zenon
<1>2. /\ u.finished = st.finished /\ u.doc = st.doc /\ u.events_fired = st.events_fired
      /\ u.started_doc = st.started_doc /\ u.inc_doc = st.inc_doc /\ u.open_stack = st.open_stack
  BY <1>1 DEF StFields
<1>3. u.buf \in Nat /\ m \in 0..Len(Doc[c]) /\ n \in 0..m
  <2>1. Len(Doc[c]) \in Nat  BY DocIsSeq
  <2>2. u.buf \in 0..Len(Doc[c]) /\ st.buf <= u.buf  BY <1>0, <1>1, <2>1
  <2>3. QED  BY <1>0, <2>1, <2>2
<1>4. CASE st.finished
  <2>1. m = n  BY <1>4
  <2>2. Grown(c, st, n) => Grown(c, u, n)  BY <1>1, <1>2 DEF Grown
  <2>3. Shown(u) = Shown(st)  BY <1>2 DEF Shown
  <2>4. StateOK(c, u, n, f)
    <3>1. StateOK(c, st, n, f)  OBVIOUS
    <3>2. QED  BY <1>1, <1>2, <1>3, <1>4, <2>2, <2>3, <3>1, Zenon DEF StateOK
  <2>5. QED  BY <1>3, <2>1, <2>4
<1>5. CASE ~st.finished
  <2>1. m = u.buf /\ ~st.doc  BY <1>0, <1>5
  <2>2. Delivers(Tokens[c][n].evs, Tokens[c][m].evs) /\ Tokens[c][m].evs \in Seq(Ev(c))
        /\ Tokens[c][n].evs \in Seq(Ev(c))
    BY <1>0, <1>3, WholeGrows, WholeIs
  <2>3. Grown(c, st, n) => Grown(c, u, m)
    <3>1. SUFFICES ASSUME Grown(c, st, n) PROVE Grown(c, u, m)  OBVIOUS
    <3>2. st.inc_doc \in Seq(Ev(c)) /\ Delivers(st.inc_doc, Tokens[c][n].evs)  BY <3>1 DEF Grown
    <3>3. Delivers(st.inc_doc, Tokens[c][m].evs)  BY <2>2, <3>2, DeliversIsOrder
    <3>4. QED  BY <1>1, <1>2, <3>1, <3>2, <3>3 DEF Grown
  <2>4. Shown(u) = Shown(st)  BY <1>2 DEF Shown
  <2>5. StateOK(c, u, m, f)
    <3>1. StateOK(c, st, n, f)  OBVIOUS
    <3>2. QED  BY <1>1, <1>2, <1>3, <1>5, <2>1, <2>3, <2>4, <3>1, Zenon DEF StateOK
  <2>6. QED  BY <1>3, <2>5
<1>6. QED  BY <1>0, <1>4, <1>5

-----------------------------------------------------------------------------
(* What a call parses is built, and what it builds is told, after what was  *)
(* told before.                                                             *)
Builds(c, st, n, f, b, N, ef, q) ==
  /\ b = build_prefix(c, st) /\ N = Len(Tokens[c][n].evs) /\ ef = st.events_fired
  /\ q = (IF st.started_doc THEN <<>> ELSE <<StartDocument>>) \o replay_range(b, ef, N - ef)
  /\ Grown(c, b, n) /\ Len(b.inc_doc) = N
  /\ N \in Nat /\ ef \in 0..N /\ st.buf = n
  /\ \A x \in StFields \ {"inc_doc", "open_stack"} : b[x] = st[x]
  /\ Reached(b, ef, N - ef) = N
  /\ q \in Seq(SEv(c)) /\ f \o q = <<StartDocument>> \o b.inc_doc
  /\ N = ef => b.inc_doc = st.inc_doc

LEMMA BuiltIsTold ==
  ASSUME ~Recover, ~NoBlanks, NEW c \in Ctxt, NEW st, NEW n, NEW f, StateOK(c, st, n, f),
         Kind[c] = "event", ~st.finished
  PROVE  \E b, N, ef, q : Builds(c, st, n, f, b, N, ef, q)
<1>a. PICK b, N, ef, more, inc, z, p :
        /\ b = build_prefix(c, st) /\ N = Len(Tokens[c][n].evs) /\ ef = st.events_fired
        /\ more = replay_range(b, ef, N - ef) /\ inc = st.inc_doc
        /\ z = <<StartDocument>> /\ p = IF st.started_doc THEN <<>> ELSE z
  OBVIOUS
<1>0. /\ n \in 0..Len(Doc[c]) /\ f \in Seq(SEv(c)) /\ n = st.buf /\ ~st.doc
      /\ Grown(c, st, n) /\ ef = Len(inc)
      /\ f = Shown(st) /\ (inc # <<>> => st.started_doc) /\ st.started_doc \in BOOLEAN
  BY <1>a DEF StateOK
<1>1. /\ Grown(c, b, n) /\ Kept(st, b) /\ Len(b.inc_doc) = N /\ ef <= N
  <2>1. Grown(c, st, n) /\ st.buf = n /\ st.events_fired = Len(st.inc_doc) /\ n \in 0..Len(Doc[c])
    BY <1>0, <1>a
  <2>2. LET g == build_prefix(c, st) IN
        /\ Grown(c, g, n) /\ Kept(st, g) /\ Len(g.inc_doc) = Len(Tokens[c][n].evs)
        /\ Len(st.inc_doc) <= Len(Tokens[c][n].evs)
    BY <2>1, BuildsPrefix
  <2>3. QED  BY <1>0, <1>a, <2>2
<1>2. inc \in Seq(Ev(c)) /\ b.inc_doc \in Seq(Ev(c)) /\ ef \in Nat /\ N \in Nat
  <2>1. inc \in Seq(Ev(c)) /\ b.inc_doc \in Seq(Ev(c))  BY <1>0, <1>1, <1>a DEF Grown
  <2>2. Len(inc) \in Nat /\ Len(b.inc_doc) \in Nat  BY <2>1
  <2>3. QED  BY <1>0, <1>1, <2>1, <2>2
<1>3. more = SubSeq(b.inc_doc, ef + 1, N) /\ Reached(b, ef, N - ef) = N
  BY <1>0, <1>1, <1>2, <1>a, WalkIs
<1>4. \A i \in 1..Len(inc) : b.inc_doc[i] = inc[i]  BY <1>1, <1>a DEF Kept
<1>5. more \in Seq(Ev(c)) /\ b.inc_doc = inc \o more /\ (ef = N => more = <<>>)
  <2> PICK t : t = b.inc_doc  OBVIOUS
  <2>1. more = SubSeq(t, Len(inc) + 1, Len(t)) /\ Len(inc) <= Len(t) /\ ef = Len(inc) /\ N = Len(t)
    BY <1>0, <1>1, <1>3
  <2>2. inc \in Seq(Ev(c)) /\ t \in Seq(Ev(c)) /\ \A i \in 1..Len(inc) : t[i] = inc[i]
    BY <1>2, <1>4
  <2>3. QED  BY <2>1, <2>2, SplitAt
<1>6. N = ef => b.inc_doc = inc
  <2>1. \A s \in Seq(Ev(c)) : s \o <<>> = s  BY ConcatLaws
  <2>2. QED  BY <1>2, <1>5, <2>1
<1>7. inc \in Seq(SEv(c)) /\ more \in Seq(SEv(c)) /\ z \in Seq(SEv(c))
  <2>1. \A x \in Ev(c) : x \in SEv(c)  BY DEF SEv
  <2>2. StartDocument \in SEv(c)  BY DEF SEv
  <2>3. QED  BY <1>2, <1>5, <1>a, <2>1, <2>2
<1>8. \/ f = z \o inc \o <<>> /\ p = <<>>
      \/ f = <<>> \o inc \o <<>> /\ p = z /\ inc = <<>>
  BY <1>0, <1>a DEF Shown
<1>9. p \o more \in Seq(SEv(c)) /\ f \o (p \o more) = z \o b.inc_doc
  <2>1. b.inc_doc = inc \o more  BY <1>5
  <2> PICK X : X = SEv(c)  OBVIOUS
  <2>2. z \in Seq(X) /\ inc \in Seq(X) /\ more \in Seq(X)  BY <1>7
  <2>3. (z \o inc) \o more = z \o (inc \o more)  BY <2>2, ConcatLaws
  <2>4. <<>> \in Seq(X) /\ z \o inc \in Seq(X) /\ z \o more \in Seq(X)  BY <2>2, ConcatLaws
  <2>5. CASE f = z \o inc \o <<>> /\ p = <<>>
    <3>1. f = z \o inc /\ p \o more = more  BY <2>2, <2>4, <2>5, ConcatLaws
    <3>2. QED  BY <2>1, <2>2, <2>3, <3>1
  <2>6. CASE f = <<>> \o inc \o <<>> /\ p = z /\ inc = <<>>
    <3>1. f = <<>>  BY <2>4, <2>6, ConcatLaws
    <3>2. inc \o more = more /\ f \o (z \o more) = z \o more  BY <2>2, <2>4, <2>6, <3>1, ConcatLaws
    <3>3. QED  BY <2>1, <2>4, <2>6, <3>2
  <2>7. QED  BY <1>8, <2>5, <2>6
<1>10. (\A x \in StFields \ {"inc_doc", "open_stack"} : b[x] = st[x]) /\ ef \in 0..N
  BY <1>1, <1>2 DEF Kept
<1>11. Builds(c, st, n, f, b, N, ef, p \o more)
  BY <1>0, <1>1, <1>2, <1>3, <1>6, <1>9, <1>10, <1>a DEF Builds
<1>12. QED  BY <1>11

-----------------------------------------------------------------------------
(* What a call does with a state.                                           *)

LEMMA MaxOf == ASSUME NEW x \in Nat, NEW y \in Nat, x <= y  PROVE Max({x, y}) = y
<1>1. \A v \in {x, y} : (\A u \in {x, y} : v >= u) => v = y  OBVIOUS
<1>2. \A u \in {x, y} : y >= u  OBVIOUS
<1>3. QED  BY <1>1, <1>2 DEF Max

(* Before the close what was fired is in order, and there is no end to it.  *)
LEMMA OpenDelivers ==
  ASSUME ~Recover, ~NoBlanks, NEW c \in Ctxt, NEW st, NEW n, NEW f, StateOK(c, st, n, f), ~st.finished
  PROVE  Delivers(f, EventsOf(c, n))
<1>1. n \in 0..Len(Doc[c]) /\ ~st.doc /\ st.started_doc \in BOOLEAN  BY DEF StateOK
<1>2. f = <<>> => Delivers(f, EventsOf(c, n))
  <2>1. Len(EventsOf(c, n)) \in Nat  BY <1>1, WholeIs
  <2>2. QED  BY <2>1, EmptyDelivers
<1>3. CASE Kind[c] # "event"  BY <1>2, <1>3 DEF StateOK
<1>4. CASE Kind[c] = "event"
  <2> PICK inc : inc = st.inc_doc  OBVIOUS
  <2>1. /\ inc \in Seq(Ev(c)) /\ Delivers(inc, Tokens[c][n].evs) /\ f = Shown(st)
        /\ inc # <<>> => st.started_doc
    BY <1>4 DEF StateOK, Grown
  <2>2. \A a \in Seq(SEv(c)) : a \o <<>> = a  BY ConcatLaws
  <2>3. CASE st.started_doc
    <3>1. f = <<StartDocument>> \o inc \o <<>>  BY <1>1, <2>1, <2>3 DEF Shown
    <3>2. <<StartDocument>> \o inc \in Seq(SEv(c))  BY <2>1, BetweenIs
    <3>3. f = <<StartDocument>> \o inc  BY <2>2, <3>1, <3>2
    <3>4. QED  BY <1>1, <2>1, <3>3, BetweenDelivers
  <2>4. CASE ~st.started_doc
    <3>1. f = <<>> \o inc \o <<>> /\ inc = <<>>  BY <1>1, <2>1, <2>4 DEF Shown
    <3>2. <<>> \o <<>> \o <<>> = <<>>  BY ConcatLaws
    <3>3. QED  BY <1>2, <3>1, <3>2
  <2>5. QED  BY <1>1, <2>3, <2>4
<1>5. QED  BY <1>3, <1>4

(* A call's work: the state it comes to, and the events it has to fire.     *)
Worked(c, w, n, f, finished, doc) ==
  /\ w.queue \in Seq(SEv(c)) /\ StateOK(c, w.state, n, f \o w.queue)
  /\ w.state.finished = finished /\ w.state.doc = doc
  /\ finished /\ ~doc => w.queue = <<>>

LEMMA FeedWorks ==
  ASSUME ~Recover, ~NoBlanks, NEW c \in Ctxt, NEW st, NEW n, NEW f, StateOK(c, st, n, f),
         Kind[c] = "event", ~st.finished
  PROVE  Worked(c, incremental_feed(c, st), n, f, FALSE, FALSE)
<1>a. PICK b, N, ef, q : Builds(c, st, n, f, b, N, ef, q)  BY BuiltIsTold
<1>0. /\ n \in 0..Len(Doc[c]) /\ f \in Seq(SEv(c)) /\ n = st.buf /\ st.doc = FALSE /\ st.finished = FALSE
      /\ f = Shown(st) /\ (st.inc_doc # <<>> => st.started_doc) /\ st.started_doc \in BOOLEAN
      /\ st.events_fired = Len(st.inc_doc)
  BY DEF StateOK
<1>1. /\ Grown(c, b, n) /\ Len(b.inc_doc) = N /\ N \in Nat /\ ef \in 0..N /\ st.buf = n
      /\ \A x \in StFields \ {"inc_doc", "open_stack"} : b[x] = st[x]
      /\ Reached(b, ef, N - ef) = N
      /\ q \in Seq(SEv(c)) /\ f \o q = <<StartDocument>> \o b.inc_doc
      /\ N = ef => b.inc_doc = st.inc_doc
  BY <1>a DEF Builds
<1>2. /\ b = [x \in StFields |-> b[x]] /\ b.inc_doc \in Seq(Ev(c))
      /\ b.buf = n /\ b.finished = FALSE /\ b.doc = FALSE
      /\ b.events_fired = ef /\ b.started_doc = st.started_doc
  BY <1>0, <1>1, <1>a DEF Grown, Builds, StFields
<1>3. n \in Nat  BY <1>0, DocIsSeq
<1> PICK w : w = incremental_feed(c, st)  OBVIOUS
<1> SUFFICES Worked(c, w, n, f, FALSE, FALSE)  OBVIOUS
<1>4. CASE N > ef
  <2> PICK u : u = [b EXCEPT !.started_doc = TRUE, !.events_fired = N]  OBVIOUS
  <2>1. w.state = u /\ w.queue = q
    <3>1. Max({b.events_fired, Reached(b, ef, N - ef)}) = N  BY <1>1, <1>2, MaxOf
    <3>2. w = [state |-> [b EXCEPT !.started_doc = TRUE, !.events_fired = Max({@, Reached(b, ef, N - ef)})],
               queue |-> q]
      BY <1>0, <1>4, <1>a DEF Builds, incremental_feed
    <3>3. w.queue = q /\ w.state = [b EXCEPT !.started_doc = TRUE,
                                    !.events_fired = Max({b.events_fired, Reached(b, ef, N - ef)})]
      BY <1>2, <3>2 DEF StFields
    <3>4. QED  BY <3>1, <3>3
  <2>2. /\ u = [x \in StFields |-> u[x]] /\ u.inc_doc = b.inc_doc /\ u.open_stack = b.open_stack
        /\ u.buf = n /\ u.finished = FALSE /\ u.doc = FALSE /\ u.started_doc = TRUE /\ u.events_fired = N
    BY <1>2 DEF StFields
  <2>3. Grown(c, u, n)  BY <1>1, <2>2 DEF Grown
  <2>4. Shown(u) = f \o q
    <3>1. Shown(u) = <<StartDocument>> \o b.inc_doc \o <<>>  BY <2>2 DEF Shown
    <3>2. <<StartDocument>> \o b.inc_doc \in Seq(SEv(c))  BY <1>2, BetweenIs
    <3>3. QED  BY <1>1, <3>1, <3>2, ConcatLaws
  <2>5. f \o q \in Seq(SEv(c))  BY <1>0, <1>1, ConcatLaws
  <2>6. StateOK(c, u, n, f \o q)
    BY <1>0, <1>1, <1>3, <2>2, <2>3, <2>4, <2>5 DEF StateOK
  <2>7. QED  BY <1>1, <2>1, <2>2, <2>6 DEF Worked
<1>5. CASE ~(N > ef)
  <2>1. N = ef  BY <1>1, <1>5
  <2>2. w.state = b /\ w.queue = <<>>
    BY <1>0, <1>5, <1>a DEF Builds, incremental_feed
  <2>3. Shown(b) = Shown(st)  BY <1>0, <1>1, <1>2, <2>1 DEF Shown
  <2>4. f \o <<>> = f /\ <<>> \in Seq(SEv(c))  BY <1>0, ConcatLaws
  <2>5. StateOK(c, b, n, f)
    BY <1>0, <1>1, <1>2, <1>3, <2>1, <2>3 DEF StateOK
  <2>6. QED  BY <1>2, <2>2, <2>4, <2>5 DEF Worked
<1>6. QED  BY <1>4, <1>5

LEMMA FinalWorks ==
  ASSUME ~Recover, ~NoBlanks, NEW c \in Ctxt, NEW st, NEW n, NEW f, StateOK(c, st, n, f),
         Kind[c] = "event", ~st.finished
  PROVE  Worked(c, finalize_incremental(c, st), n, f, TRUE, cleanEof(c, n))
<1>a. PICK b, N, ef, q : Builds(c, st, n, f, b, N, ef, q)  BY BuiltIsTold
<1>0. /\ n \in 0..Len(Doc[c]) /\ f \in Seq(SEv(c)) /\ n = st.buf /\ st.doc = FALSE /\ st.finished = FALSE
      /\ f = Shown(st) /\ st.started_doc \in BOOLEAN
  BY DEF StateOK
<1>1. /\ Grown(c, b, n) /\ Len(b.inc_doc) = N /\ N \in Nat /\ ef \in 0..N /\ st.buf = n
      /\ \A x \in StFields \ {"inc_doc", "open_stack"} : b[x] = st[x]
      /\ Reached(b, ef, N - ef) = N
      /\ q \in Seq(SEv(c)) /\ f \o q = <<StartDocument>> \o b.inc_doc
  BY <1>a DEF Builds
<1>2. /\ b = [x \in StFields |-> b[x]] /\ b.inc_doc \in Seq(Ev(c))
      /\ b.buf = n /\ b.finished = FALSE /\ b.doc = FALSE
      /\ b.events_fired = ef /\ b.started_doc = st.started_doc
  BY <1>0, <1>1, <1>a DEF Grown, Builds, StFields
<1>3. n \in Nat  BY <1>0, DocIsSeq
<1> PICK w : w = finalize_incremental(c, st)  OBVIOUS
<1> SUFFICES Worked(c, w, n, f, TRUE, cleanEof(c, n))  OBVIOUS
<1>4. CASE cleanEof(c, n)
  <2> PICK u : u = [b EXCEPT !.finished = TRUE, !.doc = TRUE, !.started_doc = TRUE, !.events_fired = N]
    OBVIOUS
  <2> PICK e : e = <<EndDocument>>  OBVIOUS
  <2>1. w.state = u /\ w.queue = q \o e
    <3>1. (IF N > ef THEN N - ef ELSE 0) = N - ef  BY <1>1
    <3>2. Max({b.events_fired, Reached(b, ef, N - ef)}) = N
      <4>1. ef \in Nat /\ N \in Nat /\ ef <= N  BY <1>1
      <4>2. Max({ef, N}) = N  BY <4>1, MaxOf
      <4>3. b.events_fired = ef /\ Reached(b, ef, N - ef) = N  BY <1>1, <1>2
      <4>4. QED  BY <4>2, <4>3
    <3>p. PICK count : count = IF N > ef THEN N - ef ELSE 0  OBVIOUS
    <3>3. w = [state |-> [b EXCEPT !.finished = TRUE, !.doc = TRUE, !.started_doc = TRUE,
                                   !.events_fired = Max({@, Reached(b, ef, count)})],
               queue |-> (IF st.started_doc THEN <<>> ELSE <<StartDocument>>)
                            \o replay_range(b, ef, count) \o e]
      BY <1>0, <1>4, <1>a, <3>p DEF finalize_incremental, Builds
    <3>4. w.queue = (IF st.started_doc THEN <<>> ELSE <<StartDocument>>) \o replay_range(b, ef, count) \o e
      BY <3>3
    <3>5. w.state = [b EXCEPT !.finished = TRUE, !.doc = TRUE, !.started_doc = TRUE,
                              !.events_fired = Max({b.events_fired, Reached(b, ef, count)})]
      BY <1>2, <3>3 DEF StFields
    <3>6. count = N - ef  BY <3>1, <3>p
    <3>7. w.queue = q \o e
      BY <1>a, <3>4, <3>6 DEF Builds
    <3>8. w.state = u  BY <3>2, <3>5, <3>6
    <3>9. QED  BY <3>7, <3>8
  <2>2. /\ u = [x \in StFields |-> u[x]] /\ u.inc_doc = b.inc_doc /\ u.open_stack = b.open_stack
        /\ u.buf = n /\ u.finished = TRUE /\ u.doc = TRUE /\ u.started_doc = TRUE /\ u.events_fired = N
    BY <1>2 DEF StFields
  <2>3. Grown(c, u, n)  BY <1>1, <2>2 DEF Grown
  <2>4. q \o e \in Seq(SEv(c)) /\ f \o (q \o e) = (f \o q) \o e /\ f \o (q \o e) \in Seq(SEv(c))
    <3>1. e \in Seq(SEv(c))  BY DEF SEv
    <3>2. f \in Seq(SEv(c)) /\ q \in Seq(SEv(c))  BY <1>0, <1>1
    <3>3. QED  BY <3>1, <3>2, ConcatLaws
  <2>5. Shown(u) = f \o (q \o e)
    BY <1>1, <2>2, <2>4 DEF Shown
  <2>6. N = Len(Tokens[c][n].evs)  BY <1>a DEF Builds
  <2>7. StateOK(c, u, n, f \o (q \o e))
    BY <1>0, <1>1, <1>3, <1>4, <2>2, <2>3, <2>4, <2>5, <2>6 DEF StateOK
  <2>8. QED  BY <1>4, <2>1, <2>2, <2>4, <2>7 DEF Worked, cleanEof
<1>5. CASE ~cleanEof(c, n)
  <2> PICK u : u = [b EXCEPT !.finished = TRUE]  OBVIOUS
  <2>1. w.state = u /\ w.queue = <<>>
    BY <1>0, <1>5, <1>a DEF finalize_incremental, Builds
  <2>2. /\ u = [x \in StFields |-> u[x]] /\ u.buf = n /\ u.finished = TRUE /\ u.doc = FALSE
        /\ u.started_doc = b.started_doc
    BY <1>2 DEF StFields
  <2>3. f \o <<>> = f /\ <<>> \in Seq(SEv(c))  BY <1>0, ConcatLaws
  <2>4. Delivers(f, EventsOf(c, n))  BY OpenDelivers
  <2>5. StateOK(c, u, n, f)
    BY <1>0, <1>2, <1>3, <2>2, <2>4 DEF StateOK
  <2>6. QED  BY <1>5, <2>1, <2>2, <2>3, <2>5 DEF Worked, cleanEof
<1>6. QED  BY <1>4, <1>5

LEMMA ParseWorks ==
  ASSUME ~Recover, ~NoBlanks, NEW c \in Ctxt, NEW st, NEW n, NEW f, StateOK(c, st, n, f),
         Kind[c] # "event", ~st.finished
  PROVE  Worked(c, finalize_push_parse(c, st), n, f, TRUE, cleanEof(c, n))
<1>0. /\ n \in 0..Len(Doc[c]) /\ f \in Seq(SEv(c)) /\ n = st.buf /\ st.doc = FALSE /\ st.finished = FALSE
      /\ f = <<>> /\ st.started_doc \in BOOLEAN /\ st = [x \in StFields |-> st[x]]
  BY DEF StateOK
<1>3. n \in Nat  BY <1>0, DocIsSeq
<1> PICK w : w = finalize_push_parse(c, st)  OBVIOUS
<1> SUFFICES Worked(c, w, n, f, TRUE, cleanEof(c, n))  OBVIOUS
<1>1. <<>> \in Seq(SEv(c)) /\ Whole(c, n) \in Seq(SEv(c)) /\ \A a \in Seq(SEv(c)) : f \o a = a
  BY <1>0, WholeIs, ConcatLaws
<1>4. CASE cleanEof(c, n)
  <2> PICK u : u = [st EXCEPT !.finished = TRUE, !.doc = TRUE]  OBVIOUS
  <2> PICK q : q = IF Kind[c] = "plain" THEN <<>> ELSE Whole(c, n)  OBVIOUS
  <2>1. w.state = u /\ w.queue = q
    BY <1>0, <1>4 DEF finalize_push_parse, Whole, EventsOf
  <2>2. /\ u = [x \in StFields |-> u[x]] /\ u.buf = n /\ u.finished = TRUE /\ u.doc = TRUE
        /\ u.started_doc = st.started_doc
    BY <1>0 DEF StFields
  <2>3. q \in Seq(SEv(c)) /\ f \o q = q  BY <1>1
  <2>4. StateOK(c, u, n, q)
    BY <1>0, <1>3, <1>4, <2>2, <2>3 DEF StateOK
  <2>5. QED  BY <1>4, <2>1, <2>2, <2>3, <2>4 DEF Worked, cleanEof
<1>5. CASE ~cleanEof(c, n)
  <2> PICK u : u = [st EXCEPT !.finished = TRUE]  OBVIOUS
  <2>1. w.state = u /\ w.queue = <<>>
    BY <1>0, <1>5 DEF finalize_push_parse
  <2>2. /\ u = [x \in StFields |-> u[x]] /\ u.buf = n /\ u.finished = TRUE /\ u.doc = FALSE
        /\ u.started_doc = st.started_doc
    BY <1>0 DEF StFields
  <2>3. Delivers(f, EventsOf(c, n))  BY OpenDelivers
  <2>4. StateOK(c, u, n, f)
    BY <1>0, <1>3, <2>2, <2>3 DEF StateOK
  <2>5. QED  BY <1>0, <1>1, <1>5, <2>1, <2>2, <2>4 DEF Worked, cleanEof
<1>6. QED  BY <1>4, <1>5

LEMMA Works ==
  ASSUME ~Recover, ~NoBlanks, NEW c \in Ctxt, NEW st, NEW n, NEW f, StateOK(c, st, n, f),
         ~st.finished, NEW t \in BOOLEAN, t \/ Kind[c] = "event"
  PROVE  Worked(c, Work(c, st, t), n, f, t, t /\ cleanEof(c, n))
<1>1. CASE t /\ Kind[c] = "event"
  <2>1. Work(c, st, t) = finalize_incremental(c, st)  BY <1>1 DEF Work
  <2>2. (t = TRUE) /\ (t /\ cleanEof(c, n)) = cleanEof(c, n)  BY <1>1 DEF cleanEof
  <2>3. QED  BY <1>1, <2>1, <2>2, FinalWorks
<1>2. CASE t /\ Kind[c] # "event"
  <2>1. Work(c, st, t) = finalize_push_parse(c, st)  BY <1>2 DEF Work
  <2>2. (t = TRUE) /\ (t /\ cleanEof(c, n)) = cleanEof(c, n)  BY <1>2 DEF cleanEof
  <2>3. QED  BY <1>2, <2>1, <2>2, ParseWorks
<1>3. CASE ~t
  <2>1. Work(c, st, t) = incremental_feed(c, st)  BY <1>3 DEF Work
  <2>2. (t = FALSE) /\ (t /\ cleanEof(c, n)) = FALSE  BY <1>3
  <2>3. QED  BY <1>3, <2>1, <2>2, FeedWorks
<1>4. QED  BY <1>1, <1>2, <1>3

-----------------------------------------------------------------------------
(* The invariant.                                                           *)

FrFields == {"ctxt", "state", "queue", "began", "spoilt"}

(* The state st of c, whose consumer was told f of n marks, and what the    *)
(* context says of them: that they are well formed, and a document.         *)
Holds(c, st, f, n, wf, md) ==
  /\ StateOK(c, st, n, f)
  /\ st.finished => (wf <=> st.doc)
  /\ st.doc => md

FrameOK(fr, f, n, wf, md) ==
  LET c == fr.ctxt IN
  /\ fr = [x \in FrFields |-> fr[x]] /\ fr.queue \in Seq(SEv(c))
  /\ fr.began \in BOOLEAN /\ fr.spoilt \in BOOLEAN
  /\ Holds(c, fr.state, f \o fr.queue, n, wf, md)
  /\ fr.state.finished => ~fr.spoilt
  /\ fr.spoilt => Tokens[c][Len(Doc[c])].err = "TagNameMismatch"
  /\ fr.state.finished /\ ~fr.state.doc => fr.queue = <<>> /\ ~fr.began

HistoryOK ==
  /\ fed \in [Ctxt -> Nat] /\ DOMAIN fired = Ctxt
  /\ wellFormed \in [Ctxt -> BOOLEAN] /\ myDoc \in [Ctxt -> BOOLEAN]
  /\ \A c \in Ctxt : fed[c] \in 0..Len(Doc[c]) /\ fired[c] \in Seq(SEv(c)) /\ Orderly(c, fired[c])

MapOK ==
  \A c \in DOMAIN push_states :
     Holds(c, push_states[c], fired[c], fed[c], wellFormed[c], myDoc[c])

CallsOK ==
  \A i \in 1..Len(frames) :
     LET c == frames[i].ctxt IN FrameOK(frames[i], fired[c], fed[c], wellFormed[c], myDoc[c])

(* Before its first callback nothing intervenes in a call.                  *)
BeganOK ==
  \A i \in 1..Len(frames) :
     ~frames[i].began => i = Len(frames) /\ finalizing = frames[i].ctxt

DInv == HistoryOK /\ MapOK /\ CallsOK /\ BeganOK /\ ValidNeverMistaken

-----------------------------------------------------------------------------
(* The steps.                                                               *)

LEMMA EmptyOrderly == ASSUME NEW c  PROVE Orderly(c, <<>>) /\ <<>> \in Seq(SEv(c))
BY DEF Orderly

LEMMA NewHolds ==
  ASSUME ~Recover, ~NoBlanks, NEW c \in Ctxt, NEW n \in 0..Len(Doc[c]), NEW md
  PROVE  Holds(c, NewState(n), <<>>, n, TRUE, md)
<1> PICK st : st = NewState(n)  OBVIOUS
<1>1. /\ st = [x \in StFields |-> st[x]] /\ st.buf = n /\ st.finished = FALSE /\ st.doc = FALSE
      /\ st.events_fired = 0 /\ st.started_doc = FALSE /\ st.inc_doc = <<>> /\ st.open_stack = <<>>
  BY DEF NewState, StFields
<1>2. n \in Nat  BY DocIsSeq
<1>3. Grown(c, st, n)
  <2>1. Delivers(<<>>, Tokens[c][n].evs)  BY WholeIs, EmptyDelivers
  <2>2. StackOf(c)[0] = <<>>  BY WholeNests DEF Nests
  <2>3. <<>> \in Seq(Ev(c)) /\ Len(<<>>) = 0  OBVIOUS
  <2>4. st.inc_doc \in Seq(Ev(c)) /\ Len(st.inc_doc) = 0  BY <1>1, <2>3, Zenon
  <2>5. QED  BY <1>1, <2>1, <2>2, <2>4 DEF Grown
<1>4. Shown(st) = <<>>
  <2>1. <<>> \o <<>> \o <<>> = <<>>  BY ConcatLaws
  <2>2. QED  BY <1>1, <2>1 DEF Shown
<1>5. StateOK(c, st, n, <<>>)
  <2>1. Len(st.inc_doc) = 0  BY <1>1
  <2>2. QED  BY <1>1, <1>2, <1>3, <1>4, <2>1, EmptyOrderly DEF StateOK
<1>6. QED  BY <1>1, <1>5 DEF Holds

LEMMA InitDelivers == ASSUME ~Recover, ~NoBlanks, Init  PROVE DInv
<1>1. HistoryOK
  <2>1. \A c \in Ctxt : fed[c] \in 0..Len(Doc[c]) /\ fired[c] \in Seq(SEv(c)) /\ Orderly(c, fired[c])
    BY DocIsSeq, EmptyOrderly DEF Init
  <2>2. QED  BY <2>1 DEF Init, HistoryOK
<1>2. MapOK  BY DEF Init, MapOK
<1>3. Len(frames) = 0 /\ live = {}  BY DEF Init
<1>4. CallsOK /\ BeganOK /\ ValidNeverMistaken
  BY <1>3 DEF CallsOK, BeganOK, ValidNeverMistaken
<1>5. QED  BY <1>1, <1>2, <1>4 DEF DInv

(* What IInv says of the frames.                                            *)
LEMMA FramesAre ==
  ASSUME IInv
  PROVE  /\ Len(frames) \in Nat /\ frames \in Seq(Range(frames))
         /\ \A i \in 1..Len(frames) : frames[i].ctxt \in Ctxt /\ frames[i].ctxt \in InFlight
                                      /\ frames[i].ctxt \notin DOMAIN push_states
         /\ \A i, j \in 1..Len(frames) : frames[i].ctxt = frames[j].ctxt => i = j
         /\ DOMAIN push_states \subseteq live /\ live \subseteq Ctxt
BY DEF IInv, FramesOK, HeldOnce, FreedStaysGone, InFlight

(* A new or a reset context.                                                *)
LEMMA Restarts ==
  ASSUME ~Recover, ~NoBlanks, IInv, DInv, NEW c \in Ctxt \ InFlight, NEW n \in 0..Len(Doc[c]),
         push_states' = Put(push_states, c, NewState(n)),
         wellFormed' = [wellFormed EXCEPT ![c] = TRUE],
         fired' = [fired EXCEPT ![c] = <<>>], fed' = [fed EXCEPT ![c] = n],
         UNCHANGED <<frames, finalizing>>, live' \subseteq live \cup {c},
         \E v \in BOOLEAN : myDoc' = [myDoc EXCEPT ![c] = v]
  PROVE  DInv'
<1>0. /\ HistoryOK /\ MapOK /\ CallsOK /\ BeganOK /\ ValidNeverMistaken
  BY DEF DInv
<1>1. n \in Nat  BY DocIsSeq
<1>2. /\ fired'[c] = <<>> /\ fed'[c] = n /\ wellFormed'[c] = TRUE
      /\ push_states'[c] = NewState(n)
      /\ DOMAIN push_states' = DOMAIN push_states \cup {c}
      /\ \A d \in DOMAIN push_states : d # c => push_states'[d] = push_states[d]
  BY <1>0 DEF HistoryOK, Put
<1>3. \A d \in Ctxt \ {c} : /\ fired'[d] = fired[d] /\ fed'[d] = fed[d]
                           /\ wellFormed'[d] = wellFormed[d] /\ myDoc'[d] = myDoc[d]
  BY <1>0 DEF HistoryOK
<1>4. HistoryOK'
  <2>1. /\ fed' \in [Ctxt -> Nat] /\ DOMAIN fired' = Ctxt
        /\ wellFormed' \in [Ctxt -> BOOLEAN] /\ myDoc' \in [Ctxt -> BOOLEAN]
    BY <1>0, <1>1 DEF HistoryOK
  <2>2. ASSUME NEW d \in Ctxt
        PROVE  fed'[d] \in 0..Len(Doc[d]) /\ fired'[d] \in Seq(SEv(d)) /\ Orderly(d, fired'[d])
    <3>1. CASE d = c  BY <1>2, <3>1, EmptyOrderly
    <3>2. CASE d # c  BY <1>0, <1>3, <3>2 DEF HistoryOK
    <3>3. QED  BY <3>1, <3>2
  <2>3. QED  BY <2>1, <2>2 DEF HistoryOK
<1>5. MapOK'
  <2>1. ASSUME NEW d \in DOMAIN push_states'
        PROVE  Holds(d, push_states'[d], fired'[d], fed'[d], wellFormed'[d], myDoc'[d])
    <3>1. CASE d = c
      <4>1. Holds(c, NewState(n), <<>>, n, TRUE, myDoc'[c])  BY NewHolds
      <4>2. QED  BY <1>2, <3>1, <4>1
    <3>2. CASE d # c
      <4>1. d \in DOMAIN push_states /\ d \in Ctxt \ {c}
        BY <1>2, <3>2, FramesAre
      <4>2. QED  BY <1>0, <1>2, <1>3, <3>2, <4>1 DEF MapOK
    <3>3. QED  BY <3>1, <3>2
  <2>2. QED  BY <2>1 DEF MapOK
<1>6. CallsOK'
  <2>1. \A i \in 1..Len(frames) : frames[i].ctxt \in Ctxt \ {c}  BY FramesAre
  <2>2. \A i \in 1..Len(frames) : LET d == frames[i].ctxt IN
           /\ FrameOK(frames[i], fired[d], fed[d], wellFormed[d], myDoc[d])
           /\ fired'[d] = fired[d] /\ fed'[d] = fed[d]
           /\ wellFormed'[d] = wellFormed[d] /\ myDoc'[d] = myDoc[d]
    BY <1>0, <1>3, <2>1 DEF CallsOK
  <2>3. \A i \in 1..Len(frames) : LET d == frames[i].ctxt IN
           FrameOK(frames[i], fired'[d], fed'[d], wellFormed'[d], myDoc'[d])
    BY <2>2
  <2>4. frames' = frames  OBVIOUS
  <2>5. QED  BY <2>3, <2>4 DEF CallsOK
<1>7. BeganOK'
  BY <1>0 DEF BeganOK
<1>8. ValidNeverMistaken'
  <2>1. ASSUME NEW d \in live', cleanEof(d, Len(Doc[d])), ~wellFormed'[d]
        PROVE  \/ d \in DOMAIN push_states' /\ push_states'[d].finished
               \/ \E i \in 1..Len(frames') : frames'[i].ctxt = d /\ frames'[i].state.finished
    <3>1. d # c /\ d \in live /\ d \in Ctxt  BY <1>2, <2>1, FramesAre
    <3>2. ~wellFormed[d]  BY <1>3, <2>1, <3>1
    <3>3. \/ d \in DOMAIN push_states /\ push_states[d].finished
          \/ \E i \in 1..Len(frames) : frames[i].ctxt = d /\ frames[i].state.finished
      BY <1>0, <2>1, <3>1, <3>2 DEF ValidNeverMistaken
    <3>4. QED  BY <1>2, <3>1, <3>3
  <2>2. QED  BY <2>1 DEF ValidNeverMistaken, cleanEof
<1>9. QED  BY <1>4, <1>5, <1>6, <1>7, <1>8 DEF DInv

(* What the consumer of d was told, has fed and is told of its document.    *)
Same(d) == /\ fired'[d] = fired[d] /\ fed'[d] = fed[d]
           /\ wellFormed'[d] = wellFormed[d] /\ myDoc'[d] = myDoc[d]

(* A step that concerns c alone keeps what holds of the other contexts.     *)
LEMMA MapKeeps ==
  ASSUME MapOK, NEW c,
         \A d \in DOMAIN push_states' : d # c =>
            d \in DOMAIN push_states /\ push_states'[d] = push_states[d] /\ Same(d),
         c \in DOMAIN push_states' =>
            Holds(c, push_states'[c], fired'[c], fed'[c], wellFormed'[c], myDoc'[c])
  PROVE  MapOK'
<1>1. ASSUME NEW d \in DOMAIN push_states', d # c
      PROVE  Holds(d, push_states'[d], fired'[d], fed'[d], wellFormed'[d], myDoc'[d])
  <2>1. Holds(d, push_states[d], fired[d], fed[d], wellFormed[d], myDoc[d])  BY <1>1 DEF MapOK
  <2>2. push_states'[d] = push_states[d] /\ Same(d)  BY <1>1
  <2>3. QED  BY <2>1, <2>2 DEF Same
<1>2. QED  BY <1>1 DEF MapOK

LEMMA CallsKeep ==
  ASSUME CallsOK,
         \A i \in 1..Len(frames') :
            \/ i \in 1..Len(frames) /\ frames'[i] = frames[i] /\ Same(frames[i].ctxt)
            \/ LET d == frames'[i].ctxt
               IN  FrameOK(frames'[i], fired'[d], fed'[d], wellFormed'[d], myDoc'[d])
  PROVE  CallsOK'
<1>1. ASSUME NEW i \in 1..Len(frames'), NEW d, d = frames'[i].ctxt
      PROVE  FrameOK(frames'[i], fired'[d], fed'[d], wellFormed'[d], myDoc'[d])
  <2>1. CASE i \in 1..Len(frames) /\ frames'[i] = frames[i] /\ Same(frames[i].ctxt)
    <3>1. d = frames[i].ctxt  BY <1>1, <2>1
    <3>2. FrameOK(frames[i], fired[d], fed[d], wellFormed[d], myDoc[d])
      BY <2>1, <3>1 DEF CallsOK
    <3>3. Same(d) /\ frames'[i] = frames[i]  BY <2>1, <3>1
    <3>4. QED  BY <3>2, <3>3 DEF Same
  <2>2. CASE ~(i \in 1..Len(frames) /\ frames'[i] = frames[i] /\ Same(frames[i].ctxt))
    BY <1>1, <2>2
  <2>3. QED  BY <2>1, <2>2
<1>2. QED  BY <1>1 DEF CallsOK

(* What ValidNeverMistaken grants a context that is not well formed.        *)
Excused(d) == \/ d \in DOMAIN push_states /\ push_states[d].finished
              \/ \E i \in 1..Len(frames) : frames[i].ctxt = d /\ frames[i].state.finished

LEMMA ValidKeeps ==
  ASSUME ValidNeverMistaken, NEW c,
         \A d \in live' : d # c =>
            /\ d \in live /\ wellFormed'[d] = wellFormed[d]
            /\ d \in DOMAIN push_states =>
                  d \in DOMAIN push_states' /\ push_states'[d] = push_states[d],
         \A i \in 1..Len(frames) : frames[i].ctxt # c =>
            /\ i \in 1..Len(frames') /\ frames'[i].ctxt = frames[i].ctxt
            /\ frames'[i].state = frames[i].state,
         c \in live' /\ cleanEof(c, Len(Doc[c])) /\ ~wellFormed'[c] => Excused(c)'
  PROVE  ValidNeverMistaken'
<1>1. ASSUME NEW d \in live', cleanEof(d, Len(Doc[d])), ~wellFormed'[d], d # c
      PROVE  Excused(d)'
  <2>1. d \in live /\ ~wellFormed[d]  BY <1>1
  <2>2. Excused(d)  BY <1>1, <2>1 DEF ValidNeverMistaken, Excused
  <2>3. CASE d \in DOMAIN push_states /\ push_states[d].finished
    BY <1>1, <2>3 DEF Excused
  <2>4. CASE \E i \in 1..Len(frames) : frames[i].ctxt = d /\ frames[i].state.finished
    <3>1. PICK i \in 1..Len(frames) : frames[i].ctxt = d /\ frames[i].state.finished  BY <2>4
    <3>2. /\ i \in 1..Len(frames') /\ frames'[i].ctxt = d /\ frames'[i].state.finished
      BY <1>1, <3>1
    <3>3. QED  BY <3>2 DEF Excused
  <2>5. QED  BY <2>2, <2>3, <2>4 DEF Excused
<1>2. ASSUME NEW d \in live', cleanEof(d, Len(Doc[d])), ~wellFormed'[d]
      PROVE  Excused(d)'
  BY <1>1, <1>2
<1>3. QED  BY <1>2 DEF ValidNeverMistaken, Excused, cleanEof

LEMMA Stutters ==
  ASSUME DInv, UNCHANGED <<live, push_states, finalizing, frames, wellFormed, myDoc, fired, fed>>
  PROVE  DInv'
BY DEF DInv, HistoryOK, MapOK, CallsOK, BeganOK, ValidNeverMistaken

(* A call is made between two others, or from a callback.                   *)
LEMMA AllBegan ==
  ASSUME IInv, BeganOK, frames # <<>> => Last(frames).began
  PROVE  \A i \in 1..Len(frames) : frames[i].began
<1>1. frames # <<>> => Last(frames) = frames[Len(frames)]  BY DEF Last
<1>2. Len(frames) \in Nat /\ frames \in Seq(Range(frames))  BY FramesAre
<1>3. QED  BY <1>1, <1>2 DEF BeganOK

LEMMA Frees ==
  ASSUME IInv, DInv, NEW c \in live, xmlFreeParserCtxt(c)
  PROVE  DInv'
<1>0. HistoryOK /\ MapOK /\ CallsOK /\ BeganOK /\ ValidNeverMistaken  BY DEF DInv
<1>1. /\ live' = live \ {c} /\ UNCHANGED <<frames, wellFormed, myDoc, fired, fed>>
      /\ (frames # <<>> => Last(frames).began)
      /\ push_states' = push_states \/ push_states' = Drop(push_states, c)
  BY DEF xmlFreeParserCtxt, forget_push_state
<1>2. \A d \in DOMAIN push_states' :
         d \in DOMAIN push_states /\ push_states'[d] = push_states[d]
  BY <1>1 DEF Drop
<1>3. \A d : Same(d)  BY <1>1 DEF Same
<1>4. MapOK'
  <2>1. c \in DOMAIN push_states' =>
            Holds(c, push_states'[c], fired'[c], fed'[c], wellFormed'[c], myDoc'[c])
    BY <1>0, <1>2, <1>3 DEF MapOK, Same
  <2>2. QED  BY <1>0, <1>2, <1>3, <2>1, MapKeeps
<1>5. CallsOK'  BY <1>0, <1>1, <1>3, CallsKeep
<1>6. ValidNeverMistaken'
  <2>1. \A d \in live' : d # c =>
            /\ d \in live /\ wellFormed'[d] = wellFormed[d]
            /\ d \in DOMAIN push_states =>
                  d \in DOMAIN push_states' /\ push_states'[d] = push_states[d]
    BY <1>1 DEF Drop
  <2>2. QED  BY <1>0, <1>1, <2>1, ValidKeeps
<1>7. BeganOK'
  <2>1. \A i \in 1..Len(frames) : frames[i].began  BY <1>0, <1>1, AllBegan
  <2>2. QED  BY <1>1, <2>1 DEF BeganOK
<1>8. HistoryOK'  BY <1>0, <1>1 DEF HistoryOK
<1>9. QED  BY <1>4, <1>5, <1>6, <1>7, <1>8 DEF DInv

(* A call that only appends to the buffer: one to a context that is closed, *)
(* or to one whose document is parsed when it closes.                       *)
BuffersIn(c, k, st) ==
  /\ c \in live \ InFlight /\ c \in DOMAIN push_states
  /\ st = [push_states[c] EXCEPT !.buf = @ + k] /\ st.buf <= Len(Doc[c])
  /\ fed' = IF st.finished THEN fed ELSE [fed EXCEPT ![c] = st.buf]
  /\ push_states' = [push_states EXCEPT ![c] = st]
  /\ UNCHANGED <<live, fired, finalizing, frames, wellFormed, myDoc>>

LEMMA Buffers ==
  ASSUME ~Recover, ~NoBlanks, IInv, DInv, NEW c, NEW k \in Nat, NEW st, BuffersIn(c, k, st)
  PROVE  DInv'
<1> USE DEF BuffersIn
<1>0. HistoryOK /\ MapOK /\ CallsOK /\ BeganOK /\ ValidNeverMistaken  BY DEF DInv
<1>1. c \in Ctxt /\ DOMAIN fed = Ctxt /\ fed \in [Ctxt -> Nat]  BY <1>0, FramesAre DEF HistoryOK
<1>2. Holds(c, push_states[c], fired[c], fed[c], wellFormed[c], myDoc[c])  BY <1>0 DEF MapOK
<1> PICK old : old = push_states[c]  OBVIOUS
<1>3. StateOK(c, old, fed[c], fired[c]) /\ (old.finished => (wellFormed[c] <=> old.doc))
      /\ (old.doc => myDoc[c])
  BY <1>2 DEF Holds
<1>4. st.finished = old.finished /\ st.doc = old.doc
  <2>1. old = [x \in StFields |-> old[x]]  BY <1>3 DEF StateOK
  <2>2. {"finished", "doc", "buf"} \subseteq StFields  BY DEF StFields
  <2>3. st = [old EXCEPT !.buf = old.buf + k]  OBVIOUS
  <2>4. QED  BY <2>1, <2>2, <2>3
<1>5. /\ fed'[c] = IF old.finished THEN fed[c] ELSE st.buf
      /\ \A d \in Ctxt : d # c => fed'[d] = fed[d]
  <2>1. CASE st.finished
    <3>1. fed' = fed  BY <2>1
    <3>2. QED  BY <1>4, <2>1, <3>1
  <2>2. CASE ~st.finished
    <3>1. fed' = [fed EXCEPT ![c] = st.buf]  BY <2>2
    <3>2. QED  BY <1>1, <1>4, <2>2, <3>1
  <2>3. QED  BY <2>1, <2>2
<1>6. StateOK(c, st, fed'[c], fired[c]) /\ fed'[c] \in 0..Len(Doc[c])
  <2> PICK n : n = fed[c]  OBVIOUS
  <2>1. st = [old EXCEPT !.buf = @ + k] /\ st.buf <= Len(Doc[c])  OBVIOUS
  <2>a. PICK m : m = IF old.finished THEN n ELSE st.buf  OBVIOUS
  <2>2. StateOK(c, old, n, fired[c])  BY <1>3
  <2>3. StateOK(c, st, m, fired[c]) /\ m \in 0..Len(Doc[c])  BY <1>1, <2>1, <2>2, <2>a, Feeds
  <2>4. m = fed'[c]  BY <1>5, <2>a
  <2>5. QED  BY <2>3, <2>4
<1>7. Holds(c, st, fired'[c], fed'[c], wellFormed'[c], myDoc'[c])
  BY <1>3, <1>4, <1>6 DEF Holds
<1>8. \A d \in Ctxt : d # c => Same(d)  BY <1>5 DEF Same
<1>9. /\ DOMAIN push_states' = DOMAIN push_states /\ push_states'[c] = st
      /\ \A d \in DOMAIN push_states : d # c => push_states'[d] = push_states[d]
      /\ DOMAIN push_states \subseteq Ctxt
  BY FramesAre
<1>10. MapOK'  BY <1>0, <1>7, <1>8, <1>9, MapKeeps
<1>11. CallsOK'
  <2>1. \A i \in 1..Len(frames) : frames[i].ctxt \in Ctxt /\ frames[i].ctxt # c  BY FramesAre
  <2>2. QED  BY <1>0, <1>8, <2>1, CallsKeep
<1>12. BeganOK'  BY <1>0 DEF BeganOK
<1>13. ValidNeverMistaken'
  <2>1. c \in live' /\ cleanEof(c, Len(Doc[c])) /\ ~wellFormed'[c] => Excused(c)'
    <3>1. SUFFICES ASSUME cleanEof(c, Len(Doc[c])), ~wellFormed[c]  PROVE Excused(c)'  OBVIOUS
    <3>2. Excused(c)  BY <1>0, <3>1 DEF ValidNeverMistaken, Excused
    <3>3. \A i \in 1..Len(frames) : frames[i].ctxt # c  BY FramesAre
    <3>4. old.finished  BY <3>2, <3>3 DEF Excused
    <3>5. QED  BY <1>4, <1>9, <3>4 DEF Excused
  <2>2. QED  BY <1>0, <1>9, <2>1, ValidKeeps
<1>14. HistoryOK'
  <2>1. fed' \in [Ctxt -> Nat]
    <3>1. st.buf \in Nat  BY <1>6 DEF StateOK
    <3>2. QED  BY <1>1, <3>1
  <2>2. \A d \in Ctxt : fed'[d] \in 0..Len(Doc[d])  BY <1>0, <1>5, <1>6 DEF HistoryOK
  <2>3. QED  BY <1>0, <2>1, <2>2 DEF HistoryOK
<1>15. QED  BY <1>10, <1>11, <1>12, <1>13, <1>14 DEF DInv

(* A call that works, up to its first callback.                             *)
BeginsWith(c, k, t, st, w, fr, md) ==
  /\ c \in live \ InFlight /\ c \in DOMAIN push_states
  /\ frames # <<>> => Last(frames).began
  /\ st = [push_states[c] EXCEPT !.buf = @ + k] /\ st.buf <= Len(Doc[c])
  /\ ~st.finished /\ (t \/ Kind[c] = "event")
  /\ fed' = [fed EXCEPT ![c] = st.buf]
  /\ w = Work(c, st, t) /\ push_states' = Drop(push_states, c) /\ finalizing' = c
  /\ fr = [ctxt |-> c, state |-> w.state, queue |-> w.queue, began |-> FALSE,
            spoilt |-> ~t /\ is_genuine_error(Tokens[c][st.buf].err)]
  /\ frames' = Append(frames, fr)
  /\ wellFormed' = IF t THEN [wellFormed EXCEPT ![c] = cleanEof(c, st.buf)] ELSE wellFormed
  /\ w.state.doc => md
  /\ myDoc' = [myDoc EXCEPT ![c] = md]
  /\ UNCHANGED <<live, fired>>

LEMMA Begins ==
  ASSUME ~Recover, ~NoBlanks, IInv, DInv, NEW c, NEW k \in Nat, NEW t \in BOOLEAN,
         NEW st, NEW w, NEW fr, NEW md \in BOOLEAN, BeginsWith(c, k, t, st, w, fr, md)
  PROVE  DInv'
<1> USE DEF BeginsWith
<1>0. HistoryOK /\ MapOK /\ CallsOK /\ BeganOK /\ ValidNeverMistaken  BY DEF DInv
<1>1. c \in Ctxt /\ DOMAIN fed = Ctxt /\ fed \in [Ctxt -> Nat]  BY <1>0, FramesAre DEF HistoryOK
<1>2. Holds(c, push_states[c], fired[c], fed[c], wellFormed[c], myDoc[c])  BY <1>0 DEF MapOK
<1> PICK old : old = push_states[c]  OBVIOUS
<1>3. StateOK(c, old, fed[c], fired[c])  BY <1>2 DEF Holds
<1>4. st = [old EXCEPT !.buf = @ + k] /\ ~old.finished
  <2>1. old = [x \in StFields |-> old[x]]  BY <1>3 DEF StateOK
  <2>2. {"finished", "buf"} \subseteq StFields  BY DEF StFields
  <2>3. st = [old EXCEPT !.buf = old.buf + k]  OBVIOUS
  <2>4. st.finished = old.finished  BY <2>1, <2>2, <2>3
  <2>5. QED  BY <2>4
<1>5. /\ fed'[c] = st.buf
      /\ \A d \in Ctxt : d # c => fed'[d] = fed[d]
  BY <1>1
<1>6. StateOK(c, st, st.buf, fired[c]) /\ st.buf \in 0..Len(Doc[c])
  BY <1>1, <1>3, <1>4, Feeds
<1>7. Worked(c, w, st.buf, fired[c], t, t /\ cleanEof(c, st.buf))
  BY <1>1, <1>6, Works
<1>8. /\ wellFormed'[c] = IF t THEN cleanEof(c, st.buf) ELSE wellFormed[c]
      /\ \A d \in Ctxt : d # c => wellFormed'[d] = wellFormed[d]
      /\ wellFormed' \in [Ctxt -> BOOLEAN]
  BY <1>0, <1>1 DEF HistoryOK, cleanEof
<1>9. myDoc' \in [Ctxt -> BOOLEAN] /\ myDoc'[c] = md /\ \A d \in Ctxt : d # c => myDoc'[d] = myDoc[d]
  BY <1>0, <1>1 DEF HistoryOK
<1>10. \A d \in Ctxt : d # c => Same(d)  BY <1>5, <1>8, <1>9 DEF Same
<1>11. /\ c \notin DOMAIN push_states' /\ DOMAIN push_states \subseteq Ctxt
       /\ DOMAIN push_states' \subseteq DOMAIN push_states
       /\ \A d \in DOMAIN push_states : d # c =>
            d \in DOMAIN push_states' /\ push_states'[d] = push_states[d]
  BY FramesAre DEF Drop
<1>12. /\ Len(frames) \in Nat /\ Len(frames') = Len(frames) + 1
       /\ frames'[Len(frames) + 1] = fr /\ \A i \in 1..Len(frames) : frames'[i] = frames[i]
  BY FramesAre
<1>13. /\ fr.ctxt = c /\ fr.state = w.state /\ fr.queue = w.queue /\ fr.began = FALSE
       /\ fr.spoilt = (~t /\ is_genuine_error(Tokens[c][st.buf].err))
       /\ fr = [x \in FrFields |-> fr[x]]
  BY DEF FrFields
<1>14. w.state.finished = t /\ w.state.doc = (t /\ cleanEof(c, st.buf))
       /\ w.queue \in Seq(SEv(c)) /\ StateOK(c, w.state, st.buf, fired[c] \o w.queue)
       /\ (t /\ ~cleanEof(c, st.buf) => w.queue = <<>>)
  BY <1>7, Zenon DEF Worked
<1>15. FrameOK(fr, fired'[c], fed'[c], wellFormed'[c], myDoc'[c])
  <2>1. Holds(c, fr.state, fired'[c] \o fr.queue, fed'[c], wellFormed'[c], myDoc'[c])
    <3>1. StateOK(c, fr.state, fed'[c], fired'[c] \o fr.queue)  BY <1>5, <1>13, <1>14
    <3>2. fr.state.finished => (wellFormed'[c] <=> fr.state.doc)  BY <1>8, <1>13, <1>14, Zenon
    <3>3. fr.state.doc => myDoc'[c]  BY <1>9, <1>13
    <3>4. QED  BY <3>1, <3>2, <3>3 DEF Holds
  <2>2. fr.spoilt => Tokens[c][Len(Doc[c])].err = "TagNameMismatch"
    <3>1. SUFFICES ASSUME fr.spoilt  PROVE Tokens[c][Len(Doc[c])].err = "TagNameMismatch"
      OBVIOUS
    <3>2. Tokens[c][st.buf].err = "TagNameMismatch"  BY <1>13, <3>1 DEF is_genuine_error
    <3>3. /\ Len(Doc[c]) \in 0..Len(Doc[c]) /\ st.buf \in 0..Len(Doc[c])
          /\ \A m \in 0..Len(Doc[c]) : \A n \in 0..m :
               Tokens[c][n].err = "TagNameMismatch" => Tokens[c][m].err = "TagNameMismatch"
      BY <1>1, <1>6, DocIsSeq, TokensGrow
    <3>4. QED  BY <3>2, <3>3
  <2>3. fr.began \in BOOLEAN /\ fr.spoilt \in BOOLEAN  BY <1>13 DEF is_genuine_error
  <2>4. fr.state.finished => ~fr.spoilt  BY <1>13, <1>14
  <2>5. fr.state.finished /\ ~fr.state.doc => fr.queue = <<>> /\ ~fr.began
    BY <1>13, <1>14, Zenon
  <2>6. QED  BY <1>13, <1>14, <2>1, <2>2, <2>3, <2>4, <2>5 DEF FrameOK
<1>16. MapOK'  BY <1>0, <1>10, <1>11, MapKeeps
<1>17. \A i \in 1..Len(frames) : frames[i].ctxt \in Ctxt /\ frames[i].ctxt # c  BY FramesAre
<1>18. CallsOK'
  <2>1. ASSUME NEW i \in 1..Len(frames')
        PROVE  \/ i \in 1..Len(frames) /\ frames'[i] = frames[i] /\ Same(frames[i].ctxt)
               \/ LET d == frames'[i].ctxt
                  IN  FrameOK(frames'[i], fired'[d], fed'[d], wellFormed'[d], myDoc'[d])
    <3>1. CASE i \in 1..Len(frames)  BY <1>10, <1>12, <1>17, <3>1
    <3>2. CASE i = Len(frames) + 1  BY <1>12, <1>13, <1>15, <3>2
    <3>3. QED  BY <1>12, <3>1, <3>2
  <2>2. QED  BY <1>0, <2>1, CallsKeep
<1>19. BeganOK'
  <2>1. \A i \in 1..Len(frames) : frames[i].began  BY <1>0, AllBegan
  <2>2. QED  BY <1>12, <1>13, <2>1 DEF BeganOK
<1>20. ValidNeverMistaken'
  <2>1. c \in live' /\ cleanEof(c, Len(Doc[c])) /\ ~wellFormed'[c] => Excused(c)'
    <3>1. SUFFICES ASSUME cleanEof(c, Len(Doc[c])), ~wellFormed'[c]  PROVE Excused(c)'  OBVIOUS
    <3>2. CASE t
      <4>1. /\ Len(frames) + 1 \in 1..Len(frames') /\ frames'[Len(frames) + 1].ctxt = c
            /\ frames'[Len(frames) + 1].state.finished
        <5>1. fr.ctxt = c /\ fr.state.finished  BY <1>13, <1>14, <3>2
        <5>2. Len(frames) + 1 \in 1..Len(frames')  BY <1>12
        <5>3. QED  BY <1>12, <5>1, <5>2
      <4>2. QED  BY <4>1 DEF Excused
    <3>3. CASE ~t
      <4>1. ~wellFormed[c]  BY <1>8, <3>1, <3>3
      <4>2. Excused(c)  BY <1>0, <3>1, <4>1 DEF ValidNeverMistaken, Excused
      <4>3. FALSE  BY <1>4, <1>17, <4>2 DEF Excused
      <4>4. QED  BY <4>3
    <3>4. QED  BY <3>2, <3>3
  <2>2. \A i \in 1..Len(frames) : frames[i].ctxt # c =>
            /\ i \in 1..Len(frames') /\ frames'[i].ctxt = frames[i].ctxt
            /\ frames'[i].state = frames[i].state
    BY <1>12
  <2>3. \A d \in live' : d # c =>
            /\ d \in live /\ wellFormed'[d] = wellFormed[d]
            /\ d \in DOMAIN push_states =>
                  d \in DOMAIN push_states' /\ push_states'[d] = push_states[d]
    BY <1>8, <1>11, FramesAre
  <2>4. QED  BY <1>0, <2>1, <2>2, <2>3, ValidKeeps
<1>21. HistoryOK'
  <2>1. fed' \in [Ctxt -> Nat]
    <3>1. st.buf \in Nat  BY <1>6 DEF StateOK
    <3>2. QED  BY <1>1, <3>1
  <2>2. \A d \in Ctxt : fed'[d] \in 0..Len(Doc[d])  BY <1>0, <1>5, <1>6 DEF HistoryOK
  <2>3. QED  BY <1>0, <1>8, <1>9, <2>1, <2>2 DEF HistoryOK
<1>22. QED  BY <1>16, <1>18, <1>19, <1>20, <1>21 DEF DInv

(* Firing moves an event from the queue to what was fired.                  *)
LEMMA FirstTold ==
  ASSUME NEW X, NEW f \in Seq(X), NEW q \in Seq(X), q # <<>>
  PROVE  /\ Append(f, Head(q)) \in Seq(X) /\ Tail(q) \in Seq(X)
         /\ Append(f, Head(q)) \o Tail(q) = f \o q
         /\ Len(Append(f, Head(q))) = Len(f) + 1 /\ Len(f \o q) = Len(f) + Len(q)
         /\ Len(f) \in Nat /\ Len(q) \in Nat /\ Len(q) > 0
         /\ \A i \in 1..Len(f) + 1 : Append(f, Head(q))[i] = (f \o q)[i]
<1>1. /\ Head(q) = q[1] /\ q[1] \in X /\ Len(q) \in Nat /\ Len(q) > 0 /\ Len(f) \in Nat
      /\ Tail(q) \in Seq(X) /\ Len(Tail(q)) = Len(q) - 1
      /\ \A i \in 1..Len(q) - 1 : Tail(q)[i] = q[i + 1]
  OBVIOUS
<1> PICK a : a = Append(f, q[1])  OBVIOUS
<1> PICK t : t = Tail(q)  OBVIOUS
<1>2. /\ a \in Seq(X) /\ Len(a) = Len(f) + 1 /\ a[Len(f) + 1] = q[1]
      /\ \A i \in 1..Len(f) : a[i] = f[i]
  BY <1>1, OneMore
<1>3. t \in Seq(X) /\ Len(t) = Len(q) - 1 /\ \A i \in 1..Len(q) - 1 : t[i] = q[i + 1]  BY <1>1
<1>4. /\ a \o t \in Seq(X) /\ Len(a \o t) = Len(a) + Len(t)
      /\ \A i \in 1..Len(a) + Len(t) : (a \o t)[i] = IF i <= Len(a) THEN a[i] ELSE t[i - Len(a)]
  BY <1>2, <1>3
<1>5. /\ f \o q \in Seq(X) /\ Len(f \o q) = Len(f) + Len(q)
      /\ \A i \in 1..Len(f) + Len(q) : (f \o q)[i] = IF i <= Len(f) THEN f[i] ELSE q[i - Len(f)]
  OBVIOUS
<1>6. \A i \in 1..Len(f) + 1 : a[i] = (f \o q)[i]
  BY <1>1, <1>2, <1>5
<1>7. \A i \in 1..Len(f) + Len(q) : (a \o t)[i] = (f \o q)[i]
  <2>1. ASSUME NEW i \in 1..Len(f) + Len(q)  PROVE (a \o t)[i] = (f \o q)[i]
    <3>1. CASE i <= Len(f) + 1  BY <1>1, <1>2, <1>3, <1>4, <1>6, <3>1
    <3>2. CASE i > Len(f) + 1
      <4>1. i - Len(a) \in 1..Len(q) - 1 /\ i - Len(a) + 1 = i - Len(f)  BY <1>1, <1>2, <3>2
      <4>2. (a \o t)[i] = t[i - Len(a)]  BY <1>1, <1>2, <1>3, <1>4, <3>2
      <4>3. (f \o q)[i] = q[i - Len(f)]  BY <1>1, <1>5, <3>2
      <4>4. QED  BY <1>3, <4>1, <4>2, <4>3
    <3>3. QED  BY <1>1, <3>1, <3>2
  <2>2. QED  BY <2>1
<1>8. Len(a \o t) = Len(f \o q)  BY <1>1, <1>2, <1>3, <1>4, <1>5
<1>9. a \o t = f \o q  BY <1>4, <1>5, <1>7, <1>8, SameSeq
<1>10. QED  BY <1>1, <1>2, <1>3, <1>5, <1>6, <1>9

(* The next callback of the innermost call.                                 *)
LEMMA Fires == ASSUME ~Recover, ~NoBlanks, IInv, DInv, Fire  PROVE DInv'
<1>0. HistoryOK /\ MapOK /\ CallsOK /\ BeganOK /\ ValidNeverMistaken  BY DEF DInv
<1>a. PICK n, top, c, q : n = Len(frames) /\ top = Last(frames) /\ c = top.ctxt /\ q = top.queue
  OBVIOUS
<1>1. /\ frames # <<>> /\ n \in Nat /\ n > 0 /\ frames \in Seq(Range(frames))
      /\ DOMAIN frames = 1..n /\ top = frames[n] /\ n \in 1..n /\ n = Len(frames)
  BY <1>a, FramesAre DEF Fire, Last
<1>2. /\ q # <<>> /\ fired' = [fired EXCEPT ![c] = Append(fired[c], Head(q))]
      /\ frames' = [frames EXCEPT ![n].queue = Tail(@), ![n].began = TRUE]
      /\ UNCHANGED <<live, push_states, finalizing, wellFormed, myDoc, fed, calls>>
  BY <1>a DEF Fire
<1>3. c = frames[n].ctxt /\ c \in Ctxt /\ c \notin DOMAIN push_states /\ q = frames[n].queue
      /\ \A i \in 1..n : i # n => frames[i].ctxt \in Ctxt /\ frames[i].ctxt # c
  BY <1>1, <1>a, FramesAre
<1>4. FrameOK(top, fired[c], fed[c], wellFormed[c], myDoc[c])
  BY <1>0, <1>1, <1>3 DEF CallsOK
<1>5. /\ top = [x \in FrFields |-> top[x]] /\ q \in Seq(SEv(c))
      /\ top.spoilt \in BOOLEAN
      /\ Holds(c, top.state, fired[c] \o q, fed[c], wellFormed[c], myDoc[c])
      /\ top.state.finished => ~top.spoilt
      /\ top.spoilt => Tokens[c][Len(Doc[c])].err = "TagNameMismatch"
      /\ top.ctxt = c /\ top.queue = q
      /\ ~(top.state.finished /\ ~top.state.doc)
  BY <1>2, <1>4, <1>a DEF FrameOK
<1>b. PICK fr : fr = [[top EXCEPT !.queue = Tail(q)] EXCEPT !.began = TRUE]  OBVIOUS
<1>6. /\ Len(frames') = n /\ frames'[n] = fr
      /\ \A i \in 1..n : i # n => frames'[i] = frames[i]
  <2>1. frames' = [[frames EXCEPT ![n] = [frames[n] EXCEPT !.queue = Tail(frames[n].queue)]]
                     EXCEPT ![n] = [[frames[n] EXCEPT !.queue = Tail(frames[n].queue)]
                                       EXCEPT !.began = TRUE]]
    BY <1>1, <1>2
  <2>2. fr = [[frames[n] EXCEPT !.queue = Tail(frames[n].queue)] EXCEPT !.began = TRUE]
    BY <1>1, <1>3, <1>b
  <2>3. QED  BY <1>1, <2>1, <2>2
<1>7. /\ fr = [x \in FrFields |-> fr[x]] /\ fr.ctxt = c /\ fr.state = top.state
      /\ fr.queue = Tail(q) /\ fr.began = TRUE /\ fr.spoilt = top.spoilt
  BY <1>5, <1>b DEF FrFields
<1>8. /\ fired[c] \in Seq(SEv(c)) /\ DOMAIN fired = Ctxt  BY <1>0, <1>3 DEF HistoryOK
<1>9. /\ fired'[c] = Append(fired[c], Head(q)) /\ DOMAIN fired' = Ctxt
      /\ \A d \in Ctxt : d # c => fired'[d] = fired[d]
  BY <1>2, <1>3, <1>8
<1>10. /\ fired'[c] \in Seq(SEv(c)) /\ Tail(q) \in Seq(SEv(c))
       /\ fired'[c] \o Tail(q) = fired[c] \o q
       /\ Len(fired'[c]) \in Nat /\ Len(fired[c] \o q) \in Nat
       /\ Len(fired'[c]) <= Len(fired[c] \o q)
       /\ \A i \in 1..Len(fired'[c]) : fired'[c][i] = (fired[c] \o q)[i]
  <2>1. /\ fired'[c] \in Seq(SEv(c)) /\ Tail(q) \in Seq(SEv(c))
        /\ fired'[c] \o Tail(q) = fired[c] \o q
        /\ Len(fired'[c]) = Len(fired[c]) + 1 /\ Len(fired[c] \o q) = Len(fired[c]) + Len(q)
        /\ Len(fired[c]) \in Nat /\ Len(q) \in Nat /\ Len(q) > 0
        /\ \A i \in 1..Len(fired[c]) + 1 : fired'[c][i] = (fired[c] \o q)[i]
    BY <1>2, <1>5, <1>8, <1>9, FirstTold
  <2> PICK a : a = fired'[c]  OBVIOUS
  <2> PICK s : s = fired[c] \o q  OBVIOUS
  <2>2. /\ Len(a) = Len(fired[c]) + 1 /\ Len(s) = Len(fired[c]) + Len(q)
        /\ Len(fired[c]) \in Nat /\ Len(q) \in Nat /\ Len(q) > 0
    BY <2>1
  <2>3. Len(a) \in Nat /\ Len(s) \in Nat /\ Len(a) <= Len(s)  BY <2>2
  <2>4. \A i \in 1..Len(a) : a[i] = s[i]  BY <2>1
  <2>5. QED  BY <2>1, <2>3, <2>4
<1>11. Orderly(c, fired'[c])
  <2>1. StateOK(c, top.state, fed[c], fired[c] \o q)  BY <1>5 DEF Holds
  <2>2. Orderly(c, fired[c] \o q)  BY <1>3, <2>1, StateDelivers
  <2>3. QED  BY <1>10, <2>2, OrderlyStart
<1>12. \A d \in Ctxt : d # c => Same(d)  BY <1>2, <1>9 DEF Same
<1>13. MapOK'
  <2>1. push_states' = push_states /\ DOMAIN push_states \subseteq Ctxt  BY <1>2, FramesAre
  <2>2. QED  BY <1>0, <1>3, <1>12, <2>1, MapKeeps
<1>14. FrameOK(fr, fired'[c], fed'[c], wellFormed'[c], myDoc'[c])
  <2>1. Holds(c, fr.state, fired'[c] \o fr.queue, fed'[c], wellFormed'[c], myDoc'[c])
    BY <1>2, <1>5, <1>7, <1>10
  <2>2. QED  BY <1>5, <1>7, <1>10, <2>1 DEF FrameOK
<1>15. CallsOK'
  <2>1. ASSUME NEW i \in 1..Len(frames')
        PROVE  \/ i \in 1..Len(frames) /\ frames'[i] = frames[i] /\ Same(frames[i].ctxt)
               \/ LET d == frames'[i].ctxt
                  IN  FrameOK(frames'[i], fired'[d], fed'[d], wellFormed'[d], myDoc'[d])
    <3>1. CASE i # n  BY <1>1, <1>3, <1>6, <1>12, <3>1
    <3>2. CASE i = n  BY <1>6, <1>7, <1>14, <3>2
    <3>3. QED  BY <3>1, <3>2
  <2>2. QED  BY <1>0, <2>1, CallsKeep
<1>16. BeganOK'
  <2>1. \A i \in 1..n : frames'[i].began
    <3>1. \A i \in 1..n : i # n => frames[i].began  BY <1>0, <1>1 DEF BeganOK
    <3>2. QED  BY <1>6, <1>7, <3>1
  <2>2. QED  BY <1>6, <2>1 DEF BeganOK
<1>17. ValidNeverMistaken'
  <2>1. \A i \in 1..Len(frames) :
            /\ i \in 1..Len(frames') /\ frames'[i].ctxt = frames[i].ctxt
            /\ frames'[i].state = frames[i].state
    BY <1>1, <1>3, <1>6, <1>7
  <2>2. c \in live' /\ cleanEof(c, Len(Doc[c])) /\ ~wellFormed'[c] => Excused(c)'
    <3>1. SUFFICES ASSUME c \in live, cleanEof(c, Len(Doc[c])), ~wellFormed[c]  PROVE Excused(c)'
      BY <1>2
    <3>2. Excused(c)  BY <1>0, <3>1 DEF ValidNeverMistaken, Excused
    <3>3. PICK i \in 1..Len(frames) : frames[i].ctxt = c /\ frames[i].state.finished
      BY <1>3, <3>2 DEF Excused
    <3>4. i \in 1..Len(frames') /\ frames'[i].ctxt = c /\ frames'[i].state.finished
      BY <2>1, <3>3
    <3>5. QED  BY <3>4 DEF Excused
  <2>3. QED  BY <1>0, <1>2, <2>1, <2>2, ValidKeeps
<1>18. HistoryOK'
  BY <1>0, <1>2, <1>9, <1>10, <1>11 DEF HistoryOK
<1>19. QED  BY <1>13, <1>15, <1>16, <1>17, <1>18 DEF DInv

(* The innermost call returns.  One that closed its context badly had no    *)
(* callback that could have freed it, and puts its state back.              *)
LEMMA Returns == ASSUME ~Recover, ~NoBlanks, IInv, DInv, Return  PROVE DInv'
<1>0. HistoryOK /\ MapOK /\ CallsOK /\ BeganOK /\ ValidNeverMistaken  BY DEF DInv
<1>a. PICK n, top, c, st : n = Len(frames) /\ top = Last(frames) /\ c = top.ctxt /\ st = top.state
  OBVIOUS
<1>1. /\ frames # <<>> /\ n \in Nat /\ n > 0 /\ frames \in Seq(Range(frames))
      /\ top = frames[n] /\ n \in 1..n /\ n = Len(frames)
  BY <1>a, FramesAre DEF Return, Last
<1>2. /\ top.queue = <<>> /\ frames' = Front(frames)
      /\ push_states' = IF finalizing = c THEN Put(push_states, c, st) ELSE push_states
      /\ wellFormed' = [wellFormed EXCEPT ![c] = @ /\ ~top.spoilt]
      /\ UNCHANGED <<live, myDoc, fired, fed>>
  BY <1>a DEF Return
<1>3. c = frames[n].ctxt /\ c \in Ctxt /\ c \notin DOMAIN push_states
      /\ \A i \in 1..n : i # n => frames[i].ctxt \in Ctxt /\ frames[i].ctxt # c
  BY <1>1, <1>a, FramesAre
<1>4. FrameOK(top, fired[c], fed[c], wellFormed[c], myDoc[c])
  BY <1>0, <1>1, <1>3 DEF CallsOK
<1>5. /\ top.spoilt \in BOOLEAN /\ top.ctxt = c /\ top.state = st
      /\ Holds(c, st, fired[c] \o <<>>, fed[c], wellFormed[c], myDoc[c])
      /\ st.finished => ~top.spoilt
      /\ top.spoilt => Tokens[c][Len(Doc[c])].err = "TagNameMismatch"
      /\ st.finished /\ ~st.doc => ~top.began
  BY <1>2, <1>4, <1>a DEF FrameOK
<1>6. fired[c] \in Seq(SEv(c)) /\ wellFormed \in [Ctxt -> BOOLEAN]  BY <1>0, <1>3 DEF HistoryOK
<1>7. fired[c] \o <<>> = fired[c]  BY <1>6, ConcatLaws
<1>8. Holds(c, st, fired[c], fed[c], wellFormed[c], myDoc[c])  BY <1>5, <1>7
<1>9. /\ wellFormed' \in [Ctxt -> BOOLEAN]
      /\ wellFormed'[c] = (wellFormed[c] /\ ~top.spoilt)
      /\ \A d \in Ctxt : d # c => wellFormed'[d] = wellFormed[d]
  <2>1. wellFormed' = [wellFormed EXCEPT ![c] = wellFormed[c] /\ ~top.spoilt]  BY <1>2
  <2>2. (wellFormed[c] /\ ~top.spoilt) \in BOOLEAN  OBVIOUS
  <2>3. QED  BY <1>3, <1>6, <2>1, <2>2, Zenon
<1>10. Holds(c, st, fired'[c], fed'[c], wellFormed'[c], myDoc'[c])
  <2>1. st.finished => (wellFormed[c] <=> st.doc)  BY <1>8 DEF Holds
  <2>2. st.finished => (wellFormed'[c] <=> st.doc)
    BY <1>5, <1>9, <2>1, Zenon
  <2>4. StateOK(c, st, fed'[c], fired'[c]) /\ (st.doc => myDoc'[c])  BY <1>2, <1>8 DEF Holds
  <2>5. QED  BY <2>2, <2>4 DEF Holds
<1>11. \A d \in Ctxt : d # c => Same(d)  BY <1>2, <1>9 DEF Same
<1>12. /\ \A d \in DOMAIN push_states :
             d # c /\ d \in DOMAIN push_states' /\ push_states'[d] = push_states[d]
       /\ \A d \in DOMAIN push_states' : d # c => d \in DOMAIN push_states
       /\ c \in DOMAIN push_states' => push_states'[c] = st
       /\ finalizing = c => c \in DOMAIN push_states'
  <2>1. CASE finalizing = c
    <3>1. push_states' = Put(push_states, c, st)  BY <1>2, <2>1
    <3>2. QED  BY <1>3, <3>1 DEF Put
  <2>2. CASE finalizing # c  BY <1>2, <1>3, <2>2
  <2>3. QED  BY <2>1, <2>2
<1>13. MapOK'
  <2>1. DOMAIN push_states \subseteq Ctxt  BY FramesAre
  <2>2. \A d \in DOMAIN push_states' : d # c =>
            d \in DOMAIN push_states /\ push_states'[d] = push_states[d] /\ Same(d)
    BY <1>11, <1>12, <2>1
  <2>3. c \in DOMAIN push_states' =>
            Holds(c, push_states'[c], fired'[c], fed'[c], wellFormed'[c], myDoc'[c])
    BY <1>10, <1>12
  <2>4. QED  BY <1>0, <2>2, <2>3, MapKeeps
<1>14. /\ Len(frames') = n - 1 /\ \A i \in 1..n - 1 : frames'[i] = frames[i]
  BY <1>1, <1>2, FrontOfSeq
<1>15. CallsOK'
  <2>1. ASSUME NEW i \in 1..Len(frames')
        PROVE  i \in 1..Len(frames) /\ frames'[i] = frames[i] /\ Same(frames[i].ctxt)
    <3>1. i \in 1..n - 1 /\ i \in 1..n /\ i # n  BY <1>1, <1>14
    <3>2. QED  BY <1>1, <1>3, <1>11, <1>14, <3>1
  <2>2. QED  BY <1>0, <2>1, CallsKeep
<1>16. BeganOK'
  <2>1. \A i \in 1..n - 1 : frames'[i].began  BY <1>0, <1>1, <1>14 DEF BeganOK
  <2>2. QED  BY <1>14, <2>1 DEF BeganOK
<1>17. ValidNeverMistaken'
  <2>1. \A i \in 1..Len(frames) : frames[i].ctxt # c =>
            /\ i \in 1..Len(frames') /\ frames'[i].ctxt = frames[i].ctxt
            /\ frames'[i].state = frames[i].state
    <3>1. ASSUME NEW i \in 1..n, frames[i].ctxt # c
          PROVE  i \in 1..Len(frames') /\ frames'[i] = frames[i]
      <4>1. i # n  BY <1>3, <3>1
      <4>2. i \in 1..n - 1  BY <1>1, <4>1
      <4>3. QED  BY <1>14, <4>2
    <3>2. QED  BY <1>1, <3>1
  <2>2. c \in live' /\ cleanEof(c, Len(Doc[c])) /\ ~wellFormed'[c] => Excused(c)'
    <3>1. SUFFICES ASSUME c \in live, cleanEof(c, Len(Doc[c])), ~wellFormed'[c]  PROVE Excused(c)'
      BY <1>2
    <3>2. ~top.spoilt  BY <1>5, <3>1 DEF cleanEof
    <3>3. ~wellFormed[c]  BY <1>9, <3>1, <3>2
    <3>4. Excused(c)  BY <1>0, <3>1, <3>3 DEF ValidNeverMistaken, Excused
    <3>5. st.finished
      <4>1. PICK i \in 1..Len(frames) : frames[i].ctxt = c /\ frames[i].state.finished
        BY <1>3, <3>4 DEF Excused
      <4>2. i = n  BY <1>1, <1>3, <4>1
      <4>3. QED  BY <1>1, <1>5, <4>1, <4>2
    <3>6. ~st.doc  BY <1>8, <3>3, <3>5 DEF Holds
    <3>7. ~top.began  BY <1>5, <3>5, <3>6
    <3>8. finalizing = c  BY <1>0, <1>1, <1>3, <3>7 DEF BeganOK
    <3>9. QED  BY <1>12, <3>5, <3>8 DEF Excused
  <2>3. \A d \in live' : d # c =>
            /\ d \in live /\ wellFormed'[d] = wellFormed[d]
            /\ d \in DOMAIN push_states =>
                  d \in DOMAIN push_states' /\ push_states'[d] = push_states[d]
    BY <1>2, <1>9, <1>12, FramesAre
  <2>4. QED  BY <1>0, <2>1, <2>2, <2>3, ValidKeeps
<1>18. HistoryOK'
  BY <1>0, <1>2, <1>9 DEF HistoryOK
<1>19. QED  BY <1>13, <1>15, <1>16, <1>17, <1>18 DEF DInv

(* Every call of xmlParseChunk is one of these.                             *)
LEMMA Parses ==
  ASSUME ~Recover, ~NoBlanks, IInv, DInv, NEW c \in Ctxt, NEW k \in Nat, NEW t \in BOOLEAN,
         xmlParseChunk(c, k, t)
  PROVE  DInv'
<1>0. HistoryOK /\ MapOK  BY DEF DInv
<1>1. /\ c \in live \ InFlight /\ (frames # <<>> => Last(frames).began)
      /\ UNCHANGED <<live, fired>>
  BY DEF xmlParseChunk, MayCall
<1>2. CASE c \notin DOMAIN push_states
  <2>1. UNCHANGED <<push_states, finalizing, frames, wellFormed, myDoc, fed>>
    BY <1>2 DEF xmlParseChunk
  <2>2. QED  BY <1>1, <2>1, Stutters
<1>3. CASE c \in DOMAIN push_states
  <2>s. PICK st : st = [push_states[c] EXCEPT !.buf = @ + k]  OBVIOUS
  <2>1. /\ st.buf <= Len(Doc[c])
        /\ fed' = IF st.finished THEN fed ELSE [fed EXCEPT ![c] = st.buf]
    BY <1>3, <2>s, Zenon DEF xmlParseChunk
  <2>2. CASE st.finished \/ (~t /\ Kind[c] # "event")
    <3>1. /\ push_states' = [push_states EXCEPT ![c] = st]
          /\ UNCHANGED <<finalizing, frames, wellFormed, myDoc>>
      BY <1>3, <2>s, <2>2, Zenon DEF xmlParseChunk
    <3>2. BuffersIn(c, k, st)  BY <1>1, <1>3, <2>s, <2>1, <3>1, Zenon DEF BuffersIn
    <3>3. QED  BY <3>2, Buffers
  <2>3. CASE ~(st.finished \/ (~t /\ Kind[c] # "event"))
    <3>w. PICK w : w = Work(c, st, t)  OBVIOUS
    <3>f. PICK fr : fr = [ctxt |-> c, state |-> w.state, queue |-> w.queue, began |-> FALSE,
                        spoilt |-> ~t /\ is_genuine_error(Tokens[c][st.buf].err)]
      OBVIOUS
    <3>1. /\ push_states' = Drop(push_states, c) /\ finalizing' = c
          /\ frames' = Append(frames, fr)
          /\ wellFormed' = IF t THEN [wellFormed EXCEPT ![c] = cleanEof(c, st.buf)] ELSE wellFormed
          /\ myDoc' = [myDoc EXCEPT ![c] = @ \/ w.queue # <<>> \/ w.state.doc]
      BY <1>3, <2>s, <2>3, <3>w, <3>f, Zenon DEF xmlParseChunk
    <3>a. PICK md : md = (myDoc[c] \/ w.queue # <<>> \/ w.state.doc)  OBVIOUS
    <3>2. md \in BOOLEAN /\ (w.state.doc => md) /\ myDoc' = [myDoc EXCEPT ![c] = md]
      BY <3>1, <3>a, Zenon
    <3>3. fed' = [fed EXCEPT ![c] = st.buf]  BY <2>1, <2>3
    <3>4. ~st.finished /\ (t \/ Kind[c] = "event")  BY <2>3
    <3>5. BeginsWith(c, k, t, st, w, fr, md)
      BY <1>1, <1>3, <2>s, <2>1, <3>w, <3>f, <3>1, <3>2, <3>3, <3>4, Zenon DEF BeginsWith
    <3>6. QED  BY <3>2, <3>5, Begins
  <2>4. QED  BY <2>2, <2>3
<1>4. QED  BY <1>2, <1>3

(* DInv is inductive, given where the states are.                           *)
LEMMA NextDelivers ==
  ASSUME ~Recover, ~NoBlanks, IInv, DInv, [Next]_vars
  PROVE  DInv'
<1>0. HistoryOK  BY DEF DInv
<1>1. ASSUME NEW c \in Ctxt, NEW n \in 0..1, xmlCreatePushParserCtxt(c, n)  PROVE DInv'
  <2>1. /\ c \in Ctxt \ InFlight /\ n \in 0..Len(Doc[c]) /\ live' = live \cup {c}
        /\ push_states' = Put(push_states, c, NewState(n))
        /\ wellFormed' = [wellFormed EXCEPT ![c] = TRUE]
        /\ fired' = [fired EXCEPT ![c] = <<>>] /\ fed' = [fed EXCEPT ![c] = n]
        /\ UNCHANGED <<frames, finalizing>> /\ myDoc' = [myDoc EXCEPT ![c] = FALSE]
    BY <1>1, DocIsSeq DEF xmlCreatePushParserCtxt
  <2>2. QED  BY <2>1, Restarts
<1>2. ASSUME NEW c \in Ctxt, NEW n \in 0..1, xmlCtxtResetPush(c, n)  PROVE DInv'
  <2>1. /\ c \in Ctxt \ InFlight /\ n \in 0..Len(Doc[c]) /\ live' \subseteq live \cup {c}
        /\ push_states' = Put(push_states, c, NewState(n))
        /\ wellFormed' = [wellFormed EXCEPT ![c] = TRUE]
        /\ fired' = [fired EXCEPT ![c] = <<>>] /\ fed' = [fed EXCEPT ![c] = n]
        /\ UNCHANGED <<frames, finalizing>> /\ myDoc' = myDoc
    BY <1>2, DocIsSeq DEF xmlCtxtResetPush
  <2>2. myDoc' = [myDoc EXCEPT ![c] = myDoc[c]] /\ myDoc[c] \in BOOLEAN
    BY <1>0, <2>1 DEF HistoryOK
  <2>3. QED  BY <2>1, <2>2, Restarts
<1>3. ASSUME NEW c \in Ctxt, xmlFreeParserCtxt(c)  PROVE DInv'
  <2>1. c \in live  BY <1>3 DEF xmlFreeParserCtxt
  <2>2. QED  BY <1>3, <2>1, Frees
<1>4. ASSUME NEW c \in Ctxt, NEW k \in 0..Len(Doc[c]), NEW t \in BOOLEAN, xmlParseChunk(c, k, t)
      PROVE  DInv'
  <2>1. k \in Nat  BY DocIsSeq
  <2>2. QED  BY <1>4, <2>1, Parses
<1>5. CASE Fire  BY <1>5, Fires
<1>6. CASE Return  BY <1>6, Returns
<1>7. CASE UNCHANGED vars
  <2>1. UNCHANGED <<live, push_states, finalizing, frames, wellFormed, myDoc, fired, fed>>
    BY <1>7 DEF vars
  <2>2. QED  BY <2>1, Stutters
<1>8. QED  BY <1>1, <1>2, <1>3, <1>4, <1>5, <1>6, <1>7, Zenon DEF Next

-----------------------------------------------------------------------------
(* The properties.                                                          *)

LEMMA ToldStart ==
  \A e : Told(e, StartDocument) => e # EndDocument
<1>1. EndDocument[1] = "endDocument" /\ StartDocument[1] = "startDocument"  BY EventsAre
<1>2. QED  BY <1>1 DEF Told, IsText

LEMMA ClosedIsDelivered ==
  ASSUME ~Recover, ~NoBlanks, IInv, DInv
  PROVE  ClosedDelivered
<1>1. SUFFICES ASSUME NEW c \in DOMAIN push_states, push_states[c].finished
      PROVE  IF wellFormed[c]
             THEN /\ cleanEof(c, fed[c]) /\ myDoc[c]
                  /\ Kind[c] # "plain" =>
                       Len(fired[c]) = Len(Whole(c, fed[c])) /\ Delivers(fired[c], Whole(c, fed[c]))
             ELSE EndDocument \notin Range(fired[c])
  BY DEF ClosedDelivered, Whole
<1> PICK st, f, n : st = push_states[c] /\ f = fired[c] /\ n = fed[c]  OBVIOUS
<1>2. c \in Ctxt  BY FramesAre
<1>3. /\ StateOK(c, st, n, f) /\ (wellFormed[c] <=> st.doc) /\ (st.doc => myDoc[c])
  BY <1>1 DEF DInv, MapOK, Holds
<1>4. n \in 0..Len(Doc[c]) /\ f \in Seq(SEv(c)) /\ st.finished  BY <1>1, <1>3 DEF StateOK
<1>5. CASE wellFormed[c]
  <2>1. cleanEof(c, n) /\ myDoc[c] /\ st.doc  BY <1>3, <1>5 DEF StateOK
  <2>2. Delivers(f, Whole(c, n))  BY <1>2, <1>3, StateDelivers
  <2>3. Kind[c] # "plain" => Len(f) = Len(Whole(c, n))
    <3>1. CASE Kind[c] = "event"
      <4> PICK inc, evs : inc = st.inc_doc /\ evs = Tokens[c][n].evs  OBVIOUS
      <4>1. /\ inc \in Seq(Ev(c)) /\ f = Shown(st) /\ st.started_doc /\ Len(inc) = Len(evs)
        BY <2>1, <3>1, <1>3 DEF StateOK, Grown
      <4>2. f = <<StartDocument>> \o inc \o <<EndDocument>>  BY <2>1, <4>1 DEF Shown
      <4>3. evs \in Seq(Ev(c))  BY <1>2, <1>4, TokensGrow
      <4>4. Whole(c, n) = <<StartDocument>> \o evs \o <<EndDocument>>  BY DEF Whole, EventsOf
      <4>5. /\ Len(<<StartDocument>> \o inc \o <<EndDocument>>) = Len(inc) + 2
            /\ Len(<<StartDocument>> \o evs \o <<EndDocument>>) = Len(evs) + 2
        <5>1. \A s \in Seq(Ev(c)) : Len(<<StartDocument>> \o s \o <<EndDocument>>) = Len(s) + 2
          OBVIOUS
        <5>2. QED  BY <4>1, <4>3, <5>1
      <4>6. QED  BY <4>1, <4>2, <4>4, <4>5
    <3>2. CASE Kind[c] # "event"  BY <1>3, <2>1, <3>2 DEF StateOK
    <3>3. QED  BY <3>1, <3>2
  <2>4. QED  BY <1>5, <2>1, <2>2, <2>3
<1>6. CASE ~wellFormed[c]
  <2>1. Delivers(f, EventsOf(c, n))  BY <1>3, <1>4, <1>6 DEF StateOK
  <2>2. ASSUME NEW i \in 1..Len(f)  PROVE f[i] # EndDocument
    <3>1. PICK e : e = EventsOf(c, n)[i]  OBVIOUS
    <3>2. Told(f[i], e) /\ f[i] \in SEv(c)  BY <1>4, <2>1, <3>1 DEF Delivers
    <3>3. e \in Ev(c) \/ e = StartDocument
      <4> PICK evs : evs = Tokens[c][n].evs  OBVIOUS
      <4>1. evs \in Seq(Ev(c))  BY <1>2, <1>4, TokensGrow
      <4>2. e = (<<StartDocument>> \o evs)[i]  BY <3>1 DEF EventsOf
      <4>3. Len(EventsOf(c, n)) = Len(evs) + 1 /\ EventsOf(c, n) = <<StartDocument>> \o evs
        BY <4>1 DEF EventsOf
      <4>4. i \in 1..Len(evs) + 1
        BY <1>4, <2>1, <4>1, <4>3 DEF Delivers
      <4>5. \A s \in Seq(Ev(c)) : \A j \in 1..Len(s) + 1 :
               (<<StartDocument>> \o s)[j] = IF j = 1 THEN StartDocument ELSE s[j - 1]
        OBVIOUS
      <4>6. QED  BY <4>1, <4>2, <4>4, <4>5
    <3>4. \A g \in SEv(c), h \in Ev(c) :
             Told(g, h) \/ Told(g, StartDocument) => g # EndDocument
      BY SaidIsOrder
    <3>5. QED
      <4>1. CASE e \in Ev(c)  BY <3>2, <3>4, <4>1
      <4>2. CASE e = StartDocument
        <5>1. Told(f[i], StartDocument) /\ f[i] \in SEv(c)  BY <3>2, <4>2
        <5>2. f[i] # EndDocument  BY <5>1, ToldStart
        <5>3. QED  BY <5>2
      <4>3. QED  BY <3>3, <4>1, <4>2
  <2>3. QED  BY <1>4, <1>6, <2>2 DEF Range
<1>7. QED  BY <1>5, <1>6

(* What a consumer relies on follows.                                       *)
LEMMA AllIsDelivered ==
  ASSUME ~Recover, ~NoBlanks, IInv, DInv
  PROVE  EventsDelivered /\ FiredIsTheTree
<1>1. DeliveredInOrder
  <2>1. \A c \in Ctxt : fired[c] \in Seq(SEv(c)) /\ Orderly(c, fired[c])  BY DEF DInv, HistoryOK
  <2>2. QED  BY <2>1, OrderlyInOrder DEF DeliveredInOrder
<1>2. FiredIsTheTree
  <2>1. ASSUME NEW c \in DOMAIN push_states, Kind[c] = "event",
               push_states[c].doc \/ ~push_states[c].finished
        PROVE  /\ fired[c] = Shown(push_states[c])
               /\ Len(push_states[c].inc_doc) = push_states[c].events_fired
    BY <2>1 DEF DInv, MapOK, Holds, StateOK
  <2>2. QED  BY <2>1 DEF FiredIsTheTree, Shown
<1>3. QED  BY <1>1, <1>2, ClosedIsDelivered DEF DInv, EventsDelivered

(* However a consumer cuts its documents into feeds, and whatever it calls  *)
(* from its callbacks, it is told the events of the whole document in order: *)
(* none is skipped or told twice, all of them are by a close that says well *)
(* formed, and endDocument by no other; and a valid document is never said  *)
(* malformed before its close (xmlParseChunk, incremental_feed,             *)
(* finalize_push_parse_incremental).  For any contexts, documents and depth *)
(* of calls in callbacks, and a parser with neither XML_PARSE_RECOVER nor   *)
(* XML_PARSE_NOBLANKS.                                                      *)
THEOREM EventsAreDelivered ==
  ASSUME ~Recover, ~NoBlanks
  PROVE  Spec => []EventsDelivered
<1>1. Init => IInv /\ DInv  BY InitHolds, InitDelivers
<1>2. IInv /\ DInv /\ [Next]_vars => (IInv /\ DInv)'  BY NextKeeps, NextDelivers
<1>3. IInv /\ DInv => EventsDelivered  BY AllIsDelivered
<1>4. QED  BY <1>1, <1>2, <1>3, PTL DEF Spec

(* Between calls an event handler was fired exactly the nodes of the tree   *)
(* that the parse ends with, and the watermark events_fired counts them     *)
(* (build_prefix, replay_range): for any contexts, documents and calls, and *)
(* a parser with neither of the two options.                                *)
THEOREM TheTreeIsWhatWasFired ==
  ASSUME ~Recover, ~NoBlanks
  PROVE  Spec => []FiredIsTheTree
<1>1. Init => IInv /\ DInv  BY InitHolds, InitDelivers
<1>2. IInv /\ DInv /\ [Next]_vars => (IInv /\ DInv)'  BY NextKeeps, NextDelivers
<1>3. IInv /\ DInv => FiredIsTheTree  BY AllIsDelivered
<1>4. QED  BY <1>1, <1>2, <1>3, PTL DEF Spec
=============================================================================
