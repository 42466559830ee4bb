------------------------ MODULE XmlBytesReader_proofs ------------------------
(***************************************************************************)
(* Proofs about XmlBytesReader, for every document, entity table and limit.*)
(* A step does one thing to the stack of streams and one thing to the      *)
(* stack of elements; the invariant is proved for these effects, not for   *)
(* the two dozen actions that have them.                                   *)
(***************************************************************************)
EXTENDS XmlBytesReader, WellFoundedInduction, SequenceTheorems, TLAPS

StreamRec == [name : {Source} \cup Entities, pos : Nat \ {0}, atPush : Nat]
FrameRec  == [name : Names, owned : BOOLEAN, stream : Nat \ {0}]

TextAt(i) == IF i = 1 THEN doc ELSE entities[streams[i].name].text

RestOK ==
  /\ [doc |-> doc, entities |-> entities] \in Inputs /\ opts \in Options
  /\ deferred \subseteq Entities /\ failed \subseteq Entities
  /\ rootSeen \in BOOLEAN /\ logged \in BOOLEAN
  /\ state.at \in {"Steady", "PendingEnd", "PendingRef"}

StreamsOK ==
  /\ streams \in Seq(StreamRec) /\ streams # << >> /\ streams[1].name = Source
  /\ \A i \in 2..Len(streams) : streams[i].name \in Entities
  /\ \A i \in 1..Len(streams) : streams[i].pos <= Len(TextAt(i)) + 1

(* What is left to read of a replacement text.                             *)
Left(i) == (Len(entities[streams[i].name].text) + 1) - streams[i].pos

(* C[i] is what is left of the texts up to i: read and left together were  *)
(* paid for when they were pushed.                                         *)
Paid(C) ==
  /\ C \in [1..Len(streams) -> Nat] /\ C[1] = 0
  /\ \A i \in 2..Len(streams) : C[i] = C[i - 1] + Left(i)
  /\ taken + C[Len(streams)] <= used

SpentOK == taken \in Nat /\ used \in 0..Budget /\ \E C \in [1..Len(streams) -> Nat] : Paid(C)

(* An element was started in an active stream s or above it exactly if it  *)
(* is on the stack above the elements that s was pushed in.                *)
FramesOK ==
  /\ stack \in Seq(FrameRec)
  /\ \A i \in 1..Len(stack) : stack[i].stream <= Len(streams)
  /\ \A i \in 2..Len(stack) : stack[i - 1].stream <= stack[i].stream
  /\ \A s \in 2..Len(streams) :
       /\ streams[s].atPush <= Len(stack)
       /\ \A i \in 1..Len(stack) : stack[i].stream < s <=> i <= streams[s].atPush
  /\ segment \in Nat \cup {NONE} /\ (segment # NONE => segment = Len(stack))

NestOK ==
  /\ depth \in 0..MaxDepth /\ DepthTracksStack
  /\ open \in Seq(Names) /\ outcome \in {"reading", "eof", "error", "limit"}
  /\ outcome = "reading" =>
       /\ Len(open) = Len(stack) + (IF state.at = "PendingEnd" THEN 1 ELSE 0)
       /\ \A i \in 1..Len(stack) : open[i] = stack[i].name
       /\ state.at = "PendingEnd" => state.name \in {open[Len(open)], Elsewhere}
  /\ event.k = "end" => event.n \in {event.of, Empty, Elsewhere}

IInv == RestOK /\ StreamsOK /\ SpentOK /\ FramesOK /\ NestOK
-----------------------------------------------------------------------------
LEMMA Numbers == MaxDepth \in Nat /\ Budget \in Nat /\ NONE \notin Nat
BY ReaderAssumption

LEMMA InputFacts ==
  ASSUME RestOK
  PROVE  /\ doc \in Seq(Token)
         /\ \A x \in Entities : entities[x].text \in Seq(Token)
         /\ opts.recovery \in BOOLEAN /\ opts.resolve \in BOOLEAN
<1>1. [doc |-> doc, entities |-> entities] \in
        [doc : Seq(Token), entities : [Entities -> [text : Seq(Token), external : BOOLEAN]]]
  BY ReaderAssumption DEF RestOK
<1>2. opts \in [recovery : BOOLEAN, resolve : BOOLEAN]
  BY ReaderAssumption DEF RestOK
<1> QED BY <1>1, <1>2

LEMMA TextFacts ==
  ASSUME RestOK, StreamsOK
  PROVE  /\ \A i \in 1..Len(streams) : TextAt(i) \in Seq(Token)
         /\ Len(streams) \in Nat \ {0} /\ Cursor = streams[Len(streams)] /\ Cursor \in StreamRec
         /\ Bytes = TextAt(Len(streams))
         /\ Cursor.pos \in 1..Len(Bytes) + 1 /\ Len(Bytes) \in Nat
         /\ ~AtEnd => Bytes[Cursor.pos] \in Token
         /\ OnSource <=> Len(streams) = 1
<1>1. Len(streams) \in Nat \ {0} /\ \A i \in 1..Len(streams) : streams[i] \in StreamRec
  BY DEF StreamsOK
<1>2. \A i \in 1..Len(streams) : TextAt(i) \in Seq(Token)
  BY <1>1, InputFacts DEF StreamsOK, TextAt
<1>3. Cursor = streams[Len(streams)] /\ Cursor \in StreamRec
  BY <1>1 DEF Cursor, Top
<1>4. Bytes = TextAt(Len(streams))
  BY <1>3 DEF Bytes, TextAt, OnSource
<1>5. Bytes \in Seq(Token) /\ Len(Bytes) \in Nat
  BY <1>1, <1>2, <1>4
<1>6. Cursor.pos \in 1..Len(Bytes) + 1
  <2>1. Cursor.pos \in Nat \ {0}
    BY <1>3 DEF StreamRec
  <2> QED BY <1>1, <1>3, <1>4, <1>5, <2>1 DEF StreamsOK
<1>7. ~AtEnd => Bytes[Cursor.pos] \in Token
  BY <1>5, <1>6 DEF AtEnd
<1> QED BY <1>1, <1>2, <1>3, <1>4, <1>5, <1>6, <1>7 DEF OnSource

(* A tag at the cursor has the name of an element.                         *)
LEMMA TagNames ==
  ASSUME RestOK, StreamsOK, Looking({"start"}) \/ Looking({"empty"}) \/ Looking({"end"})
  PROVE  Here \in Names
<1>1. Bytes[Cursor.pos] \in Token /\ Bytes[Cursor.pos].k \in {"start", "empty", "end"}
  BY TextFacts DEF Looking
<1> QED BY <1>1 DEF Token, Here

LEMMA Popping ==
  ASSUME NEW S, NEW s \in Seq(S), s # << >>
  PROVE  /\ Popped(s) \in Seq(S) /\ Len(Popped(s)) = Len(s) - 1
         /\ \A i \in 1..Len(s) - 1 : Popped(s)[i] = s[i]
         /\ Len(s) \in Nat \ {0} /\ Top(s) = s[Len(s)] /\ Top(s) \in S
<1>1. Len(s) \in Nat \ {0}
  OBVIOUS
<1>2. Popped(s) = [i \in 1..Len(s) - 1 |-> s[i]]
  BY <1>1 DEF Popped
<1>3. Len(s) - 1 \in Nat /\ \A i \in 1..Len(s) - 1 : s[i] \in S
  BY <1>1
<1>4. Popped(s) \in Seq(S) /\ Len(Popped(s)) = Len(s) - 1
  BY <1>2, <1>3
<1> QED BY <1>1, <1>2, <1>4 DEF Top

LEMMA Pushing ==
  ASSUME NEW S, NEW s \in Seq(S), NEW x \in S
  PROVE  /\ Append(s, x) \in Seq(S) /\ Len(Append(s, x)) = Len(s) + 1
         /\ \A i \in 1..Len(s) : Append(s, x)[i] = s[i]
         /\ Append(s, x)[Len(s) + 1] = x
         /\ Len(s) \in Nat
OBVIOUS

(* The run of plain text at the cursor has an end.                         *)
LEMMA RunEnds ==
  ASSUME RestOK, StreamsOK
  PROVE  AfterRun(Cursor.pos) \in Cursor.pos..Len(Bytes) + 1
<1> DEFINE p == Cursor.pos  l == Len(Bytes)
           T == {q \in p..l + 1 : q <= l => Bytes[q].k \notin {"text", "ws"}}
<1>1. p \in Nat /\ l \in Nat /\ p <= l + 1
  BY TextFacts
<1>2. T \subseteq Nat /\ T # {}
  <2>1. l + 1 \in T
    BY <1>1
  <2> QED BY <1>1, <2>1
<1>3. PICK q \in T : \A i \in T : ~(<<i, q>> \in OpToRel(<, Nat))
  <2>1. IsWellFoundedOn(OpToRel(<, Nat), Nat)
    BY NatLessThanWellFounded
  <2> HIDE DEF T
  <2> QED BY <1>2, <2>1, WFMin
<1>4. \A i \in T : ~(i < q)
  BY <1>2, <1>3 DEF OpToRel
<1>5. \A i \in p..q - 1 : Bytes[i].k \in {"text", "ws"}
  <2>1. SUFFICES ASSUME NEW i \in p..q - 1, Bytes[i].k \notin {"text", "ws"} PROVE FALSE
    OBVIOUS
  <2>2. i \in T /\ i < q
    BY <1>1, <2>1
  <2> QED BY <1>4, <2>2
<1>6. q <= l => Bytes[q].k \notin {"text", "ws"}
  BY <1>3
<1>7. \E x \in p..l + 1 :
        /\ \A i \in p..x - 1 : Bytes[i].k \in {"text", "ws"}
        /\ x <= l => Bytes[x].k \notin {"text", "ws"}
  BY <1>3, <1>5, <1>6
<1> QED BY <1>7 DEF AfterRun

-----------------------------------------------------------------------------
(* What a step does to the stack of streams.                               *)

StreamsKept == streams' = streams /\ taken' = taken /\ used' = used

(* Moving the cursor of the top stream.                                    *)
At(q) == [streams EXCEPT ![Len(streams)].pos = q]

StreamMoved ==
  \E q \in Cursor.pos..Len(Bytes) + 1 :
    /\ streams' = At(q)
    /\ taken' = (IF OnSource THEN taken ELSE taken + (q - Cursor.pos))
    /\ used' = used

StreamLeft == ~OnSource /\ streams' = Popped(streams) /\ taken' = taken /\ used' = used

StreamPushed ==
  \E x \in Entities :
    /\ ~AtEnd /\ segment \in Nat /\ ~OverBudget(x) /\ used' = used + Cost(x)
    /\ streams' = Append(At(Cursor.pos + 1), NewStream(x))
    /\ taken' = (IF OnSource THEN taken ELSE taken + 1)

StreamStep == StreamsKept \/ StreamMoved \/ StreamLeft \/ StreamPushed

(* The fields of the streams.                                              *)
LEMMA StreamFields ==
  ASSUME StreamsOK, RestOK
  PROVE  /\ Len(streams) \in Nat \ {0} /\ DOMAIN streams = 1..Len(streams)
         /\ \A i \in 1..Len(streams) :
              /\ streams[i] \in StreamRec /\ streams[i].pos \in Nat \ {0}
              /\ streams[i].atPush \in Nat
              /\ Len(TextAt(i)) \in Nat /\ streams[i].pos <= Len(TextAt(i)) + 1
<1>1. Len(streams) \in Nat \ {0} /\ DOMAIN streams = 1..Len(streams)
  BY DEF StreamsOK
<1>2. \A i \in 1..Len(streams) : streams[i] \in StreamRec
  BY DEF StreamsOK
<1>3. \A r \in StreamRec : r.pos \in Nat \ {0} /\ r.atPush \in Nat
  BY DEF StreamRec
<1>4. ASSUME NEW i \in 1..Len(streams)
      PROVE  Len(TextAt(i)) \in Nat /\ streams[i].pos <= Len(TextAt(i)) + 1
  <2>1. TextAt(i) \in Seq(Token)
    BY TextFacts
  <2> QED BY <2>1 DEF StreamsOK
<1> QED BY <1>1, <1>2, <1>3, <1>4

LEMMA FunctionIsSeq ==
  ASSUME NEW S, NEW n \in Nat, NEW s, DOMAIN s = 1..n, s = [i \in 1..n |-> s[i]],
         \A i \in 1..n : s[i] \in S
  PROVE  s \in Seq(S) /\ Len(s) = n
<1>1. s \in [1..n -> S]
  OBVIOUS
<1>2. s \in Seq(S)
  BY <1>1, SeqDef
<1> QED BY <1>2

LEMMA Moving ==
  ASSUME RestOK, StreamsOK, NEW q \in Nat \ {0}
  PROVE  /\ At(q) \in Seq(StreamRec) /\ Len(At(q)) = Len(streams)
         /\ \A i \in 1..Len(streams) :
              At(q)[i].name = streams[i].name /\ At(q)[i].atPush = streams[i].atPush
         /\ \A i \in 1..Len(streams) : i # Len(streams) => At(q)[i].pos = streams[i].pos
         /\ At(q)[Len(streams)].pos = q
<1> DEFINE n == Len(streams)  s == At(q)
<1>1. n \in Nat \ {0} /\ DOMAIN streams = 1..n /\ \A i \in 1..n : streams[i] \in StreamRec
  BY StreamFields
<1>2. /\ DOMAIN s = 1..n
      /\ s[n] = [streams[n] EXCEPT !.pos = q]
      /\ \A i \in 1..n : i # n => s[i] = streams[i]
  BY <1>1 DEF At
<1>3. \A r \in StreamRec : /\ [r EXCEPT !.pos = q] \in StreamRec
                           /\ [r EXCEPT !.pos = q].name = r.name
                           /\ [r EXCEPT !.pos = q].atPush = r.atPush
                           /\ [r EXCEPT !.pos = q].pos = q
  BY DEF StreamRec
<1>4. s = [i \in 1..n |-> s[i]]
  BY <1>1, <1>2 DEF At
<1> HIDE DEF n, s
<1>5. \A i \in 1..n : s[i] \in StreamRec
  <2>1. n \in 1..n /\ s[n] \in StreamRec
    BY <1>1, <1>2, <1>3
  <2>2. \A i \in 1..n : i # n => s[i] \in StreamRec
    <3>1. \A i \in 1..n : i # n => s[i] = streams[i]
      BY <1>2
    <3> QED BY <1>1, <3>1
  <2> QED BY <2>1, <2>2
<1>6. s \in Seq(StreamRec) /\ Len(s) = n
  BY <1>1, <1>2, <1>4, <1>5, FunctionIsSeq
<1>7. /\ \A i \in 1..n : s[i].name = streams[i].name /\ s[i].atPush = streams[i].atPush
      /\ \A i \in 1..n : i # n => s[i].pos = streams[i].pos
      /\ s[n].pos = q
  <2>1. s[n].name = streams[n].name /\ s[n].atPush = streams[n].atPush /\ s[n].pos = q
    <3>1. n \in 1..n /\ streams[n] \in StreamRec
      BY <1>1
    <3> QED BY <1>2, <1>3, <3>1
  <2>2. \A i \in 1..n : i # n => s[i] = streams[i]
    BY <1>2
  <2> QED BY <2>1, <2>2
<1> QED BY <1>6, <1>7 DEF n, s

LEMMA LeftFacts ==
  ASSUME RestOK, StreamsOK, NEW i \in 2..Len(streams)
  PROVE  Left(i) \in Nat /\ Left(i) = (Len(TextAt(i)) + 1) - streams[i].pos
<1>1. i \in 1..Len(streams) /\ i # 1
  BY StreamFields
<1>2. TextAt(i) = entities[streams[i].name].text
  BY <1>1 DEF TextAt
<1>3. /\ streams[i].pos \in Nat /\ Len(TextAt(i)) \in Nat
      /\ streams[i].pos <= Len(TextAt(i)) + 1
  BY <1>1, StreamFields
<1>4. Left(i) = (Len(TextAt(i)) + 1) - streams[i].pos
  BY <1>2 DEF Left
<1> QED BY <1>3, <1>4

(* The next state pays for what it has read and has left.                  *)
LEMMA PaidNext ==
  ASSUME NEW n \in Nat \ {0}, Len(streams') = n, NEW C \in [1..n -> Nat], C[1] = 0,
         \A i \in 2..n : C[i] = C[i - 1] + Left(i)',
         taken' \in Nat, used' \in 0..Budget, taken' + C[n] <= used'
  PROVE  SpentOK'
<1>1. C \in [1..Len(streams') -> Nat]
  OBVIOUS
<1>2. \A i \in 2..Len(streams') : C[i] = C[i - 1] + Left(i)'
  OBVIOUS
<1>3. taken' + C[Len(streams')] <= used'
  OBVIOUS
<1>4. Paid(C)'
  BY <1>1, <1>2, <1>3 DEF Paid
<1> QED BY <1>1, <1>4 DEF SpentOK

LEMMA MovedKeeps ==
  ASSUME RestOK, StreamsOK, SpentOK, UNCHANGED input, StreamMoved
  PROVE  /\ StreamsOK' /\ SpentOK' /\ Len(streams') = Len(streams)
         /\ \A i \in 1..Len(streams) : streams'[i].atPush = streams[i].atPush
<1>1. PICK q :
        /\ q \in Cursor.pos..Len(Bytes) + 1
        /\ streams' = At(q)
        /\ taken' = (IF OnSource THEN taken ELSE taken + (q - Cursor.pos))
        /\ used' = used
  BY DEF StreamMoved
<1>0. PICK n, p, l : n = Len(streams) /\ p = Cursor.pos /\ l = Len(Bytes)
  OBVIOUS
<1>2. /\ n \in Nat \ {0} /\ Cursor = streams[n] /\ Bytes = TextAt(n) /\ l \in Nat
      /\ p \in 1..l + 1 /\ (OnSource <=> n = 1) /\ n \in 1..n
  BY <1>0, TextFacts
<1>3. q \in Nat \ {0} /\ q <= l + 1 /\ p <= q /\ p \in Nat
  BY <1>0, <1>1, <1>2
<1>4. /\ streams' \in Seq(StreamRec) /\ Len(streams') = n
      /\ \A i \in 1..n : streams'[i].name = streams[i].name /\ streams'[i].atPush = streams[i].atPush
      /\ \A i \in 1..n : i # n => streams'[i].pos = streams[i].pos
      /\ streams'[n].pos = q
  <2>1. /\ streams' \in Seq(StreamRec) /\ Len(streams') = Len(streams)
        /\ \A i \in 1..Len(streams) :
             streams'[i].name = streams[i].name /\ streams'[i].atPush = streams[i].atPush
        /\ \A i \in 1..Len(streams) : i # Len(streams) => streams'[i].pos = streams[i].pos
        /\ streams'[Len(streams)].pos = q
    BY <1>1, <1>3, Moving
  <2> QED BY <1>0, <2>1
<1>5. \A i \in 1..n : TextAt(i)' = TextAt(i)
  BY <1>4 DEF TextAt, input
<1>6. StreamsOK'
  <2>1. streams' # << >>
    BY <1>2, <1>4
  <2>2. streams'[1].name = Source /\ \A i \in 2..n : streams'[i].name \in Entities
    <3>1. 1 \in 1..n /\ \A i \in 2..n : i \in 1..n
      BY <1>2
    <3> QED BY <1>0, <1>4, <3>1 DEF StreamsOK
  <2>3. \A i \in 1..n : streams'[i].pos <= Len(TextAt(i)) + 1
    <3>1. \A i \in 1..n : streams[i].pos <= Len(TextAt(i)) + 1
      BY <1>0 DEF StreamsOK
    <3>2. q <= Len(TextAt(n)) + 1
      BY <1>0, <1>2, <1>3
    <3> QED BY <1>4, <3>1, <3>2
  <2> QED BY <1>4, <1>5, <2>1, <2>2, <2>3 DEF StreamsOK
<1>7. SpentOK'
  <2>1. PICK C \in [1..n -> Nat] : Paid(C)
    BY <1>0 DEF SpentOK
  <2>2. C[1] = 0 /\ (\A i \in 2..n : C[i] = C[i - 1] + Left(i)) /\ taken + C[n] <= used
    BY <1>0, <2>1 DEF Paid
  <2>3. taken \in Nat /\ used \in Nat /\ used \in 0..Budget
    BY Numbers DEF SpentOK
  <2>4. ASSUME NEW i \in 2..n, i # n PROVE Left(i)' = Left(i)
    <3>1. i \in 1..n
      BY <1>2
    <3> QED BY <1>4, <2>4, <3>1 DEF Left, input
  <2>5. CASE n = 1
    <3>1. taken' = taken
      BY <1>1, <1>2, <2>5
    <3>2. taken' + C[n] <= used' /\ used' \in 0..Budget
      BY <1>1, <2>2, <2>3, <3>1
    <3>3. \A i \in 2..n : C[i] = C[i - 1] + Left(i)'
      BY <2>5
    <3>4. taken' \in Nat
      BY <2>3, <3>1
    <3> QED BY <1>2, <1>4, <2>1, <2>2, <3>2, <3>3, <3>4, PaidNext
  <2>6. CASE n # 1
    <3> PICK d : d = q - p
      OBVIOUS
    <3>1. n \in 2..n /\ n - 1 \in 1..n /\ n \in 1..n
      BY <1>2, <2>6
    <3>2. Left(n) = (l + 1) - p
      BY <1>0, <1>2, <3>1, LeftFacts
    <3>3. Left(n)' = (l + 1) - q
      <4>1. l = Len(entities[streams[n].name].text)
        BY <1>0, <1>2, <2>6 DEF TextAt
      <4>2. streams'[n].name = streams[n].name /\ streams'[n].pos = q
        BY <1>2, <1>4
      <4> QED BY <4>1, <4>2 DEF Left, input
    <3>4. taken' = taken + d
      BY <1>0, <1>1, <1>2, <2>6
    <3>5. C[n] = C[n - 1] + Left(n) /\ C[n] \in Nat /\ C[n - 1] \in Nat
      BY <2>2, <3>1
    <3>6. /\ d \in Nat /\ C[n] - d \in Nat /\ C[n] - d = C[n - 1] + Left(n)'
          /\ (taken + d) + (C[n] - d) <= used /\ taken + d \in Nat
      <4>1. l \in Nat /\ p \in Nat /\ p <= q /\ q \in Nat /\ q <= l + 1
        BY <1>2, <1>3
      <4>2. C[n] = C[n - 1] + ((l + 1) - p)
        BY <3>2, <3>5
      <4>3. taken \in Nat /\ used \in Nat /\ taken + C[n] <= used
        BY <2>2, <2>3
      <4>4. C[n] \in Nat /\ C[n - 1] \in Nat
        BY <3>5
      <4>5. PICK a, b, t, u : a = C[n - 1] /\ b = C[n] /\ t = taken /\ u = used
        OBVIOUS
      <4>6. a \in Nat /\ b \in Nat /\ t \in Nat /\ u \in Nat
        BY <4>3, <4>4, <4>5
      <4>7. b = a + ((l + 1) - p) /\ t + b <= u
        BY <4>2, <4>3, <4>5
      <4>8. /\ q - p \in Nat /\ b - (q - p) \in Nat /\ b - (q - p) = a + ((l + 1) - q)
            /\ (t + (q - p)) + (b - (q - p)) <= u /\ t + (q - p) \in Nat
        BY <4>1, <4>6, <4>7
      <4> QED BY <3>3, <4>5, <4>8
    <3> PICK D : D = [i \in 1..n |-> IF i = n THEN C[n] - d ELSE C[i]]
      OBVIOUS
    <3>7. D \in [1..n -> Nat] /\ D[n] = C[n] - d /\ \A i \in 1..n : i # n => D[i] = C[i]
      BY <3>1, <3>6
    <3>8. \A i \in 2..n : D[i] = D[i - 1] + Left(i)'
      <4>1. ASSUME NEW i \in 2..n PROVE D[i] = D[i - 1] + Left(i)'
        <5>1. i - 1 \in 1..n /\ i - 1 # n /\ i \in 1..n
          BY <1>2
        <5>2. D[i - 1] = C[i - 1]
          BY <3>7, <5>1
        <5>3. CASE i = n
          <6>1. D[n] = C[n - 1] + Left(n)' /\ D[n - 1] = C[n - 1]
            BY <3>6, <3>7, <5>2, <5>3
          <6> QED BY <5>2, <5>3, <6>1
        <5>4. CASE i # n
          BY <2>2, <2>4, <3>7, <5>1, <5>2, <5>4
        <5> QED BY <5>3, <5>4
      <4> QED BY <4>1
    <3>9. D[1] = 0
      BY <1>2, <2>2, <2>6, <3>7
    <3>10. taken' + D[n] <= used' /\ used' \in 0..Budget
      <4>1. used' = used /\ (taken + d) + (C[n] - d) <= used
        BY <1>1, <3>6
      <4>2. D[n] = C[n] - d
        BY <3>7
      <4> QED BY <2>3, <3>4, <4>1, <4>2
    <3>11. taken' \in Nat
      BY <2>3, <3>4, <3>6
    <3> QED BY <1>2, <1>4, <3>7, <3>8, <3>9, <3>10, <3>11, PaidNext
  <2> QED BY <2>5, <2>6
<1> QED BY <1>0, <1>4, <1>6, <1>7

(* Leaving an exhausted text: what was paid for it is spent or forgotten.  *)
LEMMA LeftKeeps ==
  ASSUME RestOK, StreamsOK, SpentOK, UNCHANGED input, StreamLeft
  PROVE  /\ StreamsOK' /\ SpentOK' /\ Len(streams') = Len(streams) - 1
         /\ \A i \in 1..Len(streams) - 1 : streams'[i] = streams[i]
<1>0. PICK n : n = Len(streams)
  OBVIOUS
<1>1. n \in Nat \ {0} /\ n # 1
  BY <1>0, TextFacts DEF StreamLeft
<1>2. streams' = Popped(streams) /\ taken' = taken /\ used' = used
  BY DEF StreamLeft
<1>3. /\ streams' \in Seq(StreamRec) /\ Len(streams') = n - 1
      /\ \A i \in 1..n - 1 : streams'[i] = streams[i]
  <2>1. streams \in Seq(StreamRec) /\ streams # << >>
    BY DEF StreamsOK
  <2> QED BY <1>0, <1>2, <2>1, Popping
<1>4. n - 1 \in Nat \ {0} /\ 1 \in 1..n - 1
  BY <1>1
<1>5. \A i \in 1..n - 1 : TextAt(i)' = TextAt(i)
  BY <1>3 DEF TextAt, input
<1>6. StreamsOK'
  <2>1. streams' # << >>
    BY <1>3, <1>4
  <2>2. \A i \in 1..n - 1 : i \in 1..n /\ (i # 1 => i \in 2..n)
    BY <1>1
  <2>3. \A i \in 2..n - 1 : i \in 1..n - 1 /\ i # 1
    BY <1>1
  <2>4. streams'[1].name = Source /\ \A i \in 2..n - 1 : streams'[i].name \in Entities
    BY <1>0, <1>3, <1>4, <2>2, <2>3 DEF StreamsOK
  <2>5. \A i \in 1..n - 1 : streams'[i].pos <= Len(TextAt(i)) + 1
    BY <1>0, <1>3, <2>2 DEF StreamsOK
  <2> QED BY <1>3, <1>5, <2>1, <2>4, <2>5 DEF StreamsOK
<1>7. SpentOK'
  <2>1. PICK C \in [1..n -> Nat] : Paid(C)
    BY <1>0 DEF SpentOK
  <2>2. C[1] = 0 /\ (\A i \in 2..n : C[i] = C[i - 1] + Left(i)) /\ taken + C[n] <= used
    BY <1>0, <2>1 DEF Paid
  <2>3. taken \in Nat /\ used \in Nat /\ used \in 0..Budget
    BY Numbers DEF SpentOK
  <2>4. \A i \in 2..n - 1 : Left(i)' = Left(i) /\ i \in 2..n /\ i \in 1..n - 1 /\ i - 1 \in 1..n - 1
    <3>1. \A i \in 2..n - 1 : i \in 2..n /\ i \in 1..n - 1 /\ i - 1 \in 1..n - 1
      BY <1>1
    <3> QED BY <1>3, <3>1 DEF Left, input
  <2>5. C[n - 1] <= C[n]
    <3>1. n \in 2..n /\ n \in 1..n /\ n - 1 \in 1..n
      BY <1>1
    <3>2. Left(n) \in Nat
      BY <1>0, <3>1, LeftFacts
    <3>3. C[n] = C[n - 1] + Left(n) /\ C[n - 1] \in Nat
      BY <2>1, <2>2, <3>1
    <3> QED BY <3>2, <3>3
  <2>6. PICK D : D = [i \in 1..n - 1 |-> C[i]]
    OBVIOUS
  <2>7. D \in [1..n - 1 -> Nat] /\ \A i \in 1..n - 1 : D[i] = C[i]
    <3>1. \A i \in 1..n - 1 : i \in 1..n
      BY <1>1
    <3> QED BY <2>6, <3>1
  <2>8. D[1] = 0
    BY <1>4, <2>2, <2>7
  <2>9. \A i \in 2..n - 1 : D[i] = D[i - 1] + Left(i)'
    BY <2>2, <2>4, <2>7
  <2>10. taken' + D[n - 1] <= used'
    <3>1. n - 1 \in 1..n - 1 /\ n - 1 \in 1..n /\ n \in 1..n
      BY <1>1
    <3>2. D[n - 1] = C[n - 1] /\ C[n - 1] \in Nat /\ C[n] \in Nat
      BY <2>1, <2>7, <3>1
    <3> QED BY <1>2, <2>2, <2>3, <2>5, <3>2
  <2>11. taken' \in Nat /\ used' \in 0..Budget
    BY <1>2, <2>3
  <2> QED BY <1>3, <1>4, <2>7, <2>8, <2>9, <2>10, <2>11, PaidNext
<1> QED BY <1>0, <1>3, <1>6, <1>7

LEMMA NewStreamFields ==
  ASSUME NEW x \in Entities, segment \in Nat
  PROVE  /\ NewStream(x) \in StreamRec /\ NewStream(x).name = x /\ NewStream(x).pos = 1
         /\ NewStream(x).atPush = segment
BY DEF NewStream, StreamRec

(* Pushing a text: the reference is read, the text is paid for.            *)
LEMMA PushedKeeps ==
  ASSUME RestOK, StreamsOK, SpentOK, UNCHANGED input, StreamPushed
  PROVE  /\ StreamsOK' /\ SpentOK' /\ Len(streams') = Len(streams) + 1
         /\ \A i \in 1..Len(streams) : streams'[i].atPush = streams[i].atPush
         /\ streams'[Len(streams) + 1].atPush = segment
<1>0. PICK n, p, l : n = Len(streams) /\ p = Cursor.pos /\ l = Len(Bytes)
  OBVIOUS
<1>1. PICK x :
        /\ x \in Entities
        /\ ~AtEnd /\ segment \in Nat /\ ~OverBudget(x) /\ used' = used + Cost(x)
        /\ streams' = Append(At(Cursor.pos + 1), NewStream(x))
        /\ taken' = (IF OnSource THEN taken ELSE taken + 1)
  BY DEF StreamPushed
<1>2. /\ n \in Nat \ {0} /\ Cursor = streams[n] /\ Bytes = TextAt(n) /\ l \in Nat
      /\ p \in 1..l + 1 /\ (OnSource <=> n = 1) /\ n \in 1..n /\ p <= l
  <2>1. /\ n \in Nat \ {0} /\ Cursor = streams[n] /\ Bytes = TextAt(n) /\ l \in Nat
        /\ p \in 1..l + 1 /\ (OnSource <=> n = 1) /\ n \in 1..n
    BY <1>0, TextFacts
  <2> QED BY <1>0, <1>1, <2>1 DEF AtEnd
<1>3. p \in Nat /\ p + 1 \in Nat \ {0} /\ p + 1 <= l + 1
  BY <1>2
<1>4. /\ streams' \in Seq(StreamRec) /\ Len(streams') = n + 1
      /\ \A i \in 1..n : streams'[i].name = streams[i].name /\ streams'[i].atPush = streams[i].atPush
      /\ \A i \in 1..n : i # n => streams'[i].pos = streams[i].pos
      /\ streams'[n].pos = p + 1
      /\ streams'[n + 1].name = x /\ streams'[n + 1].pos = 1
      /\ streams'[n + 1].atPush = segment
  <2> DEFINE s == At(p + 1)
  <2>1. /\ s \in Seq(StreamRec) /\ Len(s) = n
        /\ \A i \in 1..n : s[i].name = streams[i].name /\ s[i].atPush = streams[i].atPush
        /\ \A i \in 1..n : i # n => s[i].pos = streams[i].pos
        /\ s[n].pos = p + 1
    BY <1>0, <1>3, Moving
  <2>2. /\ NewStream(x) \in StreamRec /\ NewStream(x).name = x /\ NewStream(x).pos = 1
        /\ NewStream(x).atPush = segment
    BY <1>1, NewStreamFields
  <2>3. streams' = Append(s, NewStream(x))
    BY <1>0, <1>1
  <2> HIDE DEF s
  <2>4. /\ streams' \in Seq(StreamRec) /\ Len(streams') = n + 1
        /\ \A i \in 1..n : streams'[i] = s[i]
        /\ streams'[n + 1] = NewStream(x)
    BY <2>1, <2>2, <2>3, Pushing
  <2> QED BY <1>2, <2>1, <2>2, <2>4
<1>5. \A i \in 1..n : TextAt(i)' = TextAt(i)
  BY <1>4 DEF TextAt, input
<1>6. TextAt(n + 1)' = entities[x].text /\ n + 1 # 1
  BY <1>2, <1>4 DEF TextAt, input
<1>7. Len(entities[x].text) \in Nat /\ Cost(x) = Len(entities[x].text)
  <2>1. entities[x].text \in Seq(Token)
    BY <1>1, InputFacts
  <2> QED BY <2>1 DEF Cost
<1>8. StreamsOK'
  <2>1. streams' # << >>
    BY <1>2, <1>4
  <2>2. \A i \in 1..n + 1 : i = n + 1 \/ i \in 1..n
    BY <1>2
  <2>3. \A i \in 2..n + 1 : i = n + 1 \/ (i \in 2..n /\ i \in 1..n)
    <3>1. n \in Nat
      BY <1>2
    <3> QED BY <3>1
  <2>4. 1 \in 1..n
    BY <1>2
  <2>5. streams'[1].name = Source
    BY <1>4, <2>4 DEF StreamsOK
  <2>6. \A i \in 2..n + 1 : streams'[i].name \in Entities
    BY <1>0, <1>1, <1>4, <2>3 DEF StreamsOK
  <2>7. \A i \in 1..n + 1 : streams'[i].pos <= Len(TextAt(i)') + 1
    <3>1. \A i \in 1..n : streams[i].pos <= Len(TextAt(i)) + 1
      BY <1>0 DEF StreamsOK
    <3>2. p + 1 <= Len(TextAt(n)) + 1
      BY <1>0, <1>2, <1>3
    <3>3. \A i \in 1..n : streams'[i].pos <= Len(TextAt(i)') + 1
      BY <1>4, <1>5, <3>1, <3>2
    <3>4. streams'[n + 1].pos <= Len(TextAt(n + 1)') + 1
      BY <1>4, <1>6, <1>7
    <3> QED BY <2>2, <3>3, <3>4
  <2> QED BY <1>4, <2>1, <2>5, <2>6, <2>7 DEF StreamsOK
<1>9. SpentOK'
  <2>1. PICK C : C \in [1..n -> Nat] /\ Paid(C)
    BY <1>0 DEF SpentOK
  <2>2. C[1] = 0 /\ (\A i \in 2..n : C[i] = C[i - 1] + Left(i)) /\ taken + C[n] <= used
    BY <1>0, <2>1 DEF Paid
  <2>3. taken \in Nat /\ used \in Nat /\ used \in 0..Budget
    BY Numbers DEF SpentOK
  <2>4. PICK m : m = IF n = 1 THEN 0 ELSE 1
    OBVIOUS
  <2>5. taken' = taken + m
    BY <1>1, <1>2, <2>3, <2>4
  <2>6. C[n] \in Nat /\ C[n] - m \in Nat /\ m \in Nat
        /\ (n # 1 => C[n - 1] \in Nat /\ C[n] - m = C[n - 1] + ((l + 1) - (p + 1)))
    <3>1. C[n] \in Nat
      BY <1>2, <2>1
    <3>2. CASE n = 1
      BY <2>4, <3>1, <3>2
    <3>3. CASE n # 1
      <4>1. n \in 2..n /\ n - 1 \in 1..n
        BY <1>2, <3>3
      <4>2. C[n] = C[n - 1] + Left(n) /\ C[n - 1] \in Nat
        BY <2>1, <2>2, <4>1
      <4>3. Left(n) = (l + 1) - p
        BY <1>0, <1>2, <4>1, LeftFacts
      <4> QED BY <1>2, <1>3, <2>4, <3>1, <3>3, <4>2, <4>3
    <3> QED BY <3>2, <3>3
  <2>7. PICK D : D = [i \in 1..n + 1 |-> IF i = n + 1 THEN (C[n] - m) + Cost(x)
                                         ELSE IF i = n THEN C[n] - m ELSE C[i]]
    OBVIOUS
  <2>8. /\ D \in [1..n + 1 -> Nat] /\ D[n + 1] = (C[n] - m) + Cost(x) /\ D[n] = C[n] - m
        /\ \A i \in 1..n : i # n => D[i] = C[i]
    <3>1. \A i \in 1..n + 1 : i = n + 1 \/ i \in 1..n
      BY <1>2
    <3>2. \A i \in 1..n : i \in 1..n + 1 /\ i # n + 1
      BY <1>2
    <3>3. n + 1 \in 1..n + 1 /\ n \in 1..n + 1 /\ n # n + 1
      BY <1>2
    <3>4. (C[n] - m) + Cost(x) \in Nat
      BY <1>7, <2>6
    <3>5. \A i \in 1..n : C[i] \in Nat
      BY <2>1
    <3> QED BY <2>6, <2>7, <3>1, <3>2, <3>3, <3>4, <3>5
  <2>9. ASSUME NEW i \in 2..n, i # n PROVE Left(i)' = Left(i)
    <3>1. i \in 1..n
      BY <1>2
    <3> QED BY <1>4, <2>9, <3>1 DEF Left, input
  <2>10. D[1] = 0
    <3>1. CASE n = 1
      BY <2>2, <2>4, <2>8, <3>1
    <3>2. CASE n # 1
      BY <1>2, <2>2, <2>8, <3>2
    <3> QED BY <3>1, <3>2
  <2>11. ASSUME NEW i \in 2..n + 1 PROVE D[i] = D[i - 1] + Left(i)'
    <3>1. CASE i = n + 1
      <4>1. Left(n + 1)' = Cost(x)
        <5>1. streams'[n + 1].name = x /\ streams'[n + 1].pos = 1
          BY <1>4
        <5>2. entities' = entities
          BY DEF input
        <5>3. Left(n + 1)' = (Len(entities[x].text) + 1) - 1
          BY <5>1, <5>2 DEF Left
        <5> QED BY <1>7, <5>3
      <4>2. i - 1 = n
        BY <1>2, <3>1
      <4> QED BY <2>8, <3>1, <4>1, <4>2
    <3>2. CASE i = n
      <4>1. n # 1 /\ n - 1 \in 1..n /\ n - 1 # n
        BY <1>2, <3>2
      <4>2. Left(n)' = (l + 1) - (p + 1)
        <5>1. l = Len(entities[streams[n].name].text)
          BY <1>0, <1>2, <4>1 DEF TextAt
        <5>2. streams'[n].name = streams[n].name /\ streams'[n].pos = p + 1
          BY <1>2, <1>4
        <5>3. entities' = entities
          BY DEF input
        <5> QED BY <5>1, <5>2, <5>3 DEF Left
      <4>3. D[n] = D[n - 1] + Left(n)'
        BY <2>6, <2>8, <4>1, <4>2
      <4> QED BY <3>2, <4>3
    <3>3. CASE i # n + 1 /\ i # n
      <4>1. i \in 2..n /\ i \in 1..n /\ i - 1 \in 1..n /\ i - 1 # n
        BY <1>2, <3>3, <3>3
      <4>2. D[i] = C[i] /\ D[i - 1] = C[i - 1]
        BY <2>8, <3>3, <4>1
      <4> QED BY <2>2, <2>9, <3>3, <4>1, <4>2
    <3> QED BY <3>1, <3>2, <3>3
  <2>12. taken' \in Nat /\ used' \in 0..Budget /\ taken' + D[n + 1] <= used'
    <3>1. used + Cost(x) <= Budget
      BY <1>1, <1>7, <2>3, Numbers DEF OverBudget
    <3>2. D[n + 1] = (C[n] - m) + Cost(x)
      BY <2>8
    <3>3. used' = used + Cost(x)
      BY <1>1
    <3>4. Cost(x) \in Nat
      BY <1>7
    <3>5. taken' \in Nat /\ used' \in 0..Budget
      BY <2>3, <2>5, <2>6, <3>1, <3>3, <3>4, Numbers
    <3>6. taken + C[n] <= used
      BY <2>2
    <3> QED BY <2>3, <2>5, <2>6, <3>2, <3>3, <3>4, <3>5, <3>6
  <2>13. \A i \in 2..n + 1 : D[i] = D[i - 1] + Left(i)'
    BY <2>11
  <2>14. n + 1 \in Nat \ {0} /\ D \in [1..n + 1 -> Nat]
    BY <1>2, <2>8
  <2> QED BY <1>4, <2>10, <2>12, <2>13, <2>14, PaidNext
<1> QED BY <1>0, <1>4, <1>8, <1>9

LEMMA KeptKeeps ==
  ASSUME RestOK, StreamsOK, SpentOK, UNCHANGED input, StreamsKept
  PROVE  StreamsOK' /\ SpentOK'
<1>1. StreamsOK'
  <2>1. streams' = streams /\ doc' = doc /\ entities' = entities
    BY DEF StreamsKept, input
  <2>2. \A i : TextAt(i)' = TextAt(i)
    BY <2>1 DEF TextAt
  <2> QED BY <2>1, <2>2 DEF StreamsOK
<1>2. SpentOK'
  <2>1. PICK C : C \in [1..Len(streams) -> Nat] /\ Paid(C)
    BY DEF SpentOK
  <2>2. streams' = streams /\ taken' = taken /\ used' = used /\ entities' = entities
    BY DEF StreamsKept, input
  <2>3. Paid(C)'
    BY <2>1, <2>2 DEF Paid, Left
  <2> QED BY <2>1, <2>2, <2>3 DEF SpentOK
<1> QED BY <1>1, <1>2

-----------------------------------------------------------------------------
(* What a step does to the stack of elements.                              *)

SameTexts ==
  /\ Len(streams') = Len(streams)
  /\ \A i \in 1..Len(streams) : streams'[i].atPush = streams[i].atPush

SegmentStep == segment' \in {segment, NONE, Len(stack)}

Opened == \E name \in Names : stack' = Append(stack, Frame(name))

Closed ==
  /\ stack # << >> /\ stack' = Popped(stack)
  /\ Top(stack).stream = Len(streams) \/ OnSource

FrameFacts ==
  /\ Len(stack) \in Nat
  /\ \A i \in 1..Len(stack) :
       /\ stack[i] \in FrameRec /\ stack[i].stream \in Nat \ {0} /\ stack[i].name \in Names
       /\ stack[i].stream <= Len(streams)

LEMMA Frames ==
  ASSUME FramesOK
  PROVE  FrameFacts
<1>1. Len(stack) \in Nat /\ \A i \in 1..Len(stack) : stack[i] \in FrameRec
  BY DEF FramesOK
<1>2. \A f \in FrameRec : f.stream \in Nat \ {0} /\ f.name \in Names
  BY DEF FrameRec
<1> QED BY <1>1, <1>2 DEF FramesOK, FrameFacts

LEMMA FramesKept ==
  ASSUME FramesOK, RestOK, StreamsOK, stack' = stack, SegmentStep, SameTexts
  PROVE  FramesOK'
<1>1. Len(stack) \in Nat /\ Len(streams) \in Nat
  BY Frames, StreamFields DEF FrameFacts
<1>2. segment' \in Nat \cup {NONE} /\ (segment' # NONE => segment' = Len(stack))
  BY <1>1 DEF FramesOK, SegmentStep
<1>3. \A s \in 2..Len(streams) : streams'[s].atPush = streams[s].atPush
  <2>1. \A s \in 2..Len(streams) : s \in 1..Len(streams)
    BY <1>1
  <2> QED BY <2>1 DEF SameTexts
<1>4. Len(streams') = Len(streams)
  BY DEF SameTexts
<1> QED BY <1>2, <1>3, <1>4 DEF FramesOK

(* Only an element of the text itself is open above the elements it was    *)
(* pushed in: when it has no more than those, none of its own is left.     *)
LEMMA FramesOfLeft ==
  ASSUME FramesOK, RestOK, StreamsOK, stack' = stack, SegmentStep,
         ~OnSource, Cursor.atPush = Len(stack), Len(streams') = Len(streams) - 1,
         \A i \in 1..Len(streams) - 1 : streams'[i] = streams[i]
  PROVE  FramesOK'
<1>0. PICK n, m : n = Len(streams) /\ m = Len(stack)
  OBVIOUS
<1>1. m \in Nat /\ n \in Nat \ {0} /\ n # 1 /\ streams[n].atPush = m
  BY <1>0, Frames, TextFacts DEF FrameFacts
<1>2. segment' \in Nat \cup {NONE} /\ (segment' # NONE => segment' = Len(stack))
  BY <1>0, <1>1 DEF FramesOK, SegmentStep
<1>3. n \in 2..n /\ n - 1 \in Nat
  BY <1>1
<1>4. ASSUME NEW i \in 1..m PROVE stack[i].stream <= n - 1
  <2>1. stack[i].stream \in Nat
    BY <1>0, Frames DEF FrameFacts
  <2>2. stack[i].stream < n
    BY <1>0, <1>1, <1>3 DEF FramesOK
  <2> QED BY <1>1, <2>1, <2>2
<1>5. \A i \in 2..m : stack[i - 1].stream <= stack[i].stream
  BY <1>0 DEF FramesOK
<1>6. ASSUME NEW s \in 2..n - 1
      PROVE  /\ streams'[s].atPush <= m
             /\ \A i \in 1..m : stack[i].stream < s <=> i <= streams'[s].atPush
  <2>1. s \in 2..n /\ s \in 1..n - 1
    BY <1>1
  <2>2. streams'[s] = streams[s]
    BY <1>0, <2>1
  <2> QED BY <1>0, <2>1, <2>2 DEF FramesOK
<1>7. Len(streams') = n - 1 /\ Len(stack') = m
  BY <1>0
<1>8. stack' \in Seq(FrameRec)
  BY DEF FramesOK
<1> QED BY <1>0, <1>2, <1>4, <1>5, <1>6, <1>7, <1>8 DEF FramesOK

LEMMA FramesOfPushed ==
  ASSUME FramesOK, RestOK, StreamsOK, stack' = stack, segment' = segment, segment \in Nat,
         Len(streams') = Len(streams) + 1,
         \A i \in 1..Len(streams) : streams'[i].atPush = streams[i].atPush,
         streams'[Len(streams) + 1].atPush = segment
  PROVE  FramesOK'
<1>0. PICK n, m : n = Len(streams) /\ m = Len(stack)
  OBVIOUS
<1>1. m \in Nat /\ n \in Nat \ {0} /\ segment = m
  BY <1>0, Frames, TextFacts, Numbers DEF FrameFacts, FramesOK
<1>2. \A i \in 1..m : stack[i].stream \in Nat /\ stack[i].stream <= n
  BY <1>0, Frames DEF FrameFacts
<1>3. \A i \in 2..m : stack[i - 1].stream <= stack[i].stream
  BY <1>0 DEF FramesOK
<1>4. \A i \in 1..m : stack[i].stream <= n + 1 /\ stack[i].stream < n + 1 /\ i <= m
  BY <1>1, <1>2
<1>5. ASSUME NEW s \in 2..n + 1
      PROVE  /\ streams'[s].atPush <= m
             /\ \A i \in 1..m : stack[i].stream < s <=> i <= streams'[s].atPush
  <2>1. CASE s = n + 1
    <3>1. streams'[n + 1].atPush = m
      BY <1>0, <1>1
    <3> QED BY <1>1, <1>4, <2>1, <3>1
  <2>2. CASE s # n + 1
    <3>1. s \in 2..n /\ s \in 1..n
      BY <1>1, <2>2
    <3>2. streams'[s].atPush = streams[s].atPush
      BY <1>0, <3>1
    <3> QED BY <1>0, <3>1, <3>2 DEF FramesOK
  <2> QED BY <2>1, <2>2
<1>6. stack' \in Seq(FrameRec) /\ Len(streams') = n + 1 /\ Len(stack') = m
  BY <1>0 DEF FramesOK
<1>7. segment' \in Nat \cup {NONE} /\ (segment' # NONE => segment' = m)
  BY <1>1
<1> QED BY <1>3, <1>4, <1>5, <1>6, <1>7 DEF FramesOK

LEMMA FrameFields ==
  ASSUME RestOK, StreamsOK, NEW x \in Names
  PROVE  Frame(x) \in FrameRec /\ Frame(x).stream = Len(streams) /\ Frame(x).name = x
<1>1. Len(streams) \in Nat \ {0}
  BY TextFacts
<1>2. OnSource \in BOOLEAN
  BY DEF OnSource
<1> HIDE DEF OnSource
<1> QED BY <1>1, <1>2 DEF Frame, FrameRec

LEMMA FramesOfOpened ==
  ASSUME FramesOK, RestOK, StreamsOK, Opened, SameTexts, segment' = NONE
  PROVE  FramesOK'
<1>0. PICK n, m : n = Len(streams) /\ m = Len(stack)
  OBVIOUS
<1>1. m \in Nat /\ n \in Nat \ {0}
  BY <1>0, Frames, TextFacts DEF FrameFacts
<1>2. PICK x \in Names : stack' = Append(stack, Frame(x))
  BY DEF Opened
<1>3. Frame(x) \in FrameRec /\ Frame(x).stream = n
  BY <1>0, FrameFields
<1>4. /\ stack' \in Seq(FrameRec) /\ Len(stack') = m + 1
      /\ \A i \in 1..m : stack'[i] = stack[i]
      /\ stack'[m + 1] = Frame(x)
  <2>1. stack \in Seq(FrameRec)
    BY DEF FramesOK
  <2> QED BY <1>0, <1>2, <1>3, <2>1, Pushing
<1>5. \A i \in 1..m : stack'[i].stream = stack[i].stream /\ stack[i].stream \in Nat /\ stack[i].stream <= n
  BY <1>0, <1>4, Frames DEF FrameFacts
<1>6. stack'[m + 1].stream = n
  BY <1>3, <1>4
<1>7. \A i \in 1..m + 1 : stack'[i].stream <= n
  <2>1. \A i \in 1..m + 1 : i = m + 1 \/ i \in 1..m
    BY <1>1
  <2> QED BY <1>1, <1>5, <1>6, <2>1
<1>8. ASSUME NEW i \in 2..m + 1 PROVE stack'[i - 1].stream <= stack'[i].stream
  <2>1. CASE i = m + 1
    <3>1. i - 1 = m /\ m \in 1..m
      BY <1>1, <2>1
    <3> QED BY <1>5, <1>6, <2>1, <3>1
  <2>2. CASE i # m + 1
    <3>1. i \in 2..m /\ i \in 1..m /\ i - 1 \in 1..m
      BY <1>1, <2>2
    <3>2. stack[i - 1].stream <= stack[i].stream
      BY <1>0, <3>1 DEF FramesOK
    <3> QED BY <1>5, <3>1, <3>2
  <2> QED BY <2>1, <2>2
<1>9. ASSUME NEW s \in 2..n
      PROVE  /\ streams'[s].atPush <= m + 1
             /\ \A i \in 1..m + 1 : stack'[i].stream < s <=> i <= streams'[s].atPush
  <2>1. s \in 1..n
    BY <1>1
  <2>2. PICK a : a = streams[s].atPush
    OBVIOUS
  <2>3. streams'[s].atPush = a /\ a \in Nat /\ a <= m
    BY <1>0, <2>1, <2>2, StreamFields DEF SameTexts, FramesOK
  <2>4. \A i \in 1..m : stack[i].stream < s <=> i <= a
    BY <1>0, <2>2 DEF FramesOK
  <2>5. ASSUME NEW i \in 1..m + 1 PROVE stack'[i].stream < s <=> i <= a
    <3>1. CASE i = m + 1
      <4>1. ~(m + 1 <= a) /\ ~(n < s)
        BY <1>1, <2>3
      <4> QED BY <1>6, <3>1, <4>1
    <3>2. CASE i # m + 1
      <4>1. i \in 1..m
        BY <1>1, <3>2
      <4> QED BY <1>5, <2>4, <4>1
    <3> QED BY <3>1, <3>2
  <2>6. a <= m + 1
    BY <1>1, <2>3
  <2> QED BY <2>3, <2>5, <2>6
<1>10. Len(streams') = n
  BY <1>0 DEF SameTexts
<1>11. segment' \in Nat \cup {NONE} /\ (segment' # NONE => segment' = m + 1)
  OBVIOUS
<1> QED BY <1>4, <1>7, <1>8, <1>9, <1>10, <1>11 DEF FramesOK

(* An element started in the top stream is above what any text was pushed  *)
(* in.                                                                     *)
LEMMA FramesOfClosed ==
  ASSUME FramesOK, RestOK, StreamsOK, Closed, SameTexts, segment' = NONE
  PROVE  FramesOK'
<1>0. PICK n, m : n = Len(streams) /\ m = Len(stack)
  OBVIOUS
<1>1. m \in Nat /\ n \in Nat \ {0} /\ m # 0
  <2>1. stack \in Seq(FrameRec) /\ stack # << >>
    BY DEF FramesOK, Closed
  <2> QED BY <1>0, <2>1, TextFacts
<1>2. /\ stack' \in Seq(FrameRec) /\ Len(stack') = m - 1 /\ Top(stack) = stack[m]
      /\ \A i \in 1..m - 1 : stack'[i] = stack[i]
  <2>1. stack \in Seq(FrameRec) /\ stack # << >> /\ stack' = Popped(stack)
    BY DEF FramesOK, Closed
  <2> QED BY <1>0, <2>1, Popping
<1>3. m - 1 \in Nat /\ m \in 1..m /\ \A i \in 1..m - 1 : i \in 1..m
  BY <1>1
<1>4. \A i \in 1..m - 1 : stack'[i].stream = stack[i].stream /\ stack'[i].stream <= n
  BY <1>0, <1>2, <1>3, Frames DEF FrameFacts
<1>5. ASSUME NEW i \in 2..m - 1 PROVE stack'[i - 1].stream <= stack'[i].stream
  <2>1. i \in 2..m /\ i \in 1..m - 1 /\ i - 1 \in 1..m - 1
    BY <1>1
  <2>2. stack[i - 1].stream <= stack[i].stream
    BY <1>0, <2>1 DEF FramesOK
  <2> QED BY <1>4, <2>1, <2>2
<1>6. ASSUME NEW s \in 2..n
      PROVE  /\ streams'[s].atPush <= m - 1
             /\ \A i \in 1..m - 1 : stack'[i].stream < s <=> i <= streams'[s].atPush
  <2>1. s \in 1..n /\ n # 1
    BY <1>1
  <2>2. PICK a : a = streams[s].atPush
    OBVIOUS
  <2>3. streams'[s].atPush = a /\ a \in Nat /\ a <= m
    BY <1>0, <2>1, <2>2, StreamFields DEF SameTexts, FramesOK
  <2>4. \A i \in 1..m : stack[i].stream < s <=> i <= a
    BY <1>0, <2>2 DEF FramesOK
  <2>5. stack[m].stream = n
    BY <1>0, <1>2, <2>1 DEF Closed, OnSource
  <2>6. ~(m <= a)
    <3>1. ~(n < s)
      BY <1>1
    <3> QED BY <1>3, <2>4, <2>5, <3>1
  <2>7. a <= m - 1
    BY <1>1, <2>3, <2>6
  <2> QED BY <1>3, <1>4, <2>3, <2>4, <2>7
<1>7. Len(streams') = n
  BY <1>0 DEF SameTexts
<1>8. segment' \in Nat \cup {NONE} /\ (segment' # NONE => segment' = m - 1)
  OBVIOUS
<1> QED BY <1>2, <1>4, <1>5, <1>6, <1>7, <1>8 DEF FramesOK

-----------------------------------------------------------------------------
(* What a step tells the caller.                                           *)

Quiet ==
  /\ UNCHANGED <<opts, stack, depth, open, outcome>>
  /\ state' = state \/ (state.at # "PendingEnd" /\ state'.at # "PendingEnd")
  /\ event' = event \/ event'.k # "end"

Stopped ==
  /\ UNCHANGED <<opts, stack, depth, open, event>>
  /\ outcome' \in {"eof", "error", "limit"}

Begun(x) == outcome = "reading" /\ state.at = "Steady" /\ opts' = opts /\ Start(x)

OpenedEvent ==
  \E x \in Names :
    /\ Begun(x) /\ state' = state /\ stack' = Append(stack, Frame(x))
    /\ depth' = depth + 1 /\ depth + 1 <= MaxDepth

QueuedEvent ==
  \E x \in Names :
    /\ Begun(x) /\ state'.at = "PendingEnd" /\ state'.name \in {x, Elsewhere}
    /\ stack' = stack /\ depth' = depth

PendingEvent ==
  /\ outcome = "reading" /\ state.at = "PendingEnd" /\ state'.at = "Steady"
  /\ opts' = opts /\ stack' = stack /\ depth' = depth
  /\ End(state.name)

ClosedEvent ==
  /\ outcome = "reading" /\ state.at = "Steady" /\ state' = state /\ opts' = opts
  /\ stack # << >> /\ stack' = Popped(stack)
  /\ \/ depth' = Monus(depth)
     \/ opts.recovery /\ depth' = Monus(Monus(depth))
  /\ End(Top(stack).name) \/ End(Empty)

OrphanEvent ==
  /\ stack = << >> /\ stack' = stack /\ opts' = opts /\ state' = state
  /\ depth' = Monus(depth) /\ Silent

LEMMA MonusFacts ==
  \A n \in Nat : Monus(n) \in Nat /\ Monus(n) <= n /\ (n # 0 => Monus(n) = n - 1)
BY DEF Monus

LEMMA QuietNests ==
  ASSUME NestOK, Quiet
  PROVE  NestOK'
<1>1. depth' \in 0..MaxDepth /\ DepthTracksStack' /\ open' \in Seq(Names)
      /\ outcome' \in {"reading", "eof", "error", "limit"}
  BY DEF NestOK, DepthTracksStack, Quiet
<1>2. ASSUME outcome' = "reading"
      PROVE  /\ Len(open') = Len(stack') + (IF state'.at = "PendingEnd" THEN 1 ELSE 0)
             /\ \A i \in 1..Len(stack') : open'[i] = stack'[i].name
             /\ state'.at = "PendingEnd" => state'.name \in {open'[Len(open')], Elsewhere}
  <2>1. outcome = "reading" /\ stack' = stack /\ open' = open
    BY <1>2 DEF Quiet
  <2>2. CASE state' = state
    BY <2>1, <2>2 DEF NestOK
  <2>3. CASE state.at # "PendingEnd" /\ state'.at # "PendingEnd"
    BY <2>1, <2>3 DEF NestOK
  <2> QED BY <2>2, <2>3 DEF Quiet
<1>3. event'.k = "end" => event'.n \in {event'.of, Empty, Elsewhere}
  BY DEF NestOK, Quiet
<1> QED BY <1>1, <1>2, <1>3 DEF NestOK

LEMMA StoppedNests ==
  ASSUME NestOK, Stopped
  PROVE  NestOK'
BY DEF NestOK, DepthTracksStack, Stopped

NestFacts ==
  /\ Len(stack) \in Nat /\ depth \in Nat /\ depth <= Len(stack)
  /\ ~opts.recovery => depth = Len(stack)
  /\ open \in Seq(Names) /\ Len(open) \in Nat

LEMMA NestHas ==
  ASSUME NestOK, FramesOK
  PROVE  NestFacts
<1>1. open \in Seq(Names)
  BY DEF NestOK
<1>2. Len(open) \in Nat
  BY <1>1
<1>3. Len(stack) \in Nat
  BY Frames DEF FrameFacts
<1>4. depth \in Nat
  BY Numbers DEF NestOK
<1> QED BY <1>1, <1>2, <1>3, <1>4 DEF NestOK, DepthTracksStack, NestFacts

LEMMA OpenedNests ==
  ASSUME NestOK, FramesOK, StreamsOK, RestOK, OpenedEvent
  PROVE  NestOK'
<1>1. PICK x \in Names :
        /\ Begun(x) /\ state' = state /\ stack' = Append(stack, Frame(x))
        /\ depth' = depth + 1 /\ depth + 1 <= MaxDepth
  BY DEF OpenedEvent
<1>2. /\ outcome = "reading" /\ outcome' = "reading" /\ opts' = opts
      /\ state'.at # "PendingEnd" /\ state.at # "PendingEnd"
      /\ event'.k # "end" /\ open' = Append(open, x)
  BY <1>1 DEF Begun, Start
<1>3. PICK m : m = Len(stack)
  OBVIOUS
<1>4. /\ m \in Nat /\ depth \in Nat /\ depth <= m /\ (~opts.recovery => depth = m)
      /\ open \in Seq(Names)
  BY <1>3, NestHas DEF NestFacts
<1>5. Len(open) = m /\ \A i \in 1..m : open[i] = stack[i].name
  BY <1>2, <1>3, <1>4 DEF NestOK
<1>6. /\ Len(stack') = m + 1 /\ (\A i \in 1..m : stack'[i] = stack[i])
      /\ stack'[m + 1].name = x
  <2>1. stack \in Seq(FrameRec)
    BY DEF FramesOK
  <2>2. Frame(x) \in FrameRec /\ Frame(x).name = x
    BY FrameFields
  <2> QED BY <1>1, <1>3, <2>1, <2>2, Pushing
<1>7. /\ open' \in Seq(Names) /\ Len(open') = m + 1
      /\ (\A i \in 1..m : open'[i] = open[i]) /\ open'[m + 1] = x
  BY <1>2, <1>4, <1>5, Pushing
<1>8. \A i \in 1..m + 1 : open'[i] = stack'[i].name
  <2>1. \A i \in 1..m + 1 : i = m + 1 \/ i \in 1..m
    BY <1>4
  <2> QED BY <1>5, <1>6, <1>7, <2>1
<1>9. depth' \in 0..MaxDepth /\ DepthTracksStack'
  <2>1. depth' = depth + 1 /\ depth' \in 0..MaxDepth
    BY <1>1, <1>4, Numbers
  <2>2. depth' <= m + 1 /\ (~opts.recovery => depth' = m + 1)
    BY <1>4, <2>1
  <2> QED BY <1>2, <1>6, <2>1, <2>2 DEF DepthTracksStack
<1>10. Len(open') = Len(stack') + (IF state'.at = "PendingEnd" THEN 1 ELSE 0)
  BY <1>2, <1>4, <1>6, <1>7
<1> QED BY <1>2, <1>6, <1>7, <1>8, <1>9, <1>10 DEF NestOK

LEMMA QueuedNests ==
  ASSUME NestOK, FramesOK, QueuedEvent
  PROVE  NestOK'
<1>1. PICK x \in Names :
        /\ Begun(x) /\ state'.at = "PendingEnd" /\ state'.name \in {x, Elsewhere}
        /\ stack' = stack /\ depth' = depth
  BY DEF QueuedEvent
<1>2. /\ outcome = "reading" /\ outcome' = "reading" /\ opts' = opts
      /\ state.at # "PendingEnd"
      /\ event'.k # "end" /\ open' = Append(open, x)
  BY <1>1 DEF Begun, Start
<1>3. PICK m : m = Len(stack)
  OBVIOUS
<1>4. m \in Nat /\ open \in Seq(Names)
  BY <1>3, NestHas DEF NestFacts
<1>5. Len(open) = m /\ \A i \in 1..m : open[i] = stack[i].name
  BY <1>2, <1>3, <1>4 DEF NestOK
<1>6. /\ open' \in Seq(Names) /\ Len(open') = m + 1
      /\ (\A i \in 1..m : open'[i] = open[i]) /\ open'[m + 1] = x
  BY <1>2, <1>4, <1>5, Pushing
<1>7. depth' \in 0..MaxDepth /\ DepthTracksStack'
  BY <1>1, <1>2 DEF NestOK, DepthTracksStack
<1>8. Len(open') = Len(stack') + (IF state'.at = "PendingEnd" THEN 1 ELSE 0)
  BY <1>1, <1>3, <1>6
<1>9. \A i \in 1..Len(stack') : open'[i] = stack'[i].name
  BY <1>1, <1>3, <1>5, <1>6
<1>10. state'.name \in {open'[Len(open')], Elsewhere}
  BY <1>1, <1>6
<1> QED BY <1>2, <1>6, <1>7, <1>8, <1>9, <1>10 DEF NestOK

LEMMA PendingNests ==
  ASSUME NestOK, FramesOK, PendingEvent
  PROVE  NestOK'
<1>1. PICK m : m = Len(stack)
  OBVIOUS
<1>2. m \in Nat /\ open \in Seq(Names)
  BY <1>1, NestHas DEF NestFacts
<1>3. /\ Len(open) = m + 1 /\ (\A i \in 1..m : open[i] = stack[i].name)
      /\ state.name \in {open[Len(open)], Elsewhere}
  BY <1>1, <1>2 DEF NestOK, PendingEvent
<1>4. open # << >> /\ \A i \in 1..m : i \in 1..Len(open) - 1
  BY <1>2, <1>3
<1>5. /\ event' = [k |-> "end", n |-> state.name, of |-> Top(open)]
      /\ open' = Popped(open) /\ outcome' = outcome
  BY <1>4 DEF PendingEvent, End
<1>6. /\ open' \in Seq(Names) /\ Len(open') = m /\ Top(open) = open[Len(open)]
      /\ \A i \in 1..m : open'[i] = open[i]
  BY <1>2, <1>3, <1>4, <1>5, Popping
<1>7. event'.n \in {event'.of, Empty, Elsewhere}
  BY <1>3, <1>5, <1>6
<1>8. depth' \in 0..MaxDepth /\ DepthTracksStack' /\ outcome' = "reading"
  BY <1>5 DEF NestOK, DepthTracksStack, PendingEvent
<1>9. Len(open') = Len(stack') + (IF state'.at = "PendingEnd" THEN 1 ELSE 0)
      /\ state'.at # "PendingEnd"
  BY <1>1, <1>2, <1>6 DEF PendingEvent
<1>10. \A i \in 1..Len(stack') : open'[i] = stack'[i].name
  BY <1>1, <1>3, <1>6 DEF PendingEvent
<1> QED BY <1>6, <1>7, <1>8, <1>9, <1>10 DEF NestOK

LEMMA ClosedNests ==
  ASSUME NestOK, FramesOK, ClosedEvent
  PROVE  NestOK'
<1>1. PICK m : m = Len(stack)
  OBVIOUS
<1>2. /\ m \in Nat /\ depth \in Nat /\ depth <= m /\ (~opts.recovery => depth = m)
      /\ open \in Seq(Names)
  BY <1>1, NestHas DEF NestFacts
<1>3. /\ m # 0 /\ Len(stack') = m - 1 /\ Top(stack) = stack[m]
      /\ \A i \in 1..m - 1 : stack'[i] = stack[i]
  <2>1. stack \in Seq(FrameRec) /\ stack # << >> /\ stack' = Popped(stack)
    BY DEF FramesOK, ClosedEvent
  <2> QED BY <1>1, <2>1, Popping
<1>4. Len(open) = m /\ \A i \in 1..m : open[i] = stack[i].name
  BY <1>1, <1>2 DEF NestOK, ClosedEvent
<1>5. open # << >> /\ m \in 1..m /\ \A i \in 1..m - 1 : i \in 1..m
  BY <1>2, <1>3, <1>4
<1>6. PICK y : /\ y \in {Top(stack).name, Empty}
               /\ event' = [k |-> "end", n |-> y, of |-> Top(open)]
               /\ open' = Popped(open) /\ outcome' = outcome
  BY <1>5 DEF ClosedEvent, End
<1>7. /\ open' \in Seq(Names) /\ Len(open') = m - 1 /\ Top(open) = open[m]
      /\ \A i \in 1..m - 1 : open'[i] = open[i]
  BY <1>2, <1>4, <1>5, <1>6, Popping
<1>8. event'.n \in {event'.of, Empty, Elsewhere}
  BY <1>3, <1>4, <1>5, <1>6, <1>7
<1>9. \A i \in 1..m - 1 : open'[i] = stack'[i].name
  BY <1>3, <1>4, <1>5, <1>7
<1>10. depth' \in 0..MaxDepth /\ DepthTracksStack'
  <2>1. depth \in 0..MaxDepth /\ MaxDepth \in Nat
    BY Numbers DEF NestOK
  <2>2. Monus(depth) \in Nat /\ Monus(depth) <= depth /\ (depth # 0 => Monus(depth) = depth - 1)
        /\ Monus(0) = 0
    BY <1>2 DEF Monus
  <2>3. Monus(Monus(depth)) \in Nat /\ Monus(Monus(depth)) <= Monus(depth)
    BY <2>2, MonusFacts
  <2>4. Monus(depth) <= m - 1 /\ (depth = m => Monus(depth) = m - 1)
    BY <1>2, <1>3, <2>2
  <2>5. CASE depth' = Monus(depth)
    <3>1. depth' \in 0..MaxDepth /\ depth' <= m - 1 /\ (~opts.recovery => depth' = m - 1)
      BY <1>2, <2>1, <2>2, <2>4, <2>5
    <3> QED BY <1>3, <3>1 DEF DepthTracksStack, ClosedEvent
  <2>6. CASE opts.recovery /\ depth' = Monus(Monus(depth))
    <3>1. depth' \in 0..MaxDepth /\ depth' <= m - 1
      BY <1>2, <2>1, <2>2, <2>3, <2>4, <2>6
    <3> QED BY <1>3, <2>6, <3>1 DEF DepthTracksStack, ClosedEvent
  <2> QED BY <2>5, <2>6 DEF ClosedEvent
<1>11. outcome' = "reading" /\ state'.at # "PendingEnd"
  BY <1>6 DEF ClosedEvent
<1>12. Len(open') = Len(stack') + (IF state'.at = "PendingEnd" THEN 1 ELSE 0)
  BY <1>2, <1>3, <1>7, <1>11
<1> QED BY <1>3, <1>7, <1>8, <1>9, <1>10, <1>11, <1>12 DEF NestOK

LEMMA OrphanNests ==
  ASSUME NestOK, FramesOK, OrphanEvent
  PROVE  NestOK'
<1>1. depth = 0 /\ Len(stack) = 0
  <2>1. Len(stack) = 0
    BY DEF OrphanEvent
  <2> QED BY <2>1, NestHas DEF NestFacts
<1>2. depth' = depth
  BY <1>1 DEF OrphanEvent, Monus
<1>3. Quiet
  BY <1>2 DEF OrphanEvent, Silent, caller, Quiet
<1> QED BY <1>3, QuietNests

-----------------------------------------------------------------------------
(* Every action is one effect on the texts and one event.                  *)

Texts ==
  \/ stack' = stack /\ SegmentStep /\ (StreamsKept \/ StreamMoved)
  \/ stack' = stack /\ SegmentStep /\ StreamLeft /\ Cursor.atPush = Len(stack)
  \/ stack' = stack /\ segment' = segment /\ StreamPushed
  \/ Opened /\ segment' = NONE /\ StreamMoved
  \/ Closed /\ segment' = NONE /\ (StreamsKept \/ StreamMoved)

Told ==
  \/ Quiet \/ Stopped \/ OpenedEvent \/ QueuedEvent \/ PendingEvent
  \/ ClosedEvent \/ OrphanEvent

RestKept ==
  /\ deferred' \subseteq Entities /\ failed' \subseteq Entities
  /\ rootSeen' \in BOOLEAN /\ logged' \in BOOLEAN
  /\ state'.at \in {"Steady", "PendingEnd", "PendingRef"}

Effect == RestKept /\ Texts /\ Told

Before == IInv /\ UNCHANGED input

LEMMA EffectKeeps ==
  ASSUME Before, Effect
  PROVE  IInv'
<1>1. IInv /\ UNCHANGED input
  BY DEF Before
<1>2. RestOK'
  BY <1>1 DEF IInv, RestOK, input, Effect, RestKept
<1>3. StreamsKept => SameTexts
  BY DEF StreamsKept, SameTexts
<1>4. StreamMoved => StreamsOK' /\ SpentOK' /\ SameTexts
  BY <1>1, MovedKeeps DEF IInv, SameTexts
<1>5. StreamsKept => StreamsOK' /\ SpentOK'
  BY <1>1, KeptKeeps DEF IInv
<1>6. StreamsOK' /\ SpentOK' /\ FramesOK'
  <2>1. CASE stack' = stack /\ SegmentStep /\ (StreamsKept \/ StreamMoved)
    BY <1>1, <1>3, <1>4, <1>5, <2>1, FramesKept DEF IInv
  <2>2. CASE stack' = stack /\ SegmentStep /\ StreamLeft /\ Cursor.atPush = Len(stack)
    <3>1. /\ StreamsOK' /\ SpentOK' /\ Len(streams') = Len(streams) - 1
          /\ \A i \in 1..Len(streams) - 1 : streams'[i] = streams[i]
      BY <1>1, <2>2, LeftKeeps DEF IInv
    <3>2. ~OnSource
      BY <2>2 DEF StreamLeft
    <3> QED BY <1>1, <2>2, <3>1, <3>2, FramesOfLeft DEF IInv
  <2>3. CASE stack' = stack /\ segment' = segment /\ StreamPushed
    <3>1. /\ StreamsOK' /\ SpentOK' /\ Len(streams') = Len(streams) + 1
          /\ \A i \in 1..Len(streams) : streams'[i].atPush = streams[i].atPush
          /\ streams'[Len(streams) + 1].atPush = segment
      <4>1. RestOK /\ StreamsOK /\ SpentOK /\ UNCHANGED input /\ StreamPushed
        BY <1>1, <2>3 DEF IInv
      <4> QED BY <4>1, PushedKeeps
    <3>2. segment \in Nat
      BY <2>3 DEF StreamPushed
    <3> QED BY <1>1, <2>3, <3>1, <3>2, FramesOfPushed DEF IInv
  <2>4. CASE Opened /\ segment' = NONE /\ StreamMoved
    BY <1>1, <1>4, <2>4, FramesOfOpened DEF IInv
  <2>5. CASE Closed /\ segment' = NONE /\ (StreamsKept \/ StreamMoved)
    BY <1>1, <1>3, <1>4, <1>5, <2>5, FramesOfClosed DEF IInv
  <2> QED BY <2>1, <2>2, <2>3, <2>4, <2>5 DEF Effect, Texts
<1>7. NestOK'
  <2>1. NestOK /\ FramesOK /\ StreamsOK /\ RestOK
    BY <1>1 DEF IInv
  <2> QED BY <2>1, QuietNests, StoppedNests, OpenedNests, QueuedNests, PendingNests,
             ClosedNests, OrphanNests DEF Effect, Told
<1> QED BY <1>2, <1>6, <1>7 DEF IInv

LEMMA RestNow ==
  ASSUME Before
  PROVE  /\ RestOK /\ StreamsOK /\ FramesOK /\ NestOK /\ UNCHANGED input /\ opts' = opts
         /\ deferred \subseteq Entities /\ failed \subseteq Entities
         /\ rootSeen \in BOOLEAN /\ logged \in BOOLEAN
         /\ state.at \in {"Steady", "PendingEnd", "PendingRef"}
         /\ opts.recovery \in BOOLEAN
         /\ (segment # NONE => segment = Len(stack) /\ segment \in Nat)
<1>1. RestOK /\ StreamsOK /\ FramesOK /\ NestOK /\ UNCHANGED input /\ opts' = opts
  BY DEF Before, IInv, input
<1> QED BY <1>1, InputFacts DEF RestOK, FramesOK

LEMMA FailEffect ==
  ASSUME Before, NEW why \in {"error", "limit"}, Fail(why)
  PROVE  Effect
<1>1. RestKept
  BY RestNow DEF Fail, entityVars, tagVars, RestKept
<1>2. Texts
  BY DEF Fail, entityVars, tagVars, Texts, SegmentStep, StreamsKept
<1>3. Stopped
  BY RestNow DEF Fail, tagVars, caller, Stopped
<1> QED BY <1>1, <1>2, <1>3 DEF Effect, Told

LEMMA FatalEffect ==
  ASSUME Before, Fatal
  PROVE  Effect
BY FailEffect DEF Fatal

LEMMA Advances ==
  ASSUME RestOK, StreamsOK, ~AtEnd, Advance, used' = used
  PROVE  StreamMoved
<1>1. Cursor.pos + 1 \in Cursor.pos..Len(Bytes) + 1
  <2>1. Cursor.pos \in 1..Len(Bytes) + 1 /\ Len(Bytes) \in Nat /\ ~(Cursor.pos > Len(Bytes))
    BY TextFacts DEF AtEnd
  <2>2. \A p, l : l \in Nat /\ p \in 1..l + 1 /\ ~(p > l) => p + 1 \in p..l + 1
    OBVIOUS
  <2> QED BY <2>1, <2>2
<1> QED BY <1>1 DEF Advance, MoveTo, StreamMoved, At

LEMMA Stays ==
  ASSUME Stay, used' = used
  PROVE  StreamsKept
BY DEF Stay, StreamsKept

(* Steps that leave the elements alone and start or end none.              *)
Passive ==
  /\ UNCHANGED tagVars /\ segment' \in {segment, NONE, Len(stack)}
  /\ UNCHANGED <<entityVars, open, outcome>>
  /\ state' = state \/ (state.at # "PendingEnd" /\ state'.at \in {"Steady", "PendingRef"})
  /\ event' = event \/ event'.k # "end"
  /\ logged' \in BOOLEAN

LEMMA PassiveEffect ==
  ASSUME Before, Passive,
         \/ StreamsKept \/ StreamMoved
         \/ StreamLeft /\ Cursor.atPush = Len(stack)
  PROVE  Effect
<1>1. RestKept
  BY RestNow DEF Passive, entityVars, tagVars, RestKept
<1>2. Texts
  BY DEF Passive, tagVars, Texts, SegmentStep
<1>3. Quiet
  BY RestNow DEF Passive, tagVars, Quiet
<1> QED BY <1>1, <1>2, <1>3 DEF Effect, Told

LEMMA LoggedTyped ==
  ASSUME Before, Clean \/ Recoverable
  PROVE  logged' \in BOOLEAN
BY RestNow DEF Clean, Recoverable

LEMMA SilentPassive ==
  ASSUME Before, Silent, StayInElement, Clean \/ Recoverable
  PROVE  Passive /\ used' = used
BY LoggedTyped DEF Silent, caller, StayInElement, entityVars, Passive

LEMMA LeafPassive ==
  ASSUME Before, NEW kind, kind # "end", Leaf(kind), StayInElement, Clean \/ Recoverable
  PROVE  Passive /\ used' = used
BY LoggedTyped DEF Leaf, StayInElement, entityVars, Passive

LEMMA StartElementEffect ==
  ASSUME Before, StartElement
  PROVE  Effect
<1>1. Dispatching /\ Looking({"start"})
  BY DEF StartElement, OpenTag
<1>2. CASE SecondRoot /\ Fatal
  BY <1>2, FatalEffect
<1>3. CASE Fail("limit")
  BY <1>3, FailEffect
<1>4. CASE /\ depth + 1 <= MaxDepth
           /\ IF SecondRoot THEN Recoverable ELSE Clean
           /\ rootSeen' = (rootSeen \/ depth = 0)
           /\ PushElement(Here)
           /\ Start(Here) /\ Advance
           /\ UNCHANGED <<entityVars, segment>>
  <2>1. Here \in Names /\ ~AtEnd
    BY <1>1, TagNames, RestNow DEF Looking
  <2>2. /\ stack' = Append(stack, Frame(Here)) /\ depth' = depth + 1 /\ state' = state
    BY <1>4 DEF PushElement
  <2>3. /\ outcome = "reading" /\ state.at = "Steady" /\ segment' = NONE
    BY <1>1, <1>4 DEF Dispatching, Steady
  <2>4. StreamMoved
    BY <1>4, <2>1, Advances, RestNow DEF entityVars
  <2>5. RestKept
    <3>1. logged' \in BOOLEAN
      BY <1>4, LoggedTyped
    <3> QED BY <1>4, <2>2, <3>1, RestNow DEF entityVars, RestKept
  <2>6. OpenedEvent
    BY <1>4, <2>1, <2>2, <2>3, RestNow DEF OpenedEvent, Begun
  <2>7. Opened
    BY <2>1, <2>2 DEF Opened
  <2> QED BY <2>3, <2>4, <2>5, <2>6, <2>7 DEF Effect, Texts, Told
<1> QED BY <1>2, <1>3, <1>4 DEF StartElement, OpenTag

LEMMA EmptyElementEffect ==
  ASSUME Before, EmptyElement
  PROVE  Effect
<1>1. Dispatching /\ Looking({"empty"})
  BY DEF EmptyElement, OpenTag
<1>2. CASE SecondRoot /\ Fatal
  BY <1>2, FatalEffect
<1>3. CASE Fail("limit")
  BY <1>3, FailEffect
<1>4. CASE /\ depth + 1 <= MaxDepth
           /\ IF SecondRoot THEN Recoverable ELSE Clean
           /\ rootSeen' = (rootSeen \/ depth = 0)
           /\ QueueClose(Here)
           /\ Start(Here) /\ Advance
           /\ UNCHANGED <<entityVars, segment>>
  <2>1. Here \in Names /\ ~AtEnd
    BY <1>1, TagNames, RestNow DEF Looking
  <2>2. /\ stack' = stack /\ depth' = depth /\ state'.at = "PendingEnd"
        /\ state'.name \in {Here, Elsewhere}
    BY <1>4 DEF QueueClose
  <2>3. /\ outcome = "reading" /\ state.at = "Steady"
    BY <1>1 DEF Dispatching, Steady
  <2>4. StreamMoved
    BY <1>4, <2>1, Advances, RestNow DEF entityVars
  <2>5. RestKept
    <3>1. logged' \in BOOLEAN
      BY <1>4, LoggedTyped
    <3> QED BY <1>4, <2>2, <3>1, RestNow DEF entityVars, RestKept
  <2>6. QueuedEvent
    BY <1>4, <2>1, <2>2, <2>3, RestNow DEF QueuedEvent, Begun
  <2>7. SegmentStep
    BY <1>4 DEF SegmentStep
  <2> QED BY <2>2, <2>4, <2>5, <2>6, <2>7 DEF Effect, Texts, Told
<1> QED BY <1>2, <1>3, <1>4 DEF EmptyElement, OpenTag

LEMMA PendingEndEffect ==
  ASSUME Before, PendingEnd
  PROVE  Effect
<1>1. /\ outcome = "reading" /\ state.at = "PendingEnd" /\ state' = Steady /\ End(state.name)
      /\ Stay /\ Clean /\ UNCHANGED <<entityVars, tagVars, segment>>
  BY DEF PendingEnd
<1>2. StreamsKept
  BY <1>1, Stays DEF entityVars
<1>3. stack' = stack /\ depth' = depth /\ SegmentStep /\ state'.at = "Steady"
  BY <1>1 DEF tagVars, SegmentStep, Steady
<1>4. RestKept
  BY <1>1, <1>3, LoggedTyped, RestNow DEF entityVars, tagVars, RestKept
<1>5. PendingEvent
  BY <1>1, <1>3, RestNow DEF PendingEvent
<1> QED BY <1>2, <1>3, <1>4, <1>5 DEF Effect, Texts, Told

LEMMA SynthesizeCloses ==
  ASSUME Before, Dispatching, stack # << >>, SynthesizeClose(Monus(depth)) \/ SynthesizeClose(depth),
         state' = state, opts.recovery
  PROVE  ClosedEvent
<1>1. /\ stack' = Popped(stack) /\ depth' \in {Monus(depth), Monus(Monus(depth))}
      /\ End(SynthName) /\ SynthName \in {Empty, Top(stack).name}
  BY DEF SynthesizeClose, SynthName
<1>2. outcome = "reading" /\ state.at = "Steady"
  BY DEF Dispatching, Steady
<1> QED BY <1>1, <1>2, RestNow DEF ClosedEvent

LEMMA EndMatchedEffect ==
  ASSUME Before, EndMatched
  PROVE  Effect
<1>1. /\ Dispatching /\ ~AtEnd /\ stack # << >> /\ Top(stack).stream = Len(streams)
      /\ Top(stack).name = Here /\ depth' = Monus(depth) /\ stack' = Popped(stack)
      /\ End(IF OnSource THEN Here ELSE Empty)
      /\ Advance /\ Clean /\ UNCHANGED <<entityVars, rootSeen, state, segment>>
  BY DEF EndMatched, SeeEnd, OtherStream, Looking
<1>2. StreamMoved
  BY <1>1, Advances, RestNow DEF entityVars
<1>3. RestKept
  BY <1>1, LoggedTyped, RestNow DEF entityVars, RestKept
<1>4. outcome = "reading" /\ state.at = "Steady" /\ segment' = NONE
  BY <1>1 DEF Dispatching, Steady
<1>5. ClosedEvent
  BY <1>1, <1>4, RestNow DEF ClosedEvent
<1>6. Closed
  BY <1>1 DEF Closed
<1> QED BY <1>2, <1>3, <1>4, <1>5, <1>6 DEF Effect, Texts, Told

LEMMA EndMismatchedEffect ==
  ASSUME Before, EndMismatched
  PROVE  Effect
<1>1. CASE Fatal
  BY <1>1, FatalEffect
<1>2. CASE /\ Recoverable
           /\ IF OnStack(Here) THEN Stay ELSE Advance
           /\ SynthesizeClose(Monus(depth))
           /\ UNCHANGED <<entityVars, state, segment>>
  <2>1. Dispatching /\ ~AtEnd /\ stack # << >> /\ Top(stack).stream = Len(streams)
    BY DEF EndMismatched, SeeEnd, OtherStream, Looking
  <2>2. StreamsKept \/ StreamMoved
    BY <1>2, <2>1, Advances, Stays, RestNow DEF entityVars
  <2>3. RestKept
    BY <1>2, LoggedTyped, RestNow DEF entityVars, RestKept, SynthesizeClose
  <2>4. ClosedEvent
    BY <1>2, <2>1, SynthesizeCloses DEF Recoverable
  <2>5. Closed /\ segment' = NONE
    BY <1>2, <2>1 DEF Closed, SynthesizeClose, Dispatching
  <2> QED BY <2>2, <2>3, <2>4, <2>5 DEF Effect, Texts, Told
<1> QED BY <1>1, <1>2 DEF EndMismatched

LEMMA EndOrphanEffect ==
  ASSUME Before, EndOrphan
  PROVE  Effect
<1>1. CASE Fatal
  BY <1>1, FatalEffect
<1>2. CASE /\ Recoverable /\ Advance /\ Silent
           /\ depth' = Monus(depth)
           /\ UNCHANGED <<entityVars, rootSeen, stack, state, segment>>
  <2>1. ~AtEnd /\ stack = << >>
    BY DEF EndOrphan, SeeEnd, Looking
  <2>2. StreamMoved
    BY <1>2, <2>1, Advances, RestNow DEF entityVars
  <2>3. RestKept
    BY <1>2, LoggedTyped, RestNow DEF entityVars, RestKept
  <2>4. OrphanEvent
    BY <1>2, <2>1, RestNow DEF OrphanEvent
  <2>5. stack' = stack /\ SegmentStep
    BY <1>2 DEF SegmentStep
  <2> QED BY <2>2, <2>3, <2>4, <2>5 DEF Effect, Texts, Told
<1> QED BY <1>1, <1>2 DEF EndOrphan

LEMMA UnclosedAtEofEffect ==
  ASSUME Before, UnclosedAtEof
  PROVE  Effect
<1>1. CASE Fatal
  BY <1>1, FatalEffect
<1>2. CASE /\ Recoverable /\ Stay
           /\ SynthesizeClose(depth)
           /\ UNCHANGED <<entityVars, state, segment>>
  <2>1. Dispatching /\ OnSource /\ depth > 0
    BY DEF UnclosedAtEof, AtDocumentEnd
  <2>2. stack # << >>
    <3>1. depth \in Nat /\ depth <= Len(stack)
      BY NestHas, RestNow DEF NestFacts
    <3>2. Len(stack) # 0
      BY <2>1, <3>1
    <3> QED BY <3>2
  <2>3. StreamsKept
    BY <1>2, Stays DEF entityVars
  <2>4. RestKept
    BY <1>2, LoggedTyped, RestNow DEF entityVars, RestKept, SynthesizeClose
  <2>5. ClosedEvent
    BY <1>2, <2>1, <2>2, SynthesizeCloses DEF Recoverable
  <2>6. Closed /\ segment' = NONE
    BY <1>2, <2>1, <2>2 DEF Closed, SynthesizeClose, Dispatching
  <2> QED BY <2>3, <2>4, <2>5, <2>6 DEF Effect, Texts, Told
<1> QED BY <1>1, <1>2 DEF UnclosedAtEof

LEMMA EofEffect ==
  ASSUME Before, Eof
  PROVE  Effect
<1>1. CASE Fatal
  BY <1>1, FatalEffect
<1>2. CASE /\ IF rootSeen THEN Clean ELSE Recoverable
           /\ outcome' = "eof"
           /\ Stay /\ UNCHANGED caller /\ StayInElement
  <2>1. StreamsKept /\ logged' \in BOOLEAN
    BY <1>2, Stays, LoggedTyped DEF StayInElement, entityVars
  <2>2. RestKept
    BY <1>2, <2>1, RestNow DEF StayInElement, entityVars, tagVars, RestKept
  <2>3. stack' = stack /\ SegmentStep
    BY <1>2 DEF StayInElement, tagVars, SegmentStep
  <2>4. Stopped
    BY <1>2, RestNow DEF StayInElement, tagVars, caller, Stopped
  <2> QED BY <2>1, <2>2, <2>3, <2>4 DEF Effect, Texts, Told
<1> QED BY <1>1, <1>2 DEF Eof

LEMMA SilentAdvance ==
  ASSUME Before, ~AtEnd, Advance, Silent, StayInElement, Clean \/ Recoverable
  PROVE  Effect
<1>1. Passive /\ used' = used
  BY SilentPassive
<1>2. StreamMoved
  BY <1>1, Advances, RestNow
<1> QED BY <1>1, <1>2, PassiveEffect

LEMMA LeafAdvance ==
  ASSUME Before, ~AtEnd, Advance, NEW kind, kind # "end", Leaf(kind), StayInElement,
         Clean \/ Recoverable
  PROVE  Effect
<1>1. Passive /\ used' = used
  BY LeafPassive
<1>2. StreamMoved
  BY <1>1, Advances, RestNow
<1> QED BY <1>1, <1>2, PassiveEffect

LEMMA LeavesText ==
  ASSUME Before, ~OnSource, streams' = Popped(streams), Clean, Silent, UNCHANGED taken,
         StayInElement, Cursor.atPush = Len(stack)
  PROVE  Effect
<1>1. Passive /\ used' = used
  BY SilentPassive
<1>2. StreamLeft
  BY <1>1 DEF StreamLeft
<1> QED BY <1>1, <1>2, PassiveEffect

LEMMA LeaveEntityEffect ==
  ASSUME Before, LeaveEntity
  PROVE  Effect
<1>1. CASE Fail("error")
  BY <1>1, FailEffect
<1>2. CASE /\ ~Unbalanced(Len(stack))
           /\ streams' = Popped(streams)
           /\ Clean /\ Silent /\ UNCHANGED taken /\ StayInElement
  BY <1>2, LeavesText DEF LeaveEntity, Unbalanced
<1> QED BY <1>1, <1>2 DEF LeaveEntity

LEMMA BetweenEffect ==
  ASSUME Before, SkipSpace \/ Cdata \/ Misc \/ BareLt
  PROVE  Effect
<1>1. ~AtEnd
  BY DEF SkipSpace, Cdata, Misc, BareLt, Looking
<1>2. CASE SkipSpace
  BY <1>1, <1>2, SilentAdvance DEF SkipSpace
<1>3. CASE Cdata
  <2>1. CASE Fail("error")
    BY <2>1, FailEffect
  <2>2. CASE Leaf("cdata") /\ Advance /\ Clean /\ StayInElement
    BY <1>1, <2>2, LeafAdvance
  <2> QED BY <1>3, <2>1, <2>2 DEF Cdata
<1>4. CASE Misc
  BY <1>1, <1>4, LeafAdvance DEF Misc
<1>5. CASE BareLt
  <2>1. CASE Fail("error")
    BY <2>1, FailEffect
  <2>2. CASE Recoverable /\ Leaf("text") /\ Advance /\ StayInElement
    BY <1>1, <2>2, LeafAdvance
  <2> QED BY <1>5, <2>1, <2>2 DEF BareLt
<1> QED BY <1>2, <1>3, <1>4, <1>5

LEMMA ReadTextEffect ==
  ASSUME Before, ReadText
  PROVE  Effect
<1>1. CASE Fatal
  BY <1>1, FatalEffect
<1>2. CASE ~Fatal
  <2>1. PICK q : q = AfterRun(Cursor.pos)
    OBVIOUS
  <2>2. /\ IF AtTop THEN Recoverable ELSE Clean
        /\ MoveTo(q)
        /\ UNCHANGED <<entityVars, tagVars, state>>
        /\ IF StopsAt(q) \in {"ref", "junk"}
           THEN segment' = Len(stack) /\ Silent
           ELSE Leaf("text") /\ UNCHANGED segment
    BY <1>2, <2>1 DEF ReadText
  <2>3. q \in Cursor.pos..Len(Bytes) + 1
    BY <2>1, RunEnds, RestNow
  <2>4. StreamMoved
    BY <2>2, <2>3 DEF MoveTo, StreamMoved, At, entityVars
  <2>5. logged' \in BOOLEAN
    BY <2>2, LoggedTyped
  <2>6. /\ segment' \in {segment, NONE, Len(stack)} /\ open' = open /\ outcome' = outcome
        /\ event' = event \/ event'.k # "end"
    <3>1. CASE segment' = Len(stack) /\ Silent
      BY <3>1 DEF Silent, caller
    <3>2. CASE Leaf("text") /\ UNCHANGED segment
      BY <3>2 DEF Leaf
    <3> QED BY <2>2, <3>1, <3>2
  <2>7. Passive
    BY <2>2, <2>5, <2>6 DEF Passive
  <2> QED BY <2>4, <2>7, PassiveEffect
<1> QED BY <1>1, <1>2

LEMMA FlushEffect ==
  ASSUME Before, Flush, Stay, Clean, UNCHANGED <<entityVars, tagVars, state>>
  PROVE  Effect
<1>1. StreamsKept
  BY Stays DEF entityVars
<1>2. logged' \in BOOLEAN
  BY LoggedTyped
<1>3. Passive
  BY <1>2 DEF Flush, Leaf, Passive
<1> QED BY <1>1, <1>3, PassiveEffect

LEMMA SegmentEffect ==
  ASSUME Before, SegmentText \/ SegmentJunk \/ SegmentTag \/ SegmentEnd
  PROVE  Effect
<1>1. CASE SegmentText
  BY <1>1, SilentAdvance DEF SegmentText, Looking
<1>2. CASE SegmentJunk
  <2>1. CASE Fatal
    BY <2>1, FatalEffect
  <2>2. CASE Recoverable /\ Advance /\ Silent /\ StayInElement
    BY <1>2, <2>2, SilentAdvance DEF SegmentJunk, Looking
  <2> QED BY <1>2, <2>1, <2>2 DEF SegmentJunk
<1>3. CASE SegmentTag
  BY <1>3, FlushEffect DEF SegmentTag
<1>4. CASE SegmentEnd
  <2>1. CASE Fail("error")
    BY <2>1, FailEffect
  <2>2. CASE /\ ~OnSource /\ ~Unbalanced(segment)
             /\ streams' = Popped(streams)
             /\ Clean /\ Silent /\ UNCHANGED taken /\ StayInElement
    <3>1. Cursor.atPush = Len(stack)
      BY <1>4, <2>2, RestNow DEF SegmentEnd, Expanding, Unbalanced
    <3> QED BY <2>2, <3>1, LeavesText
  <2>3. CASE Flush /\ Stay /\ Clean /\ UNCHANGED <<entityVars, tagVars, state>>
    BY <2>3, FlushEffect
  <2> QED BY <1>4, <2>1, <2>2, <2>3 DEF SegmentEnd
<1> QED BY <1>1, <1>2, <1>3, <1>4

LEMMA QueueRefEffect ==
  ASSUME Before, QueueRef
  PROVE  Effect
<1>1. /\ ~AtEnd /\ state = Steady /\ state'.at = "PendingRef"
      /\ Flush /\ Advance /\ Clean /\ UNCHANGED <<entityVars, tagVars>>
  BY DEF QueueRef, SeeRef, Expanding, Looking
<1>2. StreamMoved
  BY <1>1, Advances, RestNow DEF entityVars
<1>3. Passive
  BY <1>1, LoggedTyped DEF Flush, Leaf, Passive, Steady
<1> QED BY <1>2, <1>3, PassiveEffect

LEMMA PendingRefEffect ==
  ASSUME Before, PendingRef
  PROVE  Effect
<1>1. /\ state.at = "PendingRef" /\ state'.at = "Steady" /\ Leaf("ref")
      /\ Stay /\ Clean /\ UNCHANGED <<entityVars, tagVars, segment>>
  BY DEF PendingRef, Steady
<1>2. StreamsKept
  BY <1>1, Stays DEF entityVars
<1>3. Passive
  BY <1>1, LoggedTyped DEF Leaf, Passive
<1> QED BY <1>2, <1>3, PassiveEffect

LEMMA SeenRef ==
  ASSUME Before, ExpandRef
  PROVE  outcome = "reading" /\ ~AtEnd /\ segment \in Nat
BY RestNow DEF ExpandRef, SeeRef, Expanding, Looking

LEMMA LoadEntityEffect ==
  ASSUME Before, LoadEntity
  PROVE  Effect
<1>1. /\ deferred' = deferred \ {Here} /\ Here \in deferred
      /\ Stay /\ UNCHANGED <<used, tagVars, state, segment>>
      /\ failed' \in {failed, failed \cup {Here}} /\ (Clean \/ Recoverable)
      /\ UNCHANGED caller /\ outcome' \in {outcome, "error"}
  BY DEF LoadEntity, Silent
<1>2. StreamsKept
  BY <1>1, Stays
<1>3. stack' = stack /\ SegmentStep
  BY <1>1 DEF tagVars, SegmentStep
<1>4. RestKept
  <2>1. logged' \in BOOLEAN
    BY <1>1, LoggedTyped
  <2> QED BY <1>1, <2>1, RestNow DEF tagVars, RestKept
<1>5. Quiet \/ Stopped
  BY <1>1, RestNow DEF tagVars, caller, Quiet, Stopped
<1> QED BY <1>2, <1>3, <1>4, <1>5 DEF Effect, Texts, Told

LEMMA UnknownRefEffect ==
  ASSUME Before, UnknownRef
  PROVE  Effect
<1>1. CASE Fatal
  BY <1>1, FatalEffect
<1>2. CASE Advance /\ Silent /\ StayInElement /\ (Clean \/ Recoverable)
  BY <1>2, SilentAdvance, SeenRef DEF UnknownRef
<1> QED BY <1>1, <1>2 DEF UnknownRef

LEMMA PushEntityEffect ==
  ASSUME Before, PushEntity
  PROVE  Effect
<1>1. CASE Fail("limit") \/ Fail("error")
  BY <1>1, FailEffect
<1>2. CASE /\ ~OverBudget(Here) /\ ~Active(Here)
           /\ used' = used + Cost(Here)
           /\ streams' = Append([streams EXCEPT ![Len(streams)].pos = @ + 1], NewStream(Here))
           /\ taken' = IF OnSource THEN taken ELSE taken + 1
           /\ Clean /\ Silent
           /\ UNCHANGED <<deferred, failed, tagVars, state, segment>>
  <2>1. Here \in Entities /\ ~AtEnd /\ segment \in Nat
    BY SeenRef DEF PushEntity
  <2>2. [streams EXCEPT ![Len(streams)].pos = @ + 1] = At(Cursor.pos + 1)
    BY TextFacts, RestNow DEF At
  <2>3. StreamPushed
    BY <1>2, <2>1, <2>2 DEF StreamPushed
  <2>4. stack' = stack /\ segment' = segment
    BY <1>2 DEF tagVars
  <2>5. RestKept
    BY <1>2, LoggedTyped, RestNow DEF tagVars, RestKept
  <2>6. Quiet
    BY <1>2, RestNow DEF tagVars, Silent, caller, Quiet
  <2> QED BY <2>3, <2>4, <2>5, <2>6 DEF Effect, Texts, Told
<1> QED BY <1>1, <1>2 DEF PushEntity

LEMMA StepKeeps ==
  ASSUME IInv, Next
  PROVE  IInv'
<1>1. Before
  BY DEF Next, Before
<1>2. CASE EndElsewhere
  BY <1>1, <1>2, FailEffect, EffectKeeps DEF EndElsewhere
<1>3. CASE StartElement \/ EmptyElement \/ PendingEnd \/ EndMatched \/ EndMismatched \/ EndOrphan
  BY <1>1, <1>3, StartElementEffect, EmptyElementEffect, PendingEndEffect, EndMatchedEffect,
     EndMismatchedEffect, EndOrphanEffect, EffectKeeps
<1>4. CASE LeaveEntity \/ UnclosedAtEof \/ Eof \/ SkipSpace \/ Cdata \/ Misc \/ BareLt
  BY <1>1, <1>4, LeaveEntityEffect, UnclosedAtEofEffect, EofEffect, BetweenEffect, EffectKeeps
<1>5. CASE ReadText \/ SegmentText \/ SegmentJunk \/ SegmentTag \/ SegmentEnd
  BY <1>1, <1>5, ReadTextEffect, SegmentEffect, EffectKeeps
<1>6. CASE QueueRef \/ PendingRef \/ LoadEntity \/ UnknownRef \/ PushEntity
  BY <1>1, <1>6, QueueRefEffect, PendingRefEffect, LoadEntityEffect, UnknownRefEffect,
     PushEntityEffect, EffectKeeps
<1> QED BY <1>2, <1>3, <1>4, <1>5, <1>6 DEF Next

LEMMA StutterKeeps ==
  ASSUME IInv, UNCHANGED vars
  PROVE  IInv'
<1>1. Before /\ StreamsKept
  BY DEF vars, Before, input, StreamsKept
<1>2. RestKept
  BY <1>1, RestNow DEF vars, RestKept
<1>3. Texts /\ Quiet
  BY <1>1 DEF vars, Texts, SegmentStep, Quiet
<1> QED BY <1>1, <1>2, <1>3, EffectKeeps DEF Effect, Told

LEMMA InitHolds ==
  ASSUME Init
  PROVE  IInv
<1>1. PICK i \in Inputs : doc = i.doc /\ entities = i.entities
  BY DEF Init
<1>2. i \in [doc : Seq(Token),
             entities : [Entities -> [text : Seq(Token), external : BOOLEAN]]]
  BY ReaderAssumption
<1>3. [doc |-> doc, entities |-> entities] = i
  BY <1>1, <1>2
<1>4. RestOK
  BY <1>3 DEF Init, Steady, RestOK
<1>5. streams = <<[name |-> Source, pos |-> 1, atPush |-> 0]>>
  BY DEF Init
<1>6. /\ streams \in Seq(StreamRec) /\ Len(streams) = 1 /\ streams # << >>
      /\ streams[1].name = Source /\ streams[1].pos = 1
  BY <1>5 DEF StreamRec
<1>7. StreamsOK
  <2>1. TextAt(1) \in Seq(Token)
    BY <1>1, <1>2 DEF TextAt
  <2>2. Len(TextAt(1)) \in Nat
    BY <2>1
  <2>3. \A j \in 1..1 : streams[j].pos <= Len(TextAt(j)) + 1
    BY <1>6, <2>2
  <2> QED BY <1>6, <2>3 DEF StreamsOK
<1>8. SpentOK
  <2>1. PICK C : C = [j \in 1..1 |-> 0]
    OBVIOUS
  <2>2. C \in [1..1 -> Nat] /\ C[1] = 0
    BY <2>1
  <2>3. taken = 0 /\ used = 0
    BY DEF Init
  <2>4. Paid(C)
    BY <1>6, <2>2, <2>3 DEF Paid
  <2> QED BY <1>6, <2>2, <2>3, <2>4, Numbers DEF SpentOK
<1>9. stack = << >> /\ open = << >> /\ Len(stack) = 0 /\ Len(open) = 0
  BY DEF Init
<1>10. FramesOK
  <2>1. stack \in Seq(FrameRec) /\ segment = NONE
    BY <1>9 DEF Init
  <2> QED BY <1>6, <1>9, <2>1 DEF FramesOK
<1>11. NestOK
  <2>1. /\ depth = 0 /\ outcome = "reading" /\ state.at = "Steady" /\ event.k = "none"
        /\ open \in Seq(Names)
    BY <1>9 DEF Init, Steady
  <2>2. DepthTracksStack
    BY <1>9, <2>1 DEF DepthTracksStack
  <2> QED BY <1>9, <2>1, <2>2, Numbers DEF NestOK
<1> QED BY <1>4, <1>7, <1>8, <1>10, <1>11 DEF IInv

LEMMA Invariance == Spec => []IInv
<1>1. Init => IInv
  BY InitHolds
<1>2. IInv /\ [Next]_vars => IInv'
  BY StepKeeps, StutterKeeps
<1> QED BY <1>1, <1>2, PTL DEF Spec

LEMMA HoldsTyped ==
  ASSUME IInv
  PROVE  TypeOK
<1>1. RestOK /\ StreamsOK /\ SpentOK /\ FramesOK /\ NestOK
  BY DEF IInv
<1>2. streams # << >> /\ streams[1].name = Source
      /\ (\A i \in DOMAIN streams : streams[i].pos \in Nat \ {0} /\ streams[i].atPush \in Nat)
      /\ \A i \in 2..Len(streams) : streams[i].name \in Entities
  <2>1. \A i \in DOMAIN streams : streams[i].pos \in Nat \ {0} /\ streams[i].atPush \in Nat
    BY <1>1, StreamFields
  <2> QED BY <1>1, <2>1 DEF StreamsOK
<1>3. stack \in Seq([name : Names, owned : BOOLEAN, stream : Nat \ {0}])
  BY <1>1 DEF FramesOK, FrameRec
<1> QED BY <1>1, <1>2, <1>3 DEF TypeOK, RestOK, SpentOK, FramesOK, NestOK
-----------------------------------------------------------------------------
(* For every document, entity table, limit and option, and in recovery as  *)
(* in strict mode: the events nest, the builder never pops an empty stack, *)
(* an end that names an element names the innermost, and depth never       *)
(* exceeds the number of open elements (xml_bytes_reader.rs, parser.rs).   *)
THEOREM EventsAlwaysNest == Spec => []EventsNest
<1>1. IInv => EventsNest
  <2>1. SUFFICES ASSUME IInv PROVE EventsNest
    OBVIOUS
  <2>2. TypeOK /\ NestOK /\ FramesOK
    BY <2>1, HoldsTyped DEF IInv
  <2>3. DOMAIN stack = 1..Len(stack)
    BY <2>2 DEF FramesOK
  <2> QED BY <2>2, <2>3 DEF NestOK, EventsNest
<1> QED BY <1>1, Invariance, PTL

(* No element is open in a text that is no longer read, and none of an     *)
(* outer text above one of an inner text (next_in_entity, read_text and    *)
(* read_end_element, with the stream each open element was started in).    *)
THEOREM TextsAreBalanced == Spec => []ElementsStayInTheirText
<1>1. IInv => ElementsStayInTheirText
  <2>1. SUFFICES ASSUME IInv PROVE ElementsStayInTheirText
    OBVIOUS
  <2>2. FramesOK
    BY <2>1 DEF IInv
  <2>3. Len(stack) \in Nat /\ DOMAIN stack = 1..Len(stack)
    BY <2>2 DEF FramesOK
  <2>4. \A i \in 1..Len(stack) : i > 1 => i \in 2..Len(stack)
    BY <2>3
  <2> QED BY <2>2, <2>3, <2>4 DEF FramesOK, ElementsStayInTheirText
<1> QED BY <1>1, Invariance, PTL

(* However references nest and repeat, no more is read from replacement    *)
(* texts than the expansion budget allows (expand_reference_bytes).        *)
THEOREM ExpansionIsBounded == Spec => []WorkBounded
<1>1. IInv => WorkBounded
  <2>1. SUFFICES ASSUME IInv PROVE WorkBounded
    OBVIOUS
  <2>2. PICK C : C \in [1..Len(streams) -> Nat] /\ Paid(C)
    BY <2>1 DEF IInv, SpentOK
  <2>3. Len(streams) \in 1..Len(streams)
    BY <2>1, StreamFields DEF IInv
  <2>4. C[Len(streams)] \in Nat
    BY <2>2, <2>3
  <2>5. PICK c : c = C[Len(streams)]
    OBVIOUS
  <2>6. c \in Nat /\ taken + c <= used /\ taken \in Nat /\ used \in Nat /\ used <= Budget
        /\ Budget \in Nat
    BY <2>1, <2>2, <2>4, <2>5, Numbers DEF Paid, IInv, SpentOK
  <2> QED BY <2>6 DEF WorkBounded
<1> QED BY <1>1, Invariance, PTL
=============================================================================
