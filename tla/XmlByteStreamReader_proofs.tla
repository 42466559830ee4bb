--------------------- MODULE XmlByteStreamReader_proofs ---------------------
(***************************************************************************)
(* The streaming reader, for documents of any length, tokens of any size,  *)
(* any buffer_size, hint and sequence of reads: the bounds of its buffer,  *)
(* and that its events are those of the whole document.                    *)
(***************************************************************************)
EXTENDS XmlByteStreamReader, FiniteSetTheorems, SequenceTheorems, WellFoundedInduction, TLAPS

IInv ==
  /\ MemoryBounded
  /\ entity # NONE => entity \in Entity

(* Where the text at the cursor ends.                                      *)
LEMMA AfterRunExists ==
  ASSUME TypeOK, StreamAssumption
  PROVE  AfterRun \in pos..BufLen /\ \A m \in pos + 1..AfterRun : src[base + m].k = "char"
<1> DEFINE Ends(q) == /\ \A m \in pos + 1..q : src[base + m].k = "char"
                      /\ q < BufLen => src[base + q + 1].k # "char"
           S == {q \in pos..BufLen : q = BufLen \/ src[base + q + 1].k # "char"}
           R == OpToRel(<, Nat)
<1>1. pos \in Nat /\ BufLen \in Nat /\ pos <= BufLen  BY DEF TypeOK, BufLen
<1>2. S \subseteq Nat /\ S # {}
  <2>1. BufLen \in S  BY <1>1
  <2>2. pos..BufLen \subseteq Nat  BY <1>1
  <2>3. S \subseteq pos..BufLen  OBVIOUS
  <2> HIDE DEF S
  <2>4. QED  BY <2>1, <2>2, <2>3
<1>3. PICK q \in S : \A m \in S : ~(m < q)
  <2>1. IsWellFoundedOn(R, Nat)  BY NatLessThanWellFounded
  <2>2. PICK q \in S : \A m \in S : ~(<<m, q>> \in R)
    BY <1>2, <2>1, WFMin, IsWellFoundedOnSubset
  <2>3. QED  BY <1>2, <2>2 DEF OpToRel
<1>4. q \in pos..BufLen /\ (q < BufLen => src[base + q + 1].k # "char")
  BY <1>1, <1>3
<1>5. ASSUME NEW m \in pos + 1..q  PROVE src[base + m].k = "char"
  <2>1. m - 1 \in pos..BufLen /\ m - 1 < q /\ m - 1 # BufLen  BY <1>1, <1>4, <1>5
  <2>2. m - 1 \notin S  BY <1>3, <2>1
  <2>3. src[base + (m - 1) + 1].k = "char"  BY <2>1, <2>2
  <2>4. base + (m - 1) + 1 = base + m  BY <1>1, <1>5 DEF TypeOK
  <2>5. QED  BY <2>3, <2>4
<1>6. \E r \in pos..BufLen : Ends(r)  BY <1>4, <1>5
<1>7. QED  BY <1>6 DEF AfterRun

(* What the tokens at the cursor are like.                                 *)
LEMMA HereIsAByte ==
  ASSUME TypeOK, StreamAssumption, ~AtEnd
  PROVE  /\ Here \in Byte /\ pos + 1 \in 1..BufLen
         /\ Here.size \in Nat \ {0} /\ Here.t \in Nat
         /\ Here.text \in Seq({"start", "end", "char"})
<1>1. /\ base \in Nat /\ pos \in Nat /\ fetched \in Nat /\ Len(src) \in Nat
      /\ base <= fetched /\ fetched <= Len(src) /\ pos <= fetched - base
      /\ src \in Seq(Byte)
  BY DEF TypeOK, BufLen, StreamAssumption
<1>2. pos < fetched - base  BY <1>1 DEF AtEnd, BufLen
<1>3. base + pos + 1 \in 1..Len(src)  BY <1>1, <1>2
<1>4. Here \in Byte  BY <1>1, <1>3 DEF Here
<1>5. QED  BY <1>1, <1>2, <1>4 DEF Byte, BufLen

LEMMA InitHolds == Init => IInv
<1> SUFFICES ASSUME Init PROVE IInv  OBVIOUS
<1> USE StreamAssumption
<1>1. src \in Inputs /\ Len(src) \in Nat
  BY DEF Init
<1>2. PICK hint \in Hints : /\ fetched = Least(Initial(hint), Len(src))
                            /\ eof = PrimedDry(hint)
  BY DEF Init
<1>3. Initial(hint) \in Nat /\ Initial(hint) <= InternalCap /\ InternalCap \in Nat
  BY DEF Initial, InternalCap, Least
<1> PICK i : i = Initial(hint)  OBVIOUS
<1>a. i \in Nat /\ i <= InternalCap /\ fetched = (IF i <= Len(src) THEN i ELSE Len(src))
  BY <1>2, <1>3 DEF Least
<1>b. eof = (Len(src) < i)
  BY <1>2 DEF PrimedDry
<1>4. fetched \in 0..Len(src) /\ fetched <= InternalCap /\ (eof => fetched = Len(src)) /\ eof \in BOOLEAN
  <2>1. fetched \in 0..Len(src) /\ fetched <= InternalCap  BY <1>1, <1>3, <1>a
  <2>2. (Len(src) < i) => fetched = Len(src)  BY <1>1, <1>a
  <2>3. (Len(src) < i) \in BOOLEAN  BY <1>1, <1>a
  <2>4. QED  BY <2>1, <2>2, <2>3, <1>b, Zenon
<1>5. /\ base = 0 /\ pos = 0 /\ entity = NONE /\ segment = FALSE /\ pending = NONE
      /\ depth = 0 /\ rootSeen = FALSE /\ pc = "runway" /\ outcome = "reading"
  BY DEF Init
<1>6. BufLen = fetched  BY <1>1, <1>4, <1>5 DEF BufLen
<1>7. base \in 0..fetched /\ pos \in 0..fetched /\ depth \in Nat /\ pending \in Nat \cup {NONE}
  BY <1>1, <1>4, <1>5
<1>8. QED
  BY <1>1, <1>4, <1>5, <1>6, <1>7 DEF IInv, MemoryBounded, TypeOK

(* The parts of the invariant.                                             *)
BufferOK ==
  /\ src \in Inputs /\ fetched \in 0..Len(src) /\ base \in 0..fetched
  /\ pos \in 0..BufLen /\ eof \in BOOLEAN
  /\ BufLen <= InternalCap /\ (eof => fetched = Len(src))

ParseOK ==
  /\ segment \in BOOLEAN /\ rootSeen \in BOOLEAN /\ depth \in Nat
  /\ pending \in Nat \cup {NONE}
  /\ entity # NONE => entity \in Entity /\ entity.at \in 1..Len(entity.text) + 1

ControlOK ==
  /\ pc \in {"runway", "fill", "next", "done"}
  /\ outcome \in {"reading", "eof", "error", "io", "clobbered"}

LEMMA Parts == IInv <=> BufferOK /\ ParseOK /\ ControlOK
<1>1. ASSUME entity # NONE, entity \in Entity  PROVE entity.t \in Nat  BY <1>1 DEF Entity
<1>2. QED
  BY <1>1, StreamAssumption DEF IInv, MemoryBounded, TypeOK, BufferOK, ParseOK, ControlOK

LEMMA SameBuffer ==
  ASSUME BufferOK, UNCHANGED <<src, buffer>>, pos' \in 0..BufLen
  PROVE  BufferOK'
BY DEF BufferOK, buffer, BufLen, InternalCap

LEMMA SameParse ==
  ASSUME ParseOK, UNCHANGED parse
  PROVE  ParseOK'
BY DEF ParseOK, parse

(* No token is taken past the end of the buffer.                           *)
LEMMA TokenInBuffer ==
  ASSUME IInv, NEW kind, TakeToken(kind)
  PROVE  /\ BufferOK' /\ ControlOK' /\ UNCHANGED <<entity, segment>> /\ pos \in Nat
<1>1. TypeOK /\ BufferOK  BY Parts DEF IInv, MemoryBounded
<1>2. ~AtEnd /\ Whole /\ pos' = pos + Here.size /\ UNCHANGED <<src, buffer, entity, segment>>
      /\ pc' = "runway" /\ outcome' = outcome
  BY DEF TakeToken, Looking, Return
<1>3. Here.size \in Nat  BY <1>1, <1>2, HereIsAByte, StreamAssumption
<1>4. pos' \in 0..BufLen /\ pos \in Nat  BY <1>1, <1>2, <1>3 DEF Whole, TypeOK, BufLen
<1>5. BufferOK'  BY <1>1, <1>2, <1>4, SameBuffer
<1>6. QED  BY <1>2, <1>4, <1>5 DEF IInv, MemoryBounded, TypeOK, ControlOK

LEMMA NextKeeps == IInv /\ [NextEvent]_vars => IInv'
<1> SUFFICES ASSUME IInv, [NextEvent]_vars PROVE IInv'  OBVIOUS
<1> USE StreamAssumption
<1>0. /\ BufferOK /\ ParseOK /\ ControlOK /\ TypeOK
      /\ pos \in 0..BufLen /\ depth \in Nat /\ Monus(depth) \in Nat
  BY Parts DEF IInv, MemoryBounded, TypeOK, Monus
<1>a. BufferOK' /\ ParseOK' /\ ControlOK' => IInv'
  BY Parts, PTL
<1>1. CASE KeepBuffer
  BY <1>0, <1>1, <1>a, SameBuffer, SameParse DEF KeepBuffer, ControlOK
<1>2. CASE Compact
  <2>1. BufferOK'  BY <1>0, <1>2 DEF Compact, BufferOK, BufLen, InternalCap
  <2>2. QED  BY <1>0, <1>2, <1>a, <2>1, SameParse DEF Compact, ControlOK
<1>3. CASE ReadChunk
  <2>1. BufferOK'
    <3>1. UNCHANGED <<src, base, pos>> /\ ~Filled  BY <1>3 DEF ReadChunk
    <3>2. CASE Dry /\ eof' = TRUE /\ UNCHANGED fetched
      BY <1>0, <3>1, <3>2 DEF BufferOK, BufLen, InternalCap, Dry
    <3>3. CASE /\ \E n \in 1..Least(Space, Len(src) - fetched) : fetched' = fetched + n
               /\ UNCHANGED eof
      <4>1. PICK n \in 1..Least(Space, Len(src) - fetched) : fetched' = fetched + n  BY <3>3
      <4>2. ~eof  BY <3>1 DEF Filled
      <4>3. fetched \in Nat /\ base \in Nat /\ Len(src) \in Nat /\ InternalCap \in Nat
            /\ base <= fetched /\ fetched <= Len(src) /\ fetched - base <= InternalCap
        BY <1>0 DEF BufferOK, BufLen, InternalCap
      <4>4. n \in Nat /\ n <= Len(src) - fetched /\ n <= InternalCap - (fetched - base)
        BY <4>3 DEF Least, Space, BufLen
      <4>5. QED
        BY <1>0, <3>1, <3>3, <4>1, <4>2, <4>3, <4>4 DEF BufferOK, BufLen, InternalCap
    <3>4. QED  BY <1>3, <3>2, <3>3 DEF ReadChunk
  <2>2. QED  BY <1>0, <1>3, <1>a, <2>1, SameParse DEF ReadChunk, ControlOK
<1>4. CASE Rebind
  BY <1>0, <1>4, <1>a, SameBuffer, SameParse DEF Rebind, Stop, ControlOK
<1>5. CASE ReadFails
  BY <1>0, <1>5, <1>a, SameBuffer, SameParse DEF ReadFails, Stop, ControlOK
<1>6. CASE SkipSpace
  <2>1. pos' \in 0..BufLen
    BY <1>0, <1>6, HereIsAByte DEF SkipSpace, Looking, BufLen, TypeOK
  <2>2. QED  BY <1>0, <1>6, <1>a, <2>1, SameBuffer, SameParse DEF SkipSpace, ControlOK
<1>7. CASE EndOfBuffer \/ CutToken \/ CutReference
  <2>1. /\ UNCHANGED <<src, buffer, pos, parse>> /\ pc' = "done"
        /\ outcome' \in {"error", "eof"}
    BY <1>7 DEF EndOfBuffer, CutToken, CutReference, Refuse, Stop
  <2>2. QED  BY <1>0, <1>a, <2>1, SameBuffer, SameParse DEF ControlOK
<1>8. CASE StartElement
  <2>1. BufferOK' /\ ControlOK' /\ UNCHANGED <<entity, segment>> /\ pos \in Nat
    BY <1>8, TokenInBuffer DEF StartElement
  <2>2. QED  BY <1>0, <1>8, <1>a, <2>1 DEF StartElement, ParseOK
<1>9. CASE EndElement
  <2>1. BufferOK' /\ ControlOK' /\ UNCHANGED <<entity, segment>> /\ pos \in Nat
    BY <1>9, TokenInBuffer DEF EndElement
  <2>2. QED  BY <1>0, <1>9, <1>a, <2>1 DEF EndElement, ParseOK
<1>10. CASE EmptyElement
  <2>1. BufferOK' /\ ControlOK' /\ UNCHANGED <<entity, segment>> /\ pos \in Nat
    BY <1>10, TokenInBuffer DEF EmptyElement
  <2>2. QED  BY <1>0, <1>10, <1>a, <2>1 DEF EmptyElement, ParseOK
<1>11. CASE Misc
  <2>1. BufferOK' /\ ControlOK' /\ UNCHANGED <<entity, segment>> /\ pos \in Nat
    BY <1>11, TokenInBuffer DEF Misc
  <2>2. QED  BY <1>0, <1>11, <1>a, <2>1 DEF Misc, ParseOK
<1>12. CASE PendingEnd
  BY <1>0, <1>12, <1>a, SameBuffer DEF PendingEnd, Return, ParseOK, ControlOK
<1>13. CASE ReadText
  <2>1. AfterRun \in 0..BufLen  BY <1>0, AfterRunExists
  <2>2. QED
    BY <1>0, <1>13, <1>a, <2>1, SameBuffer DEF ReadText, Return, ParseOK, ControlOK
<1>14. CASE SegmentText
  <2>1. AfterRun \in 0..BufLen  BY <1>0, AfterRunExists
  <2>2. QED
    BY <1>0, <1>14, <1>a, <2>1, SameBuffer DEF SegmentText, ParseOK, ControlOK
<1>15. CASE SegmentEnd
  BY <1>0, <1>15, <1>a, SameBuffer DEF SegmentEnd, Return, ParseOK, ControlOK
<1>16. CASE PushEntity
  <2>1. Here.size \in Nat /\ Here.t \in Nat /\ Here.text \in Seq({"start", "end", "char"})
    BY <1>0, <1>16, HereIsAByte DEF PushEntity, Looking
  <2>2. pos' \in 0..BufLen
    BY <1>0, <1>16, <2>1 DEF PushEntity, Whole, BufLen, TypeOK
  <2>3. entity' \in Entity /\ entity'.at \in 1..Len(entity'.text) + 1
    BY <1>16, <2>1 DEF PushEntity, Entity
  <2>4. QED
    BY <1>0, <1>16, <1>a, <2>2, <2>3, SameBuffer DEF PushEntity, ParseOK, ControlOK
<1>17. CASE EntityText \/ EntityTag
  <2>1. /\ entity \in Entity /\ entity.at \in 1..Len(entity.text)
        /\ entity' = [entity EXCEPT !.at = @ + 1]
    BY <1>0, <1>17 DEF EntityText, EntityTag, InEntity, Reading, Exhausted, Step, ParseOK, Entity
  <2>2. entity' \in Entity /\ entity'.at \in 1..Len(entity'.text) + 1
    BY <2>1 DEF Entity
  <2>3. UNCHANGED <<src, buffer, pos, segment, pending, rootSeen>> /\ depth' \in Nat
    BY <1>0, <1>17 DEF EntityText, EntityTag
  <2>4. ControlOK'
    BY <1>0, <1>17 DEF EntityText, EntityTag, Return, ControlOK
  <2>5. QED
    BY <1>0, <1>a, <2>2, <2>3, <2>4, SameBuffer DEF ParseOK
<1>18. CASE EntityFlush
  BY <1>0, <1>18, <1>a, SameBuffer DEF EntityFlush, Return, ParseOK, ControlOK
<1>19. CASE PopEntity
  BY <1>0, <1>19, <1>a, SameBuffer DEF PopEntity, ParseOK, ControlOK
<1>20. CASE UNCHANGED vars
  BY <1>0, <1>20, <1>a, SameBuffer, SameParse DEF vars, buffer, parse, ControlOK
<1>21. QED
  BY <1>1, <1>2, <1>3, <1>4, <1>5, <1>6, <1>7, <1>8, <1>9, <1>10, <1>11, <1>12, <1>13, <1>14,
     <1>15, <1>16, <1>17, <1>18, <1>19, <1>20 DEF NextEvent, Advance

(* However the io::Read cuts the input and whatever its tokens, the buffer  *)
(* never exceeds twice buffer_size, the cursor never leaves it, and the end *)
(* is announced only when everything was fetched: no token or reference     *)
(* moves the cursor behind what has been read (ensure_runway, next).        *)
THEOREM BufferIsBounded == Spec => []MemoryBounded
<1>1. IInv => MemoryBounded  BY DEF IInv
<1>2. QED  BY InitHolds, NextKeeps, <1>1, PTL DEF Spec
-----------------------------------------------------------------------------
(* The events are those of the whole document.                             *)


(* What an event can say.                                                 *)
Items == [k : {"start", "end", "empty", "misc", "char", "ref"}, t : Nat]

(* What has been said of a document after each of its bytes.               *)
Tells(f, doc, n) ==
  /\ f \in [0..n -> Seq(Items)] /\ f[0] = << >>
  /\ \A m \in 1..n : f[m] = f[m - 1] \o Piece(doc[m])

(* Induction over a set of numbers, which has a least one that fails: the  *)
(* provers cannot instantiate an induction theorem with an operator.       *)
LEMMA LeastFalse ==
  ASSUME NEW n \in Nat, NEW S \in SUBSET (0..n), 0 \in S,
         \A m \in 1..n : m - 1 \in S => m \in S
  PROVE  S = 0..n
<1> SUFFICES ASSUME (0..n) \ S # {} PROVE FALSE
  OBVIOUS
<1> DEFINE Z == (0..n) \ S  R == OpToRel(<, Nat)
<1>1. Z \subseteq Nat /\ Z # {}
  OBVIOUS
<1>2. PICK q \in Z : \A m \in Z : ~(<<m, q>> \in R)
  BY <1>1, NatLessThanWellFounded, WFMin, IsWellFoundedOnSubset
<1>3. q \in 1..n
  OBVIOUS
<1>4. q - 1 \in Nat /\ q - 1 < q /\ q \in Nat
  BY <1>3
<1>5. q - 1 \in Z
  BY <1>3, <1>4
<1>6. <<q - 1, q>> \in R
  BY <1>4 DEF OpToRel
<1> QED BY <1>2, <1>5, <1>6

LEMMA Joining ==
  ASSUME NEW s \in Seq(Items), NEW t \in Seq(Items), NEW u \in Seq(Items)
  PROVE  (s \o t) \o u = s \o (t \o u) /\ s \o t \in Seq(Items) /\ t \o u \in Seq(Items)
BY ConcatAssociative, ConcatProperties

(* A byte says events.                                                     *)
LEMMA PieceType == ASSUME NEW b \in Byte PROVE Piece(b) \in Seq(Items)
<1>1. b.t \in Nat /\ b.k \in {"start", "end", "empty", "misc", "char", "ref", "ws"} /\ b.text \in Seq({"start", "end", "char"})
  BY DEF Byte
<1>2. CASE b.i > 1 \/ b.k = "ws"
  BY <1>2 DEF Piece
<1>3. CASE ~(b.i > 1 \/ b.k = "ws") /\ b.k = "empty"
  <2>1. Piece(b) = <<[k |-> "start", t |-> b.t], [k |-> "end", t |-> b.t]>>
    BY <1>3 DEF Piece
  <2>2. [k |-> "start", t |-> b.t] \in Items /\ [k |-> "end", t |-> b.t] \in Items
    BY <1>1 DEF Items
  <2> QED BY <2>1, <2>2
<1>4. CASE ~(b.i > 1 \/ b.k = "ws") /\ b.k = "ref"
  <2>1. Piece(b) = [m \in DOMAIN b.text |-> [k |-> b.text[m], t |-> b.t]]
    BY <1>4 DEF Piece
  <2>2. DOMAIN b.text = 1..Len(b.text) /\ Len(b.text) \in Nat
    BY <1>1
  <2>3. \A m \in 1..Len(b.text) : [k |-> b.text[m], t |-> b.t] \in Items
    BY <1>1 DEF Items
  <2> QED BY <2>1, <2>2, <2>3
<1>5. CASE ~(b.i > 1 \/ b.k = "ws") /\ b.k # "ref" /\ b.k # "empty"
  <2>1. Piece(b) = <<[k |-> b.k, t |-> b.t]>>
    BY <1>5 DEF Piece
  <2>2. [k |-> b.k, t |-> b.t] \in Items
    BY <1>1, <1>5 DEF Items
  <2> QED BY <2>1, <2>2
<1> QED BY <1>2, <1>3, <1>4, <1>5

(* There is such a history of every document,                              *)
LEMMA ToldExists ==
  ASSUME NEW doc \in Seq(Byte)
  PROVE  \E f : Tells(f, doc, Len(doc))
<1> DEFINE S == {n \in 0..Len(doc) : \E f : Tells(f, doc, n)}
<1>0. Len(doc) \in Nat
  OBVIOUS
<1>1. 0 \in S
  <2>1. Tells([x \in 0..0 |-> << >>], doc, 0)
    BY DEF Tells
  <2> QED BY <2>1
<1>2. ASSUME NEW n \in 1..Len(doc), n - 1 \in S PROVE n \in S
  <2>1. PICK f : Tells(f, doc, n - 1)
    BY <1>2
  <2> DEFINE g == [m \in 0..n |-> IF m = n THEN f[n - 1] \o Piece(doc[n]) ELSE f[m]]
  <2>2. Piece(doc[n]) \in Seq(Items)
    BY PieceType
  <2>3. f[n - 1] \in Seq(Items) /\ n \in Nat /\ n - 1 \in Nat /\ \A m \in 0..n : m # n => m \in 0..n - 1
    BY <2>1 DEF Tells
  <2>4. g \in [0..n -> Seq(Items)]
    BY <2>1, <2>2, <2>3, ConcatProperties DEF Tells
  <2>5. g[0] = << >>
    BY <2>1 DEF Tells
  <2>6. ASSUME NEW m \in 1..n PROVE g[m] = g[m - 1] \o Piece(doc[m])
    <3>1. m \in Nat /\ m - 1 \in 0..n /\ m - 1 # n /\ m \in 0..n
      BY <2>3
    <3>2. g[m - 1] = f[m - 1]
      BY <3>1
    <3>3. CASE m = n
      BY <3>1, <3>2, <3>3
    <3>4. CASE m # n
      <4>1. m \in 1..n - 1
        BY <2>3, <3>4
      <4>2. f[m] = f[m - 1] \o Piece(doc[m])
        BY <2>1, <4>1 DEF Tells
      <4>3. g[m] = f[m]
        BY <3>1, <3>4
      <4> QED BY <3>2, <4>2, <4>3
    <3> QED BY <3>3, <3>4
  <2> HIDE DEF g
  <2>7. Tells(g, doc, n)
    BY <2>4, <2>5, <2>6 DEF Tells
  <2> QED BY <2>7
<1>4. S \in SUBSET (0..Len(doc))
  OBVIOUS
<1> HIDE DEF S
<1>5. \A n \in 1..Len(doc) : n - 1 \in S => n \in S
  BY <1>2
<1>3. S = 0..Len(doc)
  BY <1>0, <1>1, <1>4, <1>5, LeastFalse
<1>6. Len(doc) \in S
  BY <1>0, <1>3
<1> QED BY <1>6 DEF S

(* and it ends with what the whole document says.                          *)
LEMMA Flattened ==
  ASSUME NEW doc \in Seq(Byte), doc # << >>, NEW f, Tells(f, doc, Len(doc))
  PROVE  f[Len(doc)] = Expected(doc)
<1> DEFINE seqs == [m \in DOMAIN doc |-> Piece(doc[m])]
           Flat(g) == g = [i \in 1..Len(seqs) |-> IF i = 1 THEN seqs[i] ELSE g[i - 1] \o seqs[i]]
<1>0. Len(doc) \in Nat /\ Len(doc) # 0 /\ DOMAIN doc = 1..Len(doc)
  OBVIOUS
<1>1. \A m \in 1..Len(doc) : Piece(doc[m]) \in Seq(Items)
  BY PieceType
<1>2. seqs \in Seq(Seq(Items)) /\ Len(seqs) = Len(doc)
  BY <1>0, <1>1
<1>3. Expected(doc) = (CHOOSE g : Flat(g))[Len(seqs)]
  BY <1>0, <1>2 DEF Expected, FlattenSeq
<1> DEFINE h == [i \in 1..Len(doc) |-> f[i]]
<1>4. ASSUME NEW i \in 1..Len(doc) PROVE h[i] = IF i = 1 THEN seqs[i] ELSE h[i - 1] \o seqs[i]
  <2>1. f[i] = f[i - 1] \o Piece(doc[i]) /\ seqs[i] = Piece(doc[i]) /\ h[i] = f[i] /\ f[0] = << >>
    BY <1>0 DEF Tells
  <2>2. CASE i = 1
    <3>1. i - 1 = 0 /\ Piece(doc[i]) \in Seq(Items)
      BY <1>1, <2>2
    <3>2. f[i] = << >> \o Piece(doc[i])
      BY <2>1, <3>1
    <3> QED BY <2>1, <2>2, <3>1, <3>2, ConcatEmptySeq
  <2>3. CASE i # 1
    <3>1. i - 1 \in 1..Len(doc)
      BY <2>3
    <3> QED BY <2>1, <2>3, <3>1
  <2> QED BY <2>2, <2>3
<1>5. Flat(h)
  <2>1. h = [i \in 1..Len(doc) |-> h[i]]
    OBVIOUS
  <2> HIDE DEF h, seqs
  <2> QED BY <1>2, <1>4, <2>1
<1> DEFINE G == CHOOSE g : Flat(g)
<1>6. Flat(G)
  BY <1>5
<1> HIDE DEF G
<1>7. G = [i \in 1..Len(doc) |-> IF i = 1 THEN seqs[i] ELSE G[i - 1] \o seqs[i]]
  BY <1>2, <1>6
<1> DEFINE S == {n \in 0..Len(doc) : n = 0 \/ G[n] = f[n]}
<1>8. ASSUME NEW n \in 1..Len(doc), n - 1 \in S PROVE n \in S
  <2>1. G[n] = IF n = 1 THEN seqs[n] ELSE G[n - 1] \o seqs[n]
    BY <1>7
  <2>2. h[n] = f[n] /\ h[n] = IF n = 1 THEN seqs[n] ELSE h[n - 1] \o seqs[n]
    BY <1>4
  <2>3. n # 1 => h[n - 1] = f[n - 1] /\ n - 1 # 0
    OBVIOUS
  <2> HIDE DEF h, seqs
  <2>4. n # 1 => G[n - 1] = f[n - 1]
    BY <1>8, <2>3
  <2>5. G[n] = f[n]
    BY <2>1, <2>2, <2>3, <2>4
  <2> QED BY <2>5
<1>9. S \in SUBSET (0..Len(doc)) /\ 0 \in S
  BY <1>0
<1> HIDE DEF S
<1>10. S = 0..Len(doc)
  BY <1>0, <1>8, <1>9, LeastFalse
<1>11. Len(doc) \in S
  BY <1>0, <1>10
<1>12. G[Len(doc)] = f[Len(doc)]
  BY <1>0, <1>11 DEF S
<1> QED BY <1>2, <1>3, <1>12 DEF G

(* The parts of a byte, and of the one behind it in its token.             *)
LEMMA ByteFields ==
  ASSUME NEW b \in Byte
  PROVE  /\ b.t \in Nat /\ b.size \in Nat \ {0} /\ b.i \in Nat \ {0}
         /\ b.text \in Seq({"start", "end", "char"})
         /\ b.k \in {"start", "end", "empty", "misc", "char", "ref", "ws"}
         /\ [b EXCEPT !.i = @ + 1].i = b.i + 1
         /\ [b EXCEPT !.i = @ + 1].size = b.size
         /\ [b EXCEPT !.i = @ + 1].k = b.k
         /\ [b EXCEPT !.i = @ + 1].t = b.t
BY DEF Byte

LEMMA ByteOf ==
  ASSUME NEW doc \in Seq(Byte), NEW n \in 1..Len(doc)
  PROVE  doc[n] \in Byte
BY ElementOfSeq

Same(a, b) == a.size = b.size /\ a.k = b.k /\ a.t = b.t

(* What one more byte adds.                                                *)
After(f, doc, m, n) ==
  f[n] = f[m] \o Piece(doc[n]) /\ f[m] \in Seq(Items) /\ Piece(doc[n]) \in Seq(Items)

LEMMA TellsOne ==
  ASSUME NEW doc \in Seq(Byte), NEW f, Tells(f, doc, Len(doc)),
         NEW m \in Nat, NEW n \in 1..Len(doc), n = m + 1
  PROVE  After(f, doc, m, n)
<1>1. n - 1 = m /\ m \in 0..Len(doc)
  OBVIOUS
<1>2. f[n] = f[n - 1] \o Piece(doc[n])
  BY DEF Tells
<1> QED BY <1>1, <1>2, ByteOf, PieceType DEF Tells, After

(* From its first byte a token lies there whole.                           *)
LEMMA TokenBytes ==
  ASSUME NEW doc \in Seq(Byte), InTokens(doc), NEW n \in 1..Len(doc), doc[n].i = 1
  PROVE  \A j \in 0..doc[n].size - 1 :
           n + j \in 1..Len(doc) /\ doc[n + j].i = j + 1 /\ Same(doc[n + j], doc[n])
<1> PICK z : z = doc[n].size - 1
  OBVIOUS
<1>1. z \in Nat /\ doc[n].size = z + 1 /\ n \in Nat /\ Len(doc) \in Nat
  BY ByteOf, ByteFields
<1> DEFINE S == {j \in 0..z :
                   n + j \in 1..Len(doc) /\ doc[n + j].i = j + 1 /\ Same(doc[n + j], doc[n])}
<1>2. 0 \in S
  <2>1. Same(doc[n], doc[n])
    BY DEF Same
  <2>2. n + 0 = n /\ 0 \in 0..z /\ 0 + 1 = 1
    BY <1>1
  <2> QED BY <2>1, <2>2
<1>3. ASSUME NEW j \in 1..z, j - 1 \in S PROVE j \in S
  <2> PICK m : m = n + (j - 1)
    OBVIOUS
  <2>1. m \in 1..Len(doc) /\ doc[m].i = (j - 1) + 1 /\ Same(doc[m], doc[n]) /\ j \in Nat /\ n + j = m + 1
    BY <1>1, <1>3
  <2>2. doc[m].i = j /\ doc[m].size = z + 1
    BY <1>1, <2>1 DEF Same
  <2>3. doc[m].i < doc[m].size
    <3>1. j < z + 1
      BY <1>1
    <3> QED BY <2>2, <3>1
  <2>4. m \in DOMAIN doc /\ doc[m] \in Byte
    BY <2>1, ByteOf
  <2>5. m < Len(doc) /\ doc[m + 1] = [doc[m] EXCEPT !.i = @ + 1]
    BY <2>3, <2>4 DEF InTokens
  <2>6. doc[m + 1].i = j + 1 /\ Same(doc[m + 1], doc[m])
    BY <2>2, <2>4, <2>5, ByteFields DEF Same
  <2>7. m + 1 \in 1..Len(doc)
    BY <1>1, <1>3, <2>1, <2>5
  <2>8. Same(doc[m + 1], doc[n])
    BY <2>1, <2>6 DEF Same
  <2>9. n + j \in 1..Len(doc) /\ doc[n + j].i = j + 1 /\ Same(doc[n + j], doc[n])
    BY <2>1, <2>6, <2>7, <2>8
  <2>10. j \in 0..z
    BY <1>1
  <2> QED BY <2>9, <2>10
<1>4. S \in SUBSET (0..z)
  OBVIOUS
<1> HIDE DEF S
<1>7. \A j \in 1..z : j - 1 \in S => j \in S
  BY <1>3
<1>6. S = 0..z
  BY <1>1, <1>2, <1>4, <1>7, LeastFalse
<1>8. doc[n].size - 1 = z
  BY <1>1
<1> QED BY <1>6, <1>8 DEF S

(* A token says what its first byte does, and the next begins behind it.     *)
TokenSays(doc, f, m, n, z) ==
  /\ m + z \in 1..Len(doc)
  /\ f[m + z] = f[m] \o Piece(doc[n])
  /\ doc[m + z].i = z /\ doc[m + z].size = z

LEMMA TokenTold ==
  ASSUME NEW doc \in Seq(Byte), InTokens(doc), NEW f, Tells(f, doc, Len(doc)),
         NEW n \in 1..Len(doc), doc[n].i = 1,
         NEW m \in Nat, n = m + 1, NEW z \in Nat \ {0}, z = doc[n].size
  PROVE  TokenSays(doc, f, m, n, z)
<1>1. doc[n] \in Byte /\ z \in Nat \ {0} /\ n \in Nat /\ Len(doc) \in Nat
  BY ByteOf, ByteFields
<1>2. \A j \in 0..z - 1 : n + j \in 1..Len(doc) /\ doc[n + j].i = j + 1 /\ Same(doc[n + j], doc[n])
  BY TokenBytes
<1> DEFINE S == {j \in 0..z - 1 : f[n + j] = f[m] \o Piece(doc[n])}
<1>4. 0 \in S
  <2>1. f[n] = f[m] \o Piece(doc[n])
    BY TellsOne DEF After
  <2>2. n + 0 = n /\ 0 \in 0..z - 1
    BY <1>1
  <2> QED BY <2>1, <2>2
<1>5. ASSUME NEW j \in 1..z - 1, j - 1 \in S PROVE j \in S
  <2> PICK x : x = n + (j - 1)
    OBVIOUS
  <2> PICK y : y = n + j
    OBVIOUS
  <2>0. j \in 0..z - 1 /\ j + 1 > 1
    BY <1>1
  <2>1. y \in 1..Len(doc) /\ doc[y].i = j + 1
    BY <1>2, <2>0
  <2>2. doc[y].i > 1
    BY <2>0, <2>1
  <2>3. Piece(doc[y]) = << >>
    BY <2>2 DEF Piece
  <2>5. y = x + 1 /\ x \in Nat
    BY <1>1
  <2>9. After(f, doc, x, y)
    BY <2>1, <2>5, TellsOne
  <2>6. f[y] = f[x] \o << >> /\ f[x] \in Seq(Items)
    BY <2>3, <2>9 DEF After
  <2>7. f[y] = f[x]
    BY <2>6, ConcatEmptySeq
  <2>8. f[x] = f[m] \o Piece(doc[n])
    BY <1>5
  <2> QED BY <2>0, <2>7, <2>8
<1>6. S \in SUBSET (0..z - 1)
  OBVIOUS
<1> HIDE DEF S
<1> PICK y \in Nat : z = y + 1
  BY <1>1
<1>7. z - 1 = y /\ n + y = m + z /\ y \in 0..y
  BY <1>1
<1>8. S = 0..y
  BY <1>4, <1>5, <1>6, <1>7, LeastFalse
<1>9. y \in S
  BY <1>7, <1>8
<1>10. f[n + y] = f[m] \o Piece(doc[n])
  BY <1>9 DEF S
<1>12. n + y \in 1..Len(doc) /\ doc[n + y].i = z /\ doc[n + y].size = z
  BY <1>2, <1>7 DEF Same
<1> QED BY <1>7, <1>10, <1>12 DEF TokenSays

(* What was said is a beginning of what is said later.                     *)
LEMMA PrefixOfConcat ==
  ASSUME NEW s \in Seq(Items), NEW u \in Seq(Items)
  PROVE  IsPrefix(s, s \o u)
BY DEF IsPrefix

(* What is said of a part is a beginning of what is said of the whole.     *)
LEMMA ToldGrows ==
  ASSUME NEW doc \in Seq(Byte), NEW f, Tells(f, doc, Len(doc)), NEW n \in 0..Len(doc)
  PROVE  \E u \in Seq(Items) : f[Len(doc)] = f[n] \o u
<1> PICK z : z = Len(doc) - n OBVIOUS
<1>1. z \in Nat /\ n \in Nat /\ Len(doc) \in Nat /\ n + z = Len(doc) /\ 0 \in 0..z
  OBVIOUS
<1> DEFINE S == {j \in 0..z : \E u \in Seq(Items) : f[n + j] = f[n] \o u}
<1>2. 0 \in S
  <2>1. f[n] \in Seq(Items) /\ n + 0 = n
    BY <1>1 DEF Tells
  <2>2. f[n + 0] = f[n] \o << >> /\ << >> \in Seq(Items)
    BY <2>1, ConcatEmptySeq
  <2> QED BY <1>1, <2>2
<1>3. ASSUME NEW j \in 1..z, j - 1 \in S PROVE j \in S
  <2>1. PICK u \in Seq(Items) : f[n + (j - 1)] = f[n] \o u
    BY <1>3
  <2>2. n + j \in 1..Len(doc) /\ n + j - 1 = n + (j - 1)
    BY <1>1
  <2>7. n + j = n + (j - 1) + 1 /\ n + (j - 1) \in Nat
    BY <1>1
  <2>3. f[n + j] = f[n + (j - 1)] \o Piece(doc[n + j]) /\ Piece(doc[n + j]) \in Seq(Items)
    BY <2>2, <2>7, TellsOne DEF After
  <2>4. f[n] \in Seq(Items)
    BY DEF Tells
  <2> PICK c \in Seq(Items) : c = Piece(doc[n + j])
    BY <2>3
  <2>8. (f[n] \o u) \o c = f[n] \o (u \o c) /\ u \o c \in Seq(Items)
    BY <2>4, Joining
  <2>9. f[n + j] = f[n] \o (u \o c)
    BY <2>1, <2>3, <2>8
  <2>10. \E v \in Seq(Items) : f[n + j] = f[n] \o v
    BY <2>8, <2>9, Zenon
  <2>11. j \in 0..z
    BY <1>1
  <2> QED BY <2>10, <2>11, Zenon
<1>4. S \in SUBSET (0..z)
  OBVIOUS
<1> HIDE DEF S
<1>5. S = 0..z
  BY <1>1, <1>2, <1>3, <1>4, LeastFalse
<1>6. z \in S
  BY <1>1, <1>5
<1> QED BY <1>1, <1>6 DEF S

(* A run of characters.                                                    *)
Run(doc, n, z) == [m \in 1..z |-> [k |-> "char", t |-> doc[n + m].t]]

LEMMA RunTold ==
  ASSUME NEW doc \in Seq(Byte), InTokens(doc), NEW f, Tells(f, doc, Len(doc)),
         NEW n \in 0..Len(doc), NEW z \in 0..Len(doc) - n,
         \A m \in 1..z : doc[n + m].k = "char"
  PROVE  /\ f[n + z] = f[n] \o Run(doc, n, z) /\ Run(doc, n, z) \in Seq(Items)
         /\ z > 0 => doc[n + z].i = doc[n + z].size
<1>0. f[n] \in Seq(Items) /\ Len(doc) \in Nat
  BY DEF Tells
<1>1. z \in Nat /\ n \in Nat /\ Len(doc) \in Nat /\ n + z <= Len(doc) /\ f[n] \in Seq(Items)
  BY <1>0
<1>2. ASSUME NEW m \in 1..z
      PROVE  /\ n + m \in 1..Len(doc) /\ Piece(doc[n + m]) = <<[k |-> "char", t |-> doc[n + m].t]>>
             /\ [k |-> "char", t |-> doc[n + m].t] \in Items
             /\ doc[n + m].i = 1 /\ doc[n + m].size = 1
  <2> PICK x : x = n + m
    OBVIOUS
  <2>0. x \in 1..Len(doc)
    BY <1>1
  <2>1. doc[x].k = "char" /\ x \in DOMAIN doc
    BY <2>0
  <2>2. doc[x].t \in Nat /\ doc[x].i \in Nat \ {0}
    BY <2>0, ByteOf, ByteFields
  <2>3. doc[x].i <= doc[x].size /\ doc[x].size = 1
    BY <2>1 DEF InTokens
  <2>4. doc[x].i = 1
    BY <2>2, <2>3
  <2>5. Piece(doc[x]) = <<[k |-> "char", t |-> doc[x].t]>>
    BY <2>1, <2>4 DEF Piece
  <2>6. [k |-> "char", t |-> doc[x].t] \in Items
    BY <2>2 DEF Items
  <2> QED BY <2>0, <2>3, <2>4, <2>5, <2>6
<1>3. ASSUME NEW j \in 0..z PROVE Run(doc, n, j) \in Seq(Items) /\ Len(Run(doc, n, j)) = j
  <2>1. \A m \in 1..j : [k |-> "char", t |-> doc[n + m].t] \in Items
    BY <1>1, <1>2
  <2>2. j \in Nat
    BY <1>1
  <2>3. Run(doc, n, j) \in [1..j -> Items]
    BY <2>1 DEF Run
  <2> QED BY <2>2, <2>3
<1> DEFINE S == {j \in 0..z : f[n + j] = f[n] \o Run(doc, n, j)}
<1>4. 0 \in S
  <2>1. Run(doc, n, 0) = << >> /\ n + 0 = n /\ 0 \in 0..z
    BY <1>1 DEF Run
  <2> QED BY <1>1, <2>1, ConcatEmptySeq
<1>5. ASSUME NEW j \in 1..z, j - 1 \in S PROVE j \in S
  <2> DEFINE x == [k |-> "char", t |-> doc[n + j].t]
  <2>1. n + j \in 1..Len(doc) /\ n + j - 1 = n + (j - 1) /\ j - 1 \in 0..z /\ j \in 0..z /\ j \in Nat
    BY <1>1, <1>2
  <2>8. n + j = n + (j - 1) + 1 /\ n + (j - 1) \in Nat
    BY <1>1
  <2>9. After(f, doc, n + (j - 1), n + j)
    BY <2>1, <2>8, TellsOne
  <2>2. f[n + j] = f[n + (j - 1)] \o <<x>> /\ x \in Items
    BY <1>2, <2>1, <2>9 DEF After
  <2>3. f[n + (j - 1)] = f[n] \o Run(doc, n, j - 1)
    BY <1>5
  <2>4. Run(doc, n, j - 1) \in Seq(Items) /\ Len(Run(doc, n, j - 1)) = j - 1 /\ Run(doc, n, j) \in Seq(Items) /\ Len(Run(doc, n, j)) = j
    BY <1>3, <2>1
  <2>5. Run(doc, n, j) = Run(doc, n, j - 1) \o <<x>>
    <3>1. <<x>> \in Seq(Items) /\ Len(<<x>>) = 1
      BY <2>2
    <3>2. Run(doc, n, j - 1) \o <<x>> \in Seq(Items) /\ Len(Run(doc, n, j - 1) \o <<x>>) = j
      BY <2>1, <2>4, <3>1, ConcatProperties
    <3> HIDE DEF x
    <3>3. ASSUME NEW m \in 1..j PROVE Run(doc, n, j)[m] = (Run(doc, n, j - 1) \o <<x>>)[m]
      <4>1. Run(doc, n, j)[m] = [k |-> "char", t |-> doc[n + m].t]
        BY DEF Run
      <4>2. m < j => Run(doc, n, j - 1)[m] = [k |-> "char", t |-> doc[n + m].t]
        BY <2>1 DEF Run
      <4>3. (Run(doc, n, j - 1) \o <<x>>)[m] = IF m <= j - 1 THEN Run(doc, n, j - 1)[m] ELSE <<x>>[m - (j - 1)]
        BY <2>1, <2>4, <3>1, ConcatProperties
      <4>4. CASE m = j
        <5>1. m - (j - 1) = 1 /\ ~(m <= j - 1)
          BY <2>1, <4>4
        <5>2. (Run(doc, n, j - 1) \o <<x>>)[m] = <<x>>[1]
          BY <4>3, <5>1
        <5>3. <<x>>[1] = x
          OBVIOUS
        <5> QED BY <4>1, <4>4, <5>2, <5>3 DEF x
      <4>5. CASE m # j
        <5>1. m < j /\ m <= j - 1
          BY <2>1, <4>5
        <5> QED BY <4>1, <4>2, <4>3, <5>1
      <4> QED BY <4>4, <4>5
    <3> QED BY <2>4, <3>2, <3>3, SeqEqual
  <2>6. <<x>> \in Seq(Items)
    BY <2>2
  <2> HIDE DEF x
  <2>7. f[n + j] = f[n] \o Run(doc, n, j)
    <3>1. PICK g \in Seq(Items), r \in Seq(Items), y \in Seq(Items) :
            g = f[n] /\ r = Run(doc, n, j - 1) /\ y = <<x>>
      BY <1>1, <2>4, <2>6
    <3>2. (g \o r) \o y = g \o (r \o y)
      BY Joining
    <3> QED BY <2>2, <2>3, <2>5, <3>1, <3>2
  <2> QED BY <2>1, <2>7
<1>6. S \in SUBSET (0..z)
  OBVIOUS
<1> HIDE DEF S
<1>7. S = 0..z
  BY <1>1, <1>4, <1>5, <1>6, LeastFalse
<1>8. z \in S /\ z \in 0..z
  BY <1>1, <1>7
<1>9. f[n + z] = f[n] \o Run(doc, n, z)
  BY <1>8 DEF S
<1>10. ASSUME z > 0 PROVE doc[n + z].i = doc[n + z].size
  <2>1. z \in 1..z
    BY <1>1, <1>10
  <2> QED BY <1>2, <2>1
<1> QED BY <1>3, <1>8, <1>9, <1>10

(* Counting the elements.                                                  *)
Firsts(doc, kind, m) == {l \in 1..m : doc[l].k = kind /\ doc[l].i = 1}

LEMMA CountOne ==
  ASSUME NEW doc \in Seq(Byte), InTokens(doc), NEW kind,
         NEW n \in 1..Len(doc), doc[n].i = 1,
         NEW m \in Nat, n = m + 1, NEW z \in Nat \ {0}, z = doc[n].size
  PROVE  /\ Cardinality(Firsts(doc, kind, m)) \in Nat
         /\ Cardinality(Firsts(doc, kind, m + z)) =
              Cardinality(Firsts(doc, kind, m)) + (IF doc[n].k = kind THEN 1 ELSE 0)
<1>1. \A j \in 0..z - 1 : n + j \in 1..Len(doc) /\ doc[n + j].i = j + 1 /\ Same(doc[n + j], doc[n])
  BY TokenBytes
<1>2. ASSUME NEW l \in n + 1..m + z PROVE doc[l].i # 1
  <2> PICK j : j = l - n
    OBVIOUS
  <2>1. j \in 0..z - 1 /\ n + j = l /\ j + 1 # 1
    OBVIOUS
  <2> QED BY <1>1, <2>1
<1>3. \A l : l \in 1..m + z <=> l \in 1..m \/ l = n \/ l \in n + 1..m + z
  OBVIOUS
<1>4. Firsts(doc, kind, m + z) = IF doc[n].k = kind THEN Firsts(doc, kind, m) \cup {n} ELSE Firsts(doc, kind, m)
  BY <1>2, <1>3, Zenon DEF Firsts
<1>5. IsFiniteSet(Firsts(doc, kind, m)) /\ n \notin Firsts(doc, kind, m)
  <2>1. IsFiniteSet(1..m)
    BY FS_Interval
  <2>2. Firsts(doc, kind, m) \in SUBSET (1..m)
    BY DEF Firsts
  <2>3. n \notin 1..m
    OBVIOUS
  <2> QED BY <2>1, <2>2, <2>3, FS_Subset
<1>6. Cardinality(Firsts(doc, kind, m)) \in Nat
  BY <1>5, FS_CardinalityType
<1>7. Cardinality(Firsts(doc, kind, m) \cup {n}) = Cardinality(Firsts(doc, kind, m)) + 1
  BY <1>5, FS_AddElement
<1> QED BY <1>4, <1>6, <1>7

LEMMA CountToken ==
  ASSUME NEW doc \in Seq(Byte), InTokens(doc),
         NEW n \in 1..Len(doc), doc[n].i = 1,
         NEW m \in Nat, n = m + 1, NEW z \in Nat \ {0}, z = doc[n].size
  PROVE  /\ Opened(doc, m) \in Nat /\ Closed(doc, m) \in Nat
         /\ Opened(doc, m + z) = Opened(doc, m) + (IF doc[n].k = "start" THEN 1 ELSE 0)
         /\ Closed(doc, m + z) = Closed(doc, m) + (IF doc[n].k = "end" THEN 1 ELSE 0)
<1>1. \A l : /\ Opened(doc, l) = Cardinality(Firsts(doc, "start", l))
             /\ Closed(doc, l) = Cardinality(Firsts(doc, "end", l))
  BY DEF Opened, Closed, Firsts
<1>2. /\ Cardinality(Firsts(doc, "start", m)) \in Nat
      /\ Cardinality(Firsts(doc, "start", m + z)) =
           Cardinality(Firsts(doc, "start", m)) + (IF doc[n].k = "start" THEN 1 ELSE 0)
  BY CountOne
<1>3. /\ Cardinality(Firsts(doc, "end", m)) \in Nat
      /\ Cardinality(Firsts(doc, "end", m + z)) =
           Cardinality(Firsts(doc, "end", m)) + (IF doc[n].k = "end" THEN 1 ELSE 0)
  BY CountOne
<1> QED BY <1>1, <1>2, <1>3

LEMMA CountSame ==
  ASSUME NEW doc, NEW m \in Nat, NEW q \in Nat, m <= q,
         \A l \in m + 1..q : doc[l].k \notin {"start", "end"}
  PROVE  Opened(doc, q) = Opened(doc, m) /\ Closed(doc, q) = Closed(doc, m)
<1>1. \A l : l \in 1..q <=> l \in 1..m \/ l \in m + 1..q
  OBVIOUS
<1>2. {l \in 1..q : doc[l].k = "start" /\ doc[l].i = 1} = {l \in 1..m : doc[l].k = "start" /\ doc[l].i = 1}
  BY <1>1
<1>3. {l \in 1..q : doc[l].k = "end" /\ doc[l].i = 1} = {l \in 1..m : doc[l].k = "end" /\ doc[l].i = 1}
  BY <1>1
<1> QED BY <1>2, <1>3 DEF Opened, Closed

At == base + pos
Told(doc) == CHOOSE f : Tells(f, doc, Len(doc))

(* What the replacement text has left to say.                              *)
Rest == [m \in 1..Len(entity.text) + 1 - entity.at |-> [k |-> "char", t |-> entity.t]]

(* What was said is what the document says up to the cursor, but for what  *)
(* is left of a replacement text; tokens are left only at their ends.      *)
SaidOK ==
  /\ log \in Seq(Items) /\ pending = NONE
  /\ At = 0 \/ src[At].i = src[At].size
  /\ pc \in {"runway", "fill"} => ~segment
  /\ entity = NONE => log = Told(src)[At]
  /\ entity # NONE => /\ pc = "next" /\ segment
                      /\ \A m \in 1..Len(entity.text) : entity.text[m] = "char"
                      /\ log \o Rest = Told(src)[At]

(* What next() has come over since the buffer was filled at s.             *)
Since(s) ==
  /\ eof \/ fetched - s >= BufferSize
  /\ segment => \A m \in s + 1..At : src[m].k \in {"char", "ref"}
  /\ ~segment => /\ \A m \in s + 1..At : src[m].k = "ws"
                 /\ s < At => depth = 0

(* Where all that must be whole fits, next() sees it so.                   *)
SeenOK ==
  /\ outcome \in {"reading", "eof", "io"}
  /\ outcome # "reading" => pc = "done"
  /\ outcome = "eof" => At = Len(src)
  /\ depth + Closed(src, At) = Opened(src, At)
  /\ \A m \in 1..At : src[m].k = "start" => rootSeen
  /\ pc = "fill" => pos = 0
  /\ pc = "next" => \E s \in 0..At : Since(s)

(* The documents, and where in them the reader is.                         *)
PlaceOK ==
  /\ src \in Seq(Byte) /\ InTokens(src) /\ Nested(src)
  /\ Tells(Told(src), src, Len(src))
  /\ Len(src) \in Nat /\ fetched \in Nat /\ base \in Nat /\ pos \in Nat
  /\ At \in 0..Len(src) /\ At <= fetched /\ fetched <= Len(src)
  /\ BufferSize \in Nat \ {0} /\ depth \in Nat
  /\ eof => fetched = Len(src)

LEMMA Place == IInv => PlaceOK
<1> SUFFICES ASSUME IInv PROVE PlaceOK
  OBVIOUS
<1>1. /\ src \in Inputs /\ fetched \in 0..Len(src) /\ base \in 0..fetched /\ pos \in 0..BufLen
      /\ depth \in Nat /\ (eof => fetched = Len(src))
  BY DEF IInv, MemoryBounded, TypeOK
<1>2. src \in Seq(Byte) /\ InTokens(src) /\ Nested(src) /\ BufferSize \in Nat \ {0}
  BY <1>1, StreamAssumption
<1>3. Tells(Told(src), src, Len(src))
  BY <1>2, ToldExists DEF Told
<1>4. Len(src) \in Nat
  BY <1>2
<1>5. fetched \in Nat /\ base \in Nat /\ fetched <= Len(src) /\ base <= fetched
  BY <1>1, <1>4
<1>6. pos \in Nat /\ pos <= fetched - base
  BY <1>1, <1>5 DEF BufLen
<1> QED BY <1>1, <1>2, <1>3, <1>4, <1>5, <1>6 DEF PlaceOK, At

(* The token the cursor has come to.                                       *)
HereOK ==
  /\ At + 1 \in 1..Len(src) /\ Here = src[At + 1] /\ Here.i = 1
  /\ Here.size \in Nat \ {0}

LEMMA AtToken ==
  ASSUME PlaceOK, SaidOK, ~AtEnd
  PROVE  HereOK
<1>1. At < fetched /\ Here = src[At + 1]
  <2>1. pos # fetched - base /\ At = base + pos
    BY DEF AtEnd, BufLen, At
  <2> QED BY <2>1 DEF PlaceOK, Here
<1>2. At + 1 \in 1..Len(src) /\ At < Len(src) /\ At \in Nat
  BY <1>1 DEF PlaceOK
<1>3. CASE At = 0
  <2>1. src[1].i = 1
    BY DEF PlaceOK, InTokens
  <2>2. Here.i = 1
    BY <1>1, <1>3, <2>1
  <2> QED BY <1>1, <1>2, <2>2, ByteOf, ByteFields DEF PlaceOK, HereOK
<1>4. CASE At # 0
  <2> PICK a : a = At
    OBVIOUS
  <2>1. a \in DOMAIN src /\ src[a].i = src[a].size /\ a < Len(src)
    BY <1>2, <1>4 DEF SaidOK
  <2>2. src[a].i \in Nat /\ src[a].size \in Nat
    BY <2>1, ByteOf, ByteFields DEF PlaceOK
  <2>4. ~(src[a].i < src[a].size)
    BY <2>1, <2>2
  <2>3. src[a + 1].i = 1
    BY <2>1, <2>4 DEF InTokens, PlaceOK
  <2> QED BY <1>1, <1>2, <2>3, ByteOf, ByteFields DEF PlaceOK, HereOK
<1> QED BY <1>3, <1>4

(* All that is said when a token has been taken.                           *)
LEMMA TokenSaid ==
  ASSUME PlaceOK, SaidOK, NEW kind \in {"start", "end", "misc"}, TakeToken(kind),
         Give(<<Item(kind)>>), UNCHANGED pending
  PROVE  SaidOK'
<1>1. /\ ~AtEnd /\ Here.k = kind /\ entity = NONE /\ entity' = NONE /\ ~segment /\ ~segment'
      /\ src' = src /\ base' = base /\ pos' = pos + Here.size
      /\ pending' = NONE
  BY DEF TakeToken, OnSource, Calling, Looking, buffer, SaidOK
<1>2. HereOK
  BY <1>1, AtToken
<1> PICK z : z = Here.size
  OBVIOUS
<1> PICK a : a = At
  OBVIOUS
<1>3. /\ a + z \in 1..Len(src) /\ Told(src)[a + z] = Told(src)[a] \o Piece(src[a + 1])
      /\ src[a + z].i = z /\ src[a + z].size = z
  <2> PICK n : n = a + 1
    OBVIOUS
  <2>1. n \in 1..Len(src) /\ src[n].i = 1 /\ z \in Nat \ {0} /\ z = src[n].size /\ a \in Nat
    BY <1>2 DEF HereOK, PlaceOK
  <2>2. src \in Seq(Byte) /\ InTokens(src) /\ Tells(Told(src), src, Len(src))
    BY DEF PlaceOK
  <2>3. TokenSays(src, Told(src), a, n, z)
    BY <2>1, <2>2, TokenTold
  <2> QED BY <2>3 DEF TokenSays
<1>4. At' = a + z
  BY <1>1, <1>2 DEF At, PlaceOK, HereOK
<1>5. Piece(src[a + 1]) = <<[k |-> kind, t |-> Here.t]>>
  BY <1>1, <1>2 DEF Piece, HereOK
<1>6. log' = Told(src)[a] \o <<[k |-> kind, t |-> Here.t]>>
  BY <1>1 DEF Give, Item, SaidOK
<1>7. log' = Told(src)[a + z] /\ Told(src)[a + z] \in Seq(Items)
  <2>1. a + z \in 0..Len(src)
    BY <1>3 DEF PlaceOK
  <2> QED BY <1>3, <1>5, <1>6, <2>1 DEF PlaceOK, Tells
<1> QED BY <1>1, <1>3, <1>4, <1>7 DEF SaidOK

(* Steps that say nothing.                                                 *)
LEMMA SteadySaid ==
  ASSUME SaidOK, UNCHANGED <<src, entity, pending, log>>, At' = At,
         pc' \in {"runway", "fill"} => ~segment',
         entity # NONE => pc' = "next" /\ segment'
  PROVE  SaidOK'
BY DEF SaidOK, Rest

LEMMA SpaceSaid ==
  ASSUME PlaceOK, SaidOK, SkipSpace
  PROVE  /\ SaidOK' /\ At' = At + 1 /\ HereOK
<1>1. /\ ~AtEnd /\ Here.k = "ws" /\ pc = "next" /\ pc' = "next" /\ entity = NONE /\ ~segment
      /\ src' = src /\ base' = base /\ pos' = pos + 1 /\ entity' = entity /\ segment' = segment
      /\ pending' = pending /\ log' = log
  BY DEF SkipSpace, OnSource, Calling, Looking, buffer, parse
<1>2. HereOK
  BY <1>1, AtToken
<1> PICK a, n : a = At /\ n = a + 1
  OBVIOUS
<1>3. n \in 1..Len(src) /\ a \in Nat /\ src[n].i = 1 /\ src[n].k = "ws" /\ n \in DOMAIN src
  BY <1>1, <1>2 DEF HereOK, PlaceOK
<1>4. src[n].size = 1
  BY <1>3 DEF PlaceOK, InTokens
<1>5. After(Told(src), src, a, n)
  BY <1>3, TellsOne DEF PlaceOK
<1>6. Piece(src[n]) = << >>
  BY <1>3 DEF Piece
<1>7. Told(src)[n] = Told(src)[a]
  BY <1>5, <1>6, ConcatEmptySeq DEF After
<1>8. At' = n
  BY <1>1 DEF At, PlaceOK
<1>9. log' = Told(src)[n]
  BY <1>1, <1>7 DEF SaidOK
<1> QED BY <1>1, <1>2, <1>3, <1>4, <1>8, <1>9 DEF SaidOK

(* Steps that say something.                                               *)
LEMMA RunSaid ==
  ASSUME IInv, PlaceOK, SaidOK, entity = NONE, UNCHANGED <<src, base, entity, pending>>,
         pos' = AfterRun, Give(Chars(AfterRun)), pc' \in {"runway", "fill"} => ~segment'
  PROVE  /\ SaidOK' /\ At' \in At..Len(src)
         /\ \A m \in At + 1..At' : src[m].k = "char"
<1>1. AfterRun \in pos..BufLen /\ \A m \in pos + 1..AfterRun : src[base + m].k = "char"
  BY AfterRunExists, StreamAssumption DEF IInv, MemoryBounded
<1>0. PICK q, a, z, b : q = AfterRun /\ a = At /\ z = q - pos /\ b = base
  OBVIOUS
<1>2. q \in pos..BufLen /\ (\A m \in pos + 1..q : src[b + m].k = "char")
  BY <1>0, <1>1
<1>3. /\ a \in Nat /\ z \in Nat /\ a = base + pos /\ a + z <= fetched /\ a + z <= Len(src)
      /\ pos' = q /\ pos \in Nat /\ b \in Nat /\ base = b /\ q = pos + z /\ a = At /\ base' = b
  BY <1>0, <1>2 DEF PlaceOK, BufLen, At
<1>4. ASSUME NEW m \in 1..z PROVE src[a + m].k = "char"
  <2> PICK l : l = pos + m
    OBVIOUS
  <2>1. l \in pos + 1..q /\ b + l = a + m
    BY <1>2, <1>3
  <2> QED BY <1>2, <2>1
<1>5. /\ Told(src)[a + z] = Told(src)[a] \o Run(src, a, z)
      /\ z > 0 => src[a + z].i = src[a + z].size
  <2>1. /\ a \in 0..Len(src) /\ z \in 0..Len(src) - a
    BY <1>3 DEF PlaceOK
  <2>2. src \in Seq(Byte) /\ InTokens(src) /\ Tells(Told(src), src, Len(src))
    BY DEF PlaceOK
  <2> HIDE DEF Told
  <2> QED BY <1>4, <2>1, <2>2, RunTold
<1>6. Chars(q) = Run(src, a, z)
  BY <1>0, <1>3 DEF Chars, Run
<1>7. At' = a + z
  BY <1>3 DEF At
<1>8. log' = Told(src)[a + z]
  BY <1>0, <1>3, <1>5, <1>6 DEF Give, SaidOK
<1>9. Told(src)[a + z] \in Seq(Items)
  <2>1. a + z \in 0..Len(src)
    BY <1>3 DEF PlaceOK
  <2> QED BY <2>1 DEF PlaceOK, Tells
<1>10. a + z = 0 \/ src[a + z].i = src[a + z].size
  <2>1. CASE z = 0
    <3>1. a + z = a
      BY <1>3, <2>1
    <3> QED BY <1>3, <3>1 DEF SaidOK
  <2>2. CASE z # 0
    BY <1>3, <1>5, <2>2
  <2> QED BY <2>1, <2>2
<1>11. SaidOK'
  BY <1>7, <1>8, <1>9, <1>10 DEF SaidOK
<1>12. ASSUME NEW m \in a + 1..a + z PROVE src[m].k = "char"
  <2> PICK l \in Int : m = a + l
    BY <1>3
  <2>1. l \in 1..z
    BY <1>3
  <2> QED BY <1>4, <2>1
<1>13. At' \in At..Len(src)
  BY <1>3, <1>7 DEF PlaceOK
<1> QED BY <1>3, <1>7, <1>11, <1>12, <1>13

LEMMA PushSaid ==
  ASSUME PlaceOK, SaidOK, StaysPut(src), PushEntity
  PROVE  SaidOK' /\ At' = At + Here.size /\ HereOK
<1>1. /\ ~AtEnd /\ Here.k = "ref" /\ entity = NONE /\ segment /\ segment' = segment
      /\ src' = src /\ base' = base /\ pos' = pos + Here.size /\ pc = "next" /\ pc' = pc
      /\ entity' = [text |-> Here.text, at |-> 1, t |-> Here.t] /\ log' = log /\ pending' = pending
  BY DEF PushEntity, Expanding, Looking, buffer
<1>2. HereOK
  BY <1>1, AtToken
<1>3. PICK z, a, n : z = Here.size /\ a = At /\ n = a + 1
  OBVIOUS
<1>4. n \in 1..Len(src) /\ src[n].i = 1 /\ z \in Nat \ {0} /\ z = src[n].size /\ a \in Nat /\ Here = src[n]
  BY <1>2, <1>3 DEF HereOK, PlaceOK
<1>5. TokenSays(src, Told(src), a, n, z)
  <2>1. src \in Seq(Byte) /\ InTokens(src) /\ Tells(Told(src), src, Len(src))
    BY DEF PlaceOK
  <2> QED BY <1>3, <1>4, <2>1, TokenTold
<1>6. PICK text, t : text = Here.text /\ t = Here.t
  OBVIOUS
<1>7. text \in Seq({"start", "end", "char"}) /\ t \in Nat
  BY <1>4, <1>6, ByteOf, ByteFields DEF PlaceOK
<1>8. /\ DOMAIN text = 1..Len(text) /\ Len(text) \in Nat
  BY <1>7
<1>9. \A m \in 1..Len(text) : text[m] = "char"
  <2>1. n \in DOMAIN src
    BY <1>4 DEF PlaceOK
  <2>2. Here \in Range(src)
    BY <1>4, <2>1 DEF Range
  <2>3. Range(text) \subseteq {"char"}
    BY <1>6, <2>2 DEF StaysPut
  <2> QED BY <1>8, <2>3 DEF Range
<1>10. Piece(src[n]) = [m \in 1..Len(text) |-> [k |-> "char", t |-> t]]
  <2>1. Piece(src[n]) = [m \in DOMAIN text |-> [k |-> text[m], t |-> t]]
    BY <1>1, <1>4, <1>6 DEF Piece
  <2> QED BY <1>8, <1>9, <2>1
<1>11. entity'.text = text /\ entity'.at = 1 /\ entity'.t = t
  BY <1>1, <1>6
<1>12. entity' # NONE
  <2>1. entity' \in Entity
    BY <1>1, <1>6, <1>7 DEF Entity
  <2> QED BY <2>1, StreamAssumption
<1>13. Rest' = [m \in 1..Len(text) |-> [k |-> "char", t |-> t]]
  <2>1. Len(text) + 1 - 1 = Len(text)
    BY <1>8
  <2> QED BY <1>11, <2>1 DEF Rest
<1>14. At' = a + z
  BY <1>1, <1>3, <1>4 DEF At, PlaceOK
<1>15. log' \o Rest' = Told(src)[a + z] /\ src[a + z].i = src[a + z].size
  BY <1>1, <1>3, <1>5, <1>10, <1>13 DEF TokenSays, SaidOK
<1>16. SaidOK'
  BY <1>1, <1>9, <1>11, <1>12, <1>14, <1>15 DEF SaidOK
<1> QED BY <1>2, <1>3, <1>14, <1>16

LEMMA EntityTextSaid ==
  ASSUME IInv, PlaceOK, SaidOK, EntityText
  PROVE  SaidOK' /\ At' = At /\ segment /\ UNCHANGED <<segment, pc>>
<1>1. /\ entity # NONE /\ ~Exhausted /\ entity' = [entity EXCEPT !.at = @ + 1] /\ pc = "next"
      /\ log' = log \o <<[k |-> "char", t |-> entity.t]>> /\ segment
      /\ UNCHANGED <<src, base, pos, segment, pending, pc>>
  BY DEF EntityText, InEntity, Reading, Step, Found, Give, buffer, SaidOK
<1>2. entity \in Entity /\ entity.at \in 1..Len(entity.text) + 1
  BY <1>1 DEF IInv, MemoryBounded, TypeOK
<1>3. PICK text, at, t : text = entity.text /\ at = entity.at /\ t = entity.t
  OBVIOUS
<1>4. /\ text \in Seq({"start", "end", "char"}) /\ t \in Nat /\ at \in Nat \ {0}
      /\ at <= Len(text) /\ Len(text) \in Nat
  BY <1>1, <1>2, <1>3 DEF Entity, Exhausted
<1>5. entity'.text = text /\ entity'.at = at + 1 /\ entity'.t = t /\ entity' \in Entity
  BY <1>1, <1>2, <1>3, <1>4 DEF Entity
<1>6. entity' # NONE
  BY <1>5, StreamAssumption
<1>7. PICK x \in Items : x = [k |-> "char", t |-> t]
  BY <1>4 DEF Items
<1>8. PICK r \in Nat : Len(text) + 1 - at = r + 1 /\ Len(text) + 1 - (at + 1) = r
  <2>1. Len(text) - at \in Nat /\ Len(text) + 1 - at = (Len(text) - at) + 1 /\ Len(text) + 1 - (at + 1) = Len(text) - at
    BY <1>4
  <2> QED BY <2>1
<1>9. Rest = [m \in 1..r + 1 |-> x] /\ Rest' = [m \in 1..r |-> x]
  BY <1>3, <1>5, <1>7, <1>8 DEF Rest
<1>10. Rest \in Seq(Items) /\ Rest' \in Seq(Items) /\ <<x>> \in Seq(Items)
       /\ Len(Rest) = r + 1 /\ Len(Rest') = r
  BY <1>9
<1>11. Rest = <<x>> \o Rest'
  <2>1. PICK u \in Seq(Items), v \in Seq(Items) : u = Rest /\ v = Rest'
    BY <1>10
  <2>2. Len(u) = r + 1 /\ Len(v) = r /\ Len(<<x>>) = 1
    BY <1>10, <2>1
  <2>3. <<x>> \o v \in Seq(Items) /\ Len(<<x>> \o v) = r + 1
    BY <1>10, <2>2, ConcatProperties
  <2>4. ASSUME NEW m \in 1..r + 1 PROVE u[m] = (<<x>> \o v)[m]
    <3>1. u[m] = x
      BY <1>9, <2>1
    <3>2. (<<x>> \o v)[m] = IF m <= 1 THEN <<x>>[m] ELSE v[m - 1]
      BY <1>10, <2>2, ConcatProperties
    <3>3. m > 1 => m - 1 \in 1..r
      OBVIOUS
    <3>4. m > 1 => v[m - 1] = x
      BY <1>9, <2>1, <3>3
    <3>5. CASE m = 1
      <4>1. (<<x>> \o v)[m] = <<x>>[1]
        BY <3>2, <3>5
      <4>2. <<x>>[1] = x
        OBVIOUS
      <4> QED BY <3>1, <4>1, <4>2
    <3>6. CASE m # 1
      <4>1. m > 1 /\ ~(m <= 1)
        BY <3>6
      <4> QED BY <3>1, <3>2, <3>4, <4>1
    <3> QED BY <3>5, <3>6
  <2>5. u = <<x>> \o v
    BY <2>2, <2>3, <2>4, SeqEqual
  <2> QED BY <2>1, <2>5
<1>12. log' \o Rest' = log \o Rest /\ log' \in Seq(Items)
  <2>1. PICK v \in Seq(Items) : v = Rest'
    BY <1>10
  <2>2. log \in Seq(Items) /\ log' = log \o <<x>>
    BY <1>1, <1>3, <1>7 DEF SaidOK
  <2>3. (log \o <<x>>) \o v = log \o (<<x>> \o v) /\ log \o <<x>> \in Seq(Items)
    BY <1>10, <2>2, Joining
  <2> QED BY <1>11, <2>1, <2>2, <2>3
<1>13. At' = At
  BY <1>1 DEF At
<1>14. \A m \in 1..Len(entity'.text) : entity'.text[m] = "char"
  BY <1>1, <1>3, <1>5 DEF SaidOK
<1>15. SaidOK'
  BY <1>1, <1>6, <1>12, <1>13, <1>14 DEF SaidOK
<1> QED BY <1>1, <1>13, <1>15

LEMMA PopSaid ==
  ASSUME IInv, PlaceOK, SaidOK, PopEntity
  PROVE  SaidOK' /\ At' = At /\ segment
<1>1. /\ entity # NONE /\ Exhausted /\ entity' = NONE /\ pc = "next" /\ segment
      /\ UNCHANGED <<src, base, pos, segment, pending, pc, log>>
  BY DEF PopEntity, InEntity, buffer, SaidOK
<1>2. entity \in Entity /\ entity.at \in 1..Len(entity.text) + 1
  BY <1>1 DEF IInv, MemoryBounded, TypeOK
<1>3. Len(entity.text) \in Nat
  BY <1>2 DEF Entity
<1>4. Len(entity.text) + 1 - entity.at = 0
  BY <1>1, <1>2, <1>3 DEF Exhausted
<1>5. Rest = << >>
  BY <1>4 DEF Rest
<1>6. log = Told(src)[At]
  BY <1>1, <1>5, ConcatEmptySeq DEF SaidOK
<1>7. At' = At
  BY <1>1 DEF At
<1>8. SaidOK'
  BY <1>1, <1>6, <1>7 DEF SaidOK
<1> QED BY <1>1, <1>7, <1>8

(* The counts are numbers.                                                 *)
LEMMA CountNat ==
  ASSUME NEW doc, NEW m \in Nat
  PROVE  Opened(doc, m) \in Nat /\ Closed(doc, m) \in Nat
<1>1. IsFiniteSet(1..m)
  BY FS_Interval
<1>2. ASSUME NEW kind PROVE Cardinality(Firsts(doc, kind, m)) \in Nat
  <2>1. Firsts(doc, kind, m) \in SUBSET (1..m)
    BY DEF Firsts
  <2> QED BY <1>1, <2>1, FS_Subset, FS_CardinalityType
<1> QED BY <1>2 DEF Opened, Closed, Firsts

LEMMA SteadySeen ==
  ASSUME SeenOK, UNCHANGED <<src, depth, rootSeen, outcome>>, At' = At, pc # "done", pc' = "runway"
  PROVE  SeenOK'
BY DEF SeenOK

(* Enough in the buffer: next() starts with a stretch before it.           *)
LEMMA KeepSeen ==
  ASSUME PlaceOK, SaidOK, SeenOK, KeepBuffer
  PROVE  SeenOK'
<1>1. /\ pc = "runway" /\ Enough /\ pc' = "next" /\ ~segment
      /\ UNCHANGED <<src, fetched, base, eof, pos, depth, rootSeen, segment, outcome>>
  BY DEF KeepBuffer, buffer, parse, SaidOK
<1>2. At' = At
  BY <1>1 DEF At
<1>3. eof \/ fetched - At >= BufferSize
  BY <1>1 DEF Enough, Runway, BufLen, PlaceOK, At
<1>4. At \in Nat
  BY DEF PlaceOK
<1>5. Since(At)'
  BY <1>1, <1>2, <1>3, <1>4 DEF Since
<1>6. At \in 0..At
  BY <1>4
<1>7. \E s \in 0..At' : Since(s)'
  BY <1>2, <1>5, <1>6
<1> QED BY <1>1, <1>2, <1>7 DEF SeenOK

LEMMA RebindSeen ==
  ASSUME PlaceOK, SaidOK, SeenOK, Rebind
  PROVE  SeenOK'
<1>1. /\ pc = "fill" /\ Filled /\ pc' = "next" /\ ~segment /\ pos = 0
      /\ UNCHANGED <<src, fetched, base, eof, pos, depth, rootSeen, segment, outcome>>
  BY DEF Rebind, buffer, parse, SaidOK, SeenOK
<1>2. At' = At
  BY <1>1 DEF At
<1>3. eof \/ fetched - At >= BufferSize
  BY <1>1 DEF Filled, BufLen, InternalCap, PlaceOK, At
<1>4. At \in Nat
  BY DEF PlaceOK
<1>5. Since(At)'
  BY <1>1, <1>2, <1>3, <1>4 DEF Since
<1>6. At \in 0..At
  BY <1>4
<1>7. \E s \in 0..At' : Since(s)'
  BY <1>2, <1>5, <1>6
<1> QED BY <1>1, <1>2, <1>7 DEF SeenOK

(* What next() must see whole lies in the buffer.                          *)
LEMMA FitsToken ==
  ASSUME PlaceOK, SaidOK, SeenOK, Fits(src), ~AtEnd, pc = "next",
         IF segment THEN Here.k = "ref" ELSE Here.k \in {"start", "end", "empty", "misc"}
  PROVE  Whole
<1>1. PICK s \in 0..At : Since(s)
  BY DEF SeenOK
<1>2. HereOK
  BY AtToken
<1>3. PICK a, z, n, e : a = At /\ z = Here.size /\ n = a + 1 /\ e = a + z
  OBVIOUS
<1>4. /\ n \in 1..Len(src) /\ a \in Nat /\ z \in Nat \ {0} /\ Here = src[n] /\ src[n].i = 1
      /\ src[n].size = z /\ s \in Nat /\ s <= a /\ e \in Nat /\ n = a + 1 /\ e = a + z
      /\ Len(src) \in Nat
  BY <1>1, <1>2, <1>3 DEF HereOK, PlaceOK
<1>5. ASSUME NEW m \in n..e PROVE m \in 1..Len(src) /\ Same(src[m], src[n])
  <2>1. \A j \in 0..z - 1 : n + j \in 1..Len(src) /\ Same(src[n + j], src[n])
    BY <1>4, TokenBytes DEF PlaceOK
  <2>2. PICK j \in 0..z - 1 : m = n + j
    <3>1. m - n \in 0..z - 1 /\ m = n + (m - n)
      BY <1>4
    <3> QED BY <3>1
  <2> QED BY <2>1, <2>2
<1>6. ASSUME NEW m \in s + 1..a
      PROVE  src[m].k \in (IF segment THEN {"char", "ref"} ELSE {"ws"})
  BY <1>1, <1>3 DEF Since
<1>7. e \in 1..Len(src) /\ s + 1 \in 1..Len(src) /\ s + 1 <= e
  <2>1. e \in n..e
    BY <1>4
  <2>2. e \in 1..Len(src)
    BY <1>5, <2>1
  <2> QED BY <1>4, <2>2
<1>8. ASSUME NEW m \in s + 1..e - 1 PROVE Joined(src[m], src[m + 1])
  <2>1. m \in Nat /\ m + 1 \in Nat /\ (m < a => m + 1 \in s + 1..a) /\ (m <= a => m \in s + 1..a)
        /\ (m = a => m + 1 = n) /\ (m > a => m \in n..e /\ m + 1 \in n..e)
    BY <1>4
  <2>2. CASE m > a
    <3>1. Same(src[m], src[n]) /\ Same(src[m + 1], src[n])
      BY <1>5, <2>1, <2>2
    <3> QED BY <3>1 DEF Same, Joined
  <2>3. CASE m <= a /\ ~segment
    BY <1>6, <2>1, <2>3 DEF Joined
  <2>4. CASE m <= a /\ segment
    <3>1. src[m].k \in {"char", "ref"}
      BY <1>6, <2>1, <2>4
    <3>2. CASE m < a
      BY <1>6, <2>1, <2>4, <3>1, <3>2 DEF Joined
    <3>3. CASE m = a
      BY <1>4, <2>1, <2>4, <3>1, <3>3 DEF Joined
    <3> QED BY <1>4, <2>1, <2>4, <3>2, <3>3
  <2> QED BY <1>4, <2>1, <2>2, <2>3, <2>4
<1>9. <<s + 1, e>> \in Stretches(src)
  <2>1. DOMAIN src = 1..Len(src)
    BY DEF PlaceOK
  <2> QED BY <1>7, <1>8, <2>1 DEF Stretches
<1>10. NeedsWhole(src, <<s + 1, e>>)
  <2>1. CASE segment
    <3>1. n \in s + 1..e /\ src[n].k = "ref"
      BY <1>4, <2>1
    <3> QED BY <3>1 DEF NeedsWhole
  <2>2. CASE ~segment
    <3>1. ASSUME NEW m \in s + 1..e PROVE src[m].k # "char"
      <4>1. m \in s + 1..a \/ m \in n..e
        BY <1>4
      <4>2. CASE m \in s + 1..a
        BY <1>6, <2>2, <4>2
      <4>3. CASE m \in n..e
        BY <1>4, <1>5, <2>2, <4>3 DEF Same
      <4> QED BY <4>1, <4>2, <4>3
    <3> QED BY <3>1 DEF NeedsWhole
  <2> QED BY <2>1, <2>2
<1>11. e - (s + 1) < BufferSize
  BY <1>9, <1>10 DEF Fits
<1>12. e <= fetched
  BY <1>1, <1>4, <1>7, <1>11 DEF Since, PlaceOK
<1> QED BY <1>3, <1>4, <1>12 DEF Whole, BufLen, PlaceOK, At

(* The end of the buffer is the end of the document.                       *)
LEMMA FitsEnd ==
  ASSUME PlaceOK, SaidOK, SeenOK, Fits(src), AtEnd, pc = "next", ~segment
  PROVE  At = Len(src) /\ depth = 0 /\ rootSeen
<1>1. PICK s \in 0..At : Since(s)
  BY DEF SeenOK
<1>2. PICK a, n : a = At /\ n = a + 1
  OBVIOUS
<1>3. a \in Nat /\ s \in Nat /\ s <= a /\ n = a + 1 /\ a = fetched /\ Len(src) \in Nat /\ a <= Len(src) /\ a = At
  BY <1>1, <1>2 DEF AtEnd, BufLen, At, PlaceOK
<1>4. ASSUME a # Len(src) PROVE FALSE
  <2>1. ~eof /\ a - s >= BufferSize /\ s < a /\ n \in 1..Len(src) /\ BufferSize \in Nat \ {0}
    BY <1>1, <1>3, <1>4 DEF Since, PlaceOK
  <2>2. depth = 0 /\ \A m \in s + 1..a : src[m].k = "ws"
    BY <1>1, <1>3, <2>1 DEF Since
  <2>3. src[n].k # "char"
    <3> SUFFICES ASSUME src[n].k = "char" PROVE FALSE
      OBVIOUS
    <3>1. n \in DOMAIN src
      BY <2>1 DEF PlaceOK
    <3>2. Closed(src, n) < Opened(src, n)
      BY <3>1 DEF PlaceOK, Nested
    <3>3. Opened(src, n) = Opened(src, a) /\ Closed(src, n) = Closed(src, a)
      <4>1. \A l \in a + 1..n : src[l].k \notin {"start", "end"}
        BY <1>3
      <4>2. n \in Nat /\ a <= n
        BY <1>3
      <4> QED BY <1>3, <4>1, <4>2, CountSame
    <3>4. Closed(src, a) \in Nat /\ 0 + Closed(src, a) = Opened(src, a)
      BY <1>3, <2>2, CountNat DEF SeenOK
    <3> QED BY <3>2, <3>3, <3>4
  <2>4. ASSUME NEW m \in s + 1..n PROVE src[m].k # "char"
    <3>1. m \in s + 1..a \/ m = n
      BY <1>3
    <3> QED BY <2>2, <2>3, <3>1
  <2>5. \A m \in s + 1..n - 1 : Joined(src[m], src[m + 1])
    <3>1. n - 1 = a
      BY <1>3
    <3> QED BY <2>2, <3>1 DEF Joined
  <2>6. <<s + 1, n>> \in Stretches(src)
    <3>1. DOMAIN src = 1..Len(src) /\ s + 1 \in 1..Len(src) /\ s + 1 <= n
      BY <1>3, <2>1 DEF PlaceOK
    <3> QED BY <2>1, <2>5, <3>1 DEF Stretches
  <2>7. NeedsWhole(src, <<s + 1, n>>)
    BY <2>4 DEF NeedsWhole
  <2>8. n - (s + 1) < BufferSize
    BY <2>6, <2>7 DEF Fits
  <2> QED BY <1>3, <2>1, <2>8
<1>5. depth = 0
  <2>1. Opened(src, a) = Closed(src, a)
    BY <1>3, <1>4 DEF PlaceOK, Nested
  <2>2. Closed(src, a) \in Nat /\ depth + Closed(src, a) = Opened(src, a) /\ depth \in Nat
    BY <1>3, CountNat DEF SeenOK, PlaceOK
  <2> QED BY <2>1, <2>2
<1>6. rootSeen
  <2>1. PICK m \in DOMAIN src : src[m].k \in {"start", "empty"}
    BY DEF PlaceOK, Nested
  <2>2. src[m].k # "empty"
    BY <2>1 DEF Fits, StaysPut, Range
  <2>3. m \in 1..At
    BY <1>3, <1>4, <2>1 DEF PlaceOK
  <2> QED BY <2>1, <2>2, <2>3 DEF SeenOK
<1> QED BY <1>3, <1>4, <1>5, <1>6

(* What a token does to the counts.                                        *)
LEMMA TokenSeen ==
  ASSUME PlaceOK, SaidOK, SeenOK, NEW kind \in {"start", "end", "misc"}, TakeToken(kind),
         depth' = (IF kind = "start" THEN depth + 1 ELSE IF kind = "end" THEN Monus(depth) ELSE depth),
         rootSeen' = (kind = "start" \/ rootSeen)
  PROVE  SeenOK'
<1>1. /\ ~AtEnd /\ Here.k = kind /\ pc = "next" /\ pc' = "runway"
      /\ src' = src /\ base' = base /\ pos' = pos + Here.size /\ outcome' = outcome
  BY DEF TakeToken, OnSource, Calling, Looking, buffer, Return
<1>2. HereOK
  BY <1>1, AtToken
<1>3. PICK a, n, z : a = At /\ n = a + 1 /\ z = Here.size
  OBVIOUS
<1>4. /\ n \in 1..Len(src) /\ src[n].i = 1 /\ z \in Nat \ {0} /\ z = src[n].size /\ a \in Nat
      /\ src[n].k = kind /\ n = a + 1 /\ a = At /\ Len(src) \in Nat
      /\ src \in Seq(Byte) /\ InTokens(src) /\ Tells(Told(src), src, Len(src))
  BY <1>1, <1>2, <1>3 DEF HereOK, PlaceOK
<1>5. At' = a + z
  BY <1>1, <1>3, <1>4 DEF At, PlaceOK
<1>6. a + z \in 1..Len(src)
  <2>1. TokenSays(src, Told(src), a, n, z)
    BY <1>4, TokenTold
  <2> QED BY <2>1 DEF TokenSays
<1>7. depth' + Closed(src, a + z) = Opened(src, a + z)
  <2>1. /\ Opened(src, a) \in Nat /\ Closed(src, a) \in Nat
        /\ Opened(src, a + z) = Opened(src, a) + (IF src[n].k = "start" THEN 1 ELSE 0)
        /\ Closed(src, a + z) = Closed(src, a) + (IF src[n].k = "end" THEN 1 ELSE 0)
    BY <1>4, CountToken
  <2>2. depth + Closed(src, a) = Opened(src, a) /\ depth \in Nat
    BY <1>4 DEF SeenOK, PlaceOK
  <2>3. Closed(src, a + z) <= Opened(src, a + z)
    BY <1>4, <1>6 DEF PlaceOK, Nested
  <2>4. CASE kind = "start"
    BY <1>4, <2>1, <2>2, <2>4
  <2>5. CASE kind = "misc"
    BY <1>4, <2>1, <2>2, <2>5
  <2>6. CASE kind = "end"
    <3>1. depth # 0
      BY <1>4, <2>1, <2>2, <2>3, <2>6
    <3> QED BY <1>4, <2>1, <2>2, <2>6, <3>1 DEF Monus
  <2> QED BY <2>4, <2>5, <2>6
<1>8. ASSUME NEW m \in 1..a + z, src[m].k = "start" PROVE rootSeen'
  <2>1. CASE m \in 1..a
    BY <1>4, <1>8, <2>1 DEF SeenOK
  <2>2. CASE m \notin 1..a
    <3>1. m - n \in 0..z - 1 /\ n + (m - n) = m
      BY <1>4, <2>2
    <3>2. \A j \in 0..z - 1 : Same(src[n + j], src[n])
      BY <1>4, TokenBytes
    <3>3. Same(src[m], src[n])
      BY <3>1, <3>2
    <3> QED BY <1>4, <1>8, <3>3 DEF Same
  <2> QED BY <2>1, <2>2
<1> QED BY <1>1, <1>5, <1>7, <1>8 DEF SeenOK

(* A stretch without a tag.                                                *)
LEMMA PlainSeen ==
  ASSUME PlaceOK, SeenOK, UNCHANGED <<src, depth, rootSeen, outcome>>,
         At' \in Nat, At <= At',
         \A m \in At + 1..At' : src[m].k \notin {"start", "end"},
         pc = "next", pc' \in {"next", "runway"},
         pc' = "next" => \E s \in 0..At : Since(s)'
  PROVE  SeenOK'
<1>1. PICK a, b : a = At /\ b = At'
  OBVIOUS
<1>2. a \in Nat /\ b \in Nat /\ a <= b /\ \A m \in a + 1..b : src[m].k \notin {"start", "end"}
  BY <1>1 DEF PlaceOK
<1>3. Opened(src, b) = Opened(src, a) /\ Closed(src, b) = Closed(src, a)
  BY <1>2, CountSame
<1>4. \A m \in 1..b : src[m].k = "start" => rootSeen
  <2>1. \A m \in 1..b : m \in 1..a \/ m \in a + 1..b
    BY <1>2
  <2> QED BY <1>1, <1>2, <2>1 DEF SeenOK
<1>5. depth' + Closed(src, b) = Opened(src, b)
  BY <1>1, <1>3 DEF SeenOK
<1>6. 0..a \subseteq 0..b
  BY <1>2
<1>7. pc' = "next" => \E s \in 0..At' : Since(s)'
  BY <1>1, <1>6
<1> QED BY <1>1, <1>4, <1>5, <1>7 DEF SeenOK

LEMMA SpaceSeen ==
  ASSUME PlaceOK, SaidOK, SeenOK, SkipSpace
  PROVE  SeenOK'
<1>1. /\ Here.k = "ws" /\ pc = "next" /\ pc' = "next" /\ ~segment /\ depth = 0
      /\ UNCHANGED <<src, fetched, eof, depth, rootSeen, outcome, segment>>
  BY DEF SkipSpace, OnSource, Calling, Looking, buffer, parse
<1>2. HereOK /\ At' = At + 1
  BY SpaceSaid
<1>3. PICK a : a = At
  OBVIOUS
<1>4. a \in Nat /\ a = At /\ At' = a + 1 /\ src[a + 1].k = "ws"
  BY <1>1, <1>2, <1>3 DEF HereOK, PlaceOK
<1>5. PICK s \in 0..a : Since(s)
  BY <1>1, <1>4 DEF SeenOK
<1>6. Since(s)'
  <2>1. \A m \in s + 1..a + 1 : m \in s + 1..a \/ m = a + 1
    BY <1>4
  <2>2. \A m \in s + 1..a + 1 : src[m].k = "ws"
    BY <1>1, <1>4, <1>5, <2>1 DEF Since
  <2> QED BY <1>1, <1>4, <1>5, <2>2 DEF Since
<1>7. \A m \in At + 1..At' : src[m].k \notin {"start", "end"}
  BY <1>4
<1>8. At' \in Nat /\ At <= At'
  BY <1>4
<1>9. \E r \in 0..At : Since(r)'
  BY <1>4, <1>5, <1>6
<1> QED BY <1>1, <1>7, <1>8, <1>9, PlainSeen

LEMMA TextSeen ==
  ASSUME IInv, PlaceOK, SaidOK, SeenOK, ReadText \/ SegmentText
  PROVE  SeenOK'
<1>1. /\ entity = NONE /\ pc = "next" /\ pos' = AfterRun /\ Give(Chars(AfterRun))
      /\ UNCHANGED <<src, base, fetched, eof, entity, pending, depth, rootSeen, outcome>>
      /\ pc' \in {"next", "runway"} /\ (pc' = "runway" => ~segment')
      /\ pc' = "next" => segment' /\ (~segment => depth > 0)
  BY DEF ReadText, SegmentText, OnSource, Calling, Expanding, buffer, Return
<1>2. /\ At' \in At..Len(src) /\ \A m \in At + 1..At' : src[m].k = "char"
  BY <1>1, RunSaid
<1>3. PICK a, b : a = At /\ b = At'
  OBVIOUS
<1>4. /\ a \in Nat /\ b \in Nat /\ a <= b /\ a = At /\ b = At' /\ depth \in Nat
      /\ \A m \in a + 1..b : src[m].k = "char"
  BY <1>2, <1>3 DEF PlaceOK
<1>5. PICK s \in 0..a : Since(s)
  BY <1>1, <1>4 DEF SeenOK
<1>6. ASSUME pc' = "next" PROVE Since(s)'
  <2>1. segment' /\ (segment \/ s = a)
    BY <1>1, <1>4, <1>5, <1>6 DEF Since
  <2>2. \A m \in s + 1..b : m \in s + 1..a \/ m \in a + 1..b
    BY <1>4
  <2>3. \A m \in s + 1..a : src[m].k \in {"char", "ref"}
    BY <1>4, <1>5, <2>1 DEF Since
  <2>4. \A m \in s + 1..b : src[m].k \in {"char", "ref"}
    BY <1>4, <2>2, <2>3
  <2> QED BY <1>1, <1>4, <1>5, <2>1, <2>4 DEF Since
<1>7. pc' = "next" => \E r \in 0..At : Since(r)'
  BY <1>4, <1>5, <1>6
<1>8. At' \in Nat /\ At <= At' /\ \A m \in At + 1..At' : src[m].k \notin {"start", "end"}
  BY <1>4
<1> QED BY <1>1, <1>7, <1>8, PlainSeen

LEMMA PushSeen ==
  ASSUME PlaceOK, SaidOK, SeenOK, StaysPut(src), PushEntity
  PROVE  SeenOK'
<1>1. /\ ~AtEnd /\ Here.k = "ref" /\ segment /\ segment' = segment /\ pc = "next" /\ pc' = "next"
      /\ UNCHANGED <<src, fetched, eof, depth, rootSeen, outcome>>
  BY DEF PushEntity, Expanding, Looking, buffer
<1>2. At' = At + Here.size /\ HereOK
  BY PushSaid
<1>3. PICK a, n, z, b : a = At /\ n = a + 1 /\ z = Here.size /\ b = a + z
  OBVIOUS
<1>4. /\ n \in 1..Len(src) /\ src[n].i = 1 /\ z \in Nat \ {0} /\ z = src[n].size /\ a \in Nat
      /\ src[n].k = "ref" /\ n = a + 1 /\ a = At /\ Len(src) \in Nat /\ b = a + z /\ At' = b
      /\ src \in Seq(Byte) /\ InTokens(src) /\ b \in Nat /\ a <= b
  BY <1>1, <1>2, <1>3 DEF HereOK, PlaceOK
<1>5. ASSUME NEW m \in a + 1..b PROVE src[m].k = "ref"
  <2>1. m - n \in 0..z - 1 /\ n + (m - n) = m
    BY <1>4
  <2>2. \A j \in 0..z - 1 : Same(src[n + j], src[n])
    BY <1>4, TokenBytes
  <2>3. Same(src[m], src[n])
    BY <2>1, <2>2
  <2> QED BY <1>4, <2>3 DEF Same
<1>6. PICK s \in 0..a : Since(s)
  BY <1>1, <1>4 DEF SeenOK
<1>7. Since(s)'
  <2>1. \A m \in s + 1..b : m \in s + 1..a \/ m \in a + 1..b
    BY <1>4
  <2>2. \A m \in s + 1..a : src[m].k \in {"char", "ref"}
    BY <1>1, <1>4, <1>6 DEF Since
  <2>3. \A m \in s + 1..b : src[m].k \in {"char", "ref"}
    BY <1>5, <2>1, <2>2
  <2> QED BY <1>1, <1>4, <1>6, <2>3 DEF Since
<1>8. \E r \in 0..At : Since(r)'
  BY <1>4, <1>6, <1>7
<1>9. At' \in Nat /\ At <= At' /\ \A m \in At + 1..At' : src[m].k \notin {"start", "end"}
  BY <1>4, <1>5
<1> QED BY <1>1, <1>8, <1>9, PlainSeen

(* Nothing moved inside of a segment.                                      *)
LEMMA InsideSeen ==
  ASSUME PlaceOK, SeenOK, pc = "next", UNCHANGED <<src, fetched, eof, depth, rootSeen, outcome, segment, pc>>,
         At' = At
  PROVE  SeenOK'
<1>1. PICK s \in 0..At : Since(s)
  BY DEF SeenOK
<1>2. Since(s)'
  BY <1>1 DEF Since
<1>3. \E r \in 0..At : Since(r)'
  BY <1>1, <1>2
<1>4. At' \in Nat /\ At <= At' /\ \A m \in At + 1..At' : src[m].k \notin {"start", "end"}
  BY DEF PlaceOK
<1> QED BY <1>3, <1>4, PlainSeen

(* The invariant.                                                          *)
SInv ==
  /\ IInv
  /\ StaysPut(src) => SaidOK
  /\ Fits(src) => SeenOK

(* What StaysPut leaves out does not occur.                                *)
LEMMA NoEmpty ==
  ASSUME PlaceOK, SaidOK, StaysPut(src), ~AtEnd
  PROVE  Here.k # "empty"
<1>1. HereOK
  BY AtToken
<1>2. Here \in Range(src)
  BY <1>1 DEF HereOK, PlaceOK, Range
<1> QED BY <1>2 DEF StaysPut

LEMMA InText ==
  ASSUME IInv, PlaceOK, SaidOK, InEntity, ~Exhausted
  PROVE  segment /\ Reading("char")
<1>1. entity # NONE
  BY DEF InEntity
<1>2. entity \in Entity /\ entity.at \in 1..Len(entity.text) + 1
  BY <1>1 DEF IInv, MemoryBounded, TypeOK
<1>3. entity.at \in 1..Len(entity.text)
  BY <1>2 DEF Exhausted, Entity
<1> QED BY <1>1, <1>3 DEF SaidOK, Reading

LEMMA SaidStep ==
  ASSUME IInv, PlaceOK, SaidOK, StaysPut(src), [NextEvent]_vars
  PROVE  SaidOK' /\ src' = src
<1>1. CASE KeepBuffer
  BY <1>1, SteadySaid DEF KeepBuffer, buffer, parse, At, SaidOK
<1>2. CASE Compact
  <2>1. base' = base + pos /\ pos' = 0
    BY <1>2 DEF Compact
  <2>2. At' = At
    BY <2>1 DEF At, PlaceOK
  <2> QED BY <1>2, <2>2, SteadySaid DEF Compact, parse, SaidOK
<1>3. CASE ReadChunk
  <2>1. UNCHANGED <<src, base, pos, parse, pc>>
    BY <1>3 DEF ReadChunk
  <2> QED BY <2>1, SteadySaid DEF parse, At, SaidOK
<1>4. CASE ReadFails
  BY <1>4, SteadySaid DEF ReadFails, Stop, buffer, parse, At, SaidOK
<1>5. CASE Rebind
  <2>1. UNCHANGED <<src, base, pos, parse>> /\ entity = NONE /\ pc' \notin {"runway", "fill"}
    BY <1>5 DEF Rebind, Stop, buffer, SaidOK
  <2> QED BY <2>1, SteadySaid DEF parse, At
<1>6. CASE SkipSpace
  BY <1>6, SpaceSaid DEF SkipSpace
<1>7. CASE EndOfBuffer \/ CutToken \/ CutReference
  <2>1. UNCHANGED <<src, base, pos, parse>> /\ entity = NONE /\ pc' = "done"
    BY <1>7 DEF EndOfBuffer, CutToken, CutReference, Refuse, Stop, buffer, OnSource, Expanding
  <2> QED BY <2>1, SteadySaid DEF parse, At
<1>8. CASE StartElement
  BY <1>8, TokenSaid DEF StartElement, TakeToken
<1>9. CASE EndElement
  BY <1>9, TokenSaid DEF EndElement, TakeToken
<1>10. CASE EmptyElement
  <2>1. ~AtEnd /\ Here.k = "empty"
    BY <1>10 DEF EmptyElement, TakeToken, Looking
  <2> QED BY <2>1, NoEmpty
<1>11. CASE Misc
  BY <1>11, TokenSaid DEF Misc, TakeToken
<1>12. CASE PendingEnd
  BY <1>12 DEF PendingEnd, SaidOK
<1>13. CASE ReadText
  <2>1. /\ entity = NONE /\ UNCHANGED <<src, base, entity, pending>>
        /\ pos' = AfterRun /\ Give(Chars(AfterRun)) /\ (pc' \in {"runway", "fill"} => ~segment')
    BY <1>13 DEF ReadText, OnSource, Calling, buffer, Return
  <2> QED BY <2>1, RunSaid
<1>14. CASE SegmentText
  <2>1. /\ entity = NONE /\ UNCHANGED <<src, base, entity, pending>>
        /\ pos' = AfterRun /\ Give(Chars(AfterRun)) /\ (pc' \in {"runway", "fill"} => ~segment')
    BY <1>14 DEF SegmentText, Expanding, buffer
  <2> QED BY <2>1, RunSaid
<1>15. CASE SegmentEnd
  BY <1>15, SteadySaid DEF SegmentEnd, Expanding, buffer, Return, At
<1>16. CASE PushEntity
  BY <1>16, PushSaid DEF PushEntity
<1>17. CASE EntityText
  BY <1>17, EntityTextSaid DEF EntityText
<1>18. CASE EntityFlush
  BY <1>18, InText DEF EntityFlush
<1>19. CASE EntityTag
  <2>1. InEntity /\ ~segment /\ entity # NONE
    BY <1>19 DEF EntityTag, InEntity
  <2> QED BY <2>1 DEF SaidOK
<1>20. CASE PopEntity
  BY <1>20, PopSaid DEF PopEntity
<1>21. CASE UNCHANGED vars
  BY <1>21 DEF vars, SaidOK, Rest, At
<1> QED
  BY <1>1, <1>2, <1>3, <1>4, <1>5, <1>6, <1>7, <1>8, <1>9, <1>10, <1>11, <1>12, <1>13, <1>14,
     <1>15, <1>16, <1>17, <1>18, <1>19, <1>20, <1>21 DEF NextEvent, Advance

LEMMA SeenStep ==
  ASSUME IInv, PlaceOK, SaidOK, SeenOK, Fits(src), [NextEvent]_vars
  PROVE  SeenOK'
<1>0. StaysPut(src)
  BY DEF Fits
<1>1. CASE KeepBuffer
  BY <1>1, KeepSeen
<1>2. CASE Compact
  <2>1. /\ base' = base + pos /\ pos' = 0 /\ pc' = "fill" /\ pc = "runway"
        /\ UNCHANGED <<src, depth, rootSeen, outcome>>
    BY <1>2 DEF Compact, parse
  <2>2. At' = At
    BY <2>1 DEF At, PlaceOK
  <2> QED BY <2>1, <2>2 DEF SeenOK
<1>3. CASE ReadChunk
  <2>1. UNCHANGED <<src, base, pos, depth, rootSeen, pc, outcome>> /\ pc = "fill"
    BY <1>3 DEF ReadChunk, parse
  <2>2. At' = At
    BY <2>1 DEF At
  <2> QED BY <2>1, <2>2 DEF SeenOK
<1>4. CASE ReadFails
  <2>1. UNCHANGED <<src, base, pos, depth, rootSeen>> /\ pc' = "done" /\ outcome' = "io"
    BY <1>4 DEF ReadFails, parse, Stop, buffer
  <2>2. At' = At
    BY <2>1 DEF At
  <2> QED BY <2>1, <2>2 DEF SeenOK
<1>5. CASE Rebind
  BY <1>5, RebindSeen
<1>6. CASE SkipSpace
  BY <1>6, SpaceSeen
<1>7. CASE EndOfBuffer
  <2>1. AtEnd /\ pc = "next" /\ ~segment
    BY <1>7 DEF EndOfBuffer, OnSource, Calling
  <2>2. At = Len(src) /\ depth = 0 /\ rootSeen
    BY <2>1, FitsEnd
  <2>3. UNCHANGED <<src, base, pos, depth, rootSeen>> /\ pc' = "done" /\ outcome' = "eof"
    BY <1>7, <2>2 DEF EndOfBuffer, Stop, buffer, parse
  <2>4. At' = At
    BY <2>3 DEF At
  <2> QED BY <2>2, <2>3, <2>4 DEF SeenOK
<1>8. CASE CutToken
  <2>1. /\ ~AtEnd /\ pc = "next" /\ ~segment /\ ~Whole
        /\ Here.k \in {"start", "end", "empty", "misc"}
    BY <1>8 DEF CutToken, OnSource, Calling, Looking
  <2> QED BY <2>1, FitsToken
<1>9. CASE CutReference
  <2>1. ~AtEnd /\ pc = "next" /\ segment /\ ~Whole /\ Here.k = "ref"
    BY <1>9 DEF CutReference, Expanding, Looking
  <2> QED BY <2>1, FitsToken
<1>10. CASE StartElement
  BY <1>10, TokenSeen DEF StartElement
<1>11. CASE EndElement
  <2>1. rootSeen \in BOOLEAN
    BY DEF IInv, MemoryBounded, TypeOK
  <2>2. TakeToken("end") /\ rootSeen' = ("end" = "start" \/ rootSeen)
    BY <1>11, <2>1 DEF EndElement
  <2>3. depth' = (IF "end" = "start" THEN depth + 1 ELSE IF "end" = "end" THEN Monus(depth) ELSE depth)
    BY <1>11 DEF EndElement
  <2> QED BY <2>2, <2>3, TokenSeen
<1>12. CASE Misc
  <2>1. rootSeen \in BOOLEAN
    BY DEF IInv, MemoryBounded, TypeOK
  <2>2. TakeToken("misc") /\ rootSeen' = ("misc" = "start" \/ rootSeen)
    BY <1>12, <2>1 DEF Misc
  <2>3. depth' = (IF "misc" = "start" THEN depth + 1 ELSE IF "misc" = "end" THEN Monus(depth) ELSE depth)
    BY <1>12 DEF Misc
  <2> QED BY <2>2, <2>3, TokenSeen
<1>13. CASE EmptyElement
  <2>1. ~AtEnd /\ Here.k = "empty"
    BY <1>13 DEF EmptyElement, TakeToken, Looking
  <2> QED BY <1>0, <2>1, NoEmpty
<1>14. CASE PendingEnd
  BY <1>14 DEF PendingEnd, SaidOK
<1>15. CASE ReadText \/ SegmentText
  BY <1>15, TextSeen
<1>16. CASE SegmentEnd
  <2>1. UNCHANGED <<src, base, pos, depth, rootSeen, outcome>> /\ pc = "next" /\ pc' = "runway"
    BY <1>16 DEF SegmentEnd, Expanding, buffer, Return
  <2> QED BY <2>1, SteadySeen DEF At
<1>17. CASE PushEntity
  BY <1>0, <1>17, PushSeen
<1>18. CASE EntityText
  <2>1. At' = At /\ segment /\ UNCHANGED <<segment, pc>>
    BY <1>18, EntityTextSaid
  <2>2. UNCHANGED <<src, fetched, eof, depth, rootSeen, outcome>> /\ pc = "next"
    BY <1>18, <2>1 DEF EntityText, InEntity, buffer
  <2> QED BY <2>1, <2>2, InsideSeen
<1>19. CASE EntityFlush
  BY <1>19, InText DEF EntityFlush
<1>20. CASE EntityTag
  <2>1. InEntity /\ ~segment /\ entity # NONE
    BY <1>20 DEF EntityTag, InEntity
  <2> QED BY <2>1 DEF SaidOK
<1>21. CASE PopEntity
  <2>1. At' = At
    BY <1>21, PopSaid
  <2>2. UNCHANGED <<src, fetched, eof, depth, rootSeen, outcome, segment, pc>> /\ pc = "next"
    BY <1>21 DEF PopEntity, InEntity, buffer
  <2> QED BY <2>1, <2>2, InsideSeen
<1>22. CASE UNCHANGED vars
  BY <1>22 DEF vars, SeenOK, Since, At
<1> QED
  BY <1>1, <1>2, <1>3, <1>4, <1>5, <1>6, <1>7, <1>8, <1>9, <1>10, <1>11, <1>12, <1>13, <1>14,
     <1>15, <1>16, <1>17, <1>18, <1>19, <1>20, <1>21, <1>22 DEF NextEvent, Advance

LEMMA SInvInit == Init => SInv
<1> SUFFICES ASSUME Init PROVE SInv
  OBVIOUS
<1>1. IInv /\ PlaceOK
  BY InitHolds, Place
<1>2. At = 0
  BY DEF Init, At
<1>3. Told(src)[0] = << >> /\ << >> \in Seq(Items)
  BY <1>1 DEF PlaceOK, Tells
<1>4. SaidOK
  BY <1>2, <1>3 DEF Init, SaidOK
<1>5. Opened(src, 0) = 0 /\ Closed(src, 0) = 0
  <2>1. 1..0 = {}
    OBVIOUS
  <2> QED BY <2>1, FS_EmptySet DEF Opened, Closed
<1>6. SeenOK
  BY <1>2, <1>5 DEF Init, SeenOK
<1> QED BY <1>1, <1>4, <1>6 DEF SInv

LEMMA SInvNext == SInv /\ [NextEvent]_vars => SInv'
<1> SUFFICES ASSUME SInv, [NextEvent]_vars PROVE SInv'
  OBVIOUS
<1>1. IInv /\ IInv' /\ PlaceOK
  BY NextKeeps, Place DEF SInv
<1>2. src' = src
  BY DEF NextEvent, Advance, vars, KeepBuffer, Compact, ReadChunk, ReadFails, Rebind, SkipSpace,
         EndOfBuffer, CutToken, CutReference, Refuse, StartElement, EndElement, EmptyElement, Misc,
         TakeToken, PendingEnd, ReadText, SegmentText, SegmentEnd, PushEntity, EntityText,
         EntityFlush, EntityTag, PopEntity
<1>3. ASSUME StaysPut(src) PROVE SaidOK'
  BY <1>1, <1>3, SaidStep DEF SInv
<1>4. ASSUME Fits(src) PROVE SeenOK'
  BY <1>1, <1>4, SeenStep DEF SInv, Fits
<1> QED BY <1>1, <1>2, <1>3, <1>4 DEF SInv

LEMMA SInvSays == SInv => SameAsWhole
<1> SUFFICES ASSUME SInv PROVE SameAsWhole
  OBVIOUS
<1>1. IInv /\ PlaceOK
  BY Place DEF SInv
<1>2. Told(src)[Len(src)] = Expected(src)
  BY <1>1, Flattened DEF PlaceOK, InTokens
<1>3. ASSUME StaysPut(src) PROVE IsPrefix(log, Expected(src))
  <2>1. SaidOK
    BY <1>3 DEF SInv
  <2>2. PICK u \in Seq(Items) : Expected(src) = Told(src)[At] \o u
    BY <1>1, <1>2, ToldGrows DEF PlaceOK
  <2>3. CASE entity = NONE
    <3>1. Expected(src) = log \o u /\ log \in Seq(Items)
      BY <2>1, <2>2, <2>3 DEF SaidOK
    <3> QED BY <3>1, PrefixOfConcat
  <2>4. CASE entity # NONE
    <3>1. log \in Seq(Items) /\ Expected(src) = (log \o Rest) \o u
      BY <2>1, <2>2, <2>4 DEF SaidOK
    <3>2. Rest \in Seq(Items)
      <4>1. entity \in Entity /\ entity.at \in 1..Len(entity.text) + 1
        BY <1>1, <2>4 DEF IInv, MemoryBounded, TypeOK
      <4>2. Len(entity.text) + 1 - entity.at \in Nat /\ entity.t \in Nat
        BY <4>1 DEF Entity
      <4>3. [k |-> "char", t |-> entity.t] \in Items
        BY <4>2 DEF Items
      <4> QED BY <4>2, <4>3 DEF Rest
    <3>3. Expected(src) = log \o (Rest \o u) /\ Rest \o u \in Seq(Items)
      BY <3>1, <3>2, Joining
    <3> QED BY <3>1, <3>3, PrefixOfConcat
  <2> QED BY <2>3, <2>4
<1>4. ASSUME Fits(src) PROVE outcome \in {"reading", "eof", "io"} /\ (outcome = "eof" => log = Expected(src))
  <2>1. SeenOK /\ SaidOK
    BY <1>4 DEF SInv, Fits
  <2>2. outcome = "eof" => At = Len(src) /\ entity = NONE
    BY <2>1 DEF SeenOK, SaidOK
  <2> QED BY <1>2, <2>1, <2>2 DEF SeenOK, SaidOK
<1> QED BY <1>3, <1>4 DEF SameAsWhole

(* However the input arrives: what is handed out is a beginning of what    *)
(* the whole document says, and where every stretch fits, all of it.       *)
THEOREM EventsAreTheWhole == Spec => []SameAsWhole
<1>1. Init => SInv
  BY SInvInit
<1>2. SInv /\ [NextEvent]_vars => SInv'
  BY SInvNext
<1>3. SInv => SameAsWhole
  BY SInvSays
<1> QED BY <1>1, <1>2, <1>3, PTL DEF Spec
=============================================================================
