------------------------- MODULE XsltContext_proofs -------------------------
(***************************************************************************)
(* That the execution state of a stylesheet is put back, proved for every  *)
(* stylesheet, nesting and number of errors.                               *)
(*                                                                         *)
(* The invariant relates every activation on the call stack to the one     *)
(* below it: what it saved is what the bodies of that one are to see, and  *)
(* what it does not save it leaves to them as they are.  Its operators     *)
(* have the stack, the context, the frames, the lost fields and `raised'   *)
(* as parameters; a step is one or two of three effects on these: an       *)
(* activation is pushed, popped, or changed.                               *)
(***************************************************************************)
EXTENDS XsltContext, FiniteSetTheorems, WellFoundedInduction, SequenceTheorems, TLAPS

Kept   == {"current", "rule", "group", "tunnel"}
Kinds  == Simple \cup Templates \cup {"params", "body", "completion", "catch"}
Frames == Seq(Values \cup {None, Global})

IsContext(c) == DOMAIN c = Kept \cup {"depth", "open"}
IsMine(m)    == DOMAIN m = Kept \cup {"var", "own"} /\ m.own \in BOOLEAN
IsActivation(a) ==
  /\ DOMAIN a = {"kind", "saved", "frames", "lost", "mine"}
  /\ a.kind \in Kinds /\ IsContext(a.saved) /\ a.frames \in Frames
  /\ a.lost \subseteq Kept \cup {"var"} /\ IsMine(a.mine)

TypeOK(s, c, fs, l) ==
  /\ s \in Seq(Range(s)) /\ \A i \in 1..Len(s) : IsActivation(s[i])
  /\ IsContext(c) /\ fs \in Frames /\ l \subseteq Kept \cup {"var"}

(* A template is run by the activation below its own.                       *)
InTemplateBody(s, i) == s[i].kind \in {"params", "body"}
ShapeOK(s) ==
  /\ s # <<>> => s[1].kind = "apply"
  /\ \A i \in 2..Len(s) : InTemplateBody(s, i) <=> s[i - 1].kind \in Templates

(* What activation a, above b, saved is b's, but for what was lost before;  *)
(* what it does not save is the same in both, but for the rule of a         *)
(* template, which the instruction below puts back.                         *)
SavedOK(b, a) ==
  /\ \A f \in Kept \cap Saved(a.kind) : f \notin a.lost => a.saved[f] = b.mine[f]
  /\ \A f \in Kept \ Saved(a.kind) :
       \/ f = "rule" /\ a.kind \in {"params", "body"} /\ b.kind # "call"
       \/ a.mine[f] = b.mine[f]

(* The context c is what the bodies of a are to see, but for what is lost.  *)
ContextOK(a, c, l) ==
  \A f \in Kept \ l : c[f] = a.mine[f] \/ (f = "rule" /\ a.kind \in Templates \ {"call"})

LookupIn(fs) == LET bound == {i \in DOMAIN fs : fs[i] # None} IN fs[Max(bound)]

(* The frames above which a's own begin, and a's with them.                 *)
Base(a) == IF a.kind = "attributes" THEN 1
           ELSE IF a.kind \in Framed THEN Len(a.frames) + 1 ELSE Len(a.frames)
Fits(a, fs) ==
  /\ Len(fs) = Base(a)
  /\ a.kind # "attributes" => \A k \in 1..Len(fs) - 1 : fs[k] = a.frames[k]
Bound(fs) == Len(fs) > 0 /\ fs[1] # None

(* No frame is ever missing; unless one is left over, the frames are those  *)
(* that a began with and its own, and v is what a's body declared.          *)
FramesOK(a, fs, l) ==
  /\ Bound(fs) /\ Len(fs) >= Base(a)
  /\ a.kind \notin {"params", "body", "attributes"} /\ "var" \in a.lost => "var" \in l
  /\ "var" \notin l => Fits(a, fs) /\ (a.mine.own => LookupIn(fs) = a.mine.var)

(* The template calls counted, and the elements open since the last tree,   *)
(* up to activation k.                                                      *)
CountedAt(s, k) == {i \in 2..k : InTemplateBody(s, i) /\ s[i - 1].kind \in Counted}
OpenedAt(s, k) ==
  {i \in 1..k : s[i].kind = "element" /\ \A j \in i..k : s[j].kind \notin {"tree", "try"}}
DepthAt(s, k) == Cardinality(CountedAt(s, k))
OpenAt(s, k)  == Cardinality(OpenedAt(s, k))

LevelOK(s, i) ==
  /\ "depth" \in Saved(s[i].kind) => s[i].saved.depth = DepthAt(s, i - 1)
  /\ "open" \in Saved(s[i].kind) => s[i].saved.open = OpenAt(s, i - 1)
  /\ i > 1 => SavedOK(s[i - 1], s[i]) /\ FramesOK(s[i - 1], s[i].frames, s[i].lost)

TopOK(a, n, s, c, fs, l, r) ==
  /\ ContextOK(a, c, l) /\ FramesOK(a, fs, l)
  /\ a.kind \notin Counted => c.depth = DepthAt(s, n)
  /\ ~r => c.open = OpenAt(s, n)

Good(s, c, fs, l, r) ==
  /\ TypeOK(s, c, fs, l) /\ ShapeOK(s)
  /\ \A i \in 1..Len(s) : LevelOK(s, i)
  /\ s # <<>> => TopOK(s[Len(s)], Len(s), s, c, fs, l, r)

IInv == Good(stack, context, frames, lost, raised) /\ raised \in BOOLEAN

-----------------------------------------------------------------------------
(* The counts go up by what is pushed, and depend on the kinds alone.       *)
LEMMA DepthGrows ==
  ASSUME NEW s, NEW k \in Nat, k >= 1
  PROVE  /\ DepthAt(s, k) \in Nat /\ DepthAt(s, k - 1) \in Nat
         /\ DepthAt(s, k) = DepthAt(s, k - 1)
              + (IF k > 1 /\ InTemplateBody(s, k) /\ s[k - 1].kind \in Counted THEN 1 ELSE 0)
<1>1. \A m \in Nat : IsFiniteSet(CountedAt(s, m)) /\ Cardinality(CountedAt(s, m)) \in Nat
  <2> TAKE m \in Nat
  <2>1. IsFiniteSet(2..m)  BY FS_Interval
  <2>2. CountedAt(s, m) \in SUBSET (2..m)  BY DEF CountedAt
  <2>3. IsFiniteSet(CountedAt(s, m))  BY <2>1, <2>2, FS_Subset
  <2>4. QED  BY <2>3, FS_CardinalityType
<1>2. k - 1 \in Nat  OBVIOUS
<1>3. CASE k > 1 /\ InTemplateBody(s, k) /\ s[k - 1].kind \in Counted
  <2>1. CountedAt(s, k) = CountedAt(s, k - 1) \cup {k} /\ k \notin CountedAt(s, k - 1)
    BY <1>3 DEF CountedAt
  <2>2. Cardinality(CountedAt(s, k)) = Cardinality(CountedAt(s, k - 1)) + 1
    BY <1>1, <1>2, <2>1, FS_AddElement
  <2>3. QED  BY <1>1, <1>2, <1>3, <2>2 DEF DepthAt
<1>4. CASE ~(k > 1 /\ InTemplateBody(s, k) /\ s[k - 1].kind \in Counted)
  <2>1. CountedAt(s, k) = CountedAt(s, k - 1)
    BY <1>4 DEF CountedAt
  <2>2. DepthAt(s, k) = DepthAt(s, k - 1) /\ DepthAt(s, k) \in Nat  BY <1>1, <2>1 DEF DepthAt
  <2>3. QED  BY <1>4, <2>2
<1>5. QED  BY <1>3, <1>4

(* The count of elements that receive attributes, one activation up.        *)
LEMMA OpenGrows ==
  ASSUME NEW s, NEW k \in Nat, k >= 1
  PROVE  /\ OpenAt(s, k) \in Nat /\ OpenAt(s, k - 1) \in Nat
         /\ OpenAt(s, k) = IF s[k].kind \in {"tree", "try"} THEN 0
                           ELSE OpenAt(s, k - 1) + (IF s[k].kind = "element" THEN 1 ELSE 0)
<1>1. \A m \in Nat : IsFiniteSet(OpenedAt(s, m)) /\ Cardinality(OpenedAt(s, m)) \in Nat
  <2> TAKE m \in Nat
  <2>1. IsFiniteSet(1..m)  BY FS_Interval
  <2>2. OpenedAt(s, m) \in SUBSET (1..m)  BY DEF OpenedAt
  <2>3. IsFiniteSet(OpenedAt(s, m))  BY <2>1, <2>2, FS_Subset
  <2>4. QED  BY <2>3, FS_CardinalityType
<1>2. k - 1 \in Nat  OBVIOUS
<1>3. CASE s[k].kind \in {"tree", "try"}
  <2>1. OpenedAt(s, k) = {}
    BY <1>3 DEF OpenedAt
  <2>2. QED  BY <1>1, <1>2, <1>3, <2>1, FS_EmptySet DEF OpenAt
<1>4. CASE s[k].kind = "element"
  <2>1. OpenedAt(s, k) = OpenedAt(s, k - 1) \cup {k} /\ k \notin OpenedAt(s, k - 1)
    BY <1>4 DEF OpenedAt
  <2>2. Cardinality(OpenedAt(s, k)) = Cardinality(OpenedAt(s, k - 1)) + 1
    BY <1>1, <1>2, <2>1, FS_AddElement
  <2>3. QED  BY <1>1, <1>2, <1>4, <2>2 DEF OpenAt
<1>5. CASE s[k].kind \notin {"tree", "try", "element"}
  <2>1. OpenedAt(s, k) = OpenedAt(s, k - 1)
    BY <1>5 DEF OpenedAt
  <2>2. OpenAt(s, k) = OpenAt(s, k - 1) /\ OpenAt(s, k) \in Nat  BY <1>1, <2>1 DEF OpenAt
  <2>3. QED  BY <1>5, <2>2
<1>6. QED  BY <1>3, <1>4, <1>5

Alike(a, b) ==
  \/ a.kind = b.kind
  \/ {a.kind, b.kind} \subseteq {"params", "body"}
  \/ {a.kind, b.kind} \subseteq {"iterate", "completion"}

(* Stacks with the same kinds have the same counts.                         *)
LEMMA CountsAgree ==
  ASSUME NEW s, NEW t, NEW k \in Nat, \A i \in 1..k : Alike(s[i], t[i])
  PROVE  DepthAt(s, k) = DepthAt(t, k) /\ OpenAt(s, k) = OpenAt(t, k)
<1>1. \A i \in 1..k : /\ InTemplateBody(s, i) <=> InTemplateBody(t, i)
                      /\ s[i].kind \in Counted <=> t[i].kind \in Counted
                      /\ s[i].kind = "element" <=> t[i].kind = "element"
                      /\ s[i].kind \in {"tree", "try"} <=> t[i].kind \in {"tree", "try"}
  BY DEF Alike, InTemplateBody, Counted, Templates
<1>2. CountedAt(s, k) = CountedAt(t, k)
  BY <1>1 DEF CountedAt
<1>3. OpenedAt(s, k) = OpenedAt(t, k)
  BY <1>1 DEF OpenedAt
<1>4. QED  BY <1>2, <1>3 DEF DepthAt, OpenAt

(* A level is right whatever lies above it: it reads its prefix alone.      *)
LEMMA LevelAgrees ==
  ASSUME NEW s, NEW t, NEW i \in Nat, i >= 1, \A j \in 1..i : t[j] = s[j], LevelOK(s, i)
  PROVE  LevelOK(t, i)
<1>1. i - 1 \in Nat /\ \A j \in 1..i - 1 : Alike(s[j], t[j])
  BY DEF Alike
<1>2. DepthAt(s, i - 1) = DepthAt(t, i - 1) /\ OpenAt(s, i - 1) = OpenAt(t, i - 1)
  BY <1>1, CountsAgree
<1>3. t[i] = s[i] /\ (i > 1 => t[i - 1] = s[i - 1])
  OBVIOUS
<1>4. QED  BY <1>2, <1>3 DEF LevelOK

-----------------------------------------------------------------------------
(* The innermost frame that binds v.                                        *)
LEMMA LookupIs ==
  ASSUME NEW fs \in Frames, NEW k \in 1..Len(fs), fs[k] # None,
         \A j \in k + 1..Len(fs) : fs[j] = None
  PROVE  LookupIn(fs) = fs[k]
<1> DEFINE B == {i \in DOMAIN fs : fs[i] # None}
<1>1. DOMAIN fs = 1..Len(fs) /\ Len(fs) \in Nat  BY DEF Frames
<1>2. k \in B /\ \A j \in B : j \in Int /\ k >= j  BY <1>1
<1>3. Max(B) = k
  <2>1. Max(B) \in B /\ \A j \in B : Max(B) >= j  BY <1>2 DEF Max
  <2>2. Max(B) \in Int /\ Max(B) >= k /\ k >= Max(B)  BY <1>2, <2>1
  <2>3. QED  BY <2>2
<1>4. QED  BY <1>3 DEF LookupIn

(* A nonempty set of numbers bounded by n has a greatest member.            *)
LEMMA GreatestOf ==
  ASSUME NEW n \in Nat, NEW S, S \subseteq 1..n, S # {}
  PROVE  Max(S) \in S /\ \A i \in S : i <= Max(S)
<1> DEFINE T == {m \in 0..n - 1 : n - m \in S}
<1>1. T \subseteq Nat /\ T # {}
  <2>1. PICK i \in S : i \in 1..n  OBVIOUS
  <2>2. PICK m \in 0..n - 1 : m = n - i /\ n - m = i  BY <2>1
  <2>3. m \in T  BY <2>1, <2>2
  <2>4. T \subseteq Nat  BY SMT
  <2> HIDE DEF T
  <2>5. QED  BY <2>3, <2>4
<1>2. PICK m \in T : \A j \in T : ~(<<j, m>> \in OpToRel(<, Nat))
  <2>1. IsWellFoundedOn(OpToRel(<, Nat), Nat)  BY NatLessThanWellFounded
  <2> HIDE DEF T
  <2>2. QED  BY <1>1, <2>1, WFMin
<1>3. \A j \in T : ~(j < m)  BY <1>1, <1>2 DEF OpToRel
<1>4. m \in 0..n - 1 /\ n - m \in S  BY <1>2
<1>5. ASSUME NEW i \in S  PROVE i <= n - m /\ n - m >= i
  <2>1. i \in 1..n  OBVIOUS
  <2>2. PICK j \in 0..n - 1 : j = n - i /\ n - j = i  BY <2>1
  <2>3. j \in T  BY <1>5, <2>2
  <2>4. ~(j < m)  BY <1>3, <2>3
  <2>5. QED  BY <1>4, <2>1, <2>2, <2>4
<1>6. Max(S) \in S /\ \A i \in S : Max(S) >= i  BY <1>4, <1>5 DEF Max
<1>7. QED  BY <1>6

(* Where a frame binds, one of those that do is the innermost.              *)
LEMMA LookupFinds ==
  ASSUME NEW fs \in Frames, Bound(fs)
  PROVE  \E k \in 1..Len(fs) : fs[k] # None /\ \A j \in k + 1..Len(fs) : fs[j] = None
<1> PICK n \in Nat : n = Len(fs)  BY DEF Frames
<1> PICK B : B = {i \in 1..n : fs[i] # None}  OBVIOUS
<1> PICK k : k = Max(B)  OBVIOUS
<1>1. 1 \in B  BY DEF Bound
<1>2. k \in B /\ \A i \in B : i <= k  BY <1>1, GreatestOf
<1>3. ASSUME NEW j \in k + 1..n  PROVE fs[j] = None
  <2>1. k \in 1..n /\ j \in 1..n /\ ~(j <= k)  BY <1>2
  <2>2. QED  BY <1>2, <2>1
<1>4. QED  BY <1>2, <1>3

(* A frame that binds nothing changes nothing.                              *)
LEMMA LookupBeyond ==
  ASSUME NEW fs \in Frames, NEW gs \in Frames, Bound(fs), Len(gs) = Len(fs) + 1,
         \A k \in 1..Len(fs) : gs[k] = fs[k], gs[Len(gs)] = None
  PROVE  LookupIn(gs) = LookupIn(fs)
<1>1. Len(fs) \in Nat /\ Len(gs) \in Nat  BY DEF Frames
<1>2. PICK k \in 1..Len(fs) : fs[k] # None /\ \A j \in k + 1..Len(fs) : fs[j] = None
  BY LookupFinds
<1>3. LookupIn(fs) = fs[k]  BY <1>2, LookupIs
<1>4. /\ k \in 1..Len(gs) /\ gs[k] # None /\ gs[k] = fs[k]
      /\ \A j \in k + 1..Len(gs) : gs[j] = None
  BY <1>1, <1>2
<1>5. LookupIn(gs) = gs[k]  BY <1>4, LookupIs
<1>6. QED  BY <1>3, <1>4, <1>5

-----------------------------------------------------------------------------
(* The three effects on the stack.                                          *)
LEMMA Appended ==
  ASSUME NEW s, NEW a, s \in Seq(Range(s))
  PROVE  /\ Append(s, a) \in Seq(Range(Append(s, a))) /\ Append(s, a) # <<>>
         /\ Len(s) \in Nat /\ Len(Append(s, a)) = Len(s) + 1 /\ Append(s, a)[Len(s) + 1] = a
         /\ \A i \in 1..Len(s) : Append(s, a)[i] = s[i]
<1> DEFINE S == Range(s) \cup {a}
<1> PICK t : t = Append(s, a)  OBVIOUS
<1>1. s \in Seq(S) /\ a \in S  OBVIOUS
<1> HIDE DEF S
<1>2. t \in Seq(S) /\ Len(s) \in Nat /\ Len(t) = Len(s) + 1 /\ t[Len(s) + 1] = a
      /\ \A i \in 1..Len(s) : t[i] = s[i]
  BY <1>1
<1>3. \A i \in 1..Len(t) : t[i] \in Range(t)  BY <1>2 DEF Range
<1>4. t \in Seq(Range(t)) /\ t # <<>>  BY <1>2, <1>3
<1>5. QED  BY <1>2, <1>4

CanPush(s, n, a, c, fs, l, r) ==
  LET b == s[n] IN
  /\ IsActivation(a) /\ IsContext(c) /\ fs \in Frames /\ l \subseteq Kept \cup {"var"}
  /\ a.kind \in {"params", "body"} <=> b.kind \in Templates
  /\ "depth" \in Saved(a.kind) => a.saved.depth = DepthAt(s, n)
  /\ "open" \in Saved(a.kind) => a.saved.open = OpenAt(s, n)
  /\ SavedOK(b, a) /\ FramesOK(b, a.frames, a.lost)
  /\ ContextOK(a, c, l) /\ FramesOK(a, fs, l)
  /\ a.kind \notin Counted =>
       c.depth = DepthAt(s, n) + (IF a.kind \in {"params", "body"} /\ b.kind \in Counted THEN 1 ELSE 0)
  /\ ~r => c.open = IF a.kind \in {"tree", "try"} THEN 0
                    ELSE OpenAt(s, n) + (IF a.kind = "element" THEN 1 ELSE 0)

(* Pushing an activation whose saved fields agree with the context.         *)
LEMMA PushGood ==
  ASSUME NEW s, NEW c, NEW fs, NEW l, NEW r, Good(s, c, fs, l, r), s # <<>>,
         NEW a, NEW c2, NEW fs2, NEW l2, NEW r2, CanPush(s, Len(s), a, c2, fs2, l2, r2)
  PROVE  Good(Append(s, a), c2, fs2, l2, r2)
<1> PICK t : t = Append(s, a)  OBVIOUS
<1>0. s \in Seq(Range(s))  BY DEF Good, TypeOK
<1> PICK n \in Nat : n = Len(s)  BY <1>0
<1>1. /\ \A i \in 1..n : IsActivation(s[i])
      /\ ShapeOK(s) /\ \A i \in 1..n : LevelOK(s, i)
  BY DEF Good, TypeOK
<1>2. /\ t \in Seq(Range(t)) /\ t # <<>> /\ Len(t) = n + 1 /\ t[n + 1] = a
      /\ \A i \in 1..n : t[i] = s[i]
  BY <1>0, Appended
<1>3. n >= 1 /\ CanPush(s, n, a, c2, fs2, l2, r2)  BY <1>0
<1>4. TypeOK(t, c2, fs2, l2)
  <2>1. IsActivation(a) /\ IsContext(c2) /\ fs2 \in Frames /\ l2 \subseteq Kept \cup {"var"}
    BY <1>3 DEF CanPush
  <2>2. \A i \in 1..n + 1 : IsActivation(t[i])  BY <1>1, <1>2, <2>1
  <2>3. QED  BY <1>2, <2>1, <2>2 DEF TypeOK
<1>5. ShapeOK(t)
  <2>1. t[1] = s[1] /\ s[1].kind = "apply"  BY <1>1, <1>2, <1>3 DEF ShapeOK
  <2>2. InTemplateBody(t, n + 1) <=> t[n].kind \in Templates
    BY <1>2, <1>3 DEF CanPush, InTemplateBody
  <2>3. ASSUME NEW i \in 2..n  PROVE InTemplateBody(t, i) <=> t[i - 1].kind \in Templates
    <3>1. t[i] = s[i] /\ t[i - 1] = s[i - 1]  BY <1>2
    <3>2. InTemplateBody(s, i) <=> s[i - 1].kind \in Templates  BY <1>1 DEF ShapeOK
    <3>3. QED  BY <3>1, <3>2 DEF InTemplateBody
  <2>4. \A i \in 2..n + 1 : i = n + 1 \/ i \in 2..n  OBVIOUS
  <2>5. \A i \in 2..Len(t) : InTemplateBody(t, i) <=> t[i - 1].kind \in Templates
    BY <1>2, <2>2, <2>3, <2>4
  <2>6. QED  BY <2>1, <2>5 DEF ShapeOK
<1>6. DepthAt(t, n) = DepthAt(s, n) /\ OpenAt(t, n) = OpenAt(s, n)
  <2>1. \A i \in 1..n : Alike(t[i], s[i])  BY <1>2 DEF Alike
  <2>2. QED  BY <2>1, CountsAgree
<1>7. LevelOK(t, n + 1)
  BY <1>2, <1>3, <1>6 DEF LevelOK, CanPush
<1>8. ASSUME NEW i \in 1..n  PROVE LevelOK(t, i)
  <2>1. i \in Nat /\ i >= 1 /\ LevelOK(s, i) /\ \A j \in 1..i : t[j] = s[j]  BY <1>1, <1>2
  <2>2. QED  BY <2>1, LevelAgrees
<1>9. /\ DepthAt(t, n + 1) = DepthAt(t, n)
           + (IF a.kind \in {"params", "body"} /\ s[n].kind \in Counted THEN 1 ELSE 0)
      /\ OpenAt(t, n + 1) = IF a.kind \in {"tree", "try"} THEN 0
                            ELSE OpenAt(t, n) + (IF a.kind = "element" THEN 1 ELSE 0)
  <2> PICK k \in Nat : k = n + 1  OBVIOUS
  <2>1. k >= 1 /\ k - 1 = n /\ k > 1  BY <1>3
  <2>2. DepthAt(t, k) = DepthAt(t, k - 1)
          + (IF k > 1 /\ InTemplateBody(t, k) /\ t[k - 1].kind \in Counted THEN 1 ELSE 0)
    BY <2>1, DepthGrows
  <2>3. OpenAt(t, k) = IF t[k].kind \in {"tree", "try"} THEN 0
                       ELSE OpenAt(t, k - 1) + (IF t[k].kind = "element" THEN 1 ELSE 0)
    BY <2>1, OpenGrows
  <2>4. t[n] = s[n] /\ t[k] = a  BY <1>2, <1>3
  <2>5. QED  BY <2>1, <2>2, <2>3, <2>4 DEF InTemplateBody
<1>10. TopOK(a, n + 1, t, c2, fs2, l2, r2)
  BY <1>3, <1>6, <1>9 DEF TopOK, CanPush
<1>11. \A i \in 1..n + 1 : LevelOK(t, i)
  <2>1. \A i \in 1..n + 1 : i = n + 1 \/ i \in 1..n  OBVIOUS
  <2>2. QED  BY <1>7, <1>8, <2>1
<1>12. QED
  BY <1>2, <1>4, <1>5, <1>10, <1>11 DEF Good

CanChange(s, n, a, c, fs, l) ==
  LET b == s[n] IN
  /\ IsActivation(a) /\ IsContext(c) /\ fs \in Frames /\ l \subseteq Kept \cup {"var"}
  /\ Alike(b, a) /\ a.saved = b.saved /\ a.frames = b.frames /\ a.lost = b.lost
  /\ n > 1 => SavedOK(s[n - 1], a)
  /\ ContextOK(a, c, l) /\ FramesOK(a, fs, l)

(* Changing the innermost activation without changing the counts.           *)
LEMMA ChangeGood ==
  ASSUME NEW s, NEW c, NEW fs, NEW l, NEW r, Good(s, c, fs, l, r), s # <<>>,
         NEW a, NEW c2, NEW fs2, NEW l2, CanChange(s, Len(s), a, c2, fs2, l2),
         c2.depth = c.depth, c2.open = c.open
  PROVE  Good([s EXCEPT ![Len(s)] = a], c2, fs2, l2, r)
<1> PICK t : t = [s EXCEPT ![Len(s)] = a]  OBVIOUS
<1>0. s \in Seq(Range(s))  BY DEF Good, TypeOK
<1> PICK n \in Nat : n = Len(s)  BY <1>0
<1>1. /\ \A i \in 1..n : IsActivation(s[i])
      /\ ShapeOK(s) /\ \A i \in 1..n : LevelOK(s, i)
      /\ TopOK(s[n], n, s, c, fs, l, r)
  BY DEF Good, TypeOK
<1>2. n >= 1 /\ DOMAIN s = 1..n /\ CanChange(s, n, a, c2, fs2, l2)  BY <1>0
<1>3. DOMAIN t = 1..n /\ t[n] = a /\ \A i \in 1..n : i # n => t[i] = s[i]  BY <1>2
<1>4. t \in Seq(Range(t)) /\ Len(t) = n /\ t # <<>>
  <2> PICK S : S = Range(t)  OBVIOUS
  <2>1. t \in [1..n -> S]  BY <1>3 DEF Range
  <2>2. t \in Seq(Range(t))
    <3>1. t \in Seq(S)  BY ONLY n \in Nat, <2>1, SeqDef
    <3>2. QED  BY <3>1
  <2>3. Len(t) = n  BY <1>3, <2>2
  <2>4. QED  BY <1>2, <2>2, <2>3
<1>5. TypeOK(t, c2, fs2, l2)
  <2>1. IsActivation(a) /\ IsContext(c2) /\ fs2 \in Frames /\ l2 \subseteq Kept \cup {"var"}
    BY <1>2 DEF CanChange
  <2>2. \A i \in 1..n : IsActivation(t[i])  BY <1>1, <1>3, <2>1
  <2>3. QED  BY <1>4, <2>1, <2>2 DEF TypeOK
<1>6. \A i \in 1..n : Alike(t[i], s[i])  BY <1>2, <1>3 DEF Alike, CanChange
<1>7. \A i \in 1..n : /\ InTemplateBody(t, i) <=> InTemplateBody(s, i)
                      /\ t[i].kind \in Templates <=> s[i].kind \in Templates
                      /\ s[i].kind = "apply" => t[i].kind = "apply"
  BY <1>6 DEF Alike, InTemplateBody, Templates
<1>8. ShapeOK(t)
  <2>1. t[1].kind = "apply"  BY <1>0, <1>1, <1>2, <1>7 DEF ShapeOK
  <2>2. ASSUME NEW i \in 2..n  PROVE InTemplateBody(t, i) <=> t[i - 1].kind \in Templates
    <3>1. i \in 1..n /\ i - 1 \in 1..n  OBVIOUS
    <3>2. InTemplateBody(s, i) <=> s[i - 1].kind \in Templates  BY <1>1 DEF ShapeOK
    <3>3. QED  BY <1>7, <3>1, <3>2
  <2>3. QED  BY <1>4, <2>1, <2>2 DEF ShapeOK
<1>9. ASSUME NEW k \in Nat, k <= n  PROVE DepthAt(t, k) = DepthAt(s, k) /\ OpenAt(t, k) = OpenAt(s, k)
  <2>1. \A i \in 1..k : Alike(t[i], s[i])  BY <1>6, <1>9
  <2>2. QED  BY <2>1, CountsAgree
<1>10. LevelOK(t, n)
  <2>1. a.saved = s[n].saved /\ a.frames = s[n].frames /\ a.lost = s[n].lost /\ Alike(s[n], a)
        /\ (n > 1 => SavedOK(s[n - 1], a))
    BY <1>2 DEF CanChange
  <2>2. ("depth" \in Saved(a.kind) => "depth" \in Saved(s[n].kind))
        /\ ("open" \in Saved(a.kind) => "open" \in Saved(s[n].kind))
    BY <2>1 DEF Alike, Saved, Assigned
  <2>3. DepthAt(t, n - 1) = DepthAt(s, n - 1) /\ OpenAt(t, n - 1) = OpenAt(s, n - 1)
    <3>1. n - 1 \in Nat /\ n - 1 <= n  BY <1>2
    <3>2. QED  BY <1>9, <3>1
  <2>4. n > 1 => t[n - 1] = s[n - 1]
    <3>1. n > 1 => n - 1 \in 1..n /\ n - 1 # n  OBVIOUS
    <3>2. QED  BY <1>3, <3>1
  <2>5. LevelOK(s, n)  BY <1>1, <1>2
  <2>6. QED  BY <1>3, <2>1, <2>2, <2>3, <2>4, <2>5 DEF LevelOK
<1>11. ASSUME NEW i \in 1..n, i # n  PROVE LevelOK(t, i)
  <2>1. LevelOK(s, i) /\ i \in Nat /\ i >= 1  BY <1>1
  <2>2. \A j \in 1..i : t[j] = s[j]
    <3>1. \A j \in 1..i : j \in 1..n /\ j # n  BY <1>11
    <3>2. QED  BY <1>3, <3>1
  <2>3. QED  BY <2>1, <2>2, LevelAgrees
<1>12. TopOK(a, n, t, c2, fs2, l2, r)
  <2> PICK k \in Nat : k = n  OBVIOUS
  <2>0. k <= n  OBVIOUS
  <2>1. DepthAt(t, n) = DepthAt(s, n) /\ OpenAt(t, n) = OpenAt(s, n)  BY <1>9, <2>0
  <2>2. a.kind \notin Counted <=> s[n].kind \notin Counted
    BY <1>2 DEF Alike, Counted, Templates, CanChange
  <2>3. ContextOK(a, c2, l2) /\ FramesOK(a, fs2, l2)  BY <1>2 DEF CanChange
  <2>4. QED  BY <1>1, <2>1, <2>2, <2>3 DEF TopOK
<1>13. \A i \in 1..n : LevelOK(t, i)  BY <1>10, <1>11
<1>14. QED
  BY <1>3, <1>4, <1>5, <1>8, <1>12, <1>13 DEF Good

(* The sequence without its last element.                                   *)
LEMMA FrontIs ==
  ASSUME NEW S, NEW s \in Seq(S), s # <<>>
  PROVE  /\ Front(s) \in Seq(S) /\ Len(s) \in Nat /\ Len(s) > 0 /\ Len(Front(s)) = Len(s) - 1
         /\ \A k \in 1..Len(s) - 1 : Front(s)[k] = s[k]
<1> PICK n \in Nat : n = Len(s)  OBVIOUS
<1>1. n > 0 /\ 1 \in Int /\ n - 1 \in Int /\ \A i \in 1..n - 1 : s[i] \in S  OBVIOUS
<1> PICK t : t = SubSeq(s, 1, n - 1)  OBVIOUS
<1>2. t \in Seq(S) /\ Len(t) = n - 1 /\ \A k \in 1..n - 1 : t[k] = s[k]
  BY <1>1, SubSeqProperties
<1>3. QED  BY <1>1, <1>2 DEF Front

(* The activation below the one that ends, of which a declaration made in   *)
(* the one that ends may have changed v.                                    *)
Uncovers(b2, b, kept) ==
  /\ IsActivation(b2) /\ b2.kind = b.kind
  /\ b2.saved = b.saved /\ b2.frames = b.frames /\ b2.lost = b.lost
  /\ \A f \in Kept \cup {"var"} : b2.mine[f] = b.mine[f]
  /\ b2.mine.own => b.mine.own /\ kept

KeepsFrame(a, fs) == a.kind \in Framed \cup {"attributes"} \/ Last(fs) = Last(a.frames)
FramesLeft(a, fs, closed) ==
  IF a.kind = "attributes" THEN a.frames ELSE IF a.kind \in Framed /\ closed THEN Front(fs) ELSE fs

(* The frames that are left when an activation is popped.                   *)
LEMMA PopFrames ==
  ASSUME NEW a, NEW b, NEW b2, NEW fs \in Frames, NEW l, NEW l2, NEW closed \in BOOLEAN,
         IsActivation(a), FramesOK(a, fs, l), FramesOK(b, a.frames, a.lost),
         Uncovers(b2, b, KeepsFrame(a, fs)),
         "var" \in l \cup a.lost => "var" \in l2,
         a.kind \in Framed /\ ~closed => "var" \in l2
  PROVE  FramesLeft(a, fs, closed) \in Frames /\ FramesOK(b2, FramesLeft(a, fs, closed), l2)
<1> PICK gs : gs = FramesLeft(a, fs, closed)  OBVIOUS
<1> PICK as : as = a.frames  OBVIOUS
<1>1. as \in Frames /\ Len(as) \in Nat /\ Len(fs) \in Nat  BY DEF IsActivation, Frames
<1>2. Base(b2) = Base(b) /\ b2.kind = b.kind /\ b2.lost = b.lost /\ b2.frames = b.frames
      /\ b2.mine.var = b.mine.var
  BY DEF Uncovers, Base
<1>3. Bound(as) /\ Len(as) >= Base(b) /\ Bound(fs) /\ Len(fs) >= Base(a)  BY DEF FramesOK
<1>4. b2.kind \notin {"params", "body", "attributes"} /\ "var" \in b2.lost => "var" \in l2
  BY <1>2 DEF FramesOK
<1>5. ASSUME "var" \notin l2
      PROVE  /\ Fits(b, as) /\ Fits(a, fs)
             /\ b.mine.own => LookupIn(as) = b.mine.var
  BY <1>5 DEF FramesOK
<1>6. ASSUME gs \in Frames, Bound(gs), Len(gs) >= Len(as),
             "var" \notin l2 => Fits(b, gs) /\ (b2.mine.own => gs = as)
      PROVE  FramesOK(b2, gs, l2)
  <2>1. Len(gs) >= Base(b2)
    <3>1. Len(gs) \in Nat /\ Base(b) \in Nat
      <4>1. Base(b2) \in Nat  BY DEF Uncovers, IsActivation, Base, Frames
      <4>2. QED  BY <1>2, <1>6, <4>1 DEF Frames
    <3>2. QED  BY <1>1, <1>2, <1>3, <1>6, <3>1
  <2>2. ASSUME "var" \notin l2  PROVE Fits(b2, gs) /\ (b2.mine.own => LookupIn(gs) = b2.mine.var)
    <3>1. Fits(b2, gs)  BY <1>2, <1>6, <2>2 DEF Fits
    <3>2. ASSUME b2.mine.own  PROVE LookupIn(gs) = b2.mine.var
      <4>1. gs = as /\ b.mine.own  BY <1>6, <2>2, <3>2 DEF Uncovers
      <4>2. QED  BY <1>2, <1>5, <2>2, <4>1
    <3>3. QED  BY <3>1, <3>2
  <2>3. QED  BY <1>4, <1>6, <2>1, <2>2 DEF FramesOK
<1>7. CASE a.kind = "attributes"
  <2>1. gs = as  BY <1>7 DEF FramesLeft
  <2>2. QED  BY <1>1, <1>3, <1>5, <1>6, <2>1
<1>8. CASE a.kind \in Framed /\ closed
  <2>1. a.kind # "attributes"  BY <1>8 DEF Framed
  <2>2. gs = Front(fs) /\ Base(a) = Len(as) + 1  BY <1>8, <2>1 DEF FramesLeft, Base
  <2>3. gs \in Frames /\ Len(gs) = Len(fs) - 1 /\ \A k \in 1..Len(fs) - 1 : gs[k] = fs[k]
    <3>1. fs # <<>>  BY <1>1, <1>3 DEF Bound
    <3>2. QED  BY <2>2, <3>1, FrontIs DEF Frames
  <2>4. Len(gs) >= Len(as) /\ Bound(gs)
    BY <1>1, <1>3, <2>2, <2>3 DEF Bound
  <2>5. ASSUME "var" \notin l2  PROVE gs = as
    <3>1. Len(fs) = Len(as) + 1 /\ \A k \in 1..Len(fs) - 1 : fs[k] = as[k]
      BY <1>5, <2>1, <2>2, <2>5 DEF Fits
    <3>2. Len(gs) = Len(as) /\ \A k \in 1..Len(as) : gs[k] = as[k]  BY <1>1, <2>3, <3>1
    <3>3. QED  BY <1>1, <2>3, <3>2 DEF Frames
  <2>6. QED  BY <1>5, <1>6, <2>3, <2>4, <2>5
<1>9. CASE a.kind \in Framed /\ ~closed
  <2>1. a.kind # "attributes"  BY <1>9 DEF Framed
  <2>2. gs = fs /\ Base(a) = Len(as) + 1 /\ "var" \in l2  BY <1>9, <2>1 DEF FramesLeft, Base
  <2>3. QED  BY <1>1, <1>3, <1>6, <2>2
<1>10. CASE a.kind \notin Framed \cup {"attributes"}
  <2>1. gs = fs /\ Base(a) = Len(as)  BY <1>10 DEF FramesLeft, Base
  <2>2. ASSUME "var" \notin l2  PROVE Fits(b, fs) /\ (b2.mine.own => fs = as)
    <3>1. Len(fs) = Len(as) /\ \A k \in 1..Len(fs) - 1 : fs[k] = as[k]
      BY <1>5, <1>10, <2>1, <2>2 DEF Fits
    <3>2. Fits(b, fs)  BY <1>1, <1>5, <2>2, <3>1 DEF Fits
    <3>3. ASSUME b2.mine.own  PROVE fs = as
      <4>1. Last(fs) = Last(as)  BY <1>10, <3>3 DEF Uncovers, KeepsFrame
      <4>2. fs[Len(fs)] = as[Len(as)]  BY <4>1 DEF Last
      <4>3. \A k \in 1..Len(fs) : fs[k] = as[k]
        <5>1. \A k \in 1..Len(fs) : k = Len(fs) \/ k \in 1..Len(fs) - 1  BY <1>1
        <5>2. QED  BY <3>1, <4>2, <5>1
      <4>4. QED  BY <1>1, <3>1, <4>3 DEF Frames
    <3>4. QED  BY <3>2, <3>3
  <2>3. QED  BY <1>1, <1>3, <1>6, <2>1, <2>2
<1>11. QED  BY <1>7, <1>8, <1>9, <1>10

CanPop(s, n, t, c, fs, l, r, F, closed, c2, l2, r2) ==
  LET a == s[n] IN
  /\ t \in Seq(Range(t)) /\ Len(t) = n - 1 /\ \A i \in 1..n - 2 : t[i] = s[i]
  /\ n > 1 => Uncovers(t[n - 1], s[n - 1], KeepsFrame(a, fs))
  /\ F \subseteq Saved(a.kind)
  /\ "depth" \in Saved(a.kind) => "depth" \in F
  /\ ~r2 => IF "open" \in Saved(a.kind) THEN "open" \in F ELSE ~r
  /\ IsContext(c2) /\ \A f \in DOMAIN c : c2[f] = IF f \in F THEN a.saved[f] ELSE c[f]
  /\ l2 \subseteq Kept \cup {"var"} /\ closed \in BOOLEAN
  /\ (l \ F) \cup (a.lost \cap (F \cup {"var"})) \cup ((Kept \cap Saved(a.kind)) \ F) \subseteq l2
  /\ a.kind \in Framed /\ ~closed => "var" \in l2

(* The fields F are put back, and the others of those saved are lost.       *)
PutBack(a, F, c, l, c2, l2) ==
  /\ IsContext(c) /\ \A f \in DOMAIN c : c2[f] = IF f \in F THEN a.saved[f] ELSE c[f]
  /\ F \subseteq Saved(a.kind)
  /\ \A f \in Kept : f \notin l2 => IF f \in F THEN f \notin a.lost
                                  ELSE f \notin l /\ f \notin Saved(a.kind)

(* The context that is left when an activation is popped.                   *)
LEMMA PopContext ==
  ASSUME NEW a, NEW b, NEW b2, NEW c, NEW c2, NEW l, NEW l2, NEW F,
         PutBack(a, F, c, l, c2, l2), SavedOK(b, a), ContextOK(a, c, l),
         a.kind \in {"params", "body"} => b.kind \in Templates,
         b2.kind = b.kind, \A f \in Kept : b2.mine[f] = b.mine[f]
  PROVE  ContextOK(b2, c2, l2)
<1> SUFFICES ASSUME NEW f \in Kept, f \notin l2
             PROVE  c2[f] = b.mine[f] \/ (f = "rule" /\ b.kind \in Templates \ {"call"})
  BY DEF ContextOK
<1>1. f \in DOMAIN c  BY DEF PutBack, IsContext
<1>2. CASE f \in F
  <2>1. f \in Saved(a.kind) /\ f \notin a.lost /\ c2[f] = a.saved[f]  BY <1>1, <1>2 DEF PutBack
  <2>2. a.saved[f] = b.mine[f]  BY <2>1 DEF SavedOK
  <2>3. QED  BY <2>1, <2>2
<1>3. CASE f \notin F
  <2>1. f \notin l /\ f \notin Saved(a.kind) /\ c2[f] = c[f]  BY <1>1, <1>3 DEF PutBack
  <2>2. c[f] = a.mine[f] \/ (f = "rule" /\ a.kind \in Templates \ {"call"})
    BY <2>1 DEF ContextOK
  <2>3. a.kind \in Templates \ {"call"} => "rule" \in Saved(a.kind)
    BY DEF Templates, Saved
  <2>4. \/ f = "rule" /\ a.kind \in {"params", "body"} /\ b.kind # "call"
        \/ a.mine[f] = b.mine[f]
    BY <2>1 DEF SavedOK
  <2>5. QED  BY <2>1, <2>2, <2>3, <2>4
<1>4. QED  BY <1>2, <1>3

(* Popping an activation that restores what it saved.                       *)
LEMMA PopGood ==
  ASSUME NEW s, NEW c, NEW fs, NEW l, NEW r, Good(s, c, fs, l, r), s # <<>>,
         NEW t, NEW F, NEW closed, NEW c2, NEW l2, NEW r2,
         CanPop(s, Len(s), t, c, fs, l, r, F, closed, c2, l2, r2)
  PROVE  Good(t, c2, FramesLeft(s[Len(s)], fs, closed), l2, r2)
<1>0. s \in Seq(Range(s))  BY DEF Good, TypeOK
<1> PICK n \in Nat : n = Len(s)  BY <1>0
<1> PICK a : a = s[n]  OBVIOUS
<1> PICK fs2 : fs2 = FramesLeft(a, fs, closed)  OBVIOUS
<1>1. /\ \A i \in 1..n : IsActivation(s[i])
      /\ ShapeOK(s) /\ \A i \in 1..n : LevelOK(s, i)
      /\ TopOK(a, n, s, c, fs, l, r)
      /\ IsContext(c) /\ fs \in Frames /\ l \subseteq Kept \cup {"var"}
  BY DEF Good, TypeOK
<1>2. n >= 1 /\ CanPop(s, n, t, c, fs, l, r, F, closed, c2, l2, r2)  BY <1>0
<1>3. /\ t \in Seq(Range(t)) /\ Len(t) = n - 1 /\ \A i \in 1..n - 2 : t[i] = s[i]
      /\ IsContext(c2) /\ l2 \subseteq Kept \cup {"var"} /\ closed \in BOOLEAN
  BY <1>2 DEF CanPop
<1>4. IsActivation(a) /\ FramesOK(a, fs, l) /\ ContextOK(a, c, l)
  BY <1>1, <1>2 DEF TopOK
<1>5. CASE n = 1
  <2>1. a.kind = "apply"  BY <1>0, <1>1, <1>5 DEF ShapeOK
  <2>2. fs2 \in Frames  BY <1>1, <2>1 DEF FramesLeft, Framed
  <2>3. t = <<>> /\ Len(t) = 0  BY <1>3, <1>5
  <2>4. TypeOK(t, c2, fs2, l2)
    <3>1. \A i \in 1..Len(t) : IsActivation(t[i])  BY <2>3
    <3>2. QED  BY <1>3, <2>2, <3>1 DEF TypeOK
  <2>5. ShapeOK(t)  BY <2>3 DEF ShapeOK
  <2>6. QED  BY <2>3, <2>4, <2>5 DEF Good
<1>6. CASE n > 1
  <2> PICK m \in Nat : m = n - 1  BY <1>6
  <2> PICK b : b = s[m]  OBVIOUS
  <2> PICK b2 : b2 = t[m]  OBVIOUS
  <2>1. Uncovers(b2, b, KeepsFrame(a, fs))  BY <1>2, <1>6 DEF CanPop
  <2>2. /\ LevelOK(s, n) /\ SavedOK(b, a) /\ FramesOK(b, a.frames, a.lost)
        /\ m >= 1 /\ LevelOK(s, m) /\ IsActivation(b)
    <3>1. LevelOK(s, n) /\ LevelOK(s, m) /\ IsActivation(b)  BY <1>1, <1>6
    <3>2. QED  BY <1>6, <3>1 DEF LevelOK
  <2>3. FramesOK(b2, fs2, l2) /\ fs2 \in Frames
    <3>1. "var" \notin F
      <4>1. F \subseteq Saved(a.kind)  BY <1>2 DEF CanPop
      <4>2. QED  BY <4>1 DEF Saved, Assigned
    <3>2. ("var" \in l \cup a.lost => "var" \in l2) /\ (a.kind \in Framed /\ ~closed => "var" \in l2)
      BY <1>2, <3>1 DEF CanPop
    <3>3. QED  BY <1>1, <1>3, <1>4, <2>1, <2>2, <3>2, PopFrames
  <2>4. ContextOK(b2, c2, l2)
    <3>1. PutBack(a, F, c, l, c2, l2)  BY <1>1, <1>2 DEF CanPop, PutBack
    <3>2. a.kind \in {"params", "body"} => b.kind \in Templates
      BY <1>1, <1>6 DEF ShapeOK, InTemplateBody
    <3>3. b2.kind = b.kind /\ \A f \in Kept : b2.mine[f] = b.mine[f]  BY <2>1 DEF Uncovers, Kept
    <3>4. QED  BY <1>4, <2>2, <3>1, <3>2, <3>3, PopContext
  <2>5. IsActivation(b2)  BY <2>1 DEF Uncovers
  <2>6. TypeOK(t, c2, fs2, l2)
    <3>1. \A i \in 1..m : i = m \/ i \in 1..n - 2  BY <1>6
    <3>2. \A i \in 1..m : IsActivation(t[i])  BY <1>1, <1>3, <2>5, <3>1
    <3>3. QED  BY <1>3, <2>3, <3>2 DEF TypeOK
  <2>7. \A i \in 1..m : t[i].kind = s[i].kind
    <3>1. \A i \in 1..m : i = m \/ i \in 1..n - 2  BY <1>6
    <3>2. b2.kind = b.kind  BY <2>1 DEF Uncovers
    <3>3. QED  BY <1>3, <3>1, <3>2
  <2>8. ShapeOK(t)
    <3>1. t[1].kind = "apply"  BY <1>0, <1>1, <1>2, <2>2, <2>7 DEF ShapeOK
    <3>2. ASSUME NEW i \in 2..m  PROVE InTemplateBody(t, i) <=> t[i - 1].kind \in Templates
      <4>1. i \in 1..m /\ i - 1 \in 1..m /\ i \in 2..n  OBVIOUS
      <4>2. InTemplateBody(s, i) <=> s[i - 1].kind \in Templates  BY <1>1, <4>1 DEF ShapeOK
      <4>3. QED  BY <2>7, <4>1, <4>2 DEF InTemplateBody
    <3>3. QED  BY <1>3, <3>1, <3>2 DEF ShapeOK
  <2>9. ASSUME NEW k \in Nat, k <= m  PROVE DepthAt(t, k) = DepthAt(s, k) /\ OpenAt(t, k) = OpenAt(s, k)
    <3>1. \A i \in 1..k : Alike(t[i], s[i])  BY <2>7, <2>9 DEF Alike
    <3>2. QED  BY <3>1, CountsAgree
  <2>10. ASSUME NEW i \in 1..m - 1  PROVE LevelOK(t, i)
    <3>1. LevelOK(s, i) /\ i \in Nat /\ i >= 1  BY <1>1
    <3>2. \A j \in 1..i : t[j] = s[j]
      <4>1. \A j \in 1..i : j \in 1..n - 2  BY <1>6
      <4>2. QED  BY <1>3, <4>1
    <3>3. QED  BY <3>1, <3>2, LevelAgrees
  <2>11. LevelOK(t, m)
    <3>1. m - 1 \in Nat /\ m - 1 <= m  BY <2>2
    <3>2. DepthAt(t, m - 1) = DepthAt(s, m - 1) /\ OpenAt(t, m - 1) = OpenAt(s, m - 1)
      BY <2>9, <3>1
    <3>3. m > 1 => t[m - 1] = s[m - 1]  BY <1>3
    <3>4. m > 1 => SavedOK(s[m - 1], b) /\ FramesOK(s[m - 1], b.frames, b.lost)
      BY <2>2 DEF LevelOK
    <3>5. m > 1 => SavedOK(s[m - 1], b2) /\ FramesOK(s[m - 1], b2.frames, b2.lost)
      BY <2>1, <3>4 DEF SavedOK, Uncovers
    <3>6. b2.kind = b.kind /\ b2.saved = b.saved  BY <2>1 DEF Uncovers
    <3>7. /\ "depth" \in Saved(b.kind) => b.saved.depth = DepthAt(s, m - 1)
          /\ "open" \in Saved(b.kind) => b.saved.open = OpenAt(s, m - 1)
      BY <2>2 DEF LevelOK
    <3>8. QED  BY <3>2, <3>3, <3>5, <3>6, <3>7 DEF LevelOK
  <2>12. TopOK(b2, m, t, c2, fs2, l2, r2)
    <3> PICK k \in Nat : k = n  OBVIOUS
    <3>0. k >= 1 /\ k - 1 = m /\ k > 1 /\ s[k] = a /\ m <= m  BY <1>6
    <3>1. DepthAt(s, k) = DepthAt(s, k - 1)
            + (IF k > 1 /\ InTemplateBody(s, k) /\ s[k - 1].kind \in Counted THEN 1 ELSE 0)
          /\ DepthAt(s, k - 1) \in Nat
      BY <3>0, DepthGrows
    <3>2. /\ OpenAt(s, k) = IF s[k].kind \in {"tree", "try"} THEN 0
                            ELSE OpenAt(s, k - 1) + (IF s[k].kind = "element" THEN 1 ELSE 0)
          /\ OpenAt(s, k - 1) \in Nat
      BY <3>0, OpenGrows
    <3>3. DepthAt(t, m) = DepthAt(s, m) /\ OpenAt(t, m) = OpenAt(s, m)  BY <2>9, <3>0
    <3>4. /\ "depth" \in Saved(a.kind) => "depth" \in F
          /\ F \subseteq Saved(a.kind)
          /\ ~r2 => IF "open" \in Saved(a.kind) THEN "open" \in F ELSE ~r
          /\ \A f \in DOMAIN c : c2[f] = IF f \in F THEN a.saved[f] ELSE c[f]
      BY <1>2 DEF CanPop
    <3>5. "depth" \in DOMAIN c /\ "open" \in DOMAIN c  BY <1>1 DEF IsContext
    <3>6. /\ "depth" \in Saved(a.kind) => a.saved.depth = DepthAt(s, m)
          /\ "open" \in Saved(a.kind) => a.saved.open = OpenAt(s, m)
      BY <2>2 DEF LevelOK
    <3>7. ASSUME b2.kind \notin Counted  PROVE c2.depth = DepthAt(t, m)
      <4>1. CASE "depth" \in Saved(a.kind)
        <5>1. c2["depth"] = a.saved["depth"]  BY <3>4, <3>5, <4>1
        <5>2. QED  BY <3>3, <3>6, <4>1, <5>1
      <4>2. CASE "depth" \notin Saved(a.kind)
        <5>1. c2["depth"] = c["depth"]  BY <3>4, <3>5, <4>2
        <5>2. a.kind \notin Counted  BY <4>2 DEF Counted, Templates, Saved
        <5>3. c.depth = DepthAt(s, n)  BY <1>1, <5>2 DEF TopOK
        <5>4. s[k - 1].kind \notin Counted
          <6>1. b2.kind = b.kind  BY <2>1 DEF Uncovers
          <6>2. QED  BY <3>0, <3>7, <6>1
        <5>5. DepthAt(s, k) = DepthAt(s, k - 1)  BY <3>1, <5>4
        <5>6. QED  BY <3>0, <3>3, <5>1, <5>3, <5>5
      <4>3. QED  BY <4>1, <4>2
    <3>8. ASSUME ~r2  PROVE c2.open = OpenAt(t, m)
      <4>1. CASE "open" \in Saved(a.kind)
        <5>1. c2["open"] = a.saved["open"]  BY <3>4, <3>5, <3>8, <4>1
        <5>2. QED  BY <3>3, <3>6, <4>1, <5>1
      <4>2. CASE "open" \notin Saved(a.kind)
        <5>1. c2["open"] = c["open"] /\ ~r  BY <3>4, <3>5, <3>8, <4>2
        <5>2. a.kind \notin {"tree", "try", "element"}  BY <4>2 DEF Saved, Assigned
        <5>3. c.open = OpenAt(s, n)  BY <1>1, <5>1 DEF TopOK
        <5>4. OpenAt(s, k) = OpenAt(s, k - 1)  BY <3>0, <3>2, <5>2
        <5>5. QED  BY <3>0, <3>3, <5>1, <5>3, <5>4
      <4>3. QED  BY <4>1, <4>2
    <3>9. QED  BY <2>3, <2>4, <3>7, <3>8 DEF TopOK
  <2>13. \A i \in 1..m : LevelOK(t, i)
    <3>1. \A i \in 1..m : i = m \/ i \in 1..m - 1  OBVIOUS
    <3>2. QED  BY <2>10, <2>11, <3>1
  <2>14. Len(t) = m /\ t # <<>>  BY <1>3, <2>2
  <2>15. QED  BY <2>6, <2>8, <2>12, <2>13, <2>14 DEF Good
<1>7. QED  BY <1>2, <1>5, <1>6

-----------------------------------------------------------------------------
(* What the invariant says of the innermost activation.                     *)
LEMMA TopIs ==
  ASSUME NEW s, NEW c, NEW fs, NEW l, NEW r, Good(s, c, fs, l, r), s # <<>>
  PROVE  /\ Len(s) \in Nat /\ Len(s) >= 1 /\ s \in Seq(Range(s)) /\ DOMAIN s = 1..Len(s)
         /\ IsActivation(s[Len(s)]) /\ IsContext(c) /\ fs \in Frames /\ l \subseteq Kept \cup {"var"}
         /\ TopOK(s[Len(s)], Len(s), s, c, fs, l, r) /\ LevelOK(s, Len(s))
         /\ DepthAt(s, Len(s)) \in Nat /\ OpenAt(s, Len(s)) \in Nat
         /\ s[Len(s)].kind # "apply" =>
              Len(s) - 1 \in 1..Len(s) /\ Len(s) > 1 /\ IsActivation(s[Len(s) - 1])
         /\ s[Len(s)].kind \in {"params", "body"} <=> Len(s) > 1 /\ s[Len(s) - 1].kind \in Templates
<1>0. s \in Seq(Range(s))  BY DEF Good, TypeOK
<1> PICK n \in Nat : n = Len(s)  BY <1>0
<1>1. /\ \A i \in 1..n : IsActivation(s[i])
      /\ ShapeOK(s) /\ \A i \in 1..n : LevelOK(s, i)
      /\ TopOK(s[n], n, s, c, fs, l, r)
      /\ IsContext(c) /\ fs \in Frames /\ l \subseteq Kept \cup {"var"}
  BY DEF Good, TypeOK
<1>2. n >= 1 /\ DOMAIN s = 1..n /\ n \in 1..n  BY <1>0
<1>3. IsActivation(s[n]) /\ LevelOK(s, n)  BY <1>1, <1>2
<1>4. s[1].kind = "apply"  BY <1>1, <1>2 DEF ShapeOK
<1>5. s[n].kind # "apply" => n - 1 \in 1..n /\ n > 1 /\ IsActivation(s[n - 1])  BY <1>1, <1>2, <1>4
<1>6. s[n].kind \in {"params", "body"} <=> n > 1 /\ s[n - 1].kind \in Templates
  <2>1. n > 1 => n \in 2..n  BY <1>2
  <2>2. n > 1 => (s[n].kind \in {"params", "body"} <=> s[n - 1].kind \in Templates)
    BY <1>1, <2>1 DEF ShapeOK, InTemplateBody
  <2>3. QED  BY <1>2, <1>4, <2>2
<1>7. DepthAt(s, n) \in Nat /\ OpenAt(s, n) \in Nat  BY <1>2, DepthGrows, OpenGrows
<1>8. QED  BY <1>0, <1>1, <1>2, <1>3, <1>5, <1>6, <1>7

(* A frame of its own, or none, over what b's bodies see.                   *)
OverFrames(a, b, fs, l, fs2, l2) ==
  /\ a.kind # "attributes" /\ a.frames = fs /\ a.lost = l
  /\ a.mine.own = b.mine.own /\ a.mine.var = b.mine.var
  /\ "var" \in l <=> "var" \in l2
  /\ fs2 = IF a.kind \in Framed THEN Append(fs, None) ELSE fs

(* An activation pushed over another finds its frames right.                *)
LEMMA OwnFrame ==
  ASSUME NEW b, NEW a, NEW fs \in Frames, NEW l, NEW fs2, NEW l2,
         FramesOK(b, fs, l), OverFrames(a, b, fs, l, fs2, l2)
  PROVE  fs2 \in Frames /\ FramesOK(a, fs2, l2)
<1>0. /\ a.kind # "attributes" /\ a.frames = fs /\ a.lost = l
      /\ a.mine.own = b.mine.own /\ a.mine.var = b.mine.var
      /\ "var" \in l <=> "var" \in l2
      /\ fs2 = IF a.kind \in Framed THEN Append(fs, None) ELSE fs
  BY DEF OverFrames
<1>1. Len(fs) \in Nat /\ Bound(fs)  BY DEF Frames, FramesOK
<1>2. "var" \notin l => (b.mine.own => LookupIn(fs) = b.mine.var)  BY DEF FramesOK
<1>3. CASE a.kind \in Framed
  <2>1. fs2 = Append(fs, None)  BY <1>0, <1>3
  <2>2. /\ fs2 \in Frames /\ Len(fs2) = Len(fs) + 1 /\ fs2[Len(fs2)] = None
        /\ \A k \in 1..Len(fs) : fs2[k] = fs[k]
    BY <2>1 DEF Frames
  <2>3. LookupIn(fs2) = LookupIn(fs)  BY <1>1, <2>2, LookupBeyond
  <2>4. Bound(fs2) /\ Base(a) = Len(fs2)  BY <1>0, <1>1, <1>3, <2>2 DEF Bound, Base
  <2>5. Fits(a, fs2)  BY <1>0, <1>1, <2>2, <2>4 DEF Fits
  <2>6. QED  BY <1>0, <1>1, <1>2, <2>2, <2>3, <2>4, <2>5 DEF FramesOK
<1>4. CASE a.kind \notin Framed
  <2>1. fs2 = fs /\ Base(a) = Len(fs)  BY <1>0, <1>4 DEF Base
  <2>2. Fits(a, fs2)  BY <1>0, <1>1, <2>1 DEF Fits
  <2>3. QED  BY <1>0, <1>1, <1>2, <2>1, <2>2 DEF FramesOK
<1>5. QED  BY <1>3, <1>4

(* The activation of an instruction that applies, calls or looks for        *)
(* templates: what it passes on of the tunnel parameters is already set.    *)
IsCaller(a, b, c, fs, l, c2, l2) ==
  /\ a.kind \in Templates /\ a.saved = c /\ a.frames = fs /\ a.lost = l
  /\ DOMAIN a = {"kind", "saved", "frames", "lost", "mine"} /\ IsMine(a.mine)
  /\ \A f \in {"current", "rule", "group", "var", "own"} : a.mine[f] = b.mine[f]
  /\ IsContext(c2) /\ \A f \in {"current", "rule", "group", "depth", "open"} : c2[f] = c[f]
  /\ \A f \in {"current", "rule", "group", "var"} : f \in l2 <=> f \in l
  /\ l2 \subseteq l
  /\ "tunnel" \notin l2 => \/ c2.tunnel = a.mine.tunnel
                           \/ /\ "tunnel" \notin l /\ c2.tunnel = c.tunnel
                              /\ a.mine.tunnel = b.mine.tunnel

(* The instruction that calls, seen from the activation it pushes.          *)
LEMMA CallerGood ==
  ASSUME NEW s, NEW c, NEW fs, NEW l, Good(s, c, fs, l, FALSE), s # <<>>,
         s[Len(s)].kind \notin Templates,
         NEW a, NEW c2, NEW l2, IsCaller(a, s[Len(s)], c, fs, l, c2, l2)
  PROVE  Good(Append(s, a), c2, fs, l2, FALSE)
<1> PICK n \in Nat : n = Len(s)  BY TopIs
<1> PICK b : b = s[n]  OBVIOUS
<1>1. /\ IsActivation(b) /\ IsContext(c) /\ fs \in Frames /\ l \subseteq Kept \cup {"var"}
      /\ TopOK(b, n, s, c, fs, l, FALSE) /\ DepthAt(s, n) \in Nat /\ OpenAt(s, n) \in Nat
  BY TopIs
<1>2. b.kind \notin Templates /\ IsCaller(a, b, c, fs, l, c2, l2)  OBVIOUS
<1>3. /\ \A f \in Kept \ l : c[f] = b.mine[f]
      /\ FramesOK(b, fs, l) /\ c.depth = DepthAt(s, n) /\ c.open = OpenAt(s, n)
  BY <1>1, <1>2 DEF TopOK, ContextOK, Counted, Templates
<1>4. /\ a.kind \in Templates /\ a.saved = c /\ a.frames = fs /\ a.lost = l
      /\ a.kind \notin Framed /\ a.kind # "attributes"
  BY <1>2 DEF IsCaller, Templates, Framed
<1>5. IsActivation(a) /\ IsContext(c2) /\ l2 \subseteq Kept \cup {"var"}
  BY <1>1, <1>2 DEF IsCaller, IsActivation, Kinds
<1>6. SavedOK(b, a)
  <2>1. \A f \in Kept \ Saved(a.kind) : a.mine[f] = b.mine[f]
    BY <1>2 DEF IsCaller, Templates, Saved, Kept
  <2>2. QED  BY <1>3, <1>4, <2>1 DEF SavedOK
<1>7. ContextOK(a, c2, l2)
  <2> SUFFICES ASSUME NEW f \in Kept, f \notin l2  PROVE c2[f] = a.mine[f]
    BY DEF ContextOK
  <2>1. CASE f = "tunnel"
    <3>1. "tunnel" \notin l => c["tunnel"] = b.mine["tunnel"]  BY <1>3 DEF Kept
    <3>2. QED  BY <1>2, <2>1, <3>1 DEF IsCaller
  <2>2. CASE f # "tunnel"
    <3>1. f \in {"current", "rule", "group"}  BY <2>2 DEF Kept
    <3>2. f \notin l /\ c2[f] = c[f] /\ a.mine[f] = b.mine[f]  BY <1>2, <3>1 DEF IsCaller
    <3>3. QED  BY <1>3, <3>2
  <2>3. QED  BY <2>1, <2>2
<1>8. FramesOK(a, fs, l2)
  <2>1. /\ a.mine["own"] = b.mine["own"] /\ a.mine["var"] = b.mine["var"]
        /\ "var" \in l <=> "var" \in l2
    BY <1>2 DEF IsCaller
  <2>2. OverFrames(a, b, fs, l, fs, l2)  BY <1>4, <2>1 DEF OverFrames
  <2>3. QED  BY <1>1, <1>3, <2>2, OwnFrame
<1>9. c2.depth = c.depth /\ c2.open = c.open  BY <1>2 DEF IsCaller
<1>10. CanPush(s, n, a, c2, fs, l2, FALSE)
  <2>1. a.kind \notin {"params", "body", "tree", "try", "element"}  BY <1>4 DEF Templates
  <2>2. QED  BY <1>1, <1>2, <1>3, <1>4, <1>5, <1>6, <1>7, <1>8, <1>9, <2>1 DEF CanPush
<1>11. QED  BY <1>10, PushGood

(* A template begins, in the context set, above the activation b that runs  *)
(* it and in whose context c it was found; of the fields lost, lo were when *)
(* the frames were as they are.                                             *)
RunsTemplate(b, c, l, lo, set, mine, still) ==
  /\ b.kind \in Templates /\ lo \subseteq Kept \cup {"var"} /\ still \subseteq Kept \cup {"var"}
  /\ \A f \in {"current", "var"} : f \in lo <=> f \in l
  /\ IsContext(set) /\ \A f \in {"current", "group", "tunnel", "open"} : set[f] = c[f]
  /\ set.depth = IF b.kind \in Counted THEN b.saved.depth + 1 ELSE c.depth
  /\ IsMine(mine) /\ ~mine.own /\ \A f \in {"group", "tunnel"} : mine[f] = b.mine[f]
  /\ l \ {"rule"} \subseteq still
  /\ IF b.kind = "call" THEN l \subseteq still /\ mine.rule = b.mine.rule /\ set.rule = c.rule
     ELSE set.rule = mine.rule

(* Running a template: the activation of its body is pushed.                *)
LEMMA RunGood ==
  ASSUME NEW s, NEW c, NEW fs, NEW l, Good(s, c, fs, l, FALSE), s # <<>>,
         NEW lo, NEW set, NEW mine, NEW still, RunsTemplate(s[Len(s)], c, l, lo, set, mine, still)
  PROVE  Good(Append(s, [kind |-> "params", saved |-> set, frames |-> fs, lost |-> lo, mine |-> mine]),
              [set EXCEPT !.current = mine.current], Append(fs, None), still \ {"current", "var"}, FALSE)
<1> PICK n \in Nat : n = Len(s) /\ n >= 1  BY TopIs
<1> PICK b : b = s[n]  OBVIOUS
<1> PICK a : a = [kind |-> "params", saved |-> set, frames |-> fs, lost |-> lo, mine |-> mine]  OBVIOUS
<1> PICK c2 : c2 = [set EXCEPT !.current = mine.current]  OBVIOUS
<1> PICK fs2 : fs2 = Append(fs, None)  OBVIOUS
<1> PICK l2 : l2 = still \ {"current", "var"}  OBVIOUS
<1>1. /\ IsActivation(b) /\ IsContext(c) /\ fs \in Frames /\ l \subseteq Kept \cup {"var"}
      /\ TopOK(b, n, s, c, fs, l, FALSE) /\ DepthAt(s, n) \in Nat /\ OpenAt(s, n) \in Nat
      /\ LevelOK(s, n) /\ (b.kind \in {"params", "body"} <=> n > 1 /\ s[n - 1].kind \in Templates)
  BY TopIs
<1>2. RunsTemplate(b, c, l, lo, set, mine, still)  OBVIOUS
<1>3. b.kind \in Templates /\ lo \subseteq Kept \cup {"var"} /\ IsContext(set)
      /\ IsMine(mine) /\ ~mine.own /\ l2 \subseteq Kept
  BY <1>2 DEF RunsTemplate
<1>4. /\ DOMAIN a = {"kind", "saved", "frames", "lost", "mine"} /\ a.kind = "params"
      /\ a.saved = set /\ a.frames = fs /\ a.lost = lo /\ a.mine = mine
  OBVIOUS
<1>5. /\ IsContext(c2) /\ c2["current"] = mine["current"]
      /\ \A f \in {"rule", "group", "tunnel", "depth", "open"} : c2[f] = set[f]
  <2>1. DOMAIN set = {"current", "rule", "group", "tunnel", "depth", "open"}
    BY <1>3 DEF IsContext, Kept
  <2>2. QED  BY <1>3, <2>1 DEF IsContext
<1>6. IsActivation(a)  BY <1>1, <1>3, <1>4 DEF IsActivation, Kinds
<1>7. ContextOK(b, c, l) /\ FramesOK(b, fs, l) /\ c.open = OpenAt(s, n)
      /\ (b.kind \notin Counted => c.depth = DepthAt(s, n))
  BY <1>1 DEF TopOK
<1>8. SavedOK(b, a)
  <2>1. Saved("params") = {"current"}  BY DEF Saved
  <2>2. ASSUME "current" \notin lo  PROVE set["current"] = b.mine["current"]
    <3>1. "current" \notin l /\ set["current"] = c["current"]  BY <1>2, <2>2 DEF RunsTemplate
    <3>2. QED  BY <1>7, <3>1 DEF ContextOK, Kept
  <2>3. b.kind = "call" => mine["rule"] = b.mine["rule"]  BY <1>2 DEF RunsTemplate
  <2>4. mine["group"] = b.mine["group"] /\ mine["tunnel"] = b.mine["tunnel"]
    BY <1>2 DEF RunsTemplate
  <2>5. Kept \ Saved(a.kind) = {"rule", "group", "tunnel"} /\ Kept \cap Saved(a.kind) = {"current"}
    BY <1>4, <2>1 DEF Kept
  <2>6. QED  BY <1>4, <2>2, <2>3, <2>4, <2>5 DEF SavedOK
<1>9. ContextOK(a, c2, l2)
  <2> SUFFICES ASSUME NEW f \in Kept, f \notin l2  PROVE c2[f] = mine[f]
    BY <1>4 DEF ContextOK
  <2>1. CASE f = "current"
    BY <1>5, <2>1
  <2>2. CASE f \in {"group", "tunnel"}
    <3>1. f \notin l /\ set[f] = c[f] /\ mine[f] = b.mine[f]  BY <1>2, <2>2 DEF RunsTemplate
    <3>2. c[f] = b.mine[f]  BY <1>7, <2>2, <3>1 DEF ContextOK
    <3>3. QED  BY <1>5, <2>2, <3>1, <3>2
  <2>3. CASE f = "rule" /\ b.kind = "call"
    <3>1. f \notin l /\ set[f] = c[f] /\ mine[f] = b.mine[f]  BY <1>2, <2>3 DEF RunsTemplate
    <3>2. c[f] = b.mine[f]  BY <1>7, <2>3, <3>1 DEF ContextOK
    <3>3. QED  BY <1>5, <2>3, <3>1, <3>2
  <2>4. CASE f = "rule" /\ b.kind # "call"
    BY <1>2, <1>5, <2>4 DEF RunsTemplate
  <2>5. QED  BY <2>1, <2>2, <2>3, <2>4 DEF Kept
<1>10. FramesOK(b, fs, lo)
  <2>1. "var" \in lo <=> "var" \in l  BY <1>2 DEF RunsTemplate
  <2>2. QED  BY <1>7, <2>1 DEF FramesOK
<1>11. fs2 \in Frames /\ FramesOK(a, fs2, l2)
  <2>1. Len(fs) \in Nat /\ Bound(fs)  BY <1>1, <1>7 DEF Frames, FramesOK
  <2>2. fs2 \in Frames /\ Len(fs2) = Len(fs) + 1 /\ \A k \in 1..Len(fs) : fs2[k] = fs[k]
    BY <1>1 DEF Frames
  <2>3. Bound(fs2)  BY <2>1, <2>2 DEF Bound
  <2>4. Base(a) = Len(fs2)  BY <1>4, <2>2 DEF Base, Framed
  <2>5. Fits(a, fs2)  BY <1>4, <2>1, <2>2, <2>4 DEF Fits
  <2>6. QED  BY <1>3, <1>4, <2>1, <2>2, <2>3, <2>4, <2>5 DEF FramesOK
<1>12. c2.depth = DepthAt(s, n) + (IF b.kind \in Counted THEN 1 ELSE 0) /\ c2.open = OpenAt(s, n)
  <2>1. c2["open"] = c["open"]  BY <1>2, <1>5 DEF RunsTemplate
  <2>2. c2["depth"] = IF b.kind \in Counted THEN b.saved.depth + 1 ELSE c.depth
    BY <1>2, <1>5 DEF RunsTemplate
  <2>3. CASE b.kind \in Counted
    <3>1. b.kind \notin {"params", "body"} /\ "depth" \in Saved(b.kind)
      BY <2>3 DEF Counted, Templates, Saved
    <3>2. b.saved.depth = DepthAt(s, n - 1)  BY <1>1, <3>1 DEF LevelOK
    <3>3. DepthAt(s, n) = DepthAt(s, n - 1)
      <4>1. ~InTemplateBody(s, n)  BY <3>1 DEF InTemplateBody
      <4>2. /\ DepthAt(s, n - 1) \in Nat
            /\ DepthAt(s, n) = DepthAt(s, n - 1)
                 + (IF n > 1 /\ InTemplateBody(s, n) /\ s[n - 1].kind \in Counted THEN 1 ELSE 0)
        BY DepthGrows
      <4>3. QED  BY <4>1, <4>2
    <3>4. QED  BY <1>7, <2>1, <2>2, <2>3, <3>2, <3>3
  <2>4. CASE b.kind \notin Counted
    BY <1>1, <1>7, <2>1, <2>2, <2>4
  <2>5. QED  BY <2>3, <2>4
<1>13. CanPush(s, n, a, c2, fs2, l2, FALSE)
  <2>1. "depth" \notin Saved("params") /\ "open" \notin Saved("params")  BY DEF Saved
  <2>2. QED  BY <1>1, <1>3, <1>4, <1>5, <1>6, <1>8, <1>9, <1>10, <1>11, <1>12, <2>1 DEF CanPush
<1>14. QED  BY <1>13, PushGood

-----------------------------------------------------------------------------
(* The actions that push.                                                   *)
LEMMA SettingIs ==
  ASSUME NEW r, NEW kind, NEW x, NEW y, y = Setting(r, kind, x)
  PROVE  /\ DOMAIN y = DOMAIN r
         /\ \A f \in DOMAIN r : f \notin Assigned(kind) => y[f] = r[f]
         /\ \A f \in Kept \cap DOMAIN r :
              f \in Assigned(kind) => y[f] = IF f = "rule" THEN NoRule ELSE x
         /\ "open" \in DOMAIN r /\ "open" \in Assigned(kind) =>
              y["open"] = IF kind = "element" THEN r["open"] + 1 ELSE 0
<1>1. y = [f \in DOMAIN r |->
             IF f \notin Assigned(kind) THEN r[f]
             ELSE CASE f = "rule" -> NoRule
                    [] f = "open" -> IF kind = "element" THEN r.open + 1 ELSE 0
                    [] OTHER -> x]
  BY DEF Setting
<1>2. DOMAIN y = DOMAIN r  BY <1>1
<1>3. ASSUME NEW f \in DOMAIN r, f \notin Assigned(kind)  PROVE y[f] = r[f]
  BY <1>1, <1>3
<1>4. ASSUME NEW f \in Kept \cap DOMAIN r, f \in Assigned(kind)
      PROVE  y[f] = IF f = "rule" THEN NoRule ELSE x
  <2>1. f \in DOMAIN r /\ f # "open"  BY DEF Kept
  <2>2. QED  BY <1>1, <1>4, <2>1
<1>5. "open" \in DOMAIN r /\ "open" \in Assigned(kind) =>
        y["open"] = IF kind = "element" THEN r["open"] + 1 ELSE 0
  BY <1>1
<1>6. QED  BY <1>2, <1>3, <1>4, <1>5

(* Entering an instruction (Enter) keeps the invariant.                     *)
LEMMA EnterGood ==
  ASSUME IInv, NEW kind \in Simple, NEW x, Enter(kind, x)
  PROVE  IInv'
<1> PICK s, c, fs, l : s = stack /\ c = context /\ fs = frames /\ l = lost  OBVIOUS
<1> PICK s2, c2, fs2, l2 : s2 = stack' /\ c2 = context' /\ fs2 = frames' /\ l2 = lost'  OBVIOUS
<1>1. raised = FALSE /\ raised' = FALSE /\ s # <<>> /\ Good(s, c, fs, l, FALSE)
  BY DEF IInv, Enter, InBody, Seeing, Running
<1> PICK n \in Nat : n = Len(s) /\ n >= 1  BY <1>1, TopIs
<1> PICK b : b = s[n]  OBVIOUS
<1> DEFINE M == IF kind = "attributes"
                THEN [b.mine EXCEPT !.var = Global, !.own = (Head(fs) = Global)]
                ELSE Setting(b.mine, kind, x)
<1> PICK a : a = [kind |-> kind, saved |-> c, frames |-> fs, lost |-> l, mine |-> M]  OBVIOUS
<1>2. /\ b.kind \notin Templates \cup {"params"}
      /\ c2 = Setting(c, kind, x)
      /\ fs2 = IF kind = "attributes" THEN <<Head(fs)>>
               ELSE IF kind \in Framed THEN Append(fs, None) ELSE fs
      /\ l2 = l \ (Assigned(kind) \cup IF kind = "attributes" THEN {"var"} ELSE {})
      /\ s2 = Append(s, a)
  BY DEF Enter, InBody, Seeing, Top, Activation
<1>3. /\ IsActivation(b) /\ IsContext(c) /\ fs \in Frames /\ l \subseteq Kept \cup {"var"}
      /\ TopOK(b, n, s, c, fs, l, FALSE) /\ DepthAt(s, n) \in Nat /\ OpenAt(s, n) \in Nat
  BY <1>1, TopIs
<1>4. /\ \A f \in Kept \ l : c[f] = b.mine[f]
      /\ FramesOK(b, fs, l) /\ c.depth = DepthAt(s, n) /\ c.open = OpenAt(s, n)
  BY <1>2, <1>3 DEF TopOK, ContextOK, Counted, Templates
<1>5. /\ DOMAIN a = {"kind", "saved", "frames", "lost", "mine"}
      /\ a.kind = kind /\ a.saved = c /\ a.frames = fs /\ a.lost = l /\ a.mine = M
  OBVIOUS
<1>6. DOMAIN b.mine = {"current", "rule", "group", "tunnel", "var", "own"} /\ b.mine["own"] \in BOOLEAN
      /\ DOMAIN c = {"current", "rule", "group", "tunnel", "depth", "open"}
  BY <1>3 DEF IsActivation, IsMine, IsContext, Kept
<1>7. Assigned(kind) \subseteq Saved(kind) /\ "depth" \notin Assigned(kind) /\ "var" \notin Assigned(kind)
      /\ "own" \notin Assigned(kind)
  BY DEF Simple, Assigned, Saved
<1>8. /\ DOMAIN a.mine = DOMAIN b.mine /\ a.mine["own"] \in BOOLEAN
      /\ \A f \in Kept : f \notin Assigned(kind) => a.mine[f] = b.mine[f]
      /\ \A f \in Kept : f \in Assigned(kind) => a.mine[f] = IF f = "rule" THEN NoRule ELSE x
      /\ kind # "attributes" => a.mine["var"] = b.mine["var"] /\ a.mine["own"] = b.mine["own"]
      /\ kind = "attributes" => a.mine["var"] = Global /\ a.mine["own"] = (Head(fs) = Global)
  <2>1. CASE kind = "attributes"
    <3>1. a.mine = [b.mine EXCEPT !.var = Global, !.own = (Head(fs) = Global)]  BY <1>5, <2>1
    <3>2. Assigned(kind) = {}  BY <2>1 DEF Assigned
    <3>3. (Head(fs) = Global) \in BOOLEAN  OBVIOUS
    <3>4. \A f \in Kept : a.mine[f] = b.mine[f]  BY <1>6, <3>1 DEF Kept
    <3>5. DOMAIN a.mine = DOMAIN b.mine /\ a.mine["var"] = Global /\ a.mine["own"] = (Head(fs) = Global)
      BY <1>6, <3>1
    <3>6. QED  BY <2>1, <3>2, <3>3, <3>4, <3>5
  <2>2. CASE kind # "attributes"
    <3> PICK m, m2 : m = b.mine /\ m2 = a.mine  OBVIOUS
    <3>1. m2 = Setting(m, kind, x)  BY <1>5, <2>2
    <3>2. Kept \subseteq DOMAIN m  BY <1>6 DEF Kept
    <3>3. DOMAIN m2 = DOMAIN m /\ (\A f \in DOMAIN m : f \notin Assigned(kind) => m2[f] = m[f])
          /\ (\A f \in Kept : f \in Assigned(kind) => m2[f] = IF f = "rule" THEN NoRule ELSE x)
      BY <3>1, <3>2, SettingIs
    <3>4. m2["own"] = m["own"] /\ m2["var"] = m["var"]  BY <1>6, <1>7, <3>3
    <3>5. QED  BY <1>6, <2>2, <3>2, <3>3, <3>4
  <2>3. QED  BY <2>1, <2>2
<1>9. /\ IsContext(c2) /\ c2["depth"] = c["depth"]
      /\ \A f \in Kept : f \notin Assigned(kind) => c2[f] = c[f]
      /\ \A f \in Kept : f \in Assigned(kind) => c2[f] = IF f = "rule" THEN NoRule ELSE x
      /\ c2["open"] = IF kind \in {"tree", "try"} THEN 0
                      ELSE c["open"] + (IF kind = "element" THEN 1 ELSE 0)
  <2>1. Kept \subseteq DOMAIN c  BY <1>6 DEF Kept
  <2>2. DOMAIN c2 = DOMAIN c /\ c2["depth"] = c["depth"]
        /\ ("open" \notin Assigned(kind) => c2["open"] = c["open"])
        /\ ("open" \in Assigned(kind) => c2["open"] = IF kind = "element" THEN c["open"] + 1 ELSE 0)
        /\ (\A f \in Kept : f \notin Assigned(kind) => c2[f] = c[f])
        /\ (\A f \in Kept : f \in Assigned(kind) => c2[f] = IF f = "rule" THEN NoRule ELSE x)
    BY <1>2, <1>6, <1>7, <2>1, SettingIs
  <2>3. "open" \in Assigned(kind) <=> kind \in {"element", "tree", "try"}
    BY DEF Assigned, Simple
  <2>4. c["open"] \in Nat  BY <1>3, <1>4
  <2>5. QED  BY <1>3, <2>2, <2>3, <2>4 DEF IsContext
<1> HIDE DEF M
<1>10. IsActivation(a)
  BY <1>3, <1>5, <1>6, <1>8 DEF IsActivation, IsMine, Kinds, Kept
<1>11. SavedOK(b, a)
  BY <1>4, <1>5, <1>7, <1>8 DEF SavedOK
<1>12. ContextOK(a, c2, l2)
  <2> SUFFICES ASSUME NEW f \in Kept, f \notin l2  PROVE c2[f] = a.mine[f]
    BY DEF ContextOK
  <2>1. f \in Assigned(kind) \/ f \notin l  BY <1>2 DEF Kept
  <2>2. QED  BY <1>4, <1>8, <1>9, <2>1
<1>13. fs2 \in Frames /\ FramesOK(a, fs2, l2)
  <2>1. CASE kind = "attributes"
    <3>1. fs2 = <<Head(fs)>> /\ Bound(fs)  BY <1>2, <1>4, <2>1 DEF FramesOK
    <3>2. fs2 \in Frames /\ Len(fs2) = 1 /\ fs2[1] = fs[1] /\ Head(fs) = fs[1]
      <4>1. fs # <<>> /\ fs[1] \in Values \cup {None, Global}  BY <1>3, <3>1 DEF Bound, Frames
      <4>2. Head(fs) = fs[1]  BY <4>1
      <4>3. QED  BY <3>1, <4>1, <4>2 DEF Frames
    <3>3. Bound(fs2)  BY <3>1, <3>2 DEF Bound
    <3>4. Base(a) = 1 /\ Fits(a, fs2)  BY <1>5, <2>1, <3>2 DEF Base, Fits
    <3>5. LookupIn(fs2) = Head(fs)
      <4>1. 1 \in 1..Len(fs2) /\ fs2[1] # None /\ \A j \in 1 + 1..Len(fs2) : fs2[j] = None
        BY <3>2, <3>3 DEF Bound
      <4>2. QED  BY <3>2, <4>1, LookupIs
    <3>6. a.mine.own => LookupIn(fs2) = a.mine.var  BY <1>8, <2>1, <3>5
    <3>7. QED  BY <1>5, <2>1, <3>2, <3>3, <3>4, <3>6 DEF FramesOK
  <2>2. CASE kind # "attributes"
    <3>1. fs2 = IF a.kind \in Framed THEN Append(fs, None) ELSE fs  BY <1>2, <1>5, <2>2
    <3>2. "var" \in l <=> "var" \in l2  BY <1>2, <1>7, <2>2
    <3>3. a.mine["var"] = b.mine["var"] /\ a.mine["own"] = b.mine["own"]  BY <1>8, <2>2
    <3>4. a.kind # "attributes" /\ a.frames = fs /\ a.lost = l  BY <1>5, <2>2
    <3>5. fs \in Frames /\ FramesOK(b, fs, l)  BY <1>3, <1>4
    <3>6. OverFrames(a, b, fs, l, fs2, l2)  BY <3>1, <3>2, <3>3, <3>4 DEF OverFrames
    <3>7. QED  BY <3>5, <3>6, OwnFrame
  <2>3. QED  BY <2>1, <2>2
<1>14. CanPush(s, n, a, c2, fs2, l2, FALSE)
  <2>1. kind \notin {"params", "body"} /\ b.kind \notin Templates /\ l2 \subseteq Kept \cup {"var"}
    BY <1>2, <1>3 DEF Simple
  <2>2. QED  BY <1>3, <1>4, <1>5, <1>9, <1>10, <1>11, <1>12, <1>13, <2>1 DEF CanPush
<1>15. Good(s2, c2, fs2, l2, FALSE)
  <2>1. CanPush(s, Len(s), a, c2, fs2, l2, FALSE) /\ s2 = Append(s, a)  BY <1>2, <1>14
  <2>2. QED  BY <1>1, <2>1, PushGood
<1>16. QED  BY <1>1, <1>15 DEF IInv

(* What passing the tunnel parameter p on, if any, makes of the state.      *)
Passing(a, b, c, fs, l, p, c2, l2) ==
  /\ a.kind \in Templates
  /\ a = [kind |-> a.kind, saved |-> c, frames |-> fs, lost |-> l,
          mine |-> IF p = None THEN b.mine ELSE [b.mine EXCEPT !.tunnel = p]]
  /\ c2 = IF p = None THEN c ELSE [c EXCEPT !.tunnel = p]
  /\ l2 = IF p = None THEN l ELSE l \ {"tunnel"}

(* What passing parameters sets in the context.                             *)
LEMMA PassingIs ==
  ASSUME NEW a, NEW b, NEW c, NEW fs, NEW l, NEW p, NEW c2, NEW l2,
         Passing(a, b, c, fs, l, p, c2, l2), IsActivation(b), IsContext(c)
  PROVE  IsCaller(a, b, c, fs, l, c2, l2)
<1>1. IsMine(b.mine) /\ DOMAIN b.mine = {"current", "rule", "group", "tunnel", "var", "own"}
      /\ DOMAIN c = {"current", "rule", "group", "tunnel", "depth", "open"}
  BY DEF IsActivation, IsMine, IsContext, Kept
<1>2. /\ a.kind \in Templates /\ a.saved = c /\ a.frames = fs /\ a.lost = l
      /\ DOMAIN a = {"kind", "saved", "frames", "lost", "mine"}
      /\ a.mine = IF p = None THEN b.mine ELSE [b.mine EXCEPT !.tunnel = p]
      /\ c2 = IF p = None THEN c ELSE [c EXCEPT !.tunnel = p]
      /\ l2 = IF p = None THEN l ELSE l \ {"tunnel"}
  BY DEF Passing
<1> PICK k, m, d : k = a.kind /\ m = a.mine /\ d = DOMAIN a  OBVIOUS
<1>3. IsMine(m) /\ \A f \in {"current", "rule", "group", "var", "own"} : m[f] = b.mine[f]
  BY <1>1, <1>2 DEF IsMine
<1>4. IsContext(c2) /\ \A f \in {"current", "rule", "group", "depth", "open"} : c2[f] = c[f]
  BY <1>1, <1>2 DEF IsContext
<1>5. (\A f \in {"current", "rule", "group", "var"} : f \in l2 <=> f \in l) /\ l2 \subseteq l
  BY <1>2
<1>6. ASSUME "tunnel" \notin l2
      PROVE  \/ c2["tunnel"] = m["tunnel"]
             \/ /\ "tunnel" \notin l /\ c2["tunnel"] = c["tunnel"]
                /\ m["tunnel"] = b.mine["tunnel"]
  <2>1. CASE p = None
    BY <1>2, <1>6, <2>1
  <2>2. CASE p # None
    <3>1. m = [b.mine EXCEPT !.tunnel = p] /\ c2 = [c EXCEPT !.tunnel = p]  BY <1>2, <2>2
    <3>2. QED  BY <1>1, <3>1
  <2>3. QED  BY <2>1, <2>2
<1>7. QED  BY <1>2, <1>3, <1>4, <1>5, <1>6 DEF IsCaller

(* An error raised in a body, or by a with-param after the pool was set.    *)
LEMMA RaisedGood ==
  ASSUME NEW s, NEW c, NEW fs, NEW l, Good(s, c, fs, l, FALSE), s # <<>>,
         NEW c2, NEW l2, IsContext(c2), l2 \subseteq Kept \cup {"var"},
         c2.depth = c.depth, "var" \in l2 <=> "var" \in l,
         \A f \in Kept : f \notin l2 => f \notin l /\ c2[f] = c[f]
  PROVE  Good(s, c2, fs, l2, TRUE)
<1> PICK n \in Nat : n = Len(s) /\ n >= 1  BY TopIs
<1>1. /\ TypeOK(s, c, fs, l) /\ ShapeOK(s) /\ \A i \in 1..n : LevelOK(s, i)
      /\ TopOK(s[n], n, s, c, fs, l, FALSE)
  BY DEF Good
<1>2. TypeOK(s, c2, fs, l2)  BY <1>1 DEF TypeOK
<1>3. ContextOK(s[n], c2, l2) /\ FramesOK(s[n], fs, l2)
  <2>1. ContextOK(s[n], c, l) /\ FramesOK(s[n], fs, l)  BY <1>1 DEF TopOK
  <2>2. ContextOK(s[n], c2, l2)  BY <2>1 DEF ContextOK
  <2>3. QED  BY <2>1, <2>2 DEF FramesOK
<1>4. TopOK(s[n], n, s, c2, fs, l2, TRUE)  BY <1>1, <1>3 DEF TopOK
<1>5. QED  BY <1>1, <1>2, <1>4 DEF Good

(* Raising an error (Raise) keeps the invariant.                            *)
LEMMA RaiseGood ==
  ASSUME IInv, ~raised, stack # <<>>, raised' = TRUE, UNCHANGED <<context, frames, stack, lost>>
  PROVE  IInv'
<1> PICK s, c, fs, l : s = stack /\ c = context /\ fs = frames /\ l = lost  OBVIOUS
<1>1. Good(s, c, fs, l, FALSE) /\ s # <<>>  BY DEF IInv
<1>2. IsContext(c) /\ l \subseteq Kept \cup {"var"}  BY <1>1, TopIs
<1>3. Good(s, c, fs, l, TRUE)  BY <1>1, <1>2, RaisedGood
<1>4. s = stack' /\ c = context' /\ fs = frames' /\ l = lost'  OBVIOUS
<1>5. QED  BY <1>3, <1>4 DEF IInv

(* A with-param that fails (WithParamsFail) keeps the invariant.            *)
LEMMA WithParamsFailGood ==
  ASSUME IInv, NEW p, WithParamsFail(p)
  PROVE  IInv'
<1> PICK s, c, fs, l : s = stack /\ c = context /\ fs = frames /\ l = lost  OBVIOUS
<1> PICK c2, l2 : c2 = context' /\ l2 = lost'  OBVIOUS
<1>1. Good(s, c, fs, l, FALSE) /\ s # <<>>  BY DEF IInv, WithParamsFail, InBody, Seeing, Running
<1>2. IsContext(c) /\ l \subseteq Kept \cup {"var"}  BY <1>1, TopIs
<1>3. c2 = (IF p = None THEN c ELSE [c EXCEPT !.tunnel = p]) /\ l2 = l \cup {"tunnel"}
      /\ raised' = TRUE /\ s = stack' /\ fs = frames'
  BY DEF WithParamsFail, WithParams, Fail
<1>4. DOMAIN c = {"current", "rule", "group", "tunnel", "depth", "open"}
  BY <1>2 DEF IsContext, Kept
<1>5. /\ IsContext(c2) /\ c2["depth"] = c["depth"]
      /\ \A f \in {"current", "rule", "group"} : c2[f] = c[f]
  BY <1>2, <1>3, <1>4 DEF IsContext
<1>6. \A f \in Kept : f \notin l2 => f \notin l /\ c2[f] = c[f]
  BY <1>3, <1>5 DEF Kept
<1>7. l2 \subseteq Kept \cup {"var"} /\ ("var" \in l2 <=> "var" \in l)
  BY <1>2, <1>3 DEF Kept
<1>8. Good(s, c2, fs, l2, TRUE)  BY <1>1, <1>5, <1>6, <1>7, RaisedGood
<1>9. QED  BY <1>3, <1>8 DEF IInv

(* apply-templates (Apply) keeps the invariant.                             *)
LEMMA ApplyGood ==
  ASSUME IInv, NEW p, ~raised, stack # <<>>, Top.kind \notin Templates, raised' = raised,
         context' = WithParams(p), lost' = StillLost(p), frames' = frames,
         stack' = Append(stack, Activation("apply", context, Tunnelled(p)))
  PROVE  IInv'
<1> PICK s, c, fs, l : s = stack /\ c = context /\ fs = frames /\ l = lost  OBVIOUS
<1> PICK s2, c2, l2 : s2 = stack' /\ c2 = context' /\ l2 = lost'  OBVIOUS
<1> PICK b : b = s[Len(s)]  OBVIOUS
<1> PICK a : a = Activation("apply", context, Tunnelled(p))  OBVIOUS
<1>1. Good(s, c, fs, l, FALSE) /\ s # <<>> /\ b.kind \notin Templates  BY DEF IInv, Top
<1>2. IsActivation(b) /\ IsContext(c)  BY <1>1, TopIs
<1>3. a.kind = "apply"  BY DEF Activation
<1>4. Passing(a, b, c, fs, l, p, c2, l2) /\ s2 = Append(s, a)
  BY <1>3 DEF Passing, Activation, Tunnelled, WithParams, StillLost, Top, Templates
<1>5. IsCaller(a, b, c, fs, l, c2, l2)  BY <1>2, <1>4, PassingIs
<1>6. Good(s2, c2, fs, l2, FALSE)  BY <1>1, <1>4, <1>5, CallerGood
<1>7. fs = frames' /\ raised' = FALSE  BY DEF IInv
<1>8. QED  BY <1>6, <1>7 DEF IInv

(* apply-templates on one node (ApplyOne) keeps the invariant.              *)
LEMMA ApplyOneGood ==
  ASSUME IInv, NEW x, apply_one_to_node(x)
  PROVE  IInv'
<1> PICK s, c, fs, l : s = stack /\ c = context /\ fs = frames /\ l = lost  OBVIOUS
<1> PICK s2, c2, fs2, l2 : s2 = stack' /\ c2 = context' /\ fs2 = frames' /\ l2 = lost'  OBVIOUS
<1> PICK b : b = s[Len(s)]  OBVIOUS
<1>1. raised = FALSE /\ Good(s, c, fs, l, FALSE) /\ s # <<>> /\ b.kind = "apply"
  BY DEF IInv, apply_one_to_node, Running, Top
<1>2. IsActivation(b) /\ IsContext(c) /\ l \subseteq Kept \cup {"var"}  BY <1>1, TopIs
<1> PICK rule : rule = <<x, select_template(templates, x)>>  OBVIOUS
<1> PICK set : set = [c EXCEPT !.rule = rule, !.depth = b.saved.depth + 1]  OBVIOUS
<1> PICK mine : mine = [b.mine EXCEPT !.current = x, !.rule = rule, !.var = Global, !.own = FALSE]  OBVIOUS
<1>3. CASE TooDeep(Top.saved.depth + 1)
  <2>1. raised' = TRUE /\ UNCHANGED <<context, frames, stack, lost>>
    BY <1>3 DEF apply_one_to_node, Fail
  <2>2. QED  BY <1>1, <2>1, RaiseGood
<1>4. CASE ~TooDeep(Top.saved.depth + 1)
  <2>1. run_template_body(stack, [context EXCEPT !.rule = rule, !.depth = Top.saved.depth + 1],
                          InTemplate(x, rule, Top.mine), lost \ {"rule"})
        /\ raised' = raised
    BY <1>4 DEF apply_one_to_node
  <2>2. run_template_body(s, set, mine, l \ {"rule"})  BY <2>1 DEF InTemplate, Top
  <2>3. /\ fs2 = Append(fs, None) /\ l2 = (l \ {"rule"}) \ {"current", "var"}
        /\ c2 = [set EXCEPT !.current = mine.current]
        /\ s2 = Append(s, [kind |-> "params", saved |-> set, frames |-> fs, lost |-> l, mine |-> mine])
    BY <2>2 DEF run_template_body, Activation
  <2>4. DOMAIN c = {"current", "rule", "group", "tunnel", "depth", "open"}
        /\ DOMAIN b.mine = {"current", "rule", "group", "tunnel", "var", "own"}
    BY <1>2 DEF IsActivation, IsMine, IsContext, Kept
  <2>5. /\ IsContext(set) /\ \A f \in {"current", "group", "tunnel", "open"} : set[f] = c[f]
        /\ set["depth"] = b.saved.depth + 1 /\ set["rule"] = rule
    BY <1>2, <2>4 DEF IsContext
  <2>6. /\ IsMine(mine) /\ mine["own"] = FALSE /\ mine["rule"] = rule
        /\ \A f \in {"group", "tunnel"} : mine[f] = b.mine[f]
    BY <1>2, <2>4 DEF IsMine, IsActivation
  <2>7. RunsTemplate(b, c, l, l, set, mine, l \ {"rule"})
    BY <1>1, <1>2, <2>5, <2>6 DEF RunsTemplate, Templates, Counted
  <2>8. Good(s2, c2, fs2, l2, FALSE)
    <3> PICK still : still = l \ {"rule"}  OBVIOUS
    <3>1. RunsTemplate(s[Len(s)], c, l, l, set, mine, still)  BY <2>7
    <3>2. Good(Append(s, [kind |-> "params", saved |-> set, frames |-> fs, lost |-> l, mine |-> mine]),
               [set EXCEPT !.current = mine.current], Append(fs, None), still \ {"current", "var"}, FALSE)
      BY <1>1, <3>1, RunGood
    <3>3. QED  BY <2>3, <3>2
  <2>9. QED  BY <1>1, <2>1, <2>8 DEF IInv
<1>5. QED  BY <1>3, <1>4

(* Of the templates that next-match, apply-imports and call-template run:   *)
(* the instruction's activation is pushed, and the template's above it.     *)
LEMMA CalledGood ==
  ASSUME IInv, ~raised, raised' = raised, stack # <<>>, Top.kind \notin Templates,
         NEW kind \in Templates \ {"apply"}, NEW p, NEW set, NEW mine, NEW still,
         run_template_body(Append(stack, Activation(kind, context, Tunnelled(p))), set, mine, still),
         IsContext(set), \A f \in {"current", "group", "tunnel", "open"} : set[f] = WithParams(p)[f],
         set.depth = context.depth + (IF kind = "imports" THEN 0 ELSE 1),
         IsMine(mine), ~mine.own, \A f \in {"group", "tunnel"} : mine[f] = Tunnelled(p)[f],
         IF kind = "call"
         THEN still = StillLost(p) /\ mine.rule = Top.mine.rule /\ set.rule = context.rule
         ELSE still = StillLost(p) \ {"rule"} /\ set.rule = mine.rule
  PROVE  IInv'
<1> PICK s, c, fs, l : s = stack /\ c = context /\ fs = frames /\ l = lost  OBVIOUS
<1> PICK s2, c2, fs2, l2 : s2 = stack' /\ c2 = context' /\ fs2 = frames' /\ l2 = lost'  OBVIOUS
<1> PICK n : n = Len(s)  OBVIOUS
<1> PICK b : b = s[n]  OBVIOUS
<1> PICK a : a = Activation(kind, context, Tunnelled(p))  OBVIOUS
<1> PICK t, ct, lt : t = Append(s, a) /\ ct = WithParams(p) /\ lt = StillLost(p)  OBVIOUS
<1>1. raised = FALSE /\ Good(s, c, fs, l, FALSE) /\ s # <<>> /\ b.kind \notin Templates
  BY DEF IInv, Top
<1>2. /\ IsActivation(b) /\ IsContext(c) /\ l \subseteq Kept \cup {"var"} /\ s \in Seq(Range(s))
      /\ TopOK(b, n, s, c, fs, l, FALSE) /\ DepthAt(s, n) \in Nat
  BY <1>1, TopIs
<1>3. a.kind = kind /\ a.saved = c /\ a.mine = Tunnelled(p)  BY DEF Activation
<1>4. Passing(a, b, c, fs, l, p, ct, lt)
  BY <1>3 DEF Passing, Activation, Tunnelled, WithParams, StillLost, Top
<1>5. IsCaller(a, b, c, fs, l, ct, lt)  BY <1>2, <1>4, PassingIs
<1>6. Good(t, ct, fs, lt, FALSE)  BY <1>1, <1>5, CallerGood
<1>7. t # <<>> /\ t[Len(t)] = a  BY <1>2, Appended
<1>8. /\ fs2 = Append(fs, None) /\ l2 = still \ {"current", "var"}
      /\ c2 = [set EXCEPT !.current = mine.current]
      /\ s2 = Append(t, [kind |-> "params", saved |-> set, frames |-> fs, lost |-> l, mine |-> mine])
  <2>1. run_template_body(t, set, mine, still)  OBVIOUS
  <2>2. QED  BY <2>1 DEF run_template_body, Activation
<1>9. /\ \A f \in {"current", "rule", "group", "depth", "open"} : ct[f] = c[f]
      /\ \A f \in {"current", "rule", "group", "var"} : f \in lt <=> f \in l
      /\ lt \subseteq l /\ a.mine["rule"] = b.mine["rule"]
  BY <1>5 DEF IsCaller
<1>10. RunsTemplate(a, ct, lt, l, set, mine, still)
  <2>1. c.depth \in Nat  BY <1>1, <1>2 DEF TopOK, Counted, Templates
  <2>2. set.depth = IF a.kind \in Counted THEN a.saved.depth + 1 ELSE ct.depth
    BY <1>3, <1>9, <2>1 DEF Counted, Templates
  <2>3. IF a.kind = "call" THEN lt \subseteq still /\ mine.rule = a.mine.rule /\ set.rule = ct.rule
        ELSE set.rule = mine.rule
    BY <1>3, <1>9 DEF Top
  <2>4. /\ \A f \in {"group", "tunnel"} : mine[f] = a.mine[f]
        /\ \A f \in {"current", "group", "tunnel", "open"} : set[f] = ct[f]
        /\ \A f \in {"current", "var"} : f \in l <=> f \in lt
    BY <1>3, <1>9
  <2>5. lt \ {"rule"} \subseteq still /\ still \subseteq Kept \cup {"var"} /\ a.kind \in Templates
    BY <1>2, <1>3, <1>9
  <2>6. QED  BY <1>2, <2>2, <2>3, <2>4, <2>5 DEF RunsTemplate
<1>11. Good(s2, c2, fs2, l2, FALSE)
  <2>1. RunsTemplate(t[Len(t)], ct, lt, l, set, mine, still)  BY <1>7, <1>10
  <2>2. Good(Append(t, [kind |-> "params", saved |-> set, frames |-> fs, lost |-> l, mine |-> mine]),
             [set EXCEPT !.current = mine.current], Append(fs, None), still \ {"current", "var"}, FALSE)
    BY <1>6, <1>7, <2>1, RunGood
  <2>3. QED  BY <1>8, <2>2
<1>12. QED  BY <1>1, <1>11 DEF IInv

(* next-match and apply-imports (AnotherRule) keep the invariant.           *)
LEMMA AnotherRuleGood ==
  ASSUME IInv, NEW kind \in {"next", "imports"}, NEW p, AnotherRule(kind, p)
  PROVE  IInv'
<1> DEFINE Node  == context.rule[1]
           R     == IF kind = "next" THEN select_template_next(templates, Node, context.rule[2])
                    ELSE ApplyImports(templates, Node, context.rule[2])
           Depth == context.depth + (IF kind = "next" THEN 1 ELSE 0)
           Set   == [WithParams(p) EXCEPT !.rule = <<Node, R>>, !.depth = Depth]
           Mine  == InTemplate(Node, <<Node, R>>, Tunnelled(p))
<1> PICK rule, depth, set, mine : rule = <<Node, R>> /\ depth = Depth /\ set = Set /\ mine = Mine  OBVIOUS
<1>1. ~raised /\ stack # <<>> /\ Top.kind \notin Templates
  BY DEF AnotherRule, InBody, Seeing, Running
<1>2. \/ raised' = TRUE /\ UNCHANGED <<context, frames, stack, lost>>
      \/ /\ stack' = Append(stack, Activation("apply", context, Tunnelled(p)))
         /\ context' = WithParams(p) /\ lost' = StillLost(p) /\ frames' = frames /\ raised' = raised
      \/ /\ run_template_body(Append(stack, Activation(kind, context, Tunnelled(p))),
                              Set, Mine, StillLost(p) \ {"rule"})
         /\ raised' = raised
  BY DEF AnotherRule, Fail
<1>3. CASE raised' = TRUE /\ UNCHANGED <<context, frames, stack, lost>>
  BY <1>1, <1>3, RaiseGood
<1>4. CASE /\ stack' = Append(stack, Activation("apply", context, Tunnelled(p)))
           /\ context' = WithParams(p) /\ lost' = StillLost(p) /\ frames' = frames /\ raised' = raised
  BY <1>1, <1>4, ApplyGood
<1>5. CASE /\ run_template_body(Append(stack, Activation(kind, context, Tunnelled(p))),
                               Set, Mine, StillLost(p) \ {"rule"})
           /\ raised' = raised
  <2>1. run_template_body(Append(stack, Activation(kind, context, Tunnelled(p))),
                          set, mine, StillLost(p) \ {"rule"})
    BY <1>5
  <2> PICK c, m, b : c = WithParams(p) /\ m = Tunnelled(p) /\ b = Top  OBVIOUS
  <2> PICK still : still = StillLost(p) \ {"rule"}  OBVIOUS
  <2>2. set = [c EXCEPT !.rule = rule, !.depth = depth]
        /\ mine = [m EXCEPT !.current = Node, !.rule = rule, !.var = Global, !.own = FALSE]
    BY DEF InTemplate
  <2>3. depth = context.depth + (IF kind = "imports" THEN 0 ELSE 1)  OBVIOUS
  <2> HIDE DEF Node, R, Depth, Set, Mine
  <2>4. IsActivation(b) /\ IsContext(context)
    <3> PICK s : s = stack  OBVIOUS
    <3>1. Good(s, context, frames, lost, raised) /\ s # <<>> /\ b = s[Len(s)]  BY <1>1 DEF IInv, Top
    <3>2. QED  BY <3>1, TopIs
  <2>5. IsContext(c) /\ DOMAIN c = {"current", "rule", "group", "tunnel", "depth", "open"}
    BY <2>4 DEF IsContext, WithParams, Kept
  <2>6. IsMine(m) /\ DOMAIN m = {"current", "rule", "group", "tunnel", "var", "own"}
    <3>1. IsMine(b.mine)  BY <2>4 DEF IsActivation
    <3>2. DOMAIN m = DOMAIN b.mine /\ m["own"] = b.mine["own"]
      BY <3>1 DEF IsMine, Kept, Tunnelled
    <3>3. QED  BY <3>1, <3>2 DEF IsMine, Kept
  <2>7. /\ IsContext(set) /\ \A f \in {"current", "group", "tunnel", "open"} : set[f] = c[f]
        /\ set["depth"] = depth /\ set["rule"] = rule
    BY <2>2, <2>5 DEF IsContext
  <2>8. /\ IsMine(mine) /\ mine["own"] = FALSE /\ mine["rule"] = rule
        /\ \A f \in {"group", "tunnel"} : mine[f] = m[f]
    BY <2>2, <2>6 DEF IsMine
  <2>9. kind \in Templates \ {"apply"} /\ kind # "call"  BY DEF Templates
  <2>10. /\ \A f \in {"current", "group", "tunnel", "open"} : set[f] = WithParams(p)[f]
         /\ \A f \in {"group", "tunnel"} : mine[f] = Tunnelled(p)[f]
         /\ set.depth = context.depth + (IF kind = "imports" THEN 0 ELSE 1)
    BY <2>3, <2>7, <2>8
  <2>11. IF kind = "call"
         THEN still = StillLost(p) /\ mine.rule = Top.mine.rule /\ set.rule = context.rule
         ELSE still = StillLost(p) \ {"rule"} /\ set.rule = mine.rule
    BY <2>7, <2>8, <2>9
  <2>12. run_template_body(Append(stack, Activation(kind, context, Tunnelled(p))), set, mine, still)
    BY <2>1
  <2>13. QED
    BY <1>1, <1>5, <2>7, <2>8, <2>9, <2>10, <2>11, <2>12, CalledGood
<1>6. QED  BY <1>2, <1>3, <1>4, <1>5

(* call-template (Call) keeps the invariant.                                *)
LEMMA CallGood ==
  ASSUME IInv, NEW name, NEW p, Call(name, p)
  PROVE  IInv'
<1>1. ~raised /\ stack # <<>> /\ Top.kind \notin Templates
  BY DEF Call, InBody, Seeing, Running
<1>2. CASE TooDeep(context.depth + 1)
  <2>1. raised' = TRUE /\ UNCHANGED <<context, frames, stack, lost>>  BY <1>2 DEF Call, Fail
  <2>2. QED  BY <1>1, <2>1, RaiseGood
<1>3. CASE ~TooDeep(context.depth + 1)
  <2> PICK c, m, b : c = WithParams(p) /\ m = Tunnelled(p) /\ b = Top  OBVIOUS
  <2> PICK set : set = [c EXCEPT !.depth = c.depth + 1]  OBVIOUS
  <2> PICK mine : mine = [m EXCEPT !.current = b.mine.current, !.rule = b.mine.rule,
                                   !.var = Global, !.own = FALSE]
    OBVIOUS
  <2> PICK still : still = StillLost(p)  OBVIOUS
  <2>1. run_template_body(Append(stack, Activation("call", context, Tunnelled(p))), set, mine, still)
        /\ raised' = raised
    BY <1>3 DEF Call, InTemplate
  <2>2. IsActivation(b) /\ IsContext(context)
    <3> PICK s : s = stack  OBVIOUS
    <3>1. Good(s, context, frames, lost, raised) /\ s # <<>> /\ b = s[Len(s)]  BY <1>1 DEF IInv, Top
    <3>2. QED  BY <3>1, TopIs
  <2>3. /\ IsContext(c) /\ DOMAIN c = {"current", "rule", "group", "tunnel", "depth", "open"}
        /\ c["depth"] = context["depth"] /\ c["rule"] = context["rule"]
    BY <2>2 DEF IsContext, WithParams, Kept
  <2>4. IsMine(m) /\ DOMAIN m = {"current", "rule", "group", "tunnel", "var", "own"}
    <3>1. IsMine(b.mine)  BY <2>2 DEF IsActivation
    <3>2. DOMAIN m = DOMAIN b.mine /\ m["own"] = b.mine["own"]
      BY <3>1 DEF IsMine, Kept, Tunnelled
    <3>3. QED  BY <3>1, <3>2 DEF IsMine, Kept
  <2>5. /\ IsContext(set) /\ \A f \in {"current", "group", "tunnel", "open"} : set[f] = c[f]
        /\ set["depth"] = c["depth"] + 1 /\ set["rule"] = c["rule"]
    BY <2>3 DEF IsContext
  <2>6. /\ IsMine(mine) /\ mine["own"] = FALSE /\ mine["rule"] = b.mine["rule"]
        /\ \A f \in {"group", "tunnel"} : mine[f] = m[f]
    BY <2>4 DEF IsMine
  <2>7. "call" \in Templates \ {"apply"}  BY DEF Templates
  <2>8. /\ \A f \in {"current", "group", "tunnel", "open"} : set[f] = WithParams(p)[f]
        /\ \A f \in {"group", "tunnel"} : mine[f] = Tunnelled(p)[f]
        /\ set.depth = context.depth + (IF "call" = "imports" THEN 0 ELSE 1)
    BY <2>3, <2>5, <2>6
  <2>9. IF "call" = "call"
        THEN still = StillLost(p) /\ mine.rule = Top.mine.rule /\ set.rule = context.rule
        ELSE still = StillLost(p) \ {"rule"} /\ set.rule = mine.rule
    BY <2>3, <2>5, <2>6
  <2>10. QED
    BY <1>1, <2>1, <2>5, <2>6, <2>7, <2>8, <2>9, CalledGood
<1>4. QED  BY <1>2, <1>3

-----------------------------------------------------------------------------
(* The actions that change the innermost activation.                        *)
Changed(b, kind, mine) == [b EXCEPT !.kind = kind, !.mine = mine]

(* The innermost activation with another kind and another context.          *)
LEMMA ChangedIs ==
  ASSUME NEW b, IsActivation(b), NEW kind \in Kinds, NEW mine, IsMine(mine),
         NEW a, a = Changed(b, kind, mine)
  PROVE  /\ IsActivation(a) /\ a.kind = kind /\ a.mine = mine
         /\ a.saved = b.saved /\ a.frames = b.frames /\ a.lost = b.lost
<1>1. DOMAIN b = {"kind", "saved", "frames", "lost", "mine"}  BY DEF IsActivation
<1>2. /\ DOMAIN a = DOMAIN b /\ a.kind = kind /\ a.mine = mine
      /\ a.saved = b.saved /\ a.frames = b.frames /\ a.lost = b.lost
  BY <1>1 DEF Changed
<1>3. QED  BY <1>1, <1>2 DEF IsActivation

(* Another frame in the place of the last.                                  *)
Relasts(b, d, a, fs, l, gs, l2) ==
  /\ IsActivation(b) /\ b.kind \in Framed /\ a.kind \in Framed /\ a.frames = b.frames
  /\ fs \in Frames /\ gs \in Frames /\ Len(gs) = Len(fs) /\ \A k \in 1..Len(fs) - 1 : gs[k] = fs[k]
  /\ "var" \in l => "var" \in l2
  /\ FramesOK(b, fs, l) /\ FramesOK(d, b.frames, b.lost)

(* What replacing the last element leaves and puts.                         *)
LEMMA NewLast ==
  ASSUME NEW b, NEW d, NEW a, NEW fs, NEW l, NEW gs, NEW l2, Relasts(b, d, a, fs, l, gs, l2)
  PROVE  /\ Bound(gs) /\ Len(gs) >= Base(a)
         /\ "var" \notin l2 => /\ Fits(a, gs) /\ Len(gs) = Len(b.frames) + 1
                               /\ \A k \in 1..Len(b.frames) : gs[k] = b.frames[k]
                               /\ gs[Len(gs)] = None => LookupIn(gs) = LookupIn(b.frames)
<1> PICK bs : bs = b.frames  OBVIOUS
<1>0. /\ IsActivation(b) /\ b.kind \in Framed /\ a.kind \in Framed /\ a.frames = b.frames
      /\ fs \in Frames /\ gs \in Frames /\ Len(gs) = Len(fs) /\ \A k \in 1..Len(fs) - 1 : gs[k] = fs[k]
      /\ "var" \in l => "var" \in l2
      /\ FramesOK(b, fs, l) /\ FramesOK(d, b.frames, b.lost)
  BY DEF Relasts
<1>1. bs \in Frames /\ Len(bs) \in Nat /\ Len(fs) \in Nat /\ Len(gs) \in Nat
  BY <1>0 DEF IsActivation, Frames
<1>2. Bound(bs) /\ Bound(fs) /\ Len(bs) > 0 /\ Len(fs) >= Base(b)  BY <1>0 DEF FramesOK, Bound
<1>3. b.kind # "attributes" /\ a.kind # "attributes" /\ Base(b) = Len(bs) + 1 /\ Base(a) = Len(bs) + 1
  BY <1>0 DEF Base, Framed
<1>4. Bound(gs) /\ Len(gs) >= Base(a)
  <2>1. Len(fs) >= 2 /\ 1 \in 1..Len(fs) - 1  BY <1>1, <1>2, <1>3
  <2>2. QED  BY <1>0, <1>1, <1>2, <1>3, <2>1 DEF Bound
<1>5. ASSUME "var" \notin l2
      PROVE  /\ Fits(a, gs) /\ Len(gs) = Len(bs) + 1 /\ \A k \in 1..Len(bs) : gs[k] = bs[k]
             /\ gs[Len(gs)] = None => LookupIn(gs) = LookupIn(bs)
  <2>1. Fits(b, fs)  BY <1>0, <1>5 DEF FramesOK
  <2>2. Len(fs) = Len(bs) + 1 /\ \A k \in 1..Len(fs) - 1 : fs[k] = bs[k]  BY <1>3, <2>1 DEF Fits
  <2>3. Len(gs) = Len(bs) + 1 /\ \A k \in 1..Len(bs) : gs[k] = bs[k]  BY <1>0, <1>1, <2>2
  <2>4. Fits(a, gs)  BY <1>0, <1>1, <1>3, <2>3 DEF Fits
  <2>5. gs[Len(gs)] = None => LookupIn(gs) = LookupIn(bs)  BY <1>0, <1>1, <1>2, <2>3, LookupBeyond
  <2>6. QED  BY <2>3, <2>4, <2>5
<1>6. QED  BY <1>4, <1>5

(* A changed activation keeps what the one below relies on.                 *)
LEMMA SameKept ==
  ASSUME NEW a, NEW b, a.saved = b.saved, a.lost = b.lost, Alike(b, a), Saved(a.kind) = Saved(b.kind),
         a.kind \in Templates <=> b.kind \in Templates, a.kind = "call" <=> b.kind = "call",
         \A f \in Kept : a.mine[f] = b.mine[f]
  PROVE  /\ \A c, l : ContextOK(b, c, l) => ContextOK(a, c, l)
         /\ \A d : SavedOK(d, b) => SavedOK(d, a)
<1>1. ASSUME NEW c, NEW l, ContextOK(b, c, l)  PROVE ContextOK(a, c, l)
  <2> SUFFICES ASSUME NEW f \in Kept, f \notin l
               PROVE  c[f] = a.mine[f] \/ (f = "rule" /\ a.kind \in Templates \ {"call"})
    BY DEF ContextOK
  <2>1. c[f] = b.mine[f] \/ (f = "rule" /\ b.kind \in Templates \ {"call"})  BY <1>1 DEF ContextOK
  <2>2. QED  BY <2>1
<1>2. ASSUME NEW d, SavedOK(d, b)  PROVE SavedOK(d, a)
  <2>1. \A f \in Kept \cap Saved(a.kind) : f \notin a.lost => a.saved[f] = d.mine[f]
    BY <1>2 DEF SavedOK
  <2>2. a.kind \in {"params", "body"} <=> b.kind \in {"params", "body"}  BY DEF Alike
  <2>3. \A f \in Kept \ Saved(a.kind) :
          \/ f = "rule" /\ a.kind \in {"params", "body"} /\ d.kind # "call"
          \/ a.mine[f] = d.mine[f]
    <3>1. \A f \in Kept \ Saved(b.kind) :
            \/ f = "rule" /\ b.kind \in {"params", "body"} /\ d.kind # "call"
            \/ b.mine[f] = d.mine[f]
      BY <1>2 DEF SavedOK
    <3>2. QED  BY <2>2, <3>1
  <2>4. QED  BY <2>1, <2>3 DEF SavedOK
<1>3. QED  BY <1>1, <1>2

(* Binding a variable (Bind) keeps the invariant.                           *)
LEMMA BindGood ==
  ASSUME IInv, NEW value \in Values, Bind(value)
  PROVE  IInv'
<1> PICK s, c, fs, l : s = stack /\ c = context /\ fs = frames /\ l = lost  OBVIOUS
<1> PICK s2, fs2 : s2 = stack' /\ fs2 = frames'  OBVIOUS
<1> PICK n : n = Len(s)  OBVIOUS
<1> PICK b : b = s[n]  OBVIOUS
<1> PICK m : m = [b.mine EXCEPT !.var = value, !.own = TRUE]  OBVIOUS
<1> PICK a : a = Changed(b, b.kind, m)  OBVIOUS
<1>1. /\ raised = FALSE /\ Good(s, c, fs, l, FALSE) /\ s # <<>> /\ b.kind \notin {"params", "attributes"}
      /\ raised' = FALSE /\ c = context' /\ l = lost'
  BY DEF IInv, Bind, InBody, Seeing, Running, Top
<1>2. fs2 = [fs EXCEPT ![Len(fs)] = value] /\ s2 = [s EXCEPT ![n] = a]
  BY DEF Bind, Becomes, Top, Changed
<1>3. /\ n \in Nat /\ n >= 1 /\ IsActivation(b) /\ IsContext(c) /\ fs \in Frames
      /\ l \subseteq Kept \cup {"var"} /\ TopOK(b, n, s, c, fs, l, FALSE) /\ LevelOK(s, n)
  BY <1>1, TopIs
<1>4. /\ IsMine(m) /\ m["var"] = value /\ \A f \in Kept : m[f] = b.mine[f]
  BY <1>3 DEF IsActivation, IsMine, Kept
<1>5. b.kind \in Kinds  BY <1>3 DEF IsActivation
<1>6. /\ IsActivation(a) /\ a.kind = b.kind /\ a.mine = m
      /\ a.saved = b.saved /\ a.frames = b.frames /\ a.lost = b.lost
  BY <1>3, <1>4, <1>5, ChangedIs
<1>7. value # None  BY XsltAssumption
<1>8. ContextOK(b, c, l) /\ FramesOK(b, fs, l)  BY <1>3 DEF TopOK
<1>9. (\A d : SavedOK(d, b) => SavedOK(d, a)) /\ (\A y, z : ContextOK(b, y, z) => ContextOK(a, y, z))
  <2>1. (\A f \in Kept : a.mine[f] = b.mine[f]) /\ Alike(b, a) /\ Saved(a.kind) = Saved(b.kind)
    <3>1. \A f \in Kept : a.mine[f] = b.mine[f]  BY ONLY <1>4, <1>6
    <3>2. Alike(b, a)  BY <1>6 DEF Alike
    <3>3. Saved(a.kind) = Saved(b.kind)  BY <1>6
    <3>4. QED  BY <3>1, <3>2, <3>3
  <2>2. QED  BY <1>6, <2>1, SameKept
<1>10. ContextOK(a, c, l) /\ (n > 1 => SavedOK(s[n - 1], a))
  <2>1. n > 1 => SavedOK(s[n - 1], b)  BY <1>3 DEF LevelOK
  <2>2. QED  BY <1>8, <1>9, <2>1
<1>11. fs2 \in Frames /\ FramesOK(a, fs2, l)
  <2>1. Len(fs) \in Nat /\ Len(fs) > 0 /\ fs[1] # None /\ Len(fs) >= Base(b)
    BY <1>3, <1>8 DEF Frames, FramesOK, Bound
  <2>2. fs2 \in Frames /\ Len(fs2) = Len(fs) /\ fs2[Len(fs)] = value
        /\ \A k \in 1..Len(fs) - 1 : fs2[k] = fs[k]
    BY <1>2, <1>3, <2>1 DEF Frames
  <2>3. Bound(fs2)
    <3>1. fs2[1] = value \/ fs2[1] = fs[1]  BY <2>1, <2>2
    <3>2. QED  BY <1>7, <2>1, <2>2, <3>1 DEF Bound
  <2>4. LookupIn(fs2) = value
    <3>1. Len(fs) \in 1..Len(fs2) /\ fs2[Len(fs)] # None
          /\ \A j \in Len(fs) + 1..Len(fs2) : fs2[j] = None
      BY <1>7, <2>1, <2>2
    <3>2. QED  BY <2>2, <3>1, LookupIs
  <2>5. Base(a) = Base(b)  BY <1>6 DEF Base
  <2>6. Fits(b, fs) => Fits(a, fs2)  BY <1>6, <2>1, <2>2, <2>5 DEF Fits
  <2>7. QED  BY <1>4, <1>6, <1>8, <2>1, <2>2, <2>3, <2>4, <2>5, <2>6 DEF FramesOK
<1>12. CanChange(s, n, a, c, fs2, l)
  BY <1>3, <1>6, <1>9, <1>10, <1>11 DEF CanChange, Alike
<1>13. Good(s2, c, fs2, l, FALSE)
  <2>1. CanChange(s, Len(s), a, c, fs2, l)  BY <1>12
  <2>2. Good([s EXCEPT ![Len(s)] = a], c, fs2, l, FALSE)  BY <1>1, <2>1, ChangeGood
  <2>3. QED  BY <1>2, <2>2
<1>14. QED  BY <1>1, <1>13 DEF IInv

(* The body of a template after its parameters (Begin).                     *)
LEMMA BeginGood ==
  ASSUME IInv, NEW value \in Values \cup {None}, Begin(value)
  PROVE  IInv'
<1> PICK s, c, fs, l : s = stack /\ c = context /\ fs = frames /\ l = lost  OBVIOUS
<1> PICK s2, fs2 : s2 = stack' /\ fs2 = frames'  OBVIOUS
<1> PICK n : n = Len(s)  OBVIOUS
<1> PICK b : b = s[n]  OBVIOUS
<1> PICK m : m = [b.mine EXCEPT !.own = (value # None), !.var = IF value = None THEN @ ELSE value]  OBVIOUS
<1> PICK a : a = Changed(b, "body", m)  OBVIOUS
<1>1. /\ raised = FALSE /\ Good(s, c, fs, l, FALSE) /\ s # <<>> /\ b.kind = "params"
      /\ raised' = FALSE /\ c = context' /\ l = lost'
  BY DEF IInv, Begin, Running, Top
<1>2. fs2 = [fs EXCEPT ![Len(fs)] = value] /\ s2 = [s EXCEPT ![n] = a]
  BY DEF Begin, Becomes, Top, Changed
<1>3. /\ n \in Nat /\ n >= 1 /\ IsActivation(b) /\ IsContext(c) /\ fs \in Frames
      /\ l \subseteq Kept \cup {"var"} /\ TopOK(b, n, s, c, fs, l, FALSE) /\ LevelOK(s, n) /\ n > 1
  BY <1>1, TopIs
<1>4. /\ IsMine(m) /\ m["own"] = (value # None)
      /\ value # None => m["var"] = value
      /\ \A f \in Kept : m[f] = b.mine[f]
  BY <1>3 DEF IsActivation, IsMine, Kept
<1>5. "body" \in Kinds  BY DEF Kinds
<1>6. /\ IsActivation(a) /\ a.kind = "body" /\ a.mine = m
      /\ a.saved = b.saved /\ a.frames = b.frames /\ a.lost = b.lost
  BY <1>3, <1>4, <1>5, ChangedIs
<1>7. ContextOK(b, c, l) /\ FramesOK(b, fs, l)  BY <1>3 DEF TopOK
<1>8. (\A d : SavedOK(d, b) => SavedOK(d, a)) /\ (\A y, z : ContextOK(b, y, z) => ContextOK(a, y, z))
  <2>1. (\A f \in Kept : a.mine[f] = b.mine[f]) /\ Alike(b, a) /\ Saved(a.kind) = Saved(b.kind)
        /\ a.kind \notin Templates /\ b.kind \notin Templates
    <3>1. \A f \in Kept : a.mine[f] = b.mine[f]  BY ONLY <1>4, <1>6
    <3>2. Alike(b, a)  BY <1>1, <1>6 DEF Alike
    <3>3. Saved(a.kind) = Saved(b.kind)  BY <1>1, <1>6 DEF Saved
    <3>4. a.kind \notin Templates /\ b.kind \notin Templates  BY <1>1, <1>6 DEF Templates
    <3>5. QED  BY <3>1, <3>2, <3>3, <3>4
  <2>2. a.kind # "call" /\ b.kind # "call"  BY <1>1, <1>6
  <2>3. QED  BY <1>6, <2>1, <2>2, SameKept
<1>9. ContextOK(a, c, l) /\ SavedOK(s[n - 1], a)
  <2>1. SavedOK(s[n - 1], b)  BY <1>3 DEF LevelOK
  <2>2. QED  BY <1>7, <1>8, <2>1
<1>10. FramesOK(s[n - 1], b.frames, b.lost)  BY <1>3 DEF LevelOK
<1>11. fs2 \in Frames /\ FramesOK(a, fs2, l)
  <2>1. Len(fs) \in Nat /\ Len(fs) > 0  BY <1>3, <1>7 DEF Frames, FramesOK, Bound
  <2>2. fs2 \in Frames /\ Len(fs2) = Len(fs) /\ fs2[Len(fs)] = value
        /\ \A k \in 1..Len(fs) - 1 : fs2[k] = fs[k]
    BY <1>2, <1>3, <2>1 DEF Frames
  <2>3. b.kind \in Framed /\ a.kind \in Framed  BY <1>1, <1>6 DEF Framed
  <2>4. Bound(fs2) /\ Len(fs2) >= Base(a) /\ ("var" \notin l => Fits(a, fs2))
    <3>1. Relasts(b, s[n - 1], a, fs, l, fs2, l)  BY <1>3, <1>6, <1>7, <1>10, <2>2, <2>3 DEF Relasts
    <3>2. QED  BY <3>1, NewLast
  <2>5. ASSUME a.mine.own  PROVE LookupIn(fs2) = a.mine.var
    <3>1. value # None /\ a.mine["var"] = value
      <4>1. a.mine["own"] = (value # None)  BY <1>4, <1>6
      <4>2. QED  BY <1>4, <1>6, <2>5, <4>1
    <3>2. Len(fs) \in 1..Len(fs2) /\ fs2[Len(fs)] # None
          /\ \A j \in Len(fs) + 1..Len(fs2) : fs2[j] = None
      BY <2>1, <2>2, <3>1
    <3>3. QED  BY <2>2, <3>1, <3>2, LookupIs
  <2>6. QED  BY <1>6, <2>2, <2>4, <2>5 DEF FramesOK
<1>12. CanChange(s, n, a, c, fs2, l)
  BY <1>1, <1>3, <1>6, <1>9, <1>11 DEF CanChange, Alike
<1>13. Good(s2, c, fs2, l, FALSE)
  <2>1. CanChange(s, Len(s), a, c, fs2, l)  BY <1>12
  <2>2. Good([s EXCEPT ![Len(s)] = a], c, fs2, l, FALSE)  BY <1>1, <2>1, ChangeGood
  <2>3. QED  BY <1>2, <2>2
<1>14. QED  BY <1>1, <1>13 DEF IInv

(* The next item of an iteration (NextItem) keeps the invariant.            *)
LEMMA NextItemGood ==
  ASSUME IInv, NEW x, NextItem(x)
  PROVE  IInv'
<1> PICK s, c, fs, l : s = stack /\ c = context /\ fs = frames /\ l = lost  OBVIOUS
<1> PICK s2, c2, fs2, l2 : s2 = stack' /\ c2 = context' /\ fs2 = frames' /\ l2 = lost'  OBVIOUS
<1> PICK n : n = Len(s)  OBVIOUS
<1> PICK b, d : b = s[n] /\ d = s[n - 1]  OBVIOUS
<1> PICK set : set = Assigned(b.kind) \ {"rule"}  OBVIOUS
<1> PICK fresh : fresh = (b.kind = "iterate")  OBVIOUS
<1>y. PICK y : y = [f \in DOMAIN b.mine |-> IF f \in set THEN x ELSE b.mine[f]]  OBVIOUS
<1>m. PICK m : m = [y EXCEPT !.var = d.mine.var, !.own = d.mine.own /\ (fresh \/ Last(fs) = None)]
  OBVIOUS
<1>a. PICK a : a = Changed(b, b.kind, m)  OBVIOUS
<1>1. /\ raised = FALSE /\ Good(s, c, fs, l, FALSE) /\ s # <<>> /\ raised' = FALSE
      /\ b.kind \in {"foreach", "items", "group", "iterate", "typed"}
  BY DEF IInv, NextItem, Running, Top
<1>2. /\ n \in Nat /\ n >= 1 /\ IsActivation(b) /\ IsContext(c) /\ fs \in Frames
      /\ l \subseteq Kept \cup {"var"} /\ TopOK(b, n, s, c, fs, l, FALSE) /\ LevelOK(s, n) /\ n > 1
      /\ IsActivation(d)
  BY <1>1, TopIs
<1>3. /\ c2 = [f \in DOMAIN c |-> IF f \in set THEN x ELSE c[f]]
      /\ l2 = l \ set
      /\ fs2 = IF fresh THEN Append(Front(fs), None) ELSE fs
      /\ s2 = [s EXCEPT ![n] = a]
  <2>1. Top = b /\ Below = d  BY <1>2 DEF Top, Below
  <2>2. QED  BY <2>1, <1>y, <1>m, <1>a DEF NextItem, Becomes, Changed
<1>4. set \subseteq {"current", "group"} /\ set \subseteq Saved(b.kind)
  BY <1>1 DEF Assigned, Saved
<1>5. /\ IsMine(m) /\ m["var"] = d.mine["var"]
      /\ m["own"] = (d.mine.own /\ (fresh \/ Last(fs) = None))
      /\ \A f \in Kept : m[f] = IF f \in set THEN x ELSE b.mine[f]
  <2>1. DOMAIN b.mine = {"current", "rule", "group", "tunnel", "var", "own"} /\ IsMine(d.mine)
    BY <1>2 DEF IsActivation, IsMine, Kept
  <2>2. DOMAIN y = DOMAIN b.mine /\ \A f \in Kept : y[f] = IF f \in set THEN x ELSE b.mine[f]
    BY <2>1, <1>y DEF Kept
  <2>3. (d.mine.own /\ (fresh \/ Last(fs) = None)) \in BOOLEAN  OBVIOUS
  <2>4. DOMAIN m = DOMAIN y /\ m["var"] = d.mine["var"]
        /\ m["own"] = (d.mine.own /\ (fresh \/ Last(fs) = None))
        /\ \A f \in Kept : m[f] = y[f]
    BY <2>1, <2>2, <1>m DEF Kept
  <2>5. QED  BY <2>1, <2>2, <2>3, <2>4 DEF IsMine, Kept
<1>6. b.kind \in Kinds  BY <1>2 DEF IsActivation
<1>7. /\ IsActivation(a) /\ a.kind = b.kind /\ a.mine = m
      /\ a.saved = b.saved /\ a.frames = b.frames /\ a.lost = b.lost
  BY <1>2, <1>5, <1>6, <1>a, ChangedIs
<1>8. \A f \in Kept : a.mine[f] = IF f \in set THEN x ELSE b.mine[f]
  BY <1>5, <1>7
<1>9. /\ ContextOK(b, c, l) /\ FramesOK(b, fs, l) /\ SavedOK(d, b) /\ FramesOK(d, b.frames, b.lost)
      /\ c.depth = DepthAt(s, n)
  BY <1>1, <1>2 DEF TopOK, LevelOK, Counted, Templates
<1>10. /\ IsContext(c2) /\ c2["depth"] = c["depth"] /\ c2["open"] = c["open"]
       /\ \A f \in Kept : c2[f] = IF f \in set THEN x ELSE c[f]
  <2>1. DOMAIN c = {"current", "rule", "group", "tunnel", "depth", "open"}  BY <1>2 DEF IsContext, Kept
  <2>2. DOMAIN c2 = DOMAIN c /\ \A f \in DOMAIN c : c2[f] = IF f \in set THEN x ELSE c[f]  BY <1>3
  <2>3. QED  BY <1>2, <1>4, <2>1, <2>2 DEF IsContext, Kept
<1>11. ContextOK(a, c2, l2)
  <2> SUFFICES ASSUME NEW f \in Kept, f \notin l2  PROVE c2[f] = a.mine[f]
    BY DEF ContextOK
  <2>1. CASE f \in set
    BY <1>8, <1>10, <2>1
  <2>2. CASE f \notin set
    <3>1. f \notin l  BY <1>3, <2>2
    <3>2. c[f] = b.mine[f]  BY <1>1, <1>9, <3>1 DEF ContextOK, Templates
    <3>3. QED  BY <1>8, <1>10, <2>2, <3>2
  <2>3. QED  BY <2>1, <2>2
<1>12. SavedOK(d, a)
  <2>1. \A f \in Kept \cap Saved(a.kind) : f \notin a.lost => a.saved[f] = d.mine[f]
    BY <1>7, <1>9 DEF SavedOK
  <2>2. ASSUME NEW f \in Kept \ Saved(a.kind)  PROVE a.mine[f] = d.mine[f]
    <3>1. f \in Kept \ Saved(b.kind) /\ f \notin set /\ b.kind \notin {"params", "body"}
      BY <1>1, <1>4, <1>7
    <3>2. b.mine[f] = d.mine[f]  BY <1>9, <3>1 DEF SavedOK
    <3>3. QED  BY <1>8, <3>1, <3>2
  <2>3. QED  BY <2>1, <2>2 DEF SavedOK
<1>13. fs2 \in Frames /\ FramesOK(a, fs2, l2)
  <2>1. Len(fs) \in Nat /\ Len(fs) > 0 /\ fs # <<>>  BY <1>2, <1>9 DEF Frames, FramesOK, Bound
  <2>2. fs2 \in Frames /\ Len(fs2) = Len(fs) /\ (\A k \in 1..Len(fs) - 1 : fs2[k] = fs[k])
        /\ (fresh => fs2[Len(fs2)] = None) /\ (~fresh => fs2 = fs)
    <3>1. CASE fresh
      <4> PICK hs : hs = Front(fs)  OBVIOUS
      <4>1. hs \in Frames /\ Len(hs) = Len(fs) - 1 /\ \A k \in 1..Len(fs) - 1 : hs[k] = fs[k]
        BY <1>2, <2>1, FrontIs DEF Frames
      <4>2. fs2 = Append(hs, None)  BY <1>3, <3>1
      <4>3. fs2 \in Frames /\ Len(fs2) = Len(hs) + 1 /\ fs2[Len(hs) + 1] = None
            /\ \A k \in 1..Len(hs) : fs2[k] = hs[k]
        BY <4>1, <4>2 DEF Frames
      <4>4. Len(hs) \in Nat  BY <4>1 DEF Frames
      <4>5. QED  BY <2>1, <3>1, <4>1, <4>3, <4>4
    <3>2. CASE ~fresh
      BY <1>2, <1>3, <3>2
    <3>3. QED  BY <3>1, <3>2
  <2>3. "var" \notin set /\ b.kind \in Framed  BY <1>1, <1>4 DEF Framed
  <2>4. "var" \in l <=> "var" \in l2  BY <1>3, <2>3
  <2>5. Relasts(b, d, a, fs, l, fs2, l2)  BY <1>2, <1>7, <1>9, <2>2, <2>3, <2>4 DEF Relasts
  <2>6. /\ Bound(fs2) /\ Len(fs2) >= Base(a)
        /\ "var" \notin l2 => /\ Fits(a, fs2)
                              /\ fs2[Len(fs2)] = None => LookupIn(fs2) = LookupIn(b.frames)
    BY <2>2, <2>5, NewLast
  <2>7. "var" \in b.lost => "var" \in l  BY <1>1, <1>9 DEF FramesOK
  <2>8. ASSUME "var" \notin l2, a.mine.own  PROVE LookupIn(fs2) = a.mine.var
    <3>1. d.mine.own /\ (fresh \/ Last(fs) = None)
      <4>1. a.mine["own"] = (d.mine.own /\ (fresh \/ Last(fs) = None))  BY <1>5, <1>7
      <4>2. QED  BY <2>8, <4>1
    <3>2. fs2[Len(fs2)] = None  BY <2>2, <3>1 DEF Last
    <3>3. "var" \notin b.lost  BY <2>4, <2>7, <2>8
    <3>4. LookupIn(b.frames) = d.mine.var  BY <1>9, <3>1, <3>3 DEF FramesOK
    <3>5. a.mine["var"] = d.mine["var"]  BY <1>5, <1>7
    <3>6. QED  BY <2>6, <2>8, <3>2, <3>4, <3>5
  <2>9. "var" \in a.lost => "var" \in l2  BY <1>7, <2>4, <2>7
  <2>10. QED  BY <2>2, <2>6, <2>8, <2>9 DEF FramesOK
<1>14. l2 \subseteq Kept \cup {"var"}  BY <1>2, <1>3
<1>15. CanChange(s, n, a, c2, fs2, l2)
  BY <1>2, <1>7, <1>10, <1>11, <1>12, <1>13, <1>14 DEF CanChange, Alike
<1>16. Good(s2, c2, fs2, l2, FALSE)
  <2>1. CanChange(s, Len(s), a, c2, fs2, l2) /\ c2.depth = c.depth /\ c2.open = c.open  BY <1>10, <1>15
  <2>2. Good([s EXCEPT ![Len(s)] = a], c2, fs2, l2, FALSE)  BY <1>1, <2>1, ChangeGood
  <2>3. QED  BY <1>3, <2>2
<1>17. QED  BY <1>1, <1>16 DEF IInv

(* The on-completion of xsl:iterate (Complete) keeps the invariant.         *)
LEMMA CompleteGood ==
  ASSUME IInv, Complete
  PROVE  IInv'
<1> PICK s, c, fs, l : s = stack /\ c = context /\ fs = frames /\ l = lost  OBVIOUS
<1> PICK s2, c2, fs2, l2 : s2 = stack' /\ c2 = context' /\ fs2 = frames' /\ l2 = lost'  OBVIOUS
<1> PICK n : n = Len(s)  OBVIOUS
<1> PICK b, d : b = s[n] /\ d = s[n - 1]  OBVIOUS
<1> PICK a : a = Changed(b, "completion", d.mine)  OBVIOUS
<1>1. /\ raised = FALSE /\ Good(s, c, fs, l, FALSE) /\ s # <<>> /\ raised' = FALSE
      /\ b.kind = "iterate"
  BY DEF IInv, Complete, Running, Top
<1>2. /\ n \in Nat /\ n >= 1 /\ IsActivation(b) /\ IsContext(c) /\ fs \in Frames
      /\ l \subseteq Kept \cup {"var"} /\ TopOK(b, n, s, c, fs, l, FALSE) /\ LevelOK(s, n) /\ n > 1
      /\ IsActivation(d)
  BY <1>1, TopIs
<1>3. Saved("iterate") = {"current"} /\ Saved("completion") = {}
  BY DEF Saved, Assigned
<1>4. /\ c2 = [f \in DOMAIN c |-> IF f \in {"current"} THEN b.saved[f] ELSE c[f]]
      /\ l2 = (l \ {"current"}) \cup (b.lost \cap {"current", "var"})
      /\ fs2 = Append(Front(fs), None)
      /\ s2 = [s EXCEPT ![n] = a]
  <2>1. Top = b /\ Below = d  BY <1>2 DEF Top, Below
  <2>2. {"current"} \cup {"var"} = {"current", "var"}  OBVIOUS
  <2>3. QED  BY <1>3, <2>1, <2>2 DEF Complete, Becomes, Changed, Restored, LostAfter
<1>5. IsMine(d.mine) /\ "completion" \in Kinds  BY <1>2 DEF IsActivation, Kinds
<1>6. /\ IsActivation(a) /\ a.kind = "completion" /\ a.mine = d.mine
      /\ a.saved = b.saved /\ a.frames = b.frames /\ a.lost = b.lost
  BY <1>2, <1>5, ChangedIs
<1>7. /\ ContextOK(b, c, l) /\ FramesOK(b, fs, l) /\ SavedOK(d, b) /\ FramesOK(d, b.frames, b.lost)
  BY <1>2 DEF TopOK, LevelOK
<1>8. /\ IsContext(c2) /\ c2["depth"] = c["depth"] /\ c2["open"] = c["open"]
      /\ c2["current"] = b.saved["current"]
      /\ \A f \in {"rule", "group", "tunnel"} : c2[f] = c[f]
  <2>1. DOMAIN c = {"current", "rule", "group", "tunnel", "depth", "open"}  BY <1>2 DEF IsContext, Kept
  <2>2. DOMAIN c2 = DOMAIN c /\ \A f \in DOMAIN c : c2[f] = IF f \in {"current"} THEN b.saved[f] ELSE c[f]
    BY <1>4
  <2>3. QED  BY <1>2, <2>1, <2>2 DEF IsContext
<1>9. ContextOK(a, c2, l2)
  <2> SUFFICES ASSUME NEW f \in Kept, f \notin l2  PROVE c2[f] = d.mine[f]
    BY <1>6 DEF ContextOK
  <2>1. CASE f = "current"
    <3>1. f \notin b.lost /\ f \in Kept \cap Saved(b.kind)  BY <1>1, <1>3, <1>4, <2>1
    <3>2. b.saved[f] = d.mine[f]  BY <1>7, <3>1 DEF SavedOK
    <3>3. QED  BY <1>8, <2>1, <3>2
  <2>2. CASE f # "current"
    <3>1. f \notin l /\ f \in Kept \ Saved(b.kind) /\ f \in {"rule", "group", "tunnel"}
      BY <1>1, <1>3, <1>4, <2>2 DEF Kept
    <3>2. c[f] = b.mine[f]  BY <1>1, <1>7, <3>1 DEF ContextOK, Templates
    <3>3. b.mine[f] = d.mine[f]  BY <1>1, <1>7, <3>1 DEF SavedOK
    <3>4. QED  BY <1>8, <3>1, <3>2, <3>3
  <2>3. QED  BY <2>1, <2>2
<1>10. SavedOK(d, a)  BY <1>3, <1>6 DEF SavedOK
<1>11. fs2 \in Frames /\ FramesOK(a, fs2, l2)
  <2>1. Len(fs) \in Nat /\ Len(fs) > 0 /\ fs # <<>>  BY <1>2, <1>7 DEF Frames, FramesOK, Bound
  <2>2. fs2 \in Frames /\ Len(fs2) = Len(fs) /\ (\A k \in 1..Len(fs) - 1 : fs2[k] = fs[k])
        /\ fs2[Len(fs2)] = None
    <3> PICK hs : hs = Front(fs)  OBVIOUS
    <3>1. hs \in Frames /\ Len(hs) = Len(fs) - 1 /\ \A k \in 1..Len(fs) - 1 : hs[k] = fs[k]
      BY <1>2, <2>1, FrontIs DEF Frames
    <3>2. fs2 = Append(hs, None) /\ Len(hs) \in Nat  BY <1>4, <3>1 DEF Frames
    <3>3. fs2 \in Frames /\ Len(fs2) = Len(hs) + 1 /\ fs2[Len(hs) + 1] = None
          /\ \A k \in 1..Len(hs) : fs2[k] = hs[k]
      BY <3>1, <3>2 DEF Frames
    <3>4. QED  BY <2>1, <3>1, <3>2, <3>3
  <2>3. b.kind \in Framed /\ a.kind \in Framed  BY <1>1, <1>6 DEF Framed
  <2>4. "var" \notin l2 => "var" \notin l /\ "var" \notin b.lost  BY <1>4
  <2>5. Relasts(b, d, a, fs, l, fs2, l2)  BY <1>2, <1>6, <1>7, <2>2, <2>3, <2>4 DEF Relasts
  <2>6. /\ Bound(fs2) /\ Len(fs2) >= Base(a)
        /\ "var" \notin l2 => Fits(a, fs2) /\ LookupIn(fs2) = LookupIn(b.frames)
    BY <2>2, <2>5, NewLast
  <2>7. ASSUME "var" \notin l2, a.mine.own  PROVE LookupIn(fs2) = a.mine.var
    <3>1. LookupIn(b.frames) = d.mine.var  BY <1>6, <1>7, <2>4, <2>7 DEF FramesOK
    <3>2. QED  BY <1>6, <2>6, <2>7, <3>1
  <2>8. "var" \in a.lost => "var" \in l2  BY <1>6, <2>4
  <2>9. QED  BY <2>2, <2>6, <2>7, <2>8 DEF FramesOK
<1>12. l2 \subseteq Kept \cup {"var"}  BY <1>2, <1>4 DEF Kept
<1>13. CanChange(s, n, a, c2, fs2, l2)
  BY <1>1, <1>2, <1>6, <1>8, <1>9, <1>10, <1>11, <1>12 DEF CanChange, Alike
<1>14. Good(s2, c2, fs2, l2, FALSE)
  <2>1. CanChange(s, Len(s), a, c2, fs2, l2) /\ c2.depth = c.depth /\ c2.open = c.open  BY <1>8, <1>13
  <2>2. Good([s EXCEPT ![Len(s)] = a], c2, fs2, l2, FALSE)  BY <1>1, <2>1, ChangeGood
  <2>3. QED  BY <1>4, <2>2
<1>15. QED  BY <1>1, <1>14 DEF IInv

-----------------------------------------------------------------------------
(* The actions that pop.                                                    *)
LEMMA AroundIs ==
  ASSUME NEW s, NEW c, NEW fs, NEW l, NEW r, Good(s, c, fs, l, r), s # <<>>,
         s = stack, fs = frames, NEW t, t = Around(Top.kind)
  PROVE  /\ t \in Seq(Range(t)) /\ Len(t) = Len(s) - 1 /\ \A i \in 1..Len(s) - 2 : t[i] = s[i]
         /\ Len(s) > 1 => Uncovers(t[Len(s) - 1], s[Len(s) - 1], KeepsFrame(s[Len(s)], fs))
<1> PICK n : n = Len(s)  OBVIOUS
<1>1. /\ n \in Nat /\ n >= 1 /\ s \in Seq(Range(s)) /\ DOMAIN s = 1..n
      /\ \A i \in 1..n : IsActivation(s[i])
  BY TopIs DEF Good, TypeOK
<1> PICK S : S = Range(s)  OBVIOUS
<1>o. PICK o : o = Front(s)  OBVIOUS
<1>2. o \in Seq(S) /\ Len(o) = n - 1 /\ \A i \in 1..n - 1 : o[i] = s[i]
  <2>1. s \in Seq(S)  BY <1>1
  <2>2. QED  BY <1>o, <2>1, FrontIs
<1>3. t = IF o = <<>> \/ KeepsFrame(s[n], fs) THEN o
          ELSE [o EXCEPT ![Len(o)].mine.own = FALSE]
  BY <1>o DEF Around, Top, KeepsFrame
<1>4. \A i \in 1..n - 1 : o[i] \in Range(o)  BY <1>2 DEF Range
<1>5. CASE o = <<>> \/ KeepsFrame(s[n], fs)
  <2>1. t = o  BY <1>3, <1>5
  <2>2. t \in Seq(Range(t))  BY <1>2, <1>4, <2>1
  <2>3. ASSUME n > 1  PROVE Uncovers(t[n - 1], s[n - 1], KeepsFrame(s[n], fs))
    <3>1. n - 1 \in 1..n - 1 /\ n - 1 \in 1..n /\ o # <<>>  BY <1>1, <1>2, <2>3
    <3>2. t[n - 1] = s[n - 1] /\ IsActivation(s[n - 1]) /\ KeepsFrame(s[n], fs)
      BY <1>1, <1>2, <1>5, <2>1, <3>1
    <3>3. QED  BY <3>2 DEF Uncovers
  <2>4. \A i \in 1..n - 2 : t[i] = s[i]  BY <1>1, <1>2, <2>1
  <2>5. QED  BY <1>2, <2>1, <2>2, <2>3, <2>4
<1>6. CASE ~(o = <<>> \/ KeepsFrame(s[n], fs))
  <2>1. n > 1 /\ n - 1 \in 1..n - 1 /\ n - 1 \in 1..n
    <3>1. Len(o) # 0  BY <1>2, <1>6
    <3>2. QED  BY <1>1, <1>2, <3>1
  <2> PICK k \in Nat : k = n - 1  BY <2>1
  <2>b. PICK b : b = s[k]  OBVIOUS
  <2>m. PICK m : m = [b.mine EXCEPT !.own = FALSE]  OBVIOUS
  <2>a. PICK a : a = [b EXCEPT !.mine = m]  OBVIOUS
  <2>2. o[k] = b /\ IsActivation(b) /\ Len(o) = k  BY <1>1, <1>2, <2>1, <2>b
  <2>3. t = [o EXCEPT ![k] = a]
    <3>1. t = [o EXCEPT ![k].mine.own = FALSE]  BY <1>3, <1>6, <2>2
    <3>2. QED  BY <2>2, <2>m, <2>a, <3>1
  <2>4. IsMine(m) /\ m["own"] = FALSE /\ \A f \in Kept \cup {"var"} : m[f] = b.mine[f]
    <3>1. DOMAIN b.mine = Kept \cup {"var", "own"} /\ IsMine(b.mine)  BY <2>2 DEF IsActivation, IsMine
    <3>2. DOMAIN m = DOMAIN b.mine /\ m["own"] = FALSE  BY <2>m, <3>1
    <3>3. \A f \in Kept \cup {"var"} : m[f] = b.mine[f]  BY <2>m, <3>1 DEF Kept
    <3>4. QED  BY <3>1, <3>2, <3>3 DEF IsMine
  <2>5. /\ IsActivation(a) /\ a.kind = b.kind /\ a.mine = m
        /\ a.saved = b.saved /\ a.frames = b.frames /\ a.lost = b.lost
    <3>1. DOMAIN b = {"kind", "saved", "frames", "lost", "mine"}  BY <2>2 DEF IsActivation
    <3>2. /\ DOMAIN a = DOMAIN b /\ a.kind = b.kind /\ a.mine = m
          /\ a.saved = b.saved /\ a.frames = b.frames /\ a.lost = b.lost
      BY <2>a, <3>1
    <3>3. QED  BY <2>2, <2>4, <3>1, <3>2 DEF IsActivation
  <2>6. Uncovers(a, b, KeepsFrame(s[n], fs))
    <3>1. a.mine["own"] = FALSE /\ \A f \in Kept \cup {"var"} : a.mine[f] = b.mine[f]  BY <2>4, <2>5
    <3>2. QED  BY <2>5, <3>1 DEF Uncovers
  <2>7. DOMAIN t = 1..k /\ t[k] = a /\ \A i \in 1..k - 1 : t[i] = s[i]
    <3>1. DOMAIN o = 1..k  BY <1>2, <2>2
    <3>2. DOMAIN t = 1..k /\ t[k] = a /\ \A i \in 1..k : i # k => t[i] = o[i]
      BY <2>1, <2>3, <3>1
    <3>3. QED  BY <1>2, <2>1, <3>2
  <2>8. t \in Seq(Range(t)) /\ Len(t) = k
    <3> PICK T : T = Range(t)  OBVIOUS
    <3>1. t \in [1..k -> T]
      <4>1. \A i \in 1..k : t[i] \in Range(t)  BY <2>7 DEF Range
      <4>2. t = [i \in 1..k |-> t[i]]  BY <2>3, <2>7
      <4>3. QED  BY <4>1, <4>2
    <3>2. t \in Seq(T)  BY ONLY k \in Nat, <3>1, SeqDef
    <3>3. QED  BY <2>7, <3>2
  <2>9. \A i \in 1..n - 2 : t[i] = s[i]  BY <2>1, <2>7
  <2>10. QED  BY <2>1, <2>6, <2>7, <2>8, <2>9, <2>b
<1>7. QED  BY <1>5, <1>6

(* Leaving a construct (Leave) keeps the invariant.                         *)
LEMMA LeaveGood ==
  ASSUME IInv, Leave
  PROVE  IInv'
<1> PICK s, c, fs, l : s = stack /\ c = context /\ fs = frames /\ l = lost  OBVIOUS
<1> PICK t, c2, fs2, l2 : t = stack' /\ c2 = context' /\ fs2 = frames' /\ l2 = lost'  OBVIOUS
<1> PICK n : n = Len(s)  OBVIOUS
<1> PICK a : a = s[n]  OBVIOUS
<1>1. /\ raised = FALSE /\ Good(s, c, fs, l, FALSE) /\ s # <<>> /\ raised' = FALSE
  BY DEF IInv, Leave, Running
<1>2. IsActivation(a) /\ IsContext(c) /\ l \subseteq Kept \cup {"var"}  BY <1>1, TopIs
<1>f. PICK F : F = Saved(a.kind)  OBVIOUS
<1>3. /\ c2 = [f \in DOMAIN c |-> IF f \in F THEN a.saved[f] ELSE c[f]]
      /\ l2 = (l \ F) \cup (a.lost \cap (F \cup {"var"}))
      /\ fs2 = FramesLeft(a, fs, TRUE) /\ t = Around(Top.kind)
  BY <1>f DEF Leave, Restored, LostAfter, FramesAfter, FramesLeft, Top
<1>4. /\ t \in Seq(Range(t)) /\ Len(t) = n - 1 /\ \A i \in 1..n - 2 : t[i] = s[i]
      /\ n > 1 => Uncovers(t[n - 1], s[n - 1], KeepsFrame(a, fs))
  <2>1. t = Around(Top.kind)  BY <1>3
  <2>2. QED  BY <1>1, <2>1, AroundIs
<1>5. IsContext(c2) /\ \A f \in DOMAIN c : c2[f] = IF f \in F THEN a.saved[f] ELSE c[f]
  BY <1>2, <1>3 DEF IsContext
<1>6. /\ l2 \subseteq Kept \cup {"var"}
      /\ (l \ F) \cup (a.lost \cap (F \cup {"var"})) \cup ((Kept \cap Saved(a.kind)) \ F) \subseteq l2
  BY <1>2, <1>3, <1>f DEF IsActivation
<1>7. CanPop(s, Len(s), t, c, fs, l, FALSE, F, TRUE, c2, l2, FALSE)
  BY <1>4, <1>5, <1>6, <1>f DEF CanPop
<1>8. Good(t, c2, FramesLeft(s[Len(s)], fs, TRUE), l2, FALSE)  BY <1>1, <1>7, PopGood
<1>9. QED  BY <1>1, <1>3, <1>8 DEF IInv

(* Unwinding by an error (Unwind) keeps the invariant.                      *)
LEMMA UnwindGood ==
  ASSUME IInv, Unwind
  PROVE  IInv'
<1> PICK s, c, fs, l : s = stack /\ c = context /\ fs = frames /\ l = lost  OBVIOUS
<1> PICK t, c2, fs2, l2 : t = stack' /\ c2 = context' /\ fs2 = frames' /\ l2 = lost'  OBVIOUS
<1> PICK n : n = Len(s)  OBVIOUS
<1> PICK a : a = s[n]  OBVIOUS
<1>1. /\ raised = TRUE /\ Good(s, c, fs, l, TRUE) /\ s # <<>> /\ raised' = TRUE
  BY DEF IInv, Unwind
<1>2. IsActivation(a) /\ IsContext(c) /\ l \subseteq Kept \cup {"var"} /\ a.kind \in Kinds
  BY <1>1, TopIs DEF IsActivation
<1>f. PICK F : F = SavedOnError(a.kind)  OBVIOUS
<1>c. PICK closed : closed = (a.kind \notin Unguarded)  OBVIOUS
<1>3. /\ c2 = [f \in DOMAIN c |-> IF f \in F THEN a.saved[f] ELSE c[f]]
      /\ l2 = ((l \ F) \cup (a.lost \cap (F \cup {"var"}))) \cup Careless(a.kind)
      /\ fs2 = FramesLeft(a, fs, closed) /\ t = Around(Top.kind)
  BY <1>f, <1>c DEF Unwind, Restored, LostAfter, FramesAfter, FramesLeft, Top
<1>4. /\ t \in Seq(Range(t)) /\ Len(t) = n - 1 /\ \A i \in 1..n - 2 : t[i] = s[i]
      /\ n > 1 => Uncovers(t[n - 1], s[n - 1], KeepsFrame(a, fs))
  <2>1. t = Around(Top.kind)  BY <1>3
  <2>2. QED  BY <1>1, <2>1, AroundIs
<1>5. IsContext(c2) /\ \A f \in DOMAIN c : c2[f] = IF f \in F THEN a.saved[f] ELSE c[f]
  BY <1>2, <1>3 DEF IsContext
<1>6. F \subseteq Saved(a.kind) /\ ("depth" \in Saved(a.kind) => "depth" \in F)
  BY <1>f DEF SavedOnError, Saved, Assigned, Unguarded, FrameOnly
<1>7. (Kept \cap Saved(a.kind)) \ F \subseteq Careless(a.kind)
  BY <1>f DEF Kept, SavedOnError, Saved, Assigned, Unguarded, FrameOnly, Careless
<1>8. a.kind \in Framed /\ ~closed => "var" \in Careless(a.kind)
  BY <1>c DEF Framed, Unguarded, Careless
<1>9. Careless(a.kind) \subseteq Kept \cup {"var"}  BY DEF Careless, Kept
<1>10. /\ l2 \subseteq Kept \cup {"var"}
       /\ (l \ F) \cup (a.lost \cap (F \cup {"var"})) \cup ((Kept \cap Saved(a.kind)) \ F) \subseteq l2
       /\ a.kind \in Framed /\ ~closed => "var" \in l2
  BY <1>2, <1>3, <1>7, <1>8, <1>9 DEF IsActivation
<1>11. closed \in BOOLEAN  BY <1>c
<1>12. CanPop(s, Len(s), t, c, fs, l, TRUE, F, closed, c2, l2, TRUE)
  BY <1>4, <1>5, <1>6, <1>10, <1>11 DEF CanPop
<1>13. Good(t, c2, FramesLeft(s[Len(s)], fs, closed), l2, TRUE)  BY <1>1, <1>12, PopGood
<1>14. QED  BY <1>1, <1>3, <1>13 DEF IInv

(* Catching an error (Catch) keeps the invariant.                           *)
LEMMA CatchGood ==
  ASSUME IInv, Catch
  PROVE  IInv'
<1> PICK s, c, fs, l : s = stack /\ c = context /\ fs = frames /\ l = lost  OBVIOUS
<1> PICK s2, c2, fs2 : s2 = stack' /\ c2 = context' /\ fs2 = frames'  OBVIOUS
<1> PICK n : n = Len(s)  OBVIOUS
<1> PICK a : a = s[n]  OBVIOUS
<1> PICK t : t = Around("try")  OBVIOUS
<1> PICK b : b = Last(t)  OBVIOUS
<1>e. PICK e : e = [kind |-> "catch", saved |-> c2, frames |-> fs, lost |-> l, mine |-> b.mine]  OBVIOUS
<1>1. /\ raised = TRUE /\ Good(s, c, fs, l, TRUE) /\ s # <<>> /\ a.kind = "try"
      /\ raised' = FALSE /\ l = lost' /\ t = Around(Top.kind)
  BY DEF IInv, Catch, Top
<1>2. /\ IsActivation(a) /\ IsContext(c) /\ l \subseteq Kept \cup {"var"} /\ n > 1 /\ n \in Nat
      /\ s[n - 1].kind \notin Templates /\ TopOK(a, n, s, c, fs, l, TRUE)
  BY <1>1, TopIs
<1>3. /\ c2 = [f \in DOMAIN c |-> IF f \in {"open"} THEN a.saved[f] ELSE c[f]]
      /\ fs2 = Append(fs, None) /\ s2 = Append(t, e)
  <2>1. SavedOnError("try") = {"open"}
    BY DEF SavedOnError, Saved, Assigned, Unguarded, FrameOnly
  <2>2. c2 = Restored(SavedOnError("try"))  BY DEF Catch
  <2>3. s2 = Append(t, e)  BY <1>e, <2>2 DEF Catch, Activation
  <2>4. QED  BY <2>1, <2>2, <2>3 DEF Catch, Restored, Top
<1>4. /\ t \in Seq(Range(t)) /\ Len(t) = n - 1 /\ \A i \in 1..n - 2 : t[i] = s[i]
      /\ n > 1 => Uncovers(t[n - 1], s[n - 1], KeepsFrame(a, fs))
  BY <1>1, AroundIs
<1>5. IsContext(c2) /\ \A f \in DOMAIN c : c2[f] = IF f \in {"open"} THEN a.saved[f] ELSE c[f]
  BY <1>2, <1>3 DEF IsContext
<1>6. Saved("try") = {"open"}  BY DEF Saved, Assigned
<1>7. "var" \in a.lost => "var" \in l  BY <1>1, <1>2 DEF TopOK, FramesOK
<1>8. (l \ {"open"}) \cup (a.lost \cap ({"open"} \cup {"var"})) \cup ((Kept \cap Saved(a.kind)) \ {"open"})
        \subseteq l
  <2>1. "open" \notin a.lost  BY <1>2 DEF IsActivation, Kept
  <2>2. QED  BY <1>1, <1>6, <1>7, <2>1
<1>9. CanPop(s, Len(s), t, c, fs, l, TRUE, {"open"}, TRUE, c2, l, FALSE)
  BY <1>1, <1>2, <1>4, <1>5, <1>6, <1>8 DEF CanPop
<1>10. Good(t, c2, FramesLeft(s[Len(s)], fs, TRUE), l, FALSE)  BY <1>1, <1>9, PopGood
<1>11. FramesLeft(s[Len(s)], fs, TRUE) = fs  BY <1>1 DEF FramesLeft, Framed
<1>12. Good(t, c2, fs, l, FALSE) /\ t # <<>>
  <2>1. Len(t) # 0  BY <1>2, <1>4
  <2>2. Len(<<>>) = 0  OBVIOUS
  <2>3. t # <<>>  BY ONLY <2>1, <2>2
  <2>4. QED  BY <1>10, <1>11, <2>3
<1>13. b = t[Len(t)] /\ b.kind \notin Templates
  <2>1. b = t[Len(t)] /\ Len(t) = n - 1  BY <1>4 DEF Last
  <2>2. b.kind = s[n - 1].kind  BY <1>2, <1>4, <2>1 DEF Uncovers
  <2>3. QED  BY <1>2, <2>1, <2>2
<1>14. /\ IsActivation(b) /\ fs \in Frames /\ TopOK(b, Len(t), t, c2, fs, l, FALSE)
       /\ DepthAt(t, Len(t)) \in Nat /\ OpenAt(t, Len(t)) \in Nat
  <2>1. /\ IsActivation(t[Len(t)]) /\ fs \in Frames /\ TopOK(t[Len(t)], Len(t), t, c2, fs, l, FALSE)
        /\ DepthAt(t, Len(t)) \in Nat /\ OpenAt(t, Len(t)) \in Nat
    BY <1>12, TopIs
  <2>2. QED  BY <1>13, <2>1
<1>15. /\ DOMAIN e = {"kind", "saved", "frames", "lost", "mine"} /\ e.kind = "catch" /\ e.saved = c2
       /\ e.frames = fs /\ e.lost = l /\ e.mine = b.mine
  BY <1>e
<1>16. IsActivation(e)  BY <1>2, <1>5, <1>14, <1>15 DEF IsActivation, Kinds
<1>17. Saved("catch") = {}  BY DEF Saved, Assigned
<1>18. SavedOK(b, e)  BY <1>15, <1>17 DEF SavedOK
<1>19. /\ ContextOK(b, c2, l) /\ FramesOK(b, fs, l)
       /\ c2.depth = DepthAt(t, Len(t)) /\ c2.open = OpenAt(t, Len(t))
  BY <1>13, <1>14 DEF TopOK, Counted, Templates
<1>20. ContextOK(e, c2, l)
  BY <1>13, <1>15, <1>19 DEF ContextOK
<1>21. fs2 \in Frames /\ FramesOK(e, fs2, l)
  <2>1. OverFrames(e, b, fs, l, fs2, l)  BY <1>3, <1>15 DEF OverFrames, Framed
  <2>2. QED  BY <1>14, <1>19, <2>1, OwnFrame
<1>22. CanPush(t, Len(t), e, c2, fs2, l, FALSE)
  BY <1>2, <1>5, <1>13, <1>14, <1>15, <1>16, <1>17, <1>18, <1>19, <1>20, <1>21 DEF CanPush
<1>23. Good(Append(t, e), c2, fs2, l, FALSE)  BY <1>12, <1>22, PushGood
<1>24. QED  BY <1>1, <1>3, <1>23 DEF IInv

-----------------------------------------------------------------------------
(* The specification.                                                       *)
LEMMA InitGood ==
  Init => IInv
<1> SUFFICES ASSUME Init  PROVE IInv
  OBVIOUS
<1> PICK s, c, fs, l : s = stack /\ c = context /\ fs = frames /\ l = lost  OBVIOUS
<1>n. PICK x : x = CHOOSE n \in Nodes : TRUE  OBVIOUS
<1>m. PICK m : m = [current |-> c.current, rule |-> NoRule, group |-> None,
                    tunnel |-> None, var |-> Global, own |-> FALSE]
  OBVIOUS
<1>a. PICK a : a = [kind |-> "apply", saved |-> c, frames |-> fs, lost |-> {}, mine |-> m]
  OBVIOUS
<1>c. c = [current |-> x, rule |-> NoRule, group |-> None, tunnel |-> None, depth |-> 0, open |-> 0]
  BY <1>n DEF Init
<1>s. s = <<a>> /\ fs = <<Global>> /\ l = {} /\ raised = FALSE
  BY <1>m, <1>a DEF Init
<1>1. /\ IsContext(c) /\ c["rule"] = NoRule /\ c["group"] = None /\ c["tunnel"] = None
      /\ c["depth"] = 0 /\ c["open"] = 0
  BY <1>c DEF IsContext, Kept
<1>2. /\ IsMine(m) /\ m["own"] = FALSE /\ \A f \in Kept : m[f] = c[f]
  <2>1. DOMAIN m = {"current", "rule", "group", "tunnel", "var", "own"} /\ m["own"] = FALSE
        /\ m["current"] = c["current"] /\ m["rule"] = NoRule /\ m["group"] = None /\ m["tunnel"] = None
    BY <1>m
  <2>2. QED  BY <1>1, <2>1 DEF IsMine, Kept
<1>3. /\ DOMAIN a = {"kind", "saved", "frames", "lost", "mine"} /\ a.kind = "apply"
      /\ a.saved = c /\ a.frames = fs /\ a.lost = {} /\ a.mine = m
  BY <1>a
<1>4. fs \in Frames /\ Len(fs) = 1 /\ fs[1] = Global
  BY <1>s DEF Frames
<1>5. IsActivation(a)  BY <1>1, <1>2, <1>3, <1>4 DEF IsActivation, Kinds, Templates
<1>6. s \in Seq(Range(s)) /\ Len(s) = 1 /\ s[1] = a
  <2>1. s[1] = a /\ Len(s) = 1 /\ a \in Range(s)  BY <1>s DEF Range
  <2>2. s \in Seq(Range(s))  BY <1>s, <2>1
  <2>3. QED  BY <2>1, <2>2
<1>7. TypeOK(s, c, fs, l)  BY <1>1, <1>4, <1>5, <1>6, <1>s DEF TypeOK
<1>8. ShapeOK(s)  BY <1>3, <1>6 DEF ShapeOK
<1>9. DepthAt(s, 0) = 0 /\ OpenAt(s, 1) = 0
  <2>1. CountedAt(s, 0) = {} /\ OpenedAt(s, 1) = {}
    BY <1>3, <1>6 DEF CountedAt, OpenedAt
  <2>2. QED  BY <2>1, FS_EmptySet DEF DepthAt, OpenAt
<1>10. LevelOK(s, 1)
  <2>1. "open" \notin Saved("apply")  BY DEF Saved
  <2>2. QED  BY <1>1, <1>3, <1>6, <1>9, <2>1 DEF LevelOK
<1>11. ContextOK(a, c, l)
  <2>1. \A f \in Kept : c[f] = a.mine[f]  BY <1>2, <1>3
  <2>2. QED  BY <2>1 DEF ContextOK
<1>12. FramesOK(a, fs, l)
  <2>1. Base(a) = 1  BY <1>3, <1>4 DEF Base, Framed
  <2>2. Bound(fs)  BY <1>4 DEF Bound, Global, None
  <2>3. a.mine["own"] = FALSE  BY <1>2, <1>3
  <2>4. Fits(a, fs)  BY <1>3, <1>4, <2>1 DEF Fits
  <2>5. QED  BY <1>3, <1>4, <2>1, <2>2, <2>3, <2>4 DEF FramesOK
<1>13. TopOK(a, 1, s, c, fs, l, FALSE)
  BY <1>1, <1>3, <1>9, <1>11, <1>12 DEF TopOK, Counted, Templates
<1>14. Good(s, c, fs, l, FALSE)
  <2>1. \A i \in 1..Len(s) : i = 1  BY <1>6
  <2>2. \A i \in 1..Len(s) : LevelOK(s, i)  BY <1>10, <2>1
  <2>3. QED  BY <1>6, <1>7, <1>8, <1>13, <2>2 DEF Good
<1>15. QED  BY <1>14, <1>s DEF IInv

(* Every step keeps the invariant.                                          *)
LEMMA NextGood ==
  IInv /\ [Next]_vars => IInv'
<1> SUFFICES ASSUME IInv, [Next]_vars  PROVE IInv'
  OBVIOUS
<1>1. ASSUME NEW v \in Values, Bind(v)  PROVE IInv'
  BY <1>1, BindGood
<1>2. ASSUME NEW kind \in Simple, NEW n, Enter(kind, n)  PROVE IInv'
  BY <1>2, EnterGood
<1>3. ASSUME NEW n, NextItem(n)  PROVE IInv'
  BY <1>3, NextItemGood
<1>4. ASSUME NEW n, apply_one_to_node(n)  PROVE IInv'
  BY <1>4, ApplyOneGood
<1>5. CASE Complete
  BY <1>5, CompleteGood
<1>6. ASSUME NEW p, ApplyTemplates(p)  PROVE IInv'
  BY <1>6, ApplyGood DEF ApplyTemplates, InBody, Seeing, Running
<1>7. ASSUME NEW p, WithParamsFail(p)  PROVE IInv'
  BY <1>7, WithParamsFailGood
<1>8. ASSUME NEW p, NEW kind \in {"next", "imports"}, AnotherRule(kind, p)  PROVE IInv'
  BY <1>8, AnotherRuleGood
<1>9. ASSUME NEW name, NEW p, Call(name, p)  PROVE IInv'
  BY <1>9, CallGood
<1>10. ASSUME NEW v \in Values \cup {None}, Begin(v)  PROVE IInv'
  BY <1>10, BeginGood
<1>11. CASE ParamsFail
  BY <1>11, RaiseGood DEF ParamsFail, Running, Fail
<1>12. CASE Raise
  BY <1>12, RaiseGood DEF Raise, Seeing, Running, Fail
<1>13. CASE Leave
  BY <1>13, LeaveGood
<1>14. CASE Unwind
  BY <1>14, UnwindGood
<1>15. CASE Catch
  BY <1>15, CatchGood
<1>16. CASE UNCHANGED vars
  BY <1>16 DEF vars, IInv
<1>17. QED
  BY <1>1, <1>2, <1>3, <1>4, <1>5, <1>6, <1>7, <1>8, <1>9, <1>10, <1>11, <1>12, <1>13, <1>14, <1>15, <1>16
     DEF Next

(* The elements open since the last tree, as the property counts them.      *)
TreesAt(s, n)  == {i \in 1..n : s[i].kind \in {"tree", "try"}}
LastTree(s, n) == IF TreesAt(s, n) = {} THEN 0 ELSE Max(TreesAt(s, n))

(* The open elements are those above the innermost tree (OpenedAt).         *)
LEMMA OpenedIs ==
  ASSUME NEW s, NEW n \in Nat
  PROVE  OpenedAt(s, n) = {i \in 1..n : i > LastTree(s, n) /\ s[i].kind = "element"}
<1> PICK T, from : T = TreesAt(s, n) /\ from = LastTree(s, n)  OBVIOUS
<1>0. T = {i \in 1..n : s[i].kind \in {"tree", "try"}} /\ from = IF T = {} THEN 0 ELSE Max(T)
  BY DEF TreesAt, LastTree
<1>1. from \in Nat /\ \A i \in 1..n : i > from <=> \A j \in i..n : j \notin T
  <2>1. CASE T = {}
    BY <1>0, <2>1
  <2>2. CASE T # {}
    <3>1. from \in T /\ \A j \in T : j <= from  BY <1>0, <2>2, GreatestOf
    <3>2. from \in 1..n  BY <1>0, <3>1
    <3>3. ASSUME NEW i \in 1..n, i > from  PROVE \A j \in i..n : j \notin T
      BY <3>1, <3>2, <3>3
    <3>4. ASSUME NEW i \in 1..n, \A j \in i..n : j \notin T  PROVE i > from
      <4>1. from \notin i..n  BY <3>1, <3>4
      <4>2. QED  BY <3>2, <4>1
    <3>5. QED  BY <3>2, <3>3, <3>4
  <2>3. QED  BY <2>1, <2>2
<1>2. QED  BY <1>0, <1>1 DEF OpenedAt

(* The invariant says that the context is restored.                         *)
LEMMA RestoredFollows ==
  IInv => ContextRestored
<1> SUFFICES ASSUME IInv, Seeing  PROVE
      /\ \A f \in {"current", "rule", "group", "tunnel"} \ lost : context[f] = Top.mine[f]
      /\ "var" \notin lost /\ Top.mine.own => Lookup = Top.mine.var
      /\ CountsExact
  BY DEF ContextRestored
<1> PICK s, c, fs, l : s = stack /\ c = context /\ fs = frames /\ l = lost  OBVIOUS
<1> PICK n : n = Len(s)  OBVIOUS
<1> PICK b : b = s[n]  OBVIOUS
<1>1. Good(s, c, fs, l, FALSE) /\ s # <<>> /\ b.kind \notin Templates /\ Top = b
  BY DEF IInv, Seeing, Running, Top
<1>2. TopOK(b, n, s, c, fs, l, FALSE) /\ n \in Nat /\ DOMAIN s = 1..n  BY <1>1, TopIs
<1>3. /\ ContextOK(b, c, l) /\ FramesOK(b, fs, l)
      /\ c.depth = DepthAt(s, n) /\ c.open = OpenAt(s, n)
  BY <1>1, <1>2 DEF TopOK, Counted, Templates
<1>4. \A f \in {"current", "rule", "group", "tunnel"} \ lost : context[f] = Top.mine[f]
  BY <1>1, <1>3 DEF ContextOK, Kept
<1>5. "var" \notin lost /\ Top.mine.own => Lookup = Top.mine.var
  BY <1>1, <1>3 DEF FramesOK, Lookup, LookupIn
<1>6. CountsExact
  <2>1. CountedAt(s, n) = {i \in DOMAIN stack \ {1} : IsTemplate(i) /\ stack[i - 1].kind \in Counted}
    <3>1. \A i : i \in 2..n <=> i \in DOMAIN stack \ {1}  BY <1>2
    <3>2. QED  BY <3>1 DEF CountedAt, IsTemplate, InTemplateBody
  <2>2. LastTree(s, n) = LET inTree == {i \in DOMAIN stack : stack[i].kind \in {"tree", "try"}}
                         IN  IF inTree = {} THEN 0 ELSE Max(inTree)
    BY <1>2 DEF LastTree, TreesAt
  <2>3. OpenedAt(s, n) = {i \in DOMAIN stack : i > LastTree(s, n) /\ stack[i].kind = "element"}
    BY <1>2, OpenedIs
  <2>4. QED  BY <1>3, <2>1, <2>2, <2>3 DEF CountsExact, DepthAt, OpenAt
<1>7. QED  BY <1>4, <1>5, <1>6

(* Whatever bodies a body ran through, and whatever error was caught on the *)
(* way, what it then sees is its own: current(), the rule, the group, the   *)
(* tunnel parameter and the variables it declared, but for what an error    *)
(* may have left wrong; and the depth of calls and the count of elements    *)
(* are exact (EvalState, crates/xslt/src/eval.rs).                          *)
THEOREM ContextIsRestored ==
  Spec => []ContextRestored
<1>1. Init => IInv  BY InitGood
<1>2. IInv /\ [Next]_vars => IInv'  BY NextGood
<1>3. IInv => ContextRestored  BY RestoredFollows
<1>4. QED  BY <1>1, <1>2, <1>3, PTL DEF Spec

-----------------------------------------------------------------------------
(* Conflict resolution: the order of the rules is total, and of any of them *)
(* there is a first.                                                        *)

(* Path p is after q: at n they differ, or q ends before.                   *)
AfterAt(p, q, n) ==
  /\ n \in 1..Len(p) /\ n - 1 <= Len(q)
  /\ \A i \in 1..n - 1 : p[i] = q[i]
  /\ n <= Len(q) => p[n] > q[n]

(* After, by the place where the paths part.                                *)
LEMMA AfterIs ==
  ASSUME NEW p \in Seq(Nat), NEW q \in Seq(Nat)
  PROVE  After(p, q) <=> \E n \in Nat : AfterAt(p, q, n)
<1> PICK k \in Nat, m \in Nat : k = Len(p) /\ m = Len(q)  OBVIOUS
<1>1. PICK z \in Nat : z = Min({k, m}) /\ z <= k /\ z <= m /\ (z = k \/ z = m)
  <2>1. \E x \in {k, m} : \A y \in {k, m} : x <= y  OBVIOUS
  <2>2. Min({k, m}) \in {k, m} /\ \A y \in {k, m} : Min({k, m}) <= y  BY <2>1 DEF Min
  <2>3. QED  BY <2>2
<1>2. ASSUME NEW n \in Nat, n <= k, n <= m
      PROVE  SubSeq(p, 1, n) = SubSeq(q, 1, n) <=> \A i \in 1..n : p[i] = q[i]
  <2> PICK u, v : u = SubSeq(p, 1, n) /\ v = SubSeq(q, 1, n)  OBVIOUS
  <2>1. /\ u \in Seq(Nat) /\ v \in Seq(Nat) /\ Len(u) = n /\ Len(v) = n
        /\ \A i \in 1..n : u[i] = p[i] /\ v[i] = q[i]
    BY <1>2
  <2>2. ASSUME \A i \in 1..n : p[i] = q[i]  PROVE u = v
    <3>1. \A i \in 1..n : u[i] = v[i]  BY <2>1, <2>2
    <3>2. QED  BY <2>1, <3>1, SeqEqual
  <2>3. ASSUME u = v, NEW i \in 1..n  PROVE p[i] = q[i]
    BY <2>1, <2>3
  <2>4. QED  BY <2>2, <2>3
<1>3. IsStrictPrefix(q, p) <=> m < k /\ \A i \in 1..m : p[i] = q[i]
  <2>1. SubSeq(q, 1, m) = q  OBVIOUS
  <2>2. IsPrefix(q, p) <=> m <= k /\ \A i \in 1..m : p[i] = q[i]
    <3>1. m <= k => (SubSeq(p, 1, m) = SubSeq(q, 1, m) <=> \A i \in 1..m : p[i] = q[i])  BY <1>2
    <3>2. QED  BY <2>1, <3>1 DEF IsPrefix
  <2>3. ASSUME m = k, \A i \in 1..m : p[i] = q[i]  PROVE p = q
    BY <2>3, SeqEqual
  <2>4. p = q => m = k  OBVIOUS
  <2>5. QED  BY <2>2, <2>3, <2>4 DEF IsStrictPrefix
<1>4. ASSUME After(p, q)  PROVE \E n \in Nat : AfterAt(p, q, n)
  <2>1. CASE IsStrictPrefix(q, p)
    <3>1. AfterAt(p, q, m + 1)  BY <1>3, <2>1 DEF AfterAt
    <3>2. QED  BY <3>1
  <2>2. CASE \E n \in 1..z : SubSeq(p, 1, n - 1) = SubSeq(q, 1, n - 1) /\ p[n] > q[n]
    <3>1. PICK n \in 1..z : SubSeq(p, 1, n - 1) = SubSeq(q, 1, n - 1) /\ p[n] > q[n]  BY <2>2
    <3>2. n \in Nat /\ n - 1 \in Nat /\ n <= k /\ n <= m  BY <1>1
    <3>3. \A i \in 1..n - 1 : p[i] = q[i]  BY <1>2, <3>1, <3>2
    <3>4. AfterAt(p, q, n)  BY <3>1, <3>2, <3>3 DEF AfterAt
    <3>5. QED  BY <3>2, <3>4
  <2>3. QED  BY <1>1, <1>4, <2>1, <2>2 DEF After
<1>5. ASSUME NEW n \in Nat, AfterAt(p, q, n)  PROVE After(p, q)
  <2>1. n \in 1..k /\ n - 1 <= m /\ \A i \in 1..n - 1 : p[i] = q[i]  BY <1>5 DEF AfterAt
  <2>2. CASE n <= m
    <3>1. p[n] > q[n] /\ n \in 1..z  BY <1>1, <1>5, <2>1, <2>2 DEF AfterAt
    <3>2. SubSeq(p, 1, n - 1) = SubSeq(q, 1, n - 1)  BY <1>2, <2>1, <2>2
    <3>3. QED  BY <1>1, <3>1, <3>2 DEF After
  <2>3. CASE n = m + 1
    BY <1>3, <2>1, <2>3 DEF After
  <2>4. QED  BY <2>1, <2>2, <2>3
<1>6. QED  BY <1>4, <1>5

(* The order of the paths is total.                                         *)
LEMMA AfterTotal ==
  ASSUME NEW p \in Seq(Nat), NEW q \in Seq(Nat)
  PROVE  /\ ~After(p, p)
         /\ p # q => After(p, q) \/ After(q, p)
<1>1. ~After(p, p)
  <2>1. ASSUME NEW n \in Nat, AfterAt(p, p, n)  PROVE FALSE
    <3>1. n \in 1..Len(p) /\ p[n] > p[n]  BY <2>1 DEF AfterAt
    <3>2. p[n] \in Nat  BY <3>1
    <3>3. QED  BY <3>1, <3>2
  <2>2. QED  BY <2>1, AfterIs
<1>2. ASSUME p # q  PROVE After(p, q) \/ After(q, p)
  <2> PICK k \in Nat, m \in Nat : k = Len(p) /\ m = Len(q)  OBVIOUS
  <2>d. PICK D : D = {n \in 1..k + 1 : n <= m + 1 /\ (n = k + 1 \/ n = m + 1 \/ p[n] # q[n])}  OBVIOUS
  <2>1. D \subseteq Nat /\ D # {}
    <3>1. CASE k < m
      <4>1. k + 1 \in D  BY <2>d, <3>1
      <4>2. QED  BY <2>d, <4>1
    <3>2. CASE m <= k
      <4>1. m + 1 \in D  BY <2>d, <3>2
      <4>2. QED  BY <2>d, <4>1
    <3>3. QED  BY <3>1, <3>2
  <2>2. PICK n \in D : \A j \in D : ~(<<j, n>> \in OpToRel(<, Nat))
    <3>1. IsWellFoundedOn(OpToRel(<, Nat), Nat)  BY NatLessThanWellFounded
    <3>2. QED  BY <2>1, <3>1, WFMin
  <2>3. n \in 1..k + 1 /\ n <= m + 1 /\ (n = k + 1 \/ n = m + 1 \/ p[n] # q[n])  BY <2>d
  <2>4. ASSUME NEW i \in 1..n - 1  PROVE p[i] = q[i]
    <3>1. i \in 1..k /\ i \in 1..m /\ i < n  BY <2>3
    <3>2. i \notin D  BY <2>1, <2>2, <3>1 DEF OpToRel
    <3>3. QED  BY <2>d, <3>1, <3>2
  <2>5. CASE n = k + 1 /\ n = m + 1
    <3>1. k = m /\ \A i \in 1..k : p[i] = q[i]  BY <2>4, <2>5
    <3>2. p = q  BY <3>1, SeqEqual
    <3>3. QED  BY <1>2, <3>2
  <2>6. CASE n <= k /\ n = m + 1
    <3>1. AfterAt(p, q, n)  BY <2>3, <2>4, <2>6 DEF AfterAt
    <3>2. QED  BY <2>3, <3>1, AfterIs
  <2>7. CASE n = k + 1 /\ n <= m
    <3>1. AfterAt(q, p, n)  BY <2>3, <2>4, <2>7 DEF AfterAt
    <3>2. QED  BY <2>3, <3>1, AfterIs
  <2>8. CASE n <= k /\ n <= m
    <3>1. p[n] # q[n] /\ p[n] \in Nat /\ q[n] \in Nat  BY <2>3, <2>8
    <3>2. CASE p[n] > q[n]
      <4>1. AfterAt(p, q, n)  BY <2>3, <2>4, <2>8, <3>2 DEF AfterAt
      <4>2. QED  BY <2>3, <4>1, AfterIs
    <3>3. CASE q[n] > p[n]
      <4>1. AfterAt(q, p, n)  BY <2>3, <2>4, <2>8, <3>3 DEF AfterAt
      <4>2. QED  BY <2>3, <4>1, AfterIs
    <3>4. QED  BY <3>1, <3>2, <3>3
  <2>9. QED  BY <2>3, <2>5, <2>6, <2>7, <2>8
<1>3. QED  BY <1>1, <1>2

(* ... and transitive.                                                      *)
LEMMA AfterTransitive ==
  ASSUME NEW p \in Seq(Nat), NEW q \in Seq(Nat), NEW r \in Seq(Nat), After(p, q), After(q, r)
  PROVE  After(p, r)
<1>1. PICK m \in Nat, n \in Nat : AfterAt(p, q, m) /\ AfterAt(q, r, n)  BY AfterIs
<1>2. /\ m \in 1..Len(p) /\ m - 1 <= Len(q) /\ (\A i \in 1..m - 1 : p[i] = q[i])
      /\ m <= Len(q) => p[m] > q[m]
      /\ n \in 1..Len(q) /\ n - 1 <= Len(r) /\ (\A i \in 1..n - 1 : q[i] = r[i])
      /\ n <= Len(r) => q[n] > r[n]
  BY <1>1 DEF AfterAt
<1>3. CASE m < n
  <2>1. m \in 1..Len(q) /\ m \in 1..n - 1 /\ m <= Len(r)  BY <1>2, <1>3
  <2>2. p[m] > r[m]  BY <1>2, <2>1
  <2>3. \A i \in 1..m - 1 : p[i] = r[i]  BY <1>2, <1>3
  <2>4. AfterAt(p, r, m)  BY <1>2, <2>1, <2>2, <2>3 DEF AfterAt
  <2>5. QED  BY <2>4, AfterIs
<1>4. CASE n < m
  <2>1. n \in 1..m - 1 /\ n \in 1..Len(p)  BY <1>2, <1>4
  <2>2. n <= Len(r) => p[n] > r[n]  BY <1>2, <2>1
  <2>3. \A i \in 1..n - 1 : p[i] = r[i]  BY <1>2, <1>4
  <2>4. AfterAt(p, r, n)  BY <1>2, <2>1, <2>2, <2>3 DEF AfterAt
  <2>5. QED  BY <2>4, AfterIs
<1>5. CASE m = n
  <2>1. ASSUME n <= Len(r)  PROVE p[n] > r[n]
    <3>1. p[n] > q[n] /\ q[n] > r[n]  BY <1>2, <1>5, <2>1
    <3>2. n \in 1..Len(p) /\ n \in 1..Len(q) /\ n \in 1..Len(r)  BY <1>2, <1>5, <2>1
    <3>3. p[n] \in Nat /\ q[n] \in Nat /\ r[n] \in Nat  BY <3>2
    <3>4. QED  BY <3>1, <3>3
  <2>2. \A i \in 1..n - 1 : p[i] = r[i]  BY <1>2, <1>5
  <2>3. AfterAt(p, r, n)  BY <1>2, <1>5, <2>1, <2>2 DEF AfterAt
  <2>4. QED  BY <2>3, AfterIs
<1>6. QED  BY <1>3, <1>4, <1>5

(* The rules of a stylesheet, and the order in which the loops come to them.*)
RulesOf(ts)   == UNION {{i} \X DOMAIN ts[i].decl.operands : i \in DOMAIN ts}
Sooner(r, s)  == r[1] < s[1] \/ (r[1] = s[1] /\ r[2] < s[2])
Before(ts, r, s) == Beats(ts, r, s) \/ (~Beats(ts, s, r) /\ Sooner(r, s))

(* A rule is a template's number and that of an operand of its pattern.     *)
LEMMA RuleIs ==
  ASSUME NEW ts, IsTemplates(ts), NEW r \in RulesOf(ts)
  PROVE  /\ r = <<r[1], r[2]>> /\ r[1] \in DOMAIN ts /\ r[1] \in Nat /\ r[2] \in Nat
         /\ ts[r[1]].precedence \in Int /\ ts[r[1]].path \in Seq(Nat)
         /\ PriorityOf(ts[r[1]].decl, r[2]) \in Int /\ r # NoRule
<1>1. PICK i \in DOMAIN ts : r \in {i} \X DOMAIN ts[i].decl.operands  BY DEF RulesOf
<1>2. r = <<r[1], r[2]>> /\ r[1] = i /\ r[2] \in DOMAIN ts[i].decl.operands  BY <1>1
<1>3. /\ ts \in Seq(Range(ts)) /\ ts[i].precedence \in Int /\ ts[i].path \in Seq(Nat)
      /\ ts[i].decl.operands \in Seq(Range(ts[i].decl.operands))
      /\ \A b \in DOMAIN ts[i].decl.operands : PriorityOf(ts[i].decl, b) \in Int
  BY <1>1 DEF IsTemplates
<1>4. i \in Nat /\ r[2] \in Nat
  <2> PICK S, T, o : S = Range(ts) /\ o = ts[i].decl.operands /\ T = Range(o)  OBVIOUS
  <2>1. DOMAIN ts = 1..Len(ts) /\ Len(ts) \in Nat  BY <1>3
  <2>2. o \in Seq(T)  BY <1>3
  <2>3. DOMAIN o = 1..Len(o) /\ Len(o) \in Nat  BY <2>2
  <2>4. QED  BY <1>1, <1>2, <2>1, <2>3
<1>5. <<r[1], r[2]>> # <<>>  OBVIOUS
<1>6. QED  BY <1>1, <1>2, <1>3, <1>4, <1>5 DEF NoRule

(* What Beats compares, each of it totally ordered.                         *)
BranchIdx(ts, r) == IF Len(ts[r[1]].decl.operands) > 1 THEN r[2] ELSE 0

(* Beats, spelled out.                                                      *)
LEMMA BeatsIs ==
  ASSUME NEW ts, NEW r, NEW s
  PROVE  LET p == ts[r[1]].precedence  q == ts[s[1]].precedence
             d == PriorityOf(ts[r[1]].decl, r[2])  e == PriorityOf(ts[s[1]].decl, s[2])
             u == ts[r[1]].path  v == ts[s[1]].path
         IN Beats(ts, r, s) <=> IF p # q THEN p > q
                                ELSE IF d # e THEN d > e
                                ELSE IF u # v THEN After(u, v)
                                ELSE BranchIdx(ts, r) > BranchIdx(ts, s)
BY DEF Beats, BranchIdx

(* Of two rules one comes before the other.                                 *)
LEMMA BeforeTotal ==
  ASSUME NEW ts, IsTemplates(ts), NEW r \in RulesOf(ts), NEW s \in RulesOf(ts)
  PROVE  ~Before(ts, r, r) /\ (r # s => Before(ts, r, s) \/ Before(ts, s, r))
<1> PICK p, q, d, e, u, v, b, g :
      /\ p = ts[r[1]].precedence /\ q = ts[s[1]].precedence
      /\ d = PriorityOf(ts[r[1]].decl, r[2]) /\ e = PriorityOf(ts[s[1]].decl, s[2])
      /\ u = ts[r[1]].path /\ v = ts[s[1]].path
      /\ b = BranchIdx(ts, r) /\ g = BranchIdx(ts, s)
  OBVIOUS
<1>1. /\ p \in Int /\ q \in Int /\ d \in Int /\ e \in Int /\ u \in Seq(Nat) /\ v \in Seq(Nat)
      /\ r[1] \in Nat /\ r[2] \in Nat /\ s[1] \in Nat /\ s[2] \in Nat
      /\ r = <<r[1], r[2]>> /\ s = <<s[1], s[2]>>
  BY RuleIs
<1>2. b \in Nat /\ g \in Nat  BY <1>1 DEF BranchIdx
<1>3. ~Beats(ts, r, r)  BY <1>1, <1>2, BeatsIs
<1>4. ~Sooner(r, r)  BY <1>1 DEF Sooner
<1>5. r # s => Sooner(r, s) \/ Sooner(s, r)  BY <1>1 DEF Sooner
<1>6. QED  BY <1>3, <1>4, <1>5 DEF Before

(* ... and the order is transitive.                                         *)
LEMMA BeforeTransitive ==
  ASSUME NEW ts, IsTemplates(ts), NEW r \in RulesOf(ts), NEW s \in RulesOf(ts), NEW t \in RulesOf(ts),
         Before(ts, r, s), Before(ts, s, t)
  PROVE  Before(ts, r, t)
<1> PICK p, q, o, d, e, f, u, v, w, b, g, h :
      /\ p = ts[r[1]].precedence /\ q = ts[s[1]].precedence /\ o = ts[t[1]].precedence
      /\ d = PriorityOf(ts[r[1]].decl, r[2]) /\ e = PriorityOf(ts[s[1]].decl, s[2])
      /\ f = PriorityOf(ts[t[1]].decl, t[2])
      /\ u = ts[r[1]].path /\ v = ts[s[1]].path /\ w = ts[t[1]].path
      /\ b = BranchIdx(ts, r) /\ g = BranchIdx(ts, s) /\ h = BranchIdx(ts, t)
  OBVIOUS
<1>1. /\ p \in Int /\ q \in Int /\ o \in Int /\ d \in Int /\ e \in Int /\ f \in Int
      /\ u \in Seq(Nat) /\ v \in Seq(Nat) /\ w \in Seq(Nat)
      /\ r[1] \in Nat /\ r[2] \in Nat /\ s[1] \in Nat /\ s[2] \in Nat /\ t[1] \in Nat /\ t[2] \in Nat
  BY RuleIs
<1>2. b \in Nat /\ g \in Nat /\ h \in Nat  BY <1>1 DEF BranchIdx
<1>3. /\ Beats(ts, r, s) <=> IF p # q THEN p > q ELSE IF d # e THEN d > e
                             ELSE IF u # v THEN After(u, v) ELSE b > g
      /\ Beats(ts, s, t) <=> IF q # o THEN q > o ELSE IF e # f THEN e > f
                             ELSE IF v # w THEN After(v, w) ELSE g > h
      /\ Beats(ts, r, t) <=> IF p # o THEN p > o ELSE IF d # f THEN d > f
                             ELSE IF u # w THEN After(u, w) ELSE b > h
      /\ Beats(ts, s, r) <=> IF q # p THEN q > p ELSE IF e # d THEN e > d
                             ELSE IF v # u THEN After(v, u) ELSE g > b
      /\ Beats(ts, t, s) <=> IF o # q THEN o > q ELSE IF f # e THEN f > e
                             ELSE IF w # v THEN After(w, v) ELSE h > g
      /\ Beats(ts, t, r) <=> IF o # p THEN o > p ELSE IF f # d THEN f > d
                             ELSE IF w # u THEN After(w, u) ELSE h > b
  BY BeatsIs
<1>4. /\ \A x, y \in {u, v, w} : ~After(x, x) /\ (x # y => After(x, y) \/ After(y, x))
      /\ \A x, y, z \in {u, v, w} : After(x, y) /\ After(y, z) => After(x, z)
  <2>1. \A x, y \in Seq(Nat) : ~After(x, x) /\ (x # y => After(x, y) \/ After(y, x))
    BY AfterTotal
  <2>2. \A x, y, z \in Seq(Nat) : After(x, y) /\ After(y, z) => After(x, z)
    BY AfterTransitive
  <2>3. {u, v, w} \subseteq Seq(Nat)  BY <1>1
  <2>4. QED  BY <2>1, <2>2, <2>3
<1>5. /\ Sooner(r, s) /\ Sooner(s, t) => Sooner(r, t)
  BY <1>1 DEF Sooner
<1>6. /\ Beats(ts, r, s) \/ (~Beats(ts, s, r) /\ Sooner(r, s))
      /\ Beats(ts, s, t) \/ (~Beats(ts, t, s) /\ Sooner(s, t))
  BY DEF Before
<1>7. Beats(ts, r, t) \/ (~Beats(ts, t, r) /\ Sooner(r, t))
  <2>1. CASE Beats(ts, r, s) /\ Beats(ts, s, t)
    BY ONLY <1>1, <1>2, <1>3, <1>4, <2>1
  <2>2. CASE Beats(ts, r, s) /\ ~Beats(ts, t, s)
    BY ONLY <1>1, <1>2, <1>3, <1>4, <2>2
  <2>3. CASE ~Beats(ts, s, r) /\ Beats(ts, s, t)
    BY ONLY <1>1, <1>2, <1>3, <1>4, <2>3
  <2>4. CASE ~Beats(ts, s, r) /\ ~Beats(ts, t, s) /\ Sooner(r, s) /\ Sooner(s, t)
    BY ONLY <1>1, <1>2, <1>3, <1>4, <1>5, <2>4
  <2>5. QED  BY <1>6, <2>1, <2>2, <2>3, <2>4
<1>8. QED  BY <1>7 DEF Before

(* A stylesheet has finitely many rules.                                    *)
LEMMA FiniteRules ==
  ASSUME NEW ts, IsTemplates(ts)
  PROVE  IsFiniteSet(RulesOf(ts)) /\ IsFiniteSet(DOMAIN ts)
<1> DEFINE Of(i) == {i} \X DOMAIN ts[i].decl.operands
<1> PICK T : T = {Of(i) : i \in DOMAIN ts}  OBVIOUS
<1>1. IsFiniteSet(DOMAIN ts)
  <2> PICK S : S = Range(ts)  OBVIOUS
  <2>1. ts \in Seq(S)  BY DEF IsTemplates
  <2>2. DOMAIN ts = 1..Len(ts) /\ Len(ts) \in Nat  BY <2>1
  <2>3. QED  BY <2>2, FS_Interval
<1>2. IsFiniteSet(T)
  <2> PICK f : f = [i \in DOMAIN ts |-> Of(i)]  OBVIOUS
  <2>1. f \in Surjection(DOMAIN ts, T)
    <3> HIDE DEF Of
    <3>1. f \in [DOMAIN ts -> T] /\ \A t \in T : \E i \in DOMAIN ts : f[i] = t  OBVIOUS
    <3>2. QED  BY <3>1 DEF Surjection
  <2>2. QED  BY <1>1, <2>1, FS_Surjection
<1>3. ASSUME NEW t \in T  PROVE IsFiniteSet(t)
  <2> PICK i \in DOMAIN ts : t = Of(i)  OBVIOUS
  <2> PICK o, S : o = ts[i].decl.operands /\ S = Range(o)  OBVIOUS
  <2>1. o \in Seq(S)  BY DEF IsTemplates
  <2>2. DOMAIN o = 1..Len(o) /\ Len(o) \in Nat  BY <2>1
  <2>3. IsFiniteSet(DOMAIN o)  BY <2>2, FS_Interval
  <2>4. IsFiniteSet({i})  BY FS_Singleton
  <2>5. QED  BY <2>3, <2>4, FS_Product
<1>4. IsFiniteSet(UNION T)  BY <1>2, <1>3, FS_UNION
<1>5. RulesOf(ts) = UNION T  BY DEF RulesOf
<1>6. QED  BY <1>1, <1>4, <1>5

(* Of some rules one comes before every other.                              *)
LEMMA BestIs ==
  ASSUME NEW ts, IsTemplates(ts), NEW rules, rules \subseteq RulesOf(ts), rules # {}
  PROVE  /\ Best(ts, rules) \in rules
         /\ \A s \in rules \ {Best(ts, rules)} : Before(ts, Best(ts, rules), s)
<1> DEFINE Beaten(r) == {s \in rules : Before(ts, r, s)}
           Rank(r)   == Cardinality(Beaten(r)) + 1
<1>1. IsFiniteSet(rules)  BY FiniteRules, FS_Subset
<1> PICK n \in Nat : n = Cardinality(rules) + 1  BY <1>1, FS_CardinalityType
<1>2. ASSUME NEW r \in rules
      PROVE  IsFiniteSet(Beaten(r)) /\ Cardinality(Beaten(r)) \in Nat /\ Rank(r) \in 1..n
  <2>1. Beaten(r) \subseteq rules  OBVIOUS
  <2> HIDE DEF Beaten
  <2>2. IsFiniteSet(Beaten(r)) /\ Cardinality(Beaten(r)) <= Cardinality(rules)  BY <1>1, <2>1, FS_Subset
  <2>3. Cardinality(Beaten(r)) \in Nat /\ Cardinality(rules) \in Nat  BY <1>1, <2>2, FS_CardinalityType
  <2>4. QED  BY <2>2, <2>3
<1>3. PICK K : K = {Rank(r) : r \in rules}  OBVIOUS
<1>4. PICK r \in rules : \A s \in rules : Rank(s) <= Rank(r)
  <2> HIDE DEF Rank
  <2>1. K \subseteq 1..n /\ K # {}  BY <1>2, <1>3
  <2>2. Max(K) \in K /\ \A k \in K : k <= Max(K)  BY <2>1, GreatestOf
  <2>3. QED  BY <1>3, <2>2
<1>5. ASSUME NEW s \in rules \ {r}  PROVE Before(ts, r, s)
  <2> SUFFICES ASSUME ~Before(ts, r, s)  PROVE FALSE  OBVIOUS
  <2>1. Before(ts, s, r) /\ ~Before(ts, r, r)  BY BeforeTotal
  <2>2. \A t \in rules : Before(ts, r, t) => Before(ts, s, t)  BY <2>1, BeforeTransitive
  <2>3. Beaten(r) \cup {r} \subseteq Beaten(s) /\ r \notin Beaten(r)  BY <2>1, <2>2
  <2>4. /\ IsFiniteSet(Beaten(r)) /\ IsFiniteSet(Beaten(s)) /\ Rank(s) <= Rank(r)
        /\ Cardinality(Beaten(r)) \in Nat /\ Cardinality(Beaten(s)) \in Nat
    BY <1>2, <1>4
  <2>c. Rank(r) = Cardinality(Beaten(r)) + 1 /\ Rank(s) = Cardinality(Beaten(s)) + 1  OBVIOUS
  <2> HIDE DEF Beaten, Rank
  <2>5. Cardinality(Beaten(r) \cup {r}) = Cardinality(Beaten(r)) + 1  BY <2>3, <2>4, FS_AddElement
  <2>6. Cardinality(Beaten(r) \cup {r}) <= Cardinality(Beaten(s))  BY <2>3, <2>4, FS_Subset
  <2>7. QED  BY <2>4, <2>c, <2>5, <2>6
<1>6. Best(ts, rules) = CHOOSE x \in rules : \A s \in rules \ {x} : Before(ts, x, s)
  BY DEF Best, Before, Sooner
<1>7. QED  BY <1>5, <1>6

(* A rule is chosen where there is one.                                     *)
LEMMA ChosenIs ==
  ASSUME NEW ts, IsTemplates(ts), NEW rules, rules \subseteq RulesOf(ts), Chosen(ts, rules) # NoRule
  PROVE  Chosen(ts, rules) \in rules
BY BestIs DEF Chosen

(* The rule of xsl:apply-imports is of a lower level.                       *)
LEMMA ImportedIs ==
  ASSUME NEW ts, IsTemplates(ts), NEW node, NEW r, ts[r[1]].precedence \in Int,
         ApplyImports(ts, node, r) # NoRule
  PROVE  LET i == ApplyImports(ts, node, r)[1]
         IN i \in DOMAIN ts /\ ts[i].precedence \in Int /\ ts[i].precedence < ts[r[1]].precedence
<1> PICK rules : rules = {x \in Matching(ts, node) : ts[x[1]].precedence <= ts[r[1]].precedence - 1}
  OBVIOUS
<1>1. rules \subseteq RulesOf(ts)  BY DEF Matching, RulesOf
<1>2. ApplyImports(ts, node, r) = Chosen(ts, rules)
  BY DEF ApplyImports, select_template_max_precedence
<1>3. PICK x \in rules : x = ApplyImports(ts, node, r)  BY <1>1, <1>2, ChosenIs
<1>4. x[1] \in DOMAIN ts /\ ts[x[1]].precedence \in Int  BY <1>1, RuleIs
<1>5. ts[x[1]].precedence <= ts[r[1]].precedence - 1  OBVIOUS
<1>6. QED  BY <1>3, <1>4, <1>5

(* Of the rules that match a node one comes before all others, and that is  *)
(* the one chosen, whatever the stylesheet: so the loops, which replace the *)
(* best so far only by one that beats it, depend on no order but that of    *)
(* the templates; and xsl:next-match, which goes on from a rule to one that *)
(* it beats, comes to no rule twice (select_template_inner,                 *)
(* select_template_next).                                                   *)
THEOREM ConflictsResolve ==
  ASSUME NEW ts, IsTemplates(ts), NEW node
  PROVE  LET First(r, rules) == r \in rules /\ \A s \in rules \ {r} : Before(ts, r, s) /\ ~Before(ts, s, r)
             rules == Matching(ts, node)
         IN /\ rules # {} => First(select_template(ts, node), rules)
            /\ \A r, s \in rules : s = select_template_next(ts, node, r) => Before(ts, r, s) /\ r # s
            /\ \A r, s, t \in rules : Before(ts, r, s) /\ Before(ts, s, t) => Before(ts, r, t) /\ r # t
<1>1. Matching(ts, node) \subseteq RulesOf(ts)  BY DEF Matching, RulesOf
<1>2. \A r, s, t \in RulesOf(ts) : Before(ts, r, s) /\ Before(ts, s, t) => Before(ts, r, t) /\ r # t
  <2>1. ASSUME NEW r \in RulesOf(ts), NEW s \in RulesOf(ts), NEW t \in RulesOf(ts),
               Before(ts, r, s), Before(ts, s, t)
        PROVE  Before(ts, r, t) /\ r # t
    <3>1. Before(ts, r, t)  BY <2>1, BeforeTransitive
    <3>2. ~Before(ts, t, t)  BY BeforeTotal
    <3>3. QED  BY <3>1, <3>2
  <2>2. QED  BY <2>1
<1>3. ASSUME Matching(ts, node) # {}, NEW r, r = select_template(ts, node)
      PROVE  /\ r \in Matching(ts, node)
             /\ \A s \in Matching(ts, node) \ {r} : Before(ts, r, s) /\ ~Before(ts, s, r)
  <2>1. r = Best(ts, Matching(ts, node))  BY <1>3 DEF select_template, Chosen
  <2>2. r \in Matching(ts, node) /\ \A s \in Matching(ts, node) \ {r} : Before(ts, r, s)
    BY <1>1, <1>3, <2>1, BestIs
  <2>3. ASSUME NEW s \in Matching(ts, node) \ {r}  PROVE ~Before(ts, s, r)
    BY <1>1, <1>2, <2>2
  <2>4. QED  BY <2>2, <2>3
<1>4. ASSUME NEW r \in Matching(ts, node), NEW s \in Matching(ts, node), s = select_template_next(ts, node, r)
      PROVE  Before(ts, r, s) /\ r # s
  <2> PICK rules : rules = {x \in Matching(ts, node) \ {r} : Beats(ts, r, x)}  OBVIOUS
  <2>1. s = Chosen(ts, rules) /\ s # NoRule  BY <1>1, <1>4, RuleIs DEF select_template_next
  <2>2. s \in rules  BY <1>1, <2>1, ChosenIs
  <2>3. QED  BY <2>2 DEF Before
<1>5. QED  BY <1>1, <1>2, <1>3, <1>4

-----------------------------------------------------------------------------
(* The rules that the activations see.  Only xsl:apply-imports leads from   *)
(* one to another that is not counted, and that is of a lower level; and    *)
(* it finds one, or it is no activation.                                    *)
LevelOf(rule) == templates[rule[2][1]].precedence
Levels        == {templates[t].precedence : t \in DOMAIN templates}
Lower(rule)   == {q \in Levels : q < LevelOf(rule)}
IsRule(rule)  == rule = NoRule \/ rule[2][1] \in DOMAIN templates

RuleKept(b, a) ==
  /\ IsRule(a.mine.rule)
  /\ a.kind \notin {"params", "body"} \/ b.kind = "call" => a.mine.rule \in {NoRule, b.mine.rule}
  /\ "rule" \in Saved(a.kind) => a.saved.rule \in {NoRule, b.mine.rule}
  /\ a.kind = "imports" => a.mine.rule # NoRule /\ Lower(a.mine.rule) # {}
  /\ a.kind \in {"params", "body"} /\ b.kind = "imports" =>
       a.mine.rule # NoRule /\ LevelOf(a.mine.rule) < LevelOf(b.mine.rule)

RuleSeen(a, c) == a.kind \notin Templates \ {"call"} => c.rule \in {NoRule, a.mine.rule}

RulesKept(s, c) ==
  s # <<>> => /\ s[1].mine.rule = NoRule
              /\ \A i \in 2..Len(s) : RuleKept(s[i - 1], s[i])
              /\ RuleSeen(s[Len(s)], c)

RInv == RulesKept(stack, context)

(* A push.                                                                  *)
LEMMA RulesPushed ==
  ASSUME NEW s, s \in Seq(Range(s)), s # <<>>, NEW c, RulesKept(s, c),
         NEW a, NEW d, RuleKept(s[Len(s)], a), RuleSeen(a, d)
  PROVE  RulesKept(Append(s, a), d)
<1> PICK t : t = Append(s, a)  OBVIOUS
<1> PICK n \in Nat : n = Len(s)  OBVIOUS
<1>1. n >= 1 /\ t # <<>> /\ Len(t) = n + 1 /\ t[n + 1] = a /\ \A i \in 1..n : t[i] = s[i]
  BY Appended
<1>2. s[1].mine.rule = NoRule /\ \A i \in 2..n : RuleKept(s[i - 1], s[i])  BY DEF RulesKept
<1>3. t[1].mine.rule = NoRule  BY <1>1, <1>2
<1>4. ASSUME NEW i \in 2..n + 1  PROVE RuleKept(t[i - 1], t[i])
  <2>1. CASE i = n + 1
    <3>1. t[i - 1] = s[n] /\ t[i] = a  BY <1>1, <2>1
    <3>2. QED  BY <3>1
  <2>2. CASE i \in 2..n
    <3>1. t[i - 1] = s[i - 1] /\ t[i] = s[i]  BY <1>1, <2>2
    <3>2. QED  BY <1>2, <2>2, <3>1
  <2>3. QED  BY <2>1, <2>2
<1>5. QED  BY <1>1, <1>3, <1>4 DEF RulesKept

(* A change of the innermost activation.                                    *)
LEMMA RulesChanged ==
  ASSUME NEW s, s \in Seq(Range(s)), Len(s) > 1, NEW c, RulesKept(s, c),
         NEW a, NEW d, RuleKept(s[Len(s) - 1], a), RuleSeen(a, d)
  PROVE  RulesKept([s EXCEPT ![Len(s)] = a], d)
<1> PICK t : t = [s EXCEPT ![Len(s)] = a]  OBVIOUS
<1> PICK n \in Nat : n = Len(s)  OBVIOUS
<1>1. n > 1 /\ DOMAIN s = 1..n /\ DOMAIN t = 1..n /\ t[n] = a /\ \A i \in 1..n : i # n => t[i] = s[i]
  OBVIOUS
<1>2. Len(t) = n  BY <1>1
<1>3. s[1].mine.rule = NoRule /\ \A i \in 2..n : RuleKept(s[i - 1], s[i])  BY <1>1 DEF RulesKept
<1>4. t[1].mine.rule = NoRule  BY <1>1, <1>3
<1>5. ASSUME NEW i \in 2..n  PROVE RuleKept(t[i - 1], t[i])
  <2>1. t[i - 1] = s[i - 1] /\ (i < n => t[i] = s[i])  BY <1>1
  <2>2. QED  BY <1>1, <1>3, <2>1
<1>6. QED  BY <1>1, <1>2, <1>4, <1>5 DEF RulesKept

(* What is popped, and what of the rest may have changed.                   *)
PopsRules(s, t, c, d) ==
  /\ Len(t) = Len(s) - 1 /\ \A i \in 1..Len(s) - 2 : t[i] = s[i]
  /\ Len(s) > 1 => LET b == t[Len(s) - 1]  b1 == s[Len(s) - 1]
                   IN b.kind = b1.kind /\ b.mine.rule = b1.mine.rule /\ b.saved = b1.saved
  /\ LET a == s[Len(s)]
     IN \/ d.rule = a.saved.rule /\ "rule" \in Saved(a.kind)
        \/ d.rule = c.rule /\ a.kind \notin Templates \ {"call"}

(* A pop.                                                                   *)
LEMMA RulesPopped ==
  ASSUME NEW s, s \in Seq(Range(s)), s # <<>>, ShapeOK(s), NEW c, RulesKept(s, c),
         NEW t, t \in Seq(Range(t)), NEW d, PopsRules(s, t, c, d)
  PROVE  RulesKept(t, d)
<1> PICK n \in Nat : n = Len(s)  OBVIOUS
<1>1. n >= 1 /\ Len(t) = n - 1  BY DEF PopsRules
<1>2. CASE n = 1
  <2>1. t = <<>>  BY <1>1, <1>2
  <2>2. QED  BY <2>1 DEF RulesKept
<1>3. CASE n > 1
  <2> PICK m \in Nat : m = n - 1  BY <1>3
  <2> PICK a, b, b2 : a = s[n] /\ b = s[m] /\ b2 = t[m]  OBVIOUS
  <2>1. b2.kind = b.kind /\ b2.mine.rule = b.mine.rule /\ b2.saved = b.saved
        /\ \A i \in 1..m - 1 : t[i] = s[i]
    BY <1>3 DEF PopsRules
  <2>2. /\ s[1].mine.rule = NoRule /\ (\A i \in 2..n : RuleKept(s[i - 1], s[i]))
        /\ RuleSeen(a, c)
    BY DEF RulesKept
  <2>3. RuleKept(b, a)
    <3>1. n \in 2..n  BY <1>3
    <3>2. QED  BY <2>2, <3>1
  <2>4. a.kind \in {"params", "body"} <=> b.kind \in Templates
    <3>1. n \in 2..n  BY <1>3
    <3>2. QED  BY <3>1 DEF ShapeOK, InTemplateBody
  <2>5. RuleSeen(b2, d)
    <3>1. SUFFICES ASSUME b.kind \notin Templates \ {"call"}  PROVE d.rule \in {NoRule, b.mine.rule}
      BY <2>1 DEF RuleSeen
    <3>2. CASE d.rule = a.saved.rule /\ "rule" \in Saved(a.kind)
      BY <2>3, <3>2 DEF RuleKept
    <3>3. CASE d.rule = c.rule /\ a.kind \notin Templates \ {"call"}
      <4>1. c.rule \in {NoRule, a.mine.rule}  BY <2>2, <3>3 DEF RuleSeen
      <4>2. a.mine.rule \in {NoRule, b.mine.rule}  BY <2>3, <2>4, <3>1 DEF RuleKept
      <4>3. QED  BY <3>3, <4>1, <4>2
    <3>4. QED  BY <3>2, <3>3 DEF PopsRules
  <2>6. t[1].mine.rule = NoRule
    <3>1. m = 1 \/ 1 \in 1..m - 1  BY <1>3
    <3>2. QED  BY <2>1, <2>2, <3>1
  <2>7. ASSUME NEW i \in 2..m  PROVE RuleKept(t[i - 1], t[i])
    <3>1. i \in 2..n /\ t[i - 1] = s[i - 1] /\ (i < m => t[i] = s[i])  BY <2>1
    <3>2. RuleKept(s[i - 1], s[i])  BY <2>2, <3>1
    <3>3. CASE i < m
      BY <3>1, <3>2, <3>3
    <3>4. CASE i = m
      <4>1. RuleKept(s[i - 1], b)  BY <3>2, <3>4
      <4>2. RuleKept(s[i - 1], b2)  BY <2>1, <4>1 DEF RuleKept
      <4>3. QED  BY <3>1, <3>4, <4>2
    <3>5. QED  BY <3>3, <3>4
  <2>8. QED  BY <1>1, <2>5, <2>6, <2>7 DEF RulesKept
<1>4. QED  BY <1>1, <1>2, <1>3

(* The innermost activation and its rule.                                   *)
LEMMA RulesTop ==
  ASSUME IInv, RInv, stack # <<>>
  PROVE  /\ stack \in Seq(Range(stack)) /\ Len(stack) \in Nat /\ Len(stack) >= 1 /\ ShapeOK(stack)
         /\ IsActivation(Top) /\ IsContext(context)
         /\ RuleSeen(Top, context) /\ IsRule(Top.mine.rule)
         /\ Top.kind # "apply" =>
              /\ Len(stack) > 1 /\ RuleKept(stack[Len(stack) - 1], Top)
              /\ IsActivation(stack[Len(stack) - 1])
         /\ Top.kind \in {"params", "body"} <=>
              Len(stack) > 1 /\ stack[Len(stack) - 1].kind \in Templates
<1> PICK s, c, n : s = stack /\ c = context /\ n = Len(s)  OBVIOUS
<1>1. /\ n \in Nat /\ n >= 1 /\ s \in Seq(Range(s)) /\ ShapeOK(s)
      /\ IsActivation(s[n]) /\ IsContext(c)
      /\ s[n].kind # "apply" => n - 1 \in 1..n /\ n > 1 /\ IsActivation(s[n - 1])
      /\ s[n].kind \in {"params", "body"} <=> n > 1 /\ s[n - 1].kind \in Templates
  <2>1. Good(s, c, frames, lost, raised) /\ s # <<>>  BY DEF IInv
  <2>2. ShapeOK(s)  BY <2>1 DEF Good
  <2>3. QED  BY <2>1, <2>2, TopIs
<1>2. /\ s[1].mine.rule = NoRule /\ RuleSeen(s[n], c)
      /\ \A i \in 2..n : RuleKept(s[i - 1], s[i])
  BY DEF RInv, RulesKept
<1>3. n > 1 => RuleKept(s[n - 1], s[n])
  <2>1. n > 1 => n \in 2..n  BY <1>1
  <2>2. QED  BY <1>2, <2>1
<1>4. IsRule(s[n].mine.rule)
  <2>1. CASE n = 1
    BY <1>2, <2>1 DEF IsRule
  <2>2. CASE n > 1
    BY <1>3, <2>2 DEF RuleKept
  <2>3. QED  BY <1>1, <2>1, <2>2
<1>5. QED  BY <1>1, <1>2, <1>3, <1>4 DEF Top

(* A context with the same rule.                                            *)
LEMMA RulesUnmoved ==
  ASSUME RInv, stack' = stack, context'.rule = context.rule
  PROVE  RInv'
<1> PICK s, c, d : s = stack /\ c = context /\ d = context'  OBVIOUS
<1>1. RulesKept(s, c) /\ d.rule = c.rule  BY DEF RInv
<1>2. RulesKept(s, d)  BY <1>1 DEF RulesKept, RuleSeen
<1>3. QED  BY <1>2 DEF RInv

(* An innermost activation that has and had the same rule.                  *)
LEMMA RulesAlike ==
  ASSUME IInv, RInv, stack # <<>>, Top.kind \notin Templates,
         NEW kind, NEW mine, stack' = Becomes(kind, mine), mine.rule = Top.mine.rule,
         kind = Top.kind \/ (kind = "body" /\ Top.kind = "params"), context'.rule = context.rule
  PROVE  RInv'
<1> PICK s, c, d, n, b, e : s = stack /\ c = context /\ d = context' /\ n = Len(s) /\ b = s[n] /\ e = s[n - 1]
  OBVIOUS
<1> PICK a : a = [b EXCEPT !.kind = kind, !.mine = mine]  OBVIOUS
<1>1. /\ s \in Seq(Range(s)) /\ n \in Nat /\ n > 1 /\ RulesKept(s, c)
      /\ IsActivation(b) /\ RuleSeen(b, c) /\ RuleKept(e, b)
  BY RulesTop DEF Top, RInv, Templates
<1>2. a.kind = kind /\ a.mine = mine /\ a.saved = b.saved
  <2>1. DOMAIN b = {"kind", "saved", "frames", "lost", "mine"}  BY <1>1 DEF IsActivation
  <2>2. QED  BY <2>1
<1>3. kind = b.kind \/ (kind = "body" /\ b.kind = "params")  BY DEF Top
<1>4. mine.rule = b.mine.rule /\ d.rule = c.rule /\ b.kind \notin Templates  BY DEF Top
<1>5. Saved("body") = Saved("params") /\ "body" \notin Templates  BY DEF Saved, Templates
<1>6. RuleKept(e, a)
  <2>1. CASE kind = b.kind
    BY <1>1, <1>2, <1>4, <2>1 DEF RuleKept
  <2>2. CASE kind = "body" /\ b.kind = "params"
    BY <1>1, <1>2, <1>4, <1>5, <2>2 DEF RuleKept
  <2>3. QED  BY <1>3, <2>1, <2>2
<1>7. RuleSeen(a, d)  BY <1>1, <1>2, <1>4 DEF RuleSeen
<1>8. RulesKept([s EXCEPT ![Len(s)] = a], d)  BY <1>1, <1>6, <1>7, RulesChanged
<1>9. stack' = [s EXCEPT ![Len(s)] = a]  BY DEF Becomes, Top
<1>10. QED  BY <1>8, <1>9 DEF RInv

(* Enter keeps it.                                                          *)
LEMMA EnterRules ==
  ASSUME IInv, RInv, NEW kind \in Simple, NEW x, Enter(kind, x)
  PROVE  RInv'
<1> PICK s, c, d, n, b : s = stack /\ c = context /\ d = context' /\ n = Len(s) /\ b = s[n]  OBVIOUS
<1> DEFINE M == IF kind = "attributes"
                THEN [b.mine EXCEPT !.var = Global, !.own = (Head(frames) = Global)]
                ELSE Setting(b.mine, kind, x)
<1> PICK m : m = M  OBVIOUS
<1> PICK a : a = [kind |-> kind, saved |-> c, frames |-> frames, lost |-> lost, mine |-> m]  OBVIOUS
<1>1. /\ b.kind \notin Templates \cup {"params"} /\ s # <<>>
      /\ d = Setting(c, kind, x) /\ stack' = Append(s, a)
  BY DEF Enter, InBody, Seeing, Running, Top, Activation
<1>2. /\ s \in Seq(Range(s)) /\ RulesKept(s, c) /\ IsActivation(b) /\ IsContext(c)
      /\ RuleSeen(b, c) /\ IsRule(b.mine.rule)
  BY <1>1, RulesTop DEF Top, RInv
<1>3. "rule" \in DOMAIN c /\ "rule" \in DOMAIN b.mine /\ "rule" \in Kept
  BY <1>2 DEF IsActivation, IsMine, IsContext, Kept
<1>4. d["rule"] = IF "rule" \in Assigned(kind) THEN NoRule ELSE c["rule"]  BY <1>1, <1>3, SettingIs
<1>5. m["rule"] = IF "rule" \in Assigned(kind) /\ kind # "attributes" THEN NoRule ELSE b.mine["rule"]
  <2>1. CASE kind = "attributes"
    <3>1. m = [b.mine EXCEPT !.var = Global, !.own = (Head(frames) = Global)]  BY <2>1
    <3>2. QED  BY <1>3, <2>1, <3>1
  <2>2. CASE kind # "attributes"
    <3>1. m = Setting(b.mine, kind, x)  BY <2>2
    <3>2. QED  BY <1>3, <2>2, <3>1, SettingIs
  <2>3. QED  BY <2>1, <2>2
<1>6. "rule" \notin Assigned("attributes")  BY DEF Assigned
<1>7. a.kind = kind /\ a.saved = c /\ a.mine = m  OBVIOUS
<1>8. c.rule \in {NoRule, b.mine.rule}  BY <1>1, <1>2 DEF RuleSeen
<1>9. kind \notin {"params", "body"} /\ kind # "imports"  BY DEF Simple
<1> HIDE DEF M
<1>10. RuleKept(b, a)
  <2>1. IsRule(m.rule) /\ m.rule \in {NoRule, b.mine.rule}  BY <1>2, <1>5 DEF IsRule
  <2>2. QED  BY <1>7, <1>8, <1>9, <2>1 DEF RuleKept
<1>11. RuleSeen(a, d)  BY <1>4, <1>5, <1>6, <1>7, <1>8 DEF RuleSeen
<1>12. RulesKept(Append(s, a), d)  BY <1>1, <1>2, <1>10, <1>11, RulesPushed
<1>13. QED  BY <1>1, <1>12 DEF RInv

(* The actions that change the innermost activation.                        *)
LEMMA ChangeRules ==
  ASSUME IInv, RInv
  PROVE  /\ \A v \in Values : Bind(v) => RInv'
         /\ \A v \in Values \cup {None} : Begin(v) => RInv'
         /\ \A x \in Nodes : NextItem(x) => RInv'
         /\ Complete => RInv'
<1>1. ASSUME NEW v \in Values, Bind(v)  PROVE RInv'
  <2> PICK m : m = [Top.mine EXCEPT !.var = v, !.own = TRUE]  OBVIOUS
  <2>1. stack # <<>> /\ Top.kind \notin Templates /\ stack' = Becomes(Top.kind, m) /\ context' = context
    BY <1>1 DEF Bind, InBody, Seeing, Running
  <2>2. IsActivation(Top)  BY <2>1, RulesTop
  <2>3. m.rule = Top.mine.rule  BY <2>2 DEF IsActivation, IsMine, Kept
  <2>4. QED  BY <2>1, <2>3, RulesAlike
<1>2. ASSUME NEW v \in Values \cup {None}, Begin(v)  PROVE RInv'
  <2> PICK m : m = [Top.mine EXCEPT !.own = (v # None), !.var = IF v = None THEN @ ELSE v]  OBVIOUS
  <2>1. stack # <<>> /\ Top.kind = "params" /\ stack' = Becomes("body", m) /\ context' = context
    BY <1>2 DEF Begin, Running
  <2>2. IsActivation(Top)  BY <2>1, RulesTop
  <2>3. m.rule = Top.mine.rule  BY <2>2 DEF IsActivation, IsMine, Kept
  <2>4. QED  BY <2>1, <2>3, RulesAlike DEF Templates
<1>3. ASSUME NEW x \in Nodes, NextItem(x)  PROVE RInv'
  <2> DEFINE Set == Assigned(Top.kind) \ {"rule"}
             Fresh == Top.kind = "iterate"
             For(record) == [f \in DOMAIN record |-> IF f \in Set THEN x ELSE record[f]]
             M == [For(Top.mine) EXCEPT !.var = Below.mine.var,
                                        !.own = Below.mine.own /\ (Fresh \/ Last(frames) = None)]
  <2>1. stack # <<>> /\ Top.kind \notin Templates /\ stack' = Becomes(Top.kind, M) /\ context' = For(context)
    BY <1>3 DEF NextItem, Running, Templates
  <2>2. IsActivation(Top) /\ IsContext(context)  BY <2>1, RulesTop
  <2>3. "rule" \in DOMAIN Top.mine /\ "rule" \in DOMAIN context
    BY <2>2 DEF IsActivation, IsMine, IsContext, Kept
  <2>4. M["rule"] = Top.mine["rule"]
    <3> PICK f, v, o : f = For(Top.mine) /\ v = Below.mine.var
                       /\ o = (Below.mine.own /\ (Fresh \/ Last(frames) = None))
      OBVIOUS
    <3>1. "rule" \in DOMAIN f /\ f["rule"] = Top.mine["rule"]  BY <2>3
    <3>2. M = [f EXCEPT !.var = v, !.own = o]  OBVIOUS
    <3> HIDE DEF M, For
    <3>3. QED  BY <3>1, <3>2
  <2>5. context'["rule"] = context["rule"]  BY <2>1, <2>3
  <2> HIDE DEF M, For
  <2>6. QED  BY <2>1, <2>4, <2>5, RulesAlike
<1>4. ASSUME Complete  PROVE RInv'
  <2> PICK s, c, d, n, b, e : s = stack /\ c = context /\ d = context' /\ n = Len(s) /\ b = s[n] /\ e = s[n - 1]
    OBVIOUS
  <2> PICK a : a = [b EXCEPT !.kind = "completion", !.mine = e.mine]  OBVIOUS
  <2>1. s # <<>> /\ b.kind = "iterate" /\ d = [f \in DOMAIN c |-> IF f \in Saved("iterate") THEN b.saved[f] ELSE c[f]]
    BY <1>4 DEF Complete, Running, Top, Restored
  <2>2. /\ s \in Seq(Range(s)) /\ n \in Nat /\ n > 1 /\ RulesKept(s, c)
        /\ IsActivation(b) /\ IsContext(c) /\ RuleSeen(b, c) /\ RuleKept(e, b)
    BY <2>1, RulesTop DEF Top, RInv
  <2>3. stack' = [s EXCEPT ![Len(s)] = a]
    <3>1. Below = e  BY <2>2 DEF Below
    <3>2. stack' = Becomes("completion", Below.mine)  BY <1>4 DEF Complete
    <3>3. QED  BY <3>1, <3>2 DEF Becomes, Top
  <2>4. a.kind = "completion" /\ a.mine = e.mine /\ a.saved = b.saved
    <3>1. DOMAIN b = {"kind", "saved", "frames", "lost", "mine"}  BY <2>2 DEF IsActivation
    <3>2. QED  BY <3>1
  <2>5. "rule" \notin Saved("iterate") /\ "rule" \notin Saved("completion")  BY DEF Saved, Assigned
  <2>6. d.rule = c.rule  BY <2>1, <2>2, <2>5 DEF IsContext, Kept
  <2>7. c.rule \in {NoRule, e.mine.rule}
    <3>1. c.rule \in {NoRule, b.mine.rule}  BY <2>1, <2>2 DEF RuleSeen, Templates
    <3>2. b.mine.rule \in {NoRule, e.mine.rule}  BY <2>1, <2>2 DEF RuleKept
    <3>3. QED  BY <3>1, <3>2
  <2>8. IsRule(e.mine.rule)
    <3>1. CASE n = 2
      <4>1. s[1].mine.rule = NoRule  BY <2>1, <2>2 DEF RulesKept
      <4>2. QED  BY <3>1, <4>1 DEF IsRule
    <3>2. CASE n > 2
      <4>1. n - 1 \in 2..n  BY <2>2, <3>2
      <4>2. RuleKept(s[n - 2], e)  BY <2>1, <2>2, <4>1 DEF RulesKept
      <4>3. QED  BY <4>2 DEF RuleKept
    <3>3. QED  BY <2>2, <3>1, <3>2
  <2>9. RuleKept(e, a)  BY <2>4, <2>5, <2>8 DEF RuleKept
  <2>10. RuleSeen(a, d)  BY <2>4, <2>6, <2>7 DEF RuleSeen
  <2>11. RulesKept([s EXCEPT ![Len(s)] = a], d)  BY <2>2, <2>9, <2>10, RulesChanged
  <2>12. QED  BY <2>3, <2>11 DEF RInv
<1>5. QED  BY <1>1, <1>2, <1>3, <1>4

(* The activation of an instruction that applies or calls templates.        *)
LEMMA CallerRules ==
  ASSUME IInv, RInv, stack # <<>>, Top.kind \notin Templates, NEW kind \in Templates, NEW p,
         kind = "imports" => Top.mine.rule # NoRule /\ Lower(Top.mine.rule) # {},
         NEW a, a = Activation(kind, context, Tunnelled(p))
  PROVE  /\ RulesKept(Append(stack, a), WithParams(p)) /\ a.kind = kind
         /\ "rule" \in DOMAIN a.mine /\ a.mine["rule"] = Top.mine["rule"]
         /\ "rule" \in DOMAIN WithParams(p) /\ WithParams(p)["rule"] = context["rule"]
<1> PICK s, c, b, d, m : s = stack /\ c = context /\ b = Top /\ d = WithParams(p) /\ m = Tunnelled(p)  OBVIOUS
<1>1. /\ s \in Seq(Range(s)) /\ RulesKept(s, c) /\ b = s[Len(s)] /\ IsActivation(b) /\ IsContext(c)
      /\ RuleSeen(b, c) /\ IsRule(b.mine.rule)
  BY RulesTop DEF Top, RInv
<1>2. a.kind = kind /\ a.saved = c /\ a.mine = m  BY DEF Activation
<1>3. "rule" \in DOMAIN m /\ m["rule"] = b.mine["rule"]
  <2>1. "rule" \in DOMAIN b.mine  BY <1>1 DEF IsActivation, IsMine, Kept
  <2>2. m = b.mine \/ m = [b.mine EXCEPT !.tunnel = p]  BY DEF Tunnelled
  <2>3. QED  BY <2>1, <2>2
<1>4. "rule" \in DOMAIN d /\ d["rule"] = c["rule"]
  <2>1. "rule" \in DOMAIN c  BY <1>1 DEF IsContext, Kept
  <2>2. d = c \/ d = [c EXCEPT !.tunnel = p]  BY DEF WithParams
  <2>3. QED  BY <2>1, <2>2
<1>5. c.rule \in {NoRule, b.mine.rule}  BY <1>1 DEF RuleSeen
<1>6. kind \notin {"params", "body"}  BY DEF Templates
<1>7. RuleKept(b, a)  BY <1>1, <1>2, <1>3, <1>5, <1>6 DEF RuleKept
<1>8. RuleSeen(a, d)  BY <1>2, <1>3, <1>4, <1>5 DEF RuleSeen
<1>9. QED  BY <1>1, <1>2, <1>3, <1>4, <1>7, <1>8, RulesPushed

(* The activation of a template.                                            *)
LEMMA TemplateRules ==
  ASSUME NEW t, t \in Seq(Range(t)), t # <<>>, NEW c, RulesKept(t, c),
         NEW set, NEW mine, NEW still, run_template_body(t, set, mine, still),
         "rule" \in DOMAIN set, set["rule"] \in {NoRule, mine["rule"]}, IsRule(mine["rule"]),
         t[Len(t)].kind = "call" => mine["rule"] \in {NoRule, t[Len(t)].mine["rule"]},
         t[Len(t)].kind = "imports" =>
           mine["rule"] # NoRule /\ LevelOf(mine["rule"]) < LevelOf(t[Len(t)].mine["rule"])
  PROVE  RInv'
<1> PICK b, d, a : b = t[Len(t)] /\ d = context' /\ a = Activation("params", set, mine)  OBVIOUS
<1>1. stack' = Append(t, a) /\ d = [set EXCEPT !.current = mine.current]  BY DEF run_template_body
<1>2. a.kind = "params" /\ a.mine = mine  BY DEF Activation
<1>3. d["rule"] = set["rule"]  BY <1>1
<1>4. "rule" \notin Saved("params") /\ "params" \notin Templates  BY DEF Saved, Templates
<1>5. RuleKept(b, a)  BY <1>2, <1>4 DEF RuleKept
<1>6. RuleSeen(a, d)  BY <1>2, <1>3 DEF RuleSeen
<1>7. RulesKept(Append(t, a), d)  BY <1>5, <1>6, RulesPushed
<1>8. QED  BY <1>1, <1>7 DEF RInv

(* The actions that push activations of templates.                          *)
LEMMA ApplyRules ==
  ASSUME IInv, RInv, NEW p, ApplyTemplates(p)
  PROVE  RInv'
<1> PICK a : a = Activation("apply", context, Tunnelled(p))  OBVIOUS
<1>1. stack # <<>> /\ Top.kind \notin Templates /\ stack' = Append(stack, a) /\ context' = WithParams(p)
  BY DEF ApplyTemplates, InBody, Seeing, Running
<1>2. "apply" \in Templates  BY DEF Templates
<1>3. RulesKept(Append(stack, a), WithParams(p))  BY <1>1, <1>2, CallerRules
<1>4. QED  BY <1>1, <1>3 DEF RInv

(* apply-templates on one node keeps it.                                    *)
LEMMA ApplyOneRules ==
  ASSUME IInv, RInv, NEW n, apply_one_to_node(n)
  PROVE  RInv'
<1> PICK r : r = select_template(templates, n)  OBVIOUS
<1> PICK depth : depth = Top.saved.depth + 1  OBVIOUS
<1>1. stack # <<>> /\ Top.kind = "apply" /\ r # NoRule  BY DEF apply_one_to_node, Running
<1>2. CASE UNCHANGED <<context, stack>>
  BY <1>2, RulesUnmoved
<1>3. CASE run_template_body(stack, [context EXCEPT !.rule = <<n, r>>, !.depth = depth],
                             InTemplate(n, <<n, r>>, Top.mine), lost \ {"rule"})
  <2> PICK set, mine : set = [context EXCEPT !.rule = <<n, r>>, !.depth = depth]
                       /\ mine = InTemplate(n, <<n, r>>, Top.mine)
    OBVIOUS
  <2>1. /\ stack \in Seq(Range(stack)) /\ RulesKept(stack, context)
        /\ IsActivation(Top) /\ IsContext(context) /\ Top = stack[Len(stack)]
    BY <1>1, RulesTop DEF RInv, Top
  <2>2. "rule" \in DOMAIN set /\ set["rule"] = <<n, r>>  BY <2>1 DEF IsContext, Kept
  <2>3. mine["rule"] = <<n, r>>
    <3>1. "rule" \in DOMAIN Top.mine  BY <2>1 DEF IsActivation, IsMine, Kept
    <3>2. mine = [Top.mine EXCEPT !.current = n, !.rule = <<n, r>>, !.var = Global, !.own = FALSE]
      BY DEF InTemplate
    <3>3. QED  BY <3>1, <3>2
  <2>4. IsRule(<<n, r>>)
    <3>1. Matching(templates, n) \subseteq RulesOf(templates)  BY DEF Matching, RulesOf
    <3>2. IsTemplates(templates)  BY XsltAssumption
    <3>3. r \in Matching(templates, n)  BY <1>1, <3>1, <3>2, ChosenIs DEF select_template
    <3>4. r[1] \in DOMAIN templates  BY <3>1, <3>2, <3>3, RuleIs
    <3>5. <<n, r>>[2] = r  OBVIOUS
    <3>6. QED  BY <3>4, <3>5 DEF IsRule
  <2>5. run_template_body(stack, set, mine, lost \ {"rule"})  BY <1>3
  <2>6. QED  BY <1>1, <2>1, <2>2, <2>3, <2>4, <2>5, TemplateRules
<1>4. QED  BY <1>2, <1>3 DEF apply_one_to_node

(* next-match and apply-imports keep it.                                    *)
LEMMA AnotherRules ==
  ASSUME IInv, RInv, NEW kind \in {"next", "imports"}, NEW p, AnotherRule(kind, p)
  PROVE  RInv'
<1> PICK c : c = context  OBVIOUS
<1> PICK node : node = c.rule[1]  OBVIOUS
<1> PICK r : r = IF kind = "next" THEN select_template_next(templates, node, c.rule[2])
                 ELSE ApplyImports(templates, node, c.rule[2])
  OBVIOUS
<1> PICK depth : depth = c.depth + (IF kind = "next" THEN 1 ELSE 0)  OBVIOUS
<1> PICK a, o : a = Activation(kind, c, Tunnelled(p)) /\ o = Activation("apply", c, Tunnelled(p))  OBVIOUS
<1>1. stack # <<>> /\ Top.kind \notin Templates  BY DEF AnotherRule, InBody, Seeing, Running
<1>2. \/ UNCHANGED <<context, stack>>
      \/ stack' = Append(stack, o) /\ context' = WithParams(p)
      \/ /\ c.rule # NoRule /\ r # NoRule
         /\ run_template_body(Append(stack, a), [WithParams(p) EXCEPT !.rule = <<node, r>>, !.depth = depth],
                              InTemplate(node, <<node, r>>, Tunnelled(p)), StillLost(p) \ {"rule"})
  BY DEF AnotherRule
<1>3. CASE UNCHANGED <<context, stack>>
  BY <1>3, RulesUnmoved
<1>4. CASE stack' = Append(stack, o) /\ context' = WithParams(p)
  <2>1. "apply" \in Templates  BY DEF Templates
  <2>2. RulesKept(Append(stack, o), WithParams(p))  BY <1>1, <2>1, CallerRules
  <2>3. QED  BY <1>4, <2>2 DEF RInv
<1>5. CASE /\ c.rule # NoRule /\ r # NoRule
           /\ run_template_body(Append(stack, a), [WithParams(p) EXCEPT !.rule = <<node, r>>, !.depth = depth],
                                InTemplate(node, <<node, r>>, Tunnelled(p)), StillLost(p) \ {"rule"})
  <2>1. /\ RuleSeen(Top, c) /\ IsRule(Top.mine.rule) /\ stack \in Seq(Range(stack))
    BY <1>1, RulesTop
  <2>2. c.rule = Top.mine.rule /\ IsRule(c.rule) /\ c.rule[2][1] \in DOMAIN templates
    BY <1>1, <1>5, <2>1 DEF RuleSeen, IsRule
  <2>3. IsTemplates(templates)  BY XsltAssumption
  <2>4. LevelOf(c.rule) \in Int  BY <2>2, <2>3 DEF IsTemplates, LevelOf
  <2>5. /\ r[1] \in DOMAIN templates
        /\ kind = "imports" => templates[r[1]].precedence < LevelOf(c.rule)
    <3>1. CASE kind = "next"
      <4> PICK rules : rules = {x \in Matching(templates, node) \ {c.rule[2]} : Beats(templates, c.rule[2], x)}
        OBVIOUS
      <4>1. rules \subseteq RulesOf(templates)  BY DEF Matching, RulesOf
      <4>2. r = Chosen(templates, rules)  BY <3>1 DEF select_template_next
      <4>3. r \in rules  BY <1>5, <2>3, <4>1, <4>2, ChosenIs
      <4>4. QED  BY <2>3, <3>1, <4>1, <4>3, RuleIs
    <3>2. CASE kind = "imports"
      <4>1. r = ApplyImports(templates, node, c.rule[2]) /\ templates[c.rule[2][1]].precedence \in Int
        BY <2>4, <3>2 DEF LevelOf
      <4>2. r[1] \in DOMAIN templates /\ templates[r[1]].precedence < templates[c.rule[2][1]].precedence
        BY <1>5, <2>3, <4>1, ImportedIs
      <4>3. QED  BY <4>2 DEF LevelOf
    <3>3. QED  BY <3>1, <3>2
  <2>6. <<node, r>>[2] = r /\ <<node, r>> # NoRule  BY DEF NoRule
  <2>7. IsRule(<<node, r>>) /\ (kind = "imports" => LevelOf(<<node, r>>) < LevelOf(c.rule))
    BY <2>5, <2>6 DEF IsRule, LevelOf
  <2>8. kind = "imports" => Top.mine.rule # NoRule /\ Lower(Top.mine.rule) # {}
    <3>1. kind = "imports" => templates[r[1]].precedence \in Lower(c.rule)
      BY <2>5 DEF Lower, Levels
    <3>2. QED  BY <1>5, <2>2, <3>1
  <2>9. kind \in Templates /\ kind # "call"  BY DEF Templates
  <2> PICK t, d, m : t = Append(stack, a) /\ d = WithParams(p) /\ m = Tunnelled(p)  OBVIOUS
  <2> PICK set, mine : set = [d EXCEPT !.rule = <<node, r>>, !.depth = depth]
                       /\ mine = InTemplate(node, <<node, r>>, m)
    OBVIOUS
  <2>10. /\ RulesKept(t, d) /\ a.kind = kind /\ a.mine["rule"] = Top.mine["rule"]
         /\ "rule" \in DOMAIN a.mine /\ "rule" \in DOMAIN d
    BY <1>1, <2>8, <2>9, CallerRules
  <2>11. t \in Seq(Range(t)) /\ t # <<>> /\ t[Len(t)] = a
    BY <2>1, Appended
  <2>12. "rule" \in DOMAIN set /\ set["rule"] = <<node, r>>  BY <2>10
  <2>13. mine["rule"] = <<node, r>>
    <3>1. "rule" \in DOMAIN m  BY <2>10 DEF Activation
    <3>2. mine = [m EXCEPT !.current = node, !.rule = <<node, r>>, !.var = Global, !.own = FALSE]
      BY DEF InTemplate
    <3>3. QED  BY <3>1, <3>2
  <2>14. run_template_body(t, set, mine, StillLost(p) \ {"rule"})  BY <1>5
  <2>15. a.kind = "imports" => LevelOf(mine["rule"]) < LevelOf(a.mine["rule"])
    BY <2>2, <2>7, <2>10, <2>13
  <2>16. /\ set["rule"] \in {NoRule, mine["rule"]} /\ IsRule(mine["rule"])
         /\ t[Len(t)].kind = "call" => mine["rule"] \in {NoRule, t[Len(t)].mine["rule"]}
         /\ t[Len(t)].kind = "imports" =>
              mine["rule"] # NoRule /\ LevelOf(mine["rule"]) < LevelOf(t[Len(t)].mine["rule"])
    BY <2>6, <2>7, <2>9, <2>10, <2>11, <2>12, <2>13, <2>15
  <2>17. QED
    BY <2>10, <2>11, <2>12, <2>14, <2>16, TemplateRules
<1>6. QED  BY <1>2, <1>3, <1>4, <1>5

(* call-template keeps it.                                                  *)
LEMMA CallRules ==
  ASSUME IInv, RInv, NEW name, NEW p, Call(name, p)
  PROVE  RInv'
<1>1. stack # <<>> /\ Top.kind \notin Templates  BY DEF Call, InBody, Seeing, Running
<1> PICK a : a = Activation("call", context, Tunnelled(p))  OBVIOUS
<1> PICK t, d, m : t = Append(stack, a) /\ d = WithParams(p) /\ m = Tunnelled(p)  OBVIOUS
<1> PICK set, mine : set = [d EXCEPT !.depth = @ + 1]
                     /\ mine = InTemplate(Top.mine.current, Top.mine.rule, m)
  OBVIOUS
<1>2. UNCHANGED <<context, stack>> \/ run_template_body(t, set, mine, StillLost(p))
  BY DEF Call
<1>3. CASE UNCHANGED <<context, stack>>
  BY <1>3, RulesUnmoved
<1>4. CASE run_template_body(t, set, mine, StillLost(p))
  <2>1. "call" \in Templates  BY DEF Templates
  <2>2. /\ RulesKept(t, d) /\ a.kind = "call" /\ a.mine["rule"] = Top.mine["rule"]
        /\ "rule" \in DOMAIN a.mine /\ "rule" \in DOMAIN d /\ d["rule"] = context["rule"]
    BY <1>1, <2>1, CallerRules
  <2>3. /\ RuleSeen(Top, context) /\ IsRule(Top.mine["rule"]) /\ stack \in Seq(Range(stack))
    BY <1>1, RulesTop
  <2>4. t \in Seq(Range(t)) /\ t # <<>> /\ t[Len(t)] = a  BY <2>3, Appended
  <2>5. "rule" \in DOMAIN set /\ set["rule"] = context["rule"]  BY <2>2
  <2>6. mine["rule"] = Top.mine["rule"]
    <3>1. "rule" \in DOMAIN m  BY <2>2 DEF Activation
    <3>2. mine = [m EXCEPT !.current = Top.mine.current, !.rule = Top.mine.rule, !.var = Global, !.own = FALSE]
      BY DEF InTemplate
    <3>3. QED  BY <3>1, <3>2
  <2>7. context["rule"] \in {NoRule, Top.mine["rule"]}  BY <1>1, <2>3 DEF RuleSeen
  <2>8. QED  BY <1>4, <2>2, <2>3, <2>4, <2>5, <2>6, <2>7, TemplateRules
<1>5. QED  BY <1>2, <1>3, <1>4

(* The actions that pop.                                                    *)
(* What is left of the stack, of rules.                                     *)
LEMMA AroundRules ==
  ASSUME IInv, stack # <<>>, NEW t, t = Around(Top.kind)
  PROVE  /\ t \in Seq(Range(t)) /\ Len(t) = Len(stack) - 1 /\ \A i \in 1..Len(stack) - 2 : t[i] = stack[i]
         /\ Len(stack) > 1 => LET b == t[Len(stack) - 1]  e == stack[Len(stack) - 1]
                              IN b.kind = e.kind /\ b.mine.rule = e.mine.rule /\ b.saved = e.saved
<1>1. Good(stack, context, frames, lost, raised)  BY DEF IInv
<1>2. /\ t \in Seq(Range(t)) /\ Len(t) = Len(stack) - 1 /\ \A i \in 1..Len(stack) - 2 : t[i] = stack[i]
      /\ Len(stack) > 1 =>
           Uncovers(t[Len(stack) - 1], stack[Len(stack) - 1], KeepsFrame(stack[Len(stack)], frames))
  BY <1>1, AroundIs
<1>3. QED  BY <1>2 DEF Uncovers, Kept

(* A pop that puts back what the activation saved, or some of it.           *)
LEMMA PopRules ==
  ASSUME IInv, RInv, stack # <<>>, NEW F, F \subseteq Saved(Top.kind),
         Top.kind \in Templates \ {"call"} => "rule" \in F,
         context' = Restored(F), NEW t, t = Around(Top.kind)
  PROVE  RulesKept(t, context') /\ context'.rule = IF "rule" \in F THEN Top.saved.rule ELSE context.rule
<1> PICK s, c, d, a : s = stack /\ c = context /\ d = context' /\ a = s[Len(s)]  OBVIOUS
<1>1. /\ s \in Seq(Range(s)) /\ ShapeOK(s) /\ RulesKept(s, c) /\ IsContext(c) /\ a = Top
  BY RulesTop DEF RInv, Top
<1>2. d.rule = IF "rule" \in F THEN a.saved.rule ELSE c.rule
  <2>1. "rule" \in DOMAIN c  BY <1>1 DEF IsContext, Kept
  <2>2. d = [f \in DOMAIN c |-> IF f \in F THEN a.saved[f] ELSE c[f]]  BY <1>1 DEF Restored
  <2>3. QED  BY <2>1, <2>2
<1>3. PopsRules(s, t, c, d)
  <2>1. \/ d.rule = a.saved.rule /\ "rule" \in Saved(a.kind)
        \/ d.rule = c.rule /\ a.kind \notin Templates \ {"call"}
    BY <1>1, <1>2
  <2>2. QED  BY <2>1, AroundRules DEF PopsRules
<1>4. t \in Seq(Range(t))  BY AroundRules
<1>5. RulesKept(t, d)  BY <1>1, <1>3, <1>4, RulesPopped
<1>6. QED  BY <1>1, <1>2, <1>5

(* The ends of bodies, by error or not, keep it.                            *)
LEMMA EndRules ==
  ASSUME IInv, RInv
  PROVE  /\ Leave => RInv'
         /\ Unwind => RInv'
<1>1. \A k \in Templates \ {"call"} : "rule" \in Saved(k) /\ "rule" \in SavedOnError(k)
  BY DEF Templates, Saved, SavedOnError, Unguarded, FrameOnly
<1>2. \A k : SavedOnError(k) \subseteq Saved(k)  BY DEF SavedOnError
<1>3. ASSUME Leave  PROVE RInv'
  <2>1. stack # <<>> /\ context' = Restored(Saved(Top.kind)) /\ stack' = Around(Top.kind)
    BY <1>3 DEF Leave, Running
  <2>2. RulesKept(Around(Top.kind), context')  BY <1>1, <2>1, PopRules
  <2>3. QED  BY <2>1, <2>2 DEF RInv
<1>4. ASSUME Unwind  PROVE RInv'
  <2>1. stack # <<>> /\ context' = Restored(SavedOnError(Top.kind)) /\ stack' = Around(Top.kind)
    BY <1>4 DEF Unwind
  <2>2. RulesKept(Around(Top.kind), context')  BY <1>1, <1>2, <2>1, PopRules
  <2>3. QED  BY <2>1, <2>2 DEF RInv
<1>5. QED  BY <1>3, <1>4

(* xsl:catch keeps it.                                                      *)
LEMMA CatchRules ==
  ASSUME IInv, RInv, Catch
  PROVE  RInv'
<1> PICK c, d, t : c = context /\ d = context' /\ t = Around("try")  OBVIOUS
<1> PICK b : b = Last(t)  OBVIOUS
<1> PICK a : a = Activation("catch", Restored(SavedOnError("try")), b.mine)  OBVIOUS
<1>1. stack # <<>> /\ Top.kind = "try" /\ d = Restored(SavedOnError("try")) /\ stack' = Append(t, a)
  BY DEF Catch
<1>2. "rule" \notin SavedOnError("try") /\ SavedOnError("try") \subseteq Saved("try") /\ "try" \notin Templates
      /\ "rule" \notin Saved("catch") /\ "try" \notin {"params", "body"} /\ "try" # "apply"
  BY DEF SavedOnError, Saved, Assigned, Unguarded, FrameOnly, Templates
<1>3. RulesKept(t, d) /\ d.rule = c.rule
  BY <1>1, <1>2, PopRules
<1>4. /\ RuleSeen(Top, c) /\ Len(stack) > 1 /\ RuleKept(stack[Len(stack) - 1], Top)
      /\ stack[Len(stack) - 1].kind \notin Templates /\ Len(stack) \in Nat
  BY <1>1, <1>2, RulesTop
<1>5. /\ t \in Seq(Range(t)) /\ Len(t) = Len(stack) - 1
      /\ t[Len(stack) - 1].mine.rule = stack[Len(stack) - 1].mine.rule
  BY <1>1, <1>4, AroundRules
<1>6. b = t[Len(t)] /\ t # <<>> /\ b.mine.rule = stack[Len(stack) - 1].mine.rule
  BY <1>4, <1>5 DEF Last
<1>7. d.rule \in {NoRule, b.mine.rule}
  <2>1. c.rule \in {NoRule, Top.mine.rule}  BY <1>1, <1>2, <1>4 DEF RuleSeen
  <2>2. Top.mine.rule \in {NoRule, b.mine.rule}  BY <1>1, <1>2, <1>4, <1>6 DEF RuleKept
  <2>3. QED  BY <1>3, <2>1, <2>2
<1>8. IsRule(b.mine.rule)
  <2> PICK n \in Nat : n = Len(t)  BY <1>5
  <2>1. CASE n = 1
    BY <1>3, <1>6, <2>1 DEF RulesKept, IsRule
  <2>2. CASE n > 1
    <3>1. n \in 2..n  BY <2>2
    <3>2. RuleKept(t[n - 1], b)  BY <1>3, <1>6, <3>1 DEF RulesKept
    <3>3. QED  BY <3>2 DEF RuleKept
  <2>3. n = 1 \/ n > 1
    <3> PICK m \in Nat : m = Len(stack)  BY <1>4
    <3>1. m > 1 /\ n = m - 1  BY <1>4, <1>5
    <3>2. QED  BY ONLY <3>1, m \in Nat
  <2>4. QED  BY <2>1, <2>2, <2>3
<1>9. a.kind = "catch" /\ a.mine = b.mine  BY DEF Activation
<1>10. RuleKept(b, a)  BY <1>2, <1>8, <1>9 DEF RuleKept
<1>11. RuleSeen(a, d)  BY <1>7, <1>9 DEF RuleSeen
<1>12. RulesKept(Append(t, a), d)  BY <1>3, <1>5, <1>6, <1>10, <1>11, RulesPushed
<1>13. QED  BY <1>1, <1>12 DEF RInv

(* The levels below a rule's are finitely many, and fewer below a lower one.*)
LEMMA LowerIs ==
  ASSUME NEW r, r # NoRule, IsRule(r)
  PROVE  /\ IsFiniteSet(Lower(r)) /\ Cardinality(Lower(r)) \in Nat
         /\ Lower(r) # {} => Cardinality(Lower(r)) >= 1
         /\ \A q : /\ q # NoRule /\ IsRule(q) /\ LevelOf(q) < LevelOf(r)
                   => Cardinality(Lower(q)) + 1 <= Cardinality(Lower(r))
<1>1. IsFiniteSet(Levels)
  <2> PICK f : f = [t \in DOMAIN templates |-> templates[t].precedence]  OBVIOUS
  <2>1. f \in Surjection(DOMAIN templates, Levels)
    <3>1. f \in [DOMAIN templates -> Levels] /\ \A v \in Levels : \E t \in DOMAIN templates : f[t] = v
      BY DEF Levels
    <3>2. QED  BY <3>1 DEF Surjection
  <2>2. IsFiniteSet(DOMAIN templates)  BY XsltAssumption, FiniteRules
  <2>3. QED  BY <2>1, <2>2, FS_Surjection
<1>2. \A q : IsFiniteSet(Lower(q)) /\ Cardinality(Lower(q)) \in Nat
  <2> TAKE q
  <2>1. Lower(q) \in SUBSET Levels  BY DEF Lower
  <2>2. IsFiniteSet(Lower(q))  BY <1>1, <2>1, FS_Subset
  <2>3. QED  BY <2>2, FS_CardinalityType
<1>3. Lower(r) # {} => Cardinality(Lower(r)) >= 1
  <2>1. Lower(r) # {} => Cardinality(Lower(r)) # 0  BY <1>2, FS_EmptySet
  <2> PICK k \in Nat : k = Cardinality(Lower(r))  BY <1>2
  <2>2. QED  BY <2>1
<1>4. ASSUME NEW q, q # NoRule, IsRule(q), LevelOf(q) < LevelOf(r)
      PROVE  Cardinality(Lower(q)) + 1 <= Cardinality(Lower(r))
  <2>1. LevelOf(q) \in Levels /\ LevelOf(q) \in Int /\ LevelOf(r) \in Int
    BY <1>4, XsltAssumption DEF IsRule, LevelOf, Levels, IsTemplates
  <2>2. \A v \in Levels : v \in Int  BY XsltAssumption DEF Levels, IsTemplates
  <2>3. Lower(q) \cup {LevelOf(q)} \in SUBSET Lower(r) /\ LevelOf(q) \notin Lower(q)
    BY <1>4, <2>1, <2>2 DEF Lower
  <2> PICK x : x = LevelOf(q)  OBVIOUS
  <2>4. Cardinality(Lower(q) \cup {x}) = Cardinality(Lower(q)) + 1
    BY <1>2, <2>3, FS_AddElement
  <2>5. Cardinality(Lower(q) \cup {x}) <= Cardinality(Lower(r))
    BY <1>2, <2>3, FS_Subset
  <2>6. QED  BY <2>4, <2>5
<1>5. QED  BY <1>2, <1>3, <1>4

(* One more activation adds to the count what it is.                        *)
Imports(s, i, m) == {k \in i..m : s[k].kind = "imports"}
LEMMA ImportsGrow ==
  ASSUME NEW s, NEW i \in Nat, NEW m \in Nat, i <= m
  PROVE  /\ Cardinality(Imports(s, i, m)) \in Nat /\ Cardinality(Imports(s, i, m - 1)) \in Nat
         /\ Cardinality(Imports(s, i, m)) =
              Cardinality(Imports(s, i, m - 1)) + (IF s[m].kind = "imports" THEN 1 ELSE 0)
<1>1. ASSUME NEW n \in Int
      PROVE  IsFiniteSet(Imports(s, i, n)) /\ Cardinality(Imports(s, i, n)) \in Nat
  <2>1. IsFiniteSet(i..n)  BY FS_Interval
  <2>2. Imports(s, i, n) \in SUBSET (i..n)  BY DEF Imports
  <2>3. IsFiniteSet(Imports(s, i, n))  BY <2>1, <2>2, FS_Subset
  <2>4. QED  BY <2>3, FS_CardinalityType
<1>2. m - 1 \in Int  OBVIOUS
<1>3. CASE s[m].kind = "imports"
  <2>1. Imports(s, i, m) = Imports(s, i, m - 1) \cup {m} /\ m \notin Imports(s, i, m - 1)
    BY <1>3 DEF Imports
  <2> PICK P : P = Imports(s, i, m - 1)  OBVIOUS
  <2>2. IsFiniteSet(P) /\ Cardinality(P) \in Nat /\ m \notin P  BY <1>1, <1>2, <2>1
  <2>3. Cardinality(P \cup {m}) = Cardinality(P) + 1  BY <2>2, FS_AddElement
  <2>4. QED  BY <1>1, <1>3, <2>1, <2>2, <2>3
<1>4. CASE s[m].kind # "imports"
  <2>1. Imports(s, i, m) = Imports(s, i, m - 1)  BY <1>4 DEF Imports
  <2>2. QED  BY <1>1, <1>2, <1>4, <2>1
<1>5. QED  BY <1>3, <1>4

(* From a template that is counted, as far up as nothing is: the levels     *)
(* come down to, and those still below, are no more than were below.        *)
Descends(s, i, m) ==
  LET lower == Cardinality(Lower(s[i + 1].mine.rule))
  IN /\ s[m].mine.rule # NoRule =>
          Cardinality(Imports(s, i, m - 1)) + Cardinality(Lower(s[m].mine.rule)) <= lower
     /\ Cardinality(Imports(s, i, m)) <= lower

LEMMA DescendsOne ==
  ASSUME NEW s, ShapeOK(s), NEW c, RulesKept(s, c), s # <<>>, Len(s) \in Nat,
         NEW i \in Nat, NEW m \in Nat, i >= 1, i + 1 <= m, m < Len(s),
         s[m].kind \notin Counted, s[i + 1].mine.rule # NoRule, Descends(s, i, m)
  PROVE  Descends(s, i, m + 1)
<1> PICK R, a, b : R = s[i + 1].mine.rule /\ b = s[m] /\ a = s[m + 1]  OBVIOUS
<1> PICK lower, x, y, z : /\ lower = Cardinality(Lower(R)) /\ x = Cardinality(Imports(s, i, m - 1))
                          /\ y = Cardinality(Imports(s, i, m)) /\ z = Cardinality(Imports(s, i, m + 1))
  OBVIOUS
<1>1. /\ RuleKept(b, a) /\ (a.kind \in {"params", "body"} <=> b.kind \in Templates)
  <2>1. m + 1 \in 2..Len(s) /\ (m + 1) - 1 = m  OBVIOUS
  <2>2. QED  BY <2>1 DEF RulesKept, ShapeOK, InTemplateBody
<1>2. IsRule(b.mine.rule)
  <2>1. m \in 2..Len(s)  OBVIOUS
  <2>2. RuleKept(s[m - 1], b)  BY <2>1 DEF RulesKept
  <2>3. QED  BY <2>2 DEF RuleKept
<1>3. IsRule(R)
  <2>1. i + 1 \in 2..Len(s) /\ (i + 1) - 1 = i  OBVIOUS
  <2>2. RuleKept(s[i], s[i + 1])  BY <2>1 DEF RulesKept
  <2>3. QED  BY <2>2 DEF RuleKept
<1>4. lower \in Nat  BY <1>3, LowerIs
<1>5. /\ x \in Nat /\ y \in Nat /\ z \in Nat
      /\ y = x + (IF b.kind = "imports" THEN 1 ELSE 0)
      /\ z = y + (IF a.kind = "imports" THEN 1 ELSE 0)
  <2>1. /\ x \in Nat /\ y \in Nat /\ y = x + (IF b.kind = "imports" THEN 1 ELSE 0)
    BY ImportsGrow
  <2> PICK n \in Nat : n = m + 1 /\ n - 1 = m /\ i <= n  OBVIOUS
  <2>2. z \in Nat /\ z = y + (IF a.kind = "imports" THEN 1 ELSE 0)
    <3>1. /\ Cardinality(Imports(s, i, n)) \in Nat
          /\ Cardinality(Imports(s, i, n)) =
               Cardinality(Imports(s, i, n - 1)) + (IF s[n].kind = "imports" THEN 1 ELSE 0)
      BY ImportsGrow
    <3>2. z = Cardinality(Imports(s, i, n)) /\ y = Cardinality(Imports(s, i, n - 1)) /\ a = s[n]
      OBVIOUS
    <3>3. QED  BY <3>1, <3>2
  <2>3. QED  BY <2>1, <2>2
<1>6. /\ b.mine.rule # NoRule => x + Cardinality(Lower(b.mine.rule)) <= lower
      /\ y <= lower
  BY DEF Descends
<1>7. /\ a.mine.rule # NoRule => y + Cardinality(Lower(a.mine.rule)) <= lower
      /\ z <= lower
  <2>1. CASE a.kind \in {"params", "body"} /\ b.kind = "imports"
    <3>1. /\ b.mine.rule # NoRule /\ a.mine.rule # NoRule /\ IsRule(a.mine.rule)
          /\ LevelOf(a.mine.rule) < LevelOf(b.mine.rule)
      <4>1. i + 1 # m => m - 1 \in 2..Len(s)  OBVIOUS
      <4>2. m \in 2..Len(s)  OBVIOUS
      <4>3. RuleKept(s[m - 1], b)  BY <4>2 DEF RulesKept
      <4>4. QED  BY <1>1, <2>1, <4>3 DEF RuleKept
    <3>2. /\ Cardinality(Lower(a.mine.rule)) \in Nat /\ Cardinality(Lower(b.mine.rule)) \in Nat
          /\ Cardinality(Lower(a.mine.rule)) + 1 <= Cardinality(Lower(b.mine.rule))
      BY <1>2, <3>1, LowerIs
    <3>3. x + Cardinality(Lower(b.mine.rule)) <= lower /\ y = x + 1 /\ z = y
      BY <1>5, <1>6, <2>1, <3>1
    <3>4. QED  BY <1>4, <1>5, <1>6, <3>2, <3>3
  <2>2. CASE ~(a.kind \in {"params", "body"} /\ b.kind = "imports")
    <3>1. b.kind # "imports"  BY <1>1, <2>2 DEF Templates
    <3>2. a.kind \notin {"params", "body"}
          \/ b.kind = "call"  BY <1>1, <3>1 DEF Templates, Counted
    <3>3. a.mine.rule \in {NoRule, b.mine.rule}  BY <1>1, <3>2 DEF RuleKept
    <3>4. y = x  BY <1>5, <3>1
    <3>5. a.mine.rule # NoRule => y + Cardinality(Lower(a.mine.rule)) <= lower
      BY <1>6, <3>3, <3>4
    <3>6. z <= lower
      <4>1. CASE a.kind = "imports"
        <5>1. a.mine.rule # NoRule /\ IsRule(a.mine.rule) /\ Lower(a.mine.rule) # {}
          BY <1>1, <4>1 DEF RuleKept
        <5>2. Cardinality(Lower(a.mine.rule)) \in Nat /\ Cardinality(Lower(a.mine.rule)) >= 1
          BY <5>1, LowerIs
        <5>3. z = y + 1 /\ y + Cardinality(Lower(a.mine.rule)) <= lower  BY <1>5, <3>5, <4>1, <5>1
        <5>4. QED  BY <1>4, <1>5, <5>2, <5>3
      <4>2. CASE a.kind # "imports"
        BY <1>5, <1>6, <4>2
      <4>3. QED  BY <4>1, <4>2
    <3>7. QED  BY <3>5, <3>6
  <2>3. QED  BY <2>1, <2>2
<1>8. QED  BY <1>7 DEF Descends

(* The invariant says that apply-imports is bounded.                        *)
LEMMA BoundFollows ==
  ASSUME IInv, RInv
  PROVE  RecursionBounded
<1> SUFFICES ASSUME NEW i \in DOMAIN stack, NEW j \in DOMAIN stack,
                    i + 1 < j, stack[i].kind \in Counted, IsTemplate(i + 1),
                    stack[i + 1].mine.rule # NoRule,
                    \A k \in (i + 1)..j : stack[k].kind \notin Counted
             PROVE  Cardinality({k \in i..j : stack[k].kind = "imports"})
                      <= Cardinality({q \in {templates[t].precedence : t \in DOMAIN templates} :
                                        q < templates[stack[i + 1].mine.rule[2][1]].precedence})
  BY DEF RecursionBounded
<1> PICK s, c, R : s = stack /\ c = context /\ R = s[i + 1].mine.rule  OBVIOUS
<1> PICK n \in Nat : n = Len(s) /\ DOMAIN s = 1..n /\ n >= 1
  BY TopIs DEF IInv
<1>1. i \in Nat /\ j \in Nat /\ 1 <= i /\ j <= n /\ s # <<>>  OBVIOUS
<1>2. /\ ShapeOK(s) /\ RulesKept(s, c)  BY <1>1, RulesTop DEF RInv
<1>3. Descends(s, i, i + 1)
  <2>1. s[i].kind # "imports" /\ s[i + 1].kind # "imports"
    BY DEF Counted, IsTemplate
  <2>2. Imports(s, i, i) = {} /\ Imports(s, i, i + 1) = {}
    <3>1. \A k \in i..i + 1 : k = i \/ k = i + 1  BY <1>1
    <3>2. QED  BY <1>1, <2>1, <3>1 DEF Imports
  <2>3. IsRule(R)
    <3>1. i + 1 \in 2..n /\ (i + 1) - 1 = i  BY <1>1
    <3>2. RuleKept(s[i], s[i + 1])  BY <1>1, <1>2, <3>1 DEF RulesKept
    <3>3. QED  BY <3>2 DEF RuleKept
  <2>4. Cardinality(Lower(R)) \in Nat  BY <2>3, LowerIs
  <2>5. Cardinality({}) = 0  BY FS_EmptySet
  <2>6. (i + 1) - 1 = i  BY <1>1
  <2> PICK m \in Nat : m = i + 1 /\ m - 1 = i  BY <1>1, <2>6
  <2> PICK lower \in Nat : lower = Cardinality(Lower(R))  BY <2>4
  <2>7. Cardinality(Imports(s, i, m - 1)) = 0 /\ Cardinality(Imports(s, i, m)) = 0
    BY <2>2, <2>5
  <2>8. s[m].mine.rule = R  OBVIOUS
  <2>9. Descends(s, i, m)  BY <2>7, <2>8 DEF Descends
  <2>10. QED  BY <2>9
<1>4. Descends(s, i, j)
  <2>d. PICK D : D = {m \in i + 1..j : ~Descends(s, i, m)}  OBVIOUS
  <2>1. SUFFICES ASSUME j \in D  PROVE FALSE
    <3>1. j \in i + 1..j  BY <1>1
    <3>2. QED  BY <2>d, <3>1
  <2>2. D \subseteq Nat /\ D # {}  BY <1>1, <2>d, <2>1
  <2>3. PICK m \in D : \A k \in D : ~(<<k, m>> \in OpToRel(<, Nat))
    <3>1. IsWellFoundedOn(OpToRel(<, Nat), Nat)  BY NatLessThanWellFounded
    <3>2. QED  BY <2>2, <3>1, WFMin
  <2>4. m \in i + 1..j /\ ~Descends(s, i, m)  BY <2>d
  <2>5. m # i + 1  BY <1>3, <2>4
  <2> PICK k \in Nat : k = m - 1 /\ k + 1 = m /\ k \in i + 1..j /\ k < m  BY <1>1, <2>4, <2>5
  <2>6. k \notin D  BY <2>2, <2>3 DEF OpToRel
  <2>7. Descends(s, i, k)  BY <2>d, <2>6
  <2>8. s[k].kind \notin Counted  OBVIOUS
  <2>9. k < Len(s) /\ Len(s) \in Nat /\ i + 1 <= k  BY <1>1, <2>4
  <2>10. Descends(s, i, k + 1)  BY <1>1, <1>2, <2>7, <2>8, <2>9, DescendsOne
  <2>11. QED  BY <2>4, <2>10
<1>5. Cardinality(Imports(s, i, j)) <= Cardinality(Lower(R))  BY <1>4 DEF Descends
<1>6. QED  BY <1>5 DEF Imports, Lower, Levels, LevelOf

(* Every step keeps it.                                                     *)
LEMMA NextRules ==
  ASSUME IInv, RInv, [Next]_vars
  PROVE  RInv'
<1>1. CASE UNCHANGED vars
  BY <1>1, RulesUnmoved DEF vars
<1>2. ASSUME NEW n \in Nodes, NextItem(n) \/ apply_one_to_node(n)  PROVE RInv'
  BY <1>2, ChangeRules, ApplyOneRules
<1>3. ASSUME NEW kind \in Simple, NEW n, Enter(kind, n)  PROVE RInv'
  BY <1>3, EnterRules
<1>4. ASSUME NEW p, ApplyTemplates(p) \/ WithParamsFail(p)  PROVE RInv'
  <2>1. CASE ApplyTemplates(p)
    BY <2>1, ApplyRules
  <2>2. CASE WithParamsFail(p)
    <3>1. stack' = stack /\ context' = WithParams(p) /\ stack # <<>>
      BY <2>2 DEF WithParamsFail, InBody, Seeing, Running
    <3>2. IsContext(context)  BY <3>1, RulesTop
    <3>3. context'.rule = context.rule  BY <3>1, <3>2 DEF WithParams, IsContext, Kept
    <3>4. QED  BY <3>1, <3>3, RulesUnmoved
  <2>3. QED  BY <1>4, <2>1, <2>2
<1>5. ASSUME NEW p, NEW kind \in {"next", "imports"}, AnotherRule(kind, p)  PROVE RInv'
  BY <1>5, AnotherRules
<1>6. ASSUME NEW p, NEW name, Call(name, p)  PROVE RInv'
  BY <1>6, CallRules
<1>7. CASE ParamsFail \/ Raise
  BY <1>7, RulesUnmoved DEF ParamsFail, Raise
<1>8. CASE Leave \/ Unwind \/ Catch
  BY <1>8, EndRules, CatchRules
<1>9. CASE \E v \in Values : Bind(v)
  BY <1>9, ChangeRules
<1>10. CASE \E v \in Values \cup {None} : Begin(v)
  BY <1>10, ChangeRules
<1>11. CASE Complete
  BY <1>11, ChangeRules
<1>12. QED
  BY <1>1, <1>2, <1>3, <1>4, <1>5, <1>6, <1>7, <1>8, <1>9, <1>10, <1>11 DEF Next

(* Whatever the stylesheet and the instructions in between, from a template *)
(* that is counted xsl:apply-imports comes down no more levels of import    *)
(* than are below it before another one is counted: the limit on the depth  *)
(* of calls bounds every recursion (ApplyImports, apply_imports_ctx).       *)
THEOREM RecursionIsBounded ==
  Spec => []RecursionBounded
<1>1. Init => RInv
  <2> SUFFICES ASSUME Init  PROVE RInv  OBVIOUS
  <2> PICK s, c : s = stack /\ c = context  OBVIOUS
  <2>1. Len(s) = 1 /\ s[1].mine.rule = NoRule /\ s[1].kind = "apply"  BY DEF Init
  <2>2. RuleSeen(s[1], c)  BY <2>1 DEF RuleSeen, Templates
  <2>3. RulesKept(s, c)  BY <2>1, <2>2 DEF RulesKept
  <2>4. QED  BY <2>3 DEF RInv
<1>2. Init => IInv  BY InitGood
<1>3. IInv /\ [Next]_vars => IInv'  BY NextGood
<1>4. IInv /\ RInv /\ [Next]_vars => RInv'  BY NextRules
<1>5. IInv /\ RInv => RecursionBounded  BY BoundFollows
<1>6. QED  BY <1>1, <1>2, <1>3, <1>4, <1>5, PTL DEF Spec
=============================================================================
