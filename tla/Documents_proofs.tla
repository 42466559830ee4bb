-------------------------- MODULE Documents_proofs --------------------------
(***************************************************************************)
(* Proofs about the two walks over a document that keep a stack: Canonical *)
(* (first part), for every set of prefixes and URIs, every depth and both  *)
(* modes, and the items of Iterparse with the selectors that look at its   *)
(* chain of elements, in StreamConsumers (second part), for every set of   *)
(* tags and selectors.                                                     *)
(*                                                                         *)
(* The invariant of the first says of each open element what its start tag *)
(* was given: the declarations that write_namespace_decls chose when the   *)
(* elements further out were the ones they are now.  That of the second    *)
(* says that every counter in a frame holds the children the history has   *)
(* given the element, and that no open element has a younger sibling.      *)
(***************************************************************************)
EXTENDS Canonical, StreamConsumers, FiniteSetTheorems, SequenceTheorems,
        NaturalsInduction, WellFoundedInduction, TLAPS

Values == Uris \cup {NoUri, None}

(* Each frame of fs was written when those before it were open.            *)
WrittenOver(fs) ==
  \A i \in 1..Len(fs) :
    /\ fs[i].declared \in Declarations
    /\ fs[i].rendered = write_namespace_decls(SubSeq(fs, 1, i - 1), fs[i])

IInv ==
  /\ mode \in {"C14n10", "ExcC14n10"} /\ inclusive_prefixes \subseteq NsPrefixes
  /\ frames \in Seq(Frames)
  /\ WrittenOver(frames)

-----------------------------------------------------------------------------
(* Sequences of frames.                                                    *)

LEMMA FrameParts ==
  ASSUME NEW fs \in Seq(Frames), NEW i \in 1..Len(fs), NEW p \in NsPrefixes
  PROVE  /\ fs[i] \in Frames
         /\ fs[i].declared[p] \in Values /\ fs[i].rendered[p] \in Values
         /\ fs[i].used \subseteq NsPrefixes
<1>1. fs[i] \in Frames
  OBVIOUS
<1>2. \A r \in Frames : r.declared \in Bindings /\ r.rendered \in Bindings /\ r.used \subseteq NsPrefixes
  BY DEF Frames
<1>3. \A b \in Bindings : b[p] \in Values
  BY DEF Bindings, Values
<1> QED BY <1>1, <1>2, <1>3

LEMMA Upto ==
  ASSUME NEW fs \in Seq(Frames), NEW n \in 0..Len(fs)
  PROVE  /\ SubSeq(fs, 1, n) \in Seq(Frames) /\ Len(SubSeq(fs, 1, n)) = n
         /\ \A i \in 1..n : SubSeq(fs, 1, n)[i] = fs[i]
<1>1. \A i \in 1..n : fs[i] \in Frames
  OBVIOUS
<1> QED BY <1>1, SubSeqProperties

LEMMA UptoOfUpto ==
  ASSUME NEW fs \in Seq(Frames), NEW n \in 0..Len(fs), NEW m \in 0..n
  PROVE  SubSeq(SubSeq(fs, 1, n), 1, m) = SubSeq(fs, 1, m)
<1>1. /\ SubSeq(fs, 1, n) \in Seq(Frames) /\ Len(SubSeq(fs, 1, n)) = n
      /\ \A i \in 1..n : SubSeq(fs, 1, n)[i] = fs[i]
  BY Upto
<1>2. /\ SubSeq(SubSeq(fs, 1, n), 1, m) \in Seq(Frames)
      /\ Len(SubSeq(SubSeq(fs, 1, n), 1, m)) = m
      /\ \A i \in 1..m : SubSeq(SubSeq(fs, 1, n), 1, m)[i] = SubSeq(fs, 1, n)[i]
  BY <1>1, Upto
<1>3. /\ SubSeq(fs, 1, m) \in Seq(Frames) /\ Len(SubSeq(fs, 1, m)) = m
      /\ \A i \in 1..m : SubSeq(fs, 1, m)[i] = fs[i]
  BY Upto
<1>4. \A i \in 1..m : SubSeq(SubSeq(fs, 1, n), 1, m)[i] = SubSeq(fs, 1, m)[i]
  BY <1>1, <1>2, <1>3
<1> HIDE DEF Frames
<1> QED BY <1>2, <1>3, <1>4, SeqEqual

LEMMA UptoOfAppend ==
  ASSUME NEW fs \in Seq(Frames), NEW e \in Frames, NEW n \in 0..Len(fs)
  PROVE  SubSeq(Append(fs, e), 1, n) = SubSeq(fs, 1, n)
<1>1. /\ Append(fs, e) \in Seq(Frames) /\ Len(Append(fs, e)) = Len(fs) + 1
      /\ \A i \in 1..Len(fs) : Append(fs, e)[i] = fs[i]
  BY AppendProperties
<1>2. /\ SubSeq(Append(fs, e), 1, n) \in Seq(Frames)
      /\ Len(SubSeq(Append(fs, e), 1, n)) = n
      /\ \A i \in 1..n : SubSeq(Append(fs, e), 1, n)[i] = Append(fs, e)[i]
  BY <1>1, Upto
<1>3. /\ SubSeq(fs, 1, n) \in Seq(Frames) /\ Len(SubSeq(fs, 1, n)) = n
      /\ \A i \in 1..n : SubSeq(fs, 1, n)[i] = fs[i]
  BY Upto
<1>4. \A i \in 1..n : SubSeq(Append(fs, e), 1, n)[i] = SubSeq(fs, 1, n)[i]
  BY <1>1, <1>2, <1>3
<1> QED BY <1>2, <1>3, <1>4, SeqEqual
-----------------------------------------------------------------------------
(* The nearest binding.                                                    *)

(* A bounded set of numbers has a greatest one.                            *)
LEMMA Greatest ==
  ASSUME NEW n \in Nat, NEW S, S \subseteq 0..n, S # {}
  PROVE  \E i \in S : \A k \in S : k <= i
<1> DEFINE T == {n - k : k \in S}
<1>1. T \subseteq Nat /\ T # {}
  <2>1. \A k \in S : n - k \in Nat
    OBVIOUS
  <2> QED BY <2>1
<1>2. PICK m \in T : \A j \in T : ~(<<j, m>> \in OpToRel(<, Nat))
  <2>1. IsWellFoundedOn(OpToRel(<, Nat), Nat)
    BY NatLessThanWellFounded
  <2> HIDE DEF T
  <2> QED BY <1>1, <2>1, WFMin
<1>3. \A j \in T : ~(j < m)
  BY <1>1, <1>2 DEF OpToRel
<1>4. PICK i \in S : m = n - i
  BY <1>2
<1>5. \A k \in S : k <= i
  <2> TAKE k \in S
  <2>1. n - k \in T
    OBVIOUS
  <2>2. ~(n - k < n - i)
    BY <1>3, <1>4, <2>1
  <2> QED BY <2>2
<1> QED BY <1>5

(* Nearest is the part of the innermost frame that has one.                *)
LEMMA NearestIsInnermost ==
  ASSUME NEW fs \in Seq(Frames), NEW part, NEW p
  PROVE  \/ /\ \A k \in 1..Len(fs) : fs[k][part][p] = None
            /\ Nearest(fs, part, p) = None
         \/ \E i \in 1..Len(fs) :
              /\ fs[i][part][p] # None /\ Nearest(fs, part, p) = fs[i][part][p]
              /\ \A k \in 1..Len(fs) : fs[k][part][p] # None => k <= i
<1> DEFINE B == Binds(fs, part, p)
           top == CHOOSE i \in B : \A k \in B : k <= i
<1>1. Len(fs) \in Nat /\ DOMAIN fs = 1..Len(fs)
  OBVIOUS
<1>2. B = {i \in 1..Len(fs) : fs[i][part][p] # None}
  BY <1>1 DEF Binds
<1>3. CASE B = {}
  <2>1. Nearest(fs, part, p) = None
    BY <1>3 DEF Nearest
  <2>2. \A k \in 1..Len(fs) : fs[k][part][p] = None
    BY <1>2, <1>3
  <2> QED BY <2>1, <2>2
<1>4. CASE B # {}
  <2>1. B \subseteq 0..Len(fs)
    BY <1>1, <1>2
  <2>2. \E i \in B : \A k \in B : k <= i
    <3> HIDE DEF B
    <3> QED BY <1>1, <1>4, <2>1, Greatest
  <2>3. top \in B /\ \A k \in B : k <= top
    <3> HIDE DEF B
    <3> QED BY <2>2
  <2>4. Nearest(fs, part, p) = fs[top][part][p]
    BY <1>4 DEF Nearest
  <2> HIDE DEF top
  <2>5. /\ top \in 1..Len(fs) /\ fs[top][part][p] # None
        /\ \A k \in 1..Len(fs) : fs[k][part][p] # None => k <= top
    BY <1>2, <2>3
  <2> QED BY <2>4, <2>5
<1> QED BY <1>3, <1>4

(* It depends on that part alone.                                          *)
LEMMA NearestOfEqual ==
  ASSUME NEW fs \in Seq(Frames), NEW gs \in Seq(Frames), NEW part, NEW p,
         Len(fs) = Len(gs), \A i \in 1..Len(fs) : fs[i][part][p] = gs[i][part][p]
  PROVE  Nearest(fs, part, p) = Nearest(gs, part, p)
<1>1. Binds(fs, part, p) = Binds(gs, part, p)
  <2>1. DOMAIN fs = 1..Len(fs) /\ DOMAIN gs = 1..Len(fs)
    OBVIOUS
  <2> QED BY <2>1 DEF Binds
<1>2. \A i \in 1..Len(fs) : fs[i][part][p] = gs[i][part][p]
  OBVIOUS
<1>3. CASE \A k \in 1..Len(fs) : fs[k][part][p] = None
  BY <1>2, <1>3, NearestIsInnermost
<1>4. CASE \E k \in 1..Len(fs) : fs[k][part][p] # None
  <2>1. PICK i \in 1..Len(fs) :
          /\ fs[i][part][p] # None /\ Nearest(fs, part, p) = fs[i][part][p]
          /\ \A k \in 1..Len(fs) : fs[k][part][p] # None => k <= i
    BY <1>4, NearestIsInnermost
  <2>2. PICK j \in 1..Len(gs) :
          /\ gs[j][part][p] # None /\ Nearest(gs, part, p) = gs[j][part][p]
          /\ \A k \in 1..Len(gs) : gs[k][part][p] # None => k <= j
    BY <1>2, <1>4, NearestIsInnermost
  <2>3. i <= j /\ j <= i /\ i \in Nat /\ j \in Nat
    BY <1>2, <2>1, <2>2
  <2>4. i = j
    BY <2>3
  <2> QED BY <1>2, <2>1, <2>2, <2>4
<1> QED BY <1>3, <1>4

(* The last frame hides those above it, if it has the part.                *)
LEMMA NearestOfLast ==
  ASSUME NEW fs \in Seq(Frames), fs # << >>, NEW part, NEW p
  PROVE  Nearest(fs, part, p) =
           IF fs[Len(fs)][part][p] # None THEN fs[Len(fs)][part][p]
           ELSE Nearest(SubSeq(fs, 1, Len(fs) - 1), part, p)
<1> DEFINE n == Len(fs)  above == SubSeq(fs, 1, n - 1)
<1>1. n \in Nat /\ n >= 1 /\ n - 1 \in 0..n
  <2> HIDE DEF Frames
  <2> QED BY EmptySeq
<1>2. /\ above \in Seq(Frames) /\ Len(above) = n - 1
      /\ \A i \in 1..n - 1 : above[i] = fs[i]
  <2> HIDE DEF n, above
  <2>1. n - 1 \in 0..Len(fs)
    BY <1>1 DEF n
  <2> QED BY <2>1, Upto DEF above
<1> HIDE DEF above
<1>3. CASE fs[n][part][p] # None
  <2>1. PICK i \in 1..n :
          /\ fs[i][part][p] # None /\ Nearest(fs, part, p) = fs[i][part][p]
          /\ \A k \in 1..n : fs[k][part][p] # None => k <= i
    BY <1>1, <1>3, NearestIsInnermost
  <2>2. n <= i
    BY <1>1, <1>3, <2>1
  <2>3. i = n
    BY <1>1, <2>2
  <2> QED BY <1>3, <2>1, <2>3
<1>4. CASE fs[n][part][p] = None
  <2>1. CASE \A k \in 1..n - 1 : fs[k][part][p] = None
    <3>1. \A k \in 1..n : fs[k][part][p] = None
      BY <1>1, <1>4, <2>1
    <3>2. Nearest(fs, part, p) = None
      BY <3>1, NearestIsInnermost
    <3>3. Nearest(above, part, p) = None
      BY <1>2, <2>1, NearestIsInnermost
    <3> QED BY <1>4, <3>2, <3>3 DEF above
  <2>2. CASE \E k \in 1..n - 1 : fs[k][part][p] # None
    <3>1. PICK i \in 1..n :
            /\ fs[i][part][p] # None /\ Nearest(fs, part, p) = fs[i][part][p]
            /\ \A k \in 1..n : fs[k][part][p] # None => k <= i
      <4>1. \E k \in 1..n : fs[k][part][p] # None
        BY <1>1, <2>2
      <4> QED BY <4>1, NearestIsInnermost
    <3>2. PICK j \in 1..n - 1 :
            /\ above[j][part][p] # None /\ Nearest(above, part, p) = above[j][part][p]
            /\ \A k \in 1..n - 1 : above[k][part][p] # None => k <= j
      <4>1. \E k \in 1..Len(above) : above[k][part][p] # None
        BY <1>2, <2>2
      <4>2. Len(above) = n - 1
        BY <1>2
      <4> HIDE DEF n
      <4> QED BY <1>2, <4>1, <4>2, NearestIsInnermost
    <3>3. i # n
      BY <1>4, <3>1
    <3>4. i \in 1..n - 1
      BY <1>1, <3>1, <3>3
    <3>5. i <= j /\ j <= i
      BY <1>1, <1>2, <3>1, <3>2, <3>4
    <3>6. i = j
      BY <3>4, <3>5
    <3> QED BY <1>2, <1>4, <3>1, <3>2, <3>6 DEF above
  <2> QED BY <2>1, <2>2
<1> QED BY <1>3, <1>4
-----------------------------------------------------------------------------
(* What is written.                                                        *)

(* Whether write_namespace_decls writes u for p over those of `above'.     *)
Writes(above, p, u) ==
  IF p = NoPrefix /\ u = NoUri THEN ancestor_rendered_different(above, p, u)
  ELSE ~already_rendered(above, p, u)

LEMMA LookupInValues ==
  ASSUME NEW fs \in Seq(Frames), NEW p \in NsPrefixes
  PROVE  lookup(fs, p) \in Values /\ UriOf(lookup(fs, p)) \in Uris \cup {NoUri}
<1>1. lookup(fs, p) = None \/ \E i \in 1..Len(fs) : lookup(fs, p) = fs[i].declared[p]
  BY NearestIsInnermost DEF lookup
<1>2. lookup(fs, p) \in Values
  BY <1>1, FrameParts DEF Values
<1> QED BY <1>2 DEF UriOf, Values

(* The declarations depend on what the element declares and uses, not on   *)
(* what was written for it.                                                *)
LEMMA WrittenBefore ==
  ASSUME NEW above \in Seq(Frames), NEW e \in Frames, NEW f \in Frames,
         e.declared = f.declared, e.used = f.used
  PROVE  write_namespace_decls(above, e) = write_namespace_decls(above, f)
<1> DEFINE es == Append(above, e)  ns == Append(above, f)
<1>1. \A p : lookup(es, p) = lookup(ns, p)
  <2> TAKE p
  <2>1. /\ es \in Seq(Frames) /\ Len(es) = Len(above) + 1
        /\ \A i \in 1..Len(above) : es[i] = above[i]
        /\ es[Len(above) + 1] = e
    BY AppendProperties
  <2>2. /\ ns \in Seq(Frames) /\ Len(ns) = Len(above) + 1
        /\ \A i \in 1..Len(above) : ns[i] = above[i]
        /\ ns[Len(above) + 1] = f
    BY AppendProperties
  <2>3. \A i \in 1..Len(es) : es[i].declared[p] = ns[i].declared[p]
    <3> TAKE i \in 1..Len(es)
    <3>1. i \in 1..Len(above) \/ i = Len(above) + 1
      BY <2>1
    <3> QED BY <2>1, <2>2, <3>1
  <2> HIDE DEF es, ns
  <2> QED BY <2>1, <2>2, <2>3, NearestOfEqual DEF lookup
<1>2. visibly_used(es, e) = visibly_used(ns, f)
  BY <1>1 DEF visibly_used
<1> HIDE DEF es, ns
<1>3. \A p : (IF lookup(es, p) = None THEN NoUri ELSE lookup(es, p))
            = (IF lookup(ns, p) = None THEN NoUri ELSE lookup(ns, p))
  BY <1>1
<1> QED BY <1>1, <1>2 DEF write_namespace_decls, es, ns

(* What the declarations are, prefix by prefix.                            *)
LEMMA WrittenIs ==
  ASSUME NEW above, NEW e, NEW p \in NsPrefixes
  PROVE  LET fs == Append(above, e)  u == UriOf(lookup(fs, p))
         IN write_namespace_decls(above, e)[p] =
              IF p \in visibly_used(fs, e) /\ Writes(above, p, u) THEN u ELSE None
BY DEF write_namespace_decls, Writes, UriOf

LEMMA WrittenType ==
  ASSUME NEW above \in Seq(Frames), NEW e \in Frames
  PROVE  write_namespace_decls(above, e) \in Bindings
<1>1. \A p \in NsPrefixes : write_namespace_decls(above, e)[p] \in Uris \cup {NoUri, None}
  <2> TAKE p \in NsPrefixes
  <2>1. Append(above, e) \in Seq(Frames)
    BY AppendProperties
  <2>2. UriOf(lookup(Append(above, e), p)) \in Uris \cup {NoUri}
    BY <2>1, LookupInValues
  <2> QED BY <2>2, WrittenIs
<1>2. /\ DOMAIN write_namespace_decls(above, e) = NsPrefixes
      /\ write_namespace_decls(above, e)
           = [p \in NsPrefixes |-> write_namespace_decls(above, e)[p]]
  BY DEF write_namespace_decls
<1> QED BY <1>1, <1>2 DEF Bindings

(* It depends on the mode and the list, which no step changes.             *)
LEMMA WrittenLater ==
  ASSUME UNCHANGED <<mode, inclusive_prefixes>>, NEW fs
  PROVE  WrittenOver(fs)' <=> WrittenOver(fs)
BY DEF WrittenOver, write_namespace_decls, visibly_used, lookup, Nearest, Binds,
       already_rendered, ancestor_rendered_different

LEMMA WrittenByStart ==
  ASSUME NEW fs \in Seq(Frames), WrittenOver(fs), NEW e \in Frames, e.declared \in Declarations
  PROVE  LET f == [e EXCEPT !.rendered = write_namespace_decls(fs, e)]
         IN Append(fs, f) \in Seq(Frames) /\ WrittenOver(Append(fs, f))
<1> DEFINE w == write_namespace_decls(fs, e)
           f == [e EXCEPT !.rendered = w]
           gs == Append(fs, f)
<1>1. /\ f \in Frames /\ f.rendered = w
      /\ f.declared = e.declared /\ f.used = e.used
  <2>1. w \in Bindings
    BY WrittenType
  <2> HIDE DEF w
  <2> QED BY <2>1 DEF Frames
<1>2. /\ gs \in Seq(Frames) /\ Len(gs) = Len(fs) + 1
      /\ \A i \in 1..Len(fs) : gs[i] = fs[i]
      /\ gs[Len(fs) + 1] = f
  <2> HIDE DEF f
  <2> QED BY <1>1, AppendProperties
<1>3. \A i \in 0..Len(fs) : SubSeq(gs, 1, i) = SubSeq(fs, 1, i)
  <2> HIDE DEF f
  <2> QED BY <1>1, UptoOfAppend
<1>4. w = write_namespace_decls(fs, f)
  <2> HIDE DEF f
  <2> QED BY <1>1, WrittenBefore
<1>5. SubSeq(fs, 1, Len(fs)) = fs
  BY SubSeqFull
<1> HIDE DEF w, f, gs
<1>6. WrittenOver(gs)
  <2> SUFFICES ASSUME NEW i \in 1..Len(gs)
               PROVE  /\ gs[i].declared \in Declarations
                      /\ gs[i].rendered = write_namespace_decls(SubSeq(gs, 1, i - 1), gs[i])
    BY DEF WrittenOver
  <2>1. CASE i \in 1..Len(fs)
    <3>1. i - 1 \in 0..Len(fs)
      BY <2>1
    <3>2. gs[i] = fs[i] /\ SubSeq(gs, 1, i - 1) = SubSeq(fs, 1, i - 1)
      BY <1>2, <1>3, <2>1, <3>1
    <3> QED BY <2>1, <3>2 DEF WrittenOver
  <2>2. CASE i = Len(fs) + 1
    <3>1. i - 1 = Len(fs) /\ Len(fs) \in 0..Len(fs)
      BY <2>2
    <3>2. SubSeq(gs, 1, i - 1) = fs
      BY <1>3, <1>5, <3>1
    <3> QED BY <1>1, <1>2, <1>4, <2>2, <3>2
  <2> QED BY <1>2, <2>1, <2>2
<1> QED BY <1>2, <1>6 DEF gs, f, w

LEMMA WrittenByEnd ==
  ASSUME NEW fs \in Seq(Frames), WrittenOver(fs), fs # << >>
  PROVE  LET gs == SubSeq(fs, 1, Len(fs) - 1) IN gs \in Seq(Frames) /\ WrittenOver(gs)
<1> DEFINE n == Len(fs) - 1  gs == SubSeq(fs, 1, n)
<1>1. n \in 0..Len(fs)
  <2> HIDE DEF Frames
  <2> QED BY EmptySeq
<1> HIDE DEF n
<1>2. gs \in Seq(Frames) /\ Len(gs) = n /\ \A i \in 1..n : gs[i] = fs[i]
  BY <1>1, Upto
<1>3. \A i \in 1..n : SubSeq(gs, 1, i - 1) = SubSeq(fs, 1, i - 1)
  <2> TAKE i \in 1..n
  <2>1. i - 1 \in 0..n
    BY <1>1
  <2> QED BY <1>1, <2>1, UptoOfUpto
<1> HIDE DEF gs
<1>4. WrittenOver(gs)
  <2> SUFFICES ASSUME NEW i \in 1..n
               PROVE  /\ gs[i].declared \in Declarations
                      /\ gs[i].rendered = write_namespace_decls(SubSeq(gs, 1, i - 1), gs[i])
    BY <1>2 DEF WrittenOver
  <2>1. i \in 1..Len(fs)
    BY <1>1
  <2> QED BY <1>2, <1>3, <2>1 DEF WrittenOver
<1> QED BY <1>2, <1>4 DEF gs, n
-----------------------------------------------------------------------------
(* The invariant.                                                          *)

LEMMA InitInv == CanonicalInit => IInv
<1>1. ASSUME CanonicalInit PROVE IInv
  <2>1. frames = << >> /\ inclusive_prefixes \subseteq NsPrefixes
    BY <1>1 DEF CanonicalInit
  <2>2. frames \in Seq(Frames) /\ Len(frames) = 0
    BY <2>1, EmptySeq
  <2>3. WrittenOver(frames)
    BY <2>2 DEF WrittenOver
  <2> QED BY <1>1, <2>1, <2>2, <2>3 DEF CanonicalInit, IInv
<1> QED BY <1>1

LEMMA StartElementInv ==
  ASSUME IInv, NEW declared \in Declarations, NEW own \in NsPrefixes,
         NEW attrs \in SUBSET (NsPrefixes \ {NoPrefix}), StartElement(declared, own, attrs)
  PROVE  IInv'
<1> DEFINE e == [declared |-> declared, used |-> {own} \cup attrs,
                 rendered |-> [p \in NsPrefixes |-> None]]
<1>1. e \in Frames /\ e.declared = declared
  <2>1. declared \in Bindings /\ [p \in NsPrefixes |-> None] \in Bindings
    BY CanonicalAssumption DEF Bindings
  <2> QED BY <2>1 DEF Frames
<1>2. /\ frames' = Append(frames, [e EXCEPT !.rendered = write_namespace_decls(frames, e)])
      /\ UNCHANGED <<mode, inclusive_prefixes>>
  BY DEF StartElement
<1> HIDE DEF e
<1>3. frames \in Seq(Frames) /\ WrittenOver(frames)
  BY DEF IInv
<1>4. PICK fs : fs = Append(frames, [e EXCEPT !.rendered = write_namespace_decls(frames, e)])
  OBVIOUS
<1>5. fs \in Seq(Frames) /\ WrittenOver(fs)
  BY <1>1, <1>3, <1>4, WrittenByStart
<1>6. WrittenOver(fs)'
  BY <1>2, <1>5, WrittenLater
<1>7. frames' = fs
  BY <1>2, <1>4
<1>8. WrittenOver(frames)'
  BY <1>6, <1>7
<1> QED BY <1>2, <1>5, <1>7, <1>8 DEF IInv

LEMMA EndElementInv == ASSUME IInv, EndElement PROVE IInv'
<1>1. /\ frames # << >> /\ frames' = SubSeq(frames, 1, Len(frames) - 1)
      /\ UNCHANGED <<mode, inclusive_prefixes>>
  BY DEF EndElement
<1>2. frames \in Seq(Frames) /\ WrittenOver(frames)
  BY DEF IInv
<1>3. PICK fs : fs = SubSeq(frames, 1, Len(frames) - 1)
  OBVIOUS
<1>4. fs \in Seq(Frames) /\ WrittenOver(fs)
  BY <1>1, <1>2, <1>3, WrittenByEnd
<1>5. WrittenOver(fs)'
  BY <1>1, <1>4, WrittenLater
<1>6. frames' = fs
  BY <1>1, <1>3
<1>7. WrittenOver(frames)'
  BY <1>5, <1>6
<1> QED BY <1>1, <1>4, <1>6, <1>7 DEF IInv

LEMMA NextInv == IInv /\ [Walk]_cvars => IInv'
<1>1. ASSUME IInv, NEW declared \in Declarations, NEW own \in NsPrefixes,
             NEW attrs \in SUBSET (NsPrefixes \ {NoPrefix}), StartElement(declared, own, attrs)
      PROVE  IInv'
  BY <1>1, StartElementInv
<1>2. ASSUME IInv, EndElement PROVE IInv'
  BY <1>2, EndElementInv
<1>3. ASSUME IInv, UNCHANGED cvars PROVE IInv'
  <2>1. UNCHANGED <<mode, inclusive_prefixes>> /\ frames' = frames
    BY <1>3 DEF cvars
  <2>2. PICK fs : fs = frames
    OBVIOUS
  <2>3. WrittenOver(fs)
    BY <1>3, <2>2 DEF IInv
  <2>4. WrittenOver(fs)'
    BY <2>1, <2>3, WrittenLater
  <2>5. WrittenOver(frames)'
    BY <2>1, <2>2, <2>4
  <2> QED BY <1>3, <2>1, <2>5 DEF IInv
<1> QED BY <1>1, <1>2, <1>3 DEF Walk

(* Every open element's start tag has the declarations that                *)
(* write_namespace_decls chose when its ancestors were those it has now,   *)
(* so that the frames say what the output says.                            *)
THEOREM FramesAreWritten == CanonicalSpec => []IInv
<1>1. CanonicalInit => IInv
  BY InitInv
<1>2. IInv /\ [Walk]_cvars => IInv'
  BY NextInv
<1> QED BY <1>1, <1>2, PTL DEF CanonicalSpec
-----------------------------------------------------------------------------
(* What the output means.                                                  *)

(* The declarations of the i-th frame, prefix by prefix.                   *)
LEMMA RenderedIs ==
  ASSUME IInv, NEW i \in 1..Len(frames), NEW p \in NsPrefixes
  PROVE  LET fs == SubSeq(frames, 1, i)  u == UriOf(lookup(fs, p))
         IN /\ u \in Uris \cup {NoUri}
            /\ frames[i].rendered[p] =
                 IF p \in visibly_used(fs, fs[i]) /\ Writes(SubSeq(frames, 1, i - 1), p, u)
                 THEN u ELSE None
<1> DEFINE fs == SubSeq(frames, 1, i)  above == SubSeq(frames, 1, i - 1)
<1>1. frames \in Seq(Frames) /\ i \in 0..Len(frames) /\ i - 1 \in 0..Len(frames)
  BY DEF IInv
<1>2. /\ fs \in Seq(Frames) /\ Len(fs) = i
      /\ \A k \in 1..i : fs[k] = frames[k]
  BY <1>1, Upto
<1>3. /\ above \in Seq(Frames) /\ Len(above) = i - 1
      /\ \A k \in 1..i - 1 : above[k] = frames[k]
  BY <1>1, Upto
<1>4. frames[i] \in Frames /\ fs[i] = frames[i]
  BY <1>1, <1>2
<1> HIDE DEF fs, above
<1>5. fs = Append(above, frames[i])
  <2>1. /\ Append(above, frames[i]) \in Seq(Frames) /\ Len(Append(above, frames[i])) = i
        /\ \A k \in 1..i - 1 : Append(above, frames[i])[k] = above[k]
        /\ Append(above, frames[i])[i] = frames[i]
    BY <1>1, <1>3, <1>4, AppendProperties
  <2>2. \A k \in 1..i : fs[k] = Append(above, frames[i])[k]
    BY <1>2, <1>3, <2>1
  <2> QED BY <1>2, <2>1, <2>2, SeqEqual
<1>6. frames[i].rendered = write_namespace_decls(above, frames[i])
  BY DEF IInv, WrittenOver, above
<1>7. UriOf(lookup(fs, p)) \in Uris \cup {NoUri}
  BY <1>2, LookupInValues
<1>8. frames[i].rendered[p] =
        IF p \in visibly_used(fs, fs[i]) /\ Writes(above, p, UriOf(lookup(fs, p)))
        THEN UriOf(lookup(fs, p)) ELSE None
  BY <1>4, <1>5, <1>6, WrittenIs
<1> QED BY <1>7, <1>8 DEF fs, above

(* The same of the innermost element.                                      *)
LEMMA TopRendered ==
  ASSUME IInv, frames # << >>, NEW p \in NsPrefixes
  PROVE  /\ Len(frames) \in Nat \ {0} /\ frames \in Seq(Frames)
         /\ SourceOf(p) \in Uris \cup {NoUri}
         /\ Top.rendered[p] = IF p \in visibly_used(frames, Top) /\ Writes(Above, p, SourceOf(p))
                              THEN SourceOf(p) ELSE None
         /\ Above \in Seq(Frames) /\ Len(Above) = Len(frames) - 1
         /\ \A k \in 1..Len(frames) - 1 : Above[k] = frames[k]
<1>1. frames \in Seq(Frames)
  BY DEF IInv
<1>2. Len(frames) \in Nat \ {0}
  <2> HIDE DEF Frames
  <2> QED BY <1>1, EmptySeq
<1>3. SubSeq(frames, 1, Len(frames)) = frames
  BY <1>1, SubSeqFull
<1>4. Len(frames) \in 1..Len(frames) /\ Len(frames) - 1 \in 0..Len(frames)
  BY <1>2
<1>5. /\ Above \in Seq(Frames) /\ Len(Above) = Len(frames) - 1
      /\ \A k \in 1..Len(frames) - 1 : Above[k] = frames[k]
  BY <1>1, <1>4, Upto DEF Above
<1>6. /\ SourceOf(p) \in Uris \cup {NoUri}
      /\ Top.rendered[p] = IF p \in visibly_used(frames, Top) /\ Writes(Above, p, SourceOf(p))
                           THEN SourceOf(p) ELSE None
  BY <1>3, <1>4, RenderedIs DEF SourceOf, Above, Top
<1> QED BY <1>1, <1>2, <1>5, <1>6

(* What an element further out wrote, it wanted.                           *)
LEMMA WrittenWanted ==
  ASSUME IInv, NEW i \in 1..Len(frames), NEW p \in NsPrefixes,
         NEW u, u # None, frames[i].rendered[p] = u
  PROVE  WantedAt(i, p, u) /\ u \in Uris \cup {NoUri}
BY RenderedIs DEF WantedAt

(* A name means in the output what it means in the document: its           *)
(* declaration was written here, or the nearest one written agrees, or the *)
(* prefix was bound to this URI, then to another, further out.             *)
LEMMA MeaningIsKept == IInv => MeaningKept
<1> SUFFICES ASSUME IInv, frames # << >>, NEW p \in NsPrefixes, MustBind(p)
             PROVE  OutputOf(p) = SourceOf(p) \/ Returned(p)
  BY DEF MeaningKept
<1> DEFINE n == Len(frames)  u == SourceOf(p)
<1>1. /\ n \in Nat \ {0} /\ frames \in Seq(Frames) /\ u \in Uris \cup {NoUri}
      /\ Top.rendered[p] = IF p \in visibly_used(frames, Top) /\ Writes(Above, p, u)
                           THEN u ELSE None
      /\ Above \in Seq(Frames) /\ Len(Above) = n - 1
      /\ \A k \in 1..n - 1 : Above[k] = frames[k]
  BY TopRendered
<1>2. u # None /\ NoUri # None
  BY <1>1, CanonicalAssumption
<1>3. p \in visibly_used(frames, Top)
  BY DEF MustBind
<1>4. Nearest(frames, "rendered", p) =
        IF Top.rendered[p] # None THEN Top.rendered[p] ELSE Nearest(Above, "rendered", p)
  BY <1>1, NearestOfLast DEF Top, Above
<1> HIDE DEF u, n
<1>5. CASE Writes(Above, p, u)
  BY <1>1, <1>2, <1>3, <1>4, <1>5 DEF OutputOf, UriOf, u
<1>6. CASE ~Writes(Above, p, u)
  <2>1. Top.rendered[p] = None
    BY <1>1, <1>6
  <2>2. Nearest(frames, "rendered", p) = Nearest(Above, "rendered", p)
    BY <1>4, <2>1
  <2>3. CASE p = NoPrefix /\ u = NoUri
    <3>1. Nearest(Above, "rendered", p) \in {None, u}
      BY <1>6, <2>3 DEF Writes, ancestor_rendered_different
    <3> QED BY <2>2, <2>3, <3>1 DEF OutputOf, UriOf, u
  <2>4. CASE ~(p = NoPrefix /\ u = NoUri)
    <3>1. PICK i \in 1..n - 1 : Above[i].rendered[p] = u
      <4>1. \E i \in DOMAIN Above : Above[i].rendered[p] = u
        BY <1>6, <2>4 DEF Writes, already_rendered
      <4> QED BY <1>1, <4>1
    <3>2. PICK k \in 1..n - 1 :
            /\ Above[k].rendered[p] # None
            /\ Nearest(Above, "rendered", p) = Above[k].rendered[p]
            /\ \A j \in 1..n - 1 : Above[j].rendered[p] # None => j <= k
      <4>1. Above[i].rendered[p] # None /\ i \in 1..Len(Above)
        BY <1>1, <1>2, <3>1
      <4>2. \E j \in 1..Len(Above) :
              /\ Above[j].rendered[p] # None
              /\ Nearest(Above, "rendered", p) = Above[j].rendered[p]
              /\ \A m \in 1..Len(Above) : Above[m].rendered[p] # None => m <= j
        <5>1. Above \in Seq(Frames)
          BY <1>1
        <5>2. ~ \A j \in 1..Len(Above) : Above[j]["rendered"][p] = None
          BY <4>1
        <5> QED BY <5>1, <5>2, NearestIsInnermost
      <4> QED BY <1>1, <4>2
    <3>3. CASE Above[k].rendered[p] = u
      BY <1>2, <2>2, <3>2, <3>3 DEF OutputOf, UriOf, u
    <3>4. CASE Above[k].rendered[p] # u
      <4>1. i <= k /\ i # k
        BY <1>2, <3>1, <3>2, <3>4
      <4>2. /\ i \in 1..n /\ k \in 1..n /\ k \in i + 1..Len(Above)
            /\ frames[i] = Above[i] /\ frames[k] = Above[k]
        BY <1>1, <4>1
      <4>3. WantedAt(i, p, u)
        BY <1>2, <3>1, <4>2, WrittenWanted DEF n
      <4>4. /\ WantedAt(k, p, Above[k].rendered[p])
            /\ Above[k].rendered[p] \in Uris \cup {NoUri}
        BY <3>2, <4>2, WrittenWanted DEF n
      <4>5. i \in DOMAIN Above
        BY <1>1
      <4>6. Returned(p)
        BY <3>4, <4>2, <4>3, <4>4, <4>5 DEF Returned, u
      <4> QED BY <4>6
    <3> QED BY <3>3, <3>4
  <2> QED BY <2>3, <2>4
<1> QED BY <1>5, <1>6 DEF u

(* A written declaration differs from what the output has in force.        *)
LEMMA NoneIsRepeated == IInv => NothingRepeated
<1> SUFFICES ASSUME IInv, frames # << >>, NEW p \in NsPrefixes, Top.rendered[p] # None,
                    lookup(frames, p) # None
             PROVE  UriOf(Nearest(Above, "rendered", p)) # Top.rendered[p]
  BY DEF NothingRepeated
<1> DEFINE n == Len(frames)  u == SourceOf(p)  v == Nearest(Above, "rendered", p)
<1>1. /\ n \in Nat \ {0} /\ frames \in Seq(Frames) /\ u \in Uris \cup {NoUri}
      /\ Top.rendered[p] = IF p \in visibly_used(frames, Top) /\ Writes(Above, p, u)
                           THEN u ELSE None
      /\ Above \in Seq(Frames) /\ Len(Above) = n - 1
      /\ \A k \in 1..n - 1 : Above[k] = frames[k]
  BY TopRendered
<1>2. Top.rendered[p] = u /\ Writes(Above, p, u)
  BY <1>1
<1>3. u = lookup(frames, p)
  BY DEF SourceOf, UriOf
<1>4. \/ v = None
      \/ \E i \in DOMAIN Above : v # None /\ v = Above[i].rendered[p]
  <2> HIDE DEF n, u
  <2>1. DOMAIN Above = 1..Len(Above)
    BY <1>1
  <2> QED BY <1>1, <2>1, NearestIsInnermost
<1> HIDE DEF u, n, v
<1>5. CASE p = NoPrefix /\ u = NoUri
  <2>1. v \notin {None, u}
    BY <1>2, <1>5 DEF Writes, ancestor_rendered_different, v
  <2> QED BY <1>2, <2>1 DEF UriOf, v
<1>6. CASE ~(p = NoPrefix /\ u = NoUri)
  <2>1. \A i \in DOMAIN Above : Above[i].rendered[p] # u
    BY <1>2, <1>6 DEF Writes, already_rendered
  <2>2. CASE v = None
    <3>1. UriOf(v) = NoUri
      BY <2>2 DEF UriOf
    <3>2. u # NoUri
      <4>1. CASE p = NoPrefix
        BY <1>6, <4>1
      <4>2. CASE p # NoPrefix
        <5>1. PICK i \in 1..Len(frames) : lookup(frames, p) = frames[i].declared[p]
          BY <1>1, NearestIsInnermost DEF lookup
        <5>2. frames[i].declared \in Declarations
          BY DEF IInv, WrittenOver
        <5> QED BY <1>3, <4>2, <5>1, <5>2, CanonicalAssumption
      <4> QED BY <4>1, <4>2
    <3> QED BY <1>2, <3>1, <3>2 DEF v
  <2>3. CASE v # None
    BY <1>2, <1>4, <2>1, <2>3 DEF UriOf, v
  <2> QED BY <2>2, <2>3
<1> QED BY <1>5, <1>6

(* In every canonical form the names of an element keep the meaning they   *)
(* have in the document, unless their prefix was bound to the same URI and *)
(* to another before, and no declaration is written that is in force       *)
(* already (write_namespace_decls, already_rendered,                       *)
(* ancestor_rendered_different).                                           *)
THEOREM DeclarationsAreRight == CanonicalSpec => []DeclarationsRight
<1>1. IInv => DeclarationsRight
  BY MeaningIsKept, NoneIsRepeated DEF DeclarationsRight
<1> QED BY <1>1, FramesAreWritten, PTL

-----------------------------------------------------------------------------
(* Selectors.                                                               *)

(* Induction over a set of numbers, by the least that fails: the provers    *)
(* cannot instantiate an induction theorem with an operator.                *)
LEMMA LeastFalse ==
  ASSUME NEW n \in Nat, NEW S \in SUBSET (1..n), n > 0 => 1 \in S,
         \A m \in 2..n : m - 1 \in S => m \in S
  PROVE  S = 1..n
<1> SUFFICES ASSUME (1..n) \ S # {} PROVE FALSE
  OBVIOUS
<1> DEFINE Z == (1..n) \ S  R == OpToRel(<, Nat)
<1>1. Z \subseteq Nat /\ Z # {}
  OBVIOUS
<1>2. PICK q \in Z : \A m \in Z : ~(<<m, q>> \in R)
  <2>1. IsWellFoundedOn(R, Nat)  BY NatLessThanWellFounded
  <2> HIDE DEF R, Z
  <2>2. QED  BY <1>1, <2>1, WFMin
<1>3. q \in 2..n
  OBVIOUS
<1>4. q - 1 \in Nat /\ q - 1 < q /\ q \in Nat
  BY <1>3
<1>5. q - 1 \in Z
  BY <1>3, <1>4
<1>6. <<q - 1, q>> \in R
  BY <1>4 DEF OpToRel
<1> QED BY <1>2, <1>5, <1>6

(* The parts up to r can be laid on the chain with the last of them at c,   *)
(* whatever stands there.                                                   *)
Laid(parts, chain, r, c, f) ==
  /\ f \in [1..r -> 1..Len(chain)] /\ f[r] = c
  /\ \A k \in 1..r - 1 : SimpleMatches(parts[k].sel, chain[f[k]])
  /\ \A k \in 2..r : IF parts[k].comb = "Child" THEN f[k] = f[k - 1] + 1 ELSE f[k] > f[k - 1]
Lays(parts, chain, r, c) == \E f : Laid(parts, chain, r, c, f)

LEMMA FirstLays ==
  ASSUME NEW parts, NEW chain, NEW c \in 1..Len(chain)
  PROVE  Lays(parts, chain, 1, c)
<1> DEFINE f == [k \in 1..1 |-> c]
<1>1. f[1] = c /\ f \in [1..1 -> 1..Len(chain)]  OBVIOUS
<1>2. Laid(parts, chain, 1, c, f)  BY <1>1 DEF Laid
<1>3. QED  BY <1>2 DEF Lays

LEMMA NextLays ==
  ASSUME NEW parts, NEW chain, Len(chain) \in Nat, NEW r \in Nat, r >= 2, NEW c \in 1..Len(chain)
  PROVE  Lays(parts, chain, r, c) <=>
           \E pos \in Candidates(parts[r].comb, c) :
              SimpleMatches(parts[r - 1].sel, chain[pos]) /\ Lays(parts, chain, r - 1, pos)
<1> DEFINE After(p) == IF parts[r].comb = "Child" THEN c = p + 1 ELSE c > p
<1>1. \A p \in 1..Len(chain) : p \in Candidates(parts[r].comb, c) <=> After(p)
  BY DEF Candidates
<1>2. Candidates(parts[r].comb, c) \subseteq 1..Len(chain)
  BY DEF Candidates
<1>3. r - 1 \in 1..r /\ r \in 1..r /\ r - 1 \in Nat /\ r \in 2..r /\ r - 1 >= 1  OBVIOUS
<1>4. ASSUME NEW f, Laid(parts, chain, r, c, f)
      PROVE  \E pos \in Candidates(parts[r].comb, c) :
              SimpleMatches(parts[r - 1].sel, chain[pos]) /\ Lays(parts, chain, r - 1, pos)
  <2> DEFINE p == f[r - 1]
             g == [k \in 1..r - 1 |-> f[k]]
  <2>1. p \in 1..Len(chain) /\ After(p) /\ SimpleMatches(parts[r - 1].sel, chain[p])
    <3>1. f \in [1..r -> 1..Len(chain)] /\ f[r] = c  BY <1>4 DEF Laid
    <3>2. IF parts[r].comb = "Child" THEN f[r] = f[r - 1] + 1 ELSE f[r] > f[r - 1]
      BY <1>3, <1>4 DEF Laid
    <3>3. SimpleMatches(parts[r - 1].sel, chain[f[r - 1]])  BY <1>3, <1>4 DEF Laid
    <3>4. QED  BY <1>3, <3>1, <3>2, <3>3
  <2>2. Laid(parts, chain, r - 1, p, g)
    <3>1. f \in [1..r -> 1..Len(chain)]  BY <1>4 DEF Laid
    <3>2. g \in [1..r - 1 -> 1..Len(chain)] /\ \A k \in 1..r - 1 : g[k] = f[k]
      BY <1>3, <3>1
    <3> HIDE DEF g
    <3>3. g[r - 1] = p  BY <1>3, <3>2
    <3>4. \A k \in 1..r - 1 - 1 : SimpleMatches(parts[k].sel, chain[g[k]])
      BY <1>3, <1>4, <3>2 DEF Laid
    <3>5. \A k \in 2..r - 1 : IF parts[k].comb = "Child" THEN g[k] = g[k - 1] + 1 ELSE g[k] > g[k - 1]
      <4>1. \A k \in 2..r - 1 : k \in 2..r /\ k \in 1..r - 1 /\ k - 1 \in 1..r - 1  BY <1>3
      <4>2. QED  BY <1>4, <3>2, <4>1 DEF Laid
    <3>6. QED  BY <3>2, <3>3, <3>4, <3>5 DEF Laid
  <2> HIDE DEF p, g
  <2>3. QED  BY <1>1, <2>1, <2>2 DEF Lays
<1>5. ASSUME NEW pos \in Candidates(parts[r].comb, c), NEW g,
             SimpleMatches(parts[r - 1].sel, chain[pos]), Laid(parts, chain, r - 1, pos, g)
      PROVE  Lays(parts, chain, r, c)
  <2> DEFINE f == [k \in 1..r |-> IF k = r THEN c ELSE g[k]]
  <2>1. pos \in 1..Len(chain) /\ After(pos)  BY <1>1, <1>2
  <2>2. g \in [1..r - 1 -> 1..Len(chain)] /\ g[r - 1] = pos  BY <1>5 DEF Laid
  <2>3. f[r] = c /\ \A k \in 1..r - 1 : f[k] = g[k]  BY <1>3
  <2>4. f \in [1..r -> 1..Len(chain)]
    <3>1. \A k \in 1..r : k # r => k \in 1..r - 1  BY <1>3
    <3>2. QED  BY <2>2, <3>1
  <2> HIDE DEF f
  <2>5. \A k \in 1..r - 1 : SimpleMatches(parts[k].sel, chain[f[k]])
    <3>1. ASSUME NEW k \in 1..r - 1  PROVE SimpleMatches(parts[k].sel, chain[f[k]])
      <4>1. CASE k = r - 1  BY <1>5, <2>2, <2>3, <4>1
      <4>2. CASE k \in 1..r - 1 - 1  BY <1>5, <2>3, <4>2 DEF Laid
      <4>3. QED  BY <1>3, <4>1, <4>2
    <3>2. QED  BY <3>1
  <2>6. \A k \in 2..r : IF parts[k].comb = "Child" THEN f[k] = f[k - 1] + 1 ELSE f[k] > f[k - 1]
    <3>1. ASSUME NEW k \in 2..r
          PROVE  IF parts[k].comb = "Child" THEN f[k] = f[k - 1] + 1 ELSE f[k] > f[k - 1]
      <4>1. CASE k = r  BY <1>3, <2>1, <2>2, <2>3, <4>1
      <4>2. CASE k # r
        <5>1. k \in 2..r - 1 /\ k \in 1..r - 1 /\ k - 1 \in 1..r - 1  BY <1>3, <4>2
        <5>2. IF parts[k].comb = "Child" THEN g[k] = g[k - 1] + 1 ELSE g[k] > g[k - 1]
          BY <1>5, <5>1 DEF Laid
        <5>3. QED  BY <2>3, <5>1, <5>2
      <4>3. QED  BY <4>1, <4>2
    <3>2. QED  BY <3>1
  <2>7. Laid(parts, chain, r, c, f)  BY <2>3, <2>4, <2>5, <2>6 DEF Laid
  <2>8. QED  BY <2>7 DEF Lays
<1>6. QED  BY <1>4, <1>5 DEF Lays

(* The search by backtracking finds one whenever there is one.              *)
LEMMA LeftLays ==
  ASSUME NEW parts, NEW chain, NEW n \in Nat, n = Len(parts), NEW m \in Nat, m = Len(chain),
         NEW r \in 1..n, NEW c \in 1..m
  PROVE  match_left(parts, r, c, chain) <=> Lays(parts, chain, r, c)
<1> DEFINE Where(q, before) ==
             {d \in 1..m : q = 1 \/ \E pos \in Candidates(parts[q].comb, d) :
                                      SimpleMatches(parts[q - 1].sel, chain[pos]) /\ pos \in before}
           Solves(l) == l = [q \in 1..n |-> Where(q, l[q - 1])]
           left == CHOOSE l : Solves(l)
           W(q) == {d \in 1..m : Lays(parts, chain, q, d)}
           g == [q \in 1..n |-> W(q)]
<1>1. \A q \in 1..n : g[q] = W(q)  OBVIOUS
<1>2. \A q \in 1..n, d \in 1..m : Candidates(parts[q].comb, d) \subseteq 1..m  BY DEF Candidates
<1>3. \A q \in 2..n : W(q) = Where(q, W(q - 1))
  <2>1. ASSUME NEW q \in 2..n, NEW d \in 1..m
        PROVE  Lays(parts, chain, q, d) <=> d \in Where(q, W(q - 1))
    <3>1. q \in Nat /\ q >= 2 /\ q - 1 \in 1..n /\ q \in 1..n /\ q # 1  OBVIOUS
    <3>2. Lays(parts, chain, q, d) <=> \E pos \in Candidates(parts[q].comb, d) :
             SimpleMatches(parts[q - 1].sel, chain[pos]) /\ Lays(parts, chain, q - 1, pos)
      BY <3>1, NextLays
    <3>3. \A pos \in Candidates(parts[q].comb, d) :
             pos \in W(q - 1) <=> Lays(parts, chain, q - 1, pos)
      BY <1>2, <3>1
    <3> HIDE DEF W
    <3>4. QED  BY <3>1, <3>2, <3>3
  <2>2. QED  BY <2>1
<1>4. \A before : W(1) = Where(1, before) /\ W(1) = 1..m  BY FirstLays
<1> HIDE DEF W
<1>5. Solves(g)
  <2>1. ASSUME NEW q \in 1..n  PROVE g[q] = Where(q, g[q - 1])
    <3>1. CASE q = 1  BY <1>1, <1>4, <3>1
    <3>2. CASE q # 1
      <4>1. q \in 2..n /\ q - 1 \in 1..n  BY <3>2
      <4> HIDE DEF Where, g
      <4>2. QED  BY <1>1, <1>3, <4>1
    <3>3. QED  BY <3>1, <3>2
  <2> HIDE DEF Where
  <2>2. g = [q \in 1..n |-> g[q]]  OBVIOUS
  <2> HIDE DEF g
  <2>3. QED  BY <2>1, <2>2
<1>6. Solves(left)  BY <1>5
<1> HIDE DEF left, g
<1>7. \A q \in 1..n : left[q] = Where(q, left[q - 1])
  <2> HIDE DEF Where
  <2>1. QED  BY <1>6
<1> DEFINE S == {q \in 1..n : left[q] = W(q)}
<1>8. 1 \in 1..n => 1 \in S
  <2> HIDE DEF Where
  <2>1. QED  BY <1>4, <1>7
<1>9. ASSUME NEW q \in 2..n, q - 1 \in S  PROVE q \in S
  <2> HIDE DEF Where
  <2>1. q \in 1..n  OBVIOUS
  <2>2. QED  BY <1>3, <1>7, <1>9, <2>1
<1>10. S = 1..n
  <2>1. S \in SUBSET (1..n) /\ (n > 0 => 1 \in S)  BY <1>8
  <2> HIDE DEF S
  <2>2. QED  BY <1>9, <2>1, LeastFalse
<1>11. match_left(parts, r, c, chain) <=> c \in left[r]  BY DEF match_left, left
<1>12. left[r] = W(r)  BY <1>10
<1>13. QED  BY <1>11, <1>12 DEF W

LEMMA MatchesIsEmbeds ==
  ASSUME NEW parts, Len(parts) \in Nat, DOMAIN parts = 1..Len(parts),
         parts # <<>> => Len(parts) > 0, NEW chain, Len(chain) \in Nat, Len(chain) > 0
  PROVE  matches(parts, chain) <=> Embeds(parts, chain)
<1> DEFINE n == Len(parts)  m == Len(chain)
<1>1. SUFFICES ASSUME parts # <<>>
      PROVE  matches(parts, chain) <=>
               \E f \in [1..n -> 1..m] :
                 /\ f[n] = m /\ \A k \in 1..n : SimpleMatches(parts[k].sel, chain[f[k]])
                 /\ \A k \in 2..n : IF parts[k].comb = "Child" THEN f[k] = f[k - 1] + 1
                                                             ELSE f[k] > f[k - 1]
  BY DEF matches, Embeds
<1>2. n \in 1..n /\ m \in 1..m /\ n \in Nat /\ m \in Nat  BY <1>1
<1>3. matches(parts, chain) <=> SimpleMatches(parts[n].sel, chain[m]) /\ Lays(parts, chain, n, m)
  BY <1>1, <1>2, LeftLays DEF matches
<1>4. \A f : /\ f \in [1..n -> 1..m] /\ f[n] = m
             /\ \A k \in 1..n : SimpleMatches(parts[k].sel, chain[f[k]])
             /\ \A k \in 2..n : IF parts[k].comb = "Child" THEN f[k] = f[k - 1] + 1
                                                           ELSE f[k] > f[k - 1]
             <=> SimpleMatches(parts[n].sel, chain[m]) /\ Laid(parts, chain, n, m, f)
  <2>1. 1..n = 1..n - 1 \cup {n}  BY <1>2
  <2>2. QED  BY <2>1 DEF Laid
<1>5. QED  BY <1>3, <1>4 DEF Lays

-----------------------------------------------------------------------------
(* The invariant of the iterator.                                           *)

TagNames == {tag.name : tag \in Tags}

Event == [kind : {"Start", "End"} \cup Leaves, tag : Tags \cup {NoTag}, chain : Seq(Nat)]

(* The events whose items have a path.                                      *)
Named(ev) == ev.kind \in {"Start", "End", "Text", "CData"}

(* ch is the elements around or of an event by the k-th, from the root: its *)
(* last is an element whose own chain is ch, and so for every prefix.       *)
Lineage(evs, ch, k) ==
  /\ ch \in Seq(1..k)
  /\ \A i \in 1..Len(ch) :
       /\ evs[ch[i]].kind = "Start" /\ Len(evs[ch[i]].chain) = i
       /\ \A j \in 1..i : evs[ch[i]].chain[j] = ch[j]

(* The reader's promise: one root, nested elements.                         *)
OneRoot(evs) ==
  \A j, k \in 1..Len(evs) :
     Len(evs[j].chain) > 0 /\ Len(evs[k].chain) > 0 => evs[j].chain[1] = evs[k].chain[1]

EventsOK(evs) ==
  /\ evs \in Seq(Event)
  /\ \A k \in 1..Len(evs) :
       /\ Lineage(evs, evs[k].chain, k)
       /\ Named(evs[k]) => Len(evs[k].chain) > 0
       /\ evs[k].kind = "Start" => evs[k].chain[Len(evs[k].chain)] = k
  /\ OneRoot(evs)

(* The children of element p with this name, and those up to child e.       *)
Parent(evs, e) == evs[e].chain[Len(evs[e].chain) - 1]
Kids(evs, p, nm) ==
  {s \in 1..Len(evs) : /\ evs[s].kind = "Start" /\ Len(evs[s].chain) > 1
                       /\ Parent(evs, s) = p /\ evs[s].tag.name = nm}
Elder(evs, e) == {s \in Kids(evs, Parent(evs, e), evs[e].tag.name) : s <= e}

(* The path of the last element of ch, by what the history says of it.      *)
Printed(n) == IF n >= 2 THEN n ELSE 0
PathOf(evs, ch) ==
  [i \in 1..Len(ch) |->
     <<evs[ch[i]].tag.name, IF i = 1 THEN 0 ELSE Printed(Cardinality(Elder(evs, ch[i])))>>]

Counters == UNION {[D -> Nat] : D \in SUBSET TagNames}
Frame == [name : TagNames, children : Counters]

(* The frames st are those of the open elements o.                          *)
FramesOK(evs, st, o) ==
  /\ st \in Seq(Frame) /\ Len(st) = Len(o)
  /\ \A i \in 1..Len(o) :
       /\ st[i].name = evs[o[i]].tag.name
       /\ \A nm \in TagNames : Count(st[i].children, nm) = Cardinality(Kids(evs, o[i], nm))
  /\ \A i \in 2..Len(o), nm \in TagNames : \A s \in Kids(evs, o[i - 1], nm) : s <= o[i]

Item == [kind : {"Start", "End", "Text", "CData", "Comment", "Pi", "Err"},
         path : Seq(TagNames \X Nat), depth : Nat]

(* How many items the first k events have, and what the items say.          *)
Told(evs, k) == Cardinality({j \in 1..k : evs[j].kind # "EntityRef"})
ItemsOK(evs, its) ==
  /\ its \in Seq(Item)
  /\ \A k \in 1..Len(evs) : Named(evs[k]) =>
       /\ Told(evs, k) \in 1..Len(its)
       /\ its[Told(evs, k)].path = PathOf(evs, evs[k].chain)
       /\ its[Told(evs, k)].depth = Len(evs[k].chain)

PlacesInv ==
  /\ EventsOK(events) /\ Lineage(events, Open, Len(events))
  /\ FramesOK(events, stack, Open) /\ ItemsOK(events, items)
  /\ ~done => Len(items) = Told(events, Len(events))

-----------------------------------------------------------------------------
(* Counters.                                                                *)

LEMMA CountBump ==
  ASSUME NEW c, NEW nm, NEW x
  PROVE  Count(Bump(c, nm), x) = IF x = nm THEN Count(c, nm) + 1 ELSE Count(c, x)
BY DEF Count, Bump

LEMMA CounterTypes ==
  /\ NoChildren \in Counters
  /\ \A c \in Counters, nm \in TagNames : Bump(c, nm) \in Counters /\ Count(c, nm) \in Nat
<1>1. NoChildren \in [{} -> Nat]  BY DEF NoChildren
<1>2. ASSUME NEW c \in Counters, NEW nm \in TagNames
      PROVE  Bump(c, nm) \in Counters /\ Count(c, nm) \in Nat
  <2>1. PICK D \in SUBSET TagNames : c \in [D -> Nat]  BY DEF Counters
  <2>2. Count(c, nm) \in Nat  BY <2>1 DEF Count
  <2>3. Bump(c, nm) \in [D \cup {nm} -> Nat]  BY <2>1, <2>2 DEF Bump
  <2>4. D \cup {nm} \in SUBSET TagNames  BY <2>1
  <2>5. QED  BY <2>2, <2>3, <2>4 DEF Counters
<1>3. NoChildren \in Counters  BY <1>1 DEF Counters
<1>4. QED  BY <1>2, <1>3

LEMMA NoneCounted == \A nm : Count(NoChildren, nm) = 0
BY DEF Count, NoChildren

LEMMA Wider ==
  ASSUME NEW S, NEW T, S \subseteq T, NEW s \in Seq(S)  PROVE s \in Seq(T)
OBVIOUS

-----------------------------------------------------------------------------
(* Children and the paths made of them.                                     *)

LEMMA KidsAreFinite ==
  ASSUME NEW evs, Len(evs) \in Nat, NEW p, NEW nm
  PROVE  /\ Kids(evs, p, nm) \subseteq 1..Len(evs)
         /\ IsFiniteSet(Kids(evs, p, nm)) /\ Cardinality(Kids(evs, p, nm)) \in Nat
<1>1. Kids(evs, p, nm) \subseteq 1..Len(evs)  BY DEF Kids
<1>2. IsFiniteSet(1..Len(evs))  BY FS_Interval
<1>3. IsFiniteSet(Kids(evs, p, nm))  BY <1>1, <1>2, FS_Subset
<1>4. QED  BY <1>1, <1>3, FS_CardinalityType

(* The frames hold what the path of the open elements needs.                *)
LEMMA PathIsAsked ==
  ASSUME NEW evs, NEW st, NEW o, Lineage(evs, o, Len(evs)), FramesOK(evs, st, o),
         evs \in Seq(Event)
  PROVE  current_path(st) = PathOf(evs, o)
<1>1. /\ Len(o) \in Nat /\ Len(st) = Len(o) /\ DOMAIN st = 1..Len(o)
      /\ \A i \in 1..Len(o) : st[i].name \in TagNames /\ st[i].name = evs[o[i]].tag.name
  <2>1. st \in Seq(Frame) /\ Len(st) = Len(o) /\ o \in Seq(1..Len(evs))
    BY DEF FramesOK, Lineage
  <2>2. /\ Len(o) \in Nat /\ DOMAIN st = 1..Len(o)
        /\ \A i \in 1..Len(o) : st[i] \in Frame
    BY <2>1
  <2>3. QED  BY <2>1, <2>2 DEF FramesOK, Frame
<1>2. ASSUME NEW i \in 2..Len(o)
      PROVE  Count(st[i - 1].children, st[i].name) = Cardinality(Elder(evs, o[i]))
  <2> DEFINE nm == st[i].name
  <2>1. i \in 1..Len(o) /\ i - 1 \in 1..Len(o) /\ i - 1 \in 1..i  BY <1>1
  <2>2. Parent(evs, o[i]) = o[i - 1]  BY <2>1 DEF Parent, Lineage
  <2>3. nm \in TagNames /\ nm = evs[o[i]].tag.name  BY <1>1, <2>1
  <2>4. \A s \in Kids(evs, o[i - 1], nm) : s <= o[i]  BY <2>3 DEF FramesOK
  <2>5. Elder(evs, o[i]) = Kids(evs, o[i - 1], nm)  BY <2>2, <2>3, <2>4 DEF Elder
  <2>6. Count(st[i - 1].children, nm) = Cardinality(Kids(evs, o[i - 1], nm))
    BY <2>1, <2>3 DEF FramesOK
  <2>7. QED  BY <2>5, <2>6
<1>3. ASSUME NEW i \in 1..Len(o)  PROVE current_path(st)[i] = PathOf(evs, o)[i]
  <2>1. CASE i = 1  BY <1>1, <2>1 DEF current_path, PathOf
  <2>2. CASE i # 1
    <3>1. i \in 2..Len(o)  BY <1>1, <2>2
    <3>2. QED  BY <1>1, <1>2, <2>2, <3>1 DEF current_path, PathOf, Printed
  <2>3. QED  BY <2>1, <2>2
<1>4. QED  BY <1>1, <1>3 DEF current_path, PathOf

-----------------------------------------------------------------------------
(* One event more.                                                          *)

Grows(evs, all, ev) ==
  /\ evs \in Seq(Event) /\ all \in Seq(Event) /\ ev \in Event
  /\ Len(evs) \in Nat /\ Len(all) = Len(evs) + 1
  /\ all[Len(evs) + 1] = ev /\ \A i \in 1..Len(evs) : all[i] = evs[i]

LEMMA AppendGrows ==
  ASSUME NEW evs \in Seq(Event), NEW ev \in Event
  PROVE  Grows(evs, Append(evs, ev), ev)
BY DEF Grows

LEMMA LineageStays ==
  ASSUME NEW evs, NEW all, NEW ev, Grows(evs, all, ev), NEW k \in 1..Len(evs) \cup {0},
         NEW ch, Lineage(evs, ch, k), NEW m \in Nat, k <= m
  PROVE  Lineage(all, ch, m)
<1>1. 1..k \subseteq 1..m /\ 1..k \subseteq 1..Len(evs)  BY DEF Grows
<1>2. ch \in Seq(1..k)  BY DEF Lineage
<1>3. ch \in Seq(1..m)  BY <1>1, <1>2, Wider
<1>4. \A i \in 1..Len(ch) : ch[i] \in 1..Len(evs)  BY <1>1, <1>2
<1>5. \A i \in 1..Len(ch) : all[ch[i]] = evs[ch[i]]  BY <1>4 DEF Grows
<1>6. QED  BY <1>3, <1>5 DEF Lineage

LEMMA LineageExtends ==
  ASSUME NEW evs, NEW all, NEW ev, Grows(evs, all, ev), NEW o, Lineage(evs, o, Len(evs)),
         ev.kind = "Start", ev.chain = Append(o, Len(evs) + 1)
  PROVE  Lineage(all, Append(o, Len(evs) + 1), Len(evs) + 1)
<1> DEFINE n == Len(evs)  ch == Append(o, n + 1)
<1>1. n \in Nat /\ n \in 1..n \cup {0}  BY DEF Grows
<1>2. Lineage(all, o, n + 1)  BY <1>1, LineageStays
<1>3. o \in Seq(1..n + 1)  BY <1>2 DEF Lineage
<1>4. n + 1 \in 1..n + 1  BY <1>1
<1> HIDE DEF n
<1>5. /\ ch \in Seq(1..n + 1) /\ Len(ch) = Len(o) + 1 /\ Len(o) \in Nat
      /\ ch[Len(o) + 1] = n + 1 /\ \A i \in 1..Len(o) : ch[i] = o[i]
  BY <1>3, <1>4
<1>6. all[n + 1] = ev /\ ev.chain = ch  BY DEF Grows, n
<1> HIDE DEF ch
<1>7. ASSUME NEW i \in 1..Len(ch)
      PROVE  /\ all[ch[i]].kind = "Start" /\ Len(all[ch[i]].chain) = i
             /\ \A j \in 1..i : all[ch[i]].chain[j] = ch[j]
  <2>1. CASE i = Len(o) + 1
    <3>1. all[ch[i]] = ev  BY <1>5, <1>6, <2>1
    <3>2. QED  BY <1>5, <1>6, <2>1, <3>1
  <2>2. CASE i \in 1..Len(o)
    <3>1. ch[i] = o[i] /\ \A j \in 1..i : ch[j] = o[j]  BY <1>5, <2>2
    <3>2. QED  BY <1>2, <2>2, <3>1 DEF Lineage
  <2>3. QED  BY <1>5, <2>1, <2>2
<1>8. QED  BY <1>5, <1>7 DEF Lineage, ch, n

IsKid(ev, p, nm) ==
  /\ ev.kind = "Start" /\ Len(ev.chain) > 1
  /\ ev.chain[Len(ev.chain) - 1] = p /\ ev.tag.name = nm

LEMMA KidsGrow ==
  ASSUME NEW evs, NEW all, NEW ev, Grows(evs, all, ev), NEW p, NEW nm
  PROVE  /\ IsKid(ev, p, nm) => Kids(all, p, nm) = Kids(evs, p, nm) \cup {Len(evs) + 1}
         /\ ~IsKid(ev, p, nm) => Kids(all, p, nm) = Kids(evs, p, nm)
<1> DEFINE n == Len(evs)
<1>1. n \in Nat /\ Len(all) = n + 1 /\ all[n + 1] = ev /\ \A i \in 1..n : all[i] = evs[i]
  BY DEF Grows
<1>2. \A i \in 1..n : Parent(all, i) = Parent(evs, i)  BY <1>1 DEF Parent
<1>3. Parent(all, n + 1) = ev.chain[Len(ev.chain) - 1]  BY <1>1 DEF Parent
<1>4. 1..n + 1 = 1..n \cup {n + 1}  BY <1>1
<1>5. \A i \in 1..n : i \in Kids(all, p, nm) <=> i \in Kids(evs, p, nm)
  BY <1>1, <1>2, <1>4 DEF Kids
<1>6. n + 1 \in Kids(all, p, nm) <=> IsKid(ev, p, nm)
  BY <1>1, <1>3, <1>4 DEF Kids, IsKid
<1>7. Kids(all, p, nm) \subseteq 1..n \cup {n + 1} /\ Kids(evs, p, nm) \subseteq 1..n
  BY <1>1, <1>4 DEF Kids
<1> HIDE DEF n
<1>8. QED  BY <1>5, <1>6, <1>7 DEF n

LEMMA ElderStays ==
  ASSUME NEW evs, NEW all, NEW ev, Grows(evs, all, ev), NEW e \in 1..Len(evs)
  PROVE  Elder(all, e) = Elder(evs, e)
<1>1. Len(evs) \in Nat /\ all[e] = evs[e]  BY DEF Grows
<1>2. Parent(all, e) = Parent(evs, e)  BY <1>1 DEF Parent
<1> DEFINE K(s) == Kids(s, Parent(evs, e), evs[e].tag.name)
<1>3. K(all) = K(evs) \/ K(all) = K(evs) \cup {Len(evs) + 1}
  <2>1. \A p, nm : \/ Kids(all, p, nm) = Kids(evs, p, nm)
                   \/ Kids(all, p, nm) = Kids(evs, p, nm) \cup {Len(evs) + 1}
    BY KidsGrow
  <2>2. QED  BY <2>1
<1>4. ~(Len(evs) + 1 <= e)  BY <1>1
<1> HIDE DEF K
<1>5. {s \in K(all) : s <= e} = {s \in K(evs) : s <= e}  BY <1>3, <1>4
<1>6. QED  BY <1>1, <1>2, <1>5 DEF Elder, K

LEMMA PathStays ==
  ASSUME NEW evs, NEW all, NEW ev, Grows(evs, all, ev), NEW ch, Lineage(evs, ch, Len(evs))
  PROVE  PathOf(all, ch) = PathOf(evs, ch)
<1>1. \A i \in 1..Len(ch) : ch[i] \in 1..Len(evs)  BY DEF Lineage
<1>2. \A i \in 1..Len(ch) : all[ch[i]] = evs[ch[i]]  BY <1>1 DEF Grows
<1>3. \A i \in 1..Len(ch) : Elder(all, ch[i]) = Elder(evs, ch[i])  BY <1>1, ElderStays
<1>4. QED  BY <1>2, <1>3 DEF PathOf

LEMMA ToldGrows ==
  ASSUME NEW evs, NEW all, NEW ev, Grows(evs, all, ev)
  PROVE  /\ \A k \in 0..Len(evs) : Told(all, k) = Told(evs, k) /\ Told(evs, k) \in Nat
         /\ Told(all, Len(evs) + 1)
              = Told(evs, Len(evs)) + (IF ev.kind # "EntityRef" THEN 1 ELSE 0)
         /\ \A k \in 0..Len(evs) : Told(evs, k) <= Told(evs, Len(evs))
<1> DEFINE n == Len(evs)
           T(s, k) == {j \in 1..k : s[j].kind # "EntityRef"}
<1>1. n \in Nat /\ Len(all) = n + 1 /\ all[n + 1] = ev /\ \A i \in 1..n : all[i] = evs[i]
  BY DEF Grows
<1>2. ASSUME NEW k \in 0..n
      PROVE  T(all, k) = T(evs, k) /\ IsFiniteSet(T(evs, k)) /\ T(evs, k) \subseteq T(evs, n)
  <2>1. T(all, k) = T(evs, k)  BY <1>1
  <2>2. IsFiniteSet(1..k)  BY FS_Interval
  <2>3. IsFiniteSet(T(evs, k))  BY <2>2, FS_Subset
  <2>4. T(evs, k) \subseteq T(evs, n)  BY <1>1
  <2>5. QED  BY <2>1, <2>3, <2>4
<1>3. T(all, n + 1) = T(evs, n) \cup (IF ev.kind # "EntityRef" THEN {n + 1} ELSE {})
  <2>1. 1..n + 1 = 1..n \cup {n + 1}  BY <1>1
  <2>2. QED  BY <1>1, <2>1
<1>4. n + 1 \notin T(evs, n) /\ n \in 0..n  BY <1>1
<1>5. \A s, k : Told(s, k) = Cardinality(T(s, k))  BY DEF Told
<1> HIDE DEF T
<1>6. IsFiniteSet(T(evs, n))  BY <1>2, <1>4
<1>7. Cardinality(T(evs, n) \cup {n + 1}) = Cardinality(T(evs, n)) + 1
  BY <1>4, <1>6, FS_AddElement
<1>8. \A k \in 0..n : Cardinality(T(evs, k)) \in Nat
                       /\ Cardinality(T(evs, k)) <= Cardinality(T(evs, n))
  BY <1>2, <1>6, FS_CardinalityType, FS_Subset
<1>9. Cardinality(T(all, n + 1))
        = Cardinality(T(evs, n)) + (IF ev.kind # "EntityRef" THEN 1 ELSE 0)
  <2>1. CASE ev.kind # "EntityRef"  BY <1>3, <1>7, <2>1
  <2>2. CASE ev.kind = "EntityRef"
    <3>1. T(all, n + 1) = T(evs, n)  BY <1>3, <2>2
    <3>2. QED  BY <1>4, <1>8, <2>2, <3>1
  <2>3. QED  BY <2>1, <2>2
<1>10. QED  BY <1>2, <1>5, <1>8, <1>9

(* What an event must be for the history to stay what it is.                *)
LEMMA EventsStay ==
  ASSUME NEW evs, NEW all, NEW ev, Grows(evs, all, ev), EventsOK(evs),
         Lineage(all, ev.chain, Len(evs) + 1), Named(ev) => Len(ev.chain) > 0,
         ev.kind = "Start" => ev.chain[Len(ev.chain)] = Len(evs) + 1,
         \A k \in 1..Len(evs) :
            Len(ev.chain) > 0 /\ Len(evs[k].chain) > 0 => evs[k].chain[1] = ev.chain[1]
  PROVE  EventsOK(all)
<1> DEFINE n == Len(evs)
<1>1. /\ n \in Nat /\ Len(all) = n + 1 /\ all[n + 1] = ev /\ \A i \in 1..n : all[i] = evs[i]
      /\ all \in Seq(Event)
  BY DEF Grows
<1>2. \A k \in 1..n + 1 : k \in 1..n \/ k = n + 1  BY <1>1
<1>3. ASSUME NEW k \in 1..n + 1
      PROVE  /\ Lineage(all, all[k].chain, k)
             /\ Named(all[k]) => Len(all[k].chain) > 0
             /\ all[k].kind = "Start" => all[k].chain[Len(all[k].chain)] = k
  <2>1. CASE k \in 1..n
    <3>1. Lineage(evs, evs[k].chain, k)  BY <2>1 DEF EventsOK
    <3>2. Lineage(all, evs[k].chain, k)  BY <2>1, <3>1, LineageStays
    <3>3. QED  BY <1>1, <2>1, <3>2 DEF EventsOK
  <2>2. CASE k = n + 1  BY <1>1, <2>2
  <2>3. QED  BY <1>2, <2>1, <2>2
<1>4. OneRoot(all)
  <2>1. ASSUME NEW j \in 1..n + 1, NEW k \in 1..n + 1,
               Len(all[j].chain) > 0, Len(all[k].chain) > 0
        PROVE  all[j].chain[1] = all[k].chain[1]
    <3>1. \A i \in 1..n : Len(all[i].chain) > 0 /\ Len(ev.chain) > 0 =>
                             all[i].chain[1] = ev.chain[1]
      BY <1>1
    <3>2. CASE j \in 1..n /\ k \in 1..n
      <4>1. all[j] = evs[j] /\ all[k] = evs[k]  BY <1>1, <3>2
      <4>2. OneRoot(evs)  BY DEF EventsOK
      <4>3. QED  BY <2>1, <3>2, <4>1, <4>2 DEF OneRoot
    <3>3. CASE j = n + 1 \/ k = n + 1  BY <1>1, <1>2, <2>1, <3>1, <3>3
    <3>4. QED  BY <1>2, <3>2, <3>3
  <2>2. QED  BY <1>1, <2>1 DEF OneRoot
<1>5. QED  BY <1>1, <1>3, <1>4 DEF EventsOK

(* What an item must be for the items to stay what they are.                *)
LEMMA ItemsStay ==
  ASSUME NEW evs, NEW all, NEW ev, Grows(evs, all, ev), EventsOK(evs), NEW its, NEW more, NEW it,
         ItemsOK(evs, its), Len(its) = Told(evs, Len(evs)), it \in Item,
         ev.kind # "EntityRef" => more = Append(its, it),
         ev.kind = "EntityRef" => more = its,
         Named(ev) => it.path = PathOf(all, ev.chain) /\ it.depth = Len(ev.chain)
  PROVE  ItemsOK(all, more) /\ Len(more) = Told(all, Len(all))
<1> DEFINE n == Len(evs)
<1>1. /\ n \in Nat /\ Len(all) = n + 1 /\ all[n + 1] = ev /\ \A i \in 1..n : all[i] = evs[i]
  BY DEF Grows
<1>2. its \in Seq(Item)  BY DEF ItemsOK
<1>3. /\ more \in Seq(Item) /\ Len(its) \in Nat
      /\ Len(more) = Len(its) + (IF ev.kind # "EntityRef" THEN 1 ELSE 0)
      /\ \A i \in 1..Len(its) : more[i] = its[i]
      /\ ev.kind # "EntityRef" => more[Len(its) + 1] = it
  <2>1. CASE ev.kind # "EntityRef"
    <3>1. more = Append(its, it)  BY <2>1
    <3>2. QED  BY <1>2, <2>1, <3>1
  <2>2. CASE ev.kind = "EntityRef"
    <3>1. more = its  BY <2>2
    <3>2. QED  BY <1>2, <2>2, <3>1
  <2>3. QED  BY <2>1, <2>2
<1>4. Len(more) = Told(all, n + 1)  BY <1>3, ToldGrows
<1>5. ASSUME NEW k \in 1..n + 1, Named(all[k])
      PROVE  /\ Told(all, k) \in 1..Len(more)
             /\ more[Told(all, k)].path = PathOf(all, all[k].chain)
             /\ more[Told(all, k)].depth = Len(all[k].chain)
  <2>1. CASE k \in 1..n
    <3>1. all[k] = evs[k] /\ Told(all, k) = Told(evs, k)  BY <1>1, <2>1, ToldGrows
    <3>2. /\ Told(evs, k) \in 1..Len(its)
          /\ its[Told(evs, k)].path = PathOf(evs, evs[k].chain)
          /\ its[Told(evs, k)].depth = Len(evs[k].chain)
      BY <1>5, <2>1, <3>1 DEF ItemsOK
    <3>3. Lineage(evs, evs[k].chain, n)
      <4>1. Lineage(evs, evs[k].chain, k)  BY <2>1 DEF EventsOK
      <4>2. evs[k].chain \in Seq(1..k) /\ 1..k \subseteq 1..n  BY <1>1, <2>1, <4>1 DEF Lineage
      <4>3. evs[k].chain \in Seq(1..n)  BY <4>2, Wider
      <4>4. QED  BY <4>1, <4>3 DEF Lineage
    <3>4. PathOf(all, evs[k].chain) = PathOf(evs, evs[k].chain)  BY <3>3, PathStays
    <3>5. more[Told(evs, k)] = its[Told(evs, k)] /\ Told(evs, k) \in 1..Len(more)
      BY <1>3, <3>2
    <3>6. QED  BY <3>1, <3>2, <3>4, <3>5
  <2>2. CASE k = n + 1
    <3>1. all[k] = ev  BY <1>1, <2>2
    <3>2. ev.kind # "EntityRef"  BY <1>5, <3>1 DEF Named
    <3>3. Told(all, k) = Len(its) + 1  BY <1>3, <1>4, <2>2, <3>2
    <3>4. QED  BY <1>3, <1>5, <3>1, <3>2, <3>3
  <2>3. QED  BY <1>1, <2>1, <2>2
<1>6. QED  BY <1>1, <1>3, <1>4, <1>5 DEF ItemsOK

LEMMA FrontIs ==
  ASSUME NEW S, NEW s \in Seq(S), s # <<>>
  PROVE  /\ Front(s) \in Seq(S) /\ Len(Front(s)) = Len(s) - 1 /\ Len(s) \in Nat \ {0}
         /\ \A i \in 1..Len(s) - 1 : Front(s)[i] = s[i]
<1>1. Len(s) \in Nat /\ Len(s) > 0 /\ \A i \in 1..Len(s) - 1 : s[i] \in S  OBVIOUS
<1> PICK m : m = Len(s) - 1  OBVIOUS
<1>2. m \in Nat /\ m \in Int /\ 1 \in Int  BY <1>1
<1>3. /\ SubSeq(s, 1, m) \in Seq(S) /\ Len(SubSeq(s, 1, m)) = IF 1 <= m THEN m - 1 + 1 ELSE 0
      /\ \A i \in 1..m - 1 + 1 : SubSeq(s, 1, m)[i] = s[1 + i - 1]
  BY <1>1, <1>2, SubSeqProperties
<1>4. QED  BY <1>1, <1>2, <1>3 DEF Front

LEMMA KidsStay ==
  ASSUME NEW evs, NEW all, NEW ev, Grows(evs, all, ev), NEW p, NEW nm, ~IsKid(ev, p, nm)
  PROVE  Kids(all, p, nm) = Kids(evs, p, nm)
BY KidsGrow

(* No start tag, no new child.                                              *)
LEMMA FramesStay ==
  ASSUME NEW evs, NEW all, NEW ev, Grows(evs, all, ev), ev.kind # "Start",
         NEW st, NEW o, Lineage(evs, o, Len(evs)), FramesOK(evs, st, o)
  PROVE  FramesOK(all, st, o)
<1>1. \A p, nm : Kids(all, p, nm) = Kids(evs, p, nm)
  <2>1. \A p, nm : ~IsKid(ev, p, nm)  BY DEF IsKid
  <2>2. QED  BY <2>1, KidsStay
<1>2. \A i \in 1..Len(o) : all[o[i]] = evs[o[i]]
  <2>1. o \in Seq(1..Len(evs))  BY DEF Lineage
  <2>2. \A i \in 1..Len(o) : o[i] \in 1..Len(evs)  BY <2>1, ElementOfSeq
  <2>3. QED  BY <2>2 DEF Grows
<1>3. QED  BY <1>1, <1>2 DEF FramesOK

LEMMA FramesPop ==
  ASSUME NEW evs, NEW n, NEW st, NEW o, o # <<>>, Lineage(evs, o, n), FramesOK(evs, st, o)
  PROVE  Lineage(evs, Front(o), n) /\ FramesOK(evs, Front(st), Front(o))
<1>1. o \in Seq(1..n) /\ st \in Seq(Frame) /\ Len(st) = Len(o)  BY DEF Lineage, FramesOK
<1>2. st # <<>>  BY <1>1
<1>3. /\ Front(o) \in Seq(1..n) /\ Len(Front(o)) = Len(o) - 1 /\ Len(o) \in Nat \ {0}
      /\ \A i \in 1..Len(o) - 1 : Front(o)[i] = o[i]
  BY <1>1, FrontIs
<1>4. /\ Front(st) \in Seq(Frame) /\ Len(Front(st)) = Len(o) - 1
      /\ \A i \in 1..Len(o) - 1 : Front(st)[i] = st[i]
  BY <1>1, <1>2, FrontIs
<1>5. \A i \in 1..Len(Front(o)) : i \in 1..Len(o) /\ i \in 1..Len(o) - 1
                                 /\ \A j \in 1..i : j \in 1..Len(o) - 1
  BY <1>3
<1>6. Lineage(evs, Front(o), n)  BY <1>3, <1>5 DEF Lineage
<1>7. \A i \in 2..Len(Front(o)) : i \in 2..Len(o) /\ i \in 1..Len(o) - 1 /\ i - 1 \in 1..Len(o) - 1
  BY <1>3
<1>8. FramesOK(evs, Front(st), Front(o))  BY <1>3, <1>4, <1>5, <1>7 DEF FramesOK
<1>9. QED  BY <1>6, <1>8

LEMMA PushIs ==
  ASSUME NEW st \in Seq(Frame), NEW name \in TagNames, NEW pf, pf = PushFrame(st, name)
  PROVE  /\ pf \in Seq(Frame) /\ Len(pf) = Len(st) + 1 /\ Len(st) \in Nat
         /\ pf[Len(st) + 1] = [name |-> name, children |-> NoChildren]
         /\ \A i \in 1..Len(st) - 1 : pf[i] = st[i]
         /\ st # <<>> => /\ pf[Len(st)].name = st[Len(st)].name
                         /\ pf[Len(st)].children = Bump(st[Len(st)].children, name)
<1> DEFINE new == [name |-> name, children |-> NoChildren]
           n == Len(st)
           top == [st[n] EXCEPT !.children = Bump(@, name)]
           counted == IF st = <<>> THEN <<>> ELSE [st EXCEPT ![n] = top]
<1>1. new \in Frame  BY CounterTypes DEF Frame
<1>2. PushFrame(st, name) = Append(counted, new)
  BY DEF PushFrame
<1>3. n \in Nat /\ (st # <<>> => n \in 1..n)  OBVIOUS
<1>4. st # <<>> => /\ top \in Frame /\ top.name = st[n].name
                   /\ top.children = Bump(st[n].children, name)
  <2>1. st # <<>> => st[n] \in Frame  BY <1>3
  <2>2. QED  BY <2>1, CounterTypes DEF Frame
<1> HIDE DEF top, new
<1>5. /\ counted \in Seq(Frame) /\ Len(counted) = n
      /\ \A i \in 1..n - 1 : counted[i] = st[i]
      /\ st # <<>> => counted[n] = top
  <2>1. CASE st = <<>>  BY <2>1
  <2>2. CASE st # <<>>  BY <1>3, <1>4, <2>2
  <2>3. QED  BY <2>1, <2>2
<1> HIDE DEF counted
<1>6. /\ Append(counted, new) \in Seq(Frame) /\ Len(Append(counted, new)) = n + 1
      /\ Append(counted, new)[n + 1] = new
      /\ \A i \in 1..n : Append(counted, new)[i] = counted[i]
  BY <1>1, <1>3, <1>5
<1> HIDE DEF n
<1>7. \A i \in 1..n - 1 : i \in 1..n  BY <1>3
<1>8. QED  BY <1>2, <1>3, <1>4, <1>5, <1>6, <1>7 DEF n, new

(* No element has a child before its start tag.                             *)
LEMMA NoneBefore ==
  ASSUME NEW evs, EventsOK(evs), NEW nm
  PROVE  Kids(evs, Len(evs) + 1, nm) = {}
<1>1. SUFFICES ASSUME NEW s \in Kids(evs, Len(evs) + 1, nm)  PROVE FALSE
  OBVIOUS
<1>2. s \in 1..Len(evs) /\ Len(evs[s].chain) > 1 /\ Parent(evs, s) = Len(evs) + 1
  BY <1>1 DEF Kids
<1>3. Lineage(evs, evs[s].chain, s) /\ Len(evs) \in Nat  BY <1>2 DEF EventsOK
<1>4. evs[s].chain \in Seq(1..s)  BY <1>3 DEF Lineage
<1>5. Len(evs[s].chain) - 1 \in 1..Len(evs[s].chain)  BY <1>2, <1>4
<1>6. Parent(evs, s) \in 1..s
  <2>1. \A i \in 1..Len(evs[s].chain) : evs[s].chain[i] \in 1..s  BY <1>4, ElementOfSeq, Zenon
  <2>2. QED  BY <1>5, <2>1 DEF Parent
<1>7. QED  BY <1>2, <1>3, <1>6

LEMMA FramesPush ==
  ASSUME NEW evs, NEW all, NEW ev, Grows(evs, all, ev), EventsOK(evs),
         NEW st, NEW o, Lineage(evs, o, Len(evs)), FramesOK(evs, st, o),
         ev.kind = "Start", ev.tag.name \in TagNames, ev.chain = Append(o, Len(evs) + 1)
  PROVE  FramesOK(all, PushFrame(st, ev.tag.name), ev.chain)
<1> DEFINE n == Len(evs)
           m == Len(o)
           name == ev.tag.name
           pf == PushFrame(st, name)
<1>1. /\ n \in Nat /\ Len(all) = n + 1 /\ all[n + 1] = ev /\ \A i \in 1..n : all[i] = evs[i]
      /\ o \in Seq(1..n) /\ st \in Seq(Frame) /\ Len(st) = m /\ m \in Nat
  BY DEF Grows, Lineage, FramesOK
<1>2. /\ Len(ev.chain) = m + 1 /\ ev.chain[m + 1] = n + 1
      /\ \A i \in 1..m : ev.chain[i] = o[i] /\ o[i] \in 1..n /\ all[o[i]] = evs[o[i]]
  <2>1. \A i \in 1..m : o[i] \in 1..n  BY <1>1
  <2>2. /\ Len(Append(o, n + 1)) = m + 1 /\ Append(o, n + 1)[m + 1] = n + 1
        /\ \A i \in 1..m : Append(o, n + 1)[i] = o[i]
    BY <1>1
  <2>3. QED  BY <1>1, <2>1, <2>2
<1>3. /\ pf \in Seq(Frame) /\ Len(pf) = m + 1
      /\ pf[m + 1] = [name |-> name, children |-> NoChildren]
      /\ \A i \in 1..m - 1 : pf[i] = st[i]
      /\ m > 0 => /\ pf[m].name = st[m].name
                  /\ pf[m].children = Bump(st[m].children, name)
  <2>1. m > 0 => st # <<>>  BY <1>1
  <2>2. st \in Seq(Frame) /\ name \in TagNames /\ pf = PushFrame(st, name)  BY <1>1
  <2>3. m = Len(st)  BY <1>1
  <2> HIDE DEF m, name, pf
  <2>4. QED  BY <2>1, <2>2, <2>3, PushIs
<1> HIDE DEF pf
<1>4. \A i \in 1..m - 1 : o[i] # o[m]
  <2>1. \A i \in 1..m : Len(evs[o[i]].chain) = i  BY DEF Lineage
  <2>2. \A i \in 1..m - 1 : i \in 1..m /\ m \in 1..m /\ i # m  BY <1>1
  <2>3. QED  BY <2>1, <2>2
<1>5. \A p, nm : IsKid(ev, p, nm) <=> m > 0 /\ p = o[m] /\ nm = name
  <2>1. Len(ev.chain) > 1 <=> m > 0  BY <1>1, <1>2
  <2>2. m > 0 => ev.chain[Len(ev.chain) - 1] = o[m]
    <3>1. Len(ev.chain) - 1 = m  BY <1>1, <1>2
    <3>2. m > 0 => m \in 1..m  BY <1>1
    <3>3. QED  BY <1>2, <3>1, <3>2
  <2>3. QED  BY <2>1, <2>2 DEF IsKid
<1>6. ASSUME NEW i \in 1..m - 1, NEW nm  PROVE Kids(all, o[i], nm) = Kids(evs, o[i], nm)
  BY <1>4, <1>5, KidsStay
<1>7. ASSUME m > 0, NEW nm \in TagNames
      PROVE  Count(pf[m].children, nm) = Cardinality(Kids(all, o[m], nm))
  <2>1. m \in 1..m  BY <1>1, <1>7
  <2>2. Count(st[m].children, nm) = Cardinality(Kids(evs, o[m], nm))
    BY <1>7, <2>1 DEF FramesOK
  <2>3. Count(pf[m].children, nm)
          = IF nm = name THEN Count(st[m].children, name) + 1 ELSE Count(st[m].children, nm)
    BY <1>3, <1>7, CountBump
  <2>4. CASE nm = name
    <3>1. IsKid(ev, o[m], nm)  BY <1>5, <1>7, <2>4
    <3>2. Kids(all, o[m], nm) = Kids(evs, o[m], nm) \cup {n + 1}  BY <3>1, KidsGrow
    <3>3. Kids(evs, o[m], nm) \subseteq 1..n /\ IsFiniteSet(Kids(evs, o[m], nm))
      BY <1>1, KidsAreFinite
    <3>4. n + 1 \notin Kids(evs, o[m], nm)  BY <1>1, <3>3
    <3>5. Cardinality(Kids(all, o[m], nm)) = Cardinality(Kids(evs, o[m], nm)) + 1
      BY <3>2, <3>3, <3>4, FS_AddElement
    <3>6. QED  BY <2>2, <2>3, <2>4, <3>5
  <2>5. CASE nm # name
    <3>1. Kids(all, o[m], nm) = Kids(evs, o[m], nm)  BY <1>5, <2>5, KidsStay
    <3>2. QED  BY <2>2, <2>3, <2>5, <3>1
  <2>6. QED  BY <2>4, <2>5
<1>8. ASSUME NEW nm \in TagNames
      PROVE  Kids(all, n + 1, nm) = {} /\ Count(pf[m + 1].children, nm) = 0
  <2>1. m > 0 => o[m] # n + 1
    <3>1. m > 0 => m \in 1..m  BY <1>1
    <3>2. QED  BY <1>1, <1>2, <3>1
  <2>2. ~IsKid(ev, n + 1, nm)  BY <1>5, <2>1
  <2>3. Kids(all, n + 1, nm) = Kids(evs, n + 1, nm)  BY <2>2, KidsStay
  <2>4. QED  BY <1>3, <2>3, NoneBefore, NoneCounted
<1>9. \A i \in 1..m + 1 : i \in 1..m - 1 \/ (i = m /\ m > 0) \/ i = m + 1  BY <1>1
<1>10. ASSUME NEW i \in 1..m + 1
       PROVE  /\ pf[i].name = all[ev.chain[i]].tag.name
              /\ \A nm \in TagNames :
                   Count(pf[i].children, nm) = Cardinality(Kids(all, ev.chain[i], nm))
  <2>1. CASE i \in 1..m - 1
    <3>1. i \in 1..m  BY <1>1, <2>1
    <3>2. pf[i] = st[i] /\ ev.chain[i] = o[i] /\ all[o[i]] = evs[o[i]]  BY <1>2, <1>3, <2>1, <3>1
    <3>3. QED  BY <1>6, <2>1, <3>1, <3>2 DEF FramesOK
  <2>2. CASE i = m /\ m > 0
    <3>1. i \in 1..m  BY <1>1, <2>2
    <3>2. ev.chain[i] = o[m] /\ all[o[m]] = evs[o[m]]  BY <1>2, <2>2, <3>1
    <3>3. pf[i].name = evs[o[m]].tag.name  BY <1>3, <2>2, <3>1 DEF FramesOK
    <3>4. QED  BY <1>7, <2>2, <3>2, <3>3
  <2>3. CASE i = m + 1
    <3>1. ev.chain[i] = n + 1 /\ all[n + 1] = ev /\ pf[i].name = name  BY <1>1, <1>2, <1>3, <2>3
    <3>2. \A nm \in TagNames : Count(pf[i].children, nm) = 0 /\ Kids(all, n + 1, nm) = {}
      BY <1>8, <2>3
    <3>3. QED  BY <3>1, <3>2, FS_EmptySet
  <2>4. QED  BY <1>9, <2>1, <2>2, <2>3
<1>11. ASSUME NEW i \in 2..m + 1, NEW nm \in TagNames, NEW s \in Kids(all, ev.chain[i - 1], nm)
       PROVE  s <= ev.chain[i]
  <2>1. CASE i = m + 1
    <3>1. s \in 1..n + 1  BY <1>1, <1>11 DEF Kids
    <3>2. QED  BY <1>1, <1>2, <2>1, <3>1
  <2>2. CASE i # m + 1
    <3>1. i \in 2..m /\ i - 1 \in 1..m - 1 /\ i - 1 \in 1..m /\ i \in 1..m  BY <1>1, <2>2
    <3>2. ev.chain[i - 1] = o[i - 1] /\ ev.chain[i] = o[i]  BY <1>2, <3>1
    <3>3. s \in Kids(evs, o[i - 1], nm)  BY <1>6, <1>11, <3>1, <3>2
    <3>4. QED  BY <3>1, <3>2, <3>3 DEF FramesOK
  <2>3. QED  BY <2>1, <2>2
<1> HIDE DEF n, m
<1>12. QED  BY <1>2, <1>3, <1>10, <1>11 DEF FramesOK, pf

-----------------------------------------------------------------------------
(* The steps.                                                               *)

LEMMA OpenIs ==
  ASSUME EventsOK(events)
  PROVE  /\ Lineage(events, Open, Len(events)) /\ Len(Open) \in Nat
         /\ (Open # <<>> <=> Len(Open) > 0)
         /\ Open # <<>> => /\ Len(events) \in 1..Len(events)
                           /\ Len(events[Len(events)].chain) > 0
                           /\ events[Len(events)].chain[1] = Open[1]
<1> DEFINE n == Len(events)  ch == events[n].chain
<1>1. events \in Seq(Event) /\ n \in Nat  BY DEF EventsOK
<1>2. CASE events = <<>>
  <2>1. Open = <<>> /\ n = 0  BY <1>2 DEF Open
  <2>2. QED  BY <2>1 DEF Lineage
<1>3. CASE events # <<>>
  <2>1. n \in 1..n /\ Last(events) = events[n]  BY <1>1, <1>3 DEF Last
  <2>2. Lineage(events, ch, n)  BY <2>1 DEF EventsOK
  <2>3. ch \in Seq(1..n)  BY <2>2 DEF Lineage
  <2>4. events[n].kind = "End" => ch # <<>>
    <3>1. events[n].kind = "End" => Len(ch) > 0  BY <2>1 DEF EventsOK, Named
    <3>2. QED  BY <2>3, <3>1
  <2>5. Open = IF events[n].kind = "End" THEN Front(ch) ELSE ch  BY <1>3, <2>1 DEF Open
  <2> HIDE DEF ch, n
  <2>6. CASE events[n].kind = "End"
    <3>1. /\ Front(ch) \in Seq(1..n) /\ Len(Front(ch)) = Len(ch) - 1 /\ Len(ch) \in Nat \ {0}
          /\ \A i \in 1..Len(ch) - 1 : Front(ch)[i] = ch[i]
      BY <2>3, <2>4, <2>6, FrontIs
    <3>2. \A i \in 1..Len(Front(ch)) : i \in 1..Len(ch) /\ i \in 1..Len(ch) - 1
                                 /\ \A j \in 1..i : j \in 1..Len(ch) - 1
      BY <3>1
    <3>3. Lineage(events, Front(ch), n)  BY <2>2, <3>1, <3>2 DEF Lineage
    <3>4. Front(ch) # <<>> <=> Len(Front(ch)) > 0  BY <3>1
    <3>5. Front(ch) # <<>> => Front(ch)[1] = ch[1] /\ Len(ch) > 0
      <4>1. Front(ch) # <<>> => 1 \in 1..Len(ch) - 1  BY <3>1, <3>4
      <4>2. QED  BY <3>1, <4>1
    <3>6. Open = Front(ch) /\ Len(Front(ch)) \in Nat  BY <2>5, <2>6, <3>1
    <3>7. QED  BY <2>1, <3>3, <3>4, <3>5, <3>6 DEF ch, n
  <2>7. CASE events[n].kind # "End"
    <3>1. Open = ch  BY <2>5, <2>7
    <3>2. Len(ch) \in Nat /\ (ch # <<>> <=> Len(ch) > 0)  BY <2>3
    <3>3. QED  BY <2>1, <2>2, <3>1, <3>2 DEF ch, n
  <2>8. QED  BY <2>6, <2>7
<1>4. QED  BY <1>2, <1>3

LEMMA OpenNext ==
  ASSUME NEW ev \in Event, events \in Seq(Event), events' = Append(events, ev)
  PROVE  Open' = IF ev.kind = "End" THEN Front(ev.chain) ELSE ev.chain
<1>1. events' # <<>> /\ events'[Len(events')] = ev  OBVIOUS
<1>2. Last(events') = ev  BY <1>1 DEF Last
<1>3. QED  BY <1>1, <1>2 DEF Open

LEMMA PathType ==
  ASSUME NEW st \in Seq(Frame)  PROVE current_path(st) \in Seq(TagNames \X Nat)
<1>1. Len(st) \in Nat /\ DOMAIN st = 1..Len(st) /\ \A i \in 1..Len(st) : st[i] \in Frame
  OBVIOUS
<1>2. \A i \in 1..Len(st) : current_path(st)[i] \in TagNames \X Nat
  <2>1. ASSUME NEW i \in 1..Len(st)  PROVE current_path(st)[i] \in TagNames \X Nat
    <3> DEFINE c == IF i = 1 THEN 0 ELSE Count(st[i - 1].children, st[i].name)
    <3>1. st[i].name \in TagNames  BY <1>1 DEF Frame
    <3>2. c \in Nat
      <4>1. i # 1 => i - 1 \in 1..Len(st)  BY <1>1
      <4>2. i # 1 => st[i - 1].children \in Counters  BY <1>1, <4>1 DEF Frame
      <4>3. QED  BY <3>1, <4>2, CounterTypes
    <3>3. current_path(st)[i] = <<st[i].name, IF c >= 2 THEN c ELSE 0>>
      BY <1>1 DEF current_path
    <3> HIDE DEF c
    <3>4. QED  BY <3>1, <3>2, <3>3
  <2>2. QED  BY <2>1
<1>3. current_path(st) = [i \in 1..Len(st) |-> current_path(st)[i]]  BY <1>1 DEF current_path
<1>4. QED  BY <1>1, <1>2, <1>3

LEMMA PathLength ==
  ASSUME NEW evs, NEW o, Len(o) \in Nat  PROVE Len(PathOf(evs, o)) = Len(o)
BY DEF PathOf

LEMMA StartKeeps ==
  ASSUME PlacesInv, NEW tag \in Tags, Start(tag)
  PROVE  PlacesInv'
<1> DEFINE n == Len(events)
           ev == [kind |-> "Start", tag |-> tag, chain |-> Append(Open, n + 1)]
           it == [kind |-> "Start", path |-> current_path(stack'), depth |-> Len(stack')]
<1>1. /\ events' = Append(events, ev) /\ ~done /\ done' = done
      /\ stack' = PushFrame(stack, tag.name) /\ items' = Append(items, it)
      /\ Open = <<>> => Starts = {}
  BY DEF Start, IterStart, Happens, Yield
<1>2. /\ EventsOK(events) /\ events \in Seq(Event) /\ n \in Nat
      /\ Lineage(events, Open, n) /\ Open \in Seq(1..n)
  <2>1. EventsOK(events) /\ Lineage(events, Open, n)  BY DEF PlacesInv
  <2>2. events \in Seq(Event)  BY <2>1 DEF EventsOK
  <2>3. Open \in Seq(1..n)  BY <2>1 DEF Lineage
  <2>4. QED  BY <2>1, <2>2, <2>3
<1>3. ev \in Event /\ ev.kind = "Start" /\ ev.tag = tag /\ ev.chain = Append(Open, n + 1)
  <2>1. Open \in Seq(Nat)  BY <1>2, Wider
  <2>2. Append(Open, n + 1) \in Seq(Nat)  BY <1>2, <2>1
  <2>3. QED  BY <2>2 DEF Event
<1> HIDE DEF ev
<1>4. Grows(events, events', ev)  BY <1>1, <1>2, <1>3, AppendGrows
<1>5. Lineage(events', ev.chain, n + 1)  BY <1>2, <1>3, <1>4, LineageExtends
<1>6. /\ Len(ev.chain) = Len(Open) + 1 /\ Len(Open) \in Nat /\ ev.chain[Len(Open) + 1] = n + 1
      /\ \A i \in 1..Len(Open) : ev.chain[i] = Open[i]
  BY <1>2, <1>3
<1>7. ASSUME NEW k \in 1..n, Len(events[k].chain) > 0
      PROVE  events[k].chain[1] = ev.chain[1]
  <2>1. Lineage(events, events[k].chain, k)  BY <1>2 DEF EventsOK
  <2>2. events[k].chain \in Seq(1..k)  BY <2>1 DEF Lineage
  <2>3. 1 \in 1..Len(events[k].chain)  BY <1>7, <2>2
  <2>4. events[k].chain[1] \in 1..k /\ events[events[k].chain[1]].kind = "Start"
    BY <2>1, <2>2, <2>3, ElementOfSeq DEF Lineage
  <2>5. DOMAIN events = 1..n /\ 1..k \subseteq 1..n  BY <1>2
  <2>6. events[k].chain[1] \in Starts  BY <2>4, <2>5 DEF Starts
  <2>7. Open # <<>>  BY <1>1, <2>6
  <2>8. n \in 1..n /\ Len(events[n].chain) > 0 /\ events[n].chain[1] = Open[1] /\ Len(Open) > 0
    BY <1>2, <2>7, OpenIs
  <2>9. events[k].chain[1] = events[n].chain[1]  BY <1>2, <1>7, <2>8 DEF EventsOK, OneRoot
  <2>10. ev.chain[1] = Open[1]  BY <1>6, <2>8
  <2>11. QED  BY <2>8, <2>9, <2>10
<1>8. EventsOK(events')
  <2>1. Len(ev.chain) > 0 /\ ev.chain[Len(ev.chain)] = n + 1  BY <1>6
  <2>2. QED  BY <1>2, <1>4, <1>5, <1>7, <2>1, EventsStay
<1>9. Open' = ev.chain  BY <1>1, <1>2, <1>3, OpenNext
<1>10. FramesOK(events', stack', Open')
  <2>1. tag.name \in TagNames  BY DEF TagNames
  <2>2. FramesOK(events, stack, Open)  BY DEF PlacesInv
  <2>3. QED  BY <1>1, <1>2, <1>3, <1>4, <1>9, <2>1, <2>2, FramesPush
<1>11. Len(events') = n + 1  BY <1>4 DEF Grows
<1>12. current_path(stack') = PathOf(events', Open')
  <2>1. events' \in Seq(Event)  BY <1>4 DEF Grows
  <2>2. QED  BY <1>5, <1>9, <1>10, <1>11, <2>1, PathIsAsked
<1>13. it \in Item /\ it.path = PathOf(events', ev.chain) /\ it.depth = Len(ev.chain)
  <2>1. stack' \in Seq(Frame) /\ Len(stack') = Len(Open')  BY <1>10 DEF FramesOK
  <2>2. current_path(stack') \in Seq(TagNames \X Nat)  BY <2>1, PathType
  <2>3. Len(stack') \in Nat  BY <2>1
  <2>4. QED  BY <1>9, <1>12, <2>1, <2>2, <2>3 DEF Item
<1> HIDE DEF it
<1>14. ItemsOK(events', items') /\ Len(items') = Told(events', Len(events'))
  <2>1. ItemsOK(events, items) /\ Len(items) = Told(events, n)  BY <1>1 DEF PlacesInv
  <2>2. /\ ev.kind # "EntityRef" => items' = Append(items, it)
        /\ ev.kind = "EntityRef" => items' = items
    BY <1>1, <1>3
  <2>3. QED  BY <1>2, <1>4, <1>13, <2>1, <2>2, ItemsStay
<1>15. QED  BY <1>5, <1>8, <1>9, <1>10, <1>11, <1>14 DEF PlacesInv

(* What an end tag and the events inside an element have in common.         *)
LEMMA InsideKeeps ==
  ASSUME EventsOK(events), Lineage(events, Open, Len(events)), FramesOK(events, stack, Open),
         NEW ev \in Event, events' = Append(events, ev), ev.kind # "Start", ev.chain = Open,
         Named(ev) => Open # <<>>
  PROVE  /\ Grows(events, events', ev) /\ Len(events') = Len(events) + 1
         /\ EventsOK(events') /\ Lineage(events', Open, Len(events'))
         /\ FramesOK(events', stack, Open) /\ current_path(stack) = PathOf(events', Open)
<1> DEFINE n == Len(events)
<1>1. events \in Seq(Event) /\ n \in Nat  BY DEF EventsOK
<1>2. Grows(events, events', ev) /\ Len(events') = n + 1  BY <1>1, AppendGrows DEF Grows
<1>3. Lineage(events', Open, n + 1)
  <2>1. n \in 1..n \cup {0} /\ n <= n + 1 /\ n + 1 \in Nat  BY <1>1
  <2>2. QED  BY <1>2, <2>1, LineageStays
<1>4. FramesOK(events', stack, Open)  BY <1>2, FramesStay
<1>5. ASSUME NEW k \in 1..n, Len(ev.chain) > 0, Len(events[k].chain) > 0
      PROVE  events[k].chain[1] = ev.chain[1]
  <2>1. n \in 1..n /\ Len(events[n].chain) > 0 /\ events[n].chain[1] = Open[1]
    BY <1>5, OpenIs
  <2>2. OneRoot(events)  BY DEF EventsOK
  <2>3. QED  BY <1>5, <2>1, <2>2 DEF OneRoot
<1>6. Named(ev) => Len(ev.chain) > 0  BY OpenIs
<1>7. EventsOK(events')
  <2>1. Lineage(events', ev.chain, n + 1)  BY <1>3
  <2>2. QED  BY <1>2, <1>5, <1>6, <2>1, EventsStay
<1>8. current_path(stack) = PathOf(events', Open)
  <2>1. events' \in Seq(Event)  BY <1>2 DEF Grows
  <2>2. Lineage(events', Open, Len(events'))  BY <1>2, <1>3
  <2>3. QED  BY <1>4, <2>1, <2>2, PathIsAsked
<1>9. QED  BY <1>2, <1>3, <1>4, <1>7, <1>8

LEMMA NoTagEvent ==
  ASSUME EventsOK(events), Lineage(events, Open, Len(events)), NEW kind \in {"End"} \cup Leaves
  PROVE  [kind |-> kind, tag |-> NoTag, chain |-> Open] \in Event
<1>1. Open \in Seq(1..Len(events)) /\ Len(events) \in Nat  BY DEF Lineage, EventsOK
<1>2. Open \in Seq(Nat)  BY <1>1, Wider
<1>3. QED  BY <1>2 DEF Event

LEMMA EndKeeps ==
  ASSUME PlacesInv, End
  PROVE  PlacesInv'
<1> DEFINE n == Len(events)
           ev == [kind |-> "End", tag |-> NoTag, chain |-> Open]
           it == [kind |-> "End", path |-> current_path(stack), depth |-> Len(stack)]
<1>1. /\ events' = Append(events, ev) /\ ~done /\ done' = done /\ Open # <<>>
      /\ stack' = Front(stack) /\ items' = Append(items, it)
  BY DEF End, IterEnd, Happens, Yield
<1>2. /\ EventsOK(events) /\ events \in Seq(Event) /\ Lineage(events, Open, n)
      /\ FramesOK(events, stack, Open)
  BY DEF PlacesInv, EventsOK
<1>3. ev \in Event /\ ev.kind = "End" /\ ev.chain = Open  BY <1>2, NoTagEvent
<1> HIDE DEF ev
<1>4. /\ Grows(events, events', ev) /\ Len(events') = n + 1
      /\ EventsOK(events') /\ Lineage(events', Open, Len(events'))
      /\ FramesOK(events', stack, Open) /\ current_path(stack) = PathOf(events', Open)
  BY <1>1, <1>2, <1>3, InsideKeeps
<1>5. Open' = Front(Open)  BY <1>1, <1>2, <1>3, OpenNext
<1>6. Lineage(events', Open', Len(events')) /\ FramesOK(events', stack', Open')
  BY <1>1, <1>4, <1>5, FramesPop
<1>7. it \in Item /\ it.path = PathOf(events', ev.chain) /\ it.depth = Len(ev.chain)
  <2>1. stack \in Seq(Frame) /\ Len(stack) = Len(Open)  BY <1>2 DEF FramesOK
  <2>2. current_path(stack) \in Seq(TagNames \X Nat)  BY <2>1, PathType
  <2>3. Len(stack) \in Nat  BY <2>1
  <2>4. QED  BY <1>3, <1>4, <2>1, <2>2, <2>3 DEF Item
<1> HIDE DEF it
<1>8. ItemsOK(events', items') /\ Len(items') = Told(events', Len(events'))
  <2>1. ItemsOK(events, items) /\ Len(items) = Told(events, n)  BY <1>1 DEF PlacesInv
  <2>2. /\ ev.kind # "EntityRef" => items' = Append(items, it)
        /\ ev.kind = "EntityRef" => items' = items
    BY <1>1, <1>3
  <2>3. QED  BY <1>2, <1>4, <1>7, <2>1, <2>2, ItemsStay
<1>9. QED  BY <1>4, <1>6, <1>8 DEF PlacesInv

LEMMA LeafKeeps ==
  ASSUME PlacesInv, NEW kind \in Leaves, Leaf(kind)
  PROVE  PlacesInv'
<1> DEFINE n == Len(events)
           ev == [kind |-> kind, tag |-> NoTag, chain |-> Open]
           shown == IF kind \in {"Text", "CData"} THEN stack ELSE <<>>
           it == [kind |-> IF kind = "EntityRef" THEN "Text" ELSE kind,
                  path |-> current_path(shown), depth |-> Len(stack)]
<1>1. kind \in {"Text", "CData", "Comment", "Pi", "EntityRef"}  BY ConsumersAssumption
<1>2. /\ events' = Append(events, ev) /\ ~done /\ done' = done /\ stack' = stack
      /\ Open = <<>> => kind \in {"Comment", "Pi"}
      /\ kind = "EntityRef" => items' = items
      /\ kind # "EntityRef" => items' = Append(items, it)
  BY <1>1 DEF Leaf, IterLeaf, Happens, Yield
<1>3. /\ EventsOK(events) /\ events \in Seq(Event) /\ Lineage(events, Open, n)
      /\ FramesOK(events, stack, Open)
  BY DEF PlacesInv, EventsOK
<1>4. ev \in Event /\ ev.kind = kind /\ ev.chain = Open  BY <1>3, NoTagEvent
<1> HIDE DEF ev
<1>5. /\ Grows(events, events', ev) /\ Len(events') = n + 1
      /\ EventsOK(events') /\ Lineage(events', Open, Len(events'))
      /\ FramesOK(events', stack, Open) /\ current_path(stack) = PathOf(events', Open)
  <2>1. ev.kind # "Start" /\ (Named(ev) => Open # <<>>)  BY <1>1, <1>2, <1>4 DEF Named
  <2>2. QED  BY <1>2, <1>3, <1>4, <2>1, InsideKeeps
<1>6. Open' = Open
  <2>1. ev.kind # "End"  BY <1>1, <1>4
  <2>2. QED  BY <1>2, <1>3, <1>4, <2>1, OpenNext
<1>7. it \in Item /\ (Named(ev) => it.path = PathOf(events', ev.chain) /\ it.depth = Len(ev.chain))
  <2>1. stack \in Seq(Frame) /\ Len(stack) = Len(Open)  BY <1>3 DEF FramesOK
  <2>2. shown \in Seq(Frame)  BY <2>1
  <2>3. Named(ev) => shown = stack  BY <1>1, <1>4 DEF Named
  <2> HIDE DEF shown
  <2>4. current_path(shown) \in Seq(TagNames \X Nat)  BY <2>2, PathType
  <2>5. Len(stack) \in Nat  BY <2>1
  <2>6. QED  BY <1>1, <1>4, <1>5, <2>1, <2>3, <2>4, <2>5 DEF Item
<1> HIDE DEF it
<1>8. ItemsOK(events', items') /\ Len(items') = Told(events', Len(events'))
  <2>1. ItemsOK(events, items) /\ Len(items) = Told(events, n)  BY <1>2 DEF PlacesInv
  <2>2. /\ ev.kind # "EntityRef" => items' = Append(items, it)
        /\ ev.kind = "EntityRef" => items' = items
    BY <1>2, <1>4
  <2>3. QED  BY <1>3, <1>5, <1>7, <2>1, <2>2, ItemsStay
<1>9. QED  BY <1>2, <1>5, <1>6, <1>8 DEF PlacesInv

LEMMA InitPlaces ==
  ASSUME Init  PROVE PlacesInv
<1>1. events = <<>> /\ stack = <<>> /\ items = <<>> /\ Open = <<>>
  BY DEF Init, IterInit, Open
<1>2. EventsOK(events) /\ Lineage(events, Open, Len(events))
  BY <1>1 DEF EventsOK, Lineage, OneRoot
<1>3. FramesOK(events, stack, Open) /\ ItemsOK(events, items)
  BY <1>1 DEF FramesOK, ItemsOK
<1>4. Told(events, Len(events)) = 0
  <2>1. {j \in 1..0 : events[j].kind # "EntityRef"} = {}  OBVIOUS
  <2>2. QED  BY <1>1, <2>1, FS_EmptySet DEF Told
<1>5. QED  BY <1>1, <1>2, <1>3, <1>4 DEF PlacesInv

(* The last item, if the input ends in an error, is no event's.             *)
LEMMA StopsKeep ==
  ASSUME PlacesInv, events' = events, stack' = stack,
         \/ done' = done /\ items' = items
         \/ done' /\ items' = items
         \/ done' /\ items' = Append(items, [kind |-> "Err", path |-> <<>>, depth |-> Len(stack)])
  PROVE  PlacesInv'
<1>1. Open' = Open  BY DEF Open
<1>2. ItemsOK(events, items')
  <2>1. CASE items' = items  BY <2>1 DEF PlacesInv
  <2>2. CASE items' = Append(items, [kind |-> "Err", path |-> <<>>, depth |-> Len(stack)])
    <3> DEFINE it == [kind |-> "Err", path |-> <<>>, depth |-> Len(stack)]
    <3>1. ItemsOK(events, items) /\ items \in Seq(Item)  BY DEF PlacesInv, ItemsOK
    <3>2. stack \in Seq(Frame)  BY DEF PlacesInv, FramesOK
    <3>3. Len(stack) \in Nat  BY <3>2
    <3>4. it \in Item  BY <3>3 DEF Item
    <3>5. items' = Append(items, it)  BY <2>2
    <3> HIDE DEF it
    <3>6. /\ items' \in Seq(Item) /\ Len(items') = Len(items) + 1 /\ Len(items) \in Nat
          /\ \A i \in 1..Len(items) : items'[i] = items[i]
      BY <3>1, <3>4, <3>5
    <3>7. \A i \in 1..Len(items) : i \in 1..Len(items')  BY <3>6
    <3>8. QED  BY <3>1, <3>6, <3>7 DEF ItemsOK
  <2>3. QED  BY <2>1, <2>2
<1>3. QED  BY <1>1, <1>2 DEF PlacesInv

LEMMA PlacesInvariant == Spec => []PlacesInv
<1>1. Init => PlacesInv  BY InitPlaces
<1>2. PlacesInv /\ [Next]_vars => PlacesInv'
  <2> SUFFICES ASSUME PlacesInv, [Next]_vars  PROVE PlacesInv'
    OBVIOUS
  <2>1. ASSUME NEW tag \in Tags, Start(tag)  PROVE PlacesInv'  BY <2>1, StartKeeps
  <2>2. CASE End  BY <2>2, EndKeeps
  <2>3. ASSUME NEW kind \in Leaves, Leaf(kind)  PROVE PlacesInv'  BY <2>3, LeafKeeps
  <2>4. CASE Eof  BY <2>4, StopsKeep DEF Eof, IterStop
  <2>5. CASE Malformed  BY <2>5, StopsKeep DEF Malformed, IterFail
  <2>6. CASE UNCHANGED vars  BY <2>6, StopsKeep DEF vars, iterVars
  <2>7. QED  BY <2>1, <2>2, <2>3, <2>4, <2>5, <2>6 DEF Next
<1>3. QED  BY <1>1, <1>2, PTL DEF Spec

-----------------------------------------------------------------------------
(* A path names one element.                                                *)

(* Two children of one element with one name are counted apart.             *)
LEMMA CountedApart ==
  ASSUME NEW evs, Len(evs) \in Nat, NEW p, NEW nm,
         NEW d \in Kids(evs, p, nm), NEW e \in Kids(evs, p, nm),
         Printed(Cardinality(Elder(evs, d))) = Printed(Cardinality(Elder(evs, e)))
  PROVE  d = e
<1> DEFINE U(x) == {s \in Kids(evs, p, nm) : s <= x}
<1>1. \A x \in Kids(evs, p, nm) : Elder(evs, x) = U(x) /\ x \in 1..Len(evs)
  BY DEF Elder, Kids
<1>2. IsFiniteSet(Kids(evs, p, nm))  BY KidsAreFinite
<1>3. \A x : IsFiniteSet(U(x)) /\ Cardinality(U(x)) \in Nat
  BY <1>2, FS_Subset, FS_CardinalityType
<1>4. ASSUME NEW x \in Kids(evs, p, nm), NEW y \in Kids(evs, p, nm), x < y
      PROVE  Cardinality(U(x)) < Cardinality(U(y))
  <2>1. x \in Nat /\ y \in Nat  BY <1>1
  <2>2. y \notin U(x) /\ y \in U(y)  BY <1>4, <2>1
  <2>3. U(x) \subseteq U(y)
    <3>1. \A s \in Kids(evs, p, nm) : s \in Nat  BY <1>1
    <3>2. ASSUME NEW s \in U(x)  PROVE s \in U(y)
      <4>1. s \in Kids(evs, p, nm) /\ s <= x /\ s \in Nat  BY <3>1
      <4>2. s <= y  BY <1>4, <2>1, <4>1
      <4>3. QED  BY <4>1, <4>2
    <3>3. QED  BY <3>2
  <2> HIDE DEF U
  <2>4. Cardinality(U(x)) <= Cardinality(U(y)) /\ (Cardinality(U(x)) = Cardinality(U(y)) => U(x) = U(y))
    BY <1>3, <2>3, FS_Subset
  <2>5. QED  BY <1>3, <2>2, <2>4
<1>5. \A x \in Kids(evs, p, nm) : Cardinality(U(x)) > 0
  <2>1. ASSUME NEW x \in Kids(evs, p, nm)  PROVE Cardinality(U(x)) > 0
    <3>1. x \in Nat  BY <1>1
    <3>2. x \in U(x)  BY <3>1
    <3> HIDE DEF U
    <3>3. Cardinality(U(x)) # 0  BY <1>3, <3>2, FS_EmptySet
    <3>4. QED  BY <1>3, <3>3
  <2>2. QED  BY <2>1
<1> HIDE DEF U
<1>6. Cardinality(U(d)) = Cardinality(U(e))
  <2>1. Printed(Cardinality(U(d))) = Printed(Cardinality(U(e)))  BY <1>1
  <2>2. QED  BY <1>3, <1>5, <2>1 DEF Printed
<1>7. d \in Nat /\ e \in Nat  BY <1>1
<1>8. ~(d < e) /\ ~(e < d)  BY <1>3, <1>4, <1>6
<1>9. QED  BY <1>7, <1>8

LEMMA PathsAreApart ==
  ASSUME NEW evs, EventsOK(evs), NEW j \in 1..Len(evs), NEW k \in 1..Len(evs),
         Len(evs[j].chain) > 0, Len(evs[k].chain) > 0,
         PathOf(evs, evs[j].chain) = PathOf(evs, evs[k].chain)
  PROVE  evs[j].chain = evs[k].chain
<1> DEFINE c == evs[j].chain  d == evs[k].chain  n == Len(c)
<1>1. /\ Lineage(evs, c, j) /\ Lineage(evs, d, k) /\ c \in Seq(1..j) /\ d \in Seq(1..k)
      /\ Len(evs) \in Nat
  <2>1. Lineage(evs, c, j) /\ Lineage(evs, d, k)  BY DEF EventsOK
  <2>2. evs \in Seq(Event)  BY DEF EventsOK
  <2>3. QED  BY <2>1, <2>2 DEF Lineage
<1>2. n \in Nat /\ Len(d) = n
  <2>1. n \in Nat /\ Len(d) \in Nat  BY <1>1
  <2>2. Len(PathOf(evs, c)) = n /\ Len(PathOf(evs, d)) = Len(d)  BY <2>1, PathLength
  <2>3. QED  BY <2>1, <2>2
<1>3. c[1] = d[1]  BY DEF EventsOK, OneRoot
<1> DEFINE S == {i \in 1..n : c[i] = d[i]}
<1>4. ASSUME NEW i \in 2..n, i - 1 \in S  PROVE i \in S
  <2>1. i \in 1..n /\ i - 1 \in 1..n /\ i # 1 /\ i > 1 /\ i - 1 \in 1..i  BY <1>2
  <2>2. PathOf(evs, c)[i] = PathOf(evs, d)[i]  OBVIOUS
  <2>3. /\ evs[c[i]].tag.name = evs[d[i]].tag.name
        /\ Printed(Cardinality(Elder(evs, c[i]))) = Printed(Cardinality(Elder(evs, d[i])))
    BY <1>2, <2>1, <2>2 DEF PathOf
  <2>4. c[i] \in 1..j /\ d[i] \in 1..k  BY <1>1, <1>2, <2>1, ElementOfSeq
  <2>5. c[i] \in 1..Len(evs) /\ d[i] \in 1..Len(evs)
    <3> PICK x, y : x = c[i] /\ y = d[i]  OBVIOUS
    <3> HIDE DEF c, d
    <3>1. x \in 1..j /\ y \in 1..k  BY <2>4
    <3>2. Len(evs) \in Nat  BY <1>1
    <3>3. x \in 1..Len(evs) /\ y \in 1..Len(evs)  BY <3>1, <3>2
    <3>4. QED  BY <3>3
  <2>6. /\ evs[c[i]].kind = "Start" /\ Len(evs[c[i]].chain) = i /\ Parent(evs, c[i]) = c[i - 1]
        /\ evs[d[i]].kind = "Start" /\ Len(evs[d[i]].chain) = i /\ Parent(evs, d[i]) = d[i - 1]
    <3> i \in 1..Len(d)  BY <1>2, <2>1
    <3>1. Len(evs[c[i]].chain) = i /\ Len(evs[d[i]].chain) = i  BY <1>1, <2>1 DEF Lineage
    <3>2. evs[c[i]].kind = "Start" /\ evs[d[i]].kind = "Start"  BY <1>1, <2>1 DEF Lineage
    <3>3. evs[c[i]].chain[i - 1] = c[i - 1]  BY <1>1, <2>1 DEF Lineage
    <3>4. evs[d[i]].chain[i - 1] = d[i - 1]
      <4>1. i \in 1..Len(d)  BY <1>2, <2>1
      <4>2. QED  BY <1>1, <2>1, <4>1 DEF Lineage
    <3> HIDE DEF c, d
    <3>5. QED  BY <3>1, <3>2, <3>3, <3>4 DEF Parent
  <2>7. c[i - 1] = d[i - 1]  BY <1>4
  <2> DEFINE nm == evs[c[i]].tag.name
  <2>8. c[i] \in Kids(evs, c[i - 1], nm) /\ d[i] \in Kids(evs, c[i - 1], nm)
    BY <2>1, <2>3, <2>5, <2>6, <2>7 DEF Kids
  <2>9. c[i] = d[i]  BY <1>1, <2>3, <2>8, CountedApart
  <2>10. QED  BY <2>1, <2>9
<1>5. S = 1..n
  <2>1. S \in SUBSET (1..n) /\ (n > 0 => 1 \in S)  BY <1>2, <1>3
  <2> HIDE DEF S, n
  <2>2. QED  BY <1>2, <1>4, <2>1, LeastFalse
<1>6. \A i \in 1..n : c[i] = d[i]  BY <1>5
<1> HIDE DEF c, d
<1>7. c = d
  <2>1. c \in Seq(Nat) /\ d \in Seq(Nat)
    <3>1. 1..j \subseteq Nat /\ 1..k \subseteq Nat  OBVIOUS
    <3>2. QED  BY <1>1, <3>1, Wider
  <2>2. Len(c) = Len(d) /\ \A i \in 1..Len(c) : c[i] = d[i]  BY <1>2, <1>6
  <2>3. QED  BY <2>1, <2>2, SeqEqual, Zenon
<1>8. QED  BY <1>7 DEF c, d

LEMMA PathsName ==
  ASSUME PlacesInv  PROVE PathNamesElement
<1> DEFINE chain(k) == events[k].chain
           named == {k \in DOMAIN events : events[k].kind \in {"Start", "End", "Text", "CData"}}
           told(k) == Cardinality({j \in 1..k : events[j].kind # "EntityRef"})
<1>1. EventsOK(events) /\ ItemsOK(events, items) /\ events \in Seq(Event)  BY DEF PlacesInv, EventsOK
<1>2. DOMAIN events = 1..Len(events) /\ Len(events) \in Nat  BY <1>1
<1>3. ASSUME NEW k \in named
      PROVE  /\ k \in 1..Len(events) /\ Len(chain(k)) > 0 /\ Len(chain(k)) \in Nat
             /\ items[told(k)].path = PathOf(events, chain(k))
             /\ items[told(k)].depth = Len(items[told(k)].path)
             /\ Last(chain(k)) = chain(k)[Len(chain(k))]
             /\ chain(Last(chain(k))) = chain(k)
  <2>1. k \in 1..Len(events) /\ Named(events[k])  BY <1>2, <1>3 DEF Named
  <2>2. told(k) = Told(events, k)  BY DEF Told
  <2>3. Len(chain(k)) > 0 /\ Lineage(events, chain(k), k)  BY <1>1, <2>1 DEF EventsOK
  <2>4. chain(k) \in Seq(1..k)  BY <2>3 DEF Lineage
  <2>5. Len(chain(k)) \in Nat  BY <2>4
  <2>6. Len(PathOf(events, chain(k))) = Len(chain(k))  BY <2>5, PathLength
  <2>7. Last(chain(k)) = chain(k)[Len(chain(k))]  BY DEF Last
  <2>8. items[told(k)].path = PathOf(events, chain(k)) /\ items[told(k)].depth = Len(chain(k))
    BY <1>1, <2>1, <2>2 DEF ItemsOK
  <2>9. chain(Last(chain(k))) = chain(k)
    <3> DEFINE m == Len(chain(k))  e == chain(k)[m]
    <3>1. m \in 1..m  BY <2>3, <2>5
    <3>2. Len(chain(e)) = m /\ \A i \in 1..m : chain(e)[i] = chain(k)[i]  BY <2>3, <3>1 DEF Lineage
    <3>3. e \in 1..k  BY <2>4, <3>1, ElementOfSeq
    <3>4. e \in 1..Len(events)  BY <1>2, <2>1, <3>3
    <3>5. Lineage(events, chain(e), e)  BY <1>1, <3>4 DEF EventsOK
    <3>6. chain(e) \in Seq(1..e)  BY <3>5 DEF Lineage
    <3> HIDE DEF e
    <3>7. chain(e) = chain(k)  BY <2>4, <3>2, <3>6
    <3>8. QED  BY <2>7, <3>7 DEF e
  <2>10. QED  BY <2>1, <2>3, <2>5, <2>6, <2>7, <2>8, <2>9
<1>4. ASSUME NEW i \in named, NEW j \in named
      PROVE  items[told(i)].path = items[told(j)].path <=> Last(chain(i)) = Last(chain(j))
  <2>1. ASSUME items[told(i)].path = items[told(j)].path  PROVE Last(chain(i)) = Last(chain(j))
    <3> HIDE DEF named, told
    <3>1. PathOf(events, chain(i)) = PathOf(events, chain(j))  BY <1>3, <2>1
    <3>2. chain(i) = chain(j)  BY <1>1, <1>3, <3>1, PathsAreApart
    <3>3. QED  BY <3>2
  <2>2. ASSUME Last(chain(i)) = Last(chain(j))  PROVE items[told(i)].path = items[told(j)].path
    <3> HIDE DEF named, told
    <3>1. chain(i) = chain(j)  BY <1>3, <2>2
    <3>2. QED  BY <1>3, <3>1
  <2>3. QED  BY <2>1, <2>2
<1>5. \A k \in named : items[told(k)].depth = Len(items[told(k)].path)  BY <1>3
<1>6. PathNamesElement <=>
        /\ \A i, j \in named : items[told(i)].path = items[told(j)].path
                                 <=> Last(chain(i)) = Last(chain(j))
        /\ \A k \in named : items[told(k)].depth = Len(items[told(k)].path)
  BY DEF PathNamesElement
<1> HIDE DEF named, told, chain
<1>7. QED  BY <1>4, <1>5, <1>6


(* The matcher finds what a selector means.                                 *)
LEMMA SelectorsFind ==
  ASSUME PlacesInv  PROVE SelectorFindsEmbedding
<1> DEFINE k == Len(events)
           chain == [n \in DOMAIN events[k].chain |-> Features(events[k].chain[n])]
<1>1. SUFFICES ASSUME k \in Starts, NEW sel \in Selectors
               PROVE  matches(sel, chain) <=> Embeds(sel, chain)
  BY DEF SelectorFindsEmbedding
<1>2. events \in Seq(Event) /\ EventsOK(events)  BY DEF PlacesInv, EventsOK
<1>3. k \in 1..k /\ events[k].kind = "Start"  BY <1>1, <1>2 DEF Starts
<1>4. Len(events[k].chain) > 0 /\ Lineage(events, events[k].chain, k)
  BY <1>2, <1>3 DEF EventsOK, Named
<1>5. events[k].chain \in Seq(1..k)  BY <1>4 DEF Lineage
<1>6. Len(chain) \in Nat /\ Len(chain) > 0
  <2>1. DOMAIN events[k].chain = 1..Len(events[k].chain) /\ Len(events[k].chain) \in Nat
    BY <1>5
  <2>2. QED  BY <1>4, <2>1
<1>7. sel \in Seq(Range(sel))  BY ConsumersAssumption
<1>8. Len(sel) \in Nat /\ DOMAIN sel = 1..Len(sel) /\ (sel # <<>> => Len(sel) > 0)  BY <1>7
<1> HIDE DEF chain
<1>9. QED  BY <1>6, <1>8, MatchesIsEmbeds

(* Whatever the document (short of 2^32 children of one name, where the u32 *)
(* counter ends), an item of the iterator has the path of the element it is *)
(* about and of no other (current_path reads the counters late, and they    *)
(* are not stale), and the selector matcher finds a place for its parts on  *)
(* the ancestors whenever there is one (match_left goes on past the nearest *)
(* ancestor that matches).                                                  *)
THEOREM PlacesAreRight == Spec => []PlacesRight
<1>1. PlacesInv => PlacesRight  BY PathsName, SelectorsFind DEF PlacesRight
<1>2. QED  BY <1>1, PlacesInvariant, PTL
=============================================================================
