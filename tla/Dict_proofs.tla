----------------------------- MODULE Dict_proofs -----------------------------
(***************************************************************************)
(* Proofs about Dict, for every number of threads, slots, dicts, names and *)
(* pointers.  The inductive invariant says who keeps what alive: a slot or *)
(* a pending release keeps its dict, a live dict keeps its parent, so the  *)
(* whole parent chain of a dict in use is live, and the counter of a dict  *)
(* is the number of those owners.                                          *)
(***************************************************************************)
EXTENDS Dict, FiniteSetTheorems, TLAPS

(* Everything that owns a reference owns it to a live dict.                *)
OwnersLive ==
  /\ \A s \in Slots : own[s] # NULL => own[s] \in live
  /\ \A d \in live : parent[d] # NULL => parent[d] \in live
  /\ \A t \in Threads : op[t].pc \in ReleasePcs => op[t].at \in live

(* Only one thread drops a box, after the counter went to zero.            *)
DropsAlone ==
  \A t \in Threads : op[t].pc = "drop" =>
    /\ refcount[op[t].at] = 0
    /\ \A u \in Threads : (op[u].pc = "drop" /\ op[u].at = op[t].at) => u = t

(* The chain of a dict is closed under parent and has a child in it for    *)
(* each of its members but the dict itself; a live dict has a live chain.  *)
ChainOK ==
  \A d \in born :
    /\ d \in chain[d] /\ chain[d] \subseteq born
    /\ d \in live => chain[d] \subseteq live
    /\ parent[d] = NULL => chain[d] = {d}
    /\ \A x \in chain[d] :
         /\ parent[x] # NULL => parent[x] \in chain[d]
         /\ x # d => \E y \in chain[d] : parent[y] = x

(* A probing call runs on the dict of its slot, inside the chain.          *)
ProbesInChain ==
  \A t \in Threads : (Calling(t) /\ op[t].pc \notin ReleasePcs) =>
    /\ own[op[t].via] = op[t].self
    /\ op[t].at # NULL => op[t].at \in chain[op[t].self]

(* A canonical buffer belongs to one entry of one dict and dies with it.   *)
BuffersOK ==
  /\ \A d \in Dicts, n \in Names : table[d][n] # NULL =>
       d \in born /\ table[d][n] \in ptrs
  /\ \A d, e \in Dicts : \A n, m \in Names :
       (table[d][n] # NULL /\ table[d][n] = table[e][m]) => d = e /\ n = m
  /\ \A p \in freed : \E d \in born \ live : \E n \in Names : table[d][n] = p

(* What was handed out for a dict is in the table of one of its chain.     *)
HandedInChain ==
  \A h \in handed : h[1] \in born /\ \E a \in chain[h[1]] : table[a][h[2]] = h[3]

IInv ==
  /\ TypeOK /\ RefcountExact
  /\ OwnersLive /\ DropsAlone /\ ChainOK /\ ProbesInChain
  /\ BuffersOK /\ HandedInChain
-----------------------------------------------------------------------------
(* Type correctness.                                                       *)

LEMMA InitType == Init => TypeOK
BY ConstantsAssumption DEF Init, TypeOK, Idle

(* The record a thread is in has the fields its pc says.                   *)
LEMMA OpShape ==
  ASSUME TypeOK, NEW t \in Threads
  PROVE  /\ op[t].pc = "idle" => op[t] = Idle
         /\ op[t].pc \in ReleasePcs => op[t] \in Releases
         /\ op[t].pc \in {"intern", "lookupLocal", "lookup"} =>
              op[t] \in Probing({"intern", "lookupLocal", "lookup"}, Names)
         /\ op[t].pc = "owns" => op[t] \in Probing({"owns"}, Ptrs)
         /\ Calling(t) => op[t] \in Probes \cup Releases
<1>1. op[t] \in {Idle} \cup Probes \cup Releases
  BY DEF TypeOK
<1>2. CASE op[t] = Idle
  BY <1>2 DEF Idle, ReleasePcs, Calling
<1>3. CASE op[t] \in Probing({"intern", "lookupLocal", "lookup"}, Names)
  BY <1>3 DEF Probing, Probes, ReleasePcs, Calling
<1>4. CASE op[t] \in Probing({"owns"}, Ptrs)
  BY <1>4 DEF Probing, Probes, ReleasePcs, Calling
<1>5. CASE op[t] \in Releases
  BY <1>5 DEF Releases, ReleasePcs, Calling
<1> QED BY <1>1, <1>2, <1>3, <1>4, <1>5 DEF Probes

LEMMA BeginType ==
  ASSUME TypeOK, NEW t \in Threads, NEW s \in Slots, own[s] # NULL,
         NEW pc, NEW at \in Dicts \cup {NULL}, NEW key, Begin(t, s, pc, at, key),
         \/ pc \in {"intern", "lookupLocal", "lookup"} /\ key \in Names
         \/ pc = "owns" /\ key \in Ptrs
  PROVE  TypeOK'
<1> DEFINE r == [pc |-> pc, via |-> s, self |-> own[s], at |-> at, key |-> key,
                 held |-> HeldAbove(own[s], key)]
<1>1. own[s] \in Dicts /\ HeldAbove(own[s], key) \in BOOLEAN
  BY DEF TypeOK, HeldAbove
<1>2. r \in Probes
  BY <1>1 DEF Probes, Probing
<1>3. op' = [op EXCEPT ![t] = r]
  BY DEF Begin
<1>4. op' \in [Threads -> {Idle} \cup Probes \cup Releases]
  BY <1>2, <1>3 DEF TypeOK
<1> QED BY <1>4 DEF Begin, TypeOK, dictVars, bufVars

LEMMA StepType ==
  ASSUME TypeOK, [Next]_vars,
         \A t \in Threads : op[t].pc = "sub" => refcount[op[t].at] # 0
  PROVE  TypeOK'
<1> USE ConstantsAssumption DEF TypeOK
<1>1. CASE UNCHANGED vars
  BY <1>1 DEF vars
<1>2. ASSUME NEW t \in Threads, Call(t) PROVE TypeOK'
  <2>1. ASSUME NEW s \in Slots, NEW d \in Dicts, NewRefcounted(t, s, d) PROVE TypeOK'
    BY <2>1 DEF NewRefcounted, bufVars
  <2>2. ASSUME NEW s \in Slots, NEW p \in Dicts, NEW d \in Dicts, NewSub(t, s, p, d)
        PROVE TypeOK'
    BY <2>2 DEF NewSub, SubRefs, bufVars
  <2>3. ASSUME NEW s \in Slots, NEW q \in Slots, AddRef(t, s, q) PROVE TypeOK'
    BY <2>3 DEF AddRef, bufVars
  <2>4. ASSUME NEW s \in Slots, ReleaseSlot(t, s) PROVE TypeOK'
    BY <2>4 DEF ReleaseSlot, bufVars, dictVars, Releases
  <2>5. ASSUME NEW s \in Slots, NEW n \in Names, InternBegin(t, s, n) \/ LookupBegin(t, s, n)
        PROVE TypeOK'
    BY <2>5, BeginType DEF InternBegin, InternFrom, LookupBegin
  <2>6. ASSUME NEW s \in Slots, NEW p \in Ptrs, OwnsBegin(t, s, p) PROVE TypeOK'
    BY <2>6, BeginType DEF OwnsBegin
  <2> QED BY <1>2, <2>1, <2>2, <2>3, <2>4, <2>5, <2>6 DEF Call
<1>3. ASSUME NEW t \in Threads, Step(t) PROVE TypeOK'
  <2> USE <1>3
  <2>1. CASE FetchSub(t)
    <3>1. op[t] \in Releases
      BY <2>1, OpShape DEF FetchSub, InCall, ReleasePcs
    <3>2. op[t].at \in Dicts
      BY <3>1 DEF Releases
    <3>3. refcount[op[t].at] \in Nat /\ refcount[op[t].at] # 0
      BY <2>1, <3>2 DEF FetchSub, InCall
    <3>4. refcount' \in [Dicts -> Nat]
      <4>1. refcount[op[t].at] - 1 \in Nat
        BY <3>3
      <4>2. refcount' = [refcount EXCEPT ![op[t].at] = refcount[op[t].at] - 1]
        BY <2>1 DEF FetchSub
      <4> QED BY <4>1, <4>2
    <3>5. [pc |-> "drop", at |-> op[t].at] \in Releases
      BY <3>2 DEF Releases
    <3>6. op' \in [Threads -> {Idle} \cup Probes \cup Releases]
      BY <2>1, <3>5 DEF FetchSub
    <3> QED BY <2>1, <3>4, <3>6 DEF FetchSub, bufVars
  <2>2. CASE DropBox(t)
    <3>1. op[t] \in Releases
      BY <2>2, OpShape DEF DropBox, InCall, ReleasePcs
    <3>2. op' \in [Threads -> {Idle} \cup Probes \cup Releases]
      BY <2>2, <3>1 DEF DropBox, AfterDrop, Releases
    <3> QED BY <2>2, <3>1, <3>2 DEF DropBox, Releases
  <2>3. CASE InternWalk(t) \/ LookupWalk(t)
    <3>1. op[t] \in Probing({"intern", "lookupLocal", "lookup"}, Names)
      BY <2>3, OpShape DEF InternWalk, LookupWalk, Probe, InCall
    <3>2. PICK pc : Probe(t, pc) BY <2>3 DEF InternWalk, LookupWalk
    <3>3. CASE Hit(op[t].at, op[t].key)
      BY <3>1, <3>2, <3>3 DEF Probe, Hand, Return, Hit, Probing, dictVars, bufVars
    <3>4. CASE ~Hit(op[t].at, op[t].key)
      <4>1. [op[t] EXCEPT !.at = parent[op[t].at]] \in Probes
        BY <3>1, <3>2 DEF Probe, Probing, Probes
      <4>2. op' \in [Threads -> {Idle} \cup Probes \cup Releases]
        BY <3>2, <3>4, <4>1 DEF Probe, WalkNext
      <4> QED BY <3>2, <3>4, <4>2 DEF Probe, dictVars, bufVars
    <3> QED BY <3>3, <3>4
  <2>4. CASE InternLocal(t)
    <3>1. op[t] \in Probing({"intern", "lookupLocal", "lookup"}, Names)
      BY <2>4, OpShape DEF InternLocal, InCall
    <3>2. op[t].self \in Dicts /\ op[t].key \in Names
      BY <3>1 DEF Probing
    <3>3. CASE Hit(op[t].self, op[t].key)
      BY <2>4, <3>2, <3>3 DEF InternLocal, Hand, Return, Hit, Known, dictVars, bufVars
    <3>4. CASE ~Hit(op[t].self, op[t].key)
      <4>1. PICK p \in Ptrs \ ptrs :
              /\ ptrs' = ptrs \cup {p}
              /\ owned' = [owned EXCEPT ![op[t].self] = @ \cup {p}]
              /\ table' = [table EXCEPT ![op[t].self][op[t].key] = p]
              /\ Hand(t, p)
        BY <2>4, <3>4 DEF InternLocal, Known
      <4>2. table' \in [Dicts -> [Names -> Ptrs \cup {NULL}]] /\ owned' \in [Dicts -> SUBSET Ptrs]
        BY <3>2, <4>1
      <4>3. handed' \subseteq Dicts \X Names \X Ptrs
        BY <3>2, <4>1 DEF Hand
      <4>4. op' \in [Threads -> {Idle} \cup Probes \cup Releases]
        BY <4>1 DEF Hand, Return
      <4>5. freed' = freed
        BY <2>4, <3>4 DEF InternLocal, Known
      <4> QED BY <2>4, <4>1, <4>2, <4>3, <4>4, <4>5 DEF InternLocal, dictVars
    <3> QED BY <3>3, <3>4
  <2>5. CASE LookupLocal(t)
    <3>1. op[t] \in Probing({"intern", "lookupLocal", "lookup"}, Names)
      BY <2>5, OpShape DEF LookupLocal, InCall
    <3>2. op[t].self \in Dicts /\ op[t].key \in Names
      BY <3>1 DEF Probing
    <3>3. CASE Hit(op[t].self, op[t].key)
      BY <2>5, <3>2, <3>3 DEF LookupLocal, Hand, Return, Hit, dictVars, bufVars
    <3>4. CASE ~Hit(op[t].self, op[t].key)
      <4>1. [op[t] EXCEPT !.pc = "lookup", !.at = parent[op[t].self]] \in Probes
        BY <3>1, <3>2 DEF Probing, Probes
      <4>2. op' \in [Threads -> {Idle} \cup Probes \cup Releases]
        BY <2>5, <3>4, <4>1 DEF LookupLocal
      <4> QED BY <2>5, <3>4, <4>2 DEF LookupLocal, dictVars, bufVars
    <3> QED BY <3>3, <3>4
  <2>6. CASE LookupMissed(t) \/ OwnsMissed(t)
    BY <2>6 DEF LookupMissed, OwnsMissed, Return, dictVars, bufVars
  <2>7. CASE OwnsProbe(t)
    <3>1. op[t] \in Probing({"owns"}, Ptrs)
      BY <2>7, OpShape DEF OwnsProbe, InCall
    <3>2. [op[t] EXCEPT !.at = parent[op[t].at]] \in Probes
      BY <2>7, <3>1 DEF OwnsProbe, Probing, Probes
    <3>3. op' \in [Threads -> {Idle} \cup Probes \cup Releases]
      BY <2>7, <3>2 DEF OwnsProbe, OwnsNext, Return
    <3> QED BY <2>7, <3>3 DEF OwnsProbe, dictVars, bufVars
  <2> QED BY <2>1, <2>2, <2>3, <2>4, <2>5, <2>6, <2>7 DEF Step
<1> QED BY <1>1, <1>2, <1>3 DEF Next

-----------------------------------------------------------------------------
(* The steps of a probing call disturb neither owners nor counters.        *)

Quiet(t) ==
  /\ UNCHANGED <<dictVars, own>>
  /\ op[t].pc \notin ReleasePcs /\ op'[t].pc \notin ReleasePcs
  /\ \A u \in Threads \ {t} : op'[u] = op[u]

ProbeStep(t) ==
  \/ InternWalk(t) \/ InternLocal(t)
  \/ LookupLocal(t) \/ LookupWalk(t) \/ LookupMissed(t)
  \/ OwnsProbe(t) \/ OwnsMissed(t)

ProbeBegin(t) ==
  \/ \E s \in Slots, n \in Names : InternBegin(t, s, n) \/ LookupBegin(t, s, n)
  \/ \E s \in Slots, p \in Ptrs : OwnsBegin(t, s, p)

LEMMA QuietBegin ==
  ASSUME TypeOK, NEW t \in Threads, ProbeBegin(t)
  PROVE  Quiet(t)
<1> USE DEF TypeOK, Quiet, ReleasePcs
<1>1. ASSUME NEW s \in Slots, NEW pc \in {"intern", "lookupLocal", "owns"}, NEW at, NEW key,
             Begin(t, s, pc, at, key)
      PROVE  Quiet(t)
  BY <1>1 DEF Begin, Calling
<1> QED BY <1>1 DEF ProbeBegin, InternBegin, LookupBegin, OwnsBegin

LEMMA QuietStep ==
  ASSUME TypeOK, NEW t \in Threads, ProbeStep(t)
  PROVE  Quiet(t)
<1> USE DEF TypeOK
<1>0. op[t].pc \notin ReleasePcs /\ Calling(t)
  BY DEF ProbeStep, InternWalk, LookupWalk, Probe, InternLocal, LookupLocal, LookupMissed,
         OwnsProbe, OwnsMissed, InCall, ReleasePcs, Calling
<1>1. op[t] \in Probes
  BY <1>0, OpShape DEF Releases, ReleasePcs
<1>2. UNCHANGED <<dictVars, own>>
  BY DEF ProbeStep, InternWalk, LookupWalk, Probe, InternLocal, LookupLocal, LookupMissed,
         OwnsProbe, OwnsMissed
<1>3. \/ op' = [op EXCEPT ![t] = Idle]
      \/ \E x : op' = [op EXCEPT ![t].at = x]
      \/ \E x : op' = [op EXCEPT ![t].pc = "lookup", ![t].at = x]
  BY DEF ProbeStep, InternWalk, LookupWalk, Probe, InternLocal, LookupLocal, LookupMissed,
         OwnsProbe, OwnsMissed, Hand, Return
<1>4. CASE op' = [op EXCEPT ![t] = Idle]
  BY <1>0, <1>2, <1>4 DEF Quiet, Idle, ReleasePcs
<1>5. ASSUME NEW x, op' = [op EXCEPT ![t].at = x] PROVE Quiet(t)
  BY <1>0, <1>1, <1>2, <1>5 DEF Quiet, Probes, Probing, ReleasePcs
<1>6. ASSUME NEW x, op' = [op EXCEPT ![t].pc = "lookup", ![t].at = x] PROVE Quiet(t)
  BY <1>0, <1>1, <1>2, <1>6 DEF Quiet, Probes, Probing, ReleasePcs
<1> QED BY <1>3, <1>4, <1>5, <1>6

(* The next-state relation, with the probing steps in one disjunct.        *)
LEMMA NextCases ==
  ASSUME TypeOK, Next
  PROVE  \E t \in Threads :
           \/ \E s \in Slots, d \in Dicts : NewRefcounted(t, s, d)
           \/ \E s \in Slots, p, d \in Dicts : NewSub(t, s, p, d)
           \/ \E s, q \in Slots : AddRef(t, s, q)
           \/ \E s \in Slots : ReleaseSlot(t, s)
           \/ FetchSub(t) \/ DropBox(t)
           \/ Quiet(t)
<1>1. PICK t \in Threads : Call(t) \/ Step(t)
  BY DEF Next
<1>2. CASE ProbeBegin(t)
  BY <1>2, QuietBegin
<1>3. CASE ProbeStep(t)
  BY <1>3, QuietStep
<1>4. CASE Call(t) /\ ~ProbeBegin(t)
  BY <1>4 DEF Call, ProbeBegin
<1>5. CASE Step(t) /\ ~ProbeStep(t)
  BY <1>5 DEF Step, ProbeStep
<1> QED BY <1>1, <1>2, <1>3, <1>4, <1>5

-----------------------------------------------------------------------------
(* Counting the owners of a dict.                                          *)

LEMMA OwnerSetsFinite ==
  ASSUME TypeOK, NEW d
  PROVE  /\ IsFiniteSet(SlotsOf(d)) /\ Cardinality(SlotsOf(d)) \in Nat
         /\ IsFiniteSet(SubsOf(d)) /\ Cardinality(SubsOf(d)) \in Nat
         /\ IsFiniteSet(GiversOf(d)) /\ Cardinality(GiversOf(d)) \in Nat
<1>1. SlotsOf(d) \in SUBSET Slots /\ SubsOf(d) \in SUBSET Dicts /\ GiversOf(d) \in SUBSET Threads
  BY DEF TypeOK, SlotsOf, SubsOf, GiversOf
<1> QED BY <1>1, ConstantsAssumption, FS_Subset, FS_CardinalityType

(* A dict with an owner has a positive counter, one without has zero.      *)
LEMMA CountedOwners ==
  ASSUME TypeOK, RefcountExact, NEW d \in Dicts
  PROVE  refcount[d] = 0 <=> (SlotsOf(d) = {} /\ SubsOf(d) = {} /\ GiversOf(d) = {})
<1>1. refcount[d] =
        Cardinality(SlotsOf(d)) + Cardinality(SubsOf(d)) + Cardinality(GiversOf(d))
  BY DEF RefcountExact
<1>2. /\ Cardinality(SlotsOf(d)) = 0 <=> SlotsOf(d) = {}
      /\ Cardinality(SubsOf(d)) = 0 <=> SubsOf(d) = {}
      /\ Cardinality(GiversOf(d)) = 0 <=> GiversOf(d) = {}
  BY OwnerSetsFinite, FS_EmptySet
<1>3. /\ Cardinality(SlotsOf(d)) \in Nat /\ Cardinality(SubsOf(d)) \in Nat
      /\ Cardinality(GiversOf(d)) \in Nat
  BY OwnerSetsFinite
<1> QED BY <1>1, <1>2, <1>3

LEMMA GiverCounted ==
  ASSUME TypeOK, RefcountExact, OwnersLive
  PROVE  \A t \in Threads : op[t].pc = "sub" => refcount[op[t].at] # 0
<1> SUFFICES ASSUME NEW t \in Threads, op[t].pc = "sub" PROVE refcount[op[t].at] # 0
  OBVIOUS
<1>1. op[t] \in Releases
  BY OpShape DEF ReleasePcs
<1>2. t \in GiversOf(op[t].at) /\ op[t].at \in Dicts
  BY <1>1 DEF GiversOf, Releases
<1> QED BY <1>2, CountedOwners

(* A set of owners that gains or loses one member.                         *)
LEMMA GainOne ==
  ASSUME NEW S, IsFiniteSet(S), NEW x, x \notin S
  PROVE  Cardinality(S \cup {x}) = Cardinality(S) + 1
BY FS_AddElement

LEMMA LoseOne ==
  ASSUME NEW S, IsFiniteSet(S), NEW x, x \in S
  PROVE  Cardinality(S \ {x}) = Cardinality(S) - 1
BY FS_RemoveElement

LEMMA StepRefcount ==
  ASSUME TypeOK, TypeOK', RefcountExact, OwnersLive, Next
  PROVE  RefcountExact'
<1> USE DEF TypeOK
<1> DEFINE Count(d) == Cardinality(SlotsOf(d)) + Cardinality(SubsOf(d)) + Cardinality(GiversOf(d))
<1> SUFFICES ASSUME NEW x \in Dicts
             PROVE  refcount'[x] = Cardinality(SlotsOf(x)') + Cardinality(SubsOf(x)')
                                     + Cardinality(GiversOf(x)')
  BY DEF RefcountExact
<1>0. /\ refcount[x] \in Nat
      /\ refcount[x] = Cardinality(SlotsOf(x)) + Cardinality(SubsOf(x)) + Cardinality(GiversOf(x))
      /\ IsFiniteSet(SlotsOf(x)) /\ Cardinality(SlotsOf(x)) \in Nat
      /\ IsFiniteSet(SubsOf(x)) /\ Cardinality(SubsOf(x)) \in Nat
      /\ IsFiniteSet(GiversOf(x)) /\ Cardinality(GiversOf(x)) \in Nat
  BY OwnerSetsFinite DEF RefcountExact
<1>1. PICK t \in Threads :
           \/ \E s \in Slots, d \in Dicts : NewRefcounted(t, s, d)
           \/ \E s \in Slots, p, d \in Dicts : NewSub(t, s, p, d)
           \/ \E s, q \in Slots : AddRef(t, s, q)
           \/ \E s \in Slots : ReleaseSlot(t, s)
           \/ FetchSub(t) \/ DropBox(t)
           \/ Quiet(t)
  BY NextCases
(* A fresh dict has no owner before, and the new slot after.               *)
<1>2. ASSUME NEW d \in Dicts, d \notin born
      PROVE  SlotsOf(d) = {} /\ SubsOf(d) = {} /\ GiversOf(d) = {}
  <2>1. SlotsOf(d) = {} /\ SubsOf(d) = {}
    BY <1>2, ConstantsAssumption DEF OwnersLive, SlotsOf, SubsOf
  <2>2. GiversOf(d) = {}
    <3> SUFFICES ASSUME NEW u \in Threads, op[u] = [pc |-> "sub", at |-> d] PROVE FALSE
      BY DEF GiversOf
    <3>1. op[u].pc = "sub" /\ op[u].at = d
      OBVIOUS
    <3> QED BY <1>2, <3>1 DEF OwnersLive, ReleasePcs
  <2> QED BY <2>1, <2>2
<1>3. ASSUME NEW s \in Slots, NEW d \in Dicts, NewRefcounted(t, s, d)
      PROVE  refcount'[x] = Count(x)'
  <2>1. GiversOf(x)' = GiversOf(x)
    BY <1>3 DEF NewRefcounted, GiversOf
  <2>2. CASE x = d
    <3>1. SlotsOf(x)' = {s} /\ SubsOf(x)' = {} /\ GiversOf(x)' = {}
      BY <1>2, <1>3, <2>1, <2>2, ConstantsAssumption DEF NewRefcounted, SlotsOf, SubsOf
    <3>2. Cardinality(SlotsOf(x)') = 1 /\ Cardinality(SubsOf(x)') = 0
            /\ Cardinality(GiversOf(x)') = 0
      BY <3>1, FS_EmptySet, FS_Singleton
    <3>3. refcount'[x] = 1
      BY <1>3, <2>2 DEF NewRefcounted
    <3> QED BY <3>2, <3>3
  <2>3. CASE x # d
    <3>1. SlotsOf(x)' = SlotsOf(x) /\ SubsOf(x)' = SubsOf(x)
      BY <1>3, <2>3, ConstantsAssumption DEF NewRefcounted, SlotsOf, SubsOf
    <3> QED BY <1>0, <1>3, <2>1, <2>3, <3>1 DEF NewRefcounted
  <2> QED BY <2>2, <2>3
<1>4. ASSUME NEW s \in Slots, NEW p \in Dicts, NEW d \in Dicts, NewSub(t, s, p, d)
      PROVE  refcount'[x] = Count(x)'
  <2>0. p \in live /\ p # d /\ d \notin born
    BY <1>4, ConstantsAssumption DEF NewSub, OwnersLive
  <2>1. GiversOf(x)' = GiversOf(x)
    BY <1>4 DEF NewSub, GiversOf
  <2>2. CASE x = d
    <3>1. SlotsOf(x)' = {s} /\ SubsOf(x)' = {} /\ GiversOf(x)' = {}
      BY <1>2, <1>4, <2>0, <2>1, <2>2, ConstantsAssumption DEF NewSub, SlotsOf, SubsOf
    <3>2. Cardinality(SlotsOf(x)') = 1 /\ Cardinality(SubsOf(x)') = 0
            /\ Cardinality(GiversOf(x)') = 0
      BY <3>1, FS_EmptySet, FS_Singleton
    <3>3. refcount'[x] = 1
      BY <1>4, <2>2 DEF NewSub, SubRefs
    <3> QED BY <3>2, <3>3
  <2>3. CASE x = p
    <3>1. SlotsOf(x)' = SlotsOf(x) /\ SubsOf(x)' = SubsOf(x) \cup {d} /\ d \notin SubsOf(x)
      BY <1>4, <2>0, <2>3, ConstantsAssumption DEF NewSub, SlotsOf, SubsOf
    <3>2. refcount'[x] = refcount[x] + 1
      BY <1>4, <2>0, <2>3 DEF NewSub, SubRefs
    <3>3. Cardinality(SubsOf(x)') = Cardinality(SubsOf(x)) + 1
      BY <1>0, <3>1, GainOne
    <3> QED BY <1>0, <2>1, <3>1, <3>2, <3>3
  <2>4. CASE x # d /\ x # p
    <3>1. SlotsOf(x)' = SlotsOf(x) /\ SubsOf(x)' = SubsOf(x)
      BY <1>4, <2>0, <2>4, ConstantsAssumption DEF NewSub, SlotsOf, SubsOf
    <3> QED BY <1>0, <1>4, <2>1, <2>4, <3>1 DEF NewSub, SubRefs
  <2> QED BY <2>2, <2>3, <2>4
<1>5. ASSUME NEW s \in Slots, NEW q \in Slots, AddRef(t, s, q)
      PROVE  refcount'[x] = Count(x)'
  <2>1. GiversOf(x)' = GiversOf(x) /\ SubsOf(x)' = SubsOf(x)
    BY <1>5 DEF AddRef, GiversOf, SubsOf
  <2>2. CASE x = own[q]
    <3>1. SlotsOf(x)' = SlotsOf(x) \cup {s} /\ s \notin SlotsOf(x)
      BY <1>5, <2>2 DEF AddRef, SlotsOf
    <3>2. refcount'[x] = refcount[x] + 1
      BY <1>5, <2>2 DEF AddRef
    <3>3. Cardinality(SlotsOf(x)') = Cardinality(SlotsOf(x)) + 1
      BY <1>0, <3>1, GainOne
    <3> QED BY <1>0, <2>1, <3>2, <3>3
  <2>3. CASE x # own[q]
    <3>1. SlotsOf(x)' = SlotsOf(x)
      BY <1>5, <2>3, ConstantsAssumption DEF AddRef, SlotsOf
    <3> QED BY <1>0, <1>5, <2>1, <2>3, <3>1 DEF AddRef
  <2> QED BY <2>2, <2>3
<1>6. ASSUME NEW s \in Slots, ReleaseSlot(t, s)
      PROVE  refcount'[x] = Count(x)'
  <2>1. SubsOf(x)' = SubsOf(x) /\ refcount' = refcount
    BY <1>6 DEF ReleaseSlot, SubsOf, dictVars
  <2>2. CASE x = own[s]
    <3>1. SlotsOf(x)' = SlotsOf(x) \ {s} /\ s \in SlotsOf(x)
      BY <1>6, <2>2, ConstantsAssumption DEF ReleaseSlot, SlotsOf
    <3>2. GiversOf(x)' = GiversOf(x) \cup {t} /\ t \notin GiversOf(x)
      BY <1>6, <2>2 DEF ReleaseSlot, GiversOf, Calling
    <3>3. Cardinality(SlotsOf(x)') = Cardinality(SlotsOf(x)) - 1
      BY <1>0, <3>1, LoseOne
    <3>4. Cardinality(GiversOf(x)') = Cardinality(GiversOf(x)) + 1
      BY <1>0, <3>2, GainOne
    <3> QED BY <1>0, <2>1, <3>3, <3>4
  <2>3. CASE x # own[s]
    <3>1. SlotsOf(x)' = SlotsOf(x)
      BY <1>6, <2>3, ConstantsAssumption DEF ReleaseSlot, SlotsOf
    <3>2. GiversOf(x)' = GiversOf(x)
      BY <1>6, <2>3 DEF ReleaseSlot, GiversOf, Calling
    <3> QED BY <1>0, <2>1, <3>1, <3>2
  <2> QED BY <2>2, <2>3
<1>7. CASE FetchSub(t)
  <2>0. op[t] \in Releases /\ op[t].pc = "sub"
    BY <1>7, OpShape DEF FetchSub, InCall, ReleasePcs
  <2>1. SubsOf(x)' = SubsOf(x) /\ SlotsOf(x)' = SlotsOf(x)
    BY <1>7 DEF FetchSub, SubsOf, SlotsOf
  <2>2. CASE x = op[t].at
    <3>1. GiversOf(x)' = GiversOf(x) \ {t} /\ t \in GiversOf(x)
      BY <1>7, <2>0, <2>2 DEF FetchSub, GiversOf, Releases, Idle
    <3>2. refcount'[x] = refcount[x] - 1
      BY <1>7, <2>2 DEF FetchSub
    <3>3. Cardinality(GiversOf(x)') = Cardinality(GiversOf(x)) - 1
      BY <1>0, <3>1, LoseOne
    <3> QED BY <1>0, <2>1, <3>2, <3>3
  <2>3. CASE x # op[t].at
    <3>1. GiversOf(x)' = GiversOf(x)
      BY <1>7, <2>0, <2>3 DEF FetchSub, GiversOf, Releases, Idle
    <3> QED BY <1>0, <1>7, <2>1, <2>3, <3>1 DEF FetchSub
  <2> QED BY <2>2, <2>3
<1>8. CASE DropBox(t)
  <2>0. op[t] \in Releases /\ op[t].pc = "drop" /\ op[t].at \in live
    BY <1>8, OpShape DEF DropBox, InCall, ReleasePcs, OwnersLive
  <2>1. SlotsOf(x)' = SlotsOf(x) /\ refcount' = refcount
    BY <1>8 DEF DropBox, SlotsOf
  <2>2. CASE x = parent[op[t].at]
    <3>1. SubsOf(x)' = SubsOf(x) \ {op[t].at} /\ op[t].at \in SubsOf(x)
      BY <1>8, <2>0, <2>2 DEF DropBox, SubsOf
    <3>2. GiversOf(x)' = GiversOf(x) \cup {t} /\ t \notin GiversOf(x)
      BY <1>8, <2>0, <2>2, ConstantsAssumption DEF DropBox, AfterDrop, GiversOf, Releases
    <3>3. Cardinality(SubsOf(x)') = Cardinality(SubsOf(x)) - 1
      BY <1>0, <3>1, LoseOne
    <3>4. Cardinality(GiversOf(x)') = Cardinality(GiversOf(x)) + 1
      BY <1>0, <3>2, GainOne
    <3> QED BY <1>0, <2>1, <3>3, <3>4
  <2>3. CASE x # parent[op[t].at]
    <3>1. SubsOf(x)' = SubsOf(x)
      BY <1>8, <2>0, <2>3 DEF DropBox, SubsOf
    <3>2. GiversOf(x)' = GiversOf(x)
      BY <1>8, <2>0, <2>3 DEF DropBox, AfterDrop, GiversOf, Releases, Idle
    <3> QED BY <1>0, <2>1, <3>1, <3>2
  <2> QED BY <2>2, <2>3
<1>9. CASE Quiet(t)
  <2>1. SlotsOf(x)' = SlotsOf(x) /\ SubsOf(x)' = SubsOf(x) /\ refcount' = refcount
    BY <1>9 DEF Quiet, SlotsOf, SubsOf, dictVars
  <2>2. GiversOf(x)' = GiversOf(x)
    BY <1>9 DEF Quiet, GiversOf, ReleasePcs
  <2> QED BY <1>0, <2>1, <2>2
<1> QED BY <1>1, <1>3, <1>4, <1>5, <1>6, <1>7, <1>8, <1>9

-----------------------------------------------------------------------------
(* Ownership and liveness of dicts.                                        *)

(* What a drop destroys: a dict with no slot, no live child and no pending *)
(* release, so nobody else refers to it.                                   *)
LEMMA DroppedUnowned ==
  ASSUME TypeOK, RefcountExact, OwnersLive, DropsAlone, NEW t \in Threads, DropBox(t)
  PROVE  /\ op[t] \in Releases /\ op[t].pc = "drop" /\ op[t].at \in live
         /\ \A s \in Slots : own[s] # op[t].at
         /\ \A c \in live : parent[c] # op[t].at
         /\ \A u \in Threads : (op[u].pc \in ReleasePcs /\ op[u].at = op[t].at) => u = t
<1>1. op[t] \in Releases /\ op[t].pc = "drop" /\ op[t].at \in live
  BY OpShape DEF DropBox, InCall, ReleasePcs, OwnersLive
<1>2. refcount[op[t].at] = 0 /\ op[t].at \in Dicts
  BY <1>1 DEF DropsAlone, Releases
<1>3. SlotsOf(op[t].at) = {} /\ SubsOf(op[t].at) = {} /\ GiversOf(op[t].at) = {}
  BY <1>2, CountedOwners
<1>4. ASSUME NEW u \in Threads, op[u].pc \in ReleasePcs, op[u].at = op[t].at PROVE u = t
  <2>1. op[u] \in Releases
    BY <1>4, OpShape
  <2>2. CASE op[u].pc = "sub"
    BY <1>3, <1>4, <2>1, <2>2 DEF GiversOf, Releases
  <2>3. CASE op[u].pc = "drop"
    BY <1>1, <1>4, <2>3 DEF DropsAlone
  <2> QED BY <1>4, <2>2, <2>3 DEF ReleasePcs
<1> QED BY <1>1, <1>3, <1>4 DEF SlotsOf, SubsOf

LEMMA StepOwners ==
  ASSUME TypeOK, TypeOK', RefcountExact, OwnersLive, DropsAlone, Next
  PROVE  OwnersLive'
<1> USE DEF TypeOK
<1>1. PICK t \in Threads :
           \/ \E s \in Slots, d \in Dicts : NewRefcounted(t, s, d)
           \/ \E s \in Slots, p, d \in Dicts : NewSub(t, s, p, d)
           \/ \E s, q \in Slots : AddRef(t, s, q)
           \/ \E s \in Slots : ReleaseSlot(t, s)
           \/ FetchSub(t) \/ DropBox(t)
           \/ Quiet(t)
  BY NextCases
<1>2. ASSUME NEW s \in Slots, NEW d \in Dicts, NewRefcounted(t, s, d) PROVE OwnersLive'
  BY <1>2 DEF NewRefcounted, OwnersLive
<1>3. ASSUME NEW s \in Slots, NEW p \in Dicts, NEW d \in Dicts, NewSub(t, s, p, d)
      PROVE  OwnersLive'
  <2>1. p \in live
    BY <1>3, ConstantsAssumption DEF NewSub, OwnersLive
  <2> QED BY <1>3, <2>1 DEF NewSub, OwnersLive
<1>4. ASSUME NEW s \in Slots, NEW q \in Slots, AddRef(t, s, q) PROVE OwnersLive'
  BY <1>4 DEF AddRef, OwnersLive
<1>5. ASSUME NEW s \in Slots, ReleaseSlot(t, s) PROVE OwnersLive'
  BY <1>5 DEF ReleaseSlot, OwnersLive, dictVars
<1>6. CASE FetchSub(t)
  <2>1. op[t].pc \in ReleasePcs
    BY <1>6 DEF FetchSub, InCall, ReleasePcs
  <2>2. op'[t] = Idle \/ op'[t] = [pc |-> "drop", at |-> op[t].at]
    BY <1>6 DEF FetchSub
  <2>3. op'[t].pc \in ReleasePcs => op'[t].at = op[t].at
    BY <2>2 DEF Idle, ReleasePcs
  <2>4. \A u \in Threads \ {t} : op'[u] = op[u]
    BY <1>6 DEF FetchSub
  <2>5. UNCHANGED <<live, parent, own>>
    BY <1>6 DEF FetchSub
  <2> QED BY <2>1, <2>3, <2>4, <2>5 DEF OwnersLive
<1>7. CASE DropBox(t)
  <2> DEFINE d == op[t].at
  <2>1. live' = live \ {d} /\ UNCHANGED <<parent, own>>
    BY <1>7 DEF DropBox
  <2>2. d \in Dicts
    BY <1>7, DroppedUnowned
  <2>3. \A s \in Slots : own'[s] # NULL => own'[s] \in live'
    BY <1>7, <2>1, DroppedUnowned DEF OwnersLive
  <2>4. \A c \in live' : parent'[c] # NULL => parent'[c] \in live'
    BY <1>7, <2>1, DroppedUnowned DEF OwnersLive
  <2>5. op'[t] = AfterDrop(d) /\ \A u \in Threads \ {t} : op'[u] = op[u]
    BY <1>7 DEF DropBox
  <2>6. op'[t].pc \in ReleasePcs => op'[t].at = parent[d] /\ parent[d] # NULL
    BY <2>5 DEF AfterDrop, Idle, ReleasePcs
  <2>7. parent[d] # NULL => parent[d] \in live /\ parent[d] # d
    BY <1>7, DroppedUnowned DEF OwnersLive
  <2>8. \A u \in Threads : op'[u].pc \in ReleasePcs => op'[u].at \in live'
    <3> SUFFICES ASSUME NEW u \in Threads, op'[u].pc \in ReleasePcs PROVE op'[u].at \in live'
      OBVIOUS
    <3>1. CASE u = t
      BY <2>1, <2>6, <2>7, <3>1
    <3>2. CASE u # t
      <4>1. op[u].pc \in ReleasePcs /\ op'[u].at = op[u].at /\ op[u].at \in live
        BY <2>5, <3>2 DEF OwnersLive
      <4>2. op[u].at # d
        BY <1>7, <3>2, <4>1, DroppedUnowned
      <4> QED BY <2>1, <4>1, <4>2
    <3> QED BY <3>1, <3>2
  <2> QED BY <2>3, <2>4, <2>8 DEF OwnersLive
<1>8. CASE Quiet(t)
  BY <1>8 DEF Quiet, OwnersLive, dictVars
<1> QED BY <1>1, <1>2, <1>3, <1>4, <1>5, <1>6, <1>7, <1>8

LEMMA StepDrops ==
  ASSUME TypeOK, TypeOK', RefcountExact, OwnersLive, DropsAlone, Next
  PROVE  DropsAlone'
<1> USE DEF TypeOK
<1>1. PICK t \in Threads :
           \/ \E s \in Slots, d \in Dicts : NewRefcounted(t, s, d)
           \/ \E s \in Slots, p, d \in Dicts : NewSub(t, s, p, d)
           \/ \E s, q \in Slots : AddRef(t, s, q)
           \/ \E s \in Slots : ReleaseSlot(t, s)
           \/ FetchSub(t) \/ DropBox(t)
           \/ Quiet(t)
  BY NextCases
(* A dict in its last drop is not fresh and has no owner to add from.      *)
<1>0. ASSUME NEW u \in Threads, op[u].pc = "drop"
      PROVE  /\ op[u].at \in live /\ op[u].at \in Dicts
             /\ \A s \in Slots : own[s] # op[u].at
             /\ \A v \in Threads : op[v].pc = "sub" => op[v].at # op[u].at
  <2>1. op[u].at \in live /\ op[u].at \in Dicts /\ refcount[op[u].at] = 0
    BY <1>0 DEF OwnersLive, ReleasePcs, DropsAlone
  <2>2. SlotsOf(op[u].at) = {} /\ GiversOf(op[u].at) = {}
    BY <2>1, CountedOwners
  <2>3. ASSUME NEW v \in Threads, op[v].pc = "sub" PROVE op[v].at # op[u].at
    <3>1. op[v] \in Releases
      BY <2>3, OpShape DEF ReleasePcs
    <3> QED BY <2>2, <2>3, <3>1 DEF GiversOf, Releases
  <2> QED BY <2>1, <2>2, <2>3 DEF SlotsOf
<1>2. ASSUME NEW s \in Slots, NEW d \in Dicts, NewRefcounted(t, s, d) PROVE DropsAlone'
  BY <1>0, <1>2 DEF NewRefcounted, DropsAlone
<1>3. ASSUME NEW s \in Slots, NEW p \in Dicts, NEW d \in Dicts, NewSub(t, s, p, d)
      PROVE  DropsAlone'
  BY <1>0, <1>3 DEF NewSub, SubRefs, DropsAlone
<1>4. ASSUME NEW s \in Slots, NEW q \in Slots, AddRef(t, s, q) PROVE DropsAlone'
  BY <1>0, <1>4 DEF AddRef, DropsAlone
<1>5. ASSUME NEW s \in Slots, ReleaseSlot(t, s) PROVE DropsAlone'
  BY <1>5 DEF ReleaseSlot, DropsAlone, dictVars
<1>6. CASE FetchSub(t)
  <2> DEFINE d == op[t].at
  <2>1. op[t] \in Releases /\ op[t].pc = "sub" /\ d \in Dicts
    BY <1>6, OpShape DEF FetchSub, InCall, ReleasePcs, Releases
  <2>2. \A u \in Threads \ {t} : op'[u] = op[u]
    BY <1>6 DEF FetchSub
  <2>3. op'[t].pc = "drop" => op'[t].at = d /\ refcount'[d] = 0
    <3>1. refcount[d] = 1 => refcount'[d] = 0
      BY <1>6, <2>1 DEF FetchSub
    <3>2. op'[t] = IF refcount[d] = 1 THEN [pc |-> "drop", at |-> d] ELSE Idle
      BY <1>6 DEF FetchSub
    <3> QED BY <3>1, <3>2 DEF Idle
  <2>4. \A u \in Threads \ {t} : op[u].pc = "drop" => op[u].at # d
    BY <1>0, <2>1
  <2>5. \A x \in Dicts : x # d => refcount'[x] = refcount[x]
    BY <1>6 DEF FetchSub
  <2>6. \A u \in Threads : op'[u].pc = "drop" => refcount'[op'[u].at] = 0
    BY <1>0, <2>2, <2>3, <2>4, <2>5 DEF DropsAlone
  <2>7. \A u, v \in Threads :
          (op'[u].pc = "drop" /\ op'[v].pc = "drop" /\ op'[v].at = op'[u].at) => v = u
    <3> SUFFICES ASSUME NEW u \in Threads, NEW v \in Threads, op'[u].pc = "drop",
                        op'[v].pc = "drop", op'[v].at = op'[u].at
                 PROVE  v = u
      OBVIOUS
    <3>1. CASE u # t /\ v # t
      BY <2>2, <3>1 DEF DropsAlone
    <3>2. CASE u = t /\ v # t
      BY <2>2, <2>3, <2>4, <3>2
    <3>3. CASE u # t /\ v = t
      BY <2>2, <2>3, <2>4, <3>3
    <3> QED BY <3>1, <3>2, <3>3
  <2> QED BY <2>6, <2>7 DEF DropsAlone
<1>7. CASE DropBox(t)
  <2>1. refcount' = refcount /\ \A u \in Threads \ {t} : op'[u] = op[u]
    BY <1>7 DEF DropBox
  <2>2. op'[t] = AfterDrop(op[t].at)
    BY <1>7 DEF DropBox
  <2>3. op'[t].pc # "drop"
    BY <2>2 DEF AfterDrop, Idle
  <2> QED BY <2>1, <2>3 DEF DropsAlone
<1>8. CASE Quiet(t)
  BY <1>8 DEF Quiet, DropsAlone, ReleasePcs, dictVars
<1> QED BY <1>1, <1>2, <1>3, <1>4, <1>5, <1>6, <1>7, <1>8

LEMMA StepChain ==
  ASSUME TypeOK, TypeOK', RefcountExact, OwnersLive, DropsAlone, ChainOK, Next
  PROVE  ChainOK'
<1> USE DEF TypeOK
<1>1. PICK t \in Threads :
           \/ \E s \in Slots, d \in Dicts : NewRefcounted(t, s, d)
           \/ \E s \in Slots, p, d \in Dicts : NewSub(t, s, p, d)
           \/ \E s, q \in Slots : AddRef(t, s, q)
           \/ \E s \in Slots : ReleaseSlot(t, s)
           \/ FetchSub(t) \/ DropBox(t)
           \/ Quiet(t)
  BY NextCases
<1>2. ASSUME NEW s \in Slots, NEW d \in Dicts, NewRefcounted(t, s, d) PROVE ChainOK'
  <2>1. /\ born' = born \cup {d} /\ live' = live \cup {d} /\ d \notin born
        /\ parent'[d] = NULL /\ chain'[d] = {d}
        /\ \A x \in born : parent'[x] = parent[x] /\ chain'[x] = chain[x]
    BY <1>2 DEF NewRefcounted
  <2> QED BY <2>1 DEF ChainOK
<1>3. ASSUME NEW s \in Slots, NEW p \in Dicts, NEW d \in Dicts, NewSub(t, s, p, d)
      PROVE  ChainOK'
  <2>1. p \in live /\ d \notin born
    BY <1>3, ConstantsAssumption DEF NewSub, OwnersLive
  <2>2. /\ born' = born \cup {d} /\ live' = live \cup {d}
        /\ parent'[d] = p /\ chain'[d] = {d} \cup chain[p]
        /\ \A x \in born : parent'[x] = parent[x] /\ chain'[x] = chain[x]
    BY <1>3, <2>1 DEF NewSub
  <2>3. chain[p] \subseteq live /\ chain[p] \subseteq born /\ p \in chain[p]
    BY <2>1 DEF ChainOK
  <2> QED BY <2>1, <2>2, <2>3, ConstantsAssumption DEF ChainOK
<1>4. ASSUME NEW s \in Slots, NEW q \in Slots, AddRef(t, s, q) PROVE ChainOK'
  BY <1>4 DEF AddRef, ChainOK
<1>5. ASSUME NEW s \in Slots, ReleaseSlot(t, s) PROVE ChainOK'
  BY <1>5 DEF ReleaseSlot, ChainOK, dictVars
<1>6. CASE FetchSub(t)
  BY <1>6 DEF FetchSub, ChainOK
(* The dropped dict is in no live chain but its own: it has no live child. *)
<1>7. CASE DropBox(t)
  <2>1. live' = live \ {op[t].at} /\ UNCHANGED <<born, parent, chain>>
    BY <1>7 DEF DropBox
  <2>2. \A c \in live : parent[c] # op[t].at
    BY <1>7, DroppedUnowned
  <2>3. \A d \in live' : op[t].at \notin chain[d]
    BY <2>1, <2>2 DEF ChainOK
  <2> QED BY <2>1, <2>3 DEF ChainOK
<1>8. CASE Quiet(t)
  BY <1>8 DEF Quiet, ChainOK, dictVars
<1> QED BY <1>1, <1>2, <1>3, <1>4, <1>5, <1>6, <1>7, <1>8

-----------------------------------------------------------------------------
(* Calls stay inside the live chain of the dict they were made on.         *)

(* A thread whose step leaves it idle, in a release, or probing its chain, *)
(* keeps the invariant when slots and chains stand still.                  *)
LEMMA ProbesFrame ==
  ASSUME TypeOK, ProbesInChain, NEW t \in Threads, UNCHANGED <<own, chain>>,
         \A u \in Threads \ {t} : op'[u] = op[u],
         \/ op'[t].pc \in ReleasePcs \cup {"idle"}
         \/ /\ own[op'[t].via] = op'[t].self
            /\ op'[t].at # NULL => op'[t].at \in chain[op'[t].self]
  PROVE  ProbesInChain'
BY DEF ProbesInChain, Calling

(* The fields of a probing call.                                           *)
LEMMA ProbeFields ==
  ASSUME TypeOK, OwnersLive, ChainOK, ProbesInChain,
         NEW t \in Threads, op[t].pc \in {"intern", "lookupLocal", "lookup", "owns"}
  PROVE  /\ op[t] \in Probes /\ op[t].self \in live /\ op[t].self \in born
         /\ op[t].self \in Dicts /\ op[t].via \in Slots /\ own[op[t].via] = op[t].self
         /\ op[t].pc # "owns" => op[t].key \in Names
         /\ op[t].at # NULL => op[t].at \in chain[op[t].self]
         /\ chain[op[t].self] \subseteq live /\ op[t].self \in chain[op[t].self]
         /\ \A x \in chain[op[t].self] : parent[x] # NULL => parent[x] \in chain[op[t].self]
<1>1. op[t] \in Probes /\ (op[t].pc # "owns" => op[t].key \in Names)
  BY OpShape DEF Probes, Probing
<1>2. op[t].self \in Dicts /\ op[t].via \in Slots
  BY <1>1 DEF Probes, Probing
<1>3. own[op[t].via] = op[t].self /\ (op[t].at # NULL => op[t].at \in chain[op[t].self])
  BY DEF ProbesInChain, Calling, ReleasePcs
<1>4. op[t].self \in live
  BY <1>2, <1>3, ConstantsAssumption DEF OwnersLive
<1> QED BY <1>1, <1>2, <1>3, <1>4 DEF ChainOK, TypeOK

LEMMA StepProbes ==
  ASSUME TypeOK, TypeOK', OwnersLive, ChainOK, ProbesInChain, Next
  PROVE  ProbesInChain'
<1>1. PICK t \in Threads : Call(t) \/ Step(t)
  BY DEF Next
(* New owners: the slots and chains in use stand still.                    *)
<1>2. ASSUME NEW s \in Slots, own[s] = NULL,
             \A r \in Slots \ {s} : own'[r] = own[r],
             \A d \in born : chain'[d] = chain[d], op' = op
      PROVE  ProbesInChain'
  <2> SUFFICES ASSUME NEW u \in Threads, op[u].pc # "idle", op[u].pc \notin ReleasePcs
               PROVE  /\ own'[op[u].via] = op[u].self
                      /\ op[u].at # NULL => op[u].at \in chain'[op[u].self]
    BY <1>2 DEF ProbesInChain, Calling
  <2>1. op[u].pc \in {"intern", "lookupLocal", "lookup", "owns"}
    BY OpShape DEF Calling, Probes, Probing, Releases, ReleasePcs
  <2> QED BY <1>2, <2>1, ProbeFields, ConstantsAssumption
<1>3. CASE \E s \in Slots, d \in Dicts : NewRefcounted(t, s, d)
  BY <1>2, <1>3 DEF NewRefcounted, TypeOK
<1>4. CASE \E s \in Slots, p, d \in Dicts : NewSub(t, s, p, d)
  BY <1>2, <1>4 DEF NewSub, TypeOK
<1>5. CASE \E s, q \in Slots : AddRef(t, s, q)
  BY <1>2, <1>5 DEF AddRef, TypeOK
<1>6. ASSUME NEW s \in Slots, ReleaseSlot(t, s) PROVE ProbesInChain'
  <2>1. \A u \in Threads : (op[u].pc # "idle" /\ op[u].pc \notin ReleasePcs) => op[u].via # s
    BY <1>6 DEF ReleaseSlot, UsesSlot, Calling
  <2>2. op'[t].pc \in ReleasePcs /\ \A u \in Threads \ {t} : op'[u] = op[u]
    BY <1>6 DEF ReleaseSlot, ReleasePcs, TypeOK
  <2>3. chain' = chain /\ \A r \in Slots \ {s} : own'[r] = own[r]
    BY <1>6 DEF ReleaseSlot, dictVars, TypeOK
  <2> SUFFICES ASSUME NEW u \in Threads, op'[u].pc # "idle", op'[u].pc \notin ReleasePcs
               PROVE  /\ own'[op'[u].via] = op'[u].self
                      /\ op'[u].at # NULL => op'[u].at \in chain'[op'[u].self]
    BY DEF ProbesInChain, Calling
  <2>4. u # t /\ op'[u] = op[u]
    BY <2>2
  <2>5. op[u].pc \in {"intern", "lookupLocal", "lookup", "owns"}
    BY <2>4, OpShape DEF Calling, Probes, Probing, Releases, ReleasePcs
  <2> QED BY <2>1, <2>3, <2>4, <2>5, ProbeFields
<1>7. ASSUME NEW s \in Slots, NEW pc \in {"intern", "lookupLocal", "owns"}, own[s] # NULL,
             NEW at \in {own[s], parent[own[s]]}, NEW key, Begin(t, s, pc, at, key)
      PROVE  ProbesInChain'
  <2>1. op'[t].via = s /\ op'[t].self = own[s] /\ op'[t].at = at
    BY <1>7 DEF Begin, TypeOK
  <2>2. UNCHANGED <<own, chain>> /\ \A u \in Threads \ {t} : op'[u] = op[u]
    BY <1>7 DEF Begin, dictVars, TypeOK
  <2>3. own[s] \in live /\ own[s] \in born
    BY <1>7 DEF OwnersLive, TypeOK
  <2>4. at # NULL => at \in chain[own[s]]
    BY <1>7, <2>3 DEF ChainOK
  <2> QED BY <2>1, <2>2, <2>4, ProbesFrame
<1>8. CASE ProbeBegin(t)
  BY <1>7, <1>8 DEF ProbeBegin, InternBegin, InternFrom, LookupBegin, OwnsBegin
<1>9. CASE FetchSub(t) \/ DropBox(t)
  <2>1. UNCHANGED <<own, chain>> /\ \A u \in Threads \ {t} : op'[u] = op[u]
    BY <1>9 DEF FetchSub, DropBox, TypeOK
  <2>2. op'[t].pc \in ReleasePcs \cup {"idle"}
    BY <1>9 DEF FetchSub, DropBox, AfterDrop, Idle, ReleasePcs, TypeOK
  <2> QED BY <2>1, <2>2, ProbesFrame
<1>10. CASE ProbeStep(t)
  <2>1. op[t].pc \in {"intern", "lookupLocal", "lookup", "owns"}
    BY <1>10 DEF ProbeStep, InternWalk, LookupWalk, Probe, InternLocal, LookupLocal,
                 LookupMissed, OwnsProbe, OwnsMissed, InCall
  <2>2. UNCHANGED <<own, chain>> /\ \A u \in Threads \ {t} : op'[u] = op[u]
    BY <1>10, QuietStep DEF Quiet, dictVars
  <2>3. \/ op' = [op EXCEPT ![t] = Idle]
        \/ \E x \in chain[op[t].self] :
             \/ op' = [op EXCEPT ![t].at = parent[x]]
             \/ op' = [op EXCEPT ![t].pc = "lookup", ![t].at = parent[x]]
    BY <1>10, <2>1, ProbeFields
       DEF ProbeStep, InternWalk, LookupWalk, Probe, InternLocal, LookupLocal, LookupMissed,
           OwnsProbe, OwnsNext, OwnsMissed, Hand, Return, InCall, WalkNext
  <2>4. CASE op' = [op EXCEPT ![t] = Idle]
    BY <2>2, <2>4, ProbesFrame DEF Idle, TypeOK
  <2>5. ASSUME NEW x \in chain[op[t].self],
               \/ op' = [op EXCEPT ![t].at = parent[x]]
               \/ op' = [op EXCEPT ![t].pc = "lookup", ![t].at = parent[x]]
        PROVE  ProbesInChain'
    <3>1. op'[t].via = op[t].via /\ op'[t].self = op[t].self /\ op'[t].at = parent[x]
      BY <2>1, <2>5, ProbeFields DEF Probes, Probing, TypeOK
    <3> QED BY <2>1, <2>2, <3>1, ProbeFields, ProbesFrame
  <2> QED BY <2>3, <2>4, <2>5
<1>11. Call(t) => \/ \E s \in Slots, d \in Dicts : NewRefcounted(t, s, d)
                  \/ \E s \in Slots, p, d \in Dicts : NewSub(t, s, p, d)
                  \/ \E s, q \in Slots : AddRef(t, s, q)
                  \/ \E s \in Slots : ReleaseSlot(t, s)
                  \/ ProbeBegin(t)
  BY DEF Call, ProbeBegin
<1>12. Step(t) => FetchSub(t) \/ DropBox(t) \/ ProbeStep(t)
  BY DEF Step, ProbeStep
<1> QED BY <1>1, <1>3, <1>4, <1>5, <1>6, <1>8, <1>9, <1>10, <1>11, <1>12

-----------------------------------------------------------------------------
(* Canonical buffers.                                                      *)

(* A call that inserts a name inserts a fresh buffer into a live dict;     *)
(* every other step leaves the tables alone, and hands out an entry of the *)
(* chain or nothing.                                                       *)
Inserted(d, n, p) ==
  /\ d \in live /\ n \in Names /\ p \in Ptrs \ ptrs /\ table[d][n] = NULL
  /\ table' = [table EXCEPT ![d][n] = p] /\ ptrs' = ptrs \cup {p}
  /\ handed' = handed \cup {<<d, n, p>>}
  /\ UNCHANGED <<dictVars, freed>>

HandsOut ==
  \/ handed' = handed
  \/ \E d \in live, n \in Names : \E a \in chain[d] :
       handed' = handed \cup {<<d, n, table[a][n]>>} /\ UNCHANGED dictVars

LEMMA TableCases ==
  ASSUME TypeOK, OwnersLive, ChainOK, ProbesInChain, Next
  PROVE  \/ \E d \in Dicts, n \in Names, p \in Ptrs : Inserted(d, n, p)
         \/ UNCHANGED <<table, ptrs>> /\ HandsOut
<1>1. PICK t \in Threads : Call(t) \/ Step(t)
  BY DEF Next
<1>2. CASE Call(t)
  BY <1>2 DEF Call, NewRefcounted, NewSub, AddRef, ReleaseSlot, InternBegin, LookupBegin,
              OwnsBegin, Begin, bufVars, HandsOut
<1>3. CASE FetchSub(t) \/ DropBox(t) \/ LookupMissed(t) \/ OwnsProbe(t) \/ OwnsMissed(t)
  BY <1>3 DEF FetchSub, DropBox, LookupMissed, OwnsProbe, OwnsMissed, bufVars, HandsOut
<1>4. CASE InternWalk(t) \/ LookupWalk(t)
  <2>1. op[t].pc \in {"intern", "lookup"} /\ op[t].at # NULL
    BY <1>4 DEF InternWalk, LookupWalk, Probe, InCall
  <2>2. op[t].self \in live /\ op[t].key \in Names /\ op[t].at \in chain[op[t].self]
    BY <2>1, ProbeFields
  <2>3. UNCHANGED <<table, ptrs, dictVars>>
    BY <1>4 DEF InternWalk, LookupWalk, Probe, bufVars
  <2>4. \/ handed' = handed
        \/ handed' = handed \cup {<<op[t].self, op[t].key, table[op[t].at][op[t].key]>>}
    BY <1>4 DEF InternWalk, LookupWalk, Probe, Hand
  <2> QED BY <2>2, <2>3, <2>4 DEF HandsOut
<1>5. CASE LookupLocal(t)
  <2>1. op[t].self \in live /\ op[t].key \in Names /\ op[t].self \in chain[op[t].self]
    BY <1>5, ProbeFields DEF LookupLocal, InCall
  <2>2. UNCHANGED <<table, ptrs, dictVars>>
    BY <1>5 DEF LookupLocal, bufVars
  <2>3. \/ handed' = handed
        \/ handed' = handed \cup {<<op[t].self, op[t].key, table[op[t].self][op[t].key]>>}
    BY <1>5 DEF LookupLocal, Hand
  <2> QED BY <2>1, <2>2, <2>3 DEF HandsOut
<1>6. CASE InternLocal(t)
  <2>1. op[t].self \in live /\ op[t].key \in Names /\ op[t].self \in chain[op[t].self]
    BY <1>6, ProbeFields DEF InternLocal, InCall
  <2>2. UNCHANGED dictVars
    BY <1>6 DEF InternLocal
  <2>3. CASE Hit(op[t].self, op[t].key)
    <3>1. UNCHANGED <<table, ptrs>>
      BY <1>6, <2>3 DEF InternLocal, Known, bufVars
    <3>2. handed' = handed \cup {<<op[t].self, op[t].key, table[op[t].self][op[t].key]>>}
      BY <1>6, <2>3 DEF InternLocal, Known, Hand
    <3> QED BY <2>1, <2>2, <3>1, <3>2 DEF HandsOut
  <2>4. CASE ~Hit(op[t].self, op[t].key)
    <3>1. PICK p \in Ptrs \ ptrs :
            /\ ptrs' = ptrs \cup {p}
            /\ table' = [table EXCEPT ![op[t].self][op[t].key] = p]
            /\ Hand(t, p)
      BY <1>6, <2>4 DEF InternLocal, Known
    <3>2. freed' = freed
      BY <1>6, <2>4 DEF InternLocal, Known
    <3>3. Inserted(op[t].self, op[t].key, p)
      BY <2>1, <2>2, <2>4, <3>1, <3>2 DEF Inserted, Hand, Hit
    <3> QED BY <2>1, <3>3 DEF TypeOK
  <2> QED BY <2>3, <2>4
<1> QED BY <1>1, <1>2, <1>3, <1>4, <1>5, <1>6 DEF Step

(* The buffers that die are those of a dict that dies.                     *)
LEMMA FreedCases ==
  ASSUME TypeOK, RefcountExact, OwnersLive, DropsAlone, Next
  PROVE  /\ born \subseteq born' /\ live' \cap born \subseteq live
         /\ \A d \in born : chain'[d] = chain[d]
         /\ \/ freed' = freed
            \/ \E d \in live : /\ live' = live \ {d} /\ UNCHANGED <<born, table>>
                              /\ freed' = freed \cup ({table[d][n] : n \in Names} \ {NULL})
<1>1. PICK t \in Threads : Call(t) \/ Step(t)
  BY DEF Next
<1>2. CASE Call(t)
  BY <1>2 DEF Call, NewRefcounted, NewSub, AddRef, ReleaseSlot, InternBegin, LookupBegin,
              OwnsBegin, Begin, bufVars, dictVars, TypeOK
<1>3. CASE DropBox(t)
  <2>1. op[t].at \in live
    BY <1>3, DroppedUnowned
  <2> QED BY <1>3, <2>1 DEF DropBox
<1>4. CASE FetchSub(t)
  BY <1>4 DEF FetchSub, bufVars
<1>5. CASE ProbeStep(t)
  BY <1>5 DEF ProbeStep, InternWalk, LookupWalk, Probe, InternLocal, LookupLocal,
              LookupMissed, OwnsProbe, OwnsMissed, dictVars, bufVars
<1> QED BY <1>1, <1>2, <1>3, <1>4, <1>5 DEF Step, ProbeStep

LEMMA StepBuffers ==
  ASSUME TypeOK, TypeOK', RefcountExact, OwnersLive, DropsAlone, ChainOK, ProbesInChain,
         BuffersOK, Next
  PROVE  BuffersOK'
<1>1. CASE UNCHANGED <<table, ptrs>>
  <2>1. /\ \A d \in Dicts, n \in Names : table'[d][n] # NULL =>
             d \in born' /\ table'[d][n] \in ptrs'
        /\ \A d, e \in Dicts : \A n, m \in Names :
             (table'[d][n] # NULL /\ table'[d][n] = table'[e][m]) => d = e /\ n = m
    BY <1>1, FreedCases DEF BuffersOK
  <2>2. ASSUME NEW p \in freed' PROVE \E d \in born' \ live' : \E n \in Names : table'[d][n] = p
    <3>1. CASE p \in freed
      BY <1>1, <3>1, FreedCases DEF BuffersOK
    <3>2. CASE p \notin freed
      <4>1. PICK d \in live : /\ live' = live \ {d} /\ UNCHANGED <<born, table>>
                             /\ freed' = freed \cup ({table[d][n] : n \in Names} \ {NULL})
        BY <2>2, <3>2, FreedCases
      <4> QED BY <2>2, <3>2, <4>1 DEF TypeOK
    <3> QED BY <3>1, <3>2
  <2> QED BY <2>1, <2>2 DEF BuffersOK
<1>2. ASSUME NEW d \in Dicts, NEW n \in Names, NEW p \in Ptrs, Inserted(d, n, p)
      PROVE  BuffersOK'
  <2>1. /\ table'[d][n] = p /\ p # NULL /\ p \notin ptrs /\ d \in live /\ d \in born
        /\ \A e \in Dicts, m \in Names : (e # d \/ m # n) => table'[e][m] = table[e][m]
        /\ ptrs' = ptrs \cup {p} /\ UNCHANGED <<born, live, freed>>
    BY <1>2, ConstantsAssumption DEF Inserted, TypeOK, dictVars
  <2>2. \A e \in Dicts, m \in Names : table'[e][m] # NULL =>
          e \in born' /\ table'[e][m] \in ptrs'
    BY <2>1 DEF BuffersOK
  <2>3. \A e, f \in Dicts : \A k, m \in Names :
          (table'[e][k] # NULL /\ table'[e][k] = table'[f][m]) => e = f /\ k = m
    BY <2>1 DEF BuffersOK
  <2>4. \A q \in freed' : \E e \in born' \ live' : \E m \in Names : table'[e][m] = q
    <3> SUFFICES ASSUME NEW q \in freed
                 PROVE  \E e \in born \ live : \E m \in Names : table'[e][m] = q
      BY <2>1
    <3>1. PICK e \in born \ live : \E m \in Names : table[e][m] = q
      BY DEF BuffersOK
    <3> QED BY <2>1, <3>1 DEF TypeOK
  <2> QED BY <2>2, <2>3, <2>4 DEF BuffersOK
<1> QED BY <1>1, <1>2, TableCases

LEMMA StepHanded ==
  ASSUME TypeOK, TypeOK', RefcountExact, OwnersLive, DropsAlone, ChainOK, ProbesInChain,
         HandedInChain, Next
  PROVE  HandedInChain'
<1>1. born \subseteq born' /\ \A d \in born : chain'[d] = chain[d]
  BY FreedCases
<1>2. CASE UNCHANGED <<table, ptrs>> /\ HandsOut
  <2>1. CASE handed' = handed
    BY <1>1, <1>2, <2>1 DEF HandedInChain
  <2>2. ASSUME NEW d \in live, NEW n \in Names, NEW a \in chain[d],
               handed' = handed \cup {<<d, n, table[a][n]>>}, UNCHANGED dictVars
        PROVE  HandedInChain'
    BY <1>1, <1>2, <2>2 DEF HandedInChain, dictVars, TypeOK
  <2> QED BY <1>2, <2>1, <2>2 DEF HandsOut
<1>3. ASSUME NEW d \in Dicts, NEW n \in Names, NEW p \in Ptrs, Inserted(d, n, p)
      PROVE  HandedInChain'
  <2>1. /\ table'[d][n] = p /\ d \in live /\ d \in born /\ d \in chain[d]
        /\ \A e \in Dicts, m \in Names : table[e][m] # NULL => table'[e][m] = table[e][m]
        /\ handed' = handed \cup {<<d, n, p>>} /\ UNCHANGED <<born, chain>>
    BY <1>3 DEF Inserted, TypeOK, dictVars, ChainOK
  <2> SUFFICES ASSUME NEW h \in handed
               PROVE  h[1] \in born /\ \E a \in chain[h[1]] : table'[a][h[2]] = h[3]
    BY <2>1 DEF HandedInChain
  <2>2. h[1] \in born /\ h[1] \in Dicts /\ h[2] \in Names /\ h[3] \in Ptrs /\ chain[h[1]] \subseteq Dicts
    BY DEF HandedInChain, TypeOK
  <2>3. PICK a \in chain[h[1]] : table[a][h[2]] = h[3]
    BY DEF HandedInChain
  <2> QED BY <2>1, <2>2, <2>3, ConstantsAssumption
<1> QED BY <1>2, <1>3, TableCases

-----------------------------------------------------------------------------
(* The inductive invariant and the theorems.                               *)

LEMMA InitInv == Init => IInv
<1> SUFFICES ASSUME Init PROVE IInv
  OBVIOUS
<1>1. TypeOK
  BY InitType
<1>2. RefcountExact
  <2>1. \A d \in Dicts : SlotsOf(d) = {} /\ SubsOf(d) = {} /\ GiversOf(d) = {}
    BY ConstantsAssumption DEF Init, SlotsOf, SubsOf, GiversOf, Idle
  <2> QED BY <2>1, FS_EmptySet DEF Init, RefcountExact
<1>3. OwnersLive /\ DropsAlone /\ ProbesInChain
  BY DEF Init, OwnersLive, DropsAlone, ProbesInChain, Idle, ReleasePcs, Calling
<1>4. ChainOK /\ BuffersOK /\ HandedInChain
  BY DEF Init, ChainOK, BuffersOK, HandedInChain
<1> QED BY <1>1, <1>2, <1>3, <1>4 DEF IInv

LEMMA StepInv == IInv /\ [Next]_vars => IInv'
<1> SUFFICES ASSUME IInv, [Next]_vars PROVE IInv'
  OBVIOUS
<1> USE DEF IInv
<1>1. CASE UNCHANGED vars
  <2> USE <1>1 DEF vars
  <2>1. TypeOK'
    BY DEF TypeOK
  <2>2. RefcountExact'
    BY DEF RefcountExact, SlotsOf, SubsOf, GiversOf
  <2>3. OwnersLive' /\ DropsAlone'
    BY DEF OwnersLive, DropsAlone
  <2>4. ChainOK'
    BY DEF ChainOK
  <2>5. ProbesInChain'
    BY DEF ProbesInChain, Calling
  <2>6. BuffersOK' /\ HandedInChain'
    BY DEF BuffersOK, HandedInChain
  <2> QED BY <2>1, <2>2, <2>3, <2>4, <2>5, <2>6
<1>2. CASE Next
  <2>1. TypeOK'
    BY StepType, GiverCounted
  <2>2. RefcountExact' /\ OwnersLive' /\ DropsAlone' /\ ChainOK'
    BY <1>2, <2>1, StepRefcount, StepOwners, StepDrops, StepChain
  <2>3. ProbesInChain'
    BY <1>2, <2>1, StepProbes
  <2>4. BuffersOK' /\ HandedInChain'
    BY <1>2, <2>1, StepBuffers, StepHanded
  <2> QED BY <2>1, <2>2, <2>3, <2>4
<1> QED BY <1>1, <1>2

LEMMA Invariance == Spec => []IInv
<1> QED BY InitInv, StepInv, PTL DEF Spec

(* The variables of the interner keep their types.                         *)
THEOREM TypeCorrect == Spec => []TypeOK
<1>1. IInv => TypeOK
  BY DEF IInv
<1> QED BY <1>1, Invariance, PTL

(* The counter of each dict is the number of its owners in every state:    *)
(* slots, live sub-dicts and releases under way.                           *)
THEOREM RefcountIsExact == Spec => []RefcountExact
<1>1. IInv => RefcountExact
  BY DEF IInv
<1> QED BY <1>1, Invariance, PTL

(* No call touches a freed dict, on itself or anywhere up its chain, and a *)
(* dict is dropped by one thread while nobody else uses it.                *)
THEOREM NoDictUsedAfterFree == Spec => []NoUseAfterFree
<1>1. IInv => NoUseAfterFree
  <2> SUFFICES ASSUME IInv, NEW t \in Threads, Calling(t)
               PROVE  /\ op[t].at # NULL => op[t].at \in live
                      /\ op[t].pc \notin ReleasePcs => op[t].self \in live
                      /\ op[t].pc = "drop" =>
                           \A u \in Threads \ {t} : Calling(u) => op[u].at # op[t].at
    BY DEF NoUseAfterFree
  <2> USE DEF IInv
  <2>1. CASE op[t].pc \notin ReleasePcs
    <3>1. op[t].pc \in {"intern", "lookupLocal", "lookup", "owns"}
      BY <2>1, OpShape DEF Probes, Probing, Releases, ReleasePcs
    <3> QED BY <2>1, <3>1, ProbeFields DEF ReleasePcs
  <2>2. CASE op[t].pc \in ReleasePcs
    <3>1. op[t].at \in live
      BY <2>2 DEF OwnersLive
    <3>2. ASSUME op[t].pc = "drop", NEW u \in Threads \ {t}, Calling(u), op[u].at = op[t].at
          PROVE  FALSE
      <4>1. op[t].at \in Dicts /\ refcount[op[t].at] = 0
        BY <3>1, <3>2 DEF DropsAlone, TypeOK
      <4>2. SlotsOf(op[t].at) = {} /\ SubsOf(op[t].at) = {} /\ GiversOf(op[t].at) = {}
        BY <4>1, CountedOwners
      <4>3. CASE op[u].pc \in ReleasePcs
        <5>1. op[u] \in Releases
          BY <4>3, OpShape
        <5>2. op[u].pc # "drop"
          BY <3>2 DEF DropsAlone
        <5> QED BY <3>2, <4>2, <4>3, <5>1, <5>2 DEF GiversOf, Releases, ReleasePcs
      <4>4. CASE op[u].pc \notin ReleasePcs
        <5>1. op[u].pc \in {"intern", "lookupLocal", "lookup", "owns"}
          BY <3>2, <4>4, OpShape DEF Probes, Probing, Releases, ReleasePcs
        <5>2. /\ op[u].self \in born /\ op[u].via \in Slots /\ own[op[u].via] = op[u].self
              /\ op[u].at \in chain[op[u].self] /\ chain[op[u].self] \subseteq live
          BY <3>2, <4>1, <5>1, ProbeFields, ConstantsAssumption
        <5>3. CASE op[u].at = op[u].self
          BY <3>2, <4>2, <5>2, <5>3 DEF SlotsOf
        <5>4. CASE op[u].at # op[u].self
          <6>1. PICK y \in chain[op[u].self] : parent[y] = op[u].at
            BY <5>2, <5>4 DEF ChainOK
          <6> QED BY <3>2, <4>2, <5>2, <6>1 DEF SubsOf
        <5> QED BY <5>3, <5>4
      <4> QED BY <4>3, <4>4
    <3> QED BY <2>2, <3>1, <3>2
  <2> QED BY <2>1, <2>2
<1> QED BY <1>1, Invariance, PTL

(* A pointer that intern or lookup returned for a dict is not freed while  *)
(* that dict is live.                                                      *)
THEOREM HandedPointersLive == Spec => []HandedLive
<1>1. IInv => HandedLive
  <2> SUFFICES ASSUME IInv, NEW h \in handed, h[1] \in live, h[3] \in freed PROVE FALSE
    BY DEF HandedLive
  <2> USE DEF IInv
  <2>1. h[1] \in Dicts /\ h[2] \in Names /\ h[3] \in Ptrs
    BY DEF TypeOK
  <2>2. PICK a \in chain[h[1]] : table[a][h[2]] = h[3]
    BY DEF HandedInChain
  <2>3. PICK d \in born \ live : \E n \in Names : table[d][n] = h[3]
    BY DEF BuffersOK
  <2>4. a \in live
    BY <2>2 DEF ChainOK, TypeOK
  <2>5. a = d
    BY <2>1, <2>2, <2>3, <2>4, ConstantsAssumption DEF BuffersOK, TypeOK
  <2> QED BY <2>3, <2>4, <2>5
<1> QED BY <1>1, Invariance, PTL

(* A root dict never hands out two pointers for one name, whatever the     *)
(* threads that intern it do.                                              *)
THEOREM RootPointersStable == Spec => []RootPointerStable
<1>1. IInv => RootPointerStable
  <2> SUFFICES ASSUME IInv, NEW h \in handed, NEW k \in handed,
                      h[1] = k[1], h[2] = k[2], parent[h[1]] = NULL
               PROVE  h[3] = k[3]
    BY DEF RootPointerStable
  <2>1. chain[h[1]] = {h[1]}
    BY DEF IInv, HandedInChain, ChainOK
  <2> QED BY <2>1 DEF IInv, HandedInChain
<1> QED BY <1>1, Invariance, PTL

-----------------------------------------------------------------------------
(* Walks up the chain.                                                     *)

(* The chain of a sub-dict is itself and the chain of its parent, without  *)
(* a cycle.                                                                *)
ChainSteps ==
  \A d \in born : parent[d] # NULL =>
    /\ parent[d] \in born /\ d \notin chain[parent[d]]
    /\ chain[d] = {d} \cup chain[parent[d]]

(* The side set of a dict knows every pointer of its table.                *)
OwnedOK == \A d \in Dicts, n \in Names : Hit(d, n) => table[d][n] \in owned[d]

(* What a walk looks for is still ahead of it: an owns call has not passed *)
(* a dict that owns its pointer, an intern call not the last ancestor that *)
(* holds its name.                                                         *)
WalksAhead ==
  \A t \in Threads :
    /\ op[t].pc = "owns" =>
         /\ op[t].key \in ptrs
         /\ \A x \in chain[op[t].self] : op[t].key \in owned[x] =>
              op[t].at # NULL /\ x \in chain[op[t].at]
    /\ (op[t].pc = "intern" /\ op[t].held) =>
         op[t].at # NULL /\ \E x \in chain[op[t].at] : Hit(x, op[t].key)

(* A live dict without a reference is being dropped.                       *)
ZeroIsDropped ==
  \A d \in live : refcount[d] = 0 =>
    \E t \in Threads : op[t].pc = "drop" /\ op[t].at = d

WalkInv == ChainSteps /\ OwnedOK /\ WalksAhead /\ ZeroIsDropped

(* Chains in use stand still, tables only grow, and a side set gains fresh *)
(* pointers only.                                                          *)
Grows ==
  /\ born \subseteq born' /\ ptrs \subseteq ptrs'
  /\ \A d \in born : chain'[d] = chain[d] /\ parent'[d] = parent[d]
  /\ \A d \in Dicts, n \in Names : Hit(d, n) => table'[d][n] = table[d][n]
  /\ \A d \in Dicts : owned[d] \subseteq owned'[d] /\ owned'[d] \cap ptrs \subseteq owned[d]

LEMMA StepGrows ==
  ASSUME TypeOK, Next
  PROVE  Grows
<1> USE DEF TypeOK
<1>1. PICK t \in Threads : Call(t) \/ Step(t)
  BY DEF Next
<1>2. CASE Call(t)
  <2>1. ASSUME NEW s \in Slots, NEW d \in Dicts, NewRefcounted(t, s, d) PROVE Grows
    BY <2>1 DEF NewRefcounted, bufVars, Grows
  <2>2. ASSUME NEW s \in Slots, NEW p \in Dicts, NEW d \in Dicts, NewSub(t, s, p, d)
        PROVE  Grows
    BY <2>2 DEF NewSub, bufVars, Grows
  <2>3. CASE UNCHANGED <<born, chain, parent, bufVars>>
    BY <2>3 DEF bufVars, Grows
  <2> QED BY <1>2, <2>1, <2>2, <2>3
       DEF Call, AddRef, ReleaseSlot, InternBegin, LookupBegin, OwnsBegin, Begin, dictVars
<1>3. CASE FetchSub(t) \/ DropBox(t)
  BY <1>3 DEF FetchSub, DropBox, bufVars, Grows
<1>4. CASE ProbeStep(t) /\ ~InternLocal(t)
  BY <1>4 DEF ProbeStep, InternWalk, LookupWalk, Probe, LookupLocal, LookupMissed, OwnsProbe,
              OwnsMissed, dictVars, bufVars, Grows
<1>5. CASE InternLocal(t)
  <2>1. op[t] \in Probing({"intern", "lookupLocal", "lookup"}, Names)
    BY <1>5, OpShape DEF InternLocal, InCall
  <2>2. op[t].self \in Dicts /\ op[t].key \in Names
    BY <2>1 DEF Probing
  <2>3. CASE Hit(op[t].self, op[t].key)
    BY <1>5, <2>3 DEF InternLocal, Known, dictVars, bufVars, Grows
  <2>4. CASE ~Hit(op[t].self, op[t].key)
    <3>1. PICK p \in Ptrs \ ptrs :
            /\ ptrs' = ptrs \cup {p}
            /\ owned' = [owned EXCEPT ![op[t].self] = @ \cup {p}]
            /\ table' = [table EXCEPT ![op[t].self][op[t].key] = p]
      BY <1>5, <2>4 DEF InternLocal, Known
    <3>2. \A d \in Dicts, n \in Names : Hit(d, n) => table'[d][n] = table[d][n]
      BY <2>2, <2>4, <3>1 DEF Hit
    <3>3. \A d \in Dicts : owned[d] \subseteq owned'[d] /\ owned'[d] \cap ptrs \subseteq owned[d]
      BY <2>2, <3>1
    <3> QED BY <1>5, <3>1, <3>2, <3>3 DEF InternLocal, dictVars, Grows
  <2> QED BY <2>3, <2>4
<1> QED BY <1>1, <1>2, <1>3, <1>4, <1>5 DEF Step, ProbeStep

LEMMA StepChainSteps ==
  ASSUME TypeOK, OwnersLive, ChainOK, ChainSteps, Next
  PROVE  ChainSteps'
<1> USE DEF TypeOK
<1>1. CASE born' = born
  BY <1>1, StepGrows DEF Grows, ChainSteps
<1>2. ASSUME NEW t \in Threads, NEW s \in Slots, NEW d \in Dicts, NewRefcounted(t, s, d)
      PROVE  ChainSteps'
  BY <1>2 DEF NewRefcounted, ChainSteps
<1>3. ASSUME NEW t \in Threads, NEW s \in Slots, NEW p \in Dicts, NEW d \in Dicts,
             NewSub(t, s, p, d)
      PROVE  ChainSteps'
  <2>1. p \in live /\ p \in born /\ d \notin born
    BY <1>3, ConstantsAssumption DEF NewSub, OwnersLive
  <2>2. /\ born' = born \cup {d} /\ parent'[d] = p /\ chain'[d] = {d} \cup chain[p]
        /\ \A x \in born : parent'[x] = parent[x] /\ chain'[x] = chain[x]
    BY <1>3, <2>1 DEF NewSub
  <2>3. chain[p] \subseteq born
    BY <2>1 DEF ChainOK
  <2> QED BY <2>1, <2>2, <2>3 DEF ChainSteps
<1>4. \/ born' = born
      \/ \E t \in Threads, s \in Slots, d \in Dicts : NewRefcounted(t, s, d)
      \/ \E t \in Threads, s \in Slots, p, d \in Dicts : NewSub(t, s, p, d)
  <2>1. PICK t \in Threads :
           \/ \E s \in Slots, d \in Dicts : NewRefcounted(t, s, d)
           \/ \E s \in Slots, p, d \in Dicts : NewSub(t, s, p, d)
           \/ \E s, q \in Slots : AddRef(t, s, q)
           \/ \E s \in Slots : ReleaseSlot(t, s)
           \/ FetchSub(t) \/ DropBox(t)
           \/ Quiet(t)
    BY NextCases
  <2> QED BY <2>1 DEF AddRef, ReleaseSlot, FetchSub, DropBox, Quiet, dictVars
<1> QED BY <1>1, <1>2, <1>3, <1>4

LEMMA StepOwned ==
  ASSUME TypeOK, OwnersLive, ChainOK, ProbesInChain, OwnedOK, Next
  PROVE  OwnedOK'
<1> USE DEF TypeOK
<1>1. PICK t \in Threads : Call(t) \/ Step(t)
  BY DEF Next
<1>2. CASE UNCHANGED <<table, owned>>
  BY <1>2 DEF OwnedOK, Hit
<1>3. CASE Call(t)
  BY <1>2, <1>3 DEF Call, NewRefcounted, NewSub, AddRef, ReleaseSlot, InternBegin, LookupBegin,
              OwnsBegin, Begin, bufVars
<1>4. CASE Step(t) /\ ~InternLocal(t)
  BY <1>2, <1>4 DEF Step, FetchSub, DropBox, InternWalk, LookupWalk, Probe, LookupLocal,
              LookupMissed, OwnsProbe, OwnsMissed, bufVars
<1>5. CASE InternLocal(t)
  <2>1. op[t].self \in Dicts /\ op[t].key \in Names
    BY <1>5, ProbeFields DEF InternLocal, InCall
  <2>2. CASE Hit(op[t].self, op[t].key)
    BY <1>2, <1>5, <2>2 DEF InternLocal, Known, bufVars
  <2>3. CASE ~Hit(op[t].self, op[t].key)
    <3>1. PICK p \in Ptrs \ ptrs :
            /\ owned' = [owned EXCEPT ![op[t].self] = @ \cup {p}]
            /\ table' = [table EXCEPT ![op[t].self][op[t].key] = p]
      BY <1>5, <2>3 DEF InternLocal, Known
    <3> QED BY <2>1, <3>1 DEF OwnedOK, Hit
  <2> QED BY <2>2, <2>3
<1> QED BY <1>1, <1>3, <1>4, <1>5

(* A walk that its own step leaves alone stays ahead.                      *)
LEMMA WalkFrame ==
  ASSUME TypeOK, ChainOK, OwnersLive, ProbesInChain, WalksAhead, Grows,
         NEW u \in Threads, op'[u] = op[u]
  PROVE  /\ op'[u].pc = "owns" =>
              /\ op'[u].key \in ptrs'
              /\ \A x \in chain'[op'[u].self] : op'[u].key \in owned'[x] =>
                   op'[u].at # NULL /\ x \in chain'[op'[u].at]
         /\ (op'[u].pc = "intern" /\ op'[u].held) =>
              op'[u].at # NULL /\ \E x \in chain'[op'[u].at] : table'[x][op'[u].key] # NULL
<1>1. CASE op[u].pc \in {"owns", "intern"}
  <2>1. op[u].self \in born /\ (op[u].at # NULL => op[u].at \in chain[op[u].self])
    BY <1>1, ProbeFields
  <2>2. chain[op[u].self] \subseteq born /\ born \subseteq Dicts
    BY <2>1 DEF ChainOK, TypeOK
  <2>3. \A d \in born : chain'[d] = chain[d] /\ chain[d] \subseteq Dicts
    BY DEF Grows, TypeOK
  <2>4. \A d \in born : op[u].key \in ptrs /\ op[u].key \in owned'[d] => op[u].key \in owned[d]
    BY DEF Grows, TypeOK
  <2>5. op[u].pc = "intern" => op[u].key \in Names
    BY ProbeFields
  <2>6. \A d \in Dicts, n \in Names : Hit(d, n) => table'[d][n] # NULL
    BY DEF Grows, Hit
  <2>7. CASE op[u].pc = "owns"
    BY <2>1, <2>2, <2>3, <2>4, <2>7 DEF WalksAhead, Grows
  <2>8. CASE op[u].pc = "intern" /\ op[u].held
    <3>1. PICK x \in chain[op[u].at] : op[u].at # NULL /\ Hit(x, op[u].key)
      BY <2>8 DEF WalksAhead
    <3>2. op[u].at \in born /\ x \in Dicts /\ table'[x][op[u].key] # NULL
      BY <2>1, <2>2, <2>3, <2>5, <2>6, <2>8, <3>1
    <3>3. chain'[op[u].at] = chain[op[u].at]
      BY <2>3, <3>2
    <3> QED BY <2>8, <3>1, <3>2, <3>3
  <2> QED BY <2>7, <2>8
<1> QED BY <1>1

(* The two conditions of WalksAhead, for one thread.                       *)
Ahead(t) ==
  /\ op[t].pc = "owns" =>
       /\ op[t].key \in ptrs
       /\ \A x \in chain[op[t].self] : op[t].key \in owned[x] =>
            op[t].at # NULL /\ x \in chain[op[t].at]
  /\ (op[t].pc = "intern" /\ op[t].held) =>
       op[t].at # NULL /\ \E x \in chain[op[t].at] : Hit(x, op[t].key)

LEMMA StepWalks ==
  ASSUME TypeOK, OwnersLive, ChainOK, ProbesInChain, ChainSteps, WalksAhead, Next
  PROVE  WalksAhead'
<1> USE DEF TypeOK
<1>1. Grows
  BY StepGrows
<1>2. ASSUME NEW u \in Threads, op'[u] = op[u] PROVE Ahead(u)'
  BY <1>1, <1>2, WalkFrame DEF Ahead, Hit
<1>3. ASSUME NEW u \in Threads, op'[u].pc \notin {"owns", "intern"} PROVE Ahead(u)'
  BY <1>3 DEF Ahead
<1>4. PICK t \in Threads : Call(t) \/ Step(t)
  BY DEF Next
<1>5. \A u \in Threads \ {t} : op'[u] = op[u]
  <2>1. CASE op' = op
    BY <2>1
  <2>2. CASE ProbeBegin(t)
    BY <2>2, QuietBegin DEF Quiet
  <2>3. CASE ProbeStep(t)
    BY <2>3, QuietStep DEF Quiet
  <2>4. CASE (\E s \in Slots : ReleaseSlot(t, s)) \/ FetchSub(t) \/ DropBox(t)
    BY <2>4 DEF ReleaseSlot, FetchSub, DropBox
  <2> QED BY <1>4, <2>1, <2>2, <2>3, <2>4
       DEF Call, Step, ProbeBegin, ProbeStep, NewRefcounted, NewSub, AddRef
<1> SUFFICES Ahead(t)'
  BY <1>2, <1>5 DEF WalksAhead, Ahead
<1>6. CASE \/ \E s \in Slots, d \in Dicts : NewRefcounted(t, s, d)
           \/ \E s \in Slots, p, d \in Dicts : NewSub(t, s, p, d)
           \/ \E s, q \in Slots : AddRef(t, s, q)
  BY <1>2, <1>6 DEF NewRefcounted, NewSub, AddRef
<1>7. CASE (\E s \in Slots : ReleaseSlot(t, s)) \/ FetchSub(t) \/ DropBox(t)
  BY <1>3, <1>7 DEF ReleaseSlot, FetchSub, DropBox, AfterDrop, Idle
(* A call begins with all of its way ahead.                                *)
<1>8. ASSUME NEW s \in Slots, NEW n \in Names, InternBegin(t, s, n) PROVE Ahead(t)'
  <2>1. /\ op'[t].pc = "intern" /\ op'[t].at = parent[own[s]] /\ op'[t].key = n
        /\ op'[t].held = HeldAbove(own[s], n) /\ UNCHANGED <<chain, table>>
    BY <1>8 DEF InternBegin, InternFrom, Begin, dictVars, bufVars
  <2>2. own[s] \in born
    BY <1>8 DEF InternBegin, OwnersLive
  <2>3. ASSUME HeldAbove(own[s], n)
        PROVE  parent[own[s]] # NULL /\ \E x \in chain[parent[own[s]]] : Hit(x, n)
    BY <2>2, <2>3 DEF HeldAbove, ChainOK, ChainSteps
  <2> QED BY <2>1, <2>3 DEF Ahead, Hit
<1>9. ASSUME NEW s \in Slots, NEW p \in Ptrs, OwnsBegin(t, s, p) PROVE Ahead(t)'
  <2>1. /\ op'[t].pc = "owns" /\ op'[t].at = own[s] /\ op'[t].self = own[s] /\ op'[t].key = p
        /\ own[s] # NULL /\ p \in ptrs /\ UNCHANGED <<chain, ptrs>>
    BY <1>9 DEF OwnsBegin, Begin, dictVars, bufVars
  <2> QED BY <2>1 DEF Ahead
<1>10. ASSUME NEW s \in Slots, NEW n \in Names, LookupBegin(t, s, n) PROVE Ahead(t)'
  BY <1>3, <1>10 DEF LookupBegin, Begin
(* A turn of a walk passes one dict, in which it found nothing.            *)
<1>11. CASE InternWalk(t)
  <2> DEFINE a == op[t].at
  <2>1. op[t].pc = "intern" /\ a # NULL /\ UNCHANGED <<chain, table>>
    BY <1>11 DEF InternWalk, Probe, InCall, dictVars, bufVars
  <2>2. a \in born /\ op[t] \in Probes
    BY <2>1, ProbeFields DEF ChainOK
  <2>3. CASE op'[t] = Idle
    BY <1>3, <2>3 DEF Idle
  <2>4. CASE op'[t] # Idle
    <3>1. ~Hit(a, op[t].key) /\ op'[t] = [op[t] EXCEPT !.at = parent[a]]
      BY <1>11, <2>4 DEF InternWalk, Probe, Hand, Return, WalkNext
    <3>2. /\ op'[t].pc = "intern" /\ op'[t].at = parent[a] /\ op'[t].key = op[t].key
          /\ op'[t].held = op[t].held
      BY <2>1, <2>2, <3>1 DEF Probes, Probing
    <3>3. ASSUME op[t].held
          PROVE  parent[a] # NULL /\ \E x \in chain[parent[a]] : Hit(x, op[t].key)
      <4>1. PICK x \in chain[a] : Hit(x, op[t].key)
        BY <2>1, <3>3 DEF WalksAhead
      <4> QED BY <2>2, <3>1, <4>1 DEF ChainOK, ChainSteps
    <3> QED BY <2>1, <3>2, <3>3 DEF Ahead, Hit
  <2> QED BY <2>3, <2>4
<1>12. CASE OwnsProbe(t)
  <2> DEFINE a == op[t].at
  <2>1. op[t].pc = "owns" /\ a # NULL /\ UNCHANGED <<chain, owned, ptrs>>
    BY <1>12 DEF OwnsProbe, InCall, dictVars, bufVars
  <2>2. a \in born /\ op[t] \in Probes
    BY <2>1, ProbeFields DEF ChainOK
  <2>3. CASE op'[t] = Idle
    BY <1>3, <2>3 DEF Idle
  <2>4. CASE op'[t] # Idle
    <3>1. op[t].key \notin owned[a] /\ op'[t] = [op[t] EXCEPT !.at = parent[a]]
      BY <1>12, <2>4 DEF OwnsProbe, OwnsNext, Return
    <3>2. /\ op'[t].pc = "owns" /\ op'[t].at = parent[a] /\ op'[t].key = op[t].key
          /\ op'[t].self = op[t].self
      BY <2>1, <2>2, <3>1 DEF Probes, Probing
    <3>3. ASSUME NEW x \in chain[op[t].self], op[t].key \in owned[x]
          PROVE  parent[a] # NULL /\ x \in chain[parent[a]]
      <4>1. x \in chain[a] /\ x # a
        BY <2>1, <3>1, <3>3 DEF WalksAhead
      <4> QED BY <2>2, <4>1 DEF ChainOK, ChainSteps
    <3>4. op[t].key \in ptrs
      BY <2>1 DEF WalksAhead
    <3> QED BY <2>1, <3>2, <3>3, <3>4 DEF Ahead
  <2> QED BY <2>3, <2>4
<1>13. CASE InternLocal(t) \/ LookupMissed(t) \/ OwnsMissed(t)
  <2>1. op'[t] = Idle
    BY <1>13 DEF InternLocal, LookupMissed, OwnsMissed, Hand, Return
  <2> QED BY <1>3, <2>1 DEF Idle
<1>14. CASE LookupLocal(t) \/ LookupWalk(t)
  <2>1. /\ op[t].pc \in {"lookupLocal", "lookup"}
        /\ op[t] \in Probing({"intern", "lookupLocal", "lookup"}, Names)
    BY <1>14, OpShape DEF LookupLocal, LookupWalk, Probe, InCall
  <2>2. op'[t].pc \notin {"owns", "intern"}
    <3>1. CASE op'[t] = Idle
      BY <3>1 DEF Idle
    <3>2. ASSUME NEW x, op'[t] = [op[t] EXCEPT !.at = x] PROVE op'[t].pc \notin {"owns", "intern"}
      BY <2>1, <3>2 DEF Probing
    <3>3. ASSUME NEW x, op'[t] = [op[t] EXCEPT !.pc = "lookup", !.at = x]
          PROVE  op'[t].pc \notin {"owns", "intern"}
      BY <2>1, <3>3 DEF Probing
    <3> QED BY <1>14, <3>1, <3>2, <3>3
         DEF LookupLocal, LookupWalk, Probe, WalkNext, Hand, Return
  <2> QED BY <1>3, <2>2
<1> QED BY <1>4, <1>6, <1>7, <1>8, <1>9, <1>10, <1>11, <1>12, <1>13, <1>14 DEF Call, Step

LEMMA StepZero ==
  ASSUME TypeOK, TypeOK', RefcountExact, OwnersLive, DropsAlone, ZeroIsDropped, Next
  PROVE  ZeroIsDropped'
<1> USE DEF TypeOK
<1>1. PICK t \in Threads :
           \/ \E s \in Slots, d \in Dicts : NewRefcounted(t, s, d)
           \/ \E s \in Slots, p, d \in Dicts : NewSub(t, s, p, d)
           \/ \E s, q \in Slots : AddRef(t, s, q)
           \/ \E s \in Slots : ReleaseSlot(t, s)
           \/ FetchSub(t) \/ DropBox(t)
           \/ Quiet(t)
  BY NextCases
<1>2. ASSUME NEW s \in Slots, NEW d \in Dicts, NewRefcounted(t, s, d) PROVE ZeroIsDropped'
  BY <1>2 DEF NewRefcounted, ZeroIsDropped
<1>3. ASSUME NEW s \in Slots, NEW p \in Dicts, NEW d \in Dicts, NewSub(t, s, p, d)
      PROVE  ZeroIsDropped'
  BY <1>3 DEF NewSub, SubRefs, ZeroIsDropped
<1>4. ASSUME NEW s \in Slots, NEW q \in Slots, AddRef(t, s, q) PROVE ZeroIsDropped'
  BY <1>4 DEF AddRef, ZeroIsDropped
<1>5. ASSUME NEW s \in Slots, ReleaseSlot(t, s) PROVE ZeroIsDropped'
  <2>1. op[t].pc # "drop" /\ \A u \in Threads \ {t} : op'[u] = op[u]
    BY <1>5 DEF ReleaseSlot, Calling
  <2> QED BY <1>5, <2>1 DEF ReleaseSlot, dictVars, ZeroIsDropped
<1>6. CASE FetchSub(t)
  <2> DEFINE d == op[t].at
  <2>1. op[t] \in Releases /\ op[t].pc = "sub" /\ d \in Dicts
    BY <1>6, OpShape DEF FetchSub, InCall, ReleasePcs, Releases
  <2>2. live' = live /\ \A u \in Threads \ {t} : op'[u] = op[u]
    BY <1>6 DEF FetchSub
  <2>3. \A x \in Dicts \ {d} : refcount'[x] = refcount[x]
    BY <1>6 DEF FetchSub
  <2>4. refcount'[d] = refcount[d] - 1
    BY <1>6, <2>1 DEF FetchSub
  <2>5. refcount'[d] = 0 => op'[t] = [pc |-> "drop", at |-> d]
    BY <1>6, <2>1, <2>4 DEF FetchSub
  <2> SUFFICES ASSUME NEW x \in live, refcount'[x] = 0
               PROVE  \E u \in Threads : op'[u].pc = "drop" /\ op'[u].at = x
    BY <2>2 DEF ZeroIsDropped
  <2>6. CASE x = d
    <3>1. op'[t].pc = "drop" /\ op'[t].at = x
      BY <2>5, <2>6
    <3> QED BY <3>1
  <2>7. CASE x # d
    <3>1. PICK u \in Threads : op[u].pc = "drop" /\ op[u].at = x
      BY <2>3, <2>7 DEF ZeroIsDropped
    <3> QED BY <2>1, <2>2, <3>1
  <2> QED BY <2>6, <2>7
<1>7. CASE DropBox(t)
  <2>1. live' = live \ {op[t].at} /\ refcount' = refcount
        /\ \A u \in Threads \ {t} : op'[u] = op[u]
    BY <1>7 DEF DropBox
  <2> QED BY <2>1 DEF ZeroIsDropped
<1>8. CASE Quiet(t)
  BY <1>8 DEF Quiet, ReleasePcs, dictVars, ZeroIsDropped
<1> QED BY <1>1, <1>2, <1>3, <1>4, <1>5, <1>6, <1>7, <1>8

LEMMA WalkInvariance == Spec => []WalkInv
<1>1. Init => WalkInv
  BY DEF Init, WalkInv, ChainSteps, OwnedOK, WalksAhead, ZeroIsDropped, Hit, Idle
<1>2. IInv /\ IInv' /\ WalkInv /\ [Next]_vars => WalkInv'
  <2> SUFFICES ASSUME IInv, IInv', WalkInv, [Next]_vars PROVE WalkInv'
    OBVIOUS
  <2> USE DEF IInv, WalkInv
  <2>1. CASE UNCHANGED vars
    <3> USE <2>1 DEF vars
    <3>1. ChainSteps' /\ OwnedOK'
      BY DEF ChainSteps, OwnedOK, Hit
    <3>2. WalksAhead' /\ ZeroIsDropped'
      BY DEF WalksAhead, ZeroIsDropped, Hit
    <3> QED BY <3>1, <3>2
  <2>2. CASE Next
    BY <2>2, StepChainSteps, StepOwned, StepWalks, StepZero
  <2> QED BY <2>1, <2>2
<1> QED BY <1>1, <1>2, Invariance, PTL DEF Spec

(* xmlDictOwns never disowns a pointer that the same dict handed out, and  *)
(* xmlDictLookup never makes a second copy of a name that an ancestor held *)
(* when the call began, whatever other threads intern and release.         *)
THEOREM WalksAreComplete == Spec => []WalksMissNothing
<1>1. IInv /\ WalkInv => WalksMissNothing
  <2> SUFFICES ASSUME IInv, WalkInv, NEW t \in Threads, Calling(t), op[t].at = NULL
               PROVE  /\ op[t].pc = "owns" =>
                           \A n \in Names : <<op[t].self, n, op[t].key>> \notin handed
                      /\ op[t].pc = "intern" => ~op[t].held
    BY DEF WalksMissNothing
  <2>1. ASSUME op[t].pc = "owns", NEW n \in Names, <<op[t].self, n, op[t].key>> \in handed
        PROVE  FALSE
    <3>1. PICK a \in chain[op[t].self] : table[a][n] = op[t].key
      BY <2>1 DEF IInv, HandedInChain
    <3>2. a \in Dicts /\ op[t].key \in Ptrs
      BY <2>1 DEF IInv, TypeOK
    <3>3. op[t].key \in owned[a]
      BY <3>1, <3>2, ConstantsAssumption DEF WalkInv, OwnedOK, Hit
    <3> QED BY <2>1, <3>3 DEF WalkInv, WalksAhead
  <2>2. ASSUME op[t].pc = "intern", op[t].held PROVE FALSE
    BY <2>2 DEF WalkInv, WalksAhead
  <2>3. op[t].pc = "intern" => op[t].held \in BOOLEAN
    BY OpShape DEF IInv, Probing
  <2> QED BY <2>1, <2>2, <2>3
<1> QED BY <1>1, Invariance, WalkInvariance, PTL

(* When no slot owns a reference and no call is under way, every dict box  *)
(* was dropped: a live dict without a slot is kept by a live sub-dict, and *)
(* a longest chain of those has no further sub-dict to keep it.            *)
THEOREM NothingLeaks == Spec => []NoLeak
<1>1. IInv /\ WalkInv => NoLeak
  <2> SUFFICES ASSUME IInv, WalkInv, \A s \in Slots : own[s] = NULL,
                      \A t \in Threads : ~Calling(t), live # {}
               PROVE  FALSE
    BY DEF NoLeak
  <2> USE DEF IInv, TypeOK
  <2>1. ASSUME NEW d \in live PROVE \E c \in live : parent[c] = d
    <3>1. refcount[d] # 0
      BY <2>1 DEF WalkInv, ZeroIsDropped, Calling
    <3>2. SlotsOf(d) = {} /\ GiversOf(d) = {}
      BY <2>1, ConstantsAssumption DEF SlotsOf, GiversOf, Calling
    <3>3. SubsOf(d) # {}
      BY <2>1, <3>1, <3>2, CountedOwners
    <3> QED BY <3>3 DEF SubsOf
  <2> DEFINE Rest == {S \in SUBSET Dicts : \E d \in live : S = Dicts \ chain[d]}
  <2>2. Rest \subseteq FiniteSubsetsOf(Dicts) /\ Rest # {}
    <3>1. Rest \subseteq SUBSET Dicts /\ Rest # {}
      OBVIOUS
    <3> QED BY <3>1, ConstantsAssumption, FS_FiniteSubsetsOfFinite
  <2>3. IsWellFoundedOn(StrictSubsetOrdering(Dicts), FiniteSubsetsOf(Dicts))
    BY FS_StrictSubsetOrderingWellFounded
  <2>4. PICK S \in Rest : \A T \in Rest : <<T, S>> \notin StrictSubsetOrdering(Dicts)
    <3> HIDE DEF Rest
    <3> QED BY <2>2, <2>3, WFMin
  <2>5. PICK d \in live : S = Dicts \ chain[d]
    BY <2>4
  <2>6. PICK c \in live : parent[c] = d
    BY <2>1
  <2>7. c \notin chain[d] /\ chain[c] = {c} \cup chain[d] /\ c \in Dicts
    BY <2>6, ConstantsAssumption DEF WalkInv, ChainSteps
  <2>8. Dicts \ chain[c] \in Rest /\ <<Dicts \ chain[c], S>> \in StrictSubsetOrdering(Dicts)
    BY <2>5, <2>6, <2>7 DEF StrictSubsetOrdering
  <2> QED BY <2>4, <2>8
<1> QED BY <1>1, Invariance, WalkInvariance, PTL
=============================================================================
