-------------------------------- MODULE Dict --------------------------------
(***************************************************************************)
(* The reference-counted string interner of crates/tree/src/dict.rs, used  *)
(* through the xmlDict* functions of crates/compat/src/dict.rs.            *)
(*                                                                         *)
(* Threads run the operations of the interner.  Every mutex section and    *)
(* every atomic instruction of the code is a step of its own, so that two  *)
(* threads interleave inside intern, lookup, owns and release.             *)
(*                                                                         *)
(* Definitions directly above an operator that carry its name and a suffix *)
(* are its mutated forms: the same step with a plausible slip.  They occur *)
(* in no specification.                                                    *)
(*                                                                         *)
(* A slot is a place that owns one reference: a document, a parser         *)
(* context, the thread-local dict slot or a handle of the C program.  The  *)
(* contract of the C functions is that the caller uses a dict through a    *)
(* reference somebody owns during the whole call: `via' is that slot, and  *)
(* a slot in use is not released.                                          *)
(***************************************************************************)
EXTENDS Naturals, FiniteSets

CONSTANTS Threads, Slots, Dicts, Names, Ptrs, NULL

ASSUME ConstantsAssumption ==
  /\ NULL \notin Dicts
  /\ NULL \notin Ptrs
  /\ NULL \notin Names
  /\ NULL \notin Slots
  /\ IsFiniteSet(Threads) /\ IsFiniteSet(Slots) /\ IsFiniteSet(Dicts)

VARIABLES
  born,      \* dicts ever allocated: an address is not reused
  live,      \* dicts whose box is allocated
  refcount,  \* the atomic counter of each dict
  parent,    \* the dict a sub-dict is chained to, or NULL
  chain,     \* the dict and its ancestors, fixed at creation (auxiliary)
  table,     \* per dict, the canonical pointer of each name, or NULL
  owned,     \* per dict, the side set of its canonical pointers
  ptrs,      \* canonical buffers ever allocated
  freed,     \* canonical buffers freed with their dict
  own,       \* the dict each slot owns a reference to, or NULL
  op,        \* the call each thread is in
  handed     \* what intern and lookup returned: <<dict, name, pointer>>

dictVars == <<born, live, refcount, parent, chain>>
bufVars  == <<table, owned, ptrs, freed>>
vars     == <<born, live, refcount, parent, chain, table, owned, ptrs, freed,
              own, op, handed>>

-----------------------------------------------------------------------------
(* The calls a thread can be in.  `at' is the dict the next step touches,  *)
(* NULL past the last ancestor.  `held' is auxiliary: did an ancestor hold *)
(* the name when the call began?                                           *)

Idle == [pc |-> "idle"]

Probing(pcs, Keys) ==
  [pc : pcs, via : Slots, self : Dicts, at : Dicts \cup {NULL}, key : Keys,
   held : BOOLEAN]

Probes == Probing({"intern", "lookupLocal", "lookup"}, Names) \cup Probing({"owns"}, Ptrs)

Releases == [pc : {"sub", "drop"}, at : Dicts]

InCall(t, pcs) == op[t].pc \in pcs

Calling(t) == op[t].pc # "idle"

ReleasePcs == {"sub", "drop"}

UsesSlot(t, s) == Calling(t) /\ op[t].pc \notin ReleasePcs /\ op[t].via = s

Return(t) == op' = [op EXCEPT ![t] = Idle]

TypeOK ==
  /\ born \subseteq Dicts
  /\ live \subseteq born
  /\ refcount \in [Dicts -> Nat]
  /\ parent \in [Dicts -> Dicts \cup {NULL}]
  /\ chain \in [Dicts -> SUBSET Dicts]
  /\ table \in [Dicts -> [Names -> Ptrs \cup {NULL}]]
  /\ owned \in [Dicts -> SUBSET Ptrs]
  /\ ptrs \subseteq Ptrs
  /\ freed \subseteq Ptrs
  /\ own \in [Slots -> Dicts \cup {NULL}]
  /\ op \in [Threads -> {Idle} \cup Probes \cup Releases]
  /\ handed \subseteq Dicts \X Names \X Ptrs

Init ==
  /\ born = {} /\ live = {}
  /\ refcount = [d \in Dicts |-> 0]
  /\ parent = [d \in Dicts |-> NULL]
  /\ chain = [d \in Dicts |-> {}]
  /\ table = [d \in Dicts |-> [n \in Names |-> NULL]]
  /\ owned = [d \in Dicts |-> {}]
  /\ ptrs = {} /\ freed = {}
  /\ own = [s \in Slots |-> NULL]
  /\ op = [t \in Threads |-> Idle]
  /\ handed = {}

-----------------------------------------------------------------------------
(* Creation, sharing and release of references.                            *)

(* Dict::new_refcounted: a root dict, the caller owns the one reference.   *)
NewRefcounted(t, s, d) ==
  /\ ~Calling(t) /\ own[s] = NULL /\ d \notin born
  /\ born' = born \cup {d} /\ live' = live \cup {d}
  /\ refcount' = [refcount EXCEPT ![d] = 1]
  /\ parent' = [parent EXCEPT ![d] = NULL]
  /\ chain' = [chain EXCEPT ![d] = {d}]
  /\ own' = [own EXCEPT ![s] = d]
  /\ UNCHANGED <<bufVars, op, handed>>

(* Dict::new_sub: take a reference to the parent, then allocate the child. *)
SubRefsNoParent(p, d) == [refcount EXCEPT ![d] = 1]
SubRefs(p, d) == [refcount EXCEPT ![p] = @ + 1, ![d] = 1]

NewSub(t, s, p, d) ==
  /\ ~Calling(t) /\ own[s] = NULL /\ d \notin born
  /\ \E q \in Slots : own[q] = p
  /\ born' = born \cup {d} /\ live' = live \cup {d}
  /\ refcount' = SubRefs(p, d)
  /\ parent' = [parent EXCEPT ![d] = p]
  /\ chain' = [chain EXCEPT ![d] = {d} \cup chain[p]]
  /\ own' = [own EXCEPT ![s] = d]
  /\ UNCHANGED <<bufVars, op, handed>>

(* Dict::add_ref on behalf of another owner (xmlDictReference, the dict    *)
(* slot of a document).                                                    *)
AddRef(t, s, q) ==
  /\ ~Calling(t) /\ own[s] = NULL /\ own[q] # NULL
  /\ refcount' = [refcount EXCEPT ![own[q]] = @ + 1]
  /\ own' = [own EXCEPT ![s] = own[q]]
  /\ UNCHANGED <<born, live, parent, chain, bufVars, op, handed>>

(* xmlDictFree: the slot gives its reference up and calls Dict::release.   *)
ReleaseSlot(t, s) ==
  /\ ~Calling(t) /\ own[s] # NULL
  /\ \A u \in Threads : ~UsesSlot(u, s)
  /\ own' = [own EXCEPT ![s] = NULL]
  /\ op' = [op EXCEPT ![t] = [pc |-> "sub", at |-> own[s]]]
  /\ UNCHANGED <<dictVars, bufVars, handed>>

(* The fetch_sub of Dict::release; the caller that saw 1 frees the dict.   *)
FetchSub(t) ==
  /\ InCall(t, {"sub"})
  /\ LET d == op[t].at IN
       /\ refcount' = [refcount EXCEPT ![d] = @ - 1]
       /\ op' = [op EXCEPT ![t] = IF refcount[d] = 1
                                    THEN [pc |-> "drop", at |-> d]
                                    ELSE Idle]
  /\ UNCHANGED <<born, live, parent, chain, bufVars, own, handed>>

(* What a thread does after dropping d: a sub-dict owned one reference to  *)
(* its parent.                                                             *)
AfterDropNoCascade(d) == Idle
AfterDrop(d) == IF parent[d] # NULL THEN [pc |-> "sub", at |-> parent[d]] ELSE Idle

(* The last release: drop the box, which frees every canonical buffer,     *)
(* then release the reference the sub-dict owned to its parent.            *)
DropBox(t) ==
  /\ InCall(t, {"drop"})
  /\ LET d == op[t].at IN
       /\ live' = live \ {d}
       /\ freed' = freed \cup ({table[d][n] : n \in Names} \ {NULL})
       /\ op' = [op EXCEPT ![t] = AfterDrop(d)]
  /\ UNCHANGED <<born, refcount, parent, chain, table, owned, ptrs, own, handed>>

-----------------------------------------------------------------------------
(* Interning.                                                              *)

Hit(d, n) == table[d][n] # NULL

HeldAbove(d, n) == n \in Names /\ \E a \in chain[d] \ {d} : Hit(a, n)

Begin(t, s, pc, at, key) ==
  /\ ~Calling(t)
  /\ op' = [op EXCEPT ![t] =
              [pc |-> pc, via |-> s, self |-> own[s], at |-> at, key |-> key,
               held |-> HeldAbove(own[s], key)]]
  /\ UNCHANGED <<dictVars, bufVars, own, handed>>

(* Dict::intern starts with ancestor_lookup, at the parent.                *)
InternFromSelf(d) == NULL
InternFrom(d) == parent[d]

InternBegin(t, s, n) == own[s] # NULL /\ Begin(t, s, "intern", InternFrom(own[s]), n)

(* Dict::lookup and Dict::owns start with the dict itself.                 *)
LookupBegin(t, s, n) == own[s] # NULL /\ Begin(t, s, "lookupLocal", own[s], n)
OwnsBegin(t, s, p)   == own[s] # NULL /\ p \in ptrs /\ Begin(t, s, "owns", own[s], p)

Hand(t, p) ==
  /\ handed' = handed \cup {<<op[t].self, op[t].key, p>>}
  /\ Return(t)

WalkNextStuck(a) == a
WalkNext(a) == parent[a]

(* One turn of ancestor_lookup: lock the ancestor, probe it, unlock.       *)
Probe(t, pc) ==
  /\ InCall(t, {pc}) /\ op[t].at # NULL
  /\ LET a == op[t].at  n == op[t].key IN
       \/ Hit(a, n) /\ Hand(t, table[a][n])
       \/ /\ ~Hit(a, n)
          /\ op' = [op EXCEPT ![t].at = WalkNext(a)]
          /\ UNCHANGED handed
  /\ UNCHANGED <<dictVars, bufVars, own>>

InternWalk(t) == Probe(t, "intern")
LookupWalk(t) == Probe(t, "lookup")

(* The second look at the local table, under its lock.                     *)
KnownForgotten(d, n) == FALSE
Known(d, n) == Hit(d, n)

(* Dict::intern once no ancestor had the name: under the lock of the dict  *)
(* itself, probe again (another thread may have inserted it since), else   *)
(* insert the name with a fresh canonical buffer.                          *)
InternLocal(t) ==
  /\ InCall(t, {"intern"}) /\ op[t].at = NULL
  /\ LET d == op[t].self  n == op[t].key IN
       \/ /\ Known(d, n) /\ Hand(t, table[d][n])
          /\ UNCHANGED bufVars
       \/ /\ ~Known(d, n)
          /\ \E p \in Ptrs \ ptrs :
               /\ ptrs' = ptrs \cup {p}
               /\ owned' = [owned EXCEPT ![d] = @ \cup {p}]
               /\ table' = [table EXCEPT ![d][n] = p]
               /\ Hand(t, p)
          /\ UNCHANGED freed
  /\ UNCHANGED <<dictVars, own>>

(* Dict::lookup: the local table first, then the ancestors, NULL at last.  *)
LookupLocal(t) ==
  /\ InCall(t, {"lookupLocal"})
  /\ LET d == op[t].self  n == op[t].key IN
       \/ Hit(d, n) /\ Hand(t, table[d][n])
       \/ /\ ~Hit(d, n)
          /\ op' = [op EXCEPT ![t].pc = "lookup", ![t].at = parent[d]]
          /\ UNCHANGED handed
  /\ UNCHANGED <<dictVars, bufVars, own>>

LookupMissed(t) ==
  /\ InCall(t, {"lookup"}) /\ op[t].at = NULL
  /\ Return(t)
  /\ UNCHANGED <<dictVars, bufVars, own, handed>>

OwnsNextLocalOnly(a) == NULL
OwnsNext(a) == parent[a]

(* Dict::owns: is the pointer in the side set of the dict or an ancestor?  *)
OwnsProbe(t) ==
  /\ InCall(t, {"owns"}) /\ op[t].at # NULL
  /\ LET a == op[t].at IN
       \/ op[t].key \in owned[a] /\ Return(t)
       \/ op[t].key \notin owned[a] /\ op' = [op EXCEPT ![t].at = OwnsNext(a)]
  /\ UNCHANGED <<dictVars, bufVars, own, handed>>

OwnsMissed(t) ==
  /\ InCall(t, {"owns"}) /\ op[t].at = NULL
  /\ Return(t)
  /\ UNCHANGED <<dictVars, bufVars, own, handed>>

-----------------------------------------------------------------------------
Step(t) ==
  \/ FetchSub(t) \/ DropBox(t)
  \/ InternWalk(t) \/ InternLocal(t)
  \/ LookupLocal(t) \/ LookupWalk(t) \/ LookupMissed(t)
  \/ OwnsProbe(t) \/ OwnsMissed(t)

Call(t) ==
  \/ \E s \in Slots, d \in Dicts : NewRefcounted(t, s, d)
  \/ \E s \in Slots, p, d \in Dicts : NewSub(t, s, p, d)
  \/ \E s, q \in Slots : AddRef(t, s, q)
  \/ \E s \in Slots : ReleaseSlot(t, s)
  \/ \E s \in Slots, n \in Names : InternBegin(t, s, n) \/ LookupBegin(t, s, n)
  \/ \E s \in Slots, p \in Ptrs : OwnsBegin(t, s, p)

Next == \E t \in Threads : Call(t) \/ Step(t)

(* A thread inside a call keeps running: the code has no blocking step but *)
(* a mutex held for one probe.                                             *)
Spec == Init /\ [][Next]_vars /\ \A t \in Threads : WF_vars(Step(t))

-----------------------------------------------------------------------------
(* Properties.                                                             *)

(* What holds a reference to d: the slots that own one, the live sub-dicts *)
(* chained to d, and the calls that are about to give one back.            *)
SlotsOf(d)  == {s \in Slots : own[s] = d}
SubsOf(d)   == {c \in live : parent[c] = d}
GiversOf(d) == {t \in Threads : op[t] = [pc |-> "sub", at |-> d]}

(* The counter of a dict is the number of its owners at every instant,     *)
(* even while a release cascades up the parent chain on another thread.    *)
RefcountExact ==
  \A d \in Dicts : refcount[d] =
    Cardinality(SlotsOf(d)) + Cardinality(SubsOf(d)) + Cardinality(GiversOf(d))

(* No call reads or writes a dict that was freed: not the walk over the    *)
(* parent chain in intern, lookup and owns, not the decrement of a cascade *)
(* and not a second drop of the same box.                                  *)
NoUseAfterFree ==
  \A t \in Threads : Calling(t) =>
    /\ op[t].at # NULL => op[t].at \in live
    /\ op[t].pc \notin ReleasePcs => op[t].self \in live
    /\ op[t].pc = "drop" =>
         \A u \in Threads \ {t} : Calling(u) => op[u].at # op[t].at

(* A canonical pointer handed out for a dict is valid as long as that dict *)
(* is live, whichever ancestor stores the buffer.                          *)
HandedLive == \A h \in handed : h[1] \in live => h[3] \notin freed

(* A walk up the chain misses nothing: xmlDictOwns never disowns a pointer *)
(* that the same dict handed out (a caller that asks "do I free this?"     *)
(* never frees dict memory), and intern never makes a second copy of a     *)
(* name that an ancestor held when the call began, while other threads     *)
(* intern into the ancestors and release them.                             *)
WalksMissNothing ==
  \A t \in Threads : (Calling(t) /\ op[t].at = NULL) =>
    /\ op[t].pc = "owns" =>
         \A n \in Names : <<op[t].self, n, op[t].key>> \notin handed
    /\ op[t].pc = "intern" => ~op[t].held

(* A root dict gives a name one pointer for its whole life, however many   *)
(* threads intern it at once.                                              *)
RootPointerStable ==
  \A h, k \in handed :
    (h[1] = k[1] /\ h[2] = k[2] /\ parent[h[1]] = NULL) => h[3] = k[3]

(* Once nobody owns a reference and no call runs, every dict was freed.    *)
NoLeak ==
  ((\A s \in Slots : own[s] = NULL) /\ (\A t \in Threads : ~Calling(t))) => live = {}

(* Every call of a fair thread returns, the cascade of releases included,  *)
(* however the steps of the other threads fall between its own.            *)
CallsReturn == \A t \in Threads : Calling(t) ~> ~Calling(t)

(* The claim of the module header for every dict, sub-dicts included:      *)
(* looking up the same bytes twice returns the same pointer.               *)
PointerStable ==
  \A h, k \in handed : (h[1] = k[1] /\ h[2] = k[2]) => h[3] = k[3]

(* The claim on the parent field, for lookup: a name the parent holds is   *)
(* answered from the parent's table.                                       *)
LookupSharesAncestor ==
  [][\A t \in Threads : (LookupLocal(t) /\ op[t].held) => op'[t].pc = "lookup"]_vars
=============================================================================
