------------------------------- MODULE XsdDfa -------------------------------
(***************************************************************************)
(* The content automaton of the XSD validator (crates/core/src/xsd/dfa.rs) *)
(* and the cursor that the validator moves over it (xsd/validate.rs),      *)
(* xs:all included.  A builder is [states, err]; a state is [accept,       *)
(* on_element, on_wildcard], its transitions in the order they were added. *)
(* A fragment is the builder after it with its entries and exits.          *)
(***************************************************************************)
EXTENDS Language

CONSTANTS LARGE_BOUND,   \* 128: an element repeated more often counts as unbounded
          MAX_COPIES,    \* 8: mandatory copies of a group that are unrolled
          Substitutes    \* Substitutes[n]: the members of n's substitution group

(* The only member of a set: {F(x) : x \in {e}} evaluates e once.           *)
Only(S) == CHOOSE y \in S : TRUE

State0 == [accept |-> FALSE, on_element |-> <<>>, on_wildcard |-> <<>>]
Builder0 == [states |-> <<State0>>, err |-> FALSE]   \* state 1 is the initial one

NewState(b)      == [b EXCEPT !.states = Append(@, State0)]
Newest(b)        == Len(b.states)
Frag(b, en, ex)  == [b |-> b, entries |-> en, exits |-> ex]
Empty0(b)        == LET c == NewState(b) IN Frag(c, <<Newest(c)>>, <<Newest(c)>>)
Names(s)         == {s.on_element[i].name : i \in DOMAIN s.on_element}
AppendNew(s, t)  == s \o SelectSeq(t, LAMBDA x : ~Contains(s, x))
Pairs(s, t)      == FlattenSeq([i \in DOMAIN s |-> [j \in DOMAIN t |-> <<s[i], t[j]>>]])

(* add_element: the same declaration twice keeps the first transition,      *)
(* another one, or a wildcard that leads elsewhere, is a UPA error.         *)
AddElementOnce(b, from, t) ==
  IF t.name \in Names(b.states[from]) THEN [b EXCEPT !.err = TRUE]
  ELSE [b EXCEPT !.states[from].on_element = Append(@, t)]
add_element(b, from, t) ==
  LET s     == b.states[from]
      same  == {i \in DOMAIN s.on_element : s.on_element[i].name = t.name}
      clash == \E i \in DOMAIN s.on_wildcard :
                 s.on_wildcard[i].next # t.next /\ t.name \in s.on_wildcard[i].names
  IN CASE same # {} /\ s.on_element[Min(same)].decl = t.decl -> b
       [] same # {} /\ s.on_element[Min(same)].decl # t.decl -> [b EXCEPT !.err = TRUE]
       [] same = {} /\ clash                                 -> [b EXCEPT !.err = TRUE]
       [] OTHER -> [b EXCEPT !.states[from].on_element = Append(@, t)]

add_wildcard(b, from, t) ==
  LET s == b.states[from]
      clash == \/ \E i \in DOMAIN s.on_wildcard :
                    s.on_wildcard[i].next # t.next /\ s.on_wildcard[i].names \cap t.names # {}
               \/ \E i \in DOMAIN s.on_element :
                    s.on_element[i].next # t.next /\ s.on_element[i].name \in t.names
  IN IF clash THEN [b EXCEPT !.err = TRUE]
     ELSE [b EXCEPT !.states[from].on_wildcard = Append(@, t)]

copy_outgoing(b, src, dst) ==
  LET s  == b.states[src]
      b1 == FoldLeft(LAMBDA acc, t : add_element(acc, dst, t), b, s.on_element)
      b2 == FoldLeft(LAMBDA acc, t : add_wildcard(acc, dst, t), b1, s.on_wildcard)
  IN [b2 EXCEPT !.states[dst].accept = @ \/ s.accept]

ConcatStops(f, g) ==
  LET b == FoldLeft(LAMBDA acc, x : copy_outgoing(acc, x[2], x[1]), g.b, Pairs(f.exits, g.entries))
  IN Frag(b, f.entries, g.exits)
concat(f, g) ==   \* g was built after f
  LET b == FoldLeft(LAMBDA acc, x : copy_outgoing(acc, x[2], x[1]), g.b, Pairs(f.exits, g.entries))
      skippable == \E e \in Range(g.entries) : e \in Range(g.exits)
  IN Frag(b, f.entries, IF skippable THEN AppendNew(g.exits, f.exits) ELSE g.exits)

add_loopback_transitions(b, entries, exits) ==
  LET step(acc, x) ==
        LET exit == x[1]   from == acc.states[x[2]]
            s    == acc.states[exit]
            new  == SelectSeq(from.on_element, LAMBDA t : t.name \notin Names(s))
        IN IF x[1] = x[2] THEN acc
           ELSE [acc EXCEPT !.states[exit].on_element = @ \o new,
                            !.states[exit].on_wildcard = @ \o from.on_wildcard]
  IN FoldLeft(step, b, Pairs(exits, entries))

repeat_fragment(f, min, max) ==
  LET looped == IF max = 1 THEN f.b ELSE add_loopback_transitions(f.b, f.entries, f.exits)
  IN Frag(looped, f.entries, IF min = 0 THEN AppendNew(f.exits, f.entries) ELSE f.exits)

ElementTargets(term) ==
  <<[name |-> term[2], decl |-> term[3]]>>
  \o [i \in DOMAIN Substitutes[term[2]] |->
        [name |-> Substitutes[term[2]][i], decl |-> Substitutes[term[2]][i]]]

(* The transitions of one element particle, with its substitutes, or of one *)
(* wildcard particle.                                                       *)
add_term(b, term, from, to) ==
  IF term[1] = "wild" THEN add_wildcard(b, from, [names |-> term[2], next |-> to])
  ELSE FoldLeft(LAMBDA a, t : add_element(a, from, t @@ [next |-> to]), b, ElementTargets(term))

(* Such a particle, repeated: a chain, with a loop at its end if unbounded. *)
compile_repeated(b, term, min, max) ==
  LET unbounded == max = None \/ max > LARGE_BOUND
      length == Min({IF unbounded THEN Max({min, 1}) ELSE max, LARGE_BOUND})
      s0     == Newest(b) + 1
      made   == FoldLeft(LAMBDA acc, k : NewState(acc), b, [k \in 1..length + 1 |-> k])
      chain  == FoldLeft(LAMBDA acc, k : add_term(acc, term, s0 + k - 1, s0 + k), made,
                         [k \in 1..length |-> k])
      done   == IF unbounded THEN add_term(chain, term, s0 + length, s0 + length) ELSE chain
      from   == Min({min, length})
  IN Frag(done, <<s0>>, [k \in 1..length - from + 1 |-> s0 + from + k - 1])

RECURSIVE compile_particle(_, _), Copied(_, _, _)

compile_sequence(b, ps) ==
  IF ps = <<>> THEN Empty0(b)
  ELSE FoldLeft(LAMBDA f, p : concat(f, compile_particle(f.b, p)),
                compile_particle(b, ps[1]), Tail(ps))

compile_choice(b, ps) ==
  IF ps = <<>> THEN Empty0(b)
  ELSE FoldLeft(LAMBDA f, p : LET g == compile_particle(f.b, p)
                              IN Frag(g.b, f.entries \o g.entries, f.exits \o g.exits),
                Frag(b, <<>>, <<>>), ps)

compile_group(b, p) == IF p[1][1] = "seq" THEN compile_sequence(b, Parts(p))
                       ELSE compile_choice(b, Parts(p))

(* f with n more copies of p after it, and the entries of the last copy.    *)
Copied(f, p, n) ==
  IF n = 0 THEN f
  ELSE Only({Copied(concat(f, g) @@ [last |-> g.entries], p, n - 1) :
               g \in {compile_group(f.b, p)}})

repeat_group(b, p) ==
  LET repeated(f) ==
        IF p[2] <= 1 THEN repeat_fragment(f, p[2], p[3])
        ELSE Only({Frag(add_loopback_transitions(c.b, c.last, c.exits), c.entries, c.exits) :
                     c \in {Copied(f, p, Min({p[2], MAX_COPIES}) - 1)}})
  IN Only({repeated(f @@ [last |-> f.entries]) : f \in {compile_group(b, p)}})

compile_particle(b, p) ==
  LET inner == Parts(p)[1]
  IN CASE p[3] = 0                     -> Empty0(b)
       [] p[3] # 0 /\ ~IsGroup(p)      -> compile_repeated(b, p[1], p[2], p[3])
       [] p[3] # 0 /\ IsGroup(p)       ->
            IF p[3] = None /\ p[2] > 1 /\ Len(Parts(p)) = 1
            THEN compile_particle(b, <<inner[1], inner[2] * p[2], None>>)
            ELSE repeat_group(b, p)

(* build_matcher: [states, err], or the xs:all group itself.                *)
build_matcher(root) ==
  LET start(f) == FoldLeft(LAMBDA acc, e : copy_outgoing(acc, e, 1), f.b, f.entries)
      skippable(f) == \E e \in Range(f.entries) : e \in Range(f.exits)
  IN Only({[start(f) EXCEPT !.states = [i \in DOMAIN @ |->
              [@[i] EXCEPT !.accept = @ \/ i \in Range(f.exits) \/ (i = 1 /\ skippable(f))]]] :
             f \in {compile_particle(Builder0, root)}})

-----------------------------------------------------------------------------
(* The cursor of an element: the automaton's state, or for xs:all how often *)
(* each particle was seen.  An unexpected child leaves it where it was.     *)

IsAll(root) == root[1][1] = "all"
build_cursor(root) == IF IsAll(root) THEN [i \in DOMAIN Parts(root) |-> 0] ELSE 1

Accepts(term) == IF term[1] = "elem" THEN {term[2]} \cup Range(Substitutes[term[2]]) ELSE term[2]

(* Dfa::step: names before wildcards, the first that fits.                  *)
step(dfa, state, qn) ==
  LET s  == dfa.states[state]
      en == {i \in DOMAIN s.on_element : s.on_element[i].name = qn}
      wn == {i \in DOMAIN s.on_wildcard : qn \in s.on_wildcard[i].names}
  IN CASE en # {}             -> s.on_element[Min(en)].next
       [] en = {} /\ wn # {}   -> s.on_wildcard[Min(wn)].next
       [] OTHER               -> None

match_all(root, seen, qn) ==
  LET fits == {i \in DOMAIN Parts(root) :
                 /\ qn \in Accepts(Parts(root)[i][1])
                 /\ Parts(root)[i][3] = None \/ seen[i] < Parts(root)[i][3]}
  IN IF fits = {} THEN None ELSE [seen EXCEPT ![Min(fits)] = @ + 1]

match_in_cursor(root, dfa, cursor, qn) ==
  IF IsAll(root) THEN match_all(root, cursor, qn) ELSE step(dfa, cursor, qn)

(* The checks at the end tag.                                               *)
ContentComplete(root, dfa, cursor) ==
  IF IsAll(root)
  THEN \/ root[2] = 0 /\ \A i \in DOMAIN cursor : cursor[i] = 0
       \/ \A i \in DOMAIN cursor : cursor[i] >= Parts(root)[i][2]
  ELSE dfa.states[cursor].accept

XsdModel(p) ==
  /\ IsGroup(p) /\ Kinds(p) \subseteq {"elem", "wild", "seq", "choice", "all"}
  /\ "all" \in Kinds(p) =>
       IsAll(p) /\ p[3] = 1 /\ \A i \in DOMAIN Parts(p) : ~IsGroup(Parts(p)[i])
=============================================================================
