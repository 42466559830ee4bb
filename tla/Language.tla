----------------------------- MODULE Language -----------------------------
(***************************************************************************)
(* The reference for every engine of the library that decides whether a    *)
(* word is in a regular language: the expressions, the set of positions at *)
(* which a match from a given position may end, and content models.        *)
(*                                                                         *)
(* An expression is <<"Empty">>, <<"Class", S>>, <<"Concat", es>>,         *)
(* <<"Alt", es>>, <<"Quant", e, min, max>> with max = None for unbounded,  *)
(* <<"Anchor", "Start" or "End">>, or <<"Inter", e1, e2>> (the words that  *)
(* are an interleaving of one of each).                                    *)
(***************************************************************************)
EXTENDS Naturals, Sequences, FiniteSets, SequencesExt, FiniteSetsExt

CONSTANT None          \* the maximum of an unbounded repetition

Empty           == <<"Empty">>
Class(S)        == <<"Class", S>>
Concat(es)      == <<"Concat", es>>
Alt(es)         == <<"Alt", es>>
Quant(e, a, b)  == <<"Quant", e, a, b>>
Anchor(kind)    == <<"Anchor", kind>>
Inter(e1, e2)   == <<"Inter", e1, e2>>

(* The letters of w at the positions of P, in order.                        *)
At(w, P) == [i \in 1..Cardinality(P) |-> w[SetToSortSeq(P, <)[i]]]

RECURSIVE Ends(_, _, _), Times(_, _, _, _)

(* The positions j such that e matches w from i (exclusive) to j.           *)
Ends(e, w, i) ==
  CASE e[1] = "Empty"  -> {i}
    [] e[1] = "Class"  -> {j \in {i + 1} : j <= Len(w) /\ w[j] \in e[2]}
    [] e[1] = "Anchor" -> {j \in {i} : IF e[2] = "Start" THEN i = 0 ELSE i = Len(w)}
    [] e[1] = "Alt"    -> UNION {Ends(e[2][k], w, i) : k \in DOMAIN e[2]}
    [] e[1] = "Concat" -> FoldLeft(LAMBDA at, part : UNION {Ends(part, w, j) : j \in at},
                                   {i}, e[2])
    [] e[1] = "Quant"  -> UNION {Times(e[2], w, i, k) :
                                   k \in e[3]..(IF e[4] = None THEN e[3] + Len(w) ELSE e[4])}
    [] e[1] = "Inter"  -> {j \in i..Len(w) : \E P \in SUBSET ((i + 1)..j) :
                             LET u == At(w, P)   v == At(w, ((i + 1)..j) \ P)
                             IN Len(u) \in Ends(e[2], u, 0) /\ Len(v) \in Ends(e[3], v, 0)}

Times(e, w, i, k) ==
  IF k = 0 THEN {i} ELSE UNION {Ends(e, w, j) : j \in Times(e, w, i, k - 1)}

(* The whole word is in the language.                                       *)
Matches(e, w) == Len(w) \in Ends(e, w, 0)

(* Some word beginning with w, over the given letters and at most n letters *)
(* longer, is in the language.                                              *)
Viable(e, w, letters, n) ==
  \E k \in 0..n : \E v \in [1..k -> letters] : Matches(e, w \o v)

(* The prefixes a matcher tries from i, best first: an alternation prefers  *)
(* its earlier branch and a quantifier one more repetition, an empty        *)
(* repetition never.                                                        *)
RECURSIVE Preferred(_, _, _), Repeat(_, _, _, _, _)

Dedup(s) == FoldLeft(LAMBDA acc, x : IF Contains(acc, x) THEN acc ELSE Append(acc, x), <<>>, s)
Chain(s, f(_)) == Dedup(FlattenSeq([k \in DOMAIN s |-> f(s[k])]))

Preferred(e, w, i) ==
  CASE e[1] = "Alt"    -> Chain(e[2], LAMBDA b : Preferred(b, w, i))
    [] e[1] = "Concat" -> FoldLeft(LAMBDA at, part : Chain(at, LAMBDA j : Preferred(part, w, j)),
                                   <<i>>, e[2])
    [] e[1] = "Quant"  -> Repeat(e[2], w, i, e[3], e[4])
    [] OTHER           -> SetToSeq(Ends(e, w, i))

Repeat(e, w, i, min, max) ==
  CASE min > 0   -> Chain(Preferred(e, w, i),
                          LAMBDA j : Repeat(e, w, j, min - 1, IF max = None THEN None ELSE max - 1))
    [] max = 0   -> <<i>>
    [] OTHER     -> Dedup(Chain(SelectSeq(Preferred(e, w, i), LAMBDA j : j # i),
                                LAMBDA j : Repeat(e, w, j, 0, IF max = None THEN None ELSE max - 1))
                          \o <<i>>)

-----------------------------------------------------------------------------
(* Content models as the three schema languages write them, with the       *)
(* language of each and when it is deterministic.  A particle is           *)
(* <<term, min, max>>; a term is <<"elem", name, decl>>, <<"wild", names>>, *)
(* <<"text">>, <<"attr", name>>, or <<"seq" | "choice" | "all", particles>>. *)
P(term, min, max) == <<term, min, max>>
Elem(n, d)  == <<"elem", n, d>>
Wild(S)     == <<"wild", S>>
Text        == <<"text">>
Attr(n)     == <<"attr", n>>
Seq1(ps)    == <<"seq", ps>>
Choice(ps)  == <<"choice", ps>>
All(ps)     == <<"all", ps>>

IsGroup(p) == p[1][1] \in {"seq", "choice", "all"}
Parts(p)   == IF IsGroup(p) THEN p[1][2] ELSE <<>>

RECURSIVE Kinds(_), Counts(_)
Kinds(p)  == {p[1][1]} \cup UNION {Kinds(Parts(p)[i]) : i \in DOMAIN Parts(p)}
Counts(p) == {<<p[2], p[3]>>} \cup UNION {Counts(Parts(p)[i]) : i \in DOMAIN Parts(p)}

(* The words of the model; names[n] are those that may stand for element n. *)
RECURSIVE LanguageOf(_, _)
LanguageOf(p, names) ==
  LET sub == [i \in DOMAIN Parts(p) |-> LanguageOf(Parts(p)[i], names)]
      term == CASE p[1][1] = "elem"   -> Class(names[p[1][2]])
                [] p[1][1] = "wild"   -> Class(p[1][2])
                [] p[1][1] = "attr"   -> Class({p[1][2]})
                [] p[1][1] = "text"   -> Quant(Class({"#text"}), 0, None)
                [] p[1][1] = "seq"    -> Concat(sub)
                [] p[1][1] = "choice" -> Alt(sub)
                [] p[1][1] = "all"    -> FoldLeft(LAMBDA acc, e : Inter(e, acc), Head(sub), Tail(sub))
  IN Quant(term, p[2], p[3])

(* What may come first, last and after what, by occurrence of a leaf: an    *)
(* occurrence is its path in the model with the term at its end.            *)
Join(a, b) == {<<x, y>> : x \in a, y \in b}
Empty4 == [null |-> TRUE, first |-> {}, last |-> {}, follow |-> {}]

RECURSIVE Glushkov(_, _)
Glushkov(p, path) ==
  LET sub == [i \in DOMAIN Parts(p) |-> Glushkov(Parts(p)[i], Append(path, i))]
      one == CASE p[1][1] = "seq" ->
                    FoldLeft(LAMBDA a, b :
                       [null   |-> a.null /\ b.null,
                        first  |-> a.first \cup (IF a.null THEN b.first ELSE {}),
                        last   |-> b.last \cup (IF b.null THEN a.last ELSE {}),
                        follow |-> a.follow \cup b.follow \cup Join(a.last, b.first)],
                       Empty4, sub)
               [] p[1][1] = "choice" ->
                    [null   |-> sub = <<>> \/ \E i \in DOMAIN sub : sub[i].null,
                     first  |-> UNION {sub[i].first : i \in DOMAIN sub},
                     last   |-> UNION {sub[i].last : i \in DOMAIN sub},
                     follow |-> UNION {sub[i].follow : i \in DOMAIN sub}]
               [] p[1][1] = "all" ->
                    LET places(i) == sub[i].first \cup {e[2] : e \in sub[i].follow}
                    IN [null   |-> \A i \in DOMAIN sub : sub[i].null,
                        first  |-> UNION {sub[i].first : i \in DOMAIN sub},
                        last   |-> UNION {sub[i].last : i \in DOMAIN sub},
                        follow |-> UNION {IF i = j THEN sub[i].follow
                                          ELSE Join(places(i), places(j)) :
                                            i, j \in DOMAIN sub}]
               [] OTHER ->
                    [null |-> FALSE, first |-> {<<path, p[1]>>}, last |-> {<<path, p[1]>>},
                     follow |-> {}]
  IN IF p[3] = 0 THEN Empty4
     ELSE [one EXCEPT !.null = @ \/ p[2] = 0,
                      !.follow = @ \cup (IF p[3] = 1 THEN {} ELSE Join(one.last, one.first))]

(* At most one particle of the model can take each name at each point.      *)
Deterministic(p, names) ==
  LET g == Glushkov(p, <<>>)
      takes(x) == CASE x[2][1] = "elem" -> names[x[2][2]]
                    [] x[2][1] = "wild" -> x[2][2]
                    [] x[2][1] = "attr" -> {x[2][2]}
                    [] x[2][1] = "text" -> {"#text"}
      clear(S) == \A x, y \in S : x # y => takes(x) \cap takes(y) = {}
      leaves   == g.first \cup {e[2] : e \in g.follow}
  IN /\ clear(g.first)
     /\ \A x \in leaves : clear({e[2] : e \in {f \in g.follow : f[1] = x}})
=============================================================================
