---------------------------- MODULE MCLanguages ----------------------------
(***************************************************************************)
(* The parts of the library that decide whether a word belongs to a        *)
(* language somebody wrote down: patterns and content models, each against *)
(* the definition of Language.  A caller uses one of the two.              *)
(***************************************************************************)
EXTENDS Regex, ContentModels

VARIABLE asked   \* "pattern" or "model"

vars == <<asked, regex_vars, model_vars>>

Init ==
  /\ RegexInit
  /\ \/ asked = "pattern" /\ StartTag(CHOOSE s \in Schemas : TRUE)
     \/ asked = "model" /\ \E s \in Schemas : StartTag(s)

Next == \/ asked = "pattern" /\ RegexNext /\ UNCHANGED <<asked, model_vars>>
        \/ asked = "model" /\ ModelNext /\ UNCHANGED <<asked, regex_vars>>

Spec == Init /\ [][Next]_vars
-----------------------------------------------------------------------------
(* Patterns over a class K of five code points with a hole, and inputs of   *)
(* up to MaxLen characters.                                                 *)
CONSTANTS MaxLen
MCItems     == {<<0, 0>>, <<0, 2>>, <<1, 5>>, <<4, 5>>}
MCTemplates == 1..10
Lit(c)      == Class(<<<<c, c>>>>)
MCTemplate(t, rs) ==
  LET K == Class(rs)
  IN CASE t = 1 -> Concat(<<Quant(K, 0, 1), Lit(0)>>)                 \* K?0
       [] t = 2 -> Concat(<<Quant(K, 0, None), Lit(0)>>)              \* K*0
       [] t = 3 -> Alt(<<Lit(0), Concat(<<Lit(0), K>>), Lit(1)>>)     \* 0|0K|1
       [] t = 4 -> Quant(Concat(<<Lit(0), K>>), 1, None)              \* (0K)+
       [] t = 5 -> Concat(<<Anchor("Start"), Quant(K, 1, 2), Anchor("End")>>)
       [] t = 6 -> Quant(Alt(<<K, Lit(1), Empty>>), 0, 2)             \* (K|1|){0,2}
       [] t = 7 -> Concat(<<Lit(0), Quant(K, 0, 2)>>)                 \* 0K{0,2}
       [] t = 8 -> Concat(<<Lit(1), Quant(Quant(K, 0, 1), 0, None)>>) \* 1(K?)*
       [] t = 9 -> Alt(<<Concat(<<K, Anchor("End")>>), Lit(0)>>)      \* K$|0
       [] t = 10 -> Concat(<<Lit(1), Concat(<<K, Lit(0)>>)>>)         \* 1(K0)
MCInputs == UNION {[1..n -> {0, 1}] : n \in 0..MaxLen} \cup {<<4>>, <<4, 0>>, <<1, 4>>}

(* Content models.                                                          *)
One  == {<<1, 1>>}
Occ4 == {<<1, 1>>, <<0, 1>>, <<0, None>>, <<1, None>>}
Occ7 == Occ4 \cup {<<2, 2>>, <<1, 2>>, <<2, None>>}

Leaves(terms, occs) == {P(t, o[1], o[2]) : t \in terms, o \in occs}
Groups(kinds, parts, occs) == {P(<<k, s>>, o[1], o[2]) : k \in kinds, s \in parts, o \in occs}

Two(S, T) == {<<x, y>> : x \in S, y \in T}
A == Elem("a", 1)   A2 == Elem("a", 2)   B == Elem("b", 3)   C == Elem("c", 4)
Head0 == Elem("h", 5)   \* the head of a substitution group, never used itself
SC == {"seq", "choice"}

(* Two particles, the same name twice, a wildcard.                          *)
Flat == Groups(SC, Two(Leaves({A}, Occ7), Leaves({B, A2, A, Head0, Wild({"b", "c"})},
                                                 Occ4 \cup {<<1, 2>>})),
               {<<1, 1>>, <<0, None>>, <<2, 2>>})
(* A group in a group, before or after a particle.                          *)
Occ3   == Occ4 \ {<<1, None>>}
Inner  == Groups(SC, Two(Leaves({A}, Occ3), Leaves({B}, Occ3)), {<<0, 1>>, <<0, None>>, <<2, 2>>})
Nested == Groups(SC, Two(Inner, Leaves({C}, {<<1, 1>>, <<0, None>>}))
                     \cup Two(Leaves({C}, One), Inner), {<<1, 1>>, <<0, None>>})
Single == Groups({"seq"}, {<<x>> : x \in Inner \cup Leaves({A}, Occ7)}, {<<0, None>>, <<2, None>>})
(* Every order.                                                             *)
Unordered == Groups({"all"}, {<<x, y, z>> : x \in Leaves({A}, {<<1, 1>>, <<0, 1>>, <<1, 2>>}),
                                            y \in Leaves({B}, {<<1, 1>>, <<0, None>>}),
                                            z \in Leaves({C, Wild({"c"})}, {<<1, 1>>, <<0, 1>>})},
                    {<<1, 1>>, <<0, 1>>})
(* Text and attributes among the elements.                                  *)
Mixed == Groups({"all", "seq"}, Two({P(Text, 1, 1)}, Leaves({A, B}, Occ4) \cup Inner), One)
Attributed == Groups({"seq", "all"},
                     Two(Leaves({Attr("x")}, {<<1, 1>>, <<0, 1>>}),
                         Groups({"seq", "choice"}, Two(Leaves({Attr("y"), A}, {<<1, 1>>, <<0, 1>>}),
                                                       Leaves({B}, {<<1, 1>>, <<0, None>>})), One)),
                     One)

AllModels == Flat \cup Nested \cup Single \cup Unordered \cup Mixed \cup Attributed
Every == {Compiled(p) : p \in AllModels}
Room(p) == IF "attr" \in Kinds(p) THEN 2 ELSE IF "all" \in Kinds(p) THEN 3
           ELSE IF Counts(p) \cap {<<2, 2>>, <<2, None>>, <<1, 2>>} # {} THEN 4 ELSE 3
Members == [n \in {"a", "b", "c", "h"} |-> IF n = "h" THEN <<"c">> ELSE <<>>]
=============================================================================
