-------------------------------- MODULE Regex --------------------------------
(***************************************************************************)
(* The regular expression engine (crates/core/src/regex): character        *)
(* classes, the Thompson construction, the Pike simulator with its         *)
(* thread-local scratch, the linear fast path and the leftmost-first       *)
(* iteration.                                                              *)
(*                                                                         *)
(* The thread parses one character class, then matches: each call compiles *)
(* a pattern that uses the class and runs it on an input, with the scratch *)
(* (`marks', `cur_mark') the earlier calls left.  Names ending in a word   *)
(* such as "Stale" are altered forms of the definition that follows them,  *)
(* used to show that the properties can fail.                              *)
(***************************************************************************)
EXTENDS Language

CONSTANTS CP_MAX, SUR_LO, SUR_HI,  \* bounds of the code points: 0..CP_MAX without the hole
          Items,                   \* ranges a class may list
          Templates, Template(_, _), \* the patterns over a class: Template(t, ranges)
          Inputs,                  \* the strings matched: sequences of code points
          MaxMark,                 \* u32::MAX, where the generation counter wraps
          MaxItems, MaxCalls       \* bounds: ranges in a class, match calls

ASSUME RegexAssumption ==
    /\ 0 < SUR_LO /\ SUR_LO <= SUR_HI /\ SUR_HI < CP_MAX
    /\ Items \subseteq (0..CP_MAX) \X (0..CP_MAX)
    /\ MaxMark \in Nat /\ MaxItems \in Nat /\ MaxCalls \in Nat

VARIABLES class,      \* the class parsed so far: ranges, canonical
          denotes,    \* history: the code points its source denotes
          parsing,    \* the class is not closed yet
          marks, cur_mark,  \* the scratch of the thread
          last,       \* the last call and its result
          calls       \* history: items parsed, then calls made

regex_vars == <<class, denotes, parsing, marks, cur_mark, last, calls>>

-----------------------------------------------------------------------------
(* ClassSet: canonical lists of ranges <<lo, hi>>.                          *)

Universe == (0..CP_MAX) \ (SUR_LO..SUR_HI)
universe == << <<0, SUR_LO - 1>>, <<SUR_HI + 1, CP_MAX>> >>
Points(rs) == UNION {r[1]..r[2] : r \in Range(rs)}

(* Push a range, or widen the last one when they overlap or abut.           *)
CoalesceOverlapOnly(out, r) ==
  IF out # <<>> /\ r[1] <= Last(out)[2]
  THEN Append(Front(out), <<Last(out)[1], Max({Last(out)[2], r[2]})>>)
  ELSE Append(out, r)
Coalesce(out, r) ==
  IF out # <<>> /\ r[1] <= Last(out)[2] + 1
  THEN Append(Front(out), <<Last(out)[1], Max({Last(out)[2], r[2]})>>)
  ELSE Append(out, r)

from_ranges(rs) ==
  FoldLeft(Coalesce, <<>>,
           SortSeq(SelectSeq(rs, LAMBDA r : r[1] <= r[2]), LAMBDA r, s : r[1] < s[1]))

(* Both are sorted: union merges them by their lower ends.                  *)
union(a, b) == FoldLeft(Coalesce, <<>>, SortSeq(a \o b, LAMBDA r, s : r[1] < s[1]))

(* One range of the minuend against the subtrahend from its j-th range: the *)
(* walk's state is <<out, j>>.                                              *)
RECURSIVE Carve(_, _, _, _, _)
Carve(out, j, lo, hi, b) ==
  LET k == CHOOSE n \in j..Len(b) + 1 :
             /\ n > Len(b) \/ b[n][2] >= lo
             /\ \A m \in j..n - 1 : b[m][2] < lo
      kept == IF b[k][1] > lo THEN Append(out, <<lo, b[k][1] - 1>>) ELSE out
  IN CASE lo > hi                      -> <<out, j>>
       [] k > Len(b) \/ b[k][1] > hi   -> <<Append(out, <<lo, hi>>), k>>
       [] b[k][2] >= hi                -> <<kept, k>>
       [] OTHER                        -> Carve(kept, k + 1, b[k][2] + 1, hi, b)

subtract(a, b) ==
  FoldLeft(LAMBDA acc, r : Carve(acc[1], acc[2], r[1], r[2], b), <<<<>>, 1>>, a)[1]

complement(a)   == subtract(universe, a)
contains(rs, c) == \E i \in DOMAIN rs : rs[i][1] <= c /\ c <= rs[i][2]

Canonical(rs) == /\ \A i \in DOMAIN rs : rs[i][1] <= rs[i][2]
                 /\ \A i \in 1..Len(rs) - 1 : rs[i][2] + 1 < rs[i + 1][1]

-----------------------------------------------------------------------------
(* nfa::compile: state 1 is Match; Lower returns the states and the entry.  *)

MatchState       == <<"Match">>
Char(rs, next)   == <<"Char", rs, next>>
Split(a, b)      == <<"Split", a, b>>
AssertAt(kind, n) == <<"Assert", kind, n>>

Add1(states, s) == [states |-> Append(states, s), entry |-> Len(states) + 1]

RECURSIVE Lower(_, _, _)

Copies(n, e, f) ==
  FoldLeft(LAMBDA g, k : Lower(e, g.entry, g.states), f, [k \in 1..n |-> k])

Optional(n, e, out, states) ==
  FoldLeft(LAMBDA g, k : LET b == Lower(e, g.entry, g.states)
                         IN Add1(b.states, Split(b.entry, out)),
           [states |-> states, entry |-> out], [k \in 1..n |-> k])

Loop(e, out, states) ==
  LET split == Len(states) + 1
      b     == Lower(e, split, Append(states, Split(0, out)))
  IN [states |-> [b.states EXCEPT ![split] = Split(b.entry, out)], entry |-> split]

Lower(e, out, states) ==
  CASE e[1] = "Empty"  -> [states |-> states, entry |-> out]
    [] e[1] = "Class"  -> Add1(states, Char(e[2], out))
    [] e[1] = "Anchor" -> Add1(states, AssertAt(e[2], out))
    [] e[1] = "Concat" -> FoldRight(LAMBDA p, g : Lower(p, g.entry, g.states), e[2],
                                    [states |-> states, entry |-> out])
    [] e[1] = "Alt"    ->
         IF e[2] = <<>> THEN [states |-> states, entry |-> out]
         ELSE FoldRight(LAMBDA b, g : LET f == Lower(b, out, g.states)
                                      IN Add1(f.states, Split(f.entry, g.entry)),
                        Front(e[2]), Lower(Last(e[2]), out, states))
    [] e[1] = "Quant"  ->
         Copies(e[3], e[2],
                IF e[4] = None THEN Loop(e[2], out, states)
                ELSE Optional(e[4] - e[3], e[2], out, states))

compile(e) == LET f == Lower(e, 1, <<MatchState>>)
              IN [states |-> f.states, start |-> f.entry]

-----------------------------------------------------------------------------
(* The simulator.  A scratch is [marks, cur_mark]; t = [list, marks].       *)

Bump(mark) == (mark + 1) % (MaxMark + 1)

ResetStale(sc, n) ==
  IF Len(sc.marks) # n \/ sc.cur_mark >= MaxMark - 2
  THEN [marks |-> [i \in 1..n |-> 0], cur_mark |-> 1]
  ELSE sc
reset(sc, n) ==
  IF Len(sc.marks) # n \/ sc.cur_mark >= MaxMark - 2
  THEN [marks |-> [i \in 1..n |-> 0], cur_mark |-> 1]
  ELSE [sc EXCEPT !.cur_mark = Bump(@)]

RECURSIVE add(_, _, _, _, _, _)
add(t, mark, prog, sid, pos, total) ==
  LET s   == prog.states[sid]
      t1  == [t EXCEPT !.marks[sid] = mark]
  IN CASE t.marks[sid] = mark -> t
       [] s[1] = "Split"      -> add(add(t1, mark, prog, s[2], pos, total),
                                     mark, prog, s[3], pos, total)
       [] s[1] = "Assert"     ->
            IF IF s[2] = "Start" THEN pos = 0 ELSE pos = total
            THEN add(t1, mark, prog, s[3], pos, total) ELSE t1
       [] OTHER               -> [t1 EXCEPT !.list = Append(@, sid)]

ContainsMatch(prog, list) == \E i \in DOMAIN list : prog.states[list[i]] = MatchState

(* The successors of the threads of `list' over the character c.            *)
Advance(list, marks0, mark, prog, c, pos, total) ==
  FoldLeft(LAMBDA t, sid : LET s == prog.states[sid]
                           IN IF s[1] = "Char" /\ contains(s[2], c)
                              THEN add(t, mark, prog, s[3], pos, total) ELSE t,
           [list |-> <<>>, marks |-> marks0], list)

(* In find mode the start state is seeded again at every position.          *)
ReseedNever(find, t, mark, prog, pos, total) == t
Reseed(find, t, mark, prog, pos, total) ==
  IF find THEN add(t, mark, prog, prog.start, pos, total) ELSE t

(* Scratch::run: the first Match ends a find, an empty list a whole match.  *)
RunOnce(sc0, prog, input, find) ==
  LET sc    == reset(sc0, Len(prog.states))
      total == Len(input)
      seed  == add([list |-> <<>>, marks |-> sc.marks], sc.cur_mark, prog, prog.start, 0, total)
      begin == [list |-> seed.list, marks |-> seed.marks, cur_mark |-> sc.cur_mark,
                found |-> find /\ ContainsMatch(prog, seed.list), dead |-> FALSE]
      step(r, i) ==
        IF r.found \/ r.dead THEN r
        ELSE LET mark == Bump(r.cur_mark)
                 t    == Advance(r.list, r.marks, mark, prog, input[i], i, total)
                 u    == Reseed(find, t, mark, prog, i, total)
             IN [list |-> u.list, marks |-> u.marks, cur_mark |-> mark,
                 found |-> find /\ ContainsMatch(prog, u.list),
                 dead  |-> ~find /\ u.list = <<>>]
      end   == FoldLeft(step, begin, [i \in 1..total |-> i])
  IN [result  |-> end.found \/ (~end.dead /\ ContainsMatch(prog, end.list)),
      scratch |-> [marks |-> end.marks, cur_mark |-> end.cur_mark]]

(* The threads that still contribute: up to the first Match.                *)
CutNone(prog, list) == list
Cut(prog, list) ==
  LET hits == {i \in DOMAIN list : prog.states[list[i]] = MatchState}
  IN IF hits = {} THEN list ELSE SubSeq(list, 1, Min(hits))

(* Scratch::run_leftmost from position `from' of the input: the end of the  *)
(* match, or None.                                                          *)
RunLeftmost(sc0, prog, input, from) ==
  LET sc    == reset(sc0, Len(prog.states))
      total == Len(input)
      seed  == add([list |-> <<>>, marks |-> sc.marks], sc.cur_mark, prog, prog.start, from, total)
      step(r, i) ==   \* i: the position before the character read
        IF r.dead THEN r
        ELSE LET mark == Bump(r.cur_mark)
                 live == Cut(prog, r.list)
                 m    == IF ContainsMatch(prog, live) THEN i ELSE r.matched
             IN IF i = total THEN [r EXCEPT !.cur_mark = mark, !.matched = m, !.dead = TRUE]
                ELSE LET t == Advance(live, r.marks, mark, prog, input[i + 1], i + 1, total)
                     IN [list |-> t.list, marks |-> t.marks, cur_mark |-> mark,
                         matched |-> m, dead |-> t.list = <<>>]
      end   == FoldLeft(step, [list |-> seed.list, marks |-> seed.marks,
                               cur_mark |-> sc.cur_mark, matched |-> None, dead |-> FALSE],
                        [k \in 1..(total - from + 1) |-> from + k - 1])
  IN [result  |-> end.matched,
      scratch |-> [marks |-> end.marks, cur_mark |-> end.cur_mark]]

(* find_iter: the matches <<start, end>>, resuming after each one.          *)
RECURSIVE IterFrom(_, _, _, _, _)
IterFrom(sc, prog, input, pos, out) ==
  LET r    == RunLeftmost(sc, prog, input, pos)
      found == r.result # None
      next == IF found /\ r.result > pos THEN r.result ELSE pos + 1
      acc  == IF found THEN Append(out, <<pos, r.result>>) ELSE out
  IN IF next > Len(input) THEN [result |-> acc, scratch |-> r.scratch]
     ELSE IterFrom(r.scratch, prog, input, next, acc)
find_iter(sc, prog, input) == IterFrom(sc, prog, input, 0, <<>>)

-----------------------------------------------------------------------------
(* linear: items [class, min, max] matched greedily, never given back.      *)

IsLeaf(e) == e[1] = "Class" \/ (e[1] = "Quant" /\ e[2][1] = "Class")
ItemOf(e) == IF e[1] = "Class" THEN [class |-> e[2], min |-> 1, max |-> 1]
             ELSE [class |-> e[2][2], min |-> e[3], max |-> e[4]]

(* collect: the parts in order, groups without a quantifier opened.         *)
RECURSIVE LinearParts(_)
LinearParts(e) == CASE e[1] = "Concat" -> FlattenSeq([i \in DOMAIN e[2] |-> LinearParts(e[2][i])])
              [] e[1] = "Empty"  -> <<>>
              [] OTHER           -> <<e>>
TryBuild(e) ==
  /\ \A i \in DOMAIN LinearParts(e) : IsLeaf(LinearParts(e)[i])
  /\ \A i \in 1..Len(LinearParts(e)) - 1 : ItemOf(LinearParts(e)[i]).max # None

(* Where the greedy walk over the items ends, or None.                      *)
LinearWalk(e, input) ==
  LET walk(at, part) ==
        LET it    == ItemOf(part)
            limit == IF it.max = None THEN Len(input) ELSE it.max
            n     == IF at = None THEN 0
                     ELSE Max({k \in 0..Min({limit, Len(input) - at}) :
                                 \A i \in 1..k : contains(it.class, input[at + i])})
        IN IF at = None \/ n < it.min THEN None ELSE at + n
  IN FoldLeft(walk, 0, LinearParts(e))

LinearMatchPrefix(e, input) == LinearWalk(e, input) # None
LinearMatch(e, input)       == LinearWalk(e, input) = Len(input)

-----------------------------------------------------------------------------
(* The calls of the thread.                                                 *)

Scratch == [marks |-> marks, cur_mark |-> cur_mark]

RegexInit ==
  /\ class = <<>> /\ denotes = {} /\ parsing = TRUE
  /\ marks = <<>> /\ cur_mark = 0
  /\ last = [op |-> "none"] /\ calls = 0

(* parse_class: one more range of the class.                                *)
ClassItem ==
  /\ parsing /\ calls < MaxItems
  /\ \E r \in Items :
       /\ class' = union(class, from_ranges(<<r>>))
       /\ denotes' = denotes \cup (r[1]..r[2])
  /\ calls' = calls + 1
  /\ UNCHANGED <<parsing, marks, cur_mark, last>>

(* Its end: `]', or `-[' two more ranges `]]'; `negated' when it began `[^'. *)
CloseClass(negated) ==
  /\ parsing /\ calls > 0
  /\ class' = IF negated THEN complement(class) ELSE class
  /\ denotes' = IF negated THEN Universe \ denotes ELSE denotes
  /\ parsing' = FALSE /\ calls' = 0
  /\ UNCHANGED <<marks, cur_mark, last>>

SubtractClass(negated) ==
  /\ parsing
  /\ \E r, s \in Items :
       LET head == IF negated THEN complement(class) ELSE class
       IN /\ class' = subtract(head, from_ranges(<<r, s>>))
          /\ denotes' = (IF negated THEN Universe \ denotes ELSE denotes)
                        \ ((r[1]..r[2]) \cup (s[1]..s[2]))
  /\ parsing' = FALSE /\ calls' = 0
  /\ UNCHANGED <<marks, cur_mark, last>>

Called(op, t, input, linear, r) ==
  /\ last' = [op |-> op, t |-> t, input |-> input, linear |-> linear, result |-> r.result]
  /\ marks' = r.scratch.marks /\ cur_mark' = r.scratch.cur_mark
  /\ calls' = calls + 1
  /\ UNCHANGED <<class, denotes, parsing>>

(* Pattern::is_match in the XSD dialect, whose patterns have no anchors;    *)
(* find_match and find_iter in the XPath dialect.                           *)
RECURSIVE HasAnchor(_)
HasAnchor(e) == CASE e[1] = "Anchor" -> TRUE
                  [] e[1] = "Quant"  -> HasAnchor(e[2])
                  [] e[1] \in {"Concat", "Alt"} -> \E i \in DOMAIN e[2] : HasAnchor(e[2][i])
                  [] OTHER -> FALSE

IsMatch(t, input) ==
  LET e == Template(t, class)
  IN /\ ~parsing /\ calls < MaxCalls /\ ~HasAnchor(e)
     /\ IF TryBuild(e)
        THEN Called("is_match", t, input, TRUE,
                    [result |-> LinearMatch(e, input), scratch |-> Scratch])
        ELSE Called("is_match", t, input, FALSE, RunOnce(Scratch, compile(e), input, FALSE))

FindMatch(t, input) ==
  /\ ~parsing /\ calls < MaxCalls
  /\ Called("find_match", t, input, FALSE,
            RunOnce(Scratch, compile(Template(t, class)), input, TRUE))

FindIter(t, input) ==
  /\ ~parsing /\ calls < MaxCalls
  /\ Called("find_iter", t, input, FALSE,
            find_iter(Scratch, compile(Template(t, class)), input))

RegexNext ==
  \/ ClassItem
  \/ \E negated \in BOOLEAN : CloseClass(negated) \/ SubtractClass(negated)
  \/ \E t \in Templates, input \in Inputs :
       IsMatch(t, input) \/ FindMatch(t, input) \/ FindIter(t, input)

-----------------------------------------------------------------------------
(* Properties.                                                              *)

(* The pattern with the code points its classes mean in place of ranges.    *)
RECURSIVE Meaning(_)
Meaning(e) ==
  CASE e[1] = "Class" -> Class(Points(e[2]))
    [] e[1] = "Quant" -> Quant(Meaning(e[2]), e[3], e[4])
    [] e[1] \in {"Concat", "Alt"} -> <<e[1], [i \in DOMAIN e[2] |-> Meaning(e[2][i])]>>
    [] OTHER -> e

Asked == Meaning(Template(last.t, class))

(* A class, however it was put together from ranges, negation and           *)
(* subtraction, is a canonical list that holds exactly the code points its  *)
(* source denotes, the surrogates of the universe left out (class.rs 1-9:   *)
(* "All algebraic operations preserve the invariant").                      *)
ClassExact ==
  /\ Canonical(class)
  /\ \A c \in Universe : contains(class, c) <=> c \in denotes

(* is_match answers as the language of the pattern does, whatever patterns  *)
(* and inputs the thread's scratch served before.  The fast path of XSD     *)
(* patterns accepts no value outside the language, and every value of it    *)
(* when no part may take a character the next parts need (vm::is_match,     *)
(* linear.rs 14-18).                                                        *)
NoContest(e) ==
  \A i, j \in DOMAIN LinearParts(e) : i < j /\ ItemOf(LinearParts(e)[i]).min # ItemOf(LinearParts(e)[i]).max
     => Points(ItemOf(LinearParts(e)[i]).class) \cap Points(ItemOf(LinearParts(e)[j]).class) = {}
IsMatchDecides ==
  last.op = "is_match" =>
    /\ last.result => Matches(Asked, last.input)
    /\ (~last.linear \/ NoContest(Template(last.t, class))) /\ Matches(Asked, last.input)
         => last.result

(* What linear.rs 44-47 says of the subset: a pattern it takes needs no     *)
(* character given back, so the fast path decides the language.             *)
LinearDecides ==
  last.op = "is_match" /\ last.linear => (last.result <=> Matches(Asked, last.input))

(* find_match says whether some substring matches, `^' and `$' meaning the  *)
(* ends of the whole input.  find_iter partitions the input: each match is  *)
(* the preferred one at the leftmost position at which the pattern matches  *)
(* at or after the end of the match before it, and nothing is left to match *)
(* after the last (vm::find_match, find_iter).                              *)
RECURSIVE Partition(_, _, _)
Partition(e, w, i) ==
  IF i > Len(w) THEN <<>>
  ELSE LET ends == Preferred(e, w, i)
       IN IF ends = <<>> THEN Partition(e, w, i + 1)
          ELSE <<<<i, Head(ends)>>>>
               \o Partition(e, w, IF Head(ends) > i THEN Head(ends) ELSE i + 1)
SearchFindsLeftmost ==
  /\ last.op = "find_match" =>
       (last.result <=> \E i \in 0..Len(last.input) : Ends(Asked, last.input, i) # {})
  /\ last.op = "find_iter" => last.result = Partition(Asked, last.input, 0)

(* The class a pattern is made with, and both entry points of the library.  *)
RegexDecides == ClassExact /\ IsMatchDecides /\ SearchFindsLeftmost
=============================================================================
