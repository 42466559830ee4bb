------------------------------- MODULE Catalog -------------------------------
(***************************************************************************)
(* OASIS catalogs (core/src/catalog.rs).  A file's references to other     *)
(* files are followed while it is loaded, so a loaded catalog is a tree; a *)
(* file that is being loaded is cut (`loading'), and a lookup enters no    *)
(* file twice (`seen').                                                    *)
(*                                                                         *)
(* An identifier is abstracted to what the entries make of it: an exact    *)
(* entry applies or not, a prefix matches over a number of characters.     *)
(* Operators with a suffix are altered forms of the one they stand before. *)
(***************************************************************************)
EXTENDS Integers, Sequences, FiniteSets, SequencesExt

(* An entry: its kind, how much of the identifier it matches (NoMatch, or   *)
(* the length of the prefix), and its URI or the file it refers to.         *)
NoMatch   == -1
Entry(kind, len, to) == [kind |-> kind, len |-> len, to |-> to]
Refs == {"delegateSystem", "delegatePublic", "delegateURI", "nextCatalog"}

(* A file: its entries, the prefer attributes of its root and of the group  *)
(* around each entry ("" where there is none), and whether it parses.       *)

-----------------------------------------------------------------------------
(* Loading.                                                                 *)
NoCatalog == <<>>
IsCatalog(c) == c # NoCatalog

Inherit(attr, outer) == IF attr = "" THEN outer ELSE attr

RECURSIVE merge_from_bytes(_, _, _, _, _), try_load_subcatalog(_, _, _)

(* The entries of f from the i-th on, appended to cat.entries.              *)
merge_from_bytes(files, f, i, cat, loading) ==
  IF i > Len(files[f].entries) THEN [cat |-> cat, loading |-> loading]
  ELSE LET e == files[f].entries[i]
           sub == IF e.kind \in Refs THEN try_load_subcatalog(files, e.to, loading)
                  ELSE [cat |-> NoCatalog, loading |-> loading]
           loaded == e @@ [prefer |-> Inherit(files[f].groups[i], cat.root_prefer), sub |-> sub.cat]
       IN merge_from_bytes(files, f, i + 1, [cat EXCEPT !.entries = Append(@, loaded)], sub.loading)

(* <catalog prefer="...">, then what it holds.                              *)
Merge(files, f, cat, loading) ==
  merge_from_bytes(files, f, 1, [cat EXCEPT !.root_prefer = Inherit(files[f].prefer, @)], loading)

Empty0(sources) == [sources |-> sources, root_prefer |-> "public", entries |-> <<>>]

try_load_subcatalogKept(files, f, loading) ==   \* the stack is not popped
  IF f \notin DOMAIN files \/ f \in loading THEN [cat |-> NoCatalog, loading |-> loading]
  ELSE LET r == Merge(files, f, Empty0(<<f>>), loading \cup {f})
       IN [cat |-> IF files[f].parses THEN r.cat ELSE NoCatalog, loading |-> r.loading]
try_load_subcatalog(files, f, loading) ==
  IF f \notin DOMAIN files \/ f \in loading THEN [cat |-> NoCatalog, loading |-> loading]
  ELSE LET r == Merge(files, f, Empty0(<<f>>), loading \cup {f})
       IN [cat |-> IF files[f].parses THEN r.cat ELSE NoCatalog, loading |-> r.loading \ {f}]

(* The roots are merged into one list of entries; each stays in `loading'.  *)
RECURSIVE from_files(_, _, _)
from_files(files, roots, acc) ==
  IF roots = <<>> THEN acc.cat
  ELSE IF roots[1] \in acc.loading THEN from_files(files, Tail(roots), acc)
  ELSE from_files(files, Tail(roots),
                  Merge(files, roots[1], [acc.cat EXCEPT !.sources = Append(@, roots[1])],
                        acc.loading \cup {roots[1]}))
load(files, roots) == from_files(files, roots, [cat |-> Empty0(<<>>), loading |-> {}])

-----------------------------------------------------------------------------
(* A lookup: of a public and a system identifier, of which one or both are  *)
(* given, or of a URI.                                                      *)
Asks == {{"public"}, {"system"}, {"public", "system"}, {"uri"}}

NoAnswer == <<>>
Of(entries, kind) == SelectSeq(entries, LAMBDA e : e.kind = kind /\ e.len # NoMatch)

(* The first exact entry; public entries only where the scope prefers them. *)
exact(entries, kind, ask) ==
  LET fit == SelectSeq(Of(entries, kind), LAMBDA e : kind = "public" =>
                                            e.prefer = "public" \/ "system" \notin ask)
  IN IF fit = <<>> THEN NoAnswer ELSE <<"uri", fit[1].to>>

LongestOf(es) == CHOOSE i \in DOMAIN es : \A k \in DOMAIN es :
                    es[k].len < es[i].len \/ (es[k].len = es[i].len /\ i <= k)

(* The longest prefix is replaced, the first declared of several.           *)
longest_rewrite(entries, kind) ==
  LET fit == Of(entries, kind)
  IN IF fit = <<>> THEN NoAnswer ELSE LET b == fit[LongestOf(fit)] IN <<"rewritten", b.to, b.len>>

(* The delegates by the length of their prefix, a stable sort.              *)
RECURSIVE LongestFirst(_)
LongestFirst(es) ==
  IF es = <<>> THEN <<>> ELSE LET i == LongestOf(es) IN <<es[i]>> \o LongestFirst(RemoveAt(es, i))
Delegates(entries, kind) ==
  LongestFirst(SelectSeq(Of(entries, kind), LAMBDA e : IsCatalog(e.sub)))

Asked(ask, id, what) == IF id \in ask THEN what ELSE NoAnswer
FirstOf(answers) ==
  LET fit == SelectSeq(answers, LAMBDA a : a # NoAnswer) IN IF fit = <<>> THEN NoAnswer ELSE fit[1]

RECURSIVE resolve_inner(_, _, _), in_each(_, _, _)

(* The subcatalogs in turn until one answers, those entered before skipped. *)
in_each(entries, ask, seen) ==
  IF entries = <<>> THEN [answer |-> NoAnswer, seen |-> seen]
  ELSE LET f == entries[1].sub.sources[1]
           r == resolve_inner(entries[1].sub, ask, seen \cup {f})
       IN IF f \in seen THEN in_each(Tail(entries), ask, seen)
          ELSE IF r.answer # NoAnswer THEN r
          ELSE in_each(Tail(entries), ask, r.seen)

(* Resolved, else what comes next with what was seen.                       *)
resolve_inner(cat, ask, seen) ==
  LET es == cat.entries
      own1  == IF ask = {"uri"} THEN <<exact(es, "uri", ask), longest_rewrite(es, "rewriteUri")>>
               ELSE <<Asked(ask, "system", exact(es, "system", ask)),
                      Asked(ask, "system", longest_rewrite(es, "rewriteSystem"))>>
      del1  == CASE ask = {"uri"}   -> Delegates(es, "delegateURI")
                 [] "system" \in ask -> Delegates(es, "delegateSystem")
                 [] OTHER            -> <<>>
      step1 == IF FirstOf(own1) # NoAnswer THEN [answer |-> FirstOf(own1), seen |-> seen]
               ELSE in_each(del1, ask, seen)
      own2  == Asked(ask, "public", exact(es, "public", ask))
      del2  == IF "public" \in ask THEN Delegates(es, "delegatePublic") ELSE <<>>
      step2 == IF own2 # NoAnswer THEN [answer |-> own2, seen |-> step1.seen]
               ELSE in_each(del2, ask, step1.seen)
      next  == SelectSeq(es, LAMBDA e : e.kind = "nextCatalog" /\ IsCatalog(e.sub))
  IN CASE step1.answer # NoAnswer -> step1
       [] step1.answer = NoAnswer /\ step2.answer # NoAnswer -> step2
       [] OTHER -> in_each(next, ask, step2.seen)

resolve(cat, ask) == resolve_inner(cat, ask, {}).answer

-----------------------------------------------------------------------------
(* What a lookup should find, said over the files: the order of the entries *)
(* and of the files as the OASIS text has it, along every chain of          *)
(* references that enters no file twice.  Each entry comes with the files   *)
(* on the chain to it.                                                      *)
Listed(files, f, outer, chain) ==
  LET scope == Inherit(files[f].prefer, outer)
  IN [i \in DOMAIN files[f].entries |->
        [e |-> files[f].entries[i], chain |-> chain \cup {f},
         prefer |-> Inherit(files[f].groups[i], scope)]]

RECURSIVE Search(_, _, _)
Search(files, list, ask) ==
  LET Fit(kind) == SelectSeq(list, LAMBDA x : x.e.kind = kind /\ x.e.len # NoMatch)
      Uri(kind) == [i \in DOMAIN Fit(kind) |-> <<"uri", Fit(kind)[i].e.to>>]
      Public    == LET fit == SelectSeq(Fit("public"), LAMBDA x :
                                          x.prefer = "public" \/ "system" \notin ask)
                   IN [i \in DOMAIN fit |-> <<"uri", fit[i].e.to>>]
      Rewrite(kind) == LET fit == Fit(kind)
                       IN {<<"rewritten", fit[i].e.to, fit[i].e.len>> :
                             i \in {i \in DOMAIN fit : \A k \in DOMAIN fit :
                                      /\ fit[k].e.len <= fit[i].e.len
                                      /\ k < i => fit[k].e.len < fit[i].e.len}}
      Into(xs) == [i \in DOMAIN xs |->
                     IF xs[i].e.to \in xs[i].chain \/ xs[i].e.to \notin DOMAIN files
                        \/ ~files[xs[i].e.to].parses THEN NoAnswer
                     ELSE Search(files, Listed(files, xs[i].e.to, "public", xs[i].chain), ask)]
      Delegate(kind) ==   \* by length, the order of the list within one length
        Into(FoldLeft(LAMBDA acc, n : acc \o SelectSeq(Fit(kind), LAMBDA x : x.e.len = n),
                      <<>>, [n \in 1..4 |-> 4 - n]))
      OneOf(S) == SetToSeq(S)
  IN FirstOf(
       IF ask = {"uri"} THEN
         Uri("uri") \o OneOf(Rewrite("rewriteUri")) \o Delegate("delegateURI") \o Into(Fit("nextCatalog"))
       ELSE
         (IF "system" \in ask
            THEN Uri("system") \o OneOf(Rewrite("rewriteSystem")) \o Delegate("delegateSystem")
            ELSE <<>>)
         \o (IF "public" \in ask THEN Public \o Delegate("delegatePublic") ELSE <<>>)
         \o Into(Fit("nextCatalog")))

(* The roots one after the other; `prefer' of one says nothing of the next. *)
RECURSIVE RootsListed(_, _, _)
RootsListed(files, roots, chain) ==
  IF roots = <<>> THEN <<>>
  ELSE IF roots[1] \in chain THEN RootsListed(files, Tail(roots), chain)
  ELSE Listed(files, roots[1], "public", chain)
         \o RootsListed(files, Tail(roots), chain \cup {roots[1]})
=============================================================================
