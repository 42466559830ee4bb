------------------------------ MODULE Canonical ------------------------------
(***************************************************************************)
(* The namespace declarations of canonical XML (core/src/canonical.rs).    *)
(* The walk keeps a frame for each open element, with what the element     *)
(* declares and what was written for it; a declaration is written where    *)
(* the output would otherwise not have it.  The document is a whole one,   *)
(* so a prefix in use is declared.                                         *)
(*                                                                         *)
(* The order of attributes, the escaping of text, and the prefix xml,      *)
(* which is never declared, are left out: none has state.  Operators with  *)
(* a suffix are altered forms of the one they stand before.                *)
(***************************************************************************)
EXTENDS Naturals, Sequences, FiniteSets

CONSTANTS NsPrefixes,   \* with NoPrefix among them
          NoPrefix,   \* the default namespace's
          Uris,
          NoUri,      \* what xmlns="" binds
          None,       \* not declared, or not written
          Declarations, \* what an element may declare: functions on NsPrefixes
          MaxOpen     \* elements open at once

ASSUME CanonicalAssumption ==
  /\ NoPrefix \in NsPrefixes /\ NoUri \notin Uris /\ None \notin Uris \cup {NoUri}
  /\ MaxOpen \in Nat
  /\ Declarations \subseteq [NsPrefixes -> Uris \cup {NoUri, None}]
  /\ \A d \in Declarations : \A p \in NsPrefixes \ {NoPrefix} : d[p] # NoUri

VARIABLES mode,       \* "C14n10" or "ExcC14n10"
          inclusive_prefixes,
          frames      \* the open elements, outermost first

cvars == <<mode, inclusive_prefixes, frames>>

Bindings == [NsPrefixes -> Uris \cup {NoUri, None}]
Frames   == [declared : Bindings, used : SUBSET NsPrefixes, rendered : Bindings]

-----------------------------------------------------------------------------
(* The nearest element of fs that binds p, in what it declares or in what   *)
(* was written for it.                                                      *)
Binds(fs, part, p) == {i \in DOMAIN fs : fs[i][part][p] # None}
Nearest(fs, part, p) ==
  IF Binds(fs, part, p) = {} THEN None
  ELSE fs[CHOOSE i \in Binds(fs, part, p) : \A k \in Binds(fs, part, p) : k <= i][part][p]

lookup(fs, p) == Nearest(fs, "declared", p)

already_renderedAny(above, p, u) == \E i \in DOMAIN above : above[i].rendered[p] # None
already_rendered(above, p, u)    == \E i \in DOMAIN above : above[i].rendered[p] = u

ancestor_rendered_different(above, p, u) == Nearest(above, "rendered", p) \notin {None, u}

(* The prefixes whose declarations the element's start tag must have.       *)
visibly_used(fs, e) ==
  IF mode = "C14n10" THEN {p \in NsPrefixes : lookup(fs, p) # None} ELSE e.used \cup inclusive_prefixes

(* Of an element e below those of `above'.                                  *)
write_namespace_declsAll(above, e) ==   \* whatever was written before
  [p \in NsPrefixes |-> IF p \in visibly_used(Append(above, e), e) THEN lookup(Append(above, e), p) ELSE None]
write_namespace_decls(above, e) ==
  LET fs == Append(above, e)
  IN [p \in NsPrefixes |->
        LET u == IF lookup(fs, p) = None THEN NoUri ELSE lookup(fs, p)
            write == IF p = NoPrefix /\ u = NoUri THEN ancestor_rendered_different(above, p, u)
                     ELSE ~already_rendered(above, p, u)
        IN IF p \in visibly_used(fs, e) /\ write THEN u ELSE None]

-----------------------------------------------------------------------------
CanonicalInit ==
  /\ mode \in {"C14n10", "ExcC14n10"}
  /\ inclusive_prefixes \in SUBSET NsPrefixes
  /\ mode = "C14n10" => inclusive_prefixes = {}
  /\ frames = <<>>

(* A start tag: the element's own prefix and those of the attributes that   *)
(* are visible.  An element that is not visible is passed over with all it  *)
(* holds, which leaves no trace in the frames.                              *)
StartElement(declared, own, attrs) ==
  LET e == [declared |-> declared, used |-> {own} \cup attrs,
            rendered |-> [p \in NsPrefixes |-> None]]
  IN /\ Len(frames) < MaxOpen
     /\ \A p \in e.used \ {NoPrefix} : lookup(Append(frames, e), p) # None
     /\ frames' = Append(frames, [e EXCEPT !.rendered = write_namespace_decls(frames, e)])
     /\ UNCHANGED <<mode, inclusive_prefixes>>

EndElement ==
  /\ frames # <<>>
  /\ frames' = SubSeq(frames, 1, Len(frames) - 1)
  /\ UNCHANGED <<mode, inclusive_prefixes>>

Walk ==
  \/ \E declared \in Declarations, own \in NsPrefixes, attrs \in SUBSET (NsPrefixes \ {NoPrefix}) :
       StartElement(declared, own, attrs)
  \/ EndElement

CanonicalSpec == CanonicalInit /\ [][Walk]_cvars

-----------------------------------------------------------------------------
Top   == frames[Len(frames)]
Above == SubSeq(frames, 1, Len(frames) - 1)

(* What a reader of the document, and one of the output, takes a prefix for.*)
UriOf(u)    == IF u = None THEN NoUri ELSE u
SourceOf(p) == UriOf(lookup(frames, p))
OutputOf(p) == UriOf(Nearest(frames, "rendered", p))
MustBind(p) == p \in visibly_used(frames, Top) /\ lookup(frames, p) # None

(* p was wanted further out with the URI it has here, and with another in   *)
(* between.                                                                 *)
WantedAt(i, p, u) == LET fs == SubSeq(frames, 1, i)
                     IN p \in visibly_used(fs, fs[i]) /\ UriOf(lookup(fs, p)) = u
Returned(p) ==
  \E i \in DOMAIN Above : /\ WantedAt(i, p, SourceOf(p))
                          /\ \E k \in i + 1..Len(Above) : \E u \in Uris \cup {NoUri} :
                               u # SourceOf(p) /\ WantedAt(k, p, u)

(* The names of an element mean in the output what they mean in the         *)
(* document, unless a prefix is bound to a URI, to another, and then to the *)
(* first again down one path (write_namespace_decls, already_rendered).     *)
MeaningKept ==
  frames # <<>> => \A p \in NsPrefixes : MustBind(p) => OutputOf(p) = SourceOf(p) \/ Returned(p)

(* No declaration is written that the output has in force already, so that  *)
(* equal documents have equal canonical forms.                              *)
NothingRepeated ==
  frames # <<>> => \A p \in NsPrefixes :
    Top.rendered[p] # None => UriOf(Nearest(Above, "rendered", p)) # Top.rendered[p]
                              \/ lookup(frames, p) = None

(* What equal signatures of equal documents rest on: no meaning is lost and *)
(* no declaration is written twice.                                         *)
DeclarationsRight == MeaningKept /\ NothingRepeated

(* What is written for a prefix of the PrefixList is what the document says *)
(* of it: xmlns:p="", which no document may contain, is never written.      *)
UndeclaresOnlyDefault ==
  frames # <<>> => \A p \in NsPrefixes \ {NoPrefix} : Top.rendered[p] # NoUri

(* "render iff not already rendered above, or if it overrides"              *)
(* (canonical.rs:481): then every name keeps its meaning.                   *)
CanonicalMeaning ==
  frames # <<>> => \A p \in NsPrefixes : MustBind(p) => OutputOf(p) = SourceOf(p)
=============================================================================
