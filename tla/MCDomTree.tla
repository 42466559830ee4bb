----------------------------- MODULE MCDomTree -----------------------------
(* Instances of DomTree for TLC. *)
EXTENDS DomTree, TLC

Sym == Permutations(Elements) \cup Permutations(Nodes \ Elements)
=============================================================================
