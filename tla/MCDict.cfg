\* Two threads that share a root dict and a sub-dict through three slots: a
\* slot can drop its reference while another still holds one and a third
\* holds the sub-dict.  No symmetry: CallsReturn is a liveness property.
SPECIFICATION Spec
CONSTANTS
  Threads = {t1, t2}
  Slots = {s1, s2, s3}
  Dicts = {d1, d2}
  Names = {n1}
  Ptrs = {p1, p2}
  NULL = NULL
INVARIANT RefcountExact
INVARIANT NoUseAfterFree
INVARIANT HandedLive
INVARIANT WalksMissNothing
INVARIANT RootPointerStable
INVARIANT NoLeak
PROPERTY CallsReturn
CHECK_DEADLOCK FALSE
