SPECIFICATION Spec
CONSTANTS
  Threads = {t1, t2}
  Docs = {d1, d2}
  Nodes = {n1, n2, n3}
  NULL = NULL
  MaxCalls = 3
SYMMETRY Sym
INVARIANT GraftedOnceLives
INVARIANT NamesLive
PROPERTY NeverRevived
CHECK_DEADLOCK FALSE
