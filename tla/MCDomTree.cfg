SPECIFICATION Spec
CONSTANTS
  Nodes = {e1, e2, e3, x1, x2}
  Elements = {e1, e2, e3}
  Doc = Doc
  NULL = NULL
SYMMETRY Sym
INVARIANT LinksOK
PROPERTY ForestPromise
PROPERTY InPlaceUnchanged
CHECK_DEADLOCK FALSE
