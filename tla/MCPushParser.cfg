SPECIFICATION Spec
CONSTANTS
  p = p
  q = q
  r = r
  Ctxt <- MCCtxt
  NoCtxt = NoCtxt
  Doc <- MCDoc
  Kind <- MCKind
  Recover = FALSE
  NoBlanks = FALSE
  MaxCalls = 7
INVARIANT EventsDelivered
INVARIANT FiredIsTheTree
INVARIANT FreedStaysGone
CHECK_DEADLOCK FALSE
