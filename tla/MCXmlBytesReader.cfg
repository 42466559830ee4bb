SPECIFICATION LiveSpec
CONSTANTS
  a = a
  b = b
  e = e
  f = f
  u = u
  Names = {a, b}
  Entities = {e, f}
  Undeclared = {u}
  Inputs <- Everything
  Options <- AllOptions
  MaxDepth = 4
  Budget = 5
  Source = Source
  Empty = Empty
  Elsewhere = Elsewhere
  NONE = NONE
INVARIANT EventsNest
INVARIANT ElementsStayInTheirText
INVARIANT WorkBounded
INVARIANT VerdictIsTheGrammars
PROPERTY ReadsToTheEnd
CHECK_DEADLOCK FALSE
