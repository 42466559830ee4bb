SPECIFICATION Spec
CONSTANTS
  templates <- MCTemplates
  Nodes = {"n", "o"}
  Values = {"x"}
  MaxStack = 5
  MaxBodies = 2
  MaxErrors = 1
  MAX_TEMPLATE_CALL_DEPTH = 2
INVARIANT LexicalScope
CHECK_DEADLOCK FALSE
