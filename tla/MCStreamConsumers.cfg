SPECIFICATION Spec
CONSTANTS
  XML = "XMLURI"
  XMLNS = "XMLNSURI"
  KeepGoing = FALSE
  Tags <- MCTags
  Leaves = {"Text", "Comment", "EntityRef"}
  Modes <- MCModes
  Selectors <- MCSelectors
  MaxEvents = 6
  MaxDepth = 4
INVARIANT StreamParserExact
INVARIANT PlacesRight
CHECK_DEADLOCK FALSE
