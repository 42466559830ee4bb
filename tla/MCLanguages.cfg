SPECIFICATION Spec
CONSTANTS
  None = None
  CP_MAX = 5
  SUR_LO = 3
  SUR_HI = 3
  Items <- MCItems
  Templates <- MCTemplates
  Template <- MCTemplate
  Inputs <- MCInputs
  MaxLen = 2
  MaxMark = 1000
  MaxItems = 2
  MaxCalls = 2
  LARGE_BOUND = 128
  MAX_COPIES = 8
  Schemas <- Every
  Substitutes <- Members
  Letters = {"a", "b", "c", "#text"}
  AttNames = {"x", "y"}
  MaxChildren <- Room
INVARIANT RegexDecides
INVARIANT DtdDecides
INVARIANT XsdDecides
INVARIANT RngDecides
CHECK_DEADLOCK FALSE
