\* Short programs over all calls; the texts are the two that need escaping.
SPECIFICATION Spec
CONSTANTS
  Names = {"a"}
  Atts = {"x", "y"}
  Texts = {"quote", "lt"}
  Uris = {"quote"}
  Sections = {"CDATA", "Comment"}
  Dests = {"callback", "file", "memory"}
  Encoders = {"UTF-8", "UTF-16"}
  MaxCalls = 5
  MaxNodes = 4
INVARIANT WritesWhatWasCalled
PROPERTY WalksInOrder
CHECK_DEADLOCK FALSE
