SPECIFICATION Spec
CONSTANTS
  None = None
  NoValue = NoValue
  NoPrefix = NoPrefix
  NoUri = NoUri
  NsPrefixes = {NoPrefix, p1}
  Uris = {u1, u2}
  MaxOpen = 4
  Declarations <- MCDeclarations
  Given <- MCGiven
  Schemas <- MCSchemas
  Value <- MCValue
INVARIANT DeclarationsRight
INVARIANT CatalogFirstMatch
INVARIANT XIncludeRight
INVARIANT IdentityRight
INVARIANT RulesInOrder
INVARIANT XPathRight
