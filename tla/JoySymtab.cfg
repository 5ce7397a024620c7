SPECIFICATION Spec
CONSTANTS
  Names = {a, b}
  Inbuilts = {a}
  SYMTABMAX = 4
  DISPLAYMAX = 3
  MaxDepth = 4
  MaxScopes = 3
  NULL = NULL
INVARIANT LookupIsLexical
INVARIANT DefinitionInScope
INVARIANT IInv
CHECK_DEADLOCK FALSE
