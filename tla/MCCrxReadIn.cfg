CONSTANTS
  Alphabet <- MCAlphabet
  Messages <- MCMessages
  Dotted <- MCDotted
  Names <- MCNames
  Flavours <- MCFlavours
  Grammars <- MCGrammars
  CatWords = {"'||'"}
  VarWords = {"VAR", "VAR_SYMBOL"}
SPECIFICATION Spec
INVARIANT TreesOrdered
INVARIANT ReadAsWritten
INVARIANT SymbolsDescribed
