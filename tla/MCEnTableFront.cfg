SPECIFICATION Spec
CONSTANT Grammars = {}
CONSTANT MaxInput = 3
CONSTANT Texts <- TextsMC
CONSTANT Literals <- LiteralsMC
CONSTANT StarterName <- starter
CONSTANT Dotted <- DottedMC
CONSTANT Messages <- MessagesMC
CONSTANT KeyNames <- KeyNamesMC
CONSTANT SymbolName <- VAR_SYMBOL
CONSTANT TermLimit = 160
CONSTANT ProdLimit = 160
CONSTANT MaxSource = 40
INVARIANT SyntaxChecked
 
PROPERTY SimplifyEnds
