SPECIFICATION Spec
CONSTANT Split = 16
CONSTANT MaxInput = 4
CONSTANT Grammars <- GrammarsAll
INVARIANT LookaheadsExact
INVARIANT KeywordsExact
INVARIANT PackedLookups
INVARIANT StepsDecideSwitch
PROPERTY ImplementsRecognizer
CHECK_DEADLOCK FALSE
