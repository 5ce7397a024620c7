SPECIFICATION Spec
CONSTANTS
  Inputs <- MCInputs
  Junk = {1, 7}
  Bifs <- MCBifs
  VarLo = 1
  ConLo = 4
  VarLimit = 8
  BifBase = 1000
  Dod = 5
  LookHash = 3
  MeritProposal = 5
  MeritCommit = 6
  ConSizes = {"", "1", "2"}
INVARIANT CodeKept
INVARIANT OperandsKept
INVARIANT DepthsAgree
INVARIANT AliveComplete
INVARIANT ProperFailure
PROPERTY PassesEnd
