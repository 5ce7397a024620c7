SPECIFICATION FairSpec
CONSTANTS
  MEMORYMAX = 6
  SlotSeq <- RunSlotSeq
  Atoms = {a}
  NULL = NULL
  MaxOps = 6
INVARIANT CollectionPreservesGraph
INVARIANT CollectionReclaims
INVARIANT NoDangling
INVARIANT IInv
PROPERTY CollectionEnds
CHECK_DEADLOCK FALSE
