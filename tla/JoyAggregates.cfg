SPECIFICATION Spec
CONSTANTS
  SIZE = 13
  Vals = {1, 2, 3}
  Lists <- RunLists
  Counts = {0, 1, 2, 4}
  Orders = {FALSE, TRUE}
  NULL = NULL
INVARIANT ResultCorrect
INVARIANT ArgumentsKept
CHECK_DEADLOCK FALSE
