\* Four threads, one of which makes the semaphore.
SPECIFICATION FairSpec
CONSTANTS
  Threads = {"a", "b", "c", "d"}
  Creator = "a"
  Kinds = {"mutex", "event"}
  Shared = FALSE
  MaxPosts = 3
INVARIANT WaitsCounted
INVARIANT QueryIsRight
PROPERTY ImplementsLock
PROPERTY SomeoneEnters
PROPERTY WaitersWake
CHECK_DEADLOCK FALSE
