\* Every heap call returns: alloc, alloc, free, alloc, free reaches the merge loop.
CONSTANTS
  HeapBase = 1024
  HeapSize = 160
  SizeMod = 4096
  Requests = {16, 40}
  MaxCalls = 5
SPECIFICATION ApiSpec
INVARIANT NeverHangs
CHECK_DEADLOCK FALSE
