\* Any sequence of allocations and frees over a window of four frames.
CONSTANTS
  NPages = 4
  PageSize = 4
  StartAddr = 8
  Counts = {0, 1, 2, 3}
  MaxCalls = 5
SPECIFICATION Spec
INVARIANT TypeOK
INVARIANT FreeCountExact
PROPERTY AllocFirstFit
\* The caller may stop calling the allocator.
CHECK_DEADLOCK FALSE
