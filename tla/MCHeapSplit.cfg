\* Any sequence of kmalloc / kcalloc / kfree calls on a small heap.
CONSTANTS
  HeapBase = 1024
  HeapSize = 160
  SizeMod = 4096
  Requests = {8, 16, 40}
  MaxCalls = 4
SPECIFICATION ApiSpec
INVARIANT AllocationsSound
CHECK_DEADLOCK FALSE
