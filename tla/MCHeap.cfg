\* The kernel's own use of the heap: kmalloc and kcalloc at boot, no kfree,
\* far from exhausting it (virtq_init takes about 1.1 MiB of the 4 MiB).
CONSTANTS
  HeapBase = 1024
  HeapSize = 480
  SizeMod = 4096
  Requests = {8, 16, 40}
  MaxCalls = 4
SPECIFICATION KernelSpec
INVARIANT TypeOK
INVARIANT AllocationsSound
INVARIANT HeapUsedAccounting
\* The kernel stops allocating after bring-up.
CHECK_DEADLOCK FALSE
