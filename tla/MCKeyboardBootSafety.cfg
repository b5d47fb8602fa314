\* From sti on, with keys pressed during keyboard_init: what the IRQ1 handler
\* stores reaches the shell once each and in order.
CONSTANTS
  BufSize = 3
  MaxLen = 3
  MaxKeys = 3
  KERNEL_START = 1048576
  BSS = 1069056
  VGA_WIDTH = 2
  VGA_HEIGHT = 2
  ScanBytes <- MCScanBytesBoot
SPECIFICATION Spec
INVARIANT TypeOK
INVARIANT FifoDelivery
INVARIANT ScreenShowsEcho
INVARIANT IdentityMapped
INVARIANT GdtInitMatchesLoaded
PROPERTY BootCompletes
PROPERTY StoredCharsReachShell
PROPERTY ImplementsChannel
