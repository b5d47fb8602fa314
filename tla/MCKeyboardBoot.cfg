CONSTANTS
  BufSize = 3
  MaxLen = 3
  MaxKeys = 2
  KERNEL_START = 1048576
  BSS = 1069056
  VGA_WIDTH = 2
  VGA_HEIGHT = 2
  ScanBytes <- MCScanBytes
SPECIFICATION Spec
PROPERTY KeysReachShell
