\* A disk slower than the poll budget: a read after a timed-out read.
CONSTANTS
  Polls = 2
  Latency = 2
  Faulty = FALSE
  Hangs = FALSE
  Kinds = {"ata"}
  LBAs = {0, 1}
  DiskInit <- MCDiskInit
  Vals = {3, 4}
  Counts = {1}
  MaxCalls = 3
SPECIFICATION Spec
PROPERTY ReadReturnsDiskData
CHECK_DEADLOCK FALSE
