\* A disk that answers within the poll budget, may fail reads and writes
\* with ERR and may hang on one: identify, read and write behave as the spec
\* says, and every call returns.
CONSTANTS
  Polls = 2
  Latency = 1
  Faulty = TRUE
  Hangs = TRUE
  Kinds = {"none", "empty", "ata", "atapi"}
  LBAs = {0, 1}
  DiskInit <- MCDiskInit
  Vals = {3, 4}
  \* 1 and 2, where the code and ata.h agree; at 0 the code transfers one
  \* sector and ata.h says 256 (the shell, the only caller, passes 1).
  Counts = {1, 2}
  MaxCalls = 3
SPECIFICATION FairSpec
INVARIANT TypeOK
INVARIANT IdentifyFaithful
INVARIANT WritesLandWhereRequested
PROPERTY ReadReturnsDiskData
PROPERTY CallsReturn
\* The shell may stop issuing disk commands at any point.
CHECK_DEADLOCK FALSE
