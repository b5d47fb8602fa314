\* TX ring: three sends on a two-slot queue before the device drains it.
CONSTANTS
  DevQueueSize = 2
  IdxMod = 8
  MaxRx = 0
  MaxTx = 3
  NDev = 2
  NFunc = 2
  MaxPci = 2
  Buses <- MCBuses
SPECIFICATION Spec
INVARIANT TxInOrder
CHECK_DEADLOCK FALSE
