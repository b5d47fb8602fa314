\* RX ring: slot conservation and in-order delivery across index wrap,
\* with sends interleaved (two sends: no slot reuse yet).
CONSTANTS
  DevQueueSize = 2
  IdxMod = 4
  MaxRx = 6
  MaxTx = 2
  NDev = 2
  NFunc = 2
  MaxPci = 2
  Buses <- MCBuses
SPECIFICATION Spec
INVARIANT TypeOK
INVARIANT RxSlotsConserved
INVARIANT RxInOrder
INVARIANT PciFindsVirtio
\* The driver idles once no packet arrives and nothing is sent.
CHECK_DEADLOCK FALSE
PROPERTY SentReachWire
