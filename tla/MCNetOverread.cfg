\* The echo reply path reads past the received frame.
CONSTANTS
  OurIp = OurIp
  Broadcast = Broadcast
  OurMac = OurMac
  H1 = H1  H2 = H2  H3 = H3
  M1 = M1  M2 = M2
  Hosts <- MCHosts
  Macs <- MCMacs
  Frames <- MCFrames
  CacheSize = 2
  MaxSteps = 2
  MaxPings = 1
SPECIFICATION Spec
INVARIANT EchoReplyWithinFrame
CHECK_DEADLOCK FALSE
