\* The shell over the network stack: command lines, parse_ip, diskwrite's
\* text, and the ARP cache under the polls the shell makes.
CONSTANTS
  OurIp = OurIp
  Broadcast = Broadcast
  OurMac = OurMac
  H1 = H1  H2 = H2  H3 = H3
  M1 = M1  M2 = M2
  Hosts <- MCHosts
  Macs <- MCMacs
  Frames <- MCFrames
  Addr <- MCAddr
  OtherIp = H3
  Names <- MCNames
  Lines <- MCLines
  CacheSize = 2
  MaxSteps = 3
  MaxPings = 2
  MaxLen = 12
  MaxArgs = 4
  TextLimit = 5
  AtaPresent = TRUE
  MaxLines = 2
SPECIFICATION Spec
INVARIANTS TypeOK CommandIsTypedLine PingTargetsTyped PingEchoesTarget DiskWriteText ArpCacheWellFormed ArpCacheFresh ChecksumIsInternetChecksum
CHECK_DEADLOCK FALSE
