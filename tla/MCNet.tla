------------------------------- MODULE MCNet --------------------------------
(* Model-checking instance of Net: three hosts, two MACs, the frames of    *)
(* NetFrames.                                                              *)
EXTENDS Net

CONSTANTS H1, H2, H3, M1, M2

LOCAL F == INSTANCE NetFrames

MCFrames ==
  F!ArpFrames(OurIp, OurMac, Broadcast, H1, H2, H3, M1, M2)
  \cup F!IpFrames(OurIp, OurMac, Broadcast, H1, H2, M1)

MCHosts == {H1, H2, H3}
MCMacs == {M1, M2}
====
