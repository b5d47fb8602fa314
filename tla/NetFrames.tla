----------------------------- MODULE NetFrames ------------------------------
(* The frames a host on the link may send, shared by the model-checking    *)
(* instances of Net and Shell.  The addresses are parameters, so that the  *)
(* module declares no constant of its own.  All frames are records over    *)
(* the same fields; those an ethertype does not use are left at 0.         *)

(* A well-formed ARP packet (htype, ptype, hlen, plen correct unless ok is *)
(* FALSE) broadcast by sha/spa, asking for or announcing tpa.              *)
Arp(bc, me, len, ok, oper, sha, spa, tpa) ==
  [eth |-> "arp", dest |-> bc, len |-> len, ok |-> ok, oper |-> oper,
   sha |-> sha, spa |-> spa, tpa |-> tpa, version |-> 0, ihl |-> 0,
   total_len |-> 0, protocol |-> 0, src |-> me, dst |-> me, icmp_type |-> 0]

(* An IPv4 packet from src/sha of len received bytes, to dst, whose header *)
(* claims version, IHL and total_len, carrying an ICMP message of type t.  *)
Ip(me, src, sha, dest, len, version, ihl, total_len, protocol, dst, t) ==
  [eth |-> "ipv4", dest |-> dest, len |-> len, ok |-> FALSE, oper |-> 0,
   sha |-> sha, spa |-> me, tpa |-> me, version |-> version,
   ihl |-> ihl, total_len |-> total_len, protocol |-> protocol, src |-> src,
   dst |-> dst, icmp_type |-> t]

(* ARP traffic: every request and reply for our IP from each host and MAC, *)
(* and the malformed and misaddressed cases net_poll and arp_process drop. *)
ArpFrames(me, myMac, bc, H1, H2, H3, M1, M2) ==
  {Arp(bc, me, 28, TRUE, op, m, h, me) : op \in {1, 2}, m \in {M1, M2}, h \in {H1, H2, H3}}
  \cup {Arp(bc, me, 28, TRUE, 1, M1, H2, H3),    \* a request for another host
        Arp(bc, me, 27, TRUE, 1, M1, H1, me),    \* shorter than an ARP packet
        Arp(bc, me, 28, FALSE, 1, M2, H1, me),   \* not Ethernet/IPv4
        Arp(bc, me, 0, TRUE, 1, M2, H1, me),     \* no payload: eth_receive's 0
        [Arp(bc, me, 28, TRUE, 1, M2, H1, me) EXCEPT !.dest = M1], \* not for us
        [Arp(bc, me, 28, TRUE, 1, M2, H1, me) EXCEPT !.eth = "other"]}

(* IPv4 traffic from H1: a ping, and each header that ip_process drops or  *)
(* that makes it read past the frame.                                      *)
IpFrames(me, myMac, bc, H1, H2, M1) ==
  LET P(dest, len, v, ihl, tl, proto, dst, t) == Ip(me, H1, M1, dest, len, v, ihl, tl, proto, dst, t)
  IN {P(myMac, 84, 4, 5, 84, 1, me, 8),     \* a 56-byte ping
      P(bc, 28, 4, 5, 84, 1, me, 8),        \* total_len beyond len
      P(myMac, 1500, 4, 15, 1540, 1, me, 8), \* beyond data[]
      P(myMac, 28, 4, 5, 10, 1, me, 8),     \* payload_len wraps
      P(myMac, 84, 4, 5, 84, 1, me, 0),     \* an echo reply
      P(myMac, 84, 4, 5, 84, 6, me, 8),     \* not ICMP
      P(myMac, 84, 4, 5, 84, 1, H2, 8),     \* not for our IP
      P(myMac, 84, 6, 5, 84, 1, me, 8),     \* not version 4
      P(myMac, 19, 4, 5, 84, 1, me, 8)}     \* shorter than a header
====
