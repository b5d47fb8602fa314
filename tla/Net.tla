-------------------------------- MODULE Net ---------------------------------
(***************************************************************************)
(* The network stack of MiniOS above the virtio-net driver: net_poll       *)
(* (eth_receive, eth_is_for_us, the ethertype switch), ARP (arp_process,   *)
(* the cache, arp_reply, arp_request, arp_lookup), IPv4/ICMP (ip_process,  *)
(* icmp_reply, ip_send) and net_ping (icmp_ping).                       *)
(*                                                                         *)
(* Everything runs in the shell's thread, one call at a time, so each      *)
(* net_poll and each net_ping is one step.  The driver is the boundary:    *)
(* a poll takes one received frame, whatever a host on the link sent, and  *)
(* the frames a step hands to virtio_net_send are recorded in "out".       *)
(* Addresses are model values.  The lengths and header fields the code     *)
(* computes with are numbers, with the uint16_t arithmetic of the code.    *)
(***************************************************************************)
EXTENDS Integers, Sequences, FiniteSets
LOCAL INSTANCE FiniteSetsExt

CONSTANTS
  OurIp,      \* our_ip (10.0.2.15)
  Hosts,      \* the other IPv4 addresses on the link
  OurMac,     \* our_mac, read from the device by eth_init
  Broadcast,  \* broadcast_mac
  Macs,       \* the other MAC addresses on the link
  CacheSize,  \* ARP_CACHE_SIZE (16 in the code)
  Frames,     \* the frames a host may send, as eth_receive returns them
  MaxSteps,   \* bound on the net_poll calls that receive a frame
  MaxPings    \* bound on the pings sent (ping_seq)

ASSUME CacheSize \in Nat \ {0} /\ MaxSteps \in Nat /\ MaxPings \in 0..65535
ASSUME OurIp \notin Hosts /\ OurMac \notin Macs

IPs == {OurIp} \cup Hosts
NoMac == "none"
Slots == 0..CacheSize - 1

ETH_MTU == 1500
IP_HDR == 20
ICMP_HDR == 8
ARP_PKT == 28
U16(x) == x % 65536

VARIABLES
  net_inited,  \* net_init got past virtio_net_init
  arp_cache,   \* slot -> [ip, mac, valid]
  ping_seq,    \* the uint16_t sequence number of icmp_ping
  out,         \* the frames the last step sent, in order
  got,         \* <<the frame the last net_poll received>>, or <<>>
  latest,      \* history: the MAC each IP last announced in an ARP packet
  reach,       \* how far into net_poll's data[] the last step read
  steps

vars == <<net_inited, arp_cache, ping_seq, out, got, latest, reach, steps>>

EmptyEntry == [ip |-> OurIp, mac |-> NoMac, valid |-> FALSE]

(* net_init: arp_init clears the cache; it is reached only when           *)
(* virtio_net_init succeeded.                                              *)
Init ==
  /\ net_inited \in BOOLEAN
  /\ arp_cache = [s \in Slots |-> EmptyEntry]
  /\ ping_seq = 0
  /\ out = <<>>
  /\ got = <<>>
  /\ latest = [ip \in IPs |-> NoMac]
  /\ reach = 0
  /\ steps = 0

(* arp_lookup: the first valid entry for ip, its MAC or NoMac.             *)
arp_lookup(cache, ip) ==
  LET hits == {s \in Slots : cache[s].valid /\ cache[s].ip = ip}
  IN IF hits = {} THEN NoMac
     ELSE cache[CHOOSE s \in hits : \A r \in hits : s <= r].mac

(* Mutant: the scan stops only at a free slot, never at the ip's own one.  *)
CacheSlot_no_match(cache, ip) ==
  LET stop == {s \in Slots : ~cache[s].valid}
  IN IF stop = {} THEN 0 ELSE CHOOSE s \in stop : \A r \in stop : s <= r

(* The slot arp_cache_add picks: the first slot that is free or holds ip,  *)
(* slot 0 when there is none.                                              *)
CacheSlot(cache, ip) ==
  LET stop == {s \in Slots : ~cache[s].valid \/ cache[s].ip = ip}
  IN IF stop = {} THEN 0 ELSE CHOOSE s \in stop : \A r \in stop : s <= r

(* Mutant: an entry already present keeps its old MAC.                     *)
arp_cache_add_no_refresh(cache, ip, mac) ==
  LET s == CacheSlot(cache, ip)
  IN IF cache[s].valid THEN cache
     ELSE [cache EXCEPT ![s] = [ip |-> ip, mac |-> mac, valid |-> TRUE]]

arp_cache_add(cache, ip, mac) ==
  [cache EXCEPT ![CacheSlot(cache, ip)] = [ip |-> ip, mac |-> mac,
                                             valid |-> TRUE]]

(* eth_send: a frame of len payload bytes to dest, or nothing when len     *)
(* exceeds ETH_MTU (virtio_net_send's own limit, 2048 - 10, is larger).    *)
eth_send(dest, kind, ip, len, extent) ==
  IF len > ETH_MTU THEN <<>>
  ELSE <<[to |-> dest, kind |-> kind, ip |-> ip, len |-> len,
          extent |-> extent]>>

(* arp_request: an ARP request for target_ip, broadcast.                   *)
arp_request(target_ip) ==
  eth_send(Broadcast, "arp_request", target_ip, ARP_PKT, 0)

(* Mutant: the reply sent to our own MAC, the one the packet is built with. *)
arp_reply_to_self(dest_mac, dest_ip) ==
  eth_send(OurMac, "arp_reply", dest_ip, ARP_PKT, 0)

(* arp_reply: an ARP reply to dest_mac, for dest_ip.                       *)
arp_reply(dest_mac, dest_ip) ==
  eth_send(dest_mac, "arp_reply", dest_ip, ARP_PKT, 0)

(* checksum(data, len) over a sequence of bytes.  The loop adds the       *)
(* uint16_t words as x86 loads them, low byte first, into a uint32_t, and  *)
(* an odd last byte alone; no frame (1500 bytes) comes near 2^32.          *)
RECURSIVE WordSum(_, _)
WordSum(data, i) ==
  IF i + 1 <= Len(data) THEN data[i] + 256 * data[i + 1] + WordSum(data, i + 2)
  ELSE IF i = Len(data) THEN data[i]
  ELSE 0

(* Variant that folds the carries back once, with if for while.            *)
Fold_once(sum) == (sum % 65536) + (sum \div 65536)

(* while (sum >> 16) sum = (sum & 0xFFFF) + (sum >> 16);                   *)
RECURSIVE Fold(_)
Fold(sum) ==
  IF sum \div 65536 # 0 THEN Fold((sum % 65536) + (sum \div 65536)) ELSE sum

(* return ~sum, truncated to the uint16_t result.                          *)
checksum(data) == (65535 - Fold(WordSum(data, 1))) % 65536

(* The 64 bytes icmp_ping sums: type 8, code 0, the checksum field 0, the *)
(* id 0x1234 and seq stored big-endian by __builtin_bswap16, then          *)
(* packet[i] = i for i in 8..63.                                           *)
EchoRequest(seq) ==
  <<8, 0, 0, 0, 18, 52, seq \div 256, seq % 256>> \o [i \in 1..56 |-> i + 7]

(* ip_send of len bytes to dest_ip: the frame, or an ARP request for      *)
(* dest_ip when its MAC is not cached (the packet is dropped).  extent is  *)
(* how far into the received frame the copied payload reaches.             *)
ip_send(cache, dest_ip, kind, len, extent) ==
  IF len > ETH_MTU - IP_HDR THEN <<>>
  ELSE IF arp_lookup(cache, dest_ip) = NoMac
  THEN arp_request(dest_ip)
  ELSE eth_send(arp_lookup(cache, dest_ip), kind, dest_ip, IP_HDR + len,
                extent)

(* arp_process: a short or non-Ethernet/IPv4 packet is dropped; otherwise  *)
(* the sender is cached, and a request for our IP is answered.             *)
arp_process(f) ==
  IF f.len < ARP_PKT \/ ~f.ok
  THEN [cache |-> arp_cache, out |-> <<>>, seen |-> latest]
  ELSE LET c == arp_cache_add(arp_cache, f.spa, f.sha)
       IN [cache |-> c,
           seen |-> [latest EXCEPT ![f.spa] = f.sha],
           out |-> IF f.tpa = OurIp /\ f.oper = 1
                   THEN arp_reply(f.sha, f.spa)
                   ELSE <<>>]

(* ip_process: version 4, for us, then the ICMP header at payload is read *)
(* and an echo request answered by icmp_reply, which copies the data_len   *)
(* bytes after it before ip_send looks the sender up.  payload_len and     *)
(* data_len are uint16_t; icmp_reply refuses more than 1500 - 8 - 20.      *)
(* The result is what was sent and how far into data[] the step read.      *)
ip_process(f) ==
  LET ihl == f.ihl * 4
      payload_len == U16(f.total_len - ihl)
      data_len == U16(payload_len - ICMP_HDR)
      none == [out |-> <<>>, reach |-> IP_HDR]
  IN IF f.len < IP_HDR THEN [out |-> <<>>, reach |-> 0]
     ELSE IF f.version # 4 \/ f.dst # OurIp
             \/ f.protocol # 1 \/ payload_len < ICMP_HDR THEN none
     ELSE IF f.icmp_type # 8 \/ data_len > ETH_MTU - ICMP_HDR - IP_HDR
          THEN [none EXCEPT !.reach = ihl + ICMP_HDR]
     ELSE [out |-> ip_send(arp_cache, f.src, "echo_reply", ICMP_HDR + data_len,
                           ihl + ICMP_HDR + data_len),
           reach |-> ihl + ICMP_HDR + data_len]

(* eth_is_for_us: the destination is our MAC or broadcast.                 *)
eth_is_for_us(dest) == dest \in {OurMac, Broadcast}

(* net_poll: nothing before net_init succeeded; then eth_receive hands     *)
(* over a frame with more than a header, which is dropped unless it is for *)
(* our MAC or broadcast, and dispatched on its ethertype.                  *)
net_poll(f) ==
  /\ steps < MaxSteps /\ steps' = steps + 1
  /\ got' = IF net_inited THEN <<f>> ELSE <<>>
  /\ IF ~net_inited \/ f.len <= 0 \/ ~eth_is_for_us(f.dest)
     THEN /\ out' = <<>> /\ reach' = 0 /\ UNCHANGED <<arp_cache, latest>>
     ELSE CASE f.eth = "arp" ->
                 LET r == arp_process(f)
                 IN /\ arp_cache' = r.cache /\ out' = r.out
                    /\ latest' = r.seen
                    /\ reach' = IF f.len < ARP_PKT THEN 0 ELSE ARP_PKT
            [] f.eth = "ipv4" ->
                 LET r == ip_process(f)
                 IN /\ out' = r.out /\ reach' = r.reach
                    /\ UNCHANGED <<arp_cache, latest>>
            [] OTHER ->
                 out' = <<>> /\ reach' = 0 /\ UNCHANGED <<arp_cache, latest>>
  /\ UNCHANGED <<net_inited, ping_seq>>

(* net_ping -> icmp_ping: a 64-byte echo request with seq = ping_seq++.    *)
net_ping(ip) ==
  /\ ping_seq < MaxPings
  /\ got' = <<>> /\ reach' = 0
  /\ IF ~net_inited
     THEN out' = <<>> /\ UNCHANGED ping_seq
     ELSE /\ ping_seq' = U16(ping_seq + 1)
          /\ out' = ip_send(arp_cache, ip, "echo_request", 64, 0)
  /\ UNCHANGED <<net_inited, arp_cache, latest, steps>>

Next ==
  \/ \E f \in Frames : net_poll(f)
  \/ \E ip \in Hosts : net_ping(ip)

Spec == Init /\ [][Next]_vars

-----------------------------------------------------------------------------
(* Properties.                                                             *)

(* The type of the state; every frame the stack sends goes to a host on    *)
(* the link or to broadcast, never back to our own MAC.                    *)
TypeOK ==
  /\ net_inited \in BOOLEAN
  /\ arp_cache \in [Slots -> [ip : IPs, mac : Macs \cup {NoMac}, valid : BOOLEAN]]
  /\ ping_seq \in 0..65535
  /\ out \in Seq([to : Macs \cup {Broadcast}, kind : STRING, ip : IPs,
                  len : 0..ETH_MTU, extent : Nat])
  /\ got \in {<<>>} \cup {<<f>> : f \in Frames}
  /\ reach \in Nat
  /\ steps \in 0..MaxSteps

(* arp_cache_add and the slot-0 eviction keep the cache a table: after any *)
(* sequence of ARP packets, from any sender, for us or not, the valid      *)
(* entries form a prefix of the array and no IP has two of them, so the    *)
(* first hit of arp_lookup is the only one.                                *)
ArpCacheWellFormed ==
  /\ \A s \in Slots : arp_cache[s].valid => \A r \in 0..s : arp_cache[r].valid
  /\ \A s, r \in Slots :
       arp_cache[s].valid /\ arp_cache[r].valid /\ arp_cache[s].ip = arp_cache[r].ip
         => s = r

(* A cached MAC is never stale: an IP's entry holds the MAC of the last    *)
(* well-formed ARP packet it sent, whatever was evicted or announced in    *)
(* between, so ip_send and icmp_reply address the host's current MAC.      *)
ArpCacheFresh ==
  \A s \in Slots : arp_cache[s].valid => arp_cache[s].mac = latest[arp_cache[s].ip]

(* RFC 1071's Internet checksum, for the reference: the complement of the *)
(* ones'-complement sum of the data's 16-bit words in network order, an    *)
(* odd last byte padded with a zero byte.                                  *)
OnesSum(data) ==
  LET t == MapThenSumSet(LAMBDA i : IF i % 2 = 1 THEN 256 * data[i] ELSE data[i],
                         DOMAIN data)
  IN IF t = 0 THEN 0 ELSE ((t - 1) % 65535) + 1
InternetChecksum(data) == 65535 - OnesSum(data)
Swap16(v) == 256 * (v % 256) + (v \div 256)

(* What net_poll sends in answer to a frame carries only bytes of that    *)
(* frame: the data icmp_reply echoes, which ip_send puts on the wire once  *)
(* the sender's MAC is cached, lies within the len bytes eth_receive       *)
(* stored in data[].  The code takes its extent from the header's          *)
(* total_len and IHL without comparing it with len.                        *)
EchoReplyWithinFrame ==
  got # <<>> => \A i \in DOMAIN out : out[i].extent <= got[1].len

====
