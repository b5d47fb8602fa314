---------------------------- MODULE MCVirtioNet -----------------------------
(* Model-checking instance of VirtioNet: a queue of 2 slots stands in for  *)
(* the device's 256, and 8 indices for the 65536 of the 16-bit counters,   *)
(* so both rings wrap several times within the bounds.  The bus has two    *)
(* devices of two functions and the PCI registry two entries, so that each *)
(* rule of the scan and the cap decides some population.                   *)
EXTENDS VirtioNet

(* The configuration dwords at 0x00 (IDs), 0x08 (class) and 0x0C (header  *)
(* type in byte 2) of a function, least significant byte first.            *)
Cfg(vendor, device, class, sub, header) ==
  [o \in {0, 8, 12} |->
     IF o = 0 THEN <<vendor % 256, vendor \div 256, device % 256, device \div 256>>
     ELSE IF o = 8 THEN <<0, 0, sub, class>> ELSE <<0, 0, header, 0>>]

NoFn == [o \in {0, 8, 12} |-> <<255, 255, 255, 255>>]
\* virtio-net (1AF4:1000), virtio-blk (1AF4:1001), an Intel bridge (8086:7000)
Virtio(multi) == Cfg(6900, 4096, 2, 0, IF multi THEN 128 ELSE 0)
VirtioBlk(multi) == Cfg(6900, 4097, 1, 0, IF multi THEN 128 ELSE 0)
Other(multi) == Cfg(32902, 28672, 6, 1, IF multi THEN 128 ELSE 0)

(* The bus with f00, f01 at device 0 and f10, f11 at device 1.            *)
PciBus(f00, f01, f10, f11) ==
  [d \in 0..1 |-> [f \in 0..1 |-> IF d = 0 THEN IF f = 0 THEN f00 ELSE f01
                                           ELSE IF f = 0 THEN f10 ELSE f11]]

MCBuses ==
  { PciBus(Virtio(FALSE), NoFn, NoFn, NoFn),
    PciBus(NoFn, NoFn, NoFn, NoFn),
    \* a single-function device that also answers on function 1
    PciBus(Other(FALSE), Virtio(FALSE), NoFn, NoFn),
    PciBus(Other(TRUE), Virtio(FALSE), NoFn, NoFn),
    \* function 0 absent: the device is skipped
    PciBus(NoFn, Virtio(FALSE), NoFn, NoFn),
    \* the NIC is the third visible function, past the registry's two
    PciBus(Other(TRUE), Other(FALSE), Virtio(FALSE), NoFn),
    PciBus(Other(FALSE), NoFn, Virtio(FALSE), NoFn),
    \* the virtio vendor with another device ID
    PciBus(VirtioBlk(TRUE), Virtio(FALSE), NoFn, NoFn) }
====
