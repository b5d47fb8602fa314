------------------------------ MODULE VirtioNet -----------------------------
(***************************************************************************)
(* The legacy virtio-net driver of MiniOS (src/drivers/virtio_net.c)       *)
(* against the device on the other side of its two split virtqueues.       *)
(*                                                                         *)
(* Driver: pci_init's bus scan at boot, virtio_net_init (device looked up *)
(* in the scanned list, queues set up, every RX slot posted, DRIVER_OK),   *)
(* virtio_net_receive (take one used RX entry, copy it out,    *)
(* re-post the slot) and virtio_net_send (fill TX slot tx_idx, post it).   *)
(* The driver is called from one thread (net_poll and the senders above    *)
(* it) and uses no interrupt, so its calls never overlap; the device runs  *)
(* concurrently and may look at the rings between any two driver stores.   *)
(*                                                                         *)
(* Data is abstracted to what the properties tell apart: a received        *)
(* packet is its delivery number, a sent packet its send number; a used    *)
(* length is "short" (at most the 10-byte virtio-net header) or "full".    *)
(* avail.idx and used.idx are free-running counters modulo IdxMod (2^16 in *)
(* the code), ring slots are indexed modulo the queue size.                *)
(***************************************************************************)
EXTENDS Integers, Sequences, FiniteSets, TLC

LOCAL INSTANCE Bitwise

CONSTANTS
  DevQueueSize,  \* the queue size the device reports in QUEUE_SIZE
  IdxMod,        \* modulus of the 16-bit ring indices (65536 in the code)
  MaxRx,         \* bound on the packets the device delivers
  MaxTx,         \* bound on the packets the driver sends
  NDev,          \* devices per bus (32 in the code); one bus is scanned
  NFunc,         \* functions per device (8)
  MaxPci,        \* MAX_PCI_DEVICES (32)
  Buses          \* the bus populations pci_init may find

ASSUME DevQueueSize \in Nat /\ IdxMod \in Nat \ {0}
ASSUME MaxRx \in Nat /\ MaxTx \in Nat
ASSUME NDev \in Nat \ {0} /\ NFunc \in Nat \ {0} /\ MaxPci \in Nat

(* virtq_setup: a missing or unreasonable size hint falls back to 16.      *)
QueueSizeOf(hint) == IF hint = 0 \/ hint > 256 THEN 16 ELSE hint

Q == QueueSizeOf(DevQueueSize)
Slots == 0..Q - 1

ASSUME IdxMod % Q = 0

(* The distance from index a forward to index b on the 16-bit counters.    *)
Dist(a, b) == (b - a + IdxMod) % IdxMod
(* Mutant: a ring index kept without the 16-bit wrap.                      *)
Inc_no_wrap(i) == i + 1

Inc(i) == (i + 1) % IdxMod

VARIABLES
  initialized,  \* virtio_initialized
  drv,          \* control point of the driver's current call
  rxDesc,       \* local desc_idx of virtio_net_receive
  rxAvail,      \* rx_queue.avail: [ring |-> ..., idx |-> ...]
  rxUsed,       \* rx_queue.used:  [ring |-> ..., idx |-> ...]
  lastUsed,     \* rx_queue.last_used_idx
  rxBuf,        \* contents of rx_queue.buffers[slot]
  devRxNext,    \* device: next RX avail index it will take
  txAvail,      \* tx_queue.avail
  txIdx,        \* static tx_idx of virtio_net_send
  txBuf,        \* contents of tx_queue.buffers[slot]
  devTxNext,    \* device: next TX avail index it will take
  broken,       \* device: has flagged the driver's ring state as invalid
  delivered,    \* history: what the device wrote into RX buffers, in order
  received,     \* history: what virtio_net_receive handed to its caller
  sent,         \* history: packets virtio_net_send accepted, in order
  wire,         \* history: packets the device transmitted, in order
  pci_bus,      \* the functions present on the bus (the machine, fixed)
  pci_devices   \* pci_devices[0 .. pci_device_count - 1], as a sequence

vars == <<pci_bus, pci_devices, initialized, drv, rxDesc, rxAvail, rxUsed, lastUsed, rxBuf,
          devRxNext, txAvail, txIdx, txBuf, devTxNext, broken, delivered,
          received, sent, wire>>

(***************************************************************************)
(* PCI (the pci_* functions of virtio_net.c).  bus[d][f] is the            *)
(* configuration space of function f of device d on bus 0: the dwords at   *)
(* the offsets the driver reads, each as its four bytes, least significant *)
(* first (the order inl returns them in).  An absent function reads all    *)
(* ones.  The 0xCF8 address written before each read selects the dword;    *)
(* the model indexes the space directly.                                   *)
(***************************************************************************)
Devs == 0..NDev - 1
Funcs == 0..NFunc - 1

VIRTIO_VENDOR_ID == 6900      \* 0x1AF4
VIRTIO_NET_DEVICE_ID == 4096  \* 0x1000

(* pci_config_read: the dword at offset & 0xFC.                            *)
pci_config_read(bus, d, f, offset) == bus[d][f][offset & 252]

(* pci_config_read16 and pci_config_read8: the dword shifted right by      *)
(* (offset & 2) * 8 or (offset & 3) * 8 bits and masked.                   *)
pci_config_read16(bus, d, f, offset) ==
  LET v == pci_config_read(bus, d, f, offset)
      k == offset & 2
  IN v[k + 1] + 256 * v[k + 2]

pci_config_read8(bus, d, f, offset) ==
  pci_config_read(bus, d, f, offset)[(offset & 3) + 1]

(* pci_device_exists: the vendor ID does not read 0xFFFF.                  *)
pci_device_exists(bus, d, f) == pci_config_read16(bus, d, f, 0) # 65535

(* pci_read_device: the IDs and the class bytes of class_info; the BARs   *)
(* and the interrupt line are read too and not used by the model.          *)
pci_read_device(bus, d, f) ==
  [vendor_id |-> pci_config_read16(bus, d, f, 0),
   device_id |-> pci_config_read16(bus, d, f, 2),
   class_code |-> pci_config_read(bus, d, f, 8)[4],
   subclass |-> pci_config_read(bus, d, f, 8)[3],
   device |-> d, function |-> f]

(* Bit 7 of function 0's header type (offset 0x0E).                        *)
multi_function(bus, d) == (pci_config_read8(bus, d, 0, 14) & 128) # 0

(* Mutant: the functions of a single-function device scanned as well.     *)
RECURSIVE PciScan_no_multi_check(_, _, _, _)
PciScan_no_multi_check(bus, d, f, list) ==
  IF d = NDev THEN list
  ELSE IF f = NFunc THEN PciScan_no_multi_check(bus, d + 1, 0, list)
  ELSE IF ~pci_device_exists(bus, d, f)
       THEN IF f = 0 THEN PciScan_no_multi_check(bus, d + 1, 0, list)
            ELSE PciScan_no_multi_check(bus, d, f + 1, list)
  ELSE PciScan_no_multi_check(bus, d, f + 1,
         IF Len(list) < MaxPci THEN Append(list, pci_read_device(bus, d, f))
         ELSE list)

(* The loops of pci_enumerate from device d, function f: a missing         *)
(* function 0 ends the device, a missing other function is skipped, a      *)
(* present one is kept while fewer than MAX_PCI_DEVICES are, and function  *)
(* 0 without the multi-function bit ends the device.                       *)
RECURSIVE PciScan(_, _, _, _)
PciScan(bus, d, f, list) ==
  IF d = NDev THEN list
  ELSE IF f = NFunc THEN PciScan(bus, d + 1, 0, list)
  ELSE IF ~pci_device_exists(bus, d, f)
       THEN IF f = 0 THEN PciScan(bus, d + 1, 0, list)
            ELSE PciScan(bus, d, f + 1, list)
  ELSE LET kept == IF Len(list) < MaxPci
                   THEN Append(list, pci_read_device(bus, d, f)) ELSE list
       IN IF f = 0 /\ ~multi_function(bus, d) THEN PciScan(bus, d + 1, 0, kept)
          ELSE PciScan(bus, d, f + 1, kept)

pci_enumerate(bus) == PciScan(bus, 0, 0, <<>>)

(* pci_find_device: an entry of the scanned list with both IDs.           *)
pci_find_device(list, vendor_id, device_id) ==
  \E i \in DOMAIN list : list[i].vendor_id = vendor_id /\ list[i].device_id = device_id

Lens == {"short", "full"}
(* A ring of the given size after virtq_init's kcalloc: all zero.          *)
ZeroAvail == [ring |-> [s \in Slots |-> 0], idx |-> 0]
ZeroUsed  == [ring |-> [s \in Slots |-> [id |-> 0, len |-> "short"]], idx |-> 0]

(* virtq_add_rx_buffer(vq, idx) for the driver-only part of the call: the  *)
(* descriptor of slot idx always points back at buffers[idx], so only the  *)
(* avail ring entry and avail.idx carry state; the entry is written before *)
(* the index is published (compiler barrier between the two stores).       *)
AvailAfterAdd(avail, idx) ==
  [ring |-> [avail.ring EXCEPT ![avail.idx % Q] = idx],
   idx  |-> Inc(avail.idx)]

TypeOK ==
  /\ initialized \in BOOLEAN
  /\ drv \in {"init", "absent", "idle", "rx_publish", "tx_publish"}
  /\ pci_bus \in Buses
  /\ pci_devices \in Seq([vendor_id : 0..65534, device_id : 0..65535, class_code : 0..255,
                          subclass : 0..255, device : Devs, function : Funcs])
  /\ rxDesc \in Slots
  /\ rxAvail \in [ring : [Slots -> Slots], idx : 0..IdxMod - 1]
  /\ rxUsed \in [ring : [Slots -> [id : Slots, len : Lens]], idx : 0..IdxMod - 1]
  /\ lastUsed \in 0..IdxMod - 1
  /\ rxBuf \in [Slots -> 0..MaxRx]
  /\ devRxNext \in 0..IdxMod - 1
  /\ txAvail \in [ring : [Slots -> Slots], idx : 0..IdxMod - 1]
  /\ txIdx \in Slots
  /\ txBuf \in [Slots -> 0..MaxTx]
  /\ devTxNext \in 0..IdxMod - 1
  /\ broken \in BOOLEAN
  /\ delivered \in Seq(0..MaxRx) /\ received \in Seq(0..MaxRx)
  /\ sent \in Seq(1..MaxTx) /\ wire \in Seq(0..MaxTx)

(* kernel_main's pci_init on whichever bus the machine has, then net_init  *)
(* reaches virtio_net_init with the driver's statics zero.                 *)
Init ==
  /\ pci_bus \in Buses
  /\ pci_devices = pci_enumerate(pci_bus)
  /\ initialized = FALSE
  /\ drv = "init"
  /\ rxDesc = 0
  /\ rxAvail = ZeroAvail /\ rxUsed = ZeroUsed /\ lastUsed = 0
  /\ rxBuf = [s \in Slots |-> 0]
  /\ devRxNext = 0
  /\ txAvail = ZeroAvail /\ txIdx = 0
  /\ txBuf = [s \in Slots |-> 0]
  /\ devTxNext = 0
  /\ broken = FALSE
  /\ delivered = <<>> /\ received = <<>> /\ sent = <<>> /\ wire = <<>>

(* virtio_net_init.  Without the device in the scanned list it returns -1 *)
(* and every later call returns -1 without a state change.  Otherwise the  *)
(* device looks at no ring before DRIVER_OK, so the whole bring-up is one  *)
(* step: both queues are set up, each RX slot i is added in turn (the loop *)
(* of virtq_add_rx_buffer calls), DRIVER_OK is written and                 *)
(* virtio_initialized is set.  Allocation failure in virtq_init cannot     *)
(* happen at the heap's size and is not modelled.                          *)
SeedRx[i \in 0..Q] ==
  IF i = 0 THEN ZeroAvail ELSE AvailAfterAdd(SeedRx[i - 1], i - 1)

virtio_net_init ==
  /\ drv = "init"
  /\ IF pci_find_device(pci_devices, VIRTIO_VENDOR_ID, VIRTIO_NET_DEVICE_ID)
     THEN /\ drv' = "idle"
          /\ initialized' = TRUE
          /\ rxAvail' = SeedRx[Q]
     ELSE /\ drv' = "absent"
          /\ UNCHANGED <<initialized, rxAvail>>
  /\ UNCHANGED <<pci_bus, pci_devices, rxDesc, rxUsed, lastUsed, rxBuf,
                 devRxNext, txAvail, txIdx, txBuf, devTxNext, broken,
                 delivered, received, sent, wire>>

(* virtio_net_receive up to the barrier of its virtq_add_rx_buffer call.   *)
(* With nothing new in the used ring it returns 0 without a state change,  *)
(* so only the call that finds a packet is a step: it reads the used entry *)
(* at last_used_idx % size, advances last_used_idx, copies the payload out *)
(* of buffers[desc_idx] (nothing when the length does not exceed the       *)
(* header), and writes desc_idx into the avail ring at avail.idx % size.   *)
(* Mutant: the used entry read one position past last_used_idx.           *)
UsedEntry_next(ring, last) == ring[(last + 1) % Q]

UsedEntry(ring, last) == ring[last % Q]

(* Mutant: a short packet returns 0 before its slot is re-added.          *)
virtio_net_receive_short_leak ==
  /\ drv = "idle" /\ initialized
  /\ lastUsed # rxUsed.idx
  /\ LET e == UsedEntry(rxUsed.ring, lastUsed)
     IN /\ lastUsed' = Inc(lastUsed)
        /\ received' = Append(received, IF e.len = "full" THEN rxBuf[e.id] ELSE 0)
        /\ rxDesc' = e.id
        /\ IF e.len = "full"
             THEN rxAvail' = [rxAvail EXCEPT !.ring[rxAvail.idx % Q] = e.id]
                  /\ drv' = "rx_publish"
             ELSE UNCHANGED rxAvail /\ drv' = "idle"
  /\ UNCHANGED <<pci_bus, pci_devices, initialized, rxUsed, rxBuf, devRxNext, txAvail, txIdx, txBuf,
                 devTxNext, broken, delivered, sent, wire>>

virtio_net_receive ==
  /\ drv = "idle" /\ initialized
  /\ lastUsed # rxUsed.idx
  /\ LET e == UsedEntry(rxUsed.ring, lastUsed)
     IN /\ lastUsed' = Inc(lastUsed)
        /\ received' = Append(received, IF e.len = "full" THEN rxBuf[e.id] ELSE 0)
        /\ rxDesc' = e.id
        /\ rxAvail' = [rxAvail EXCEPT !.ring[rxAvail.idx % Q] = e.id]
  /\ drv' = "rx_publish"
  /\ UNCHANGED <<pci_bus, pci_devices, initialized, rxUsed, rxBuf, devRxNext, txAvail, txIdx, txBuf,
                 devTxNext, broken, delivered, sent, wire>>

(* The rest of virtq_add_rx_buffer and virtio_net_receive: the store of    *)
(* avail.idx + 1 after the barrier, then the doorbell and the return.      *)
RxPublish ==
  /\ drv = "rx_publish"
  /\ rxAvail' = [rxAvail EXCEPT !.idx = Inc(@)]
  /\ drv' = "idle"
  /\ UNCHANGED <<pci_bus, pci_devices, initialized, rxDesc, rxUsed, lastUsed, rxBuf, devRxNext,
                 txAvail, txIdx, txBuf, devTxNext, broken, delivered,
                 received, sent, wire>>

(* virtio_net_send up to its barrier: header and payload go into           *)
(* buffers[tx_idx], the descriptor is filled in and tx_idx is written into *)
(* the avail ring at avail.idx % size.  No used entry is looked at: the    *)
(* slot is reused whether or not the device has finished with it.  The     *)
(* length check cannot fail for the frames eth_send builds.                *)
virtio_net_send ==
  /\ drv = "idle" /\ initialized
  /\ Len(sent) < MaxTx
  /\ txBuf' = [txBuf EXCEPT ![txIdx] = Len(sent) + 1]
  /\ txAvail' = [txAvail EXCEPT !.ring[txAvail.idx % Q] = txIdx]
  /\ drv' = "tx_publish"
  /\ UNCHANGED <<pci_bus, pci_devices, initialized, rxDesc, rxAvail, rxUsed, lastUsed, rxBuf,
                 devRxNext, txIdx, devTxNext, broken, delivered, received,
                 sent, wire>>

(* Mutant: the store of avail.idx + 1 left out.                           *)
TxPublish_no_idx ==
  /\ drv = "tx_publish"
  /\ txIdx' = (txIdx + 1) % Q
  /\ sent' = Append(sent, Len(sent) + 1)
  /\ drv' = "idle"
  /\ UNCHANGED <<pci_bus, pci_devices, initialized, rxDesc, rxAvail, rxUsed, lastUsed, rxBuf,
                 devRxNext, txAvail, txBuf, devTxNext, broken, delivered, received,
                 wire>>

(* The rest of virtio_net_send: avail.idx + 1, the doorbell, tx_idx        *)
(* rotated modulo the queue size, return 0.                                *)
TxPublish ==
  /\ drv = "tx_publish"
  /\ txAvail' = [txAvail EXCEPT !.idx = Inc(@)]
  /\ txIdx' = (txIdx + 1) % Q
  /\ sent' = Append(sent, Len(sent) + 1)
  /\ drv' = "idle"
  /\ UNCHANGED <<pci_bus, pci_devices, initialized, rxDesc, rxAvail, rxUsed, lastUsed, rxBuf,
                 devRxNext, txBuf, devTxNext, broken, delivered, received,
                 wire>>
(***************************************************************************)
(* The device (QEMU's legacy virtio-net).  It pops the avail entry at its  *)
(* own last_avail_idx once avail.idx has moved past it; if avail.idx is    *)
(* more than a queue size ahead it declares the driver broken and stops    *)
(* processing (virtqueue_num_heads).  It works only after DRIVER_OK.       *)
(***************************************************************************)
Overrun(next, avail) == Dist(next, avail.idx) > Q

(* A packet of length l arrives: the device fills the buffer of the slot   *)
(* it pops, writes the used entry {slot, l}, then advances used.idx.  A    *)
(* packet arriving with no buffer posted is dropped by the device (no      *)
(* step here).                                                             *)
DeviceRx(l) ==
  /\ initialized /\ ~broken
  /\ Len(delivered) < MaxRx
  /\ Dist(devRxNext, rxAvail.idx) # 0
  /\ IF Overrun(devRxNext, rxAvail)
       THEN /\ broken' = TRUE
            /\ UNCHANGED <<rxBuf, rxUsed, devRxNext, delivered>>
       ELSE LET slot == rxAvail.ring[devRxNext % Q]
                id   == IF l = "full" THEN Len(delivered) + 1 ELSE 0
            IN /\ rxBuf' = IF l = "full" THEN [rxBuf EXCEPT ![slot] = id]
                                         ELSE rxBuf
               /\ rxUsed' = [ring |-> [rxUsed.ring EXCEPT ![rxUsed.idx % Q] =
                                         [id |-> slot, len |-> l]],
                             idx  |-> Inc(rxUsed.idx)]
               /\ devRxNext' = Inc(devRxNext)
               /\ delivered' = Append(delivered, id)
               /\ UNCHANGED broken
  /\ UNCHANGED <<pci_bus, pci_devices, initialized, drv, rxDesc, rxAvail, lastUsed, txAvail, txIdx,
                 txBuf, devTxNext, received, sent, wire>>

(* The device transmits the next posted TX entry: it reads the buffer of   *)
(* the slot the entry names as it is at that moment.                       *)
DeviceTx ==
  /\ initialized /\ ~broken
  /\ Dist(devTxNext, txAvail.idx) # 0
  /\ IF Overrun(devTxNext, txAvail)
       THEN /\ broken' = TRUE
            /\ UNCHANGED <<devTxNext, wire>>
       ELSE /\ wire' = Append(wire, txBuf[txAvail.ring[devTxNext % Q]])
            /\ devTxNext' = Inc(devTxNext)
            /\ UNCHANGED broken
  /\ UNCHANGED <<pci_bus, pci_devices, initialized, drv, rxDesc, rxAvail, rxUsed, lastUsed, rxBuf,
                 devRxNext, txAvail, txIdx, txBuf, delivered, received, sent>>

Driver == virtio_net_init \/ virtio_net_receive \/ RxPublish
            \/ virtio_net_send \/ TxPublish

Next == Driver \/ (\E l \in Lens : DeviceRx(l)) \/ DeviceTx

(* A driver call, once begun, runs to its return (the CPU runs the one     *)
(* thread); the device eventually handles a notified TX queue.  Whether    *)
(* the shell calls receive or send at all, and whether packets arrive, is  *)
(* up to the user and the network: no fairness.                            *)
Fairness ==
  /\ WF_vars(virtio_net_init) /\ WF_vars(RxPublish) /\ WF_vars(TxPublish)
  /\ WF_vars(DeviceTx)

Spec == Init /\ [][Next]_vars /\ Fairness

-----------------------------------------------------------------------------
(* Where each RX slot is: posted and not yet popped by the device, used    *)
(* and not yet taken by the driver, or held by a receive call between its  *)
(* ring write and its avail.idx store.                                     *)
Posted(s) == {k \in 0..Dist(devRxNext, rxAvail.idx) - 1 :
                rxAvail.ring[(devRxNext + k) % Q] = s}
Returned(s) == {k \in 0..Dist(lastUsed, rxUsed.idx) - 1 :
                  rxUsed.ring[(lastUsed + k) % Q].id = s}
Held(s) == IF drv = "rx_publish" /\ rxDesc = s THEN 1 ELSE 0

(* RX slot conservation: once the driver is up, every RX buffer is in      *)
(* exactly one of the three places.  A buffer posted twice can be filled   *)
(* while the driver still reads it; a buffer in none is lost to the ring   *)
(* for good.  It depends on virtio_net_receive re-adding every slot it     *)
(* takes (short packets included), on the index arithmetic of              *)
(* virtq_add_rx_buffer and on the device and driver wrapping alike.        *)
RxSlotsConserved ==
  initialized =>
    \A s \in Slots : Cardinality(Posted(s)) + Cardinality(Returned(s)) + Held(s) = 1

(* RX delivery: what virtio_net_receive hands up is exactly what the       *)
(* device delivered, in order, none lost, repeated or overwritten (a short *)
(* packet hands up nothing, 0 here).                                       *)
RxInOrder == received = SubSeq(delivered, 1, Len(received))

(* TX delivery (spec 4.8, "send-and-recv loopback"): the device transmits  *)
(* exactly the packets virtio_net_send accepted, in order, and never       *)
(* declares the TX ring broken.                                            *)
TxInOrder == ~broken /\ wire = SubSeq(sent, 1, Len(wire))

(* Byte o of a function's configuration space, by the PCI header layout.  *)
CfgByte(bus, d, f, o) == bus[d][f][o - (o % 4)][(o % 4) + 1]
CfgWord(bus, d, f, o) == CfgByte(bus, d, f, o) + 256 * CfgByte(bus, d, f, o + 1)
Present(bus, d, f) == CfgWord(bus, d, f, 0) # 65535

(* A PCI function pci_enumerate can see: present, and either function 0 or *)
(* a function of a device whose function 0 is present and has bit 7 of    *)
(* its header type byte set.                                               *)
Visible(bus) ==
  {<<d, f>> \in Devs \X Funcs :
     /\ Present(bus, d, f)
     /\ f = 0 \/ (Present(bus, d, 0) /\ CfgByte(bus, d, 0, 14) >= 128)}

(* Bus order: by device, then by function.                                 *)
Before(a, b) == a[1] < b[1] \/ (a[1] = b[1] /\ a[2] < b[2])

(* Device discovery (spec 4.5: absent where the vendor ID reads 0xFFFF,   *)
(* multi-function scanning selected by function 0's header type, present  *)
(* functions captured up to a fixed capacity; the NIC is looked up there): *)
(* virtio_net_init comes up exactly when the bus                           *)
(* has a visible virtio-net function among the first MAX_PCI_DEVICES       *)
(* visible functions in bus order.  It rests on pci_enumerate's two break  *)
(* rules, its cap and pci_find_device.                                     *)
PciFindsVirtio ==
  drv # "init" =>
    (initialized <=>
       \E v \in Visible(pci_bus) :
          /\ CfgWord(pci_bus, v[1], v[2], 0) = 6900
          /\ CfgWord(pci_bus, v[1], v[2], 2) = 4096
          /\ Cardinality({w \in Visible(pci_bus) : Before(w, v)}) < MaxPci)

(* Every packet virtio_net_send accepts eventually goes out on the wire.   *)
(* The driver never looks at the TX used ring, so this rests on the store  *)
(* of avail.idx + 1 after the barrier (with its 16-bit wrap) making every  *)
(* filled entry visible, and on the device taking each entry before       *)
(* avail.idx once notified, with the device never declaring the driver    *)
(* broken.                                                                 *)
SentReachWire == \A n \in 1..MaxTx : (Len(sent) >= n) ~> (Len(wire) >= n)
====
