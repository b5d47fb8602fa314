-------------------------------- MODULE Ata ---------------------------------
(***************************************************************************)
(* The ATA PIO driver of MiniOS (ata.c, carried in src/Makefile) against  *)
(* the disk on the selected channel.                                      *)
(*                                                                         *)
(* The driver has no interrupts: every wait is a counted loop of status   *)
(* register reads ("while (timeout--)").  One step of the driver is one   *)
(* status read together with what the code does with it; the 256 inw or  *)
(* outw of a sector are one step, because the disk does not change its    *)
(* registers while a sector is being transferred.  The disk runs          *)
(* concurrently: a busy period ends by a step of the disk, and it lasts   *)
(* at most Latency status reads of the driver.                            *)
(*                                                                         *)
(* A sector's contents is one value; the data register reads Garbage (0,  *)
(* what QEMU returns) when no read transfer is pending.  A command        *)
(* written while BSY or DRQ is set is undefined in ATA (QEMU ignores it): *)
(* the disk may ignore or accept it.                                      *)
(***************************************************************************)
EXTENDS Integers, Sequences, FiniteSets, TLC

CONSTANTS
  Polls,      \* the iteration count of every wait loop (100000 in the code)
  Latency,    \* the most status reads one busy period of the disk lasts
  Faulty,     \* whether the disk may end a read or write with ERR
  Hangs,      \* whether the disk may stop answering a read or write for ever
  Kinds,      \* what may sit on each channel
  LBAs,       \* the sectors, 0..N-1
  DiskInit,   \* the sectors' contents at boot
  Vals,       \* the values a write may carry
  Counts,     \* the sector counts a caller passes (uint8_t count)
  MaxCalls    \* bound on the read/write calls

ASSUME Polls \in Nat \ {0} /\ Latency \in Nat /\ Faulty \in BOOLEAN /\ Hangs \in BOOLEAN
ASSUME Kinds \subseteq {"none", "empty", "ata", "atapi"}
ASSUME DiskInit \in [LBAs -> Nat \ {0}] /\ Vals \subseteq Nat \ {0}
ASSUME Counts \subseteq 0..255 /\ MaxCalls \in Nat

Garbage == 0
MaxCount == CHOOSE m \in {1} \cup Counts : \A c \in Counts : c <= m

VARIABLES
  kinds,     \* what sits on the primary and the secondary channel
  base,      \* ata_io_base: "primary" or "secondary" ("none": no controller)
  present,   \* ata_drive_present
  dev,       \* the disk: phase, pending operation, its next LBA, sectors left,
             \* a latched data value, the status reads of this busy period,
             \* whether IDENTIFY left the ATAPI signature in LBA mid/hi,
             \* and whether the drive has hung with BSY set
  disk,      \* the sectors' contents
  pc,        \* the driver's control point
  t,         \* the local timeout counter of the current wait loop
  call,      \* the current call: op, lba, count, cnt (normalised), data
  sector,    \* the local loop counter "sector"
  buf,       \* the caller's buffer, one value per sector
  ret,       \* the last call's return: op, code, lba, count, buf
  calls,     \* read/write calls made
  requested  \* history: <<lba, value>> pairs some write call asked for

vars == <<kinds, base, present, dev, disk, pc, t, call, sector, buf, ret,
          calls, requested>>

Phases == {"idle", "busy", "drq", "error"}
PCs == {"init", "id_ready", "id_drq", "idle", "rd_ready", "rd_drq",
        "wr_ready", "wr_drq", "wr_final"}
DevIdle == [phase |-> "idle", op |-> "none", lba |-> 0, left |-> 0,
            latched |-> Garbage, wait |-> 0, sig |-> FALSE, hung |-> FALSE]
NoCall == [op |-> "none", lba |-> 0, count |-> 0, cnt |-> 1,
           data |-> [i \in {} |-> Garbage]]
NoRet == [op |-> "none", code |-> 0, lba |-> 0, count |-> 0,
          buf |-> [i \in {} |-> Garbage]]

Kind == IF base = "none" THEN "none" ELSE kinds[base]

(* Status bits as the driver reads them.                                   *)
BSY == dev.phase = "busy"
DRQ == dev.phase = "drq"
ERR == dev.phase = "error"

(* A status read that still sees BSY: it counts against the busy period's *)
(* Latency bound, unless the drive has hung and stays busy for ever.       *)
SeeBusy == /\ BSY
           /\ dev.wait < Latency \/ dev.hung
           /\ dev' = IF dev.hung THEN dev ELSE [dev EXCEPT !.wait = @ + 1]

(* Mutant: a wait loop that does not count its polls ("while (timeout)"). *)
Countdown_stuck(n) == n

(* while (timeout--): every status read of a wait loop uses up one poll.   *)
Countdown(n) == n - 1

(* Writing the command register (ata_read/write_sectors and ata_identify  *)
(* after their register setup).  Undefined while BSY or DRQ: ignored, or  *)
(* the new command replaces the pending one.                               *)
CommandOutcomes(op, lba, n) ==
  LET new == [DevIdle EXCEPT !.phase = "busy", !.op = op, !.lba = lba,
                             !.left = n]
  IN IF BSY \/ DRQ THEN {dev, new} ELSE {new}

(* inw of the data register, 256 times: the value read and the disk after. *)
ReadData ==
  IF DRQ /\ dev.op = "read"
  THEN [v |-> disk[dev.lba],
        d |-> IF dev.left > 1
              THEN [dev EXCEPT !.phase = "busy", !.lba = @ + 1,
                               !.left = @ - 1, !.wait = 0]
              ELSE DevIdle]
  ELSE IF DRQ /\ dev.op = "identify"
  THEN [v |-> Garbage, d |-> DevIdle]
  ELSE [v |-> Garbage, d |-> dev]

(* outw of the data register, 256 times: the disk latches the sector and  *)
(* goes busy to commit it; ignored unless a write transfer is pending.     *)
WriteData(v) ==
  IF DRQ /\ dev.op = "write"
  THEN [dev EXCEPT !.phase = "busy", !.latched = v, !.wait = 0]
  ELSE dev

(* count == 0 is treated as 1.                                             *)
Norm(count) == IF count = 0 THEN 1 ELSE count

(* Mutant: the sector loop runs once more, sector <= count.              *)
MoreSectors_off_by_one(s, n) == s + 1 <= n

(* The sector loop's test for another sector after sector s of n.        *)
MoreSectors(s, n) == s + 1 < n

(* Mutant: every sector read into the start of the buffer.                 *)
ReadInto_no_offset(b, s, v) == [b EXCEPT ![0] = v]

(* buf[sector * 256 + i] = inw(...): the sector lands at its own offset.  *)
ReadInto(b, s, v) == [b EXCEPT ![s] = v]

(* Mutant: every sector written from the start of the buffer.              *)
WriteFrom_no_offset(d, s) == d[0]

(* outw(..., buf[sector * 256 + i]): the value of the current sector.     *)
WriteFrom(d, s) == d[s]

Init ==
  /\ kinds \in [{"primary", "secondary"} -> Kinds]
  /\ base = "primary"
  /\ present = FALSE
  /\ dev = DevIdle
  /\ disk = DiskInit
  /\ pc = "init"
  /\ t = 0
  /\ call = NoCall
  /\ sector = 0
  /\ buf = [i \in {} |-> Garbage]
  /\ ret = NoRet
  /\ calls = 0
  /\ requested = {}

(* Mutant: IDENTIFY polled for DRQ without first waiting for BSY = 0.      *)
IdentifyCommand_no_wait(k) ==
  CASE k = "ata"   -> /\ dev' = [DevIdle EXCEPT !.phase = "busy",
                                                !.op = "identify"]
                      /\ pc' = "id_drq" /\ t' = Polls
    [] k = "atapi" -> /\ dev' = [DevIdle EXCEPT !.phase = "error",
                                                !.sig = TRUE]
                      /\ pc' = "id_drq" /\ t' = Polls
    [] k = "empty" -> /\ dev' = DevIdle /\ pc' = "idle" /\ t' = t

(* ata_soft_reset, then ata_identify up to its "status == 0" test: the    *)
(* reset leaves the disk idle, so IDENTIFY is taken.  An ATA disk goes     *)
(* busy; an ATAPI device aborts it with ERR and its signature in LBA       *)
(* mid/hi; an empty channel reads status 0 and identify returns 0.         *)
IdentifyCommand(k) ==
  CASE k = "ata"   -> /\ dev' = [DevIdle EXCEPT !.phase = "busy",
                                                !.op = "identify"]
                      /\ pc' = "id_ready" /\ t' = Polls
    [] k = "atapi" -> /\ dev' = [DevIdle EXCEPT !.phase = "error",
                                                !.sig = TRUE]
                      /\ pc' = "id_ready" /\ t' = Polls
    [] k = "empty" -> /\ dev' = DevIdle /\ pc' = "idle" /\ t' = t

(* ata_init: probe the primary channel's status, fall back to the          *)
(* secondary on 0xFF (no controller), give up if that reads 0xFF too.      *)
ata_init ==
  /\ pc = "init"
  /\ LET b == IF kinds["primary"] # "none" THEN "primary"
              ELSE IF kinds["secondary"] # "none" THEN "secondary"
              ELSE "none"
     IN /\ base' = b
        /\ IF b = "none"
           THEN /\ pc' = "idle" /\ UNCHANGED <<dev, t>>
           ELSE IdentifyCommand(kinds[b])
  /\ present' = FALSE
  /\ UNCHANGED <<kinds, disk, call, sector, buf, ret, calls, requested>>

(* ata_identify's ata_wait_ready, then the LBA mid/hi signature test.     *)
IdWaitReady ==
  /\ pc = "id_ready"
  /\ IF t = 0
     THEN /\ t' = -1 /\ pc' = "idle" /\ UNCHANGED dev
     ELSE \/ /\ SeeBusy /\ t' = Countdown(t) /\ UNCHANGED pc
          \/ /\ ~BSY /\ UNCHANGED dev
             /\ IF dev.sig THEN pc' = "idle" /\ t' = Countdown(t)
                ELSE pc' = "id_drq" /\ t' = Polls
  /\ UNCHANGED <<kinds, base, present, disk, call, sector, buf, ret, calls,
                 requested>>

(* ata_identify's own DRQ loop.  The loop exits by break with timeout      *)
(* already decremented, and "timeout <= 0" is then read as a timeout.      *)
(* On success the 256 identify words are drained and the drive is present. *)
IdDrqPoll ==
  /\ pc = "id_drq"
  /\ IF t = 0
     THEN /\ t' = -1 /\ pc' = "idle" /\ UNCHANGED <<dev, present>>
     ELSE /\ t' = Countdown(t)
          /\ \/ /\ ERR /\ pc' = "idle" /\ UNCHANGED <<dev, present>>
             \/ /\ ~ERR /\ DRQ /\ t - 1 <= 0
                /\ pc' = "idle" /\ UNCHANGED <<dev, present>>
             \/ /\ ~ERR /\ DRQ /\ t - 1 > 0
                /\ dev' = ReadData.d /\ present' = TRUE /\ pc' = "idle"
             \/ /\ SeeBusy /\ UNCHANGED <<pc, present>>
             \/ /\ dev.phase = "idle" /\ UNCHANGED <<dev, pc, present>>
  /\ UNCHANGED <<kinds, base, disk, call, sector, buf, ret, calls, requested>>

(* Return code from the current call, with what the caller's buffer holds. *)
Return(code, b) ==
  /\ pc' = "idle"
  /\ ret' = [op |-> call.op, code |-> code, lba |-> call.lba,
             count |-> call.count, buf |-> b]

(* The LBAs a call of count sectors from lba covers; callers stay on disk. *)
Span(lba, n) == {lba + i : i \in 0..n - 1}

(* ata_read_sectors up to its first wait: fail at once if no drive, else  *)
(* normalise count.                                                        *)
ata_read_sectors(lba, count) ==
  /\ pc = "idle" /\ calls < MaxCalls
  /\ Span(lba, Norm(count)) \subseteq LBAs
  /\ calls' = calls + 1
  /\ call' = [op |-> "read", lba |-> lba, count |-> count,
              cnt |-> Norm(count), data |-> [i \in {} |-> Garbage]]
  /\ IF present
     THEN /\ pc' = "rd_ready" /\ t' = Polls /\ ret' = NoRet
          /\ buf' = [i \in 0..Norm(count) - 1 |-> Garbage]
     ELSE /\ pc' = "idle" /\ UNCHANGED <<t, buf>>
          /\ ret' = [op |-> "read", code |-> -1, lba |-> lba,
                     count |-> count, buf |-> [i \in {} |-> Garbage]]
  /\ sector' = 0
  /\ UNCHANGED <<kinds, base, present, dev, disk, requested>>

(* ata_write_sectors up to its first wait.                                 *)
ata_write_sectors(lba, count, data) ==
  /\ pc = "idle" /\ calls < MaxCalls
  /\ Span(lba, Norm(count)) \subseteq LBAs
  /\ calls' = calls + 1
  /\ call' = [op |-> "write", lba |-> lba, count |-> count,
              cnt |-> Norm(count), data |-> data]
  /\ requested' = requested \cup {<<lba + i, data[i]>> : i \in DOMAIN data}
  /\ buf' = data
  /\ IF present
     THEN pc' = "wr_ready" /\ t' = Polls /\ ret' = NoRet
     ELSE /\ pc' = "idle" /\ UNCHANGED t
          /\ ret' = [op |-> "write", code |-> -1, lba |-> lba,
                     count |-> count, buf |-> data]
  /\ sector' = 0
  /\ UNCHANGED <<kinds, base, present, dev, disk>>

(* ata_wait_ready at the head of a read or write; when BSY is clear the    *)
(* drive select, count, LBA and command registers are written.             *)
RwWaitReady ==
  /\ pc \in {"rd_ready", "wr_ready"}
  /\ IF t = 0
     THEN /\ t' = -1 /\ Return(-1, buf) /\ UNCHANGED <<dev, sector>>
     ELSE \/ /\ SeeBusy /\ t' = Countdown(t) /\ UNCHANGED <<pc, ret, sector>>
          \/ /\ ~BSY
             /\ dev' \in CommandOutcomes(IF pc = "rd_ready" THEN "read"
                                         ELSE "write", call.lba, call.cnt)
             /\ pc' = IF pc = "rd_ready" THEN "rd_drq" ELSE "wr_drq"
             /\ t' = Polls /\ sector' = 0 /\ UNCHANGED ret
  /\ UNCHANGED <<kinds, base, present, disk, call, buf, calls, requested>>

(* One pass of ata_wait_drq in the sector loop of a read; on DRQ the       *)
(* sector is read and the loop moves on (a fresh wait_drq per sector).     *)
RdDrqPoll ==
  /\ pc = "rd_drq"
  /\ IF t = 0
     THEN /\ t' = -1 /\ Return(-1, buf) /\ UNCHANGED <<dev, buf, sector>>
     ELSE \/ /\ ERR /\ t' = Countdown(t) /\ Return(-1, buf)
             /\ UNCHANGED <<dev, buf, sector>>
          \/ /\ ~ERR /\ DRQ
             /\ LET r == ReadData
                    b == ReadInto(buf, sector, r.v)
                IN /\ dev' = r.d /\ buf' = b
                   /\ IF MoreSectors(sector, call.cnt)
                      THEN /\ sector' = sector + 1 /\ t' = Polls
                           /\ UNCHANGED <<pc, ret>>
                      ELSE /\ t' = Countdown(t) /\ Return(0, b)
                           /\ UNCHANGED sector
          \/ /\ SeeBusy /\ t' = Countdown(t) /\ UNCHANGED <<pc, ret, buf, sector>>
          \/ /\ dev.phase = "idle" /\ t' = Countdown(t)
             /\ UNCHANGED <<dev, pc, ret, buf, sector>>
  /\ UNCHANGED <<kinds, base, present, disk, call, calls, requested>>

(* One pass of ata_wait_drq in the sector loop of a write; on DRQ the      *)
(* sector is written out, then the next sector or the final wait.          *)
WrDrqPoll ==
  /\ pc = "wr_drq"
  /\ IF t = 0
     THEN /\ t' = -1 /\ Return(-1, buf) /\ UNCHANGED <<dev, sector>>
     ELSE \/ /\ ERR /\ t' = Countdown(t) /\ Return(-1, buf)
             /\ UNCHANGED <<dev, sector>>
          \/ /\ ~ERR /\ DRQ
             /\ dev' = WriteData(WriteFrom(call.data, sector))
             /\ t' = Polls /\ UNCHANGED ret
             /\ IF MoreSectors(sector, call.cnt)
                THEN sector' = sector + 1 /\ UNCHANGED pc
                ELSE pc' = "wr_final" /\ UNCHANGED sector
          \/ /\ SeeBusy /\ t' = Countdown(t) /\ UNCHANGED <<pc, ret, sector>>
          \/ /\ dev.phase = "idle" /\ t' = Countdown(t)
             /\ UNCHANGED <<dev, pc, ret, sector>>
  /\ UNCHANGED <<kinds, base, present, disk, call, buf, calls, requested>>

(* The final ata_wait_ready of a write.  Its result is ignored: the call   *)
(* returns 0 whether BSY cleared or the loop ran out.                      *)
WrFinal ==
  /\ pc = "wr_final"
  /\ IF t = 0
     THEN /\ t' = -1 /\ Return(0, buf) /\ UNCHANGED dev
     ELSE \/ /\ SeeBusy /\ t' = Countdown(t) /\ UNCHANGED <<pc, ret>>
          \/ /\ ~BSY /\ t' = Countdown(t) /\ Return(0, buf) /\ UNCHANGED dev
  /\ UNCHANGED <<kinds, base, present, disk, call, sector, buf, calls,
                 requested>>

(* The disk ends a busy period: IDENTIFY data ready; a read sector ready   *)
(* (or ERR); ready for a write's first sector; a latched sector committed  *)
(* (or ERR), then ready for the next one or done.                          *)
DiskStep ==
  /\ BSY /\ ~dev.hung
  /\ LET ready == [dev EXCEPT !.phase = "drq", !.wait = 0]
         failed == [dev EXCEPT !.phase = "error", !.wait = 0]
     IN CASE dev.op = "identify" ->
               dev' = ready /\ UNCHANGED disk
          [] dev.op = "read" ->
               /\ dev' \in {ready} \cup (IF Faulty THEN {failed} ELSE {})
               /\ UNCHANGED disk
          [] dev.op = "write" /\ dev.latched = Garbage ->
               dev' = ready /\ UNCHANGED disk
          [] dev.op = "write" /\ dev.latched # Garbage ->
               \/ /\ disk' = [disk EXCEPT ![dev.lba] = dev.latched]
                  /\ dev' = IF dev.left > 1
                            THEN [ready EXCEPT !.lba = @ + 1, !.left = @ - 1,
                                               !.latched = Garbage]
                            ELSE DevIdle
               \/ Faulty /\ dev' = failed /\ UNCHANGED disk
  /\ UNCHANGED <<kinds, base, present, pc, t, call, sector, buf, ret, calls,
                 requested>>

(* The drive stops answering a read or write command: BSY stays set and   *)
(* no later command is taken.                                              *)
DiskHang ==
  /\ Hangs /\ BSY /\ ~dev.hung /\ dev.op \in {"read", "write"}
  /\ dev' = [dev EXCEPT !.hung = TRUE]
  /\ UNCHANGED <<kinds, base, present, disk, pc, t, call, sector, buf, ret,
                 calls, requested>>

Next ==
  \/ ata_init \/ IdWaitReady \/ IdDrqPoll
  \/ \E lba \in LBAs, count \in Counts : ata_read_sectors(lba, count)
  \/ \E lba \in LBAs, count \in Counts :
       \E data \in [0..Norm(count) - 1 -> Vals] :
         ata_write_sectors(lba, count, data)
  \/ RwWaitReady \/ RdDrqPoll \/ WrDrqPoll \/ WrFinal
  \/ DiskStep \/ DiskHang

Spec == Init /\ [][Next]_vars

(* The driver runs on the CPU and never stops between status reads; a     *)
(* drive that has not hung ends its busy period.  The caller (the shell)   *)
(* and the hang are not fair: they may never happen.                       *)
Fairness ==
  /\ WF_vars(ata_init) /\ WF_vars(IdWaitReady) /\ WF_vars(IdDrqPoll)
  /\ WF_vars(RwWaitReady) /\ WF_vars(RdDrqPoll) /\ WF_vars(WrDrqPoll)
  /\ WF_vars(WrFinal)
  /\ WF_vars(DiskStep)

FairSpec == Spec /\ Fairness

-----------------------------------------------------------------------------
(* Properties.                                                             *)

Data == {Garbage} \cup Vals \cup {DiskInit[l] : l \in LBAs}

TypeOK ==
  /\ kinds \in [{"primary", "secondary"} -> Kinds]
  /\ base \in {"primary", "secondary", "none"}
  /\ present \in BOOLEAN
  /\ dev.phase \in Phases /\ dev.op \in {"none", "identify", "read", "write"}
  /\ dev.left \in 0..MaxCount /\ dev.latched \in Data
  /\ dev.wait \in 0..Latency /\ dev.sig \in BOOLEAN /\ dev.hung \in BOOLEAN
  /\ disk \in [LBAs -> Data]
  /\ pc \in PCs /\ t \in -1..Polls
  /\ call.cnt \in 1..MaxCount /\ sector \in 0..call.cnt - 1
  /\ ret.code \in {-1, 0}
  /\ calls \in 0..MaxCalls

(* A call returns in this step with code 0.                                *)
Succeeds(op) == pc # "idle" /\ pc' = "idle" /\ ret'.op = op /\ ret'.code = 0

(* Once ata_init is done, ata_is_present() is true exactly when an ATA     *)
(* disk sits on the channel the probe selected: the IDENTIFY poll loops    *)
(* and their timeout test neither miss a disk that answers within the      *)
(* poll budget nor take an ATAPI device or an empty channel for one.       *)
IdentifyFaithful ==
  pc \notin {"init", "id_ready", "id_drq"} => (present <=> Kind = "ata")

(* The number of sectors a count asks for, as ata.h documents it: 1-256,  *)
(* 0 meaning 256.                                                          *)
Sectors(count) == IF count = 0 THEN 256 ELSE count

(* When ata_read_sectors returns 0, the caller's buffer holds, sector by   *)
(* sector, as many sectors as count asks for, each what the disk holds at  *)
(* the requested LBA (ata.h, spec 4.6 and the round trip of scenario 5).   *)
ReadReturnsDiskData ==
  [][Succeeds("read") =>
       /\ DOMAIN ret'.buf = 0..Sectors(ret'.count) - 1
       /\ \A i \in DOMAIN ret'.buf : ret'.buf[i] = disk[ret'.lba + i]]_vars

(* Every value on the disk is either its boot contents or a value some     *)
(* ata_write_sectors call asked for at exactly that LBA: no write lands on *)
(* a sector it was not meant for.                                          *)
WritesLandWhereRequested ==
  \A l \in LBAs : disk[l] = DiskInit[l] \/ <<l, disk[l]>> \in requested

(* Every call returns: ata_init, ata_read_sectors and ata_write_sectors  *)
(* come back to the caller even when the drive hangs with BSY set for     *)
(* ever, because each wait loop gives up after Polls status reads; the     *)
(* shell, which calls them from its only thread, is never stuck.           *)
CallsReturn == pc # "idle" ~> pc = "idle"

====
