# MiniOS: TLA+ models

TLA+ models of the MiniOS kernel (`src/`). The models cover the parts where
concurrency, device interaction or pointer arithmetic make testing weak. These
are the keyboard interrupt pipeline, the virtio-net virtqueues with PCI
enumeration, the kernel heap, the frame allocator, the ATA driver, the
network stack (Ethernet, ARP, IPv4/ICMP) and the shell that drives it. The
TLC configurations here check them.

## The system and how its parts interact

MiniOS runs on one CPU with one thread of control, `kernel_main`. The only
other source of concurrency is hardware.

**Interrupts.**
- Interrupt handlers run on the same CPU. They enter through interrupt gates
  (IF cleared) and are acknowledged by an EOI before `iretq`, so a handler
  never interleaves with another one.
- The main thread can be interrupted between any two instructions once
  `idt_init` has executed `sti`.
- `pic_init` unmasks only IRQ0 (the PIT timer, no callback) and IRQ1 (the
  keyboard).

**Devices and memory.** Devices run concurrently with the CPU:
- the 8042 keyboard controller;
- the PIT;
- the virtio-net device, which reads and writes the virtqueue rings in guest
  memory (DMA) at any time after `DRIVER_OK`;
- the ATA disk, which is polled.

Boot order (`kernel.c:81-161`):

1. vga
2. gdt
3. idt (`sti`)
4. pmm
5. `heap_init(0x400000, 4 MiB)`
6. `keyboard_init`
7. pci
8. ata
9. `net_init` → `virtio_net_init`, which allocates both virtqueues from the
   heap
10. `shell_run`

`shell_run` loops:
- `shell_readline` reads keys through `keyboard_getchar`;
- the command runs;
- `net_poll` drains the RX ring.

### Inventory

| part | source | state | operations | what is hard |
|---|---|---|---|---|
| boot / long mode | `unnamed/part_002`, `boot/gdt.c` | page tables, CR3/CR4/EFER/CR0, GDTR and segment registers, `gdt[5]` | `_start`, `setup_page_tables`, `enable_paging`, far jump, `long_mode_start`, `gdt_init` | an identity map that must cover every address used; descriptor bits that decide long mode; a second GDT that is never loaded |
| IDT + PIC | `boot/idt.c`, `unnamed/part_001` | gates, `handlers[256]`, PIC IRR/ISR/mask | `idt_init`, `idt_set_handler`, `isr_handler`, `pic_send_eoi` | a callback registered late; EOI without servicing the device; IRQ vectors colliding with exceptions |
| PMM | `unnamed/part_003` | bitmap, free count | alloc/free page(s) | overlaps the heap region; never called |
| heap | `boot/heap.c` | header list inside heap memory, `heap_used` | `heap_init`, `kmalloc`, `kcalloc`, `kfree` | size_t wrap in `split_block`, self-linked lists, accounting |
| keyboard | `Makefile:489-690` | ring `kbd_buffer[256]`, `head` (IRQ writes), `tail` (main writes), modifier flags | IRQ1 handler, `keyboard_init`, `keyboard_getchar` | IRQ vs main interleaving, hlt lost wake-up, compiler reordering, boot window |
| shell | `drivers/virtio_net.c:530-993`, `unnamed/part_000` (`atoi`) | `cmd_buffer`, `pos` | `shell_readline`, `parse_args`, the command table, `cmd_*`, `shell_run` | line split at `max_len - 1`, `parse_ip` byte order, diskwrite's text buffer |
| ATA | `Makefile:193-487` | `ata_io_base`, presence | identify, read, write (polling) | timeouts, off-by-one in a poll loop |
| PCI | `drivers/virtio_net.c:332-511` | device registry (≤ 32) | enumerate, find, bus master | registry cap |
| virtio-net | `drivers/virtio_net.c:1-331` | RX/TX rings, `last_used_idx`, `tx_idx`, buffers | init, send, receive | device concurrency, 16-bit wrap, barrier order, TX slot reuse |
| net stack | `net/arp.c`, `net/icmp.c`, `unnamed/part_000` | ARP cache, `ping_seq` | `net_poll`, ARP, ICMP, `net_ping` | cache eviction and refresh, header lengths never compared with the received length |
| VGA / printf / string | `drivers/vga.c`, `unnamed/part_000` | cells, cursor, colour | `vga_putchar`, `vga_puts`, `scroll`, `vga_clear`, `printf` | wrap, tab, backspace at column 0, scrolling; digit order and width; snprintf's size_t `remaining` |

## Modules

### `Keyboard.tla`: the keyboard pipeline, IRQ dispatch and the shell's reader (`MCKeyboard.tla`)

**State.**
- Ring: `buf`, `head`, `tail`.
- Modifier flags: `shift`, `ctrl`, `alt`, `caps`.
- 8042: `obf`, `data`, and `kbdq`, the bytes the keyboard has queued.
- PIC: `irr`, `inService`.
- `registered`: the IRQ1 callback is in `handlers[33]`.
- Main thread: control point `pc`, the getchar local `ch`, and the shell's
  `pos`.
- History variables: `accepted`, `taken`, `dropped`.

**Actions.**
- `Interrupt(irq)` models the PIC's priority delivery, the stub and
  `isr_handler`, through `Idt.tla` (`I == INSTANCE Idt`). The line is raised
  at the vector `pic_init` gave it (`I!PicVector`). The callback for vector
  33 runs if registered, and lines in 32..47 get their EOI. A vector below 32
  with no handler is `isr_handler`'s exception halt: `pc` becomes
  `"exception"` and nothing runs any more. It also ends a `hlt`. The
  delivered lines are `I!Unmasked`, computed from `pic_init`'s masks.
- `keyboard_interrupt_handler`, with `Translate` and `kbd_buffer_put`, is the
  IRQ1 handler, line by line.
- `KbdInit`, `FlushCheck`, `FlushRead` and `Register` are `keyboard_init`.
- `GetcharCheck`, `Hlt` and `GetcharRead`/`GetcharAdvance` are
  `keyboard_getchar`. The compiler may reorder the non-volatile cell load after
  the volatile `tail` store, so that order is modelled too:
  `GetcharAdvanceFirst`/`GetcharLateRead`.
- `shell_readline_step` applies `shell_readline`'s handling of each character.
- The environment: `Type` (the user), `ControllerLoad` (the 8042 loading a
  byte and raising IRQ1) and `TimerTick` (the PIT).

**Boot (composition with `Boot.tla`).** The main thread starts at
power-on, with `pc = "boot"`, and `BootThread` takes Boot's steps
(`B == INSTANCE Boot`) until `kernel_main` reaches `keyboard_init`, when
`pc` becomes `"kbd_init"`. Keys and timer ticks may come at any time. The
8042 and the PIC latch them. `Interrupt` requires `cpu.iflag`, which only
`idt_init`'s `sti` sets. At power-on the 8042 may already hold a byte
(`obf`).

**Fairness.**
- Weak fairness for the main thread, the 8042 and the PIT.
- Strong fairness for `Interrupt`: the PIC always serves the highest request,
  and the timer keeps requesting.
- No fairness for the user.

**The echo on the screen (composition with `Vga.tla`).** Two more variables
hold what `shell_readline` writes to the console. `screen` is the VGA
console value (cells and cursor). `echoed` is the history of characters
passed to `vga_putchar`. `shell_readline_step` applies `Echo(c)` through
`V!vga_puts`, so both change in the same step as the line buffer. `Echo(c)`
is `'\n'` for Enter or CR, `"\b \b"` for an erase when `pos > 0`, `"^C\n"`
for Ctrl+C, and the character itself when it is printable. The screen is a
function of the characters taken, so the composition adds no states.
Only what `shell_readline` writes is on this screen. `shell_run`'s
`minios> ` prompt and the commands' output are not, because Keyboard does
not model the commands.

**Refinement of `KbdChannel.tla`.** `KbdChannel` is the abstract
specification of what the keyboard path promises the shell:
- a bounded FIFO `queue` of `Capacity` characters;
- `Put`, which appends when there is room;
- `Drop`, which counts a character lost when the queue is full;
- `Get`, which delivers the head, under weak fairness.

Keyboard maps onto it with `Chan == INSTANCE KbdChannel WITH queue <-
Contents, delivered <- Delivered, lost <- dropped, Capacity <- BufSize - 1`.
`ImplementsChannel == Chan!Spec` is checked as a property. The mapping's one
subtlety is the compiler-reordered `keyboard_getchar`. Its `tail` store is
the linearization point. In the `getchar_late_read` window, the cell still
to be read already counts as delivered, because the handler may refill the
freed slot but never that cell. A mapping that left the cell in the queue
would put `BufSize` characters into a channel of `BufSize - 1`.

### `Boot.tla`: boot.asm, `gdt_init` and `kernel_main` up to `keyboard_init`

**State.**
- `bpc`: the boot thread's control point.
- `cpu`: CR3, CR4.PAE, EFER.LME, CR0.PG, what GDTR, CS and DS hold, IF, and IDTR.
- `tables`: the four page tables in `.bss`. Each is a function from the
  indices written to the values stored; every other entry is the zero the
  loader left.
- `gdt`: `gdt.c`'s `gdt[5]`, as 8 bytes per descriptor.

**Actions.**
- `Start` is `_start`: `cli` and the stack. `check_cpuid` and
  `check_long_mode` pass.
- `SetupPageTables` sets PML4[0] and PDPT[0], and the 32 PD entries of
  `.map_pd` (`i * 2 MiB | 0x83`).
- `EnablePaging` is `enable_paging`.
- `FarJump` is `lgdt` and `jmp gdt64.code:long_mode_start`.
- `LongModeStart` is the data-segment loads.
- `GdtInit` is `gdt_init`'s five `gdt_set_entry` calls.
- `IdtInit` is `lidt` and `sti`. `Idt.tla` has the table itself.
- `PmmInit` and `HeapInit` are `kernel_main`'s calls. Their structures
  belong to `Pmm.tla` and `Heap.tla`.

**How the CPU is modelled.**
- `gdt64`'s descriptors are built from the bit numbers of the `dq`
  expressions (`QWord`).
- `LongModeView` reads the fields the CPU checks in long mode: present,
  DPL, S, the type's code and writable bits, L, and D/B.
- `Code64` and `DataRW` are what the far jump and the `mov ds` require. A
  selector that fails them faults with no IDT loaded. That is a triple
  fault, and the model restarts boot at `_start` (`Reset`).
- `Translate(t, cr3, a)` is the 4-level page walk, with the 1 GiB and 2 MiB
  `PS` cases. It returns -1 for a fault.
- `Used(pc)` is the memory each boot stage has touched by then: the image
  and stack, the VGA buffer (from `vga_clear`), and the heap (from
  `heap_init`). `Probes` checks each region's ends and every 2 MiB
  boundary inside it. Within a 2 MiB page the walk is affine, so these
  points are enough.

### `Idt.tla`: the IDT, the ISR stubs and the PICs (no variables)

`idt_init` runs once, with interrupts off, and ends with `sti`, so this
module is the table it leaves, as operators:
- `idt`: every gate cleared, then 0..47 set to `INT_GATE` (0x8E).
  `Present(v)` tests the P bit.
- `PIC1_OFFSET`/`PIC2_OFFSET` (ICW2 0x20/0x28), `CASCADE_IRQ`, and
  `PIC1_MASK`/`PIC2_MASK` (0xFC/0xFF). `Unmasked` is the set of lines these
  masks deliver, a slave line only through an open cascade.
- `PicVector(irq)`: the vector the PICs raise for a line. The stub at that
  gate pushes the same number (the `IRQ n, 32+n` list of `isr.asm`).
- `Outcome(vector, handlers)`: `isr_handler`'s three branches.
  `EoiTargets(vector)`: the PICs its `pic_send_eoi(vector - 32)` reaches.

Keyboard composes it into `Interrupt`. No property is spent on the vectors:
with `idt_init` one atomic step before `sti`, the two unmasked lines reach
vectors 32 and 33 by `PicVector`'s definition alone.

### `Vga.tla`: the VGA text console (no variables)

The console is a record of `cells` (`VGA_HEIGHT` rows of `VGA_WIDTH`
character codes) and the cursor `x`, `y`. Colour attributes and the cursor
registers are left out because they do not change what is shown where.
- `vga_clear` gives blank cells and the cursor at home.
- `Put` is `vga_putchar`'s switch:
  - newline;
  - CR;
  - tab to the next multiple of 8, with wrap;
  - backspace only when `cursor_x > 0`;
  - a printable character, stored and then wrapped.
- `ScrollDown` is its `while (cursor_y >= VGA_HEIGHT)` loop over `scroll`.
- `vga_puts` applies `vga_putchar` to each character of a string.

The reference, `Rendered`, is different code: a terminal that never scrolls
(`Transcript`, a growing list of rows). The screen should show its last
`VGA_HEIGHT` rows.

### `Printf.tla`: formatted output (no variables)

`print_num` is its conversion loop (`LowDigits`, least significant digit
first into `tmp`), then the padding, then the reversal. `print_int` writes
the sign and prints the magnitude one column narrower. `Loop` is
`do_printf`'s format loop, which handles:
- literal characters;
- `%%`;
- the `'0'` pad flag and the width digits;
- `d`/`i`/`u`/`x`/`X`/`p`/`s`/`c`, each taking one argument;
- an unknown specifier, which is written back after its `%`.

`remaining` is a size_t, kept modulo 2^64 as an integer. `printf` passes
size 0, so `remaining` starts at SIZE_MAX (-1). `snprintf` passes its size.
Shell composes Printf into `cmd_ping`: the line `"Pinging %d.%d.%d.%d...\n"`
with the four octets `(ip >> 8k) & 0xFF`.

### `VirtioNet.tla`: the virtio-net driver against the device (`MCVirtioNet.tla`)

**State.**
- Driver side:
  - the RX and TX avail rings with their `idx`;
  - the RX used ring;
  - `last_used_idx`;
  - the static `tx_idx`;
  - the buffer contents, each abstracted to a packet number;
  - the driver's control point.
- Device side:
  - its own next avail index per queue;
  - `broken`, QEMU's check that `avail.idx` never runs more than a queue size
    ahead.
- History variables: `delivered`, `received`, `sent`, `wire`.

**Driver actions.**
- `virtio_net_init` is one step. The device touches no ring before
  `DRIVER_OK`.
- `virtio_net_receive` and `virtio_net_send` are each split at their compiler
  barrier: the entry is written before the barrier, and `RxPublish`/`TxPublish`
  store `avail.idx + 1` after it. The device may run between the two steps.

**Device actions.**
- `DeviceRx(len)`: a packet arrives and fills a posted buffer.
- `DeviceTx`: the device transmits the next posted TX buffer, as it is at that
  moment.

**Fairness.** The driver finishes a call it has started, and the device
eventually handles notified TX entries. QEMU processes the TX queue on each
`QUEUE_NOTIFY` write, and `virtio_net_send` makes one after every publish. Packet arrival and the shell's polling
are not fair.

### `Pmm.tla`: the physical frame allocator (`MCPmm.cfg`)

**State.** `pmm_bitmap`, `pmm_free_count`, and the last call and its return.

**Actions.**
- Each of `pmm_alloc_page`, `pmm_alloc_pages(n)`, `pmm_free_page(addr)` and
  `pmm_free_pages(addr, n)` is one step. Nothing else runs during a call:
  the kernel has one thread and no interrupt handler uses the PMM.
- The scan loop of `pmm_alloc_pages`, with its locals `consecutive` and
  `start`, is the RECURSIVE operator `ScanRun`. `pmm_free_pages` is the
  RECURSIVE `FreeRun` over `pmm_free_page`.
- Addresses are numbers, so that the range test and the truncating page
  division are the code's own.
- The caller is arbitrary. It may free any address, including repeated,
  out-of-range and mid-frame addresses.

**The reference.** `AllocFirstFit` checks the loop against a declarative
definition: the least `s` such that frames `s..s+n-1` lie in the window and
are clear.

### `Heap.tla`: the first-fit heap at word level (`MCHeap.tla`)

**Memory model.**
- Memory is a function from 8-byte word addresses to values.
- Each header is three words: `size`, `free`, `next`. It is read from and
  written to memory, exactly where the code computes it.
- `size_t` arithmetic is modulo `SizeMod`.
- `HeapBase` is above the heap, so that a pointer read as a size is huge, as
  at 0x400000.

**Pure operators.**
- `find_free_block` (`FindFree`) and `merge_free_blocks` (`MergeFrom`) are
  RECURSIVE operators with fuel. Running out of fuel means the loop in the code
  never ends.
- `split_block` and `kmalloc_result` are the rest of the allocation path.

**Actions.** `kmalloc(n)`, `kcalloc(count, size)` (including its `memset`) and
`kfree(x)` are each one step.

**Specifications.**
- `KernelSpec` is what the kernel really does: `kmalloc`/`kcalloc` from
  `virtq_init`, and never `kfree`.
- `ApiSpec` is any sequence of calls to the interface.

### `Ata.tla`: the ATA PIO driver against the disk (`MCAta.tla`)

**State.**
- Driver: `ata_io_base`, `ata_drive_present`, the control point, the local
  `timeout` of the current wait loop, the loop counter `sector`, the current
  call's arguments (with `count` normalised) and the caller's buffer.
- Disk: its phase (idle, busy, DRQ, ERR), the pending command with its next
  LBA and the sectors left, a latched write sector, and the ATAPI signature.
  Each sector holds one value. The data register reads 0 when no read
  transfer is pending, as in QEMU.
- History variables: the last return (`ret`) and every `<<lba, value>>` a
  write asked for (`requested`).

**Actions.**
- One driver step is one status read and what the code does with it,
  including the `timeout--` of `while (timeout--)`. A sector's 256 `inw` or
  `outw` are one step, because the disk does not change its registers during
  the transfer.
- `ata_init` covers the probe, `ata_soft_reset` and `ata_identify` up to its
  `status == 0` test. `IdWaitReady` and `IdDrqPoll` are identify's two loops,
  with the `timeout <= 0` test after the second.
- `ata_read_sectors` and `ata_write_sectors` are the entry checks.
  `RwWaitReady` is the first `ata_wait_ready`, followed by the register
  writes. `RdDrqPoll` and `WrDrqPoll` are one pass of the per-sector
  `ata_wait_drq`, with the transfer on DRQ. `WrFinal` is the final,
  unchecked wait.
- `DiskStep` ends a busy period of the disk. It may raise DRQ, commit a
  latched sector, or (if `Faulty`) end a read or write with ERR.
- A busy period lasts at most `Latency` status reads. With
  `Latency < Polls`, every loop sees the disk answer. With
  `Latency >= Polls`, a loop can run out.
- A command written while BSY or DRQ is set is undefined in ATA, and QEMU
  ignores it. The disk may ignore or accept it.
- `DiskHang` (if `Hangs`) is a drive that stops answering a read or write.
  BSY stays set for ever, and `SeeBusy` no longer counts against `Latency`.
  Identify is left out of the hang, so that `IdentifyFaithful` still
  describes a drive that answers.
- `Countdown` is the `timeout--` every poll uses up.

**Fairness (`FairSpec`).** The driver steps and `ata_init` are weakly fair,
because the polling loop runs on the CPU and never waits for anything else.
`DiskStep` is weakly fair too: a drive that has not hung ends its busy
period. The calls and the hang are not fair, since the shell may stop
calling and a drive need not fail.

### PCI enumeration, in `VirtioNet.tla`

The bus is configuration space, byte by byte. `bus[d][f]` maps each dword
offset the driver reads (0x00 IDs, 0x08 class, 0x0C header type) to its
four bytes, least significant first; an absent function reads all ones.
The code's accessors are translated with their masks and shifts:
- `pci_config_read` reads the dword at `offset & 0xFC`;
- `pci_config_read16` and `pci_config_read8` take `(offset & 2) * 8` and
  `(offset & 3) * 8` bits off it;
- `pci_device_exists` tests the vendor ID against 0xFFFF;
- `pci_read_device` keeps the IDs and class bytes;
- `multi_function` is `read8(0x0E) & 0x80`.

The reference, `Visible`, indexes the bytes directly by the PCI header
layout. `pci_enumerate` is the RECURSIVE operator `PciScan` over a bus of
`NDev` devices with `NFunc` functions each, given in `Init` from the set
`Buses`.
Its rules are the code's: an absent function 0 ends the device, an absent
other function is skipped, a present one is registered while fewer than
`MAX_PCI_DEVICES` (`MaxPci`) are, and a function 0 without the
multi-function bit ends the device. `pci_find_device(0x1AF4, 0x1000)` gates
`virtio_net_init`, which leaves the driver `"absent"` when it fails.
`PciFindsVirtio` compares the outcome with a reference: the driver starts
exactly when a virtio function is visible and fewer than `MaxPci` visible
functions precede it.

### `Net.tla`: the network stack (`MCNet.tla`, `NetFrames.tla`)

**State.** `net_inited`, the ARP cache (`Slots -> [ip, mac, valid]`),
`ping_seq` (uint16), the frames the last step sent (`out`), the frame the
last poll received (`got`), how far into `net_poll`'s `data[]` it was read
(`reach`), and the history variable `latest` (the MAC each IP last
announced).

**Actions.** Everything runs in the shell's thread, so each call is a step:
- `net_poll(f)`: a received frame `f` through `eth_is_for_us`, the
  ethertype switch, `arp_process` (cache the sender, answer a request for
  us) or `ip_process` (version, destination, protocol, lengths, then
  `icmp_reply` → `ip_send`, which sends an ARP request instead on a cache
  miss);
- `net_ping(ip)`: `icmp_ping`, a 64-byte echo request with `ping_seq++`.

Frames are records; addresses are model values; the header fields and
lengths the code computes with are numbers, `payload_len` and `data_len`
with uint16 wrap. `NetFrames.tla` holds the frames of the model-checking
instances: every ARP request and reply for us from each host and MAC, and
the malformed, misaddressed and over-long cases.

**The checksum.** `checksum(data)` is an operator on byte strings, because
the frames carry no bytes. `WordSum` is the loop over little-endian
`uint16_t` loads, plus the odd last byte. `Fold` is the `while (sum >> 16)`
carry fold, and the result is `~sum` truncated to 16 bits. MCShell's
`ChecksumIsInternetChecksum` compares it with RFC 1071's definition
(`InternetChecksum`, network-order words, ones'-complement sum). The check
covers every string of up to 6 bytes of 0, 1 and 255, with the stored bytes
swapped. The strings include `FF FF FF FF 01 00`, whose sum needs two folds. The
check also covers, in every state, `EchoRequest(ping_seq)`: the 64 bytes
`icmp_ping` sums for its next request.

### `Shell.tla`: the shell over the network stack (`MCShell.tla`)

Shell takes Net by `INSTANCE` and adds the shell's state: the control point
`spc` (`read`, `ping`, `poll`, `halted`), the line being typed, the buffer,
the last command run (`ran`: its name, argv, keys, the address pinged and
the line `cmd_ping` printed through `Printf`)
and the last request handed to the ATA driver (`disk`).
- `Key` is one iteration of `shell_readline`: Enter/CR commit, BS/DEL
  erase when `pos > 0`, Ctrl+C returns an empty line, printable keys are
  appended, and the loop also ends when `pos` reaches `max_len - 1`. A
  returned line goes straight to `execute_command`: `parse_args`, the
  command table, then `cmd_ping` (`parse_ip`, `net_ping`), `cmd_diskread`
  and `cmd_diskwrite` (`atoi`, the text buffer), `halt`/`reboot` (the
  system stops), or a command that only prints.
- `PingPoll`/`PingDone` are `cmd_ping`'s loop of `net_poll` calls, ended at
  any point; `ShellPoll` is `shell_run`'s `net_poll` after each command.
- The user (`TypeLine`) types lines from `Lines`, at most `MaxLines`.

The properties compare the code's parsers with references written
differently: `Tokens` (the words of a text, by set comprehension) and
`TypedText` (a fold over the keys, telling characters from control keys by
their length, not by the model's key sets) for the command line, `Dotted` for an address.

## Runs

### Passing runs

| run | cfg | checks | shows |
|---|---|---|---|
| keyboard | `MCKeyboardBootSafety.cfg` | `TypeOK`, `FifoDelivery`, `ScreenShowsEcho`, `IdentityMapped`, `GdtInitMatchesLoaded`, `BootCompletes`, `StoredCharsReachShell`, `ImplementsChannel` | From power-on, with keys pressed at any time, boot reaches `keyboard_init`: the far jump and segment loads never triple-fault (`BootCompletes`). Once paging is on, every address the kernel has used so far translates to itself (`IdentityMapped`). `gdt_init`'s unloaded table agrees with the loaded `gdt64` on the kernel selectors (`GdtInitMatchesLoaded`). Every character the handler stores reaches the shell once and in order. This holds despite the hlt race, the compiler reordering of the ring read, and full-ring drops, and drops never corrupt the ring. The ring, handler and getchar together implement the abstract bounded channel `KbdChannel`, including its liveness. On a 2×2 console, the screen after wraps, backspaces and scrolls is the end of a never-scrolling terminal showing the echo. `KeysReachShell` (the 8042 never stays full) fails from boot; see `keyboard_boot_stall`. |
| virtio_rx | `MCVirtioNet.cfg` | `TypeOK`, `RxSlotsConserved`, `RxInOrder`, `PciFindsVirtio`, `SentReachWire` | Every RX buffer is in exactly one place: posted, used, or held by the driver. Packets reach the caller exactly once and in order, across index wrap, with the device acting between any two driver stores. Over eight bus populations, given as configuration-space bytes, the driver starts exactly when enumeration registers the NIC (virtio vendor and net device ID; a virtio-blk function does not count). Under the device's fairness, every packet `virtio_net_send` accepts eventually goes out on the wire, although the driver never reads the TX used ring. |
| ata | `MCAta.cfg` | `TypeOK`, `IdentifyFaithful`, `WritesLandWhereRequested`, `ReadReturnsDiskData`, `CallsReturn` | For every population of the two channels, `ata_is_present()` is true exactly when an ATA disk is on the probed channel. The disk answers within the poll budget, and it may fail with ERR or hang on a read or write. A read that returns 0 returns the requested sectors. No write lands on an LBA it was not meant for. Every call returns, even after a hang (`CallsReturn`), because each wait loop gives up. |
| pmm | `MCPmm.cfg` | `TypeOK`, `FreeCountExact`, `AllocFirstFit` | After any sequence of calls, the free count equals the clear bits. Both allocators return the first fitting run and set exactly its bits, or return NULL having changed nothing, including for `n = 0` and for a request of exactly the free count. |
| shell | `MCShell.cfg` | `TypeOK`, `CommandIsTypedLine`, `PingTargetsTyped`, `PingEchoesTarget`, `DiskWriteText`, `ArpCacheWellFormed`, `ArpCacheFresh`, `ChecksumIsInternetChecksum` | Every command runs with the first `MAX_ARGS` words of the text its `shell_readline` call's keys leave, checked against an editor and a tokenizer written independently of the code, and with no words after Ctrl+C. `ping` reaches the address of a dotted quad in network byte order. The line it prints through `printf` shows the typed octets in order, with 0 for missing ones and no leading zeros. `diskwrite` writes its words separated by single spaces when they all fit, also for several words and a line past `MAX_ARGS`. Under the polls of ping's loop and `shell_run`, the ARP cache stays a table (valid entries a prefix, one per IP) whose MACs are the latest announced. `checksum` equals RFC 1071's Internet checksum byte for byte, for odd lengths and double carries. |
| heap_kernel | `MCHeap.cfg` | `TypeOK`, `AllocationsSound`, `HeapUsedAccounting` | Under the kernel's own allocation pattern, allocations are disjoint, lie inside the heap and keep intact headers, and `heap_used` is exact. |

### Violation runs

| run | cfg | property | what TLC finds |
|---|---|---|---|
| keyboard_boot_stall | `MCKeyboardBoot.cfg` | `KeysReachShell` | The boot-window deadlock: a key pressed between the flush loop and `idt_set_handler(33)` kills the keyboard. |
| virtio_tx_overrun | `MCVirtioNetTx.cfg` | `TxInOrder` | The third send on a two-slot queue overwrites slot 0 before packet 1 goes out. The device can even send the half-written packet 3. |
| heap_split_underflow | `MCHeapSplit.cfg` | `AllocationsSound` | Two calls of `kmalloc`/`kcalloc` that leave a 16-byte remainder wrap `split_block`'s size_t remainder. This writes a huge free header across the heap end, and the next `kmalloc` returns memory outside the heap. |
| heap_free_hangs | `MCHeapHang.cfg` | `NeverHangs` | alloc, alloc, free, alloc (exact fit), free makes `merge_free_blocks` loop for ever. |
| ata_stale_read | `MCAtaStaleRead.cfg` | `ReadReturnsDiskData` | A read times out and the disk later raises DRQ for it. The next read's command is ignored, and the read returns the old sector (LBA 0's data for LBA 1) with code 0. |
| net_overread | `MCNetOverread.cfg` | `EchoReplyWithinFrame` | An ARP request from H1 puts its MAC in the cache. Then a 28-byte frame from H1 whose IP header claims `total_len` 84 is answered: `ip_process` and `icmp_reply` take the payload length from the header alone, so the 84-byte echo reply sent to H1 carries 56 bytes from past the received frame, out of `net_poll`'s stack buffer (`icmp.c:188`). Without the cached MAC, `ip_send` sends an ARP request and drops the reply. |

These divergences are plain from the code, and no run is spent on them:
- a write that times out waiting for DRQ leaves the disk expecting data; the
  next write's command is ignored and its data lands on the abandoned LBA.
  This is the mechanism of `ata_stale_read`, on the write path;
- `shell_readline` returns a line when `pos` reaches `max_len - 1` without
  an Enter, so the rest of a 256-character line runs as the next command,
  where spec 4.7 commits a line on Enter. `MCShell`'s line `e abcdefghip 2`
  pings. `CommandIsTypedLine` takes the keys each call read as given;
- `cmd_diskwrite` skips an argument that no longer fits but copies later,
  shorter ones, and leaves a trailing space after a kept word when the last
  is skipped (`virtio_net.c:708`; `MCShell`'s line `w 1 abc de` writes
  `abc `);
- `ata_read_sectors` and `ata_write_sectors` turn a count of 0 into 1
  (`Makefile:396-398`), while `ata.h` documents 0 as 256 sectors
  (`part_007:23`, `:33`). A caller that follows the header gets one sector.
  The shell always passes 1;
- a negative LBA typed to `diskread`/`diskwrite` becomes a uint32 near
  2^32, of which the drive sees the low 28 bits;
- `ata_write_sectors` discards the result of its final `ata_wait_ready`,
  which tests only BSY (`Makefile:483`). A timeout or ERR on the last
  sector's commit is reported as success, whereas spec 4.6 says both are
  failures. In the ata run, a write whose commit hangs returns 0 in this
  way;
- payloads sit 24 bytes after 16-aligned headers, so they are 8 bytes off the
  16-byte alignment that 3(b) promises (`heap.c:124`);
- `heap_used` starts at `HEADER_SIZE` (`heap.c:38`), where 3(d) says it is
  the sum over the used blocks;
- `shell_readline` erases with `"\b \b"`, but `vga_putchar` ignores `'\b'`
  at `cursor_x == 0` (`vga.c:134`). After a typed line wraps, backspacing
  over the last character of the previous row removes it from the buffer
  but leaves it on the screen. `ScreenShowsEcho` checks the rendering of
  the echo; the mismatch between screen and buffer is this divergence;
- `do_printf` subtracts a whole conversion from the size_t `remaining`
  without a bound check (`part_000:130`). `snprintf(buf, 4, "%d", 12345)`
  writes five digits and a NUL, and `remaining` wraps, so the rest of the
  format is written too. `Printf` computes exactly this. Nothing in the
  kernel calls `snprintf` or `sprintf`;
- `cmd_reboot`'s fallback `int $0xFF` (`virtio_net.c:852`) hits a gate
  that `idt_init` left not present. The CPU raises #NP (vector 11), and
  `isr_handler` prints `EXCEPTION: 11` and halts; the comment expects a
  triple fault and a reset. `Idt` has the gates that show this. Shell does
  not take the branch, because whether the 8042 pulse resets the machine
  first is the hardware's choice (QEMU resets);
- `ip_process` never checks the IP or ICMP checksum (`icmp.c:168`).

Every property of a passing run has a mutant in `PROJECT.json`. A mutant is a
plausible bug in the mapped code, and TLC finds it violates the property. The
mutants are:
- a missing full-ring test;
- a masked timer;
- a missing `pos > 0` guard;
- a short-packet path that leaks its slot;
- an off-by-one used-ring read;
- a missing 16-bit wrap;
- a split header placed without its own bytes;
- `heap_used` charged before the split;
- `heap_used` charged with the payload but not its header;
- the sector loop running once more (`sector <= count`);
- identify polling for DRQ without first waiting for BSY to clear;
- every sector read into, or written from, the start of the buffer;
- a frame address not scaled by the page size;
- a free that does not test the bit first;
- a run scan that does not restart at a used frame;
- a PCI scan that ignores the multi-function bit;
- `shell_readline` without its `max_len - 1` bound;
- `parse_args` skipping one blank only;
- `parse_ip` assembling the octets in the opposite order;
- `cmd_diskwrite` appending a space after the last word too;
- `arp_cache_add` stopping only at a free slot, and one not refreshing an
  entry it finds;
- `kbd_buffer_put` declaring the ring full one slot early (breaks
  `ImplementsChannel`: a character is dropped while the channel has room);
- `scroll` not clearing the last line;
- `print_num` writing `tmp` out unreversed;
- `virtio_net_send` without its `avail.idx + 1` store (breaks
  `SentReachWire`);
- `checksum` folding the carry once, `if` for `while` (breaks
  `ChecksumIsInternetChecksum`);
- a wait loop that does not count its polls, `while (timeout)` (breaks
  `CallsReturn`: the driver spins for ever on a hung drive);
- PD entries written without the PS bit (breaks `IdentityMapped`: the walk
  takes them for page-table pointers);
- `gdt64.code` without the L bit (breaks `BootCompletes`: the far jump
  triple-faults and boot restarts for ever);
- `gdt_set_entry` keeping the low nibble of `granularity` (breaks
  `GdtInitMatchesLoaded`: the limit nibble clobbers L).

## Bounds and why they are enough

**Keyboard.**
- `BufSize = 3`: one slot is always empty, so the ring holds two characters
  and the full case happens.
- `MaxKeys = 3` scancode bytes (2 in the stall run). The stall run takes them
  from two letters, Enter, Backspace, and Ctrl press and release. The
  keyboard run, which also walks the ten boot steps, leaves out the Ctrl
  release (`MCScanBytesBoot`). Ctrl+C still happens, and so do the
  backspace at `pos = 0` and the line limit.
- `KERNEL_START = 0x100000` (1 MiB, the usual multiboot load address) and
  `BSS = 0x105000`. `linker.ld` is not in the repository, so these are
  placed as a kernel of about 20 KiB would place them. Every region
  checked lies inside the 64 MiB map unless the map is built wrongly.
- `MaxLen = 3`: the line limit is reached.
- A 2×2 console: two echoed characters wrap the line, and a third row
  scrolls, so wrap and scroll both happen. A backspace at column 0 with
  `pos > 0` needs a line that starts mid-row and longer lines than
  `MaxLen = 3` allows. The reference applies the same rule as `vga_putchar`,
  so `ScreenShowsEcho` would not tell that case apart anyway.

**Virtio.**
- Queue size 2 stands for 256, and `IdxMod = 4` (or 8) for 65536.
- The RX run delivers 6 packets, so `used.idx` and `avail.idx` wrap at least
  once.
- The TX run sends one packet more than the queue holds.

**ATA.**
- `Polls = 2` stands for 100000. `Latency` is 1 (the disk always answers
  in time) or 2 (a loop can run out).
- Two sectors with distinct boot contents, and two write values, so that a
  stale or misplaced sector shows.
- Counts 1 and 2, so the per-sector loop runs once and twice. Count 0 is
  left out: the code reads or writes one sector for it, while `ata.h` says
  0 means 256, so `ReadReturnsDiskData`, stated with the header's meaning,
  fails at once. The shell, the only caller, always passes 1, so no caller
  reaches that case. It is a divergence between the code and its header,
  not something a run can settle.
- The passing run tries all 16 populations of the two channels (no
  controller, empty, ATA, ATAPI) and makes 3 calls.
- With 3 calls, a hang on the first data command leaves two more calls to
  time out at their first wait. A hang during a write's commit reaches the
  final wait's timeout.

**PMM.**
- Four frames stand for 3584, and counts run from 0 to 3.
- Five calls are enough to fragment the window, so that a run of two or
  three frames exists only after a gap.
- Free addresses include every frame, a pointer one byte into each frame,
  and the first address below and above the window.

**Heap.**
- A heap of 160–480 bytes, with requests of 8, 16 and 40 bytes
  (`kcalloc` with counts 1 and 2).
- 4–5 calls reach every exact-fit and 16-byte-remainder case.
- The passing kernel run stays far from exhaustion, as the kernel does: its
  virtqueues take about 1.1 of 4 MiB.

**PCI.** Two devices of two functions and a registry of two entries:
populations where the NIC is behind an absent function 0, behind a
single-function device, third of three visible functions, and beside a
virtio-blk function with the same vendor ID.

**Net.** Three hosts, two MACs, a two-slot cache (16 in the code), so that
eviction of slot 0 happens with the third host. Polls are bounded by
`MaxSteps` and pings by `MaxPings`. The overread run needs one frame.

**Shell.** `MaxLen = 12` (256), `MaxArgs = 4` (16), `TextLimit = 5` (500),
two lines of the thirteen in `MCShell.tla`, three polls. `w 1 a b c` has
two words joined and a third past `MAX_ARGS`, and `w 1 abc de` does not fit. The unregistered
target `19` gives a two-digit octet and three zero octets to the printed
line. The lines reach each
rule of the editor and parser, each command with and without arguments, a
line split by the full buffer, and diskwrite both fitting and overflowing.
TLC's integers are 32-bit signed, so addresses keep their fourth octet
below 128; the `uint32_t` wrap of `parse_ip` needs octets the lines do not
type.

## Not modelled, and the plan for later sittings

Planned, in order:
1. ARP/ICMP against lost and duplicated frames across the driver boundary
   (Net over VirtioNet).
2. `net_init`/`kernel_main` order across Net and VirtioNet.

Not modelled, and why:
- `check_cpuid` and `check_long_mode` and their `error` screen: they
  pass on every x86_64 CPU, and otherwise they only print and halt;
- the TSS that `gdt_init` zeroes: nothing reads it, and `gdt_flush` is never
  called;
- `kernel_main`'s banner and `printf` lines, and `print_system_info`:
  output only;
- `vga_init`, `vga_set_color`, `vga_set_cursor` and `update_cursor`: the
  colour and the hardware cursor registers, which change nothing shown;
- the string utilities as functions of their own: `strcmp`, `strlen`,
  `memcpy` and `memset` are called (the command lookup, the ARP, ICMP,
  virtio and `diskwrite` copies, the clears of the ARP cache, `kcalloc` and
  the sector buffer) and are modelled where they are used, as equality of
  names, sequence lengths, copies and zeroed values; `strncmp`, `strcpy`,
  `strncpy`, `strcat`, `strchr`, `memcmp`, `memmove`, `sprintf`, `vsprintf`,
  `vprintf` and `itoa` have no caller;
- the print-only commands (`help`, `clear`, `echo`, `meminfo`, `netinfo`):
  one action that changes nothing the model tracks.

Their hazards are still listed in `PROJECT.json`.
