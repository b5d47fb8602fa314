-------------------------------- MODULE Boot --------------------------------
(***************************************************************************)
(* The boot path up to keyboard_init: boot.asm (unnamed/part_002) from     *)
(* _start to the call of kernel_main, then kernel_main (kernel/kernel.c)   *)
(* through gdt_init, idt_init, pmm_init and heap_init.  One thread, with   *)
(* interrupts off until idt_init's sti; the module that composes it        *)
(* (Keyboard) runs the 8042, the PIT and the PIC beside it.                *)
(*                                                                         *)
(* A page table is a function from the indices the code has written to    *)
(* the 32-bit values it stored; every other entry, and the upper halves,   *)
(* are the zeros the loader left in .bss.  A                               *)
(* segment descriptor is its 8 bytes.  Addresses are below 2^31, so the    *)
(* PML4 index (bits 39..47) of every address the kernel uses is 0.         *)
(*                                                                         *)
(* check_cpuid and check_long_mode pass on every x86_64 CPU, QEMU's        *)
(* included; their error path (a letter on the screen, hlt) is left out.  *)
(***************************************************************************)
EXTENDS Integers
LOCAL INSTANCE Bitwise
LOCAL INSTANCE FiniteSetsExt
LOCAL INSTANCE TLC

CONSTANTS
  KERNEL_START,  \* the load address of the kernel image
  BSS            \* the link address of pml4_table, the start of .bss

VARIABLES
  bpc,     \* the boot thread's control point
  cpu,     \* CR3, CR4.PAE, EFER.LME, CR0.PG, GDTR, CS, DS..SS, IF, IDTR
  tables,  \* pml4_table, pdpt_table, pd_table, pt_table
  gdt      \* gdt.c's static gdt[5]

bootvars == <<bpc, cpu, tables, gdt>>

(* .bss: four 4 KiB tables (align 4096), then the 16 KiB stack.            *)
PML4_ADDR == BSS
PDPT_ADDR == BSS + 4096
PD_ADDR == BSS + 8192
PT_ADDR == BSS + 12288
STACK_TOP == BSS + 16384 + 16384

Entries == 0..511
ZeroTable == [i \in {} |-> 0]
PAGE_2M == 2097152
PD_ENTRIES == 32     \* cmp ecx, 32: 32 * 2 MiB = 64 MiB

(* Variant that copies the upper levels' flags, without the PS bit.        *)
PD_FLAGS_no_ps == 3

PD_FLAGS == 131      \* 0b10000011: present, writable, huge (PS)

(***************************************************************************)
(* Descriptors.                                                            *)
(***************************************************************************)
(* The bytes of a dq whose set bits are bits.                              *)
QWord(bits) ==
  [i \in 1..8 |-> MapThenSumSet(LAMBDA b : 2^(b - 8 * (i - 1)),
                                {b \in bits : 8 * (i - 1) <= b /\ b < 8 * i})]

(* Variant of the code descriptor without the L (64-bit) bit.              *)
gdt64_no_l ==
  <<QWord({}), QWord({43, 44, 47}), QWord({41, 44, 47})>>

(* boot.asm's gdt64: null; code (executable, code/data, present, L);      *)
(* data (writable, code/data, present).  Selector s is entry s \div 8.     *)
gdt64 ==
  <<QWord({}), QWord({43, 44, 47, 53}), QWord({41, 44, 47})>>

CODE_SEL == 8    \* gdt64.code
DATA_SEL == 16   \* gdt64.data

(* Variant that keeps the low nibble of granularity instead of the high.   *)
gdt_set_entry_gran_low(base, limit, access, granularity) ==
  <<limit & 255, (limit \div 256) & 255, base & 255, (base \div 256) & 255,
    (base \div 65536) & 255, access,
    ((limit \div 65536) & 15) | (granularity & 15), (base \div 16777216) & 255>>

(* gdt_set_entry: the packed gdt_entry_t, limit_low first.                 *)
gdt_set_entry(base, limit, access, granularity) ==
  <<limit & 255, (limit \div 256) & 255, base & 255, (base \div 256) & 255,
    (base \div 65536) & 255, access,
    ((limit \div 65536) & 15) | (granularity & 240), (base \div 16777216) & 255>>

(* What the CPU checks of a descriptor in long mode: for code, present,   *)
(* DPL and the L and D bits; for data, present, DPL and writable.  Base,   *)
(* limit, granularity and a code segment's readable bit are ignored.       *)
LongModeView(d) ==
  LET access == d[6]  flags == d[7]
      bit(v, n) == ((v \div 2^n) % 2) = 1
  IN [present |-> bit(access, 7), dpl |-> (access \div 32) % 4,
      system |-> ~bit(access, 4), code |-> bit(access, 3),
      l |-> bit(access, 3) /\ bit(flags, 5), d |-> bit(access, 3) /\ bit(flags, 6),
      w |-> ~bit(access, 3) /\ bit(access, 1)]

Code64(d) ==
  LongModeView(d) = [present |-> TRUE, dpl |-> 0, system |-> FALSE, code |-> TRUE,
                     l |-> TRUE, d |-> FALSE, w |-> FALSE]
DataRW(d) ==
  LongModeView(d) = [present |-> TRUE, dpl |-> 0, system |-> FALSE, code |-> FALSE,
                     l |-> FALSE, d |-> FALSE, w |-> TRUE]

(***************************************************************************)
(* The page walk of a 4-level, PAE long-mode MMU.                          *)
(***************************************************************************)
Entry(table, i) == IF i \in DOMAIN table THEN table[i] ELSE 0

Present(e) == e % 2 = 1
Huge(e) == (e \div 128) % 2 = 1   \* PS
Frame(e) == e - (e % 4096)

(* The table a physical address holds, if it is one of the four.           *)
TableAt(t, a) ==
  CASE a = PML4_ADDR -> t.pml4 [] a = PDPT_ADDR -> t.pdpt
    [] a = PD_ADDR -> t.pd [] a = PT_ADDR -> t.pt
    [] OTHER -> ZeroTable

(* The physical address of a, or -1 for a page fault.                      *)
Translate(t, cr3, a) ==
  LET e4 == Entry(TableAt(t, cr3), 0)
      e3 == Entry(TableAt(t, Frame(e4)), (a \div 2^30) % 512)
      e2 == Entry(TableAt(t, Frame(e3)), (a \div PAGE_2M) % 512)
      e1 == Entry(TableAt(t, Frame(e2)), (a \div 4096) % 512)
  IN CASE ~Present(e4) \/ ~Present(e3) -> -1
       [] Huge(e3) -> (e3 - (e3 % 2^30)) + (a % 2^30)
       [] ~Present(e2) -> -1
       [] Huge(e2) -> (e2 - (e2 % PAGE_2M)) + (a % PAGE_2M)
       [] Present(e1) -> Frame(e1) + (a % 4096)
       [] OTHER -> -1

(***************************************************************************)
(* What the kernel touches once paging is on: its image and stack, from    *)
(* kernel_main on the VGA text buffer (80 x 25 cells of 2 bytes at         *)
(* 0xB8000), from heap_init on the heap (kernel.c: 4 MiB at 4 MiB), whose  *)
(* addresses virtio_net_init also hands the device as physical ones.       *)
(***************************************************************************)
VGA_BUFFER == 753664
HEAP_START == 4194304
HEAP_SIZE == 4194304

Region(lo, hi) == [lo |-> lo, hi |-> hi]
Used(pc) ==
  {Region(KERNEL_START, STACK_TOP - 1)}
  \cup (IF pc \in {"gdt_init", "idt_init", "pmm_init", "heap_init", "keyboard_init"}
        THEN {Region(VGA_BUFFER, VGA_BUFFER + 3999)} ELSE {})
  \cup (IF pc = "keyboard_init" THEN {Region(HEAP_START, HEAP_START + HEAP_SIZE - 1)}
        ELSE {})

(* Both ends of a region and every 2 MiB boundary inside it.               *)
Probes(r) == {r.lo, r.hi} \cup {k * PAGE_2M : k \in (r.lo \div PAGE_2M) + 1 .. r.hi \div PAGE_2M}

(***************************************************************************)
(* The boot thread.                                                        *)
(***************************************************************************)

(* Power-on, or a reset: the loader has put the image in place, zeroed     *)
(* .bss and jumps to _start in 32-bit protected mode with paging off.      *)
ResetCpu == [cr3 |-> 0, pae |-> FALSE, lme |-> FALSE, pg |-> FALSE, gdtr |-> "loader",
             cs |-> "loader", ds |-> "loader", iflag |-> FALSE, idtr |-> "none"]
ZeroTables == [pml4 |-> ZeroTable, pdpt |-> ZeroTable, pd |-> ZeroTable, pt |-> ZeroTable]
ZeroGdt == [i \in 1..5 |-> [j \in 1..8 |-> 0]]

BootInit ==
  bpc = "_start" /\ cpu = ResetCpu /\ tables = ZeroTables /\ gdt = ZeroGdt

(* A triple fault resets the CPU, and the loader starts the kernel anew.  *)
Reset ==
  bpc' = "_start" /\ cpu' = ResetCpu /\ tables' = ZeroTables /\ gdt' = ZeroGdt

(* _start: cli and the stack; the CPU checks pass.                         *)
Start ==
  /\ bpc = "_start"
  /\ bpc' = "setup_page_tables"
  /\ cpu' = [cpu EXCEPT !.iflag = FALSE]
  /\ UNCHANGED <<tables, gdt>>

(* setup_page_tables: PML4[0] -> PDPT, PDPT[0] -> PD, then the .map_pd     *)
(* loop fills PD[0..31] with 2 MiB pages.                                  *)
SetupPageTables ==
  /\ bpc = "setup_page_tables"
  /\ bpc' = "enable_paging"
  /\ tables' = [tables EXCEPT !.pml4 = (0 :> (PDPT_ADDR | 3)) @@ @,
                             !.pdpt = (0 :> (PD_ADDR | 3)) @@ @,
                             !.pd = [i \in 0..PD_ENTRIES - 1 |-> (i * PAGE_2M) | PD_FLAGS] @@ @]
  /\ UNCHANGED <<cpu, gdt>>

(* enable_paging: CR3, CR4.PAE, EFER.LME, CR0.PG.                          *)
EnablePaging ==
  /\ bpc = "enable_paging"
  /\ bpc' = "far_jump"
  /\ cpu' = [cpu EXCEPT !.cr3 = PML4_ADDR, !.pae = TRUE, !.lme = TRUE, !.pg = TRUE]
  /\ UNCHANGED <<tables, gdt>>

(* lgdt [gdt64.pointer]; jmp gdt64.code:long_mode_start.  A CS that is not *)
(* a 64-bit ring-0 code segment faults with no IDT: a triple fault.        *)
FarJump ==
  /\ bpc = "far_jump"
  /\ IF Code64(gdt64[(CODE_SEL \div 8) + 1])
     THEN /\ bpc' = "long_mode_start"
          /\ cpu' = [cpu EXCEPT !.gdtr = "gdt64", !.cs = CODE_SEL]
          /\ UNCHANGED <<tables, gdt>>
     ELSE Reset

(* long_mode_start: ds, es, fs, gs, ss from gdt64.data, rsp, call          *)
(* kernel_main.  A selector that is not writable ring-0 data faults.       *)
LongModeStart ==
  /\ bpc = "long_mode_start"
  /\ IF DataRW(gdt64[(DATA_SEL \div 8) + 1])
     THEN /\ bpc' = "gdt_init"
          /\ cpu' = [cpu EXCEPT !.ds = DATA_SEL]
          /\ UNCHANGED <<tables, gdt>>
     ELSE Reset

(* kernel_main: vga_init, vga_clear and the banner, then gdt_init fills    *)
(* gdt[] (and zeroes the TSS) without loading it.                          *)
GdtInit ==
  /\ bpc = "gdt_init"
  /\ bpc' = "idt_init"
  /\ gdt' = <<gdt_set_entry(0, 0, 0, 0), gdt_set_entry(0, 1048575, 154, 160),
              gdt_set_entry(0, 1048575, 146, 192), gdt_set_entry(0, 1048575, 250, 160),
              gdt_set_entry(0, 1048575, 242, 192)>>
  /\ UNCHANGED <<cpu, tables>>

(* idt_init: the gates and the PICs (Idt), lidt, sti.                      *)
IdtInit ==
  /\ bpc = "idt_init"
  /\ bpc' = "pmm_init"
  /\ cpu' = [cpu EXCEPT !.idtr = "idt", !.iflag = TRUE]
  /\ UNCHANGED <<tables, gdt>>

(* pmm_init and heap_init write their own structures (Pmm, Heap).          *)
PmmInit ==
  /\ bpc = "pmm_init" /\ bpc' = "heap_init" /\ UNCHANGED <<cpu, tables, gdt>>
HeapInit ==
  /\ bpc = "heap_init" /\ bpc' = "keyboard_init" /\ UNCHANGED <<cpu, tables, gdt>>

BootStep ==
  \/ Start \/ SetupPageTables \/ EnablePaging \/ FarJump \/ LongModeStart
  \/ GdtInit \/ IdtInit \/ PmmInit \/ HeapInit

BootPcs == {"_start", "setup_page_tables", "enable_paging", "far_jump", "long_mode_start",
            "gdt_init", "idt_init", "pmm_init", "heap_init", "keyboard_init"}

BootTypeOK ==
  /\ bpc \in BootPcs
  /\ cpu.pg \in BOOLEAN /\ cpu.iflag \in BOOLEAN
  /\ DOMAIN tables = {"pml4", "pdpt", "pd", "pt"}
  /\ \A n \in DOMAIN tables : tables[n] \in [DOMAIN tables[n] -> Nat] /\ DOMAIN tables[n] \subseteq Entries
  /\ gdt \in [1..5 -> [1..8 -> 0..255]]
====
