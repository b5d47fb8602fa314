------------------------------ MODULE Keyboard ------------------------------
(***************************************************************************)
(* The PS/2 keyboard path of MiniOS: the keyboard device and 8042          *)
(* controller, the two unmasked PIC lines (IRQ0 timer, IRQ1 keyboard), the *)
(* common dispatcher isr_handler with its End-Of-Interrupt, the IRQ1       *)
(* handler keyboard_interrupt_handler that fills the ring buffer, the      *)
(* boot-time keyboard_init, and the only consumer of the ring: the shell's *)
(* shell_readline loop over keyboard_getchar, which halts the CPU until    *)
(* the next interrupt when the ring is empty.                              *)
(*                                                                         *)
(* One CPU.  An interrupt handler runs with interrupts disabled (interrupt *)
(* gates) and sends EOI before iretq, so a whole handler is one step.  The *)
(* device and controller run on their own and interleave with everything.  *)
(***************************************************************************)
EXTENDS Integers, Sequences, TLC

CONSTANTS
  BufSize,     \* KBD_BUFFER_SIZE (256 in the code)
  MaxLen,      \* max_len passed to shell_readline (MAX_CMD_LEN = 256)
  ScanBytes,   \* the scancode bytes the user may produce (bit 7 = release)
  MaxKeys,     \* bound on the number of bytes the keyboard sends
  KERNEL_START, \* the kernel image's load address (Boot)
  BSS,          \* the link address of boot.asm's .bss (Boot)
  VGA_WIDTH,   \* 80
  VGA_HEIGHT   \* 25

ASSUME BufSize \in Nat /\ BufSize >= 2
ASSUME MaxLen \in Nat /\ MaxLen >= 2
ASSUME MaxKeys \in Nat

(* Scancodes of set 1 handled specially by the handler (Makefile:541-545). *)
SC_LSHIFT == 42
SC_RSHIFT == 54
SC_CTRL   == 29
SC_ALT    == 56
SC_CAPS   == 58
Modifiers == {SC_LSHIFT, SC_RSHIFT, SC_CTRL, SC_ALT, SC_CAPS}

(* The entries of scancode_to_ascii and scancode_to_ascii_shift for the    *)
(* scancodes the model uses, as ASCII codes: Esc, '1'/'!', Backspace,      *)
(* Enter, 'a'/'A', 'c'/'C', Space, F1 (no character).                      *)
scancode_to_ascii ==
  (1 :> 27) @@ (2 :> 49) @@ (14 :> 8) @@ (28 :> 10) @@ (30 :> 97)
  @@ (46 :> 99) @@ (57 :> 32) @@ (59 :> 0)
scancode_to_ascii_shift ==
  (1 :> 27) @@ (2 :> 33) @@ (14 :> 8) @@ (28 :> 10) @@ (30 :> 65)
  @@ (46 :> 67) @@ (57 :> 32) @@ (59 :> 0)

ASSUME \A b \in ScanBytes :
         b \in 0..255 /\ (b % 128 \in Modifiers \cup DOMAIN scancode_to_ascii)

VARIABLES
  kbdq,        \* bytes the keyboard device has not yet handed to the 8042
  sent,        \* number of bytes the user has produced (bounded by MaxKeys)
  obf,         \* 8042 status bit 0: output buffer full
  data,        \* 8042 data register (port 0x60)
  irr,         \* PIC interrupt request register: pending IRQ lines
  inService,   \* PIC in-service register
  registered,  \* handlers[33] = keyboard_interrupt_handler
  buf, head, tail,              \* kbd_buffer, kbd_buffer_head, kbd_buffer_tail
  shift, ctrl, alt, caps,       \* modifier state
  pc,          \* control point of the main (kernel/shell) thread
  ch,          \* local c of keyboard_getchar
  pos,         \* local pos of shell_readline
  accepted,    \* history: characters kbd_buffer_put stored
  taken,       \* history: characters keyboard_getchar returned
  dropped,     \* history: number of characters dropped by kbd_buffer_put
  screen,      \* the VGA console the shell echoes to
  echoed,      \* history: every character handed to vga_putchar
  bpc, cpu, tables, gdt  \* the boot thread and the CPU (Boot)

vars == <<kbdq, sent, obf, data, irr, inService, registered, buf, head, tail,
          shift, ctrl, alt, caps, pc, ch, pos, accepted, taken, dropped,
          screen, echoed, bpc, cpu, tables, gdt>>

display == <<screen, echoed>>
bootvars == <<bpc, cpu, tables, gdt>>

V == INSTANCE Vga
B == INSTANCE Boot
I == INSTANCE Idt

Chars == {scancode_to_ascii[s] : s \in DOMAIN scancode_to_ascii}
         \cup {scancode_to_ascii_shift[s] : s \in DOMAIN scancode_to_ascii}
         \cup {3, 65, 67, 97, 99}

PCs == {"kbd_init", "flush_check", "flush_read", "register",
        "getchar_check", "getchar_hlt", "halted",
        "getchar_read", "getchar_late_read", "getchar_adv", "exception", "boot"}

(***************************************************************************)
(* PIC: the lines pic_init unmasks (Idt!Unmasked: IRQ0, the timer, and     *)
(* IRQ1, the keyboard, for masks 0xFC/0xFF).  IRQ0 has the higher priority.*)
(***************************************************************************)
(* Variant with the timer left masked (PIC1 mask 0xFD).                    *)
Unmasked_timer_masked == {1}

Unmasked == I!Unmasked

(* pic_send_eoi(irq) for irq < 8: one EOI to the master, which clears its  *)
(* in-service bit.                                                         *)
pic_send_eoi(irq, isr) == isr \ {irq}

(* Variant that fills every slot: no full test.                          *)
kbd_buffer_put_no_full_check(c) ==
  /\ buf' = [buf EXCEPT ![head] = c]
  /\ head' = (head + 1) % BufSize
  /\ accepted' = Append(accepted, c)
  /\ UNCHANGED dropped

(* Variant that takes the ring for full one slot early.                   *)
kbd_buffer_put_early_full(c) ==
  IF (head + 2) % BufSize # tail
  THEN /\ buf' = [buf EXCEPT ![head] = c]
       /\ head' = (head + 1) % BufSize
       /\ accepted' = Append(accepted, c)
       /\ UNCHANGED dropped
  ELSE /\ dropped' = dropped + 1
       /\ UNCHANGED <<buf, head, accepted>>

(* kbd_buffer_put: store c unless the ring is full (one slot kept empty).  *)
kbd_buffer_put(c) ==
  LET next == (head + 1) % BufSize IN
  IF next # tail
  THEN /\ buf' = [buf EXCEPT ![head] = c]
       /\ head' = next
       /\ accepted' = Append(accepted, c)
       /\ UNCHANGED dropped
  ELSE /\ dropped' = dropped + 1
       /\ UNCHANGED <<buf, head, accepted>>

(* Character for a pressed non-modifier key: table lookup by shift, caps   *)
(* lock inverting letters, Ctrl+C turned into ETX (3).                     *)
Translate(code) ==
  LET c0 == IF shift THEN scancode_to_ascii_shift[code]
                     ELSE scancode_to_ascii[code]
      c1 == IF caps /\ c0 \in 97..122 THEN c0 - 97 + 65
            ELSE IF caps /\ c0 \in 65..90 THEN c0 - 65 + 97
            ELSE c0
  IN IF ctrl /\ c1 \in {99, 67} THEN 3 ELSE c1

(* keyboard_interrupt_handler: read the data port, then update a modifier  *)
(* or translate a key press and enqueue it.  Releases of other keys and    *)
(* keys without a character are ignored.                                   *)
keyboard_interrupt_handler ==
  LET released == data >= 128
      code     == data % 128
  IN /\ obf' = FALSE
     /\ CASE code \in {SC_LSHIFT, SC_RSHIFT} ->
               /\ shift' = ~released
               /\ UNCHANGED <<ctrl, alt, caps, buf, head, accepted, dropped>>
          [] code = SC_CTRL ->
               /\ ctrl' = ~released
               /\ UNCHANGED <<shift, alt, caps, buf, head, accepted, dropped>>
          [] code = SC_ALT ->
               /\ alt' = ~released
               /\ UNCHANGED <<shift, ctrl, caps, buf, head, accepted, dropped>>
          [] code = SC_CAPS ->
               /\ caps' = IF released THEN caps ELSE ~caps
               /\ UNCHANGED <<shift, ctrl, alt, buf, head, accepted, dropped>>
          [] released \/ Translate(code) = 0 ->
               UNCHANGED <<shift, ctrl, alt, caps, buf, head, accepted, dropped>>
          [] OTHER ->
               /\ kbd_buffer_put(Translate(code))
               /\ UNCHANGED <<shift, ctrl, alt, caps>>
-----------------------------------------------------------------------------
(***************************************************************************)
(* Devices.                                                                *)
(***************************************************************************)

(* The user presses or releases a key: the keyboard queues its scancode.   *)
Type(b) ==
  /\ sent < MaxKeys
  /\ kbdq' = Append(kbdq, b)
  /\ sent' = sent + 1
  /\ UNCHANGED <<obf, data, irr, inService, registered, buf, head, tail,
                 shift, ctrl, alt, caps, pc, ch, pos, accepted, taken, dropped>>
  /\ UNCHANGED <<display, bootvars>>

(* The 8042 takes the next byte when its output buffer is empty; setting   *)
(* OBF raises the IRQ1 line, an edge the PIC latches in its IRR.           *)
ControllerLoad ==
  /\ ~obf
  /\ kbdq # <<>>
  /\ data' = Head(kbdq)
  /\ kbdq' = Tail(kbdq)
  /\ obf' = TRUE
  /\ irr' = irr \cup {1}
  /\ UNCHANGED <<sent, inService, registered, buf, head, tail, shift, ctrl,
                 alt, caps, pc, ch, pos, accepted, taken, dropped>>
  /\ UNCHANGED <<display, bootvars>>

(* The PIT raises IRQ0 periodically for ever.                              *)
TimerTick ==
  /\ irr' = irr \cup {0}
  /\ UNCHANGED <<kbdq, sent, obf, data, inService, registered, buf, head,
                 tail, shift, ctrl, alt, caps, pc, ch, pos, accepted, taken,
                 dropped>>
  /\ UNCHANGED <<display, bootvars>>

(***************************************************************************)
(* Interrupt delivery and isr_handler (idt.c:249-275).  The PIC delivers   *)
(* the highest-priority unmasked request when nothing is in service; the   *)
(* CPU (interrupts enabled since idt_init's sti) runs the stub of the      *)
(* vector pic_init gave the line and isr_handler: the callback registered  *)
(* for vector 33, if any, then EOI for vectors 32..47; a vector below 32   *)
(* without a handler is a CPU exception: message, cli, hlt for ever.  An   *)
(* interrupt ends a hlt.                                                   *)
(***************************************************************************)
Interrupt(irq) ==
  LET vector == I!PicVector(irq)
      outcome == I!Outcome(vector, IF registered THEN {33} ELSE {})
  IN
  /\ cpu.iflag
  /\ pc # "exception"
  /\ irq \in irr \cap Unmasked
  /\ inService = {}
  /\ \A j \in irr \cap Unmasked : irq <= j
  /\ irr' = irr \ {irq}
  /\ inService' = IF I!EoiTargets(vector) = {} THEN inService \cup {irq}
                  ELSE pic_send_eoi(irq, inService \cup {irq})
  /\ IF outcome = "handler"
     THEN keyboard_interrupt_handler
     ELSE UNCHANGED <<obf, buf, head, shift, ctrl, alt, caps, accepted, dropped>>
  /\ pc' = CASE outcome = "exception" -> "exception"
              [] pc = "halted" -> "getchar_check"
              [] OTHER -> pc
  /\ UNCHANGED <<kbdq, sent, data, registered, tail, ch, pos, taken>>
  /\ UNCHANGED <<display, bootvars>>

(***************************************************************************)
(* keyboard_init (Makefile:621-639), reached with interrupts enabled.      *)
(***************************************************************************)
KbdInit ==
  /\ pc = "kbd_init"
  /\ head' = 0 /\ tail' = 0
  /\ shift' = FALSE /\ ctrl' = FALSE /\ alt' = FALSE /\ caps' = FALSE
  /\ pc' = "flush_check"
  /\ UNCHANGED <<kbdq, sent, obf, data, irr, inService, registered, buf, ch,
                 pos, accepted, taken, dropped>>
  /\ UNCHANGED display

(* while (inb(KBD_STATUS_PORT) & 0x01)                                     *)
FlushCheck ==
  /\ pc = "flush_check"
  /\ pc' = IF obf THEN "flush_read" ELSE "register"
  /\ UNCHANGED <<kbdq, sent, obf, data, irr, inService, registered, buf, head,
                 tail, shift, ctrl, alt, caps, ch, pos, accepted, taken, dropped>>
  /\ UNCHANGED display

(*     inb(KBD_DATA_PORT);                                                 *)
FlushRead ==
  /\ pc = "flush_read"
  /\ obf' = FALSE
  /\ pc' = "flush_check"
  /\ UNCHANGED <<kbdq, sent, data, irr, inService, registered, buf, head, tail,
                 shift, ctrl, alt, caps, ch, pos, accepted, taken, dropped>>
  /\ UNCHANGED display

(* idt_set_handler(33, keyboard_interrupt_handler); the rest of boot does  *)
(* not touch the keyboard and ends in shell_run's first shell_readline.    *)
Register ==
  /\ pc = "register"
  /\ registered' = TRUE
  /\ pc' = "getchar_check"
  /\ UNCHANGED <<kbdq, sent, obf, data, irr, inService, buf, head, tail,
                 shift, ctrl, alt, caps, ch, pos, accepted, taken, dropped>>
  /\ UNCHANGED display

(***************************************************************************)
(* keyboard_getchar (Makefile:651-660) inside shell_readline               *)
(* (virtio_net.c:931-964).  The loop re-tests head != tail and halts until *)
(* the next interrupt when the ring is empty; an interrupt that lands      *)
(* between the test and the hlt instruction does not end that hlt.         *)
(***************************************************************************)
GetcharCheck ==
  /\ pc = "getchar_check"
  /\ pc' = IF head # tail THEN "getchar_read" ELSE "getchar_hlt"
  /\ UNCHANGED <<kbdq, sent, obf, data, irr, inService, registered, buf, head,
                 tail, shift, ctrl, alt, caps, ch, pos, accepted, taken, dropped>>
  /\ UNCHANGED display

Hlt ==
  /\ pc = "getchar_hlt"
  /\ pc' = "halted"
  /\ UNCHANGED <<kbdq, sent, obf, data, irr, inService, registered, buf, head,
                 tail, shift, ctrl, alt, caps, ch, pos, accepted, taken, dropped>>
  /\ UNCHANGED display

(* shell_readline's treatment of the character c returned by getchar: end  *)
(* of line and Ctrl+C return, backspace (8 or 127) steps back, printable   *)
(* characters advance; the loop also returns once pos = max_len - 1.  The  *)
(* shell then runs the command and calls shell_readline again (pos = 0).   *)
(* Variant of the backspace case without the pos > 0 test.                 *)
Edited_no_guard(c) ==
  CASE c \in {8, 127}  -> pos - 1
    [] c \in 32..126   -> pos + 1
    [] OTHER           -> pos

Edited(c) ==
  CASE c \in {8, 127}  -> IF pos > 0 THEN pos - 1 ELSE pos
    [] c \in 32..126   -> pos + 1
    [] OTHER           -> pos

(* The echo of c: a newline for Enter, "\b \b" for a backspace that     *)
(* erases, "^C" and a newline for Ctrl+C, the character if printable.      *)
Echo(c) ==
  CASE c \in {10, 13}  -> <<10>>
    [] c \in {8, 127}  -> IF pos > 0 THEN <<8, 32, 8>> ELSE <<>>
    [] c = 3           -> <<94, 67, 10>>
    [] c \in 32..126   -> <<c>>
    [] OTHER           -> <<>>

shell_readline_step(c) ==
  /\ screen' = V!vga_puts(screen, Echo(c))
  /\ echoed' = echoed \o Echo(c)
  /\ pos' = IF c \in {10, 13, 3} \/ Edited(c) >= MaxLen - 1 THEN 0
            ELSE Edited(c)
  /\ taken' = Append(taken, c)
  /\ pc' = "getchar_check"

(* char c = kbd_buffer[kbd_buffer_tail]; then the volatile store           *)
(* kbd_buffer_tail = (tail + 1) % SIZE.  The cell is not volatile, so the  *)
(* compiler may also emit the load after the store: both orders are        *)
(* modelled (GetcharRead then GetcharAdvance, or GetcharAdvanceFirst then  *)
(* GetcharLateRead).                                                       *)
GetcharRead ==
  /\ pc = "getchar_read"
  /\ ch' = buf[tail]
  /\ pc' = "getchar_adv"
  /\ UNCHANGED <<kbdq, sent, obf, data, irr, inService, registered, buf, head,
                 tail, shift, ctrl, alt, caps, pos, accepted, taken, dropped>>
  /\ UNCHANGED display

GetcharAdvance ==
  /\ pc = "getchar_adv"
  /\ tail' = (tail + 1) % BufSize
  /\ shell_readline_step(ch)
  /\ UNCHANGED <<kbdq, sent, obf, data, irr, inService, registered, buf, head,
                 shift, ctrl, alt, caps, ch, accepted, dropped>>

GetcharAdvanceFirst ==
  /\ pc = "getchar_read"
  /\ tail' = (tail + 1) % BufSize
  /\ pc' = "getchar_late_read"
  /\ UNCHANGED <<kbdq, sent, obf, data, irr, inService, registered, buf, head,
                 shift, ctrl, alt, caps, ch, pos, accepted, taken, dropped>>
  /\ UNCHANGED display

GetcharLateRead ==
  /\ pc = "getchar_late_read"
  /\ ch' = buf[(tail + BufSize - 1) % BufSize]
  /\ shell_readline_step(buf[(tail + BufSize - 1) % BufSize])
  /\ UNCHANGED <<kbdq, sent, obf, data, irr, inService, registered, buf, head,
                 tail, shift, ctrl, alt, caps, accepted, dropped>>
-----------------------------------------------------------------------------
(* Boot: idt_init has run (all callbacks NULL, interrupts enabled); a key  *)
(* may have been pressed since, its IRQ1 sent EOI with nobody reading the  *)
(* byte.  Shell start: keyboard_init has finished and nothing is pending.  *)
Init ==
  /\ kbdq = <<>>
  /\ sent = 0
  /\ obf \in BOOLEAN
  /\ data \in IF obf THEN ScanBytes ELSE {0}
  /\ irr = {}
  /\ inService = {}
  /\ registered = FALSE
  /\ buf = [i \in 0..BufSize - 1 |-> 0]
  /\ head = 0 /\ tail = 0
  /\ shift = FALSE /\ ctrl = FALSE /\ alt = FALSE /\ caps = FALSE
  /\ pc = "boot"
  /\ ch = 0
  /\ pos = 0
  /\ accepted = <<>> /\ taken = <<>> /\ dropped = 0
  /\ screen = V!vga_clear /\ echoed = <<>>
  /\ B!BootInit

(* The boot thread until kernel_main calls keyboard_init.                  *)
BootThread ==
  /\ pc = "boot"
  /\ B!BootStep
  /\ pc' = IF bpc' = "keyboard_init" THEN "kbd_init" ELSE pc
  /\ UNCHANGED <<kbdq, sent, obf, data, irr, inService, registered, buf, head, tail,
                 shift, ctrl, alt, caps, ch, pos, accepted, taken, dropped>>
  /\ UNCHANGED display

KbdMain ==
  \/ KbdInit \/ FlushCheck \/ FlushRead \/ Register
  \/ GetcharCheck \/ Hlt \/ GetcharRead \/ GetcharAdvance
  \/ GetcharAdvanceFirst \/ GetcharLateRead

Main == BootThread \/ (KbdMain /\ UNCHANGED bootvars)

Next ==
  \/ \E b \in ScanBytes : Type(b)
  \/ ControllerLoad
  \/ TimerTick
  \/ \E irq \in Unmasked : Interrupt(irq)
  \/ Main

(* The CPU runs the main thread whenever it is not halted; the 8042 and    *)
(* the PIT run on their own; the PIC resolves priorities so a pending      *)
(* keyboard request is served once the timer request has been, even if     *)
(* the timer keeps firing (strong fairness).  The user is not fair.        *)
Fairness ==
  /\ WF_vars(Main)
  /\ WF_vars(ControllerLoad)
  /\ WF_vars(TimerTick)
  /\ \A irq \in Unmasked : SF_vars(Interrupt(irq))

Spec == Init /\ [][Next]_vars /\ Fairness
-----------------------------------------------------------------------------
TypeOK ==
  /\ kbdq \in Seq(ScanBytes) /\ sent \in 0..MaxKeys
  /\ obf \in BOOLEAN /\ data \in ScanBytes \cup {0}
  /\ irr \subseteq 0..1 /\ inService \subseteq 0..1
  /\ registered \in BOOLEAN
  /\ buf \in [0..BufSize - 1 -> Chars \cup {0}]
  /\ head \in 0..BufSize - 1 /\ tail \in 0..BufSize - 1
  /\ {shift, ctrl, alt, caps} \subseteq BOOLEAN
  /\ pc \in PCs
  /\ ch \in Chars \cup {0}
  /\ pos \in 0..MaxLen - 2
  /\ accepted \in Seq(Chars) /\ taken \in Seq(Chars)
  /\ dropped \in Nat
  /\ screen \in [cells : [V!Rows -> [V!Cols -> Chars \cup {32, 94}]],
                 x : V!Cols, y : V!Rows]
  /\ B!BootTypeOK

(* The characters waiting in the ring, oldest first.                       *)
Contents ==
  [i \in 1..((head - tail + BufSize) % BufSize) |->
     buf[(tail + i - 1) % BufSize]]

(* The shell receives exactly the characters the interrupt handler stored, *)
(* once each and in order, whichever order the compiler gives the load of  *)
(* the cell and the store of kbd_buffer_tail, and however the IRQ1 handler *)
(* interleaves with keyboard_getchar: what was taken is a prefix of what   *)
(* was stored, and outside the reordered window it is exactly what was     *)
(* stored minus what still waits in the ring.                              *)
FifoDelivery ==
  /\ SubSeq(accepted, 1, Len(taken)) = taken
  /\ pc # "getchar_late_read" => taken \o Contents = accepted

(* Every byte the keyboard sends is eventually read by the IRQ1 handler    *)
(* and every character it stores eventually reaches the shell: the 8042    *)
(* never stays full with nobody to empty it, and the shell never sleeps in *)
(* hlt with a character waiting (the timer interrupt ends a hlt that       *)
(* missed the keyboard interrupt).                                         *)
KeysReachShell ==
  <>[](kbdq = <<>> /\ ~obf /\ head = tail)

(* Every character the IRQ1 handler stores in the ring eventually reaches  *)
(* the shell, also from boot: once the ring is non-empty the shell may     *)
(* test it, miss an interrupt and halt, but a later interrupt always wakes *)
(* it to take the character.                                               *)
StoredCharsReachShell ==
  <>[](head = tail)

(* The characters the shell has taken.  The store of kbd_buffer_tail is   *)
(* the point where a character leaves the ring: in the window before a     *)
(* late read of its cell, that cell is the reader's, and taken counts it.  *)
Delivered ==
  IF pc = "getchar_late_read"
  THEN Append(taken, buf[(tail + BufSize - 1) % BufSize])
  ELSE taken

Chan == INSTANCE KbdChannel WITH
          queue <- Contents, delivered <- Delivered, lost <- dropped,
          Capacity <- BufSize - 1

(* The ring buffer, the IRQ1 handler and keyboard_getchar implement the    *)
(* bounded channel KbdChannel, with its liveness: a character is dropped   *)
(* only when BufSize - 1 wait (kbd_buffer_put's one-empty-slot test), the  *)
(* shell reads the others in order, each once, whichever order the         *)
(* compiler gives keyboard_getchar's load and tail store (the handler may  *)
(* refill the freed slot but never the cell still to be read) and wherever *)
(* an interrupt lands, and the hlt race never leaves a character unread.   *)
ImplementsChannel == Chan!Spec

(* The console shows the end of the line editor's echo as a terminal that  *)
(* never scrolls would: whatever wraps, tabs, backspaces and scrolls       *)
(* vga_putchar performs, each cell and the cursor are where the echoed     *)
(* text puts them, the scrolled-off rows are gone and the rows scrolled in *)
(* are blank.                                                              *)
ScreenShowsEcho == screen = V!Rendered(echoed)

(* Once CR0.PG is set, every address the kernel is about to use maps to     *)
(* itself under the tables setup_page_tables built: the image and stack,   *)
(* the VGA buffer, and the heap whose pointers virtio_net_init gives the   *)
(* device as physical addresses.  A PD entry without PS, a table linked at *)
(* the wrong address or too few 2 MiB entries breaks it.                   *)
IdentityMapped ==
  cpu.pg =>
    \A r \in B!Used(bpc) : \A a \in B!Probes(r) : B!Translate(tables, cpu.cr3, a) = a

(* The table gdt_init prepares "for future use" describes selectors 0x08   *)
(* and 0x10 as boot.asm's gdt64, the one loaded, does in every field the   *)
(* CPU checks in long mode, so reloading it would keep CS a 64-bit ring-0  *)
(* code segment and DS..SS writable data.                                  *)
GdtInitMatchesLoaded ==
  bpc \in {"idt_init", "pmm_init", "heap_init", "keyboard_init"} =>
    \A sel \in {B!CODE_SEL, B!DATA_SEL} :
      B!LongModeView(gdt[(sel \div 8) + 1]) = B!LongModeView(B!gdt64[(sel \div 8) + 1])

(* Every boot gets through the far jump into 64-bit code and the segment    *)
(* loads of long_mode_start to kernel_main's keyboard_init: none of them   *)
(* faults into a triple fault and a reset, whatever keys arrive meanwhile. *)
BootCompletes == <>(bpc = "keyboard_init")
====
