-------------------------------- MODULE Idt ---------------------------------
(***************************************************************************)
(* The interrupt descriptor table, the 8259 PICs and the dispatcher of     *)
(* src/boot/idt.c with the stubs of isr.asm (unnamed/part_001), as         *)
(* operators on the tables idt_init leaves behind.  idt_init runs once     *)
(* with interrupts disabled and ends with sti, so the modules that take    *)
(* interrupts (Keyboard) see only its result.                             *)
(* Each stub pushes the number of the gate it sits at (isrN pushes N, the  *)
(* IRQ macro's second argument for irqN is 32 + N), so isr_handler gets    *)
(* the vector; the register saving and iretq restore what they save.       *)
(***************************************************************************)
EXTENDS Integers
LOCAL INSTANCE Bitwise

Vectors == 0..255
INT_GATE == 142   \* 0x8E: present, DPL 0, 64-bit interrupt gate

(* idt_init: every entry cleared, then isr0..isr31 at vectors 0..31 and    *)
(* irq0..irq15 at vectors 32..47, all as interrupt gates.                  *)
idt == [v \in Vectors |-> IF v < 48 THEN INT_GATE ELSE 0]

Present(v) == (idt[v] & 128) # 0

(* pic_init: ICW2 gives the master's and the slave's vector offsets, the   *)
(* last OCW1 their masks; the slave cascades on the master's IRQ 2.        *)
PIC1_OFFSET == 32   \* 0x20
PIC2_OFFSET == 40   \* 0x28
PIC1_MASK == 252    \* 0xFC
PIC2_MASK == 255    \* 0xFF
CASCADE_IRQ == 2

(* The vector the PICs raise for IRQ line irq.                             *)
PicVector(irq) == IF irq < 8 THEN PIC1_OFFSET + irq ELSE PIC2_OFFSET + (irq - 8)

(* A line is delivered when its mask bit is clear, and for a slave line    *)
(* also the cascade line's bit on the master.                              *)
MasterOpen(i) == (PIC1_MASK & 2^i) = 0
Unmasked ==
  {irq \in 0..15 : IF irq < 8 THEN MasterOpen(irq)
                   ELSE MasterOpen(CASCADE_IRQ) /\ (PIC2_MASK & 2^(irq - 8)) = 0}

(* isr_handler(vector): the registered handler, else for a CPU exception   *)
(* the message and cli/hlt for ever, else nothing.  handlers is the set of *)
(* vectors with a handler.                                                 *)
Outcome(vector, handlers) ==
  IF vector \in handlers THEN "handler"
  ELSE IF vector < 32 THEN "exception"
  ELSE "none"

(* Then, for vectors 32..47, pic_send_eoi(vector - 32): the slave too for  *)
(* IRQ 8..15, then the master.  The PICs the EOI reaches.                  *)
EoiTargets(vector) ==
  IF vector >= 32 /\ vector < 48
  THEN IF vector - 32 >= 8 THEN {"slave", "master"} ELSE {"master"}
  ELSE {}
====
