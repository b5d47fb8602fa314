-------------------------------- MODULE Vga ---------------------------------
(***************************************************************************)
(* The VGA text console (drivers/vga.c) as operators on a console value:   *)
(* the cells of the VGA_WIDTH x VGA_HEIGHT text buffer at 0xB8000 and the  *)
(* cursor (cursor_x, cursor_y).  A cell holds the character code only: the *)
(* colour attribute and the hardware cursor registers that update_cursor   *)
(* programs do not change what is shown where.  The console is one        *)
(* variable of the module that writes to it (Keyboard, through the shell's *)
(* echo); every call runs to completion in the main thread.                *)
(***************************************************************************)
EXTENDS Integers, Sequences

CONSTANTS VGA_WIDTH, VGA_HEIGHT

ASSUME VGA_WIDTH \in Nat \ {0} /\ VGA_HEIGHT \in Nat \ {0}

Cols == 0..VGA_WIDTH - 1
Rows == 0..VGA_HEIGHT - 1
SPACE == 32
BlankRow == [x \in Cols |-> SPACE]

(* vga_clear: every cell a blank, the cursor home.                         *)
vga_clear == [cells |-> [y \in Rows |-> BlankRow], x |-> 0, y |-> 0]

(* Variant that moves the lines up but leaves the last one as it was.      *)
scroll_no_clear(con) ==
  [con EXCEPT !.cells = [y \in Rows |-> IF y < VGA_HEIGHT - 1
                                       THEN con.cells[y + 1] ELSE con.cells[y]]]

(* scroll: every line moves up one, the last is cleared.                   *)
scroll(con) ==
  [con EXCEPT !.cells = [y \in Rows |-> IF y < VGA_HEIGHT - 1
                                       THEN con.cells[y + 1] ELSE BlankRow]]

(* The cursor after a move to the next line start, if x ran off the line.  *)
Wrap(con) == IF con.x >= VGA_WIDTH THEN [con EXCEPT !.x = 0, !.y = @ + 1] ELSE con

(* The switch of vga_putchar, before its scrolling loop.                   *)
Put(con, c) ==
  CASE c = 10 -> [con EXCEPT !.x = 0, !.y = @ + 1]
    [] c = 13 -> [con EXCEPT !.x = 0]
    [] c = 9  -> Wrap([con EXCEPT !.x = (@ + 8) - ((@ + 8) % 8)])
    [] c = 8  -> IF con.x > 0
                 THEN [con EXCEPT !.x = @ - 1,
                                  !.cells[con.y][con.x - 1] = SPACE]
                 ELSE con
    [] c >= 32 -> Wrap([con EXCEPT !.cells[con.y][con.x] = c, !.x = @ + 1])
    [] OTHER -> con

(* while (cursor_y >= VGA_HEIGHT) { scroll(); cursor_y--; }                *)
RECURSIVE ScrollDown(_)
ScrollDown(con) ==
  IF con.y >= VGA_HEIGHT THEN ScrollDown([scroll(con) EXCEPT !.y = @ - 1])
  ELSE con

vga_putchar(con, c) == ScrollDown(Put(con, c))

(* vga_puts: vga_putchar for each character of s.                          *)
RECURSIVE vga_puts(_, _)
vga_puts(con, s) ==
  IF s = <<>> THEN con ELSE vga_puts(vga_putchar(con, Head(s)), Tail(s))

-----------------------------------------------------------------------------
(* Reference: a terminal that never scrolls.  The rows of everything       *)
(* written so far, the cursor's row r (1-based) and column x; a new row is *)
(* added below whenever the cursor moves past the last one.  A screen of   *)
(* VGA_HEIGHT rows shows the last of them.                                 *)
Down(t) == [t EXCEPT !.x = 0, !.r = @ + 1,
                     !.rows = IF t.r = Len(t.rows) THEN Append(@, BlankRow) ELSE @]

Feed(t, c) ==
  LET col == IF c = 9 THEN 8 * ((t.x \div 8) + 1) ELSE t.x + 1
  IN CASE c = 10 -> Down(t)
       [] c = 13 -> [t EXCEPT !.x = 0]
       [] c = 8 /\ t.x > 0 -> [t EXCEPT !.x = @ - 1, !.rows[t.r][t.x - 1] = SPACE]
       [] c = 9 \/ c >= 32 ->
            LET w == IF c = 9 THEN t ELSE [t EXCEPT !.rows[t.r][t.x] = c]
            IN IF col >= VGA_WIDTH THEN Down(w) ELSE [w EXCEPT !.x = col]
       [] OTHER -> t

RECURSIVE Transcript(_, _)
Transcript(t, s) == IF s = <<>> THEN t ELSE Transcript(Feed(t, Head(s)), Tail(s))

(* What a screen showing the end of that transcript looks like.            *)
Rendered(s) ==
  LET t == Transcript([rows |-> <<BlankRow>>, r |-> 1, x |-> 0], s)
      top == IF Len(t.rows) > VGA_HEIGHT THEN Len(t.rows) - VGA_HEIGHT ELSE 0
  IN [cells |-> [y \in Rows |-> IF top + y + 1 <= Len(t.rows)
                                THEN t.rows[top + y + 1] ELSE BlankRow],
      x |-> t.x, y |-> t.r - top - 1]
====
