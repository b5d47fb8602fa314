------------------------------- MODULE Printf -------------------------------
(***************************************************************************)
(* The kernel's formatted output (the printf part of lib/printf.c):        *)
(* print_num, print_int and do_printf's loop over the format, as operators *)
(* from the format and the arguments to the characters written, in order.  *)
(* A character is a one-character string, "\n" the newline.  An argument  *)
(* is an integer (int, unsigned int, a pointer), a sequence of characters  *)
(* (a string) or "NULL".  Unsigned arguments are non-negative integers     *)
(* below 2^31, the range TLC computes in.                                 *)
(*                                                                         *)
(* do_printf's size_t remaining is kept modulo 2^64 as an integer: -1 is   *)
(* SIZE_MAX, and a remaining that a wide conversion drives below zero has  *)
(* wrapped.  No model input comes near 2^64 steps, so remaining > 0 as an  *)
(* unsigned test is remaining # 0 on the integer.                          *)
(***************************************************************************)
EXTENDS Integers, Sequences
LOCAL INSTANCE SequencesExt

digits_lower == <<"0", "1", "2", "3", "4", "5", "6", "7",
                  "8", "9", "a", "b", "c", "d", "e", "f">>
digits_upper == <<"0", "1", "2", "3", "4", "5", "6", "7",
                  "8", "9", "A", "B", "C", "D", "E", "F">>

(* print_num's conversion loop: the digits of value, least significant     *)
(* first, as they land in tmp.                                             *)
RECURSIVE LowDigits(_, _, _)
LowDigits(value, base, digits) ==
  IF value = 0 THEN <<>>
  ELSE <<digits[(value % base) + 1]>> \o LowDigits(value \div base, base, digits)

(* tmp: "0" for zero, else the digits, then pad up to width characters.    *)
Tmp(value, base, width, pad, uppercase) ==
  LET d == LowDigits(value, base, IF uppercase THEN digits_upper ELSE digits_lower)
      t == IF value = 0 THEN <<"0">> ELSE d
  IN IF Len(t) >= width THEN t ELSE t \o [i \in 1..(width - Len(t)) |-> pad]

(* Variant that writes tmp out in the order it was filled.                 *)
print_num_unreversed(value, base, width, pad, uppercase) ==
  Tmp(value, base, width, pad, uppercase)

(* print_num: tmp written out backwards, most significant digit first.    *)
print_num(value, base, width, pad, uppercase) ==
  Reverse(Tmp(value, base, width, pad, uppercase))

(* print_int: the sign first, then the magnitude in one column less.       *)
print_int(value, width, pad) ==
  IF value < 0
  THEN <<"-">> \o print_num(-value, 10, IF width > 0 THEN width - 1 ELSE 0, pad, FALSE)
  ELSE print_num(value, 10, width, pad, FALSE)

(* The characters of one conversion with its argument.  An unknown         *)
(* specifier is written back after its '%'.                                *)
Conversion(spec, arg, width, pad) ==
  CASE spec \in {"d", "i"} -> print_int(arg, width, pad)
    [] spec = "u" -> print_num(arg, 10, width, pad, FALSE)
    [] spec = "x" -> print_num(arg, 16, width, pad, FALSE)
    [] spec = "X" -> print_num(arg, 16, width, pad, TRUE)
    [] spec = "p" -> <<"0", "x">> \o print_num(arg, 16, 16, "0", FALSE)
    [] spec = "c" -> <<arg>>
    [] OTHER -> <<"%", spec>>

Takes(spec) == spec \in {"d", "i", "u", "x", "X", "p", "s", "c"}

Digit(c) == CHOOSE n \in 0..9 : digits_lower[n + 1] = c

(* The width field after the optional '0': the index past it and its value. *)
RECURSIVE Width(_, _, _)
Width(fmt, i, w) ==
  IF i <= Len(fmt) /\ fmt[i] \in {"0", "1", "2", "3", "4", "5", "6", "7", "8", "9"}
  THEN Width(fmt, i + 1, w * 10 + Digit(fmt[i]))
  ELSE <<i, w>>

(* do_printf's loop: fmt[i] is *format, args[a] the next va_arg, out what  *)
(* was written, rem the remaining count.  A '%' at the very end of the     *)
(* format is written back with the terminator; the code then reads past    *)
(* the end of the string, which the kernel's formats never make it do, so  *)
(* the model stops there.                                                  *)
RECURSIVE Loop(_, _, _, _, _, _)
Loop(fmt, i, args, a, out, rem) ==
  IF i > Len(fmt) \/ rem = 0 THEN out
  ELSE IF fmt[i] # "%" THEN Loop(fmt, i + 1, args, a, Append(out, fmt[i]), rem - 1)
  ELSE IF i + 1 <= Len(fmt) /\ fmt[i + 1] = "%"
       THEN Loop(fmt, i + 2, args, a, Append(out, "%"), rem - 1)
  ELSE LET pad == IF i + 1 <= Len(fmt) /\ fmt[i + 1] = "0" THEN "0" ELSE " "
           wd == Width(fmt, IF pad = "0" THEN i + 2 ELSE i + 1, 0)
           k == wd[1]
           spec == IF k <= Len(fmt) THEN fmt[k] ELSE "%"
           arg == IF Takes(spec) THEN args[a] ELSE 0
           str == IF arg = "NULL" THEN <<"(", "n", "u", "l", "l", ")">> ELSE arg
           \* %s copies while remaining > 0; the others write in one piece
           s == IF spec = "s"
                THEN SubSeq(str, 1, IF rem > 0 /\ rem < Len(str) THEN rem ELSE Len(str))
                ELSE Conversion(spec, arg, wd[2], pad)
       IN IF k > Len(fmt) THEN Append(out, "%")
          ELSE Loop(fmt, k + 1, args, IF Takes(spec) THEN a + 1 ELSE a,
                    out \o s, rem - Len(s))

do_printf(size, fmt, args) == Loop(fmt, 1, args, 1, <<>>, IF size = 0 THEN -1 ELSE size - 1)

(* printf: to the VGA console, without a size limit.                       *)
printf(fmt, args) == do_printf(0, fmt, args)

(* snprintf: into a buffer of size bytes (the terminating NUL not counted) *)
snprintf(size, fmt, args) == do_printf(size, fmt, args)
====
