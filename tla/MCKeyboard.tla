---------------------------- MODULE MCKeyboard ----------------------------
(* Model-checking instances of Keyboard: a 3-slot ring (2 usable), short   *)
(* lines, and a few scancodes: 'a', 'c', Enter, Backspace, Ctrl press and  *)
(* release, F1 (no character).                                             *)
EXTENDS Keyboard

MCScanBytes == {30, 46, 28, 14, 29, 157}

(* The same without the Ctrl release, for the run that also walks the boot *)
(* path: every key typed during the ten boot steps multiplies the states.  *)
MCScanBytesBoot == {30, 46, 28, 14, 29}
====
