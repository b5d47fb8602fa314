----------------------------- MODULE KbdChannel -----------------------------
(***************************************************************************)
(* What the keyboard driver promises the shell (spec 4.2): a bounded FIFO  *)
(* channel of characters.  A character typed while the channel holds       *)
(* Capacity of them is lost; otherwise it is queued, and the reader takes  *)
(* characters in the order they were queued, each once.  The reader is    *)
(* eventually served whenever characters wait.                             *)
(***************************************************************************)
EXTENDS Naturals, Sequences

CONSTANTS Chars, Capacity

VARIABLES
  queue,      \* the characters stored and not yet read, oldest first
  delivered,  \* the characters the reader has taken, in order
  lost        \* how many characters arrived at a full channel

chan == <<queue, delivered, lost>>

Init == queue = <<>> /\ delivered = <<>> /\ lost = 0

(* A character arrives and is queued, there being room.                    *)
Put(c) ==
  /\ Len(queue) < Capacity
  /\ queue' = Append(queue, c)
  /\ UNCHANGED <<delivered, lost>>

(* A character arrives at a full channel and is lost.                      *)
Drop ==
  /\ Len(queue) = Capacity
  /\ lost' = lost + 1
  /\ UNCHANGED <<queue, delivered>>

(* The reader takes the oldest character.                                  *)
Get ==
  /\ queue # <<>>
  /\ delivered' = Append(delivered, Head(queue))
  /\ queue' = Tail(queue)
  /\ UNCHANGED lost

Next == (\E c \in Chars : Put(c)) \/ Drop \/ Get

Spec == Init /\ [][Next]_chan /\ WF_chan(Get)
====
