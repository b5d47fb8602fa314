------------------------------- MODULE MCAta --------------------------------
(* Ata with two sectors whose boot contents differ from each other and    *)
(* from every value a write may carry, so a misplaced or stale sector      *)
(* shows.                                                                  *)
EXTENDS Ata

MCDiskInit == [l \in {0, 1} |-> l + 1]
=============================================================================
