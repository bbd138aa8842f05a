--------------------------- MODULE MCCiaOverflow ---------------------------
(* The same registers with ints of 4 bits: latches of 2 bits against ints  *)
(* of twice as many, as 16 and 32 in the C code.                           *)
EXTENDS CiaTimers

OnlyA == {t \in Timers : t[2] = "A"}
NoOneShot == [t \in Timers |-> {FALSE}]
=============================================================================
