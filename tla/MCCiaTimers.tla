---------------------------- MODULE MCCiaTimers ----------------------------
(* Instances of CiaTimers for TLC.  Registers of one bit, and a raster line *)
(* shorter than a timer's period; no time reaches the end of an int.        *)
EXTENDS CiaTimers

OnlyA == {t \in Timers : t[2] = "A"}
OneShotB == [t \in Timers |-> {t[2] = "B"}]
Both == {{"A", "B"}}
=============================================================================
