---------------------------- MODULE MCUadeSession ----------------------------
(* Instance of the two-process player for TLC.                             *)
EXTENDS UadeSession

MCSongs == {1, 2}
MCReadSizes == {1, 2}
\* One option for each place where the core resets options.
MCOptions == {"SPEED_HACK", "SET_FREQUENCY", "SET_RESAMPLING_MODE"}
=============================================================================
