------------------------------ MODULE MCUadeIpc ------------------------------
(* Instance of the IPC layer for TLC: a short message, a message with a    *)
(* body and the token.                                                     *)
EXTENDS UadeIpc

CONSTANTS tok, short, long

MCMsg == {tok, short, long}
MCWithBody == {long}
=============================================================================
