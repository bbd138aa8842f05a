----------------------------- MODULE MCSincQueue -----------------------------
(* A queue of four entries and a table of eight.  The time wraps around after 28       *)
(* cycles; the histories are not bounded, since the search ends at what it finds.      *)
EXTENDS SincQueue
=============================================================================
