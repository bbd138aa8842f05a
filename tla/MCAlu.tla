-------------------------------- MODULE MCAlu --------------------------------
(* Programs on two registers of four bits. *)
EXTENDS Alu
=============================================================================
