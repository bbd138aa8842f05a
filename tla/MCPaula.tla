------------------------------ MODULE MCPaula ------------------------------
(* Instances of Paula for TLC.  Lines longer and shorter than the periods. *)
EXTENDS Paula

NoAttachment == [c \in Channels |-> {}]
=============================================================================
