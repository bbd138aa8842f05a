------------------------------ MODULE MCSongDb ------------------------------
(* Two frontends; a song with playtimes of one digit, one with playtimes of one and   *)
(* of two.                                                                            *)
EXTENDS SongDb

MCTimes == [s \in Songs |-> IF s = 1 THEN {<<1>>} ELSE {<<s>>, <<s, s>>}]
MCCalls == [db |-> 5, conf |-> 2]
=============================================================================
