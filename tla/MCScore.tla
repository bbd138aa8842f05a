------------------------------ MODULE MCScore -------------------------------
EXTENDS Score

MCSources == {"PORTS", "VERTB", "AUD"}
MCLevel == [s \in MCSources |-> CASE s = "PORTS" -> 2 [] s = "VERTB" -> 3 [] s = "AUD" -> 4]
MCLabels == MainLabels \cup HandlerLabels \cup {"rte", "excep"}
MCVector ==
    [l \in 1..6 |-> CASE l = 2 -> "level2" [] l = 3 -> "level3" [] l = 4 -> "level4" [] OTHER -> "excep"]
=============================================================================
