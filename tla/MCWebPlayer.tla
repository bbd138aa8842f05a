---------------------------- MODULE MCWebPlayer ----------------------------
(* Instances of WebPlayer for TLC: songs and what they open.               *)
EXTENDS WebPlayer

\* Four songs: "a" opens a companion file before it
\* reports its subsongs, "b" plays and then opens one the server lacks, "c"
\* opens nothing, reports its subsongs late and ends, "d" never says anything.
MixedSongs == {"a", "b", "c", "d"}
MixedFiles == {"uaerc", "conf", "score", "player", "lib", "bonus"}
MixedSetup == [s \in MixedSongs |-> IF s \in {"c", "d"} THEN <<"conf", "score">>
                                         ELSE <<"conf", "player", "score">>]
MixedRanges == [s \in MixedSongs |-> CASE s = "a" -> 1..3 [] s = "b" -> {0} [] s \in {"c", "d"} -> 0..1]
MixedScript == [s \in MixedSongs |->
    CASE s = "a" -> <<Open("lib"), Info, Output, Work>>
      [] s = "b" -> <<Info, Output, Work, Open("bonus"), Work>>
      [] s = "c" -> <<Output, Work, Info, End>>
      [] s = "d" -> <<Work>>]
MixedOptional == {"conf"}

\* Songs that come to their end, each after it opened a file, and one that
\* never says anything.
EndingSongs == {"a", "b", "c"}
EndingSetup == [s \in EndingSongs |-> IF s = "a" THEN <<"player", "score">> ELSE <<"score">>]
EndingRanges == [s \in EndingSongs |-> IF s = "a" THEN 1..2 ELSE {0}]
EndingScript == [s \in EndingSongs |->
    CASE s = "a" -> <<Open("lib"), Info, Output, End>>
      [] s = "b" -> <<Open("bonus"), Output, Work, End>>
      [] s = "c" -> <<Work>>]

\* One song that opens a file late, one that opens none.
LateScript == [s \in EndingSongs |->
    CASE s = "a" -> <<Info, Output, Work, Open("lib"), Work>>
      [] s = "b" -> <<Output, Work, End>>
      [] s = "c" -> <<Work>>]

DefaultOrThird == {-1, 2}
OnlyDefault == {-1}
=============================================================================
