------------------------------ MODULE SincQueue ------------------------------
(***************************************************************************)
(* The queue of the sinc resampler (audio.c), for one channel; the four    *)
(* have a queue each and share nothing.  Every step of the channel's       *)
(* output is recorded with its time.  A sample is the last output, less    *)
(* what the steps of the last MaxAge cycles have not reached yet: a table  *)
(* of MaxAge coefficients says how much that is at which age.              *)
(*                                                                         *)
(* The code bounds neither how often an output may change nor how long it  *)
(* may stay: an attached period of one cycle changes it every cycle, and a *)
(* channel that a song does not use never changes it.                      *)
(***************************************************************************)
EXTENDS Integers, Sequences

CONSTANTS
    Length,  \* SINC_QUEUE_LENGTH: 256
    MaxAge,  \* SINC_QUEUE_MAX_AGE: 2048
    Half,    \* ints go from -Half to Half - 1
    MinGap,  \* "minimum emulated period" of audio.h: 8
    Outputs, \* what current_sample * vol may be
    Turns    \* best_evtime: the cycles of one turn of update_audio()

\* What the theorems ask of the constants.
SincConstants ==
    /\ Length \in Nat \ {0} /\ MaxAge \in Nat \ {0} /\ Half \in Nat /\ MaxAge <= Half
    /\ MinGap \in Nat /\ MaxAge <= Length * MinGap
    /\ Outputs \subseteq Int /\ 0 \in Outputs
    /\ Turns \subseteq Nat

VARIABLES
    sinc_queue, sinc_queue_head, sinc_queue_time, output_state,
    steps \* history: the last Length + 1 steps, the latest first, with their ages

sincVars == <<sinc_queue, sinc_queue_head, sinc_queue_time, output_state, steps>>

\* An int after one addition or subtraction; the time of a step is an int, too.
AsInt(x) == IF x >= Half THEN x - 2 * Half ELSE IF x < -Half THEN x + 2 * Half ELSE x

\* The place in the queue, for a position not beyond its end by more than its length.
Place(x) == IF x < 0 THEN x + Length ELSE IF x >= Length THEN x - Length ELSE x

\* audio_reset() clears the queue: it looks as if one step of nothing had been
\* made at that time.
SincInit ==
    /\ sinc_queue = [i \in 0..Length-1 |-> [time |-> 0, output |-> 0]]
    /\ sinc_queue_head = 0 /\ sinc_queue_time = 0 /\ output_state = 0
    /\ steps = <<[age |-> 0, output |-> 0]>>

audio_reset ==
    /\ sinc_queue' = [i \in 0..Length-1 |-> [time |-> 0, output |-> 0]]
    /\ sinc_queue_head' = 0 /\ sinc_queue_time' = 0 /\ output_state' = 0
    /\ steps' = <<[age |-> 0, output |-> 0]>>

NewHead(h) == Place(h - 1)

\* The history after a turn of n cycles at the beginning of which the output
\* changed by d, or did not change.
Aged(n) == [k \in DOMAIN steps |-> [steps[k] EXCEPT !.age = @ + n]]
Recorded(n, d) ==
    [k \in 1..(IF Len(steps) > Length THEN Length + 1 ELSE Len(steps) + 1) |->
        IF k = 1 THEN [age |-> n, output |-> d] ELSE Aged(n)[k-1]]

Steps(n, output) ==
    /\ output # output_state
    /\ sinc_queue_head' = NewHead(sinc_queue_head)
    /\ sinc_queue' = [sinc_queue EXCEPT ![sinc_queue_head'] =
                         [time |-> sinc_queue_time, output |-> output - output_state]]
    /\ output_state' = output
    /\ steps' = Recorded(n, output - output_state)

Stays(n, output) ==
    /\ output = output_state
    /\ steps' = Aged(n)
    /\ UNCHANGED <<sinc_queue, sinc_queue_head, output_state>>

\* A turn of update_audio(): the output is what the last event left, for n cycles.
sinc_prehandler(n, output) ==
    /\ Steps(n, output) \/ Stays(n, output)
    /\ sinc_queue_time' = AsInt(sinc_queue_time + n)

SincNext == audio_reset \/ \E n \in Turns, o \in Outputs : sinc_prehandler(n, o)

SincSpec == SincInit /\ [][SincNext]_sincVars

-----------------------------------------------------------------------------
(* sample16si_sinc_handler(): the walk along the queue.                    *)

Step(j) == sinc_queue[Place(sinc_queue_head + j)]
Age(j) == AsInt(sinc_queue_time - Step(j).time)

Mixed(age) == age < MaxAge

Walked == {j \in 0..Length-1 : \A i \in 0..j : Mixed(Age(i))}

-----------------------------------------------------------------------------
(* What must hold.                                                         *)

Entry == [time : -Half..Half-1, output : Int]
SincTypeOK ==
    /\ sinc_queue \in [0..Length-1 -> Entry]
    /\ sinc_queue_head \in 0..Length-1 /\ sinc_queue_time \in -Half..Half-1
    /\ output_state \in Outputs
    /\ steps \in Seq([age : Nat, output : Int]) /\ Len(steps) \in 1..Length+1

\* What a sample reads of winsinc[] is in the table (sample16si_sinc_handler()),
\* for as long as a song plays and whatever its channels do: the bound of the walk
\* is only the greatest age, since an age is taken to be no less than zero.
AgesInTable == \A j \in Walked : Age(j) \in 0..MaxAge-1

\* The steps that are mixed are those of the last MaxAge cycles, each with its age,
\* from the latest on: none is overwritten too early, none comes back when the time
\* wraps around.
StepsAreMixed ==
    {<<j + 1, Age(j), Step(j).output>> : j \in {i \in Walked : Step(i).output # 0}}
        = {<<k, steps[k].age, steps[k].output>> :
              k \in {l \in DOMAIN steps : steps[l].age < MaxAge /\ steps[l].output # 0}}

-----------------------------------------------------------------------------
(* What the two rest on.  Nothing in the code sees to either.              *)

\* No channel keeps its output until the age of its last step leaves an int.
MaxIdle == Half - MaxAge
NeverIdle == steps[1].age <= MaxIdle

\* Steps are as far apart as audio.h has it.
StepsApart ==
    \A k \in DOMAIN steps :
        k < Len(steps) /\ steps[k+1].output # 0 => steps[k+1].age >= steps[k].age + MinGap
=============================================================================
