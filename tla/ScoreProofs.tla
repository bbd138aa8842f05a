----------------------------- MODULE ScoreProofs -----------------------------
(***************************************************************************)
(* Proofs about the CPU's interrupts (Interrupts), for any program, any    *)
(* sources and levels, and then about the program Score that runs on it,   *)
(* for any number of subsongs and any bound on the events that fall        *)
(* between two of its instructions.                                        *)
(***************************************************************************)
EXTENDS Score, TLAPS

-----------------------------------------------------------------------------
(* The CPU: levels, flags and frames, whatever the program.                *)

USE DEF Execute, MakeFromSR

\* intlev is the level of a pending source, and none is above it: the scan from
\* the highest level down finds one when there is any.
LEMMA IntlevIsHighest ==
    ASSUME CpuTypeOK, Pending # {}
    PROVE  /\ intlev \in 1..6
           /\ \E s \in Pending : Level[s] = intlev
           /\ \A s \in Pending : Level[s] <= intlev
<1> DEFINE L(k) == \E s \in Pending : Level[s] = k
           Highest(l) == L(l) /\ \A s \in Pending : Level[s] <= l
<1>1. \A s \in Pending : Level[s] \in 1..6
  BY InterruptAssumption DEF CpuTypeOK, Pending
<1>2. \E l \in 1..6 : Highest(l)
  <2>1. L(1) \/ L(2) \/ L(3) \/ L(4) \/ L(5) \/ L(6)
    BY <1>1
  <2>2. PICK k \in 1..6 : L(k) /\ \A j \in 1..6 : L(j) => j <= k
    BY <2>1
  <2>3. Highest(k)
    BY <2>2, <1>1
  <2> QED BY <2>3
<1>3. intlev = CHOOSE l \in 1..6 : Highest(l)
  BY DEF intlev
<1>4. intlev \in 1..6 /\ Highest(intlev)
  BY <1>2, <1>3
<1> QED BY <1>4

\* What do_specialties() compares is whether something is deliverable.
LEMMA DeliverableIsAbove ==
    ASSUME CpuTypeOK
    PROVE  Deliverable <=> intlev > intmask
<1>1. CASE Pending = {}
  <2>1. ~Deliverable
    BY <1>1 DEF Deliverable
  <2>2. intlev = -1
    BY <1>1 DEF intlev
  <2> QED BY <2>1, <2>2 DEF CpuTypeOK
<1>2. CASE Pending # {}
  <2>1. \A s \in Pending : Level[s] \in 1..6
    BY InterruptAssumption DEF CpuTypeOK, Pending
  <2> QED BY <1>2, <2>1, IntlevIsHighest DEF Deliverable, CpuTypeOK
<1> QED BY <1>1, <1>2

\* Interrupt() is called with a level that has a vector.
LEMMA TakenLevel ==
    ASSUME CpuTypeOK, intlev > intmask
    PROVE  intlev \in 1..6
<1>1. Deliverable
  BY DeliverableIsAbove
<1>2. Pending # {}
  BY <1>1 DEF Deliverable
<1> QED BY <1>2, IntlevIsHighest

\* An exception frame keeps the stack a sequence of frames.
LEMMA PushFrame ==
    ASSUME CpuTypeOK, NEW at \in Labels
    PROVE  <<[mask |-> intmask, pc |-> at]>> \o stack \in Seq(Frame)
<1>1. [mask |-> intmask, pc |-> at] \in Frame
  BY DEF CpuTypeOK, Frame
<1> QED BY <1>1 DEF CpuTypeOK

-----------------------------------------------------------------------------
(* Type correctness.                                                       *)

LEMMA InterruptTyped ==
    ASSUME CpuTypeOK, intlev > intmask, Interrupt(intlev)
    PROVE  intmask' \in 0..7 /\ stack' \in Seq(Frame) /\ pc' \in Labels
<1>1. intlev \in 1..6
  BY TakenLevel
<1>2. pc \in Labels
  BY DEF CpuTypeOK
<1>3. stack' \in Seq(Frame)
  BY <1>2, PushFrame DEF Interrupt
<1> QED BY <1>1, <1>3, InterruptAssumption DEF Interrupt

LEMMA InstructionTyped ==
    ASSUME CpuTypeOK, Instruction
    PROVE  CpuTypeOK'
<1>1. CASE pc' \in Labels /\ Step(pc')
  BY <1>1 DEF CpuTypeOK, Step
<1>2. CASE pc' \in Labels /\ INTREQ(intreq \ intreq', pc')
  BY <1>2 DEF CpuTypeOK, INTREQ
<1>3. CASE pc' \in Labels /\ intena' \subseteq Sources /\ master' \in BOOLEAN /\ INTENA(intena', master', pc')
  BY <1>3 DEF CpuTypeOK, INTENA
<1>4. CASE pc' \in Labels /\ intmask' \in 0..7 /\ MoveToSR(intmask', pc')
  BY <1>4 DEF CpuTypeOK, MoveToSR
<1>5. CASE pc' \in Labels /\ intmask' \in 0..7 /\ Stop(intmask', pc')
  BY <1>5 DEF CpuTypeOK, Stop
<1>6. ASSUME pc' \in Labels, NEW next \in Labels, Trap(pc', next)
      PROVE  CpuTypeOK'
  <2>1. stack' \in Seq(Frame)
    BY <1>6, PushFrame DEF Trap
  <2> QED BY <1>6, <2>1 DEF CpuTypeOK, Trap
<1>7. CASE Rte
  <2>1. stack \in Seq(Frame) /\ stack # <<>>
    BY <1>7 DEF CpuTypeOK, Rte
  <2>2. Head(stack) \in Frame /\ Tail(stack) \in Seq(Frame)
    BY <2>1
  <2>3. intmask' \in 0..7 /\ pc' \in Labels
    BY <1>7, <2>2 DEF Rte, Frame
  <2> QED BY <1>7, <2>2, <2>3 DEF CpuTypeOK, Rte
<1> QED BY <1>1, <1>2, <1>3, <1>4, <1>5, <1>6, <1>7 DEF Instruction

LEMMA CpuTypeStep ==
    ASSUME CpuTypeOK, [CpuNext]_cpuVars
    PROVE  CpuTypeOK'
<1>1. CASE Instruction
  BY <1>1, InstructionTyped
<1>2. ASSUME NEW requested \in SUBSET Sources, Request(requested)
      PROVE  CpuTypeOK'
  BY <1>2 DEF CpuTypeOK, Request
<1>3. CASE Running
  <2>1. CASE doint /\ intlev > intmask
    <3>1. intmask' \in 0..7 /\ stack' \in Seq(Frame) /\ pc' \in Labels
      BY <1>3, <2>1, InterruptTyped DEF Running
    <3> QED BY <1>3, <2>1, <3>1 DEF CpuTypeOK, Running
  <2>2. CASE ~(doint /\ intlev > intmask)
    BY <1>3, <2>2 DEF CpuTypeOK, Running, frameVars
  <2> QED BY <2>1, <2>2
<1>4. CASE Stopped
  <2>1. CASE (int \/ doint) /\ intlev > intmask
    <3>1. intmask' \in 0..7 /\ stack' \in Seq(Frame) /\ pc' \in Labels
      BY <1>4, <2>1, InterruptTyped DEF Stopped
    <3> QED BY <1>4, <2>1, <3>1 DEF CpuTypeOK, Stopped
  <2>2. CASE ~((int \/ doint) /\ intlev > intmask)
    BY <1>4, <2>2 DEF CpuTypeOK, Stopped, frameVars
  <2> QED BY <2>1, <2>2
<1>5. CASE UNCHANGED cpuVars
  BY <1>5 DEF CpuTypeOK, cpuVars
<1> QED BY <1>1, <1>2, <1>3, <1>4, <1>5 DEF CpuNext, do_specialties

LEMMA CpuTypeInit == CpuInit => CpuTypeOK
<1> SUFFICES ASSUME CpuInit PROVE CpuTypeOK
  OBVIOUS
<1>1. master \in BOOLEAN /\ int \in BOOLEAN /\ doint \in BOOLEAN /\ stop \in BOOLEAN
  BY DEF CpuInit
<1>2. stack \in Seq(Frame)
  BY DEF CpuInit
<1> QED BY <1>1, <1>2 DEF CpuInit, CpuTypeOK

\* The state of the CPU stays well-typed whatever the program does.
THEOREM CpuTypeCorrect == CpuSpec => []CpuTypeOK
BY CpuTypeInit, CpuTypeStep, PTL DEF CpuSpec

-----------------------------------------------------------------------------
(* No interrupt is forgotten.                                              *)

LEMMA NoneForgottenStep ==
    ASSUME CpuTypeOK, NoneForgotten, [CpuNext]_cpuVars
    PROVE  NoneForgotten'
<1>1. CASE Instruction
  <2>1. phase' = "special" /\ (Deliverable => doint)
    BY <1>1 DEF Instruction, Step, INTREQ, INTENA, MoveToSR, Stop, Trap, Rte, NoneForgotten
  <2>2. CASE int'
    BY <2>1, <2>2 DEF NoneForgotten
  <2>3. CASE ~int'
    <3>1. UNCHANGED <<intreq, intena, master, intmask, doint>>
      BY <1>1, <2>3 DEF Instruction, Step, INTREQ, INTENA, MoveToSR, Stop, Trap, Rte
    <3> QED BY <2>1, <3>1 DEF NoneForgotten, Deliverable, Pending
  <2> QED BY <2>2, <2>3
<1>2. ASSUME NEW requested \in SUBSET Sources, Request(requested)
      PROVE  NoneForgotten'
  BY <1>2 DEF NoneForgotten, Request
<1>3. CASE Running
  <2>1. CASE doint /\ intlev > intmask
    BY <1>3, <2>1 DEF NoneForgotten, Running
  <2>2. CASE ~(doint /\ intlev > intmask)
    <3>1. Deliverable' <=> Deliverable
      BY <1>3, <2>2 DEF Running, frameVars, Deliverable, Pending
    <3>2. Deliverable => int
      BY <2>2, DeliverableIsAbove DEF NoneForgotten
    <3> QED BY <1>3, <2>2, <3>1, <3>2 DEF Running, NoneForgotten
  <2> QED BY <2>1, <2>2
<1>4. CASE Stopped
  <2>1. CASE (int \/ doint) /\ intlev > intmask
    BY <1>4, <2>1 DEF NoneForgotten, Stopped
  <2>2. CASE ~((int \/ doint) /\ intlev > intmask)
    <3>1. Deliverable' <=> Deliverable
      BY <1>4, <2>2 DEF Stopped, frameVars, Deliverable, Pending
    <3>2. ~Deliverable
      BY <2>2, DeliverableIsAbove DEF NoneForgotten
    <3> QED BY <3>1, <3>2 DEF NoneForgotten
  <2> QED BY <2>1, <2>2
<1>5. CASE UNCHANGED cpuVars
  BY <1>5 DEF NoneForgotten, Deliverable, Pending, cpuVars
<1> QED BY <1>1, <1>2, <1>3, <1>4, <1>5 DEF CpuNext, do_specialties

LEMMA NoneForgottenInit == CpuInit => NoneForgotten
BY DEF CpuInit, NoneForgotten, Deliverable, Pending

\* Whatever a program does to INTREQ, INTENA, its mask and the stopped state, and
\* whenever the chips request: an interrupt that can be delivered has a flag up
\* that makes do_specialties() look for it.
THEOREM NothingForgotten == CpuSpec => []NoneForgotten
<1>1. CpuTypeOK /\ NoneForgotten /\ [CpuNext]_cpuVars => NoneForgotten'
  BY NoneForgottenStep
<1> QED BY <1>1, NoneForgottenInit, CpuTypeCorrect, PTL DEF CpuSpec

HIDE DEF Execute, MakeFromSR

-----------------------------------------------------------------------------
(* The instructions of the sound core, as steps of the CPU.                *)

LEMMA StepRuns ==
    ASSUME NEW next \in Labels, Step(next)
    PROVE  CpuNext
BY DEF Step, Instruction, CpuNext

LEMMA IntreqRuns ==
    ASSUME NEW cleared, NEW next \in Labels, INTREQ(cleared, next)
    PROVE  CpuNext
<1>1. intreq' = intreq \ (intreq \ intreq')
  BY DEF INTREQ
<1> QED BY <1>1 DEF INTREQ, Instruction, CpuNext

LEMMA IntenaRuns ==
    ASSUME NEW enabled \in SUBSET Sources, NEW on \in BOOLEAN, NEW next \in Labels, INTENA(enabled, on, next)
    PROVE  CpuNext
BY DEF INTENA, Instruction, CpuNext

LEMMA TrapRuns ==
    ASSUME NEW vector \in Labels, NEW next \in Labels, Trap(vector, next)
    PROVE  CpuNext
BY DEF Trap, Instruction, CpuNext

LEMMA SrRuns ==
    ASSUME NEW mask \in 0..7, NEW next \in Labels, MoveToSR(mask, next) \/ Stop(mask, next)
    PROVE  CpuNext
<1>1. intmask' \in 0..7 /\ pc' \in Labels
  BY DEF MoveToSR, Stop, MakeFromSR
<1>2. CASE MoveToSR(mask, next)
  <2>1. MoveToSR(intmask', pc')
    BY <1>2 DEF MoveToSR, MakeFromSR
  <2> QED BY <1>1, <2>1 DEF Instruction, CpuNext
<1>3. CASE Stop(mask, next)
  <2>1. Stop(intmask', pc')
    BY <1>3 DEF Stop, MakeFromSR
  <2> QED BY <1>1, <2>1 DEF Instruction, CpuNext
<1> QED BY <1>2, <1>3

LEMMA RteRuns == Rte => CpuNext
BY DEF Instruction, CpuNext

LEMMA KnownLabels ==
    /\ MainLabels \subseteq Labels /\ HandlerLabels \subseteq Labels /\ "rte" \in Labels
BY ScoreAssumption

LEMMA MainRuns ==
    ASSUME TypeOK, Main
    PROVE  CpuNext
<1> USE KnownLabels DEF MainLabels
<1>1. CASE Start
  BY <1>1, IntenaRuns DEF Start
<1>2. CASE ClearRequests
  BY <1>2, IntreqRuns DEF ClearRequests
<1>3. CASE UserLevel
  BY <1>3, SrRuns DEF UserLevel
<1>4. CASE MasterOn
  BY <1>4, IntenaRuns DEF MasterOn, TypeOK, CpuTypeOK
<1>5. CASE init_interrupts
  BY <1>5, IntenaRuns, ScoreAssumption DEF init_interrupts, TypeOK, CpuTypeOK
<1>6. CASE call_init_sound
  BY <1>6, IntenaRuns, ScoreAssumption DEF call_init_sound, MasterAfterInit, TypeOK, CpuTypeOK, ScoreMemory
<1>7. CASE EnableInt
  BY <1>7, IntenaRuns, ScoreAssumption DEF EnableInt, TypeOK, CpuTypeOK, ScoreMemory
<1>8. CASE Disable \/ Enable
  BY <1>8, IntenaRuns DEF Disable, Enable, TypeOK, CpuTypeOK
<1>9. CASE TellOutput \/ waittrap \/ Tell
  BY <1>9, TrapRuns DEF TellOutput, waittrap, Tell
<1>10. CASE newstop
  BY <1>10, SrRuns DEF newstop
<1>11. CASE StartOutput \/ Hook \/ EnableIcr \/ ReadFrame \/ CompareFrame
  BY <1>11, StepRuns DEF StartOutput, Hook, EnableIcr, ReadFrame, CompareFrame
<1>12. CASE PollInput \/ SetSubSong \/ inputmessagehandled \/ TestChange \/ ResetSong
  BY <1>12, StepRuns DEF PollInput, SetSubSong, inputmessagehandled, TestChange, ResetSong
<1>13. CASE RemoveIcr \/ Shift \/ ClearData \/ Unhook \/ TestEnd \/ Report \/ ClearEnd
  BY <1>13, StepRuns DEF RemoveIcr, Shift, ClearData, Unhook, TestEnd, Report, ClearEnd
<1> QED BY <1>1, <1>2, <1>3, <1>4, <1>5, <1>6, <1>7, <1>8, <1>9, <1>10, <1>11, <1>12, <1>13 DEF Main

LEMMA HandlerRuns ==
    ASSUME TypeOK, Handler
    PROVE  CpuNext
<1> USE KnownLabels DEF HandlerLabels, Level2Labels, Level3Labels, Level4Labels
<1>1. CASE ReturnFromException
  BY <1>1, RteRuns DEF ReturnFromException
<1>2. CASE Acknowledge \/ ClearFrame \/ AcknowledgeAudio
  BY <1>2, IntreqRuns DEF Acknowledge, ClearFrame, AcknowledgeAudio
<1>3. CASE TellString
  BY <1>3, TrapRuns DEF TellString
<1>4. CASE ReadIcr \/ Player \/ mylevel3 \/ CountFrame
  BY <1>4, StepRuns DEF ReadIcr, Player, mylevel3, CountFrame
<1>5. CASE mylevel4 \/ put_string \/ MoreAudio
  BY <1>5, StepRuns DEF mylevel4, put_string, MoreAudio
<1> QED BY <1>1, <1>2, <1>3, <1>4, <1>5 DEF Handler

LEMMA EventRuns ==
    ASSUME Special \/ vsync_handler \/ AudioPass \/ Underflow \/ change_subsong
    PROVE  [CpuNext]_cpuVars
BY ScoreAssumption DEF Special, vsync_handler, AudioPass, Underflow, change_subsong, CpuNext

LEMMA NextRuns ==
    ASSUME TypeOK, [Next]_vars
    PROVE  [CpuNext]_cpuVars
BY MainRuns, HandlerRuns, EventRuns DEF Next, vars

-----------------------------------------------------------------------------

(* Type correctness.                                                       *)

LEMMA ScoreUpdates ==
    ASSUME score \in ScoreMemory, NEW b \in BOOLEAN, NEW c \in BOOLEAN, NEW s \in Subsongs
    PROVE  /\ [score EXCEPT !.booted = b] \in ScoreMemory
           /\ [score EXCEPT !.hooked = b] \in ScoreMemory
           /\ [score EXCEPT !.over = b] \in ScoreMemory
           /\ [score EXCEPT !.newframe = b] \in ScoreMemory
           /\ [score EXCEPT !.songend = b] \in ScoreMemory
           /\ [score EXCEPT !.change = b] \in ScoreMemory
           /\ [score EXCEPT !.first = b] \in ScoreMemory
           /\ [score EXCEPT !.virgin = b] \in ScoreMemory
           /\ [score EXCEPT !.back = "enable"] \in ScoreMemory
           /\ [score EXCEPT !.cursubsong = s, !.change = b] \in ScoreMemory
           /\ [score EXCEPT !.songend = b, !.virgin = c] \in ScoreMemory
           /\ [score EXCEPT !.over = b, !.back = "playloop"] \in ScoreMemory
BY DEF ScoreMemory

LEMMA OtherUpdates ==
    ASSUME cia \in PlayerTimer, mail \in Mailbox, hist \in History,
           NEW b \in BOOLEAN, NEW c \in BOOLEAN, NEW s \in Subsongs
    PROVE  /\ [cia EXCEPT !.icr = b] \in PlayerTimer
           /\ [cia EXCEPT !.imask = b] \in PlayerTimer
           /\ [cia EXCEPT !.imask = b, !.started = c] \in PlayerTimer
           /\ [mail EXCEPT !.out = "START_OUTPUT"] \in Mailbox
           /\ [mail EXCEPT !.out = "SONG_END"] \in Mailbox
           /\ [mail EXCEPT !.out = "GENERALMSG"] \in Mailbox
           /\ [mail EXCEPT !.in = b] \in Mailbox
           /\ [mail EXCEPT !.wanted = s, !.in = b] \in Mailbox
           /\ [hist EXCEPT !.playing = s] \in History
           /\ [hist EXCEPT !.told = b] \in History
           /\ [hist EXCEPT !.said = b] \in History
           /\ [hist EXCEPT !.told = b, !.replaced = c] \in History
           /\ [hist EXCEPT !.late = b] \in History
BY DEF PlayerTimer, Mailbox, History

LEMMA Fields ==
    ASSUME TypeOK
    PROVE  score.cursubsong \in Subsongs /\ mail.wanted \in Subsongs
BY DEF TypeOK, ScoreMemory, Mailbox

MemoryTyped == score \in ScoreMemory /\ cia \in PlayerTimer /\ mail \in Mailbox /\ hist \in History

LEMMA MainTyped ==
    ASSUME TypeOK, Main
    PROVE  MemoryTyped'
<1> USE DEF TypeOK, MemoryTyped
<1>1. CASE Start \/ ClearRequests \/ UserLevel \/ MasterOn \/ init_interrupts
  BY <1>1, ScoreUpdates, Fields, Zenon DEF Start, ClearRequests, UserLevel, MasterOn, init_interrupts
<1>2. CASE call_init_sound \/ StartOutput \/ TellOutput
  BY <1>2, ScoreUpdates, OtherUpdates, Fields, Zenon
     DEF call_init_sound, StartOutput, TellOutput, uade_get_amiga_message
<1>3. CASE Hook \/ EnableIcr \/ EnableInt
  BY <1>3, ScoreUpdates, OtherUpdates, Fields, Zenon DEF Hook, EnableIcr, EnableInt
<1>4. CASE waittrap \/ ReadFrame \/ newstop \/ CompareFrame
  BY <1>4, ScoreUpdates, Fields, Zenon DEF waittrap, ReadFrame, newstop, CompareFrame
<1>5. CASE PollInput \/ SetSubSong \/ inputmessagehandled
  BY <1>5, ScoreUpdates, OtherUpdates, Fields, Zenon DEF PollInput, SetSubSong, inputmessagehandled
<1>6. CASE TestChange \/ Disable \/ ResetSong \/ Enable
  BY <1>6, ScoreUpdates, OtherUpdates, Fields, Zenon DEF TestChange, Disable, ResetSong, Enable
<1>7. CASE RemoveIcr \/ Shift \/ ClearData \/ Unhook
  BY <1>7, ScoreUpdates, OtherUpdates, Fields, Zenon DEF RemoveIcr, Shift, ClearData, Unhook
<1>8. CASE TestEnd \/ Report \/ Tell \/ ClearEnd
  BY <1>8, ScoreUpdates, OtherUpdates, Fields, Zenon
     DEF TestEnd, Report, Tell, ClearEnd, uade_get_amiga_message
<1> QED BY <1>1, <1>2, <1>3, <1>4, <1>5, <1>6, <1>7, <1>8 DEF Main

LEMMA HandlerTyped ==
    ASSUME TypeOK, Handler
    PROVE  MemoryTyped'
<1> USE DEF TypeOK, MemoryTyped
<1>1. CASE ReturnFromException \/ Acknowledge \/ ReadIcr
  BY <1>1, OtherUpdates, Fields, Zenon DEF ReturnFromException, Acknowledge, ReadIcr
<1>2. CASE Player
  <2>1. PICK end \in BOOLEAN : score' = [score EXCEPT !.songend = @ \/ end]
    BY <1>2 DEF Player
  <2>2. score' \in ScoreMemory
    BY <2>1 DEF ScoreMemory
  <2> QED BY <1>2, <2>2 DEF Player
<1>3. CASE mylevel3 \/ CountFrame \/ ClearFrame
  BY <1>3, ScoreUpdates, Fields, Zenon DEF mylevel3, CountFrame, ClearFrame
<1>4. CASE mylevel4 \/ AcknowledgeAudio
  BY <1>4, ScoreUpdates, Fields, Zenon DEF mylevel4, AcknowledgeAudio
<1>5. CASE TellString \/ MoreAudio
  BY <1>5, OtherUpdates, Fields, Zenon DEF TellString, MoreAudio, uade_get_amiga_message
<1>6. CASE put_string
  <2> DEFINE over == mainpc = "tell" /\ ~hist.said
  <2>1. over \in BOOLEAN
    OBVIOUS
  <2>2. hist' = [hist EXCEPT !.said = TRUE, !.replaced = @ \/ over]
    BY <1>6 DEF put_string
  <2> HIDE DEF over
  <2>3. hist' \in History
    BY <2>1, <2>2 DEF History
  <2>4. mail' = [mail EXCEPT !.out = "GENERALMSG"] /\ UNCHANGED <<score, cia>>
    BY <1>6 DEF put_string
  <2>5. mail' \in Mailbox
    BY <2>4 DEF Mailbox
  <2> QED BY <2>3, <2>4, <2>5
<1> QED BY <1>1, <1>2, <1>3, <1>4, <1>5, <1>6 DEF Handler

LEMMA EventTyped ==
    ASSUME TypeOK, Special \/ vsync_handler \/ AudioPass \/ Underflow \/ change_subsong
    PROVE  MemoryTyped'
<1> USE DEF TypeOK, MemoryTyped
<1>1. CASE Special \/ vsync_handler \/ AudioPass \/ Underflow
  BY <1>1, OtherUpdates, Fields, Zenon DEF Special, vsync_handler, AudioPass, Underflow
<1>2. CASE change_subsong
  <2> DEFINE late == mainpc = "clear"
  <2>1. late \in BOOLEAN
    OBVIOUS
  <2>2. hist' = [hist EXCEPT !.late = late]
    BY <1>2 DEF change_subsong
  <2> HIDE DEF late
  <2>3. hist' \in History
    BY <2>1, <2>2 DEF History
  <2>4. PICK s \in Subsongs : mail' = [mail EXCEPT !.wanted = s, !.in = TRUE]
    BY <1>2 DEF change_subsong
  <2>5. mail' \in Mailbox
    BY <2>4 DEF Mailbox
  <2> QED BY <1>2, <2>3, <2>5 DEF change_subsong
<1> QED BY <1>1, <1>2

LEMMA CatchUpTyped ==
    ASSUME burst \in 0..Burst, NEW main, CatchUp(main)
    PROVE  burst' \in 0..Burst
BY ScoreAssumption DEF CatchUp

LEMMA BurstTyped ==
    ASSUME TypeOK, Next
    PROVE  burst' \in 0..Burst
<1> USE DEF TypeOK
<1>1. CASE Main
  <2>1. \E label : At(label)
    BY <1>1, Zenon
       DEF Main, Start, ClearRequests, UserLevel, MasterOn, init_interrupts, call_init_sound,
           StartOutput, TellOutput, Hook, EnableIcr, EnableInt, waittrap, ReadFrame, newstop,
           CompareFrame, PollInput, SetSubSong, inputmessagehandled, TestChange, Disable, ResetSong,
           Enable, RemoveIcr, Shift, ClearData, Unhook, TestEnd, Report, Tell, ClearEnd
  <2> QED BY <2>1, CatchUpTyped DEF At
<1>2. CASE Handler
  <2>1. \E label : At(label)
    BY <1>2, Zenon
       DEF Handler, ReturnFromException, Acknowledge, ReadIcr, Player, mylevel3, CountFrame,
           ClearFrame, mylevel4, AcknowledgeAudio, put_string, TellString, MoreAudio
  <2> QED BY <2>1, CatchUpTyped DEF At
<1>3. CASE Special
  BY <1>3, CatchUpTyped DEF Special
<1>4. CASE vsync_handler \/ AudioPass \/ Underflow \/ change_subsong
  <2>1. Event
    BY <1>4 DEF vsync_handler, AudioPass, Underflow, change_subsong
  <2> QED BY <2>1, ScoreAssumption DEF Event
<1> QED BY <1>1, <1>2, <1>3, <1>4 DEF Next

LEMMA TypeInit == Init => TypeOK
<1> SUFFICES ASSUME Init PROVE TypeOK
  OBVIOUS
<1>1. CpuTypeOK
  BY CpuTypeInit DEF Init
<1>2. PICK s \in Subsongs :
          /\ score = [booted |-> FALSE, over |-> FALSE, hooked |-> FALSE, newframe |-> FALSE,
                      songend |-> FALSE, change |-> FALSE, cursubsong |-> s, virgin |-> TRUE,
                      first |-> TRUE, back |-> "playloop"]
          /\ mail = [out |-> "none", in |-> FALSE, wanted |-> s]
          /\ hist = [playing |-> s, late |-> FALSE, told |-> FALSE, said |-> FALSE,
                     replaced |-> FALSE]
  BY DEF Init
<1>3. score \in ScoreMemory
  BY <1>2 DEF ScoreMemory
<1>4. mail \in Mailbox /\ hist \in History
  BY <1>2 DEF Mailbox, History
<1>5. cia \in PlayerTimer /\ burst \in 0..Burst
  BY ScoreAssumption DEF Init, PlayerTimer
<1> QED BY <1>1, <1>3, <1>4, <1>5 DEF TypeOK

LEMMA TypeStep == TypeOK /\ [Next]_vars => TypeOK'
<1> SUFFICES ASSUME TypeOK, [Next]_vars PROVE TypeOK'
  OBVIOUS
<1>1. CpuTypeOK'
  BY NextRuns, CpuTypeStep DEF TypeOK
<1>2. CASE Next
  <2>1. MemoryTyped'
    BY <1>2, MainTyped, HandlerTyped, EventTyped DEF Next
  <2> QED BY <1>1, <1>2, <2>1, BurstTyped DEF TypeOK, MemoryTyped
<1>3. CASE UNCHANGED vars
  BY <1>1, <1>3 DEF TypeOK, vars
<1> QED BY <1>2, <1>3

\* The sound core's state stays well-typed for any set of subsongs and any number
\* of events between two of its instructions.
THEOREM ScoreTypeCorrect == Spec => []TypeOK
BY TypeInit, TypeStep, PTL DEF Spec

\* Every step of the sound core, its handlers, the chips and the emulator is one
\* of the CPU, an instruction, a request or a turn of do_specialties(), or changes
\* nothing of it: the score is one of the programs Interrupts is about.
THEOREM ScoreIsAProgram == Spec => CpuSpec
<1>1. Init => CpuInit
  BY DEF Init
<1>2. TypeOK /\ [Next]_vars => [CpuNext]_cpuVars
  BY NextRuns
<1> QED BY <1>1, <1>2, ScoreTypeCorrect, PTL DEF Spec, CpuSpec

\* No interrupt is forgotten while the sound core runs.
THEOREM ScoreForgetsNone == Spec => []NoneForgotten
BY ScoreIsAProgram, NothingForgotten, PTL

-----------------------------------------------------------------------------
(* The inductive invariant of the score.                                   *)

\* The main program proper, without the handler of its trap; and start-up until
\* it lowers its level, so far at 7.
MainBody == MainLabels \ {"wait", "stop", "compare"}
Masked == {"start", "intreq", "user"}

\* What the CPU is in, as a frame would keep it, above what it has interrupted.
Contexts == <<[mask |-> intmask, pc |-> pc]>> \o stack

\* A handler runs at its level, the main program and its trap at 0.
RunsAt(f) ==
    /\ f.pc \in HandlerLabels => f.mask = HandlerLevel[f.pc]
    /\ f.pc \in MainLabels => f.mask = IF f.pc \in Masked THEN 7 ELSE 0

\* The main program is below all others, no level is above a higher one, and a
\* handler is above lower levels only.
Nested(s) ==
    /\ \A i \in 1..Len(s) : RunsAt(s[i]) /\ (s[i].pc \in MainBody <=> i = Len(s))
    /\ \A i, j \in 1..Len(s) : i < j =>
          /\ s[i].mask >= s[j].mask
          /\ s[i].pc \in HandlerLabels => s[i].mask > s[j].mask

\* Where the main program may be after the end of a song.
AfterEnd ==
    {"remove", "shift", "datas", "unhook", "clearend", "playloop", "poll", "input", "clear",
     "initsound", "output", "tellout", "hook", "enableicr", "enableint"}

\* A handler is about to write the message of the first audio interrupt.
Saying == \E i \in 1..Len(Contexts) : Contexts[i].pc = "audiosay"

\* The song's end is told, or its first message of an audio interrupt took its place
\* in the buffer; a song that has had that message is in no need to say it again.
EndInv ==
    /\ score.over => mainpc \in AfterEnd /\ (hist.told \/ hist.replaced)
    /\ mainpc = "tell" => mail.out = "SONG_END" \/ hist.replaced
    /\ score.virgin => ~hist.said
    /\ Saying => ~score.virgin /\ ~hist.said

\* The subsong last asked for is taken or in the mailbox, and the one taken is
\* played or going to be.
RequestInv ==
    /\ mail.wanted # score.cursubsong => mail.in \/ hist.late
    /\ mainpc = "clear" => mail.wanted = score.cursubsong \/ hist.late
    /\ score.cursubsong # hist.playing =>
          score.change \/ (mainpc \in SettingUp /\ ~score.over)

ScoreInv == TypeOK /\ Nested(Contexts) /\ EndInv /\ RequestInv

-----------------------------------------------------------------------------
(* Lemmas about contexts, as sequences.                                    *)

\* No label is of two kinds, and each level has a vector of its own.
LEMMA Kinds ==
    /\ \A label \in HandlerLabels : label \notin MainLabels /\ HandlerLevel[label] \in 2..4
    /\ "rte" \notin MainLabels /\ "rte" \notin HandlerLabels
    /\ MainBody \subseteq MainLabels /\ Masked \subseteq MainBody
BY DEF MainLabels, HandlerLabels, Level2Labels, Level3Labels, Level4Labels, HandlerLevel,
       MainBody, Masked

LEMMA Alone ==
    ASSUME NEW f \in Frame, RunsAt(f), f.pc \in MainBody
    PROVE  Nested(<<f>> \o <<>>)
BY DEF Nested

\* Pushing a context of a level that is high enough.
LEMMA Pushed ==
    ASSUME NEW s \in Seq(Frame), s # <<>>, Nested(s), NEW f \in Frame, RunsAt(f),
           f.pc \notin MainBody, f.mask >= s[1].mask,
           f.pc \in HandlerLabels => f.mask > s[1].mask
    PROVE  Nested(<<f>> \o s)
<1> DEFINE t == <<f>> \o s
<1>1. /\ Len(t) = Len(s) + 1 /\ t[1] = f /\ Len(s) > 0
      /\ \A i \in 2..Len(t) : i - 1 \in 1..Len(s) /\ t[i] = s[i - 1]
  OBVIOUS
<1>2. \A i \in 1..Len(s) : s[i].mask \in 0..7
  <2> SUFFICES ASSUME NEW i \in 1..Len(s) PROVE s[i].mask \in 0..7
    OBVIOUS
  <2>1. s[i] \in Frame
    OBVIOUS
  <2> QED BY <2>1 DEF Frame
<1>3. f.mask \in 0..7
  BY DEF Frame
<1> HIDE DEF t
<1>4. \A i \in 1..Len(t) : RunsAt(t[i]) /\ (t[i].pc \in MainBody <=> i = Len(t))
  <2> SUFFICES ASSUME NEW i \in 1..Len(t)
               PROVE  RunsAt(t[i]) /\ (t[i].pc \in MainBody <=> i = Len(t))
    OBVIOUS
  <2>1. CASE i = 1
    BY <1>1, <2>1
  <2>2. CASE i # 1
    <3>1. i \in 2..Len(t) /\ (i = Len(t) <=> i - 1 = Len(s))
      BY <1>1, <2>2
    <3> QED BY <1>1, <3>1 DEF Nested
  <2> QED BY <2>1, <2>2
<1>5. \A i \in 1..Len(s) : s[1].mask >= s[i].mask
  BY <1>1, <1>2 DEF Nested
<1>6. ASSUME NEW i \in 1..Len(t), NEW j \in 1..Len(t), i < j
      PROVE  t[i].mask >= t[j].mask /\ (t[i].pc \in HandlerLabels => t[i].mask > t[j].mask)
  <2>1. j \in 2..Len(t) /\ j - 1 \in 1..Len(s) /\ t[j] = s[j - 1]
    BY <1>1, <1>6
  <2>2. CASE i = 1
    BY <1>1, <1>2, <1>3, <1>5, <2>1, <2>2
  <2>3. CASE i # 1
    <3>1. i - 1 \in 1..Len(s) /\ t[i] = s[i - 1] /\ i - 1 < j - 1
      BY <1>1, <1>6, <2>3
    <3> QED BY <2>1, <3>1 DEF Nested
  <2> QED BY <2>2, <2>3
<1> QED BY <1>4, <1>6 DEF Nested, t

LEMMA Popped ==
    ASSUME NEW s \in Seq(Frame), NEW f \in Frame, s # <<>>, Nested(<<f>> \o s)
    PROVE  Nested(s)
<1> DEFINE t == <<f>> \o s
<1>1. Len(t) = Len(s) + 1 /\ \A i \in 1..Len(s) : i + 1 \in 1..Len(t) /\ s[i] = t[i + 1]
  OBVIOUS
<1> HIDE DEF t
<1>2. Nested(t)
  BY DEF t
<1>3. \A i \in 1..Len(s) : RunsAt(s[i]) /\ (s[i].pc \in MainBody <=> i = Len(s))
  BY <1>1, <1>2 DEF Nested
<1>4. ASSUME NEW i \in 1..Len(s), NEW j \in 1..Len(s), i < j
      PROVE  s[i].mask >= s[j].mask /\ (s[i].pc \in HandlerLabels => s[i].mask > s[j].mask)
  <2>1. i + 1 < j + 1
    BY <1>4
  <2> QED BY <1>1, <1>2, <2>1 DEF Nested
<1> QED BY <1>3, <1>4 DEF Nested

\* What runs goes on at another place of its kind, at the same level.
LEMMA GoesOn ==
    ASSUME NEW s \in Seq(Frame), NEW f \in Frame, NEW g \in Frame, Nested(<<f>> \o s),
           RunsAt(g), g.mask = f.mask, g.pc \in MainBody <=> f.pc \in MainBody,
           g.pc \in HandlerLabels => f.pc \in HandlerLabels
    PROVE  Nested(<<g>> \o s)
<1> DEFINE t == <<f>> \o s
           u == <<g>> \o s
<1>1. /\ Len(t) = Len(s) + 1 /\ Len(u) = Len(s) + 1 /\ t[1] = f /\ u[1] = g /\ Len(s) \in Nat
      /\ \A i \in 2..Len(t) : t[i] = u[i]
  OBVIOUS
<1> HIDE DEF t, u
<1>2. Nested(t)
  BY DEF t
<1>3. \A i \in 1..Len(u) : RunsAt(u[i]) /\ (u[i].pc \in MainBody <=> i = Len(u))
  <2> SUFFICES ASSUME NEW i \in 1..Len(u)
               PROVE  RunsAt(u[i]) /\ (u[i].pc \in MainBody <=> i = Len(u))
    OBVIOUS
  <2>1. i \in 1..Len(t) /\ (i = 1 \/ u[i] = t[i])
    BY <1>1
  <2>2. RunsAt(t[i]) /\ (t[i].pc \in MainBody <=> i = Len(t))
    BY <1>2, <2>1 DEF Nested
  <2> QED BY <1>1, <2>1, <2>2
<1>4. ASSUME NEW i \in 1..Len(u), NEW j \in 1..Len(u), i < j
      PROVE  u[i].mask >= u[j].mask /\ (u[i].pc \in HandlerLabels => u[i].mask > u[j].mask)
  <2>1. /\ i \in 1..Len(t) /\ j \in 1..Len(t) /\ u[j] = t[j]
        /\ i = 1 \/ u[i] = t[i]
    BY <1>1, <1>4
  <2>2. t[i].mask >= t[j].mask /\ (t[i].pc \in HandlerLabels => t[i].mask > t[j].mask)
    BY <1>2, <1>4, <2>1 DEF Nested
  <2> QED BY <1>1, <2>1, <2>2
<1> QED BY <1>3, <1>4 DEF Nested

\* Contexts and the place of the main program.
LEMMA ContextsAre ==
    ASSUME CpuTypeOK
    PROVE  /\ [mask |-> intmask, pc |-> pc] \in Frame
           /\ Contexts \in Seq(Frame) /\ Len(Contexts) = Len(stack) + 1
           /\ Contexts[1] = [mask |-> intmask, pc |-> pc]
           /\ \A i \in 1..Len(stack) : Contexts[i + 1] = stack[i]
           /\ mainpc = Contexts[Len(Contexts)].pc
           /\ Len(stack) \in Nat
<1>1. [mask |-> intmask, pc |-> pc] \in Frame /\ stack \in Seq(Frame)
  BY DEF CpuTypeOK, Frame
<1>2. /\ Contexts \in Seq(Frame) /\ Len(Contexts) = Len(stack) + 1
      /\ Contexts[1] = [mask |-> intmask, pc |-> pc] /\ Len(stack) \in Nat
      /\ \A i \in 1..Len(stack) : Contexts[i + 1] = stack[i]
  BY <1>1 DEF Contexts
<1>3. mainpc = Contexts[Len(Contexts)].pc
  <2>1. CASE stack = <<>>
    BY <1>2, <2>1 DEF mainpc
  <2>2. CASE stack # <<>>
    <3>1. Len(stack) \in 1..Len(stack)
      BY <1>1, <2>2
    <3> QED BY <1>2, <2>2, <3>1 DEF mainpc
  <2> QED BY <2>1, <2>2
<1> QED BY <1>1, <1>2, <1>3

\* The main program runs alone, the others on top of it.
LEMMA WhoRuns ==
    ASSUME CpuTypeOK, Nested(Contexts)
    PROVE  /\ pc \in MainBody <=> stack = <<>>
           /\ pc \in MainLabels => intmask = IF pc \in Masked THEN 7 ELSE 0
           /\ pc \in HandlerLabels => intmask = HandlerLevel[pc]
           /\ mainpc \in MainBody
<1>1. /\ 1 \in 1..Len(Contexts) /\ Len(Contexts) \in 1..Len(Contexts)
      /\ 1 = Len(Contexts) <=> Len(stack) = 0
  BY ContextsAre
<1>2. /\ RunsAt(Contexts[1]) /\ (Contexts[1].pc \in MainBody <=> 1 = Len(Contexts))
      /\ Contexts[Len(Contexts)].pc \in MainBody
  BY <1>1 DEF Nested
<1>3. Len(stack) = 0 <=> stack = <<>>
  BY DEF CpuTypeOK
<1> QED BY <1>1, <1>2, <1>3, ContextsAre DEF RunsAt

-----------------------------------------------------------------------------
(* How each step changes the contexts.                                     *)

\* A step of what runs above the main program: it is where it was.
MainStays == mainpc' = mainpc /\ (Saying' => Saying \/ pc' = "audiosay")

\* A step at the same level.
LEMMA SameLevel ==
    ASSUME CpuTypeOK, CpuTypeOK', Nested(Contexts), stack' = stack, intmask' = intmask,
           RunsAt([mask |-> intmask, pc |-> pc']), pc' \in MainBody <=> pc \in MainBody,
           pc' \in HandlerLabels => pc \in HandlerLabels
    PROVE  Nested(Contexts)' /\ (pc \notin MainBody => MainStays)
<1> DEFINE f == [mask |-> intmask, pc |-> pc]
           g == [mask |-> intmask', pc |-> pc']
<1>1. f \in Frame /\ g \in Frame /\ stack \in Seq(Frame) /\ g.mask = f.mask
      /\ g.pc = pc' /\ f.pc = pc
  BY DEF CpuTypeOK, Frame
<1>2. Contexts = <<f>> \o stack /\ Contexts' = <<g>> \o stack
  BY DEF Contexts
<1>3. RunsAt(g)
  OBVIOUS
<1> HIDE DEF f, g
<1>4. Nested(Contexts')
  BY <1>1, <1>2, <1>3, GoesOn
<1>5. ASSUME pc \notin MainBody PROVE MainStays
  <2>1. stack # <<>>
    BY <1>5, WhoRuns
  <2>2. Saying' => Saying \/ pc' = "audiosay"
    <3>1. /\ Len(Contexts') = Len(Contexts) /\ Contexts'[1] = g
          /\ \A i \in 2..Len(Contexts) : Contexts'[i] = Contexts[i]
      BY <1>1, <1>2
    <3> QED BY <1>1, <3>1 DEF Saying
  <2> QED BY <2>1, <2>2 DEF MainStays, mainpc
<1> QED BY <1>4, <1>5 DEF Nested, RunsAt

\* An exception: the interrupted context is kept, the vector runs above it.
LEMMA Raised ==
    ASSUME CpuTypeOK, CpuTypeOK', NEW next \in Labels,
           NEW f \in Frame, f = [mask |-> intmask, pc |-> next],
           Nested(<<f>> \o stack), stack' = <<f>> \o stack,
           RunsAt([mask |-> intmask', pc |-> pc']), pc' \notin MainBody,
           intmask' >= intmask, pc' \in HandlerLabels => intmask' > intmask
    PROVE  /\ Nested(Contexts)'
           /\ mainpc' = IF stack = <<>> THEN next ELSE mainpc
           /\ Saying' => Saying \/ "audiosay" \in {pc', next}
<1> DEFINE g == [mask |-> intmask', pc |-> pc']
           s == <<f>> \o stack
<1>1. /\ g \in Frame /\ s \in Seq(Frame) /\ s # <<>> /\ s[1] = f
      /\ g.mask = intmask' /\ g.pc = pc' /\ f.mask = intmask /\ stack \in Seq(Frame)
  BY DEF CpuTypeOK, Frame
<1>2. Contexts' = <<g>> \o s
  BY DEF Contexts
<1>3. Nested(s) /\ RunsAt(g)
  OBVIOUS
<1>4. mainpc' = IF stack = <<>> THEN next ELSE mainpc
  <2>1. stack' # <<>> /\ Len(stack') = Len(stack) + 1
    BY <1>1
  <2>2. CASE stack = <<>>
    BY <1>1, <2>1, <2>2 DEF mainpc
  <2>3. CASE stack # <<>>
    <3>1. stack'[Len(stack) + 1] = stack[Len(stack)]
      BY <1>1, <2>3
    <3> QED BY <2>1, <2>3, <3>1 DEF mainpc
  <2> QED BY <2>2, <2>3
<1>5. Saying' => Saying \/ "audiosay" \in {pc', next}
  <2>1. /\ Len(Contexts') = Len(Contexts) + 1 /\ Contexts'[1] = g /\ Contexts'[2] = f
        /\ \A i \in 3..Len(Contexts) + 1 : i - 1 \in 1..Len(Contexts) /\ Contexts'[i] = Contexts[i - 1]
    BY <1>1 DEF Contexts
  <2> QED BY <1>1, <2>1 DEF Saying
<1> HIDE DEF g, s
<1>6. Nested(Contexts')
  BY <1>1, <1>2, <1>3, Pushed
<1> QED BY <1>4, <1>5, <1>6 DEF Nested, RunsAt

\* A return: what was interrupted goes on.
LEMMA Returned ==
    ASSUME CpuTypeOK, CpuTypeOK', Nested(Contexts), Rte
    PROVE  Nested(Contexts)' /\ mainpc' = mainpc /\ (Saying' => Saying)
<1> DEFINE f == [mask |-> intmask, pc |-> pc]
<1>1. /\ f \in Frame /\ stack \in Seq(Frame) /\ stack # <<>>
      /\ Contexts = <<f>> \o stack
  BY DEF CpuTypeOK, Frame, Rte, Contexts
<1>2. Contexts' = stack
  <2>1. Head(stack) \in Frame /\ stack = <<Head(stack)>> \o Tail(stack)
    BY <1>1
  <2>2. Head(stack) = [mask |-> Head(stack).mask, pc |-> Head(stack).pc]
    BY <2>1 DEF Frame
  <2>3. pc' = Head(stack).pc /\ intmask' = Head(stack).mask /\ stack' = Tail(stack)
    BY DEF Rte, MakeFromSR
  <2> QED BY <2>1, <2>2, <2>3 DEF Contexts
<1>3. Nested(stack)
  BY <1>1, Popped
<1>4. mainpc' = mainpc
  <2>1. mainpc = stack[Len(stack)].pc
    BY <1>1 DEF mainpc
  <2>2. pc' = stack[1].pc /\ stack' = Tail(stack)
    BY <1>1 DEF Rte
  <2>3. CASE Len(stack) = 1
    BY <1>1, <2>1, <2>2, <2>3 DEF mainpc
  <2>4. CASE Len(stack) # 1
    <3>1. Len(stack) \in Nat /\ Len(stack) > 1
      BY <1>1, <2>4
    <3>2. Len(Tail(stack)) = Len(stack) - 1
      BY <1>1
    <3>3. Tail(stack)[Len(stack) - 1] = stack[Len(stack)]
      BY <1>1, <3>1
    <3>4. Tail(stack) # <<>>
      <4> DEFINE rest == Len(Tail(stack))
      <4>1. rest = Len(stack) - 1 /\ Len(<<>>) = 0
        BY <3>2
      <4> HIDE DEF rest
      <4>2. rest # 0
        BY <3>1, <4>1
      <4> QED BY <4>1, <4>2, Zenon DEF rest
    <3> QED BY <2>1, <2>2, <3>2, <3>3, <3>4 DEF mainpc
  <2> QED BY <2>3, <2>4
<1>5. Saying' => Saying
  <2>1. \A i \in 1..Len(stack) : i + 1 \in 1..Len(Contexts) /\ stack[i] = Contexts[i + 1]
    BY <1>1
  <2> QED BY <1>2, <2>1 DEF Saying
<1> QED BY <1>2, <1>3, <1>4, <1>5 DEF Nested, RunsAt

-----------------------------------------------------------------------------
(* The steps of the main program.                                          *)

\* The actions that belong to the handler of the trap, and the others.
TrapHandler == ReadFrame \/ newstop \/ CompareFrame
MainProgram ==
    \/ Start \/ ClearRequests \/ UserLevel \/ MasterOn \/ init_interrupts
    \/ call_init_sound \/ StartOutput \/ TellOutput \/ Hook \/ EnableIcr \/ EnableInt
    \/ waittrap \/ PollInput \/ SetSubSong \/ inputmessagehandled
    \/ TestChange \/ Disable \/ ResetSong \/ Enable \/ RemoveIcr \/ Shift \/ ClearData \/ Unhook
    \/ TestEnd \/ Report \/ Tell \/ ClearEnd

\* Where the main program goes: a trap's is where it returns to.
LEMMA MainGoes ==
    ASSUME TypeOK, TypeOK', Nested(Contexts), MainProgram
    PROVE  /\ Nested(Contexts)'
           /\ mainpc = pc /\ pc \in MainBody
           /\ ~Saying /\ ~Saying'
           /\ pc \notin {"playloop", "tellout", "tell"} => mainpc' = pc'
           /\ waittrap => mainpc' = "poll"
           /\ TellOutput => mainpc' = "hook"
           /\ Tell => mainpc' = "remove"
<1> DEFINE Goal == /\ Nested(Contexts)' /\ ~Saying'
                   /\ pc \notin {"playloop", "tellout", "tell"} => mainpc' = pc'
                   /\ waittrap => mainpc' = "poll"
                   /\ TellOutput => mainpc' = "hook"
                   /\ Tell => mainpc' = "remove"
<1>1. pc \in MainBody
  BY DEF MainProgram, At, Start, ClearRequests, UserLevel, MasterOn, init_interrupts, call_init_sound,
         StartOutput, TellOutput, Hook, EnableIcr, EnableInt, waittrap, PollInput, SetSubSong,
         inputmessagehandled, TestChange, Disable, ResetSong, Enable, RemoveIcr, Shift, ClearData,
         Unhook, TestEnd, Report, Tell, ClearEnd, MainBody, MainLabels
<1>2. CpuTypeOK /\ CpuTypeOK'
  BY DEF TypeOK
<1>3. stack = <<>> /\ mainpc = pc /\ intmask = IF pc \in Masked THEN 7 ELSE 0
  BY <1>1, <1>2, WhoRuns, Kinds DEF mainpc
<1>4. ~Saying
  BY <1>1, <1>3, Kinds DEF Saying, Contexts, HandlerLabels, Level4Labels
<1>5. ASSUME NEW label \in MainBody, pc' = label, stack' = stack,
             intmask' = IF label \in Masked THEN 7 ELSE 0
      PROVE  Nested(Contexts)' /\ mainpc' = pc' /\ ~Saying'
  <2> DEFINE g == [mask |-> intmask', pc |-> pc']
  <2>1. /\ g \in Frame /\ g.pc \in MainBody /\ g.mask = intmask' /\ g.pc = label
        /\ Contexts' = <<g>> \o <<>>
    BY <1>2, <1>3, <1>5 DEF CpuTypeOK, Frame, Contexts
  <2>2. RunsAt(g)
    BY <1>5, <2>1, Kinds DEF RunsAt
  <2> HIDE DEF g
  <2>3. Nested(Contexts')
    BY <2>1, <2>2, Alone
  <2>4. mainpc' = pc'
    BY <1>3, <1>5 DEF mainpc
  <2>5. ~Saying'
    BY <2>1, Kinds DEF Saying, HandlerLabels, Level4Labels
  <2> QED BY <2>3, <2>4, <2>5 DEF Nested, RunsAt
<1>6. ASSUME NEW next \in MainBody \ Masked, NEW vector \in {"wait", "rte"},
             pc \notin Masked, Trap(vector, next)
      PROVE  Nested(Contexts)' /\ mainpc' = next /\ ~Saying'
  <2> DEFINE f == [mask |-> intmask, pc |-> next]
  <2>1. next \in Labels /\ next \notin HandlerLabels
    BY KnownLabels, Kinds
  <2>2. /\ f \in Frame /\ f.mask = 0 /\ f.pc = next /\ intmask = 0
        /\ stack' = <<f>> \o stack /\ intmask' = 0 /\ pc' = vector
    BY <1>2, <1>3, <1>6, <2>1 DEF CpuTypeOK, Frame, Trap
  <2>3. RunsAt(f)
    BY <2>1, <2>2 DEF RunsAt
  <2>4. Nested(<<f>> \o stack)
    BY <1>3, <1>6, <2>2, <2>3, Alone
  <2>5. RunsAt([mask |-> intmask', pc |-> pc']) /\ pc' \notin MainBody /\ pc' \notin HandlerLabels
    BY <1>6, <2>2, Kinds
       DEF RunsAt, MainBody, Masked, HandlerLabels, Level2Labels, Level3Labels, Level4Labels
  <2>6. Nested(Contexts)' /\ mainpc' = next
    <3>1. f = [mask |-> intmask, pc |-> next]
      OBVIOUS
    <3> HIDE DEF f
    <3> QED BY <1>2, <1>3, <2>1, <2>2, <2>4, <2>5, <3>1, Raised
  <2>7. ~Saying'
    <3>1. /\ Len(Contexts') = 2 /\ Contexts'[1].pc = vector /\ Contexts'[2].pc = next
      BY <1>3, <2>2 DEF Contexts
    <3> QED BY <1>6, <2>1, <3>1 DEF Saying, HandlerLabels, Level4Labels
  <2> QED BY <2>6, <2>7
<1>7. CASE Start \/ ClearRequests \/ UserLevel
  <2>1. /\ pc' \in MainBody /\ stack' = stack /\ intmask' = IF pc' \in Masked THEN 7 ELSE 0
    BY <1>3, <1>7 DEF Start, ClearRequests, UserLevel, At, INTENA, INTREQ, MoveToSR, MakeFromSR, Execute,
                      MainBody, MainLabels, Masked
  <2>2. ~waittrap /\ ~TellOutput /\ ~Tell
    BY <1>7 DEF Start, ClearRequests, UserLevel, At, waittrap, TellOutput, Tell
  <2> QED BY <1>1, <1>3, <1>4, <1>5, <2>1, <2>2
<1>8. CASE waittrap \/ TellOutput \/ Tell
  <2>1. CASE waittrap
    <3>1. "poll" \in MainBody \ Masked /\ pc \notin Masked /\ ~TellOutput /\ ~Tell
      BY <2>1 DEF waittrap, At, MainBody, MainLabels, Masked, TellOutput, Tell
    <3>2. Trap("wait", "poll")
      BY <2>1 DEF waittrap
    <3> QED BY <1>1, <1>3, <1>4, <1>6, <2>1, <3>1, <3>2 DEF waittrap, At
  <2>2. CASE TellOutput
    <3>1. "hook" \in MainBody \ Masked /\ pc \notin Masked /\ ~waittrap /\ ~Tell
      BY <2>2 DEF TellOutput, At, MainBody, MainLabels, Masked, waittrap, Tell
    <3>2. Trap("rte", "hook")
      BY <2>2 DEF TellOutput
    <3> QED BY <1>1, <1>3, <1>4, <1>6, <2>2, <3>1, <3>2 DEF TellOutput, At
  <2>3. CASE Tell
    <3>1. "remove" \in MainBody \ Masked /\ pc \notin Masked /\ ~TellOutput /\ ~waittrap
      BY <2>3 DEF Tell, At, MainBody, MainLabels, Masked, TellOutput, waittrap
    <3>2. Trap("rte", "remove")
      BY <2>3 DEF Tell
    <3> QED BY <1>1, <1>3, <1>4, <1>6, <2>3, <3>1, <3>2 DEF Tell, At
  <2> QED BY <1>8, <2>1, <2>2, <2>3
<1>9. ASSUME stack' = stack, intmask' = intmask, pc' \in MainBody, pc \notin Masked, pc' \notin Masked,
             pc \notin {"playloop", "tellout", "tell"}
      PROVE  Goal
  <2>1. ~waittrap /\ ~TellOutput /\ ~Tell
    BY <1>9 DEF At, waittrap, TellOutput, Tell
  <2> QED BY <1>3, <1>5, <1>9, <2>1
<1> HIDE DEF Goal
<1>10. ASSUME MasterOn \/ init_interrupts \/ call_init_sound \/ EnableInt \/ Disable \/ Enable
       PROVE  Goal
  <2>1. score.back \in {"playloop", "enable"}
    BY DEF TypeOK, ScoreMemory
  <2> QED BY <1>9, <1>10, <2>1
          DEF MasterOn, init_interrupts, call_init_sound, EnableInt, Disable, Enable, At, INTENA, Execute,
              MainBody, MainLabels, Masked
<1>11. ASSUME StartOutput \/ Hook \/ EnableIcr \/ PollInput \/ SetSubSong \/ inputmessagehandled
       PROVE  Goal
  BY <1>9, <1>11
     DEF StartOutput, Hook, EnableIcr, PollInput, SetSubSong, inputmessagehandled, At, Step, Execute,
         MainBody, MainLabels, Masked
<1>12. ASSUME TestChange \/ ResetSong \/ RemoveIcr \/ Shift \/ ClearData \/ Unhook
       PROVE  Goal
  BY <1>9, <1>12
     DEF TestChange, ResetSong, RemoveIcr, Shift, ClearData, Unhook, At, Step, Execute,
         MainBody, MainLabels, Masked
<1>13. ASSUME TestEnd \/ Report \/ ClearEnd
       PROVE  Goal
  BY <1>9, <1>13 DEF TestEnd, Report, ClearEnd, At, Step, Execute, MainBody, MainLabels, Masked
<1>14. Goal
  BY <1>7, <1>8, <1>10, <1>11, <1>12, <1>13 DEF MainProgram, Goal
<1> QED BY <1>1, <1>3, <1>4, <1>14 DEF Goal

-----------------------------------------------------------------------------
(* The steps of the handlers, of the CPU and of the chips.                 *)

\* A handler, or the trap's, goes on or returns; the main program waits.
LEMMA HandlerGoes ==
    ASSUME TypeOK, TypeOK', Nested(Contexts), TrapHandler \/ Handler
    PROVE  Nested(Contexts)' /\ mainpc' = mainpc /\ (Saying' => Saying \/ (AcknowledgeAudio /\ score.virgin))
<1> DEFINE Goal == /\ Nested(Contexts)' /\ mainpc' = mainpc
                   /\ Saying' => Saying \/ (AcknowledgeAudio /\ score.virgin)
<1> USE DEF At, Execute
<1>1. CpuTypeOK /\ CpuTypeOK'
  BY DEF TypeOK
<1>2. ASSUME stack' = stack, intmask' = intmask, pc \notin MainBody, pc' \notin MainBody,
             pc' \in HandlerLabels => pc \in HandlerLabels /\ HandlerLevel[pc'] = HandlerLevel[pc],
             pc' \in MainLabels => pc \in MainLabels,
             pc' = "audiosay" => AcknowledgeAudio /\ score.virgin
      PROVE  Goal
  <2>1. /\ pc \in MainLabels => intmask = 0
        /\ pc \in HandlerLabels => intmask = HandlerLevel[pc]
    BY <1>1, <1>2, WhoRuns, Kinds
  <2>2. RunsAt([mask |-> intmask, pc |-> pc'])
    BY <1>2, <2>1, Kinds DEF RunsAt
  <2> QED BY <1>1, <1>2, <2>2, SameLevel DEF MainStays
<1> HIDE DEF Goal
<1>3. ASSUME ReadFrame \/ CompareFrame \/ newstop PROVE Goal
  <2>1. pc \in MainLabels \ MainBody /\ intmask = 0
    BY <1>1, <1>3, WhoRuns DEF ReadFrame, CompareFrame, newstop, MainLabels, MainBody, Masked
  <2>2. pc' \in (MainLabels \ MainBody) \cup {"rte"} /\ stack' = stack /\ intmask' = 0
    BY <1>3, <2>1 DEF ReadFrame, CompareFrame, newstop, Step, Stop, MakeFromSR, MainLabels, MainBody
  <2>3. pc' \notin HandlerLabels /\ pc' \notin MainBody /\ pc' # "audiosay"
    BY <2>2, Kinds DEF MainBody, MainLabels
  <2>4. pc' \in MainLabels => pc \in MainLabels
    BY <2>1
  <2> QED BY <1>2, <2>1, <2>2, <2>3, <2>4
<1>4. ASSUME ReturnFromException PROVE Goal
  BY <1>1, <1>4, Returned DEF ReturnFromException, Goal
<1>5. ASSUME Acknowledge \/ ReadIcr \/ Player PROVE Goal
  <2>1. /\ stack' = stack /\ intmask' = intmask
        /\ pc \in Level2Labels /\ pc' \in Level2Labels \cup {"rte"}
    BY <1>5 DEF Acknowledge, ReadIcr, Player, Step, INTREQ, Level2Labels
  <2> QED BY <1>2, <2>1, Kinds DEF HandlerLabels, HandlerLevel, Level2Labels
<1>6. ASSUME mylevel3 \/ CountFrame \/ ClearFrame PROVE Goal
  <2>1. /\ stack' = stack /\ intmask' = intmask
        /\ pc \in Level3Labels /\ pc' \in Level3Labels \cup {"rte"}
    BY <1>6 DEF mylevel3, CountFrame, ClearFrame, Step, INTREQ, Level3Labels
  <2> QED BY <1>2, <2>1, Kinds DEF HandlerLabels, HandlerLevel, Level2Labels, Level3Labels
<1>7. ASSUME mylevel4 \/ AcknowledgeAudio \/ put_string \/ MoreAudio PROVE Goal
  <2>1. /\ stack' = stack /\ intmask' = intmask
        /\ pc \in Level4Labels /\ pc' \in Level4Labels \cup {"rte"}
        /\ pc' = "audiosay" => AcknowledgeAudio /\ score.virgin
    BY <1>7 DEF mylevel4, AcknowledgeAudio, put_string, MoreAudio, Step, INTREQ, Level4Labels
  <2> QED BY <1>2, <2>1, Kinds DEF HandlerLabels, HandlerLevel, Level2Labels, Level3Labels, Level4Labels
<1>8. ASSUME TellString PROVE Goal
  <2> DEFINE f == [mask |-> intmask, pc |-> "audiomore"]
  <2>1. pc = "audiotell" /\ Trap("rte", "audiomore")
    BY <1>8 DEF TellString
  <2>2. /\ {"audiotell", "audiomore"} \subseteq HandlerLabels /\ "audiomore" \in Labels
        /\ HandlerLevel["audiotell"] = 4 /\ HandlerLevel["audiomore"] = 4
    BY KnownLabels DEF HandlerLabels, HandlerLevel, Level2Labels, Level3Labels, Level4Labels
  <2>3. intmask = 4 /\ stack # <<>>
    BY <1>1, <2>1, <2>2, WhoRuns, Kinds
  <2>4. /\ f \in Frame /\ f.mask = intmask /\ f.pc = "audiomore" /\ stack \in Seq(Frame)
        /\ [mask |-> intmask, pc |-> pc] \in Frame
    BY <1>1, <2>2 DEF CpuTypeOK, Frame
  <2>5. stack' = <<f>> \o stack /\ pc' = "rte" /\ intmask' = intmask
    BY <2>1 DEF Trap
  <2>6. RunsAt(f)
    BY <2>2, <2>3, <2>4, Kinds DEF RunsAt
  <2>7. RunsAt([mask |-> intmask', pc |-> pc']) /\ pc' \notin MainBody /\ pc' \notin HandlerLabels
    BY <2>5, Kinds DEF RunsAt
  <2>8. f = [mask |-> intmask, pc |-> "audiomore"]
    OBVIOUS
  <2> HIDE DEF f
  <2>9. Nested(<<f>> \o stack)
    BY <2>1, <2>2, <2>4, <2>6, Kinds, GoesOn DEF Contexts
  <2>10. intmask' >= intmask
    BY <2>3, <2>5
  <2> QED BY <1>1, <2>2, <2>3, <2>4, <2>5, <2>7, <2>8, <2>9, <2>10, Raised DEF Goal
<1>9. Goal
  BY <1>3, <1>4, <1>5, <1>6, <1>7, <1>8 DEF TrapHandler, Handler
<1> QED BY <1>9 DEF Goal

\* An interrupt is taken above what runs, which it finds as it was.
LEMMA Interrupted ==
    ASSUME CpuTypeOK, CpuTypeOK', Nested(Contexts), intlev > intmask, Interrupt(intlev)
    PROVE  Nested(Contexts)' /\ mainpc' = mainpc /\ (Saying' => Saying)
<1> DEFINE f == [mask |-> intmask, pc |-> pc]
<1>1. intlev \in 2..4 /\ Vector[intlev] \in {"level2", "level3", "level4"}
      /\ HandlerLevel[Vector[intlev]] = intlev /\ Vector[intlev] \in HandlerLabels
  <2>1. Pending # {}
    BY DeliverableIsAbove DEF Deliverable
  <2>2. \E s \in Sources : Level[s] = intlev
    BY <2>1, IntlevIsHighest DEF Pending, CpuTypeOK
  <2>3. intlev \in 2..4 /\ Vector[intlev] = IF intlev = 2 THEN "level2"
                                           ELSE IF intlev = 3 THEN "level3" ELSE "level4"
    BY <2>2, ScoreAssumption
  <2> QED BY <2>3 DEF HandlerLevel, HandlerLabels, Level2Labels, Level3Labels, Level4Labels
<1>2. /\ f \in Frame /\ f = [mask |-> intmask, pc |-> pc] /\ pc \in Labels
      /\ Nested(<<f>> \o stack)
  BY ContextsAre DEF Contexts, CpuTypeOK
<1>3. stack' = <<f>> \o stack /\ pc' = Vector[intlev] /\ intmask' = intlev
  BY DEF Interrupt
<1>4. RunsAt([mask |-> intmask', pc |-> pc'])
  BY <1>1, <1>3, Kinds DEF RunsAt
<1>5. pc' \notin MainBody /\ intmask' > intmask /\ intmask' >= intmask /\ pc' # "audiosay"
  BY <1>1, <1>3, Kinds DEF CpuTypeOK
<1> HIDE DEF f
<1>6. /\ Nested(Contexts)'
      /\ mainpc' = IF stack = <<>> THEN pc ELSE mainpc
      /\ Saying' => Saying \/ "audiosay" \in {pc', pc}
  BY <1>2, <1>3, <1>4, <1>5, Raised
<1>7. pc = "audiosay" => Saying
  BY ContextsAre DEF Saying
<1> QED BY <1>5, <1>6, <1>7 DEF mainpc

\* Nothing else of the CPU or the chips moves the program.
LEMMA OthersGo ==
    ASSUME TypeOK, TypeOK', Nested(Contexts),
           Special \/ vsync_handler \/ AudioPass \/ Underflow \/ change_subsong \/ UNCHANGED vars
    PROVE  Nested(Contexts)' /\ mainpc' = mainpc /\ (Saying' => Saying)
<1>1. CASE UNCHANGED frameVars
  <2>1. Contexts' = Contexts /\ mainpc' = mainpc
    BY <1>1 DEF Contexts, mainpc, frameVars
  <2> QED BY <2>1 DEF Saying, Nested, RunsAt
<1>2. CASE ~UNCHANGED frameVars
  <2>1. Special
    BY <1>2 DEF vsync_handler, AudioPass, Underflow, change_subsong, vars, cpuVars, frameVars, Request
  <2>2. intlev > intmask /\ Interrupt(intlev)
    BY <1>2, <2>1 DEF Special, do_specialties, Running, Stopped
  <2> QED BY <2>2, Interrupted DEF TypeOK
<1> QED BY <1>1, <1>2

-----------------------------------------------------------------------------
(* Song ends and requests for a subsong.                                   *)

Told == EndInv /\ RequestInv

LEMMA MemoryFields ==
    ASSUME TypeOK
    PROVE  /\ score \in ScoreMemory /\ mail \in Mailbox /\ hist \in History
           /\ score.over \in BOOLEAN /\ score.virgin \in BOOLEAN /\ score.change \in BOOLEAN
           /\ score.first \in BOOLEAN
           /\ hist.told \in BOOLEAN /\ hist.late \in BOOLEAN /\ mail.in \in BOOLEAN
           /\ hist.said \in BOOLEAN /\ hist.replaced \in BOOLEAN
           /\ score.cursubsong \in Subsongs /\ mail.wanted \in Subsongs
BY DEF TypeOK, ScoreMemory, Mailbox, History

LEMMA MainKeeps ==
    ASSUME ScoreInv, TypeOK', MainProgram
    PROVE  Told'
<1> USE DEF Told, EndInv, RequestInv, SettingUp, AfterEnd, At, ScoreMemory, Mailbox, History
<1>1. /\ TypeOK /\ mainpc = pc /\ ~Saying'
      /\ pc \notin {"playloop", "tellout", "tell"} => mainpc' = pc'
      /\ waittrap => mainpc' = "poll"
      /\ TellOutput => mainpc' = "hook"
      /\ Tell => mainpc' = "remove"
      /\ Told
  BY MainGoes DEF ScoreInv
<1>2. CASE Start \/ ClearRequests \/ UserLevel \/ MasterOn
  BY <1>1, <1>2, MemoryFields DEF Start, ClearRequests, UserLevel, MasterOn, INTENA, INTREQ, MoveToSR
<1>3. CASE init_interrupts
  BY <1>1, <1>3, MemoryFields DEF init_interrupts, INTENA
<1>4. CASE call_init_sound
  BY <1>1, <1>4, MemoryFields DEF call_init_sound, INTENA
<1>5. CASE StartOutput
  BY <1>1, <1>5, MemoryFields DEF StartOutput, Step
<1>6. CASE TellOutput
  BY <1>1, <1>6, MemoryFields DEF TellOutput, uade_get_amiga_message
<1>7. CASE Hook \/ EnableIcr
  BY <1>1, <1>7, MemoryFields DEF Hook, EnableIcr, Step
<1>8. CASE EnableInt
  BY <1>1, <1>8, MemoryFields DEF EnableInt, INTENA
<1>9. CASE waittrap
  BY <1>1, <1>9, MemoryFields DEF waittrap
<1>10. CASE PollInput
  BY <1>1, <1>10, MemoryFields DEF PollInput, Step
<1>11. CASE SetSubSong
  BY <1>1, <1>11, MemoryFields DEF SetSubSong, Step
<1>12. CASE inputmessagehandled
  BY <1>1, <1>12, MemoryFields DEF inputmessagehandled, Step
<1>13. CASE TestChange
  BY <1>1, <1>13, MemoryFields DEF TestChange, Step
<1>14. CASE Disable \/ Enable
  BY <1>1, <1>14, MemoryFields DEF Disable, Enable, INTENA
<1>15. CASE ResetSong
  BY <1>1, <1>15, MemoryFields DEF ResetSong, Step
<1>16. CASE RemoveIcr \/ Shift \/ ClearData
  BY <1>1, <1>16, MemoryFields DEF RemoveIcr, Shift, ClearData, Step
<1>17. CASE Unhook
  BY <1>1, <1>17, MemoryFields DEF Unhook, Step
<1>18. CASE TestEnd \/ Report
  BY <1>1, <1>18, MemoryFields DEF TestEnd, Report, Step
<1>19. CASE Tell
  BY <1>1, <1>19, MemoryFields DEF Tell, uade_get_amiga_message
<1>20. CASE ClearEnd
  BY <1>1, <1>20, MemoryFields DEF ClearEnd, Step
<1> QED BY <1>2, <1>3, <1>4, <1>5, <1>6, <1>7, <1>8, <1>9, <1>10, <1>11, <1>12, <1>13, <1>14, <1>15,
           <1>16, <1>17, <1>18, <1>19, <1>20 DEF MainProgram

\* There was one handler about to say it, and now there is none.
LEMMA SaidOnce ==
    ASSUME ScoreInv, TypeOK', put_string
    PROVE  ~Saying'
<1>1. CpuTypeOK /\ CpuTypeOK' /\ Nested(Contexts)
  BY DEF ScoreInv, TypeOK
<1>2. pc = "audiosay" /\ pc' = "audiotell" /\ stack' = stack
  BY DEF put_string, At, Step, Execute
<1>3. "audiosay" \in HandlerLabels /\ HandlerLevel["audiosay"] = 4
  BY Kinds DEF HandlerLabels, HandlerLevel, Level2Labels, Level3Labels, Level4Labels
<1>4. ASSUME NEW i \in 1..Len(stack), stack[i].pc = "audiosay" PROVE FALSE
  <2>1. /\ 1 \in 1..Len(Contexts) /\ i + 1 \in 1..Len(Contexts) /\ 1 < i + 1
        /\ Contexts[1].pc = "audiosay" /\ Contexts[i + 1].pc = "audiosay"
    BY <1>1, <1>2, <1>4, ContextsAre
  <2>2. /\ RunsAt(Contexts[1]) /\ RunsAt(Contexts[i + 1])
        /\ Contexts[1].mask > Contexts[i + 1].mask
    BY <1>1, <1>3, <2>1 DEF Nested
  <2> QED BY <1>3, <2>1, <2>2 DEF RunsAt
<1>5. ASSUME NEW i \in 1..Len(Contexts'), Contexts'[i].pc = "audiosay" PROVE FALSE
  <2>1. /\ Contexts' = <<[mask |-> intmask', pc |-> "audiotell"]>> \o stack
        /\ Len(stack) \in Nat /\ stack \in Seq(Frame)
    BY <1>1, <1>2 DEF Contexts, CpuTypeOK
  <2>2. Contexts'[1].pc = "audiotell" /\ Len(Contexts') = Len(stack) + 1
    BY <2>1
  <2>3. i \in Int /\ i # 1
    BY <1>5, <2>2
  <2>4. i - 1 \in 1..Len(stack) /\ Contexts'[i] = stack[i - 1]
    BY <2>1, <2>2, <2>3
  <2> QED BY <1>4, <1>5, <2>4
<1> QED BY <1>5 DEF Saying

LEMMA HandlerKeeps ==
    ASSUME ScoreInv, TypeOK', TrapHandler \/ Handler
    PROVE  Told'
<1> USE DEF Told, EndInv, RequestInv, At, ScoreMemory, Mailbox, History
<1>1. /\ TypeOK /\ mainpc' = mainpc /\ Told /\ (Saying' => Saying \/ (AcknowledgeAudio /\ score.virgin))
      /\ pc = "audiosay" => Saying
  BY HandlerGoes, ContextsAre DEF ScoreInv, TypeOK, Saying
<1>2. CASE ReadFrame \/ newstop \/ CompareFrame
  BY <1>1, <1>2, MemoryFields DEF ReadFrame, newstop, CompareFrame, AcknowledgeAudio
<1>3. CASE ReturnFromException \/ Acknowledge \/ ReadIcr \/ Player
  BY <1>1, <1>3, MemoryFields
     DEF ReturnFromException, Acknowledge, ReadIcr, Player, AcknowledgeAudio
<1>4. CASE mylevel3 \/ CountFrame \/ ClearFrame \/ mylevel4 \/ MoreAudio
  BY <1>1, <1>4, MemoryFields
     DEF mylevel3, CountFrame, ClearFrame, mylevel4, MoreAudio, AcknowledgeAudio
<1>5. CASE AcknowledgeAudio
  BY <1>1, <1>5, MemoryFields DEF AcknowledgeAudio
<1>6. CASE put_string
  <2>1. ~Saying' /\ ~hist.said
    BY <1>1, <1>6, SaidOnce DEF put_string
  <2>2. /\ score' = score /\ hist'.told = hist.told /\ hist'.late = hist.late
        /\ hist'.playing = hist.playing /\ hist'.said
        /\ hist.replaced => hist'.replaced
        /\ mainpc = "tell" => hist'.replaced
        /\ mail'.in = mail.in /\ mail'.wanted = mail.wanted
    BY <1>1, <1>6, <2>1, MemoryFields DEF put_string
  <2>3. ~score.virgin
    BY <1>1, <1>6 DEF put_string
  <2> QED BY <1>1, <2>1, <2>2, <2>3
<1>7. CASE TellString
  BY <1>1, <1>7, MemoryFields DEF TellString, uade_get_amiga_message, AcknowledgeAudio
<1> QED BY <1>2, <1>3, <1>4, <1>5, <1>6, <1>7 DEF TrapHandler, Handler

LEMMA OthersKeep ==
    ASSUME ScoreInv, TypeOK',
           Special \/ vsync_handler \/ AudioPass \/ Underflow \/ change_subsong \/ UNCHANGED vars
    PROVE  Told'
<1> USE DEF Told, EndInv, RequestInv, ScoreMemory, Mailbox, History
<1>1. TypeOK /\ mainpc' = mainpc /\ Told /\ (Saying' => Saying)
  BY OthersGo DEF ScoreInv
<1>2. CASE change_subsong
  <2>1. PICK s \in Subsongs : mail' = [mail EXCEPT !.wanted = s, !.in = TRUE]
    BY <1>2 DEF change_subsong
  <2>2. score' = score /\ hist' = [hist EXCEPT !.late = mainpc = "clear"]
    BY <1>2 DEF change_subsong
  <2>3. mail'.in /\ mail'.out = mail.out /\ hist'.told = hist.told /\ hist'.playing = hist.playing
        /\ hist'.said = hist.said /\ hist'.replaced = hist.replaced
        /\ (mainpc = "clear" => hist'.late)
    BY <1>1, <2>1, <2>2, MemoryFields
  <2> QED BY <1>1, <2>2, <2>3
<1>3. CASE Special \/ vsync_handler \/ AudioPass \/ Underflow \/ UNCHANGED vars
  <2>1. score' = score /\ mail' = mail /\ hist' = hist
    BY <1>3 DEF Special, vsync_handler, AudioPass, Underflow, vars
  <2> QED BY <1>1, <2>1
<1> QED BY <1>2, <1>3

LEMMA ScoreInvInit == Init => ScoreInv
<1> SUFFICES ASSUME Init PROVE ScoreInv
  OBVIOUS
<1>1. TypeOK /\ CpuTypeOK
  BY TypeInit DEF TypeOK
<1>2. stack = <<>> /\ pc = "start" /\ intmask = 7
  BY DEF Init, CpuInit
<1>3. pc \in MainBody /\ pc \in Masked /\ pc # "audiosay"
  BY <1>2 DEF MainBody, MainLabels, Masked
<1>4. Nested(Contexts)
  <2> DEFINE f == [mask |-> intmask, pc |-> pc]
  <2>1. f \in Frame /\ f.mask = 7 /\ f.pc = pc /\ Contexts = <<f>> \o <<>>
    BY <1>1, <1>2, ContextsAre DEF Contexts
  <2>2. RunsAt(f)
    BY <1>3, <2>1, Kinds DEF RunsAt
  <2> HIDE DEF f
  <2> QED BY <1>3, <2>1, <2>2, Alone
<1>5. mainpc = "start" /\ ~Saying
  BY <1>2, <1>3 DEF mainpc, Saying, Contexts
<1>6. /\ score.over = FALSE /\ mail.wanted = score.cursubsong
      /\ score.cursubsong = hist.playing /\ hist.said = FALSE
  BY DEF Init
<1>7. EndInv /\ RequestInv
  BY <1>5, <1>6 DEF EndInv, RequestInv
<1> QED BY <1>1, <1>4, <1>7 DEF ScoreInv

LEMMA ScoreInvStep == ScoreInv /\ [Next]_vars => ScoreInv'
<1> SUFFICES ASSUME ScoreInv, [Next]_vars PROVE ScoreInv'
  OBVIOUS
<1>1. TypeOK /\ TypeOK' /\ Nested(Contexts)
  BY TypeStep DEF ScoreInv
<1>2. CASE MainProgram
  BY <1>1, <1>2, MainGoes, MainKeeps DEF ScoreInv, Told
<1>3. CASE TrapHandler \/ Handler
  BY <1>1, <1>3, HandlerGoes, HandlerKeeps DEF ScoreInv, Told
<1>4. CASE Special \/ vsync_handler \/ AudioPass \/ Underflow \/ change_subsong \/ UNCHANGED vars
  BY <1>1, <1>4, OthersGo, OthersKeep DEF ScoreInv, Told
<1> QED BY <1>2, <1>3, <1>4 DEF Next, Main, MainProgram, TrapHandler

\* At whatever instruction the handlers and the events come: contexts nest by
\* level above the main program, which keeps its own account of song ends and of
\* the subsong asked for.
THEOREM ScoreInvariant == Spec => []ScoreInv
BY ScoreInvInit, ScoreInvStep, PTL DEF Spec

\* Handlers interrupt those of lower levels only, none is entered again before it
\* is done, also across traps and the STOP that lowers the mask.
THEOREM HandlersNest == Spec => []NestedByLevel
<1>1. ScoreInv => NestedByLevel
  <2> SUFFICES ASSUME ScoreInv, NEW i \in DOMAIN Places, NEW j \in i+1..Len(Places),
                      {Places[i], Places[j]} \subseteq HandlerLabels
               PROVE  HandlerLevel[Places[i]] > HandlerLevel[Places[j]]
    BY DEF NestedByLevel
  <2>1. CpuTypeOK /\ Nested(Contexts)
    BY DEF ScoreInv, TypeOK
  <2>2. /\ Len(Places) = Len(Contexts) /\ DOMAIN Places = 1..Len(Contexts)
        /\ \A k \in 1..Len(Contexts) : Places[k] = Contexts[k].pc
    <3> DEFINE below == [k \in 1..Len(stack) |-> stack[k].pc]
    <3>1. Len(stack) \in Nat /\ stack \in Seq(Frame) /\ pc \in Labels
      BY <2>1 DEF CpuTypeOK
    <3>2. \A k \in 1..Len(stack) : stack[k] \in Frame
      BY <3>1
    <3>3. \A k \in 1..Len(stack) : stack[k].pc \in Labels
      BY <3>2 DEF Frame
    <3>4. below \in Seq(Labels) /\ Len(below) = Len(stack)
          /\ \A k \in 1..Len(stack) : below[k] = stack[k].pc
      BY <3>1, <3>3
    <3>5. Places = <<pc>> \o below
      BY DEF Places
    <3> HIDE DEF below
    <3>6. /\ Len(Places) = Len(stack) + 1 /\ DOMAIN Places = 1..Len(stack) + 1 /\ Places[1] = pc
          /\ \A k \in 1..Len(stack) : Places[k + 1] = below[k]
      BY <3>1, <3>4, <3>5
    <3>7. ASSUME NEW k \in 1..Len(Contexts) PROVE Places[k] = Contexts[k].pc
      <4>1. CASE k = 1
        BY <2>1, <3>6, <4>1, ContextsAre
      <4>2. CASE k # 1
        <5>1. k - 1 \in 1..Len(stack) /\ k = (k - 1) + 1
          BY <2>1, <4>2, ContextsAre
        <5>2. PICK n \in 1..Len(stack) : k = n + 1
          BY <5>1
        <5>3. Places[n + 1] = stack[n].pc
          BY <3>4, <3>6, <5>2
        <5>4. Contexts[n + 1] = stack[n]
          BY <2>1, <5>2, ContextsAre
        <5> QED BY <5>2, <5>3, <5>4
      <4> QED BY <4>1, <4>2
    <3> QED BY <2>1, <3>6, <3>7, ContextsAre
  <2>3. i \in 1..Len(Contexts) /\ j \in 1..Len(Contexts) /\ i < j
    BY <2>2
  <2>4. /\ RunsAt(Contexts[i]) /\ RunsAt(Contexts[j])
        /\ Contexts[i].pc \in HandlerLabels => Contexts[i].mask > Contexts[j].mask
    BY <2>1, <2>3 DEF Nested
  <2> QED BY <2>2, <2>3, <2>4 DEF RunsAt
<1> QED BY <1>1, ScoreInvariant, PTL

\* The subsong asked for last is played or on its way, also when it is asked for
\* while another one is being set up, or after the end of a song.
THEOREM RequestsAreKept == Spec => []RequestIsKept
<1>1. ScoreInv => RequestIsKept
  BY DEF ScoreInv, RequestInv, RequestIsKept
<1> QED BY <1>1, ScoreInvariant, PTL

\* When the score waits after the end of a song, the emulator has been told of it,
\* or the first message of an audio interrupt of that song was written over it
\* before the trap.
THEOREM SongEndsAreTold == Spec => []SongEndIsTold
<1>1. ScoreInv => SongEndIsTold
  BY DEF ScoreInv, EndInv, SongEndIsTold
<1> QED BY <1>1, ScoreInvariant, PTL

-----------------------------------------------------------------------------
(* The inductive invariant of the player's routine.                        *)

Place(s, labels) == \E i \in 1..Len(s) : s[i].pc \in labels

\* How many interrupts are pending.
OneIf(source) == IF source \in Pending THEN 1 ELSE 0
Load == OneIf("PORTS") + OneIf("VERTB") + OneIf("AUD")

\* The places of handlers that have not acknowledged their request, which is
\* therefore still there.
Serves == [level2 |-> "PORTS", level3 |-> "VERTB", count |-> "VERTB", vclear |-> "VERTB",
           level4 |-> "AUD", audioack |-> "AUD"]
Owners(source) == {label \in DOMAIN Serves : Serves[label] = source}
Unserved == Place(Contexts, DOMAIN Serves)
Requested ==
    /\ \A source \in Sources : Place(Contexts, Owners(source)) => source \in Pending
    /\ Place(Contexts, HandlerLabels) => master

\* From the end of a song to the instruction that clears the vector, each
\* instruction of the main program lets an interrupt in.  So each that was
\* executed since the timer's interrupt is pending cost an event more: that many
\* more than are pending have come since none was.
Margin == [report |-> -3, tell |-> -2, remove |-> -1, shift |-> 0, datas |-> 1, unhook |-> 2]
TimerOff == {"shift", "datas", "unhook"}
Counts == mainpc \in DOMAIN Margin /\ (mainpc \in TimerOff => "PORTS" \in Pending)
Came(n) == burst >= Load + Margin[mainpc] + n
CountInv ==
    Counts =>
        /\ Came(0)
        /\ intmask = 0 /\ (phase = "execute" \/ ~doint) => Came(1)
        /\ intmask # 0 => Came(1) \/ Unserved

\* The timer is enabled only while the routine is there.
TimerInv ==
    /\ cia.imask => score.hooked
    /\ mainpc \in {"enableicr", "enableint", "enable"} => score.hooked
    /\ mainpc \in TimerOff => ~cia.imask
    /\ mainpc \in Masked \cup {"master", "vectors"} => "PORTS" \notin intena
    /\ mainpc \in TimerOff \cup {"reset", "remove"} => score.over \/ ~master

\* Its interrupt is pending without the routine only after four events; the CPU
\* stops where no handler is under way.
RoutineInv ==
    /\ "PORTS" \in Pending => score.hooked \/ burst >= 4
    /\ Place(Contexts, Level2Labels) => score.hooked \/ burst >= 4
    /\ stop => intmask = 0 /\ phase = "special"

ZeroInv == Requested /\ CountInv /\ TimerInv /\ RoutineInv

-----------------------------------------------------------------------------
(* Lemmas about places and about what is pending.                          *)

LEMMA PlaceFirst ==
    ASSUME NEW s \in Seq(Frame), NEW f \in Frame, NEW labels
    PROVE  Place(<<f>> \o s, labels) <=> f.pc \in labels \/ Place(s, labels)
<1> DEFINE t == <<f>> \o s
<1>1. /\ Len(t) = Len(s) + 1 /\ t[1] = f /\ Len(s) \in Nat
      /\ \A i \in 1..Len(s) : t[i + 1] = s[i]
      /\ \A i \in 2..Len(t) : i - 1 \in 1..Len(s) /\ t[i] = s[i - 1]
  OBVIOUS
<1> HIDE DEF t
<1>2. ASSUME NEW i \in 1..Len(t), t[i].pc \in labels PROVE f.pc \in labels \/ Place(s, labels)
  BY <1>1, <1>2 DEF Place
<1>3. ASSUME NEW i \in 1..Len(s), s[i].pc \in labels PROVE Place(t, labels)
  <2>1. i + 1 \in 1..Len(t) /\ t[i + 1] = s[i]
    BY <1>1
  <2> QED BY <1>3, <2>1 DEF Place
<1>4. f.pc \in labels => Place(t, labels)
  BY <1>1 DEF Place
<1>5. Place(t, labels) <=> f.pc \in labels \/ Place(s, labels)
  BY <1>2, <1>3, <1>4 DEF Place
<1> QED BY <1>5 DEF t

LEMMA PlaceNow ==
    ASSUME CpuTypeOK, NEW labels
    PROVE  Place(Contexts, labels) <=> pc \in labels \/ Place(stack, labels)
<1> DEFINE f == [mask |-> intmask, pc |-> pc]
<1>1. f \in Frame /\ stack \in Seq(Frame) /\ f.pc = pc /\ Contexts = <<f>> \o stack
  BY DEF CpuTypeOK, Frame, Contexts
<1> HIDE DEF f
<1> QED BY <1>1, PlaceFirst

LEMMA PlaceThen ==
    ASSUME CpuTypeOK', NEW labels
    PROVE  Place(Contexts', labels) <=> pc' \in labels \/ Place(stack', labels)
<1> DEFINE f == [mask |-> intmask', pc |-> pc']
<1>1. f \in Frame /\ stack' \in Seq(Frame) /\ f.pc = pc' /\ Contexts' = <<f>> \o stack'
  BY DEF CpuTypeOK, Frame, Contexts
<1> HIDE DEF f
<1> QED BY <1>1, PlaceFirst

\* A frame of a handler is at its level, all frames below level 0 are at it.
LEMMA NoneQuiet ==
    ASSUME NEW s \in Seq(Frame), Nested(s), s # <<>>, s[1].mask = 0
    PROVE  ~Place(s, HandlerLabels)
<1> SUFFICES ASSUME NEW i \in 1..Len(s), s[i].pc \in HandlerLabels PROVE FALSE
  BY DEF Place
<1>1. s[i].mask = HandlerLevel[s[i].pc] /\ HandlerLevel[s[i].pc] \in 2..4
  BY Kinds DEF Nested, RunsAt
<1>2. 1 \in 1..Len(s) /\ (i = 1 \/ 1 < i)
  OBVIOUS
<1>3. s[1].mask >= s[i].mask
  BY <1>1, <1>2 DEF Nested
<1> QED BY <1>1, <1>3

\* Of a level there is one handler at most.
LEMMA OneOfALevel ==
    ASSUME CpuTypeOK, Nested(Contexts), pc \in HandlerLabels, NEW labels \in SUBSET HandlerLabels,
           \A label \in labels : HandlerLevel[label] = HandlerLevel[pc]
    PROVE  ~Place(stack, labels)
<1> SUFFICES ASSUME NEW i \in 1..Len(stack), stack[i].pc \in labels PROVE FALSE
  BY DEF Place
<1>1. /\ Contexts[1].pc = pc /\ Contexts[1].mask = intmask /\ Contexts[i + 1] = stack[i]
      /\ 1 \in 1..Len(Contexts) /\ i + 1 \in 1..Len(Contexts) /\ 1 < i + 1
  BY ContextsAre
<1>2. RunsAt(Contexts[i + 1]) /\ Contexts[1].mask > Contexts[i + 1].mask
  BY <1>1 DEF Nested
<1>3. intmask = HandlerLevel[pc] /\ Contexts[i + 1].mask = HandlerLevel[pc]
  BY <1>1, <1>2, WhoRuns DEF RunsAt
<1> QED BY <1>1, <1>2, <1>3, Kinds

LEMMA LoadIs ==
    ASSUME CpuTypeOK
    PROVE  /\ Load \in 0..3
           /\ Load = 0 <=> Pending = {}
           /\ "PORTS" \in Pending => Load >= 1
           /\ Pending \subseteq Sources
<1>1. Pending \subseteq {"PORTS", "VERTB", "AUD"}
  BY ScoreAssumption DEF Pending, CpuTypeOK
<1> QED BY <1>1, ScoreAssumption DEF Load, OneIf

LEMMA LoadKept ==
    ASSUME UNCHANGED <<intreq, intena, master>>
    PROVE  Pending' = Pending /\ Load' = Load
BY DEF Load, OneIf, Pending

LEMMA LoadDrops ==
    ASSUME NEW source \in Pending, source \in {"PORTS", "VERTB", "AUD"},
           intreq' = intreq \ {source}, UNCHANGED <<intena, master>>
    PROVE  Pending' = Pending \ {source} /\ Load' = Load - 1
<1>1. Pending' = Pending \ {source}
  BY DEF Pending
<1> QED BY <1>1 DEF Load, OneIf

LEMMA LoadGrows ==
    ASSUME NEW source \in {"PORTS", "VERTB", "AUD"},
           intreq' = intreq \cup {source}, UNCHANGED <<intena, master>>
    PROVE  /\ Pending \subseteq Pending' /\ Pending' \subseteq Pending \cup {source}
           /\ Load' \in {Load, Load + 1}
<1>1. Pending \subseteq Pending' /\ Pending' \subseteq Pending \cup {source}
  BY DEF Pending
<1> QED BY <1>1 DEF Load, OneIf

\* At level 0 whatever is pending can be delivered.
LEMMA AtLevelZero ==
    ASSUME CpuTypeOK, NoneForgotten, intmask = 0, Pending # {}
    PROVE  intlev > intmask /\ (doint \/ (phase = "special" /\ int))
<1>1. \A source \in Pending : Level[source] > intmask
  BY LoadIs, ScoreAssumption
<1>2. Deliverable
  BY <1>1 DEF Deliverable
<1> QED BY <1>2, DeliverableIsAbove DEF NoneForgotten

-----------------------------------------------------------------------------
(* Requests, and who has them.                                             *)

\* What an instruction of the main program or of its trap does to the CPU.
LEMMA MainCpu ==
    ASSUME TypeOK, Nested(Contexts), MainProgram \/ TrapHandler
    PROVE  /\ phase = "execute" /\ phase' = "special" /\ doint' = doint
           /\ pc \in MainLabels /\ CatchUp(TRUE)
           /\ pc \notin Masked => intmask = 0 /\ intmask' = 0
           /\ intmask' = 0 \/ (pc' \in MainLabels /\ stack = <<>> /\ stack' = <<>>)
<1> USE DEF At, Execute
<1>1. pc \in MainLabels /\ CatchUp(pc \in MainLabels)
  BY DEF MainProgram, TrapHandler, Start, ClearRequests, UserLevel, MasterOn, init_interrupts, call_init_sound,
         StartOutput, TellOutput, Hook, EnableIcr, EnableInt, waittrap, PollInput, SetSubSong,
         inputmessagehandled, TestChange, Disable, ResetSong, Enable, RemoveIcr, Shift, ClearData,
         Unhook, TestEnd, Report, Tell, ClearEnd, ReadFrame, newstop, CompareFrame, MainLabels
<1>2. /\ pc \in MainBody <=> stack = <<>>
      /\ intmask = IF pc \in Masked THEN 7 ELSE 0
  BY <1>1, WhoRuns DEF TypeOK
<1>3. CASE Start \/ ClearRequests \/ UserLevel
  BY <1>1, <1>2, <1>3
     DEF Start, ClearRequests, UserLevel, INTENA, INTREQ, MoveToSR, MakeFromSR, Masked, MainLabels, MainBody
<1>4. ASSUME phase = "execute", phase' = "special", doint' = doint, intmask' \in {0, intmask}, pc \notin Masked
      PROVE  /\ phase = "execute" /\ phase' = "special" /\ doint' = doint
             /\ pc \in MainLabels /\ CatchUp(TRUE)
             /\ pc \notin Masked => intmask = 0 /\ intmask' = 0
             /\ intmask' = 0 \/ (pc' \in MainLabels /\ stack = <<>> /\ stack' = <<>>)
  <2>1. (pc \in MainLabels) = TRUE
    BY <1>1
  <2> QED BY <1>1, <1>2, <1>4, <2>1
<1>5. CASE TellOutput \/ waittrap \/ Tell
  BY <1>4, <1>5 DEF TellOutput, waittrap, Tell, Trap, Masked
<1>6. CASE MasterOn \/ init_interrupts \/ call_init_sound \/ EnableInt \/ Disable \/ Enable
  BY <1>4, <1>6 DEF MasterOn, init_interrupts, call_init_sound, EnableInt, Disable, Enable, INTENA, Masked
<1>7. CASE StartOutput \/ Hook \/ EnableIcr \/ ReadFrame \/ newstop \/ CompareFrame
  BY <1>4, <1>7 DEF StartOutput, Hook, EnableIcr, ReadFrame, newstop, CompareFrame, Step, Stop, MakeFromSR, Masked
<1>8. CASE PollInput \/ SetSubSong \/ inputmessagehandled \/ TestChange \/ ResetSong \/ RemoveIcr
  BY <1>4, <1>8 DEF PollInput, SetSubSong, inputmessagehandled, TestChange, ResetSong, RemoveIcr, Step, Masked
<1>9. CASE Shift \/ ClearData \/ Unhook \/ TestEnd \/ Report \/ ClearEnd
  BY <1>4, <1>9 DEF Shift, ClearData, Unhook, TestEnd, Report, ClearEnd, Step, Masked
<1> QED BY <1>3, <1>5, <1>6, <1>7, <1>8, <1>9 DEF MainProgram, TrapHandler

LEMMA NoHandlerRuns ==
    ASSUME TypeOK, TypeOK', Nested(Contexts), MainProgram \/ TrapHandler
    PROVE  ~Place(Contexts, HandlerLabels) /\ ~Place(Contexts', HandlerLabels)
<1>1. CpuTypeOK /\ CpuTypeOK' /\ Nested(Contexts')
  BY MainGoes, HandlerGoes DEF TypeOK, Nested, RunsAt
<1>2. /\ Contexts \in Seq(Frame) /\ Contexts # <<>> /\ Contexts[1].mask = intmask
  BY <1>1, ContextsAre
<1>3. /\ Contexts' \in Seq(Frame) /\ Contexts' # <<>> /\ Contexts'[1].mask = intmask'
  <2>1. [mask |-> intmask', pc |-> pc'] \in Frame /\ stack' \in Seq(Frame)
    BY <1>1 DEF CpuTypeOK, Frame
  <2> QED BY <2>1 DEF Contexts
<1>4. ~Place(Contexts, HandlerLabels)
  <2>1. CASE pc \in MainBody
    <3>1. stack = <<>> /\ pc \notin HandlerLabels
      BY <1>1, <2>1, WhoRuns, Kinds
    <3>2. ~Place(stack, HandlerLabels)
      BY <3>1 DEF Place
    <3> QED BY <1>1, <3>1, <3>2, PlaceNow
  <2>2. CASE pc \notin MainBody
    <3>1. intmask = 0
      BY <2>2, MainCpu, Kinds
    <3> QED BY <1>1, <1>2, <3>1, NoneQuiet
  <2> QED BY <2>1, <2>2
<1>5. ~Place(Contexts', HandlerLabels)
  <2>1. CASE intmask' = 0
    BY <1>1, <1>3, <2>1, NoneQuiet
  <2>2. CASE pc' \in MainLabels /\ stack' = <<>>
    <3>1. pc' \notin HandlerLabels /\ ~Place(stack', HandlerLabels)
      BY <2>2, Kinds DEF Place
    <3> QED BY <1>1, <3>1, PlaceThen
  <2> QED BY <2>1, <2>2, MainCpu
<1> QED BY <1>4, <1>5

LEMMA OwnersAre ==
    /\ Owners("PORTS") = {"level2"} /\ Owners("VERTB") = {"level3", "count", "vclear"}
    /\ Owners("AUD") = {"level4", "audioack"}
    /\ DOMAIN Serves = {"level2", "level3", "count", "vclear", "level4", "audioack"}
    /\ DOMAIN Serves \subseteq HandlerLabels
    /\ \A source : Owners(source) \subseteq HandlerLabels
BY DEF Owners, Serves, HandlerLabels, Level2Labels, Level3Labels, Level4Labels

\* How a handler's steps move the program, without what they do to the requests.
LEMMA HandlerCpu ==
    ASSUME TypeOK, Nested(Contexts), Handler, pc # "rte"
    PROVE  /\ pc \in HandlerLabels /\ intmask' = intmask /\ intmask # 0
           /\ phase = "execute" /\ phase' = "special" /\ doint' = doint /\ burst' = burst
           /\ intena' = intena /\ master' = master
<1> USE DEF At, Execute
<1>1. pc \in HandlerLabels /\ CatchUp(pc \in MainLabels)
  BY DEF Handler, ReturnFromException, Acknowledge, ReadIcr, Player, mylevel3, CountFrame, ClearFrame,
         mylevel4, AcknowledgeAudio, put_string, TellString, MoreAudio,
         HandlerLabels, Level2Labels, Level3Labels, Level4Labels
<1>2. intmask # 0 /\ pc \notin MainLabels
  BY <1>1, WhoRuns, Kinds DEF TypeOK
<1>3. burst' = burst
  BY <1>1, <1>2 DEF CatchUp
<1>4. /\ intmask' = intmask /\ phase = "execute" /\ phase' = "special" /\ doint' = doint
      /\ intena' = intena /\ master' = master
  BY DEF Handler, ReturnFromException, Acknowledge, ReadIcr, Player, mylevel3, CountFrame, ClearFrame,
         mylevel4, AcknowledgeAudio, put_string, TellString, MoreAudio, Step, INTREQ, Trap
<1> QED BY <1>1, <1>2, <1>3, <1>4

LEMMA HandlerPlaces ==
    ASSUME TypeOK, TypeOK', Handler, pc # "rte", NEW labels
    PROVE  /\ Place(stack, labels) => Place(Contexts', labels)
           /\ pc' \in labels => Place(Contexts', labels)
           /\ Place(Contexts', labels) =>
                 Place(stack, labels) \/ pc' \in labels \/ (TellString /\ "audiomore" \in labels)
<1>1. CpuTypeOK /\ CpuTypeOK'
  BY DEF TypeOK
<1>2. CASE TellString
  <2> DEFINE f == [mask |-> intmask, pc |-> "audiomore"]
  <2>1. "audiomore" \in Labels
    BY KnownLabels DEF HandlerLabels, Level4Labels
  <2>2. f \in Frame /\ stack \in Seq(Frame) /\ f.pc = "audiomore" /\ stack' = <<f>> \o stack
    BY <1>1, <1>2, <2>1 DEF TellString, Trap, CpuTypeOK, Frame
  <2> HIDE DEF f
  <2>3. Place(stack', labels) <=> "audiomore" \in labels \/ Place(stack, labels)
    BY <2>2, PlaceFirst
  <2> QED BY <1>1, <1>2, <2>3, PlaceThen
<1>3. CASE stack' = stack
  BY <1>1, <1>3, PlaceThen
<1> QED BY <1>2, <1>3
     DEF Handler, ReturnFromException, At, Acknowledge, ReadIcr, Player, mylevel3, CountFrame, ClearFrame,
         mylevel4, AcknowledgeAudio, put_string, MoreAudio, Step, INTREQ, Execute

\* The acknowledgement of a handler takes its own request away.
Acknowledges == Acknowledge \/ ClearFrame \/ AcknowledgeAudio

LEMMA AcknowledgeTakes ==
    ASSUME TypeOK, Nested(Contexts), Requested, Acknowledges
    PROVE  /\ pc \in DOMAIN Serves /\ Serves[pc] \in Pending
           /\ Pending' = Pending \ {Serves[pc]} /\ Load' = Load - 1
           /\ ~Place(stack, Owners(Serves[pc]))
           /\ pc' \notin DOMAIN Serves
<1>1. /\ pc \in {"level2", "vclear", "audioack"} /\ pc' \in {"readicr", "rte", "audiosay", "audiomore"}
      /\ intreq' = intreq \ {Serves[pc]} /\ UNCHANGED <<intena, master>>
      /\ Serves[pc] \in Sources /\ Serves[pc] \in {"PORTS", "VERTB", "AUD"}
  BY ScoreAssumption
     DEF Acknowledges, Acknowledge, ClearFrame, AcknowledgeAudio, At, INTREQ, Execute, Serves
<1>2. pc \in DOMAIN Serves /\ pc \in Owners(Serves[pc])
  BY <1>1 DEF Serves, Owners
<1>3. Place(Contexts, Owners(Serves[pc]))
  BY <1>2, PlaceNow DEF TypeOK
<1>4. Serves[pc] \in Pending
  BY <1>1, <1>3 DEF Requested
<1>5. Pending' = Pending \ {Serves[pc]} /\ Load' = Load - 1
  BY <1>1, <1>4, LoadDrops
<1>6. /\ pc \in HandlerLabels /\ Owners(Serves[pc]) \subseteq HandlerLabels
      /\ \A label \in Owners(Serves[pc]) : HandlerLevel[label] = HandlerLevel[pc]
  <2>1. Serves["level2"] = "PORTS" /\ Serves["vclear"] = "VERTB" /\ Serves["audioack"] = "AUD"
    BY DEF Serves
  <2> QED BY <1>1, <2>1, OwnersAre DEF HandlerLabels, HandlerLevel, Level2Labels, Level3Labels, Level4Labels
<1>7. ~Place(stack, Owners(Serves[pc]))
  BY <1>6, OneOfALevel DEF TypeOK
<1>8. pc' \notin DOMAIN Serves
  BY <1>1, OwnersAre
<1> QED BY <1>2, <1>4, <1>5, <1>7, <1>8

\* The other steps of a handler: one that has not acknowledged still has not.
LEMMA OthersServe ==
    ASSUME TypeOK, Nested(Contexts), Requested, Handler, pc # "rte", ~Acknowledges
    PROVE  /\ Pending' = Pending /\ Load' = Load
           /\ pc' \in DOMAIN Serves => Serves[pc'] \in Pending
           /\ pc \in DOMAIN Serves => pc' \in DOMAIN Serves
<1>1. Pending' = Pending /\ Load' = Load
  <2>1. UNCHANGED <<intreq, intena, master>>
    BY DEF Handler, ReturnFromException, At, Acknowledges, ReadIcr, Player, mylevel3, CountFrame,
           mylevel4, put_string, TellString, MoreAudio, Step, Trap
  <2> QED BY <2>1, LoadKept
<1>2. /\ pc = "level3" => "VERTB" \in Pending
      /\ pc = "count" => "VERTB" \in Pending
      /\ pc = "level4" => "AUD" \in Pending
  <2>1. \A source \in Sources : pc \in Owners(source) => source \in Pending
    BY PlaceNow DEF TypeOK, Requested
  <2> QED BY <2>1, OwnersAre, ScoreAssumption
<1>3. master
  <2>1. pc \in HandlerLabels
    BY HandlerCpu
  <2> QED BY <2>1, PlaceNow DEF TypeOK, Requested
<1>4. /\ Serves["count"] = "VERTB" /\ Serves["vclear"] = "VERTB" /\ Serves["audioack"] = "AUD"
  BY DEF Serves
<1>5. CASE mylevel3 \/ CountFrame
  BY <1>1, <1>2, <1>4, <1>5, OwnersAre DEF mylevel3, CountFrame, At, Step
<1>6. CASE mylevel4 \/ MoreAudio
  <2>1. pc' = "audioack" => "AUD" \in Pending
    BY <1>3, <1>6 DEF mylevel4, MoreAudio, At, Step, Pending
  <2>2. pc = "level4" => pc' = "audioack"
    BY <1>2, <1>6 DEF mylevel4, MoreAudio, At, Step, Pending
  <2>3. pc \in {"level4", "audiomore"} /\ pc' \in {"audioack", "audiomore", "rte"}
    BY <1>6 DEF mylevel4, MoreAudio, At, Step
  <2> QED BY <1>1, <1>4, <2>1, <2>2, <2>3, OwnersAre
<1>7. CASE ReadIcr \/ Player \/ put_string \/ TellString
  <2>1. pc \notin DOMAIN Serves /\ pc' \notin DOMAIN Serves
    BY <1>7, OwnersAre DEF ReadIcr, Player, put_string, TellString, At, Step, Trap
  <2> QED BY <1>1, <2>1
<1> QED BY <1>5, <1>6, <1>7 DEF Handler, ReturnFromException, At, Acknowledges

LEMMA HandlerRequests ==
    ASSUME TypeOK, TypeOK', Nested(Contexts), Requested, Handler, pc # "rte"
    PROVE  Requested'
<1>1. pc \in HandlerLabels /\ master' = master
  BY HandlerCpu
<1>2. master'
  BY <1>1, PlaceNow DEF TypeOK, Requested
<1>3. ASSUME NEW source \in Sources, Place(Contexts', Owners(source)) PROVE source \in Pending'
  <2>1. Place(stack, Owners(source)) \/ pc' \in Owners(source)
    BY <1>3, HandlerPlaces, OwnersAre, ScoreAssumption
  <2>2. Place(stack, Owners(source)) => source \in Pending
    BY PlaceNow DEF TypeOK, Requested
  <2>3. pc' \in Owners(source) => pc' \in DOMAIN Serves /\ Serves[pc'] = source
    BY DEF Owners
  <2>4. CASE Acknowledges
    BY <2>1, <2>2, <2>3, <2>4, AcknowledgeTakes
  <2>5. CASE ~Acknowledges
    BY <2>1, <2>2, <2>3, <2>5, OthersServe
  <2> QED BY <2>4, <2>5
<1> QED BY <1>2, <1>3 DEF Requested

\* What a return uncovers was there before.
LEMMA ReturnPlaces ==
    ASSUME TypeOK, TypeOK', Rte, NEW labels
    PROVE  Place(Contexts', labels) <=> Place(stack, labels)
<1>1. stack \in Seq(Frame) /\ stack # <<>> /\ CpuTypeOK'
  BY DEF TypeOK, CpuTypeOK, Rte
<1>2. Head(stack) \in Frame /\ Tail(stack) \in Seq(Frame) /\ stack = <<Head(stack)>> \o Tail(stack)
  BY <1>1
<1>3. Place(stack, labels) <=> Head(stack).pc \in labels \/ Place(Tail(stack), labels)
  BY <1>2, PlaceFirst
<1> QED BY <1>1, <1>3, PlaceThen DEF Rte

LEMMA InterruptPlaces ==
    ASSUME CpuTypeOK, CpuTypeOK', Interrupt(intlev), NEW labels
    PROVE  Place(Contexts', labels) <=> Vector[intlev] \in labels \/ Place(Contexts, labels)
<1>1. stack' = Contexts /\ pc' = Vector[intlev]
  BY DEF Interrupt, Contexts
<1> QED BY <1>1, PlaceThen

\* An interrupt is one of the pending ones.
LEMMA InterruptServes ==
    ASSUME CpuTypeOK, intlev > intmask
    PROVE  /\ Pending # {} /\ master /\ intlev # 0
           /\ Vector[intlev] \in DOMAIN Serves /\ Serves[Vector[intlev]] \in Pending
           /\ Vector[intlev] \in Level2Labels => "PORTS" \in Pending
<1>1. Pending # {}
  BY DeliverableIsAbove DEF Deliverable
<1>2. PICK source \in Pending : Level[source] = intlev
  BY <1>1, IntlevIsHighest
<1>3. Serves["level2"] = "PORTS" /\ Serves["level3"] = "VERTB" /\ Serves["level4"] = "AUD"
  BY DEF Serves
<1>4. /\ \/ source = "PORTS" /\ Vector[intlev] = "level2"
         \/ source = "VERTB" /\ Vector[intlev] = "level3"
         \/ source = "AUD" /\ Vector[intlev] = "level4"
      /\ intlev # 0
  BY <1>2, LoadIs, ScoreAssumption
<1>5. master
  BY <1>1 DEF Pending, CpuTypeOK
<1>6. /\ Vector[intlev] \in DOMAIN Serves /\ Serves[Vector[intlev]] = source
  BY <1>3, <1>4, OwnersAre
<1>7. Vector[intlev] \in Level2Labels => source = "PORTS"
  BY <1>4 DEF Level2Labels
<1> QED BY <1>1, <1>2, <1>4, <1>5, <1>6, <1>7

\* The steps that are no instructions.
Beside == Special \/ vsync_handler \/ AudioPass \/ Underflow \/ change_subsong \/ UNCHANGED vars

LEMMA BesideCpu ==
    ASSUME TypeOK, Beside
    PROVE  /\ Pending \subseteq Pending' /\ master' = master /\ intena' = intena
           /\ \/ UNCHANGED frameVars
              \/ Special /\ intlev > intmask /\ Interrupt(intlev)
           /\ Special => Pending' = Pending /\ Load' = Load
<1>1. CASE Special
  <2>1. UNCHANGED <<intreq, intena, master>>
    BY <1>1 DEF Special, do_specialties, Running, Stopped
  <2> QED BY <1>1, <2>1, LoadKept DEF Special, do_specialties, Running, Stopped
<1>2. CASE ~Special
  <2>1. intreq \subseteq intreq' /\ master' = master /\ intena' = intena /\ UNCHANGED frameVars
    BY <1>2 DEF Beside, vsync_handler, AudioPass, Underflow, change_subsong, vars, cpuVars, frameVars, Request
  <2> QED BY <1>2, <2>1 DEF Pending
<1> QED BY <1>1, <1>2

LEMMA RequestedKept ==
    ASSUME ScoreInv, Requested, TypeOK', [Next]_vars
    PROVE  Requested'
<1>1. TypeOK /\ Nested(Contexts) /\ CpuTypeOK /\ CpuTypeOK'
  BY DEF ScoreInv, TypeOK
<1>2. CASE MainProgram \/ TrapHandler
  <2>1. ~Place(Contexts', HandlerLabels)
    BY <1>1, <1>2, NoHandlerRuns
  <2>2. \A source : ~Place(Contexts', Owners(source))
    BY <2>1, OwnersAre DEF Place
  <2> QED BY <2>1, <2>2 DEF Requested
<1>3. CASE Handler /\ pc # "rte"
  BY <1>1, <1>3, HandlerRequests
<1>4. CASE Handler /\ pc = "rte"
  <2>1. Rte
    BY <1>4 DEF Handler, ReturnFromException, At, Acknowledge, ReadIcr, Player, mylevel3, CountFrame,
                ClearFrame, mylevel4, AcknowledgeAudio, put_string, TellString, MoreAudio
  <2>2. Pending' = Pending /\ master' = master
    BY <2>1, LoadKept DEF Rte
  <2>3. ASSUME NEW labels, Place(Contexts', labels) PROVE Place(Contexts, labels)
    BY <1>1, <2>1, <2>3, ReturnPlaces, PlaceNow
  <2> QED BY <2>2, <2>3 DEF Requested
<1>5. CASE Beside
  <2>1. CASE UNCHANGED frameVars
    <3>1. Contexts' = Contexts
      BY <2>1 DEF Contexts, frameVars
    <3> QED BY <1>1, <1>5, <3>1, BesideCpu DEF Requested
  <2>2. CASE Special /\ intlev > intmask /\ Interrupt(intlev)
    <3>1. /\ master /\ Serves[Vector[intlev]] \in Pending
          /\ Pending' = Pending /\ master' = master
      BY <1>1, <1>5, <2>2, InterruptServes, BesideCpu
    <3>2. ASSUME NEW source \in Sources, Place(Contexts', Owners(source)) PROVE source \in Pending'
      <4>1. Vector[intlev] \in Owners(source) \/ Place(Contexts, Owners(source))
        BY <1>1, <2>2, <3>2, InterruptPlaces
      <4> QED BY <3>1, <4>1 DEF Requested, Owners
    <3> QED BY <3>1, <3>2 DEF Requested
  <2> QED BY <1>1, <1>5, <2>1, <2>2, BesideCpu
<1> QED BY <1>2, <1>3, <1>4, <1>5 DEF Next, Main, MainProgram, TrapHandler, Beside

-----------------------------------------------------------------------------
(* Events are counted.                                                     *)

LEMMA Margins ==
    /\ DOMAIN Margin = {"report", "tell", "remove", "shift", "datas", "unhook"}
    /\ Margin["report"] = -3 /\ Margin["tell"] = -2 /\ Margin["remove"] = -1
    /\ Margin["shift"] = 0 /\ Margin["datas"] = 1 /\ Margin["unhook"] = 2
    /\ \A place \in DOMAIN Margin : Margin[place] \in Int
    /\ \A place \in DOMAIN Margin \ TimerOff : Margin[place] + 1 <= 0
BY DEF Margin, TimerOff

\* When none is pending nothing is owed.
LEMMA NoLoad ==
    ASSUME CpuTypeOK, burst \in Nat, Counts, Pending = {}
    PROVE  Came(0) /\ Came(1)
<1>1. Load = 0 /\ mainpc \in DOMAIN Margin \ TimerOff
  BY LoadIs DEF Counts
<1> QED BY <1>1, Margins DEF Came

\* The way from the end of a song, and from a change, to the cleared vector.
Ways == {<<"ended", "report">>, <<"report", "tell">>, <<"tell", "remove">>, <<"reset", "remove">>,
         <<"remove", "shift">>, <<"shift", "datas">>, <<"datas", "unhook">>}

LEMMA MainWays ==
    ASSUME TypeOK, TypeOK', Nested(Contexts), MainProgram, mainpc' \in DOMAIN Margin
    PROVE  <<mainpc, mainpc'>> \in Ways /\ UNCHANGED <<intreq, intena, master>>
<1> USE DEF At, Ways
<1>1. /\ mainpc = pc /\ (pc \notin {"playloop", "tellout", "tell"} => mainpc' = pc')
      /\ TellOutput => mainpc' = "hook"
      /\ waittrap => mainpc' = "poll"
      /\ Tell => mainpc' = "remove"
      /\ mainpc' \in {"report", "tell", "remove", "shift", "datas", "unhook"}
      /\ score.back \in {"playloop", "enable"}
  BY MainGoes, Margins DEF TypeOK, ScoreMemory
<1>2. CASE Start \/ ClearRequests \/ UserLevel
  BY <1>1, <1>2 DEF Start, ClearRequests, UserLevel, INTENA, INTREQ, MoveToSR
<1>3. CASE TellOutput \/ waittrap \/ Tell
  BY <1>1, <1>3 DEF TellOutput, waittrap, Tell, Trap
<1>4. CASE MasterOn \/ init_interrupts \/ call_init_sound \/ EnableInt \/ Disable \/ Enable
  BY <1>1, <1>4 DEF MasterOn, init_interrupts, call_init_sound, EnableInt, Disable, Enable, INTENA
<1>5. CASE StartOutput \/ Hook \/ EnableIcr \/ PollInput \/ SetSubSong \/ inputmessagehandled \/ TestChange
  BY <1>1, <1>5
     DEF StartOutput, Hook, EnableIcr, PollInput, SetSubSong, inputmessagehandled, TestChange, Step
<1>6. CASE ResetSong \/ RemoveIcr \/ Shift \/ ClearData \/ Unhook \/ TestEnd \/ Report \/ ClearEnd
  BY <1>1, <1>6 DEF ResetSong, RemoveIcr, Shift, ClearData, Unhook, TestEnd, Report, ClearEnd, Step
<1> QED BY <1>2, <1>3, <1>4, <1>5, <1>6 DEF MainProgram

LEMMA MainCounts ==
    ASSUME ScoreInv, CountInv, TimerInv, NoneForgotten, TypeOK', MainProgram
    PROVE  CountInv'
<1> SUFFICES ASSUME Counts' PROVE CountInv'
  BY DEF CountInv
<1>1. /\ TypeOK /\ CpuTypeOK /\ Nested(Contexts) /\ burst \in Nat /\ EndInv
  BY DEF ScoreInv, TypeOK
<1>2. <<mainpc, mainpc'>> \in Ways /\ UNCHANGED <<intreq, intena, master>>
  BY <1>1, MainWays DEF Counts
<1>3. /\ phase = "execute" /\ phase' = "special" /\ doint' = doint /\ CatchUp(TRUE)
      /\ intmask = 0 /\ intmask' = 0
  <2>1. pc \notin Masked
    BY <1>1, <1>2, MainGoes DEF Ways, Masked
  <2> QED BY <1>1, <2>1, MainCpu
<1>4. Pending' = Pending /\ Load' = Load /\ Load \in 0..3
  BY <1>1, <1>2, LoadKept, LoadIs
<1>5. CASE Pending = {}
  <2>1. Load' = 0 /\ burst' = 0 /\ mainpc' \in DOMAIN Margin \ TimerOff
    BY <1>1, <1>3, <1>4, <1>5, LoadIs DEF Counts, CatchUp
  <2>2. Margin[mainpc'] \in Int /\ Margin[mainpc'] + 1 <= 0
    BY <2>1, Margins
  <2>3. Came(0)' /\ Came(1)'
    BY <2>1, <2>2 DEF Came
  <2> QED BY <2>3 DEF CountInv
<1>6. CASE Pending # {}
  <2>1. doint /\ burst' = burst
    BY <1>1, <1>3, <1>6, AtLevelZero DEF CatchUp
  <2>2. mainpc # "reset"
    BY <1>1, <1>6 DEF TimerInv, EndInv, AfterEnd, Pending
  <2>3. CASE mainpc = "ended"
    <3>1. mainpc' = "report"
      BY <1>2, <2>3 DEF Ways
    <3>2. Came(0)'
      BY <1>1, <1>4, <2>1, <3>1, Margins DEF Came
    <3> QED BY <1>3, <2>1, <3>2 DEF CountInv
  <2>4. CASE mainpc # "ended"
    <3>1. /\ mainpc \in DOMAIN Margin /\ Margin[mainpc'] = Margin[mainpc] + 1
          /\ Margin[mainpc] \in Int
          /\ mainpc \in TimerOff => mainpc' \in TimerOff
      BY <1>2, <2>2, <2>4, Margins DEF Ways, TimerOff
    <3>2. Came(1)
      BY <1>3, <1>4, <3>1 DEF CountInv, Counts
    <3>3. Came(0)'
      BY <1>1, <1>4, <2>1, <3>1, <3>2 DEF Came
    <3> QED BY <1>3, <2>1, <3>3 DEF CountInv
  <2> QED BY <2>3, <2>4
<1> QED BY <1>5, <1>6

LEMMA TrapCounts ==
    ASSUME ScoreInv, CountInv, NoneForgotten, TypeOK', TrapHandler
    PROVE  CountInv'
<1> SUFFICES ASSUME Counts' PROVE CountInv'
  BY DEF CountInv
<1>1. /\ TypeOK /\ CpuTypeOK /\ Nested(Contexts) /\ burst \in Nat
  BY DEF ScoreInv, TypeOK
<1>2. mainpc' = mainpc /\ UNCHANGED <<intreq, intena, master>>
  BY <1>1, HandlerGoes DEF TrapHandler, ReadFrame, newstop, CompareFrame, Step, Stop
<1>3. /\ phase = "execute" /\ CatchUp(TRUE) /\ intmask = 0 /\ intmask' = 0
  <2>1. pc \notin Masked
    BY DEF TrapHandler, ReadFrame, newstop, CompareFrame, At, Masked
  <2> QED BY <1>1, <2>1, MainCpu
<1>4. Pending' = Pending /\ Load' = Load /\ Load \in 0..3 /\ Counts
  BY <1>1, <1>2, LoadKept, LoadIs DEF Counts
<1>5. /\ Margin[mainpc] \in Int
  BY <1>4, Margins DEF Counts
<1>6. CASE Pending = {}
  <2>1. Load' = 0 /\ burst' = 0 /\ mainpc' \in DOMAIN Margin \ TimerOff
    BY <1>1, <1>3, <1>4, <1>6, LoadIs DEF Counts, CatchUp
  <2>2. Margin[mainpc'] + 1 <= 0
    BY <2>1, Margins
  <2>3. Came(0)' /\ Came(1)'
    BY <1>2, <1>5, <2>1, <2>2 DEF Came
  <2> QED BY <2>3 DEF CountInv
<1>7. CASE Pending # {}
  <2>1. Came(0) /\ Came(1) /\ burst' = burst
    BY <1>3, <1>4, <1>7 DEF CountInv, CatchUp
  <2>2. Came(0)' /\ Came(1)'
    BY <1>2, <1>4, <2>1 DEF Came
  <2> QED BY <2>2 DEF CountInv
<1> QED BY <1>6, <1>7

LEMMA HandlerCounts ==
    ASSUME ScoreInv, Requested, CountInv, TypeOK', Handler, pc # "rte"
    PROVE  CountInv'
<1> SUFFICES ASSUME Counts' PROVE CountInv'
  BY DEF CountInv
<1>1. /\ TypeOK /\ CpuTypeOK /\ Nested(Contexts) /\ burst \in Nat /\ Load \in 0..3
  BY LoadIs DEF ScoreInv, TypeOK
<1>2. /\ pc \in HandlerLabels /\ intmask' = intmask /\ intmask # 0 /\ burst' = burst
      /\ mainpc' = mainpc
  BY <1>1, HandlerCpu, HandlerGoes
<1>3. Pending' \subseteq Pending
  BY <1>1, AcknowledgeTakes, OthersServe
<1>4. Counts /\ Margin[mainpc] \in Int
  BY <1>2, <1>3, Margins DEF Counts
<1>5. Came(0) /\ (Came(1) \/ Unserved)
  BY <1>2, <1>4 DEF CountInv
<1>6. CASE Acknowledges
  <2>1. Load' = Load - 1
    BY <1>1, <1>6, AcknowledgeTakes
  <2>2. Came(0)' /\ Came(1)'
    BY <1>1, <1>2, <1>4, <1>5, <2>1 DEF Came
  <2> QED BY <2>2 DEF CountInv
<1>7. CASE ~Acknowledges
  <2>1. Load' = Load
    BY <1>1, <1>7, OthersServe
  <2>2. Came(0)' /\ (Came(1) => Came(1)')
    BY <1>1, <1>2, <1>4, <1>5, <2>1 DEF Came
  <2>3. ASSUME Unserved PROVE Unserved'
    <3>1. pc \in DOMAIN Serves \/ Place(stack, DOMAIN Serves)
      BY <1>1, <2>3, PlaceNow DEF Unserved
    <3>2. pc' \in DOMAIN Serves \/ Place(stack, DOMAIN Serves)
      BY <1>1, <1>7, <3>1, OthersServe
    <3>3. Place(Contexts', DOMAIN Serves)
      BY <1>1, <3>2, HandlerPlaces
    <3> QED BY <3>3 DEF Unserved
  <2> QED BY <1>2, <1>5, <2>2, <2>3 DEF CountInv
<1> QED BY <1>6, <1>7

LEMMA ReturnCounts ==
    ASSUME ScoreInv, CountInv, TypeOK', ReturnFromException
    PROVE  CountInv'
<1> SUFFICES ASSUME Counts' PROVE CountInv'
  BY DEF CountInv
<1>1. /\ TypeOK /\ CpuTypeOK /\ CpuTypeOK' /\ Nested(Contexts) /\ burst \in Nat /\ Load \in 0..3
  BY LoadIs DEF ScoreInv, TypeOK
<1>2. /\ mainpc' = mainpc /\ pc = "rte" /\ Rte /\ phase = "execute" /\ Nested(Contexts')
  BY <1>1, Returned DEF ReturnFromException, At, Rte, Nested, RunsAt
<1>3. burst' = burst
  BY Kinds DEF ReturnFromException, At, CatchUp
<1>4. Pending' = Pending /\ Load' = Load
  BY <1>2, LoadKept DEF Rte
<1>5. Counts /\ Margin[mainpc] \in Int
  BY <1>2, <1>4, Margins DEF Counts
<1>6. Came(0) /\ (Came(1) \/ (Unserved /\ intmask # 0))
  BY <1>2, <1>5 DEF CountInv
<1>7. Came(0)' /\ (Came(1) => Came(1)')
  BY <1>1, <1>2, <1>3, <1>4, <1>6 DEF Came
<1>8. CASE Came(1)
  BY <1>7, <1>8 DEF CountInv
<1>9. CASE Unserved
  <2>1. Place(stack, DOMAIN Serves)
    BY <1>1, <1>2, <1>9, PlaceNow, OwnersAre, Kinds DEF Unserved
  <2>2. Place(Contexts', DOMAIN Serves)
    BY <1>1, <1>2, <2>1, ReturnPlaces
  <2>3. intmask' # 0
    <3>1. Contexts' \in Seq(Frame) /\ Contexts' # <<>> /\ Contexts'[1].mask = intmask'
      <4>1. [mask |-> intmask', pc |-> pc'] \in Frame /\ stack' \in Seq(Frame)
        BY <1>1 DEF CpuTypeOK, Frame
      <4> QED BY <4>1 DEF Contexts
    <3>2. Place(Contexts', HandlerLabels)
      BY <2>2, OwnersAre DEF Place
    <3> QED BY <1>2, <3>1, <3>2, NoneQuiet
  <2> QED BY <1>7, <2>2, <2>3 DEF CountInv, Unserved
<1> QED BY <1>6, <1>8, <1>9

\* An event: one more, for one more that is pending at most.
LEMMA EventCounts ==
    ASSUME ScoreInv, CountInv, TimerInv, TypeOK',
           vsync_handler \/ AudioPass \/ Underflow \/ change_subsong
    PROVE  CountInv'
<1> SUFFICES ASSUME Counts' PROVE CountInv'
  BY DEF CountInv
<1>1. /\ TypeOK /\ CpuTypeOK /\ Nested(Contexts) /\ burst \in Nat /\ Load \in 0..3
  BY LoadIs DEF ScoreInv, TypeOK
<1>2. /\ burst' = burst + 1 /\ UNCHANGED <<intmask, stack, pc, doint, phase>>
  BY DEF vsync_handler, AudioPass, Underflow, change_subsong, Event, Request, cpuVars
<1>3. Contexts' = Contexts /\ mainpc' = mainpc
  BY <1>2 DEF Contexts, mainpc
<1>4. Load' \in {Load, Load + 1} /\ (mainpc \in TimerOff /\ "PORTS" \in Pending' => "PORTS" \in Pending)
  <2>1. CASE UNCHANGED cpuVars
    BY <2>1, LoadKept DEF cpuVars
  <2>2. CASE vsync_handler \/ AudioPass
    <3>1. PICK source \in {"VERTB", "AUD"} :
             intreq' = intreq \cup {source} /\ UNCHANGED <<intena, master>>
      BY <2>2 DEF vsync_handler, AudioPass, Request
    <3>2. Pending' \subseteq Pending \cup {source} /\ Load' \in {Load, Load + 1}
      BY <3>1, LoadGrows
    <3> QED BY <3>1, <3>2
  <2>3. CASE Underflow /\ cia.imask
    <3>1. mainpc \notin TimerOff
      BY <2>3 DEF TimerInv
    <3>2. intreq' = intreq \cup {"PORTS"} /\ UNCHANGED <<intena, master>>
      BY <2>3 DEF Underflow, Request
    <3>3. Load' \in {Load, Load + 1}
      BY <3>2, LoadGrows
    <3> QED BY <3>1, <3>3
  <2> QED BY <2>1, <2>2, <2>3 DEF Underflow, change_subsong
<1>5. Counts /\ Margin[mainpc] \in Int
  BY <1>3, <1>4, Margins DEF Counts
<1>6. /\ Came(0) => Came(0)'
      /\ Came(1) => Came(1)'
  BY <1>1, <1>2, <1>3, <1>4, <1>5 DEF Came
<1> QED BY <1>2, <1>3, <1>5, <1>6 DEF CountInv, Unserved

\* An interrupt that is pending at level 0 is taken before the next instruction of
\* the main program, or that one is the one it waits for.
LEMMA SpecialCounts ==
    ASSUME ScoreInv, CountInv, NoneForgotten, TypeOK', Special
    PROVE  CountInv'
<1> SUFFICES ASSUME Counts' PROVE CountInv'
  BY DEF CountInv
<1>1. /\ TypeOK /\ CpuTypeOK /\ CpuTypeOK' /\ Nested(Contexts) /\ burst \in Nat /\ burst' \in Nat
  BY DEF ScoreInv, TypeOK
<1>2. Pending' = Pending /\ Load' = Load /\ mainpc' = mainpc
  BY <1>1, BesideCpu, OthersGo DEF Beside
<1>3. Counts /\ Margin[mainpc] \in Int /\ Load \in 0..3
  BY <1>1, <1>2, Margins, LoadIs DEF Counts
<1>4. CASE Pending = {}
  <2>1. Load' = 0 /\ mainpc' \in DOMAIN Margin \ TimerOff
    BY <1>1, <1>2, <1>3, <1>4, LoadIs DEF Counts
  <2>2. Margin[mainpc'] + 1 <= 0 /\ Margin[mainpc'] \in Int
    BY <2>1, Margins
  <2>3. Came(0)' /\ Came(1)'
    BY <1>1, <2>1, <2>2 DEF Came
  <2> QED BY <2>3 DEF CountInv
<1>5. CASE Pending # {}
  <2>1. burst' = burst
    BY <1>5 DEF Special, CatchUp
  <2>2. Came(0)' /\ (Came(1) => Came(1)')
    BY <1>2, <1>3, <2>1 DEF Came, CountInv
  <2>3. CASE intlev > intmask /\ Interrupt(intlev)
    <3>1. intmask' # 0 /\ Vector[intlev] \in DOMAIN Serves
      BY <1>1, <2>3, InterruptServes DEF Interrupt
    <3>2. Unserved'
      BY <1>1, <2>3, <3>1, InterruptPlaces DEF Unserved
    <3> QED BY <2>2, <3>1, <3>2 DEF CountInv
  <2>4. CASE UNCHANGED frameVars /\ ~(intlev > intmask /\ doint) /\ ~(stop /\ intlev > intmask /\ int)
    <3>1. Contexts' = Contexts /\ intmask' = intmask
      BY <2>4 DEF frameVars, Contexts
    <3>2. CASE intmask = 0
      <4>1. ~doint
        BY <1>1, <1>5, <2>4, <3>2, AtLevelZero
      <4>2. Came(1)
        BY <1>3, <3>2, <4>1 DEF CountInv
      <4> QED BY <2>2, <4>2 DEF CountInv
    <3>3. CASE intmask # 0
      BY <1>3, <2>2, <3>1, <3>3 DEF CountInv, Unserved
    <3> QED BY <3>2, <3>3
  <2> QED BY <2>3, <2>4 DEF Special, do_specialties, Running, Stopped
<1> QED BY <1>4, <1>5

LEMMA CountsKept ==
    ASSUME ScoreInv, Requested, CountInv, TimerInv, NoneForgotten, TypeOK', [Next]_vars
    PROVE  CountInv'
<1>1. CASE UNCHANGED vars
  <2>1. /\ UNCHANGED <<intmask, stack, pc, doint, phase, burst>> /\ Load' = Load
        /\ Pending' = Pending
    BY <1>1, LoadKept DEF vars, cpuVars
  <2>2. Contexts' = Contexts /\ mainpc' = mainpc
    BY <2>1 DEF Contexts, mainpc
  <2>3. (Unserved <=> Unserved') /\ (Counts <=> Counts')
    BY <2>1, <2>2 DEF Unserved, Counts
  <2>4. (Came(0) <=> Came(0)') /\ (Came(1) <=> Came(1)')
    BY <2>1, <2>2 DEF Came
  <2> QED BY <2>1, <2>3, <2>4 DEF CountInv
<1>2. CASE Handler /\ pc = "rte"
  <2>1. ReturnFromException
    BY <1>2 DEF Handler, At, Acknowledge, ReadIcr, Player, mylevel3, CountFrame,
                ClearFrame, mylevel4, AcknowledgeAudio, put_string, TellString, MoreAudio
  <2> QED BY <2>1, ReturnCounts
<1> QED BY <1>1, <1>2, MainCounts, TrapCounts, HandlerCounts, SpecialCounts, EventCounts
     DEF Next, Main, MainProgram, TrapHandler

-----------------------------------------------------------------------------
(* The timer and its routine.                                              *)

LEMMA TimerFields ==
    ASSUME TypeOK
    PROVE  /\ score \in ScoreMemory /\ cia \in PlayerTimer
           /\ score.over \in BOOLEAN /\ score.hooked \in BOOLEAN /\ cia.imask \in BOOLEAN
           /\ score.back \in {"playloop", "enable"}
BY DEF TypeOK, ScoreMemory, PlayerTimer

LEMMA MainTimer ==
    ASSUME ScoreInv, TimerInv, TypeOK', MainProgram
    PROVE  TimerInv'
<1> USE DEF TimerInv, At, ScoreMemory, PlayerTimer, Masked, TimerOff
<1>1. /\ TypeOK /\ mainpc = pc
      /\ pc \notin {"playloop", "tellout", "tell"} => mainpc' = pc'
      /\ waittrap => mainpc' = "poll"
      /\ TellOutput => mainpc' = "hook"
      /\ Tell => mainpc' = "remove"
  BY MainGoes DEF ScoreInv
<1>2. CASE Start \/ ClearRequests \/ UserLevel
  BY <1>1, <1>2, TimerFields DEF Start, ClearRequests, UserLevel, INTENA, INTREQ, MoveToSR, Execute
<1>3. CASE MasterOn \/ init_interrupts \/ Disable \/ Enable
  BY <1>1, <1>3, TimerFields DEF MasterOn, init_interrupts, Disable, Enable, INTENA
<1>4. CASE call_init_sound
  BY <1>1, <1>4, TimerFields DEF call_init_sound, INTENA
<1>5. CASE TellOutput \/ waittrap \/ Tell
  BY <1>1, <1>5, TimerFields DEF TellOutput, waittrap, Tell, Trap
<1>6. CASE StartOutput \/ Hook \/ EnableIcr
  BY <1>1, <1>6, TimerFields DEF StartOutput, Hook, EnableIcr, Step
<1>7. CASE EnableInt
  BY <1>1, <1>7, TimerFields DEF EnableInt, INTENA
<1>8. CASE PollInput \/ SetSubSong \/ inputmessagehandled \/ TestChange
  BY <1>1, <1>8, TimerFields DEF PollInput, SetSubSong, inputmessagehandled, TestChange, Step
<1>9. CASE ResetSong \/ Shift \/ ClearData
  <2>1. score'.hooked = score.hooked /\ score'.over = score.over /\ cia' = cia
    BY <1>1, <1>9, TimerFields DEF ResetSong, Shift, ClearData
  <2>2. UNCHANGED <<intena, master>>
    BY <1>9 DEF ResetSong, Shift, ClearData, Step
  <2>3. /\ pc \in {"reset", "shift", "datas"}
        /\ pc = "reset" => pc' = "remove"
        /\ pc # "reset" => pc' \in TimerOff
    BY <1>9 DEF ResetSong, Shift, ClearData, Step
  <2> QED BY <1>1, <2>1, <2>2, <2>3, TimerFields
<1>10. CASE RemoveIcr
  BY <1>1, <1>10, TimerFields DEF RemoveIcr, Step
<1>11. CASE Unhook \/ TestEnd \/ Report \/ ClearEnd
  BY <1>1, <1>11, TimerFields DEF Unhook, TestEnd, Report, ClearEnd, Step
<1> QED BY <1>2, <1>3, <1>4, <1>5, <1>6, <1>7, <1>8, <1>9, <1>10, <1>11 DEF MainProgram

\* The other steps leave alone what the main program set up.
LEMMA OthersTimer ==
    ASSUME TypeOK, TrapHandler \/ Handler \/ Beside
    PROVE  /\ score'.hooked = score.hooked /\ score'.over = score.over
           /\ cia'.imask = cia.imask /\ intena' = intena /\ master' = master
<1> USE DEF ScoreMemory, PlayerTimer, Step
<1>1. CASE ReadFrame \/ newstop \/ CompareFrame
  BY <1>1, TimerFields DEF ReadFrame, newstop, CompareFrame, Stop
<1>2. CASE ReturnFromException \/ Acknowledge \/ ReadIcr \/ Player
  BY <1>2, TimerFields DEF ReturnFromException, Acknowledge, ReadIcr, Player, Rte, INTREQ
<1>3. CASE mylevel3 \/ CountFrame \/ ClearFrame
  BY <1>3, TimerFields DEF mylevel3, CountFrame, ClearFrame, INTREQ
<1>4. CASE mylevel4 \/ AcknowledgeAudio \/ put_string \/ TellString \/ MoreAudio
  BY <1>4, TimerFields DEF mylevel4, AcknowledgeAudio, put_string, TellString, MoreAudio, INTREQ, Trap
<1>5. CASE Beside
  <2>1. intena' = intena /\ master' = master
    BY <1>5, BesideCpu
  <2>2. score' = score /\ cia'.imask = cia.imask
    BY <1>5, TimerFields
       DEF Beside, Special, vsync_handler, AudioPass, Underflow, change_subsong, vars
  <2> QED BY <2>1, <2>2
<1> QED BY <1>1, <1>2, <1>3, <1>4, <1>5 DEF TrapHandler, Handler

LEMMA TimerKept ==
    ASSUME ScoreInv, TimerInv, TypeOK', [Next]_vars
    PROVE  TimerInv'
<1>1. CASE TrapHandler \/ Handler \/ Beside
  <2>1. TypeOK /\ mainpc' = mainpc
    BY <1>1, HandlerGoes, OthersGo DEF ScoreInv, Beside
  <2> QED BY <1>1, <2>1, OthersTimer DEF TimerInv
<1> QED BY <1>1, MainTimer DEF Next, Main, MainProgram, TrapHandler, Beside

LEMMA StopKept ==
    ASSUME ScoreInv, RoutineInv, [Next]_vars
    PROVE  stop' => intmask' = 0 /\ phase' = "special"
<1> USE DEF RoutineInv, At, Execute
<1>1. CASE (phase = "execute" /\ ~stop') \/ UNCHANGED <<stop, intmask, phase>>
  BY <1>1
<1>2. CASE newstop
  BY <1>2 DEF newstop, Stop, MakeFromSR
<1>3. CASE Special
  BY <1>3 DEF Special, do_specialties, Running, Stopped, frameVars
<1>4. CASE vsync_handler \/ AudioPass \/ Underflow \/ change_subsong \/ UNCHANGED vars
  BY <1>1, <1>4 DEF vsync_handler, AudioPass, Underflow, change_subsong, Request, vars, cpuVars
<1>5. CASE ~newstop /\ (MainProgram \/ TrapHandler)
  <2>1. phase = "execute" /\ stop' = stop
    BY <1>5 DEF MainProgram, TrapHandler, Start, ClearRequests, UserLevel, MasterOn, init_interrupts,
         call_init_sound, StartOutput, TellOutput, Hook, EnableIcr, EnableInt, waittrap, PollInput,
         SetSubSong, inputmessagehandled, TestChange, Disable, ResetSong, Enable, RemoveIcr, Shift,
         ClearData, Unhook, TestEnd, Report, Tell, ClearEnd, ReadFrame, CompareFrame,
         Step, INTENA, INTREQ, MoveToSR, Trap
  <2> QED BY <2>1
<1>6. CASE Handler
  <2>1. phase = "execute" /\ stop' = stop
    BY <1>6 DEF Handler, ReturnFromException, Acknowledge, ReadIcr, Player, mylevel3, CountFrame,
         ClearFrame, mylevel4, AcknowledgeAudio, put_string, TellString, MoreAudio, Step, INTREQ, Trap, Rte
  <2> QED BY <2>1
<1> QED BY <1>2, <1>3, <1>4, <1>5, <1>6 DEF Next, Main, MainProgram, TrapHandler

\* The main program lets the timer's interrupt in only with the routine, and
\* takes the routine away in one place.
LEMMA MainRoutine ==
    ASSUME ScoreInv, TimerInv, TypeOK', MainProgram
    PROVE  /\ "PORTS" \in Pending' => "PORTS" \in Pending \/ score'.hooked
           /\ score.hooked => score'.hooked \/ Unhook
<1> USE DEF At, Step, ScoreMemory
<1>1. TypeOK /\ mainpc = pc
  BY MainGoes DEF ScoreInv
<1>2. CASE Start \/ ClearRequests \/ UserLevel
  BY <1>2 DEF Start, ClearRequests, UserLevel, INTENA, INTREQ, MoveToSR, Pending
<1>3. CASE MasterOn \/ init_interrupts \/ call_init_sound
  <2>1. intreq' = intreq /\ (intena' \subseteq intena \cup {"VERTB", "AUD"})
    BY <1>3 DEF MasterOn, init_interrupts, call_init_sound, INTENA
  <2>2. pc \in {"master", "vectors"} \/ master' = master
    BY <1>3 DEF MasterOn, init_interrupts, call_init_sound, INTENA, MasterAfterInit
  <2>3. pc \in {"master", "vectors"} => "PORTS" \notin intena
    BY <1>1 DEF TimerInv
  <2>4. score'.hooked = score.hooked
    BY <1>1, <1>3, TimerFields DEF MasterOn, init_interrupts, call_init_sound
  <2> QED BY <2>1, <2>2, <2>3, <2>4 DEF Pending
<1>4. CASE EnableInt \/ Enable
  <2>1. score.hooked
    BY <1>1, <1>4 DEF TimerInv, EnableInt, Enable
  <2>2. score'.hooked = score.hooked
    BY <1>1, <1>4, TimerFields DEF EnableInt, Enable
  <2> QED BY <2>1, <2>2
<1>5. CASE Disable
  <2>1. ~master' /\ score'.hooked = score.hooked
    BY <1>1, <1>5, TimerFields DEF Disable, INTENA
  <2> QED BY <2>1 DEF Pending
<1>6. ASSUME UNCHANGED <<intreq, intena, master>>, score.hooked => score'.hooked \/ Unhook
      PROVE  /\ "PORTS" \in Pending' => "PORTS" \in Pending \/ score'.hooked
             /\ score.hooked => score'.hooked \/ Unhook
  BY <1>6 DEF Pending
<1>7. CASE TellOutput \/ waittrap \/ Tell
  BY <1>1, <1>6, <1>7, TimerFields DEF TellOutput, waittrap, Tell, Trap
<1>8. CASE StartOutput \/ Hook \/ EnableIcr \/ PollInput \/ SetSubSong \/ inputmessagehandled \/ TestChange
  <2>1. UNCHANGED <<intreq, intena, master>>
    BY <1>8 DEF StartOutput, Hook, EnableIcr, PollInput, SetSubSong, inputmessagehandled, TestChange
  <2>2. score.hooked => score'.hooked
    BY <1>1, <1>8, TimerFields
       DEF StartOutput, Hook, EnableIcr, PollInput, SetSubSong, inputmessagehandled, TestChange
  <2> QED BY <1>6, <2>1, <2>2
<1>9. CASE ResetSong \/ RemoveIcr \/ Shift \/ ClearData \/ Unhook \/ TestEnd \/ Report \/ ClearEnd
  <2>1. UNCHANGED <<intreq, intena, master>>
    BY <1>9 DEF ResetSong, RemoveIcr, Shift, ClearData, Unhook, TestEnd, Report, ClearEnd
  <2>2. score.hooked => score'.hooked \/ Unhook
    BY <1>1, <1>9, TimerFields
       DEF ResetSong, RemoveIcr, Shift, ClearData, TestEnd, Report, ClearEnd
  <2> QED BY <1>6, <2>1, <2>2
<1> QED BY <1>2, <1>3, <1>4, <1>5, <1>7, <1>8, <1>9 DEF MainProgram

\* What is left to show of the steps: the routine is there or four events came.
Called == score.hooked \/ burst >= 4

LEMMA MainCalled ==
    ASSUME ScoreInv, CountInv, TimerInv, RoutineInv, NoneForgotten, TypeOK', MainProgram
    PROVE  "PORTS" \in Pending' => Called'
<1> SUFFICES ASSUME "PORTS" \in Pending', ~score'.hooked PROVE burst' >= 4
  BY DEF Called
<1>1. /\ TypeOK /\ CpuTypeOK /\ Nested(Contexts) /\ burst \in Nat /\ Load \in 0..3
      /\ "PORTS" \in Pending => Load >= 1
  BY LoadIs DEF ScoreInv, TypeOK
<1>2. "PORTS" \in Pending /\ (score.hooked => Unhook)
  BY MainRoutine
<1>3. burst' = burst
  BY <1>1, <1>2, MainCpu DEF CatchUp
<1>4. CASE ~score.hooked
  BY <1>2, <1>3, <1>4 DEF RoutineInv
<1>5. CASE Unhook
  <2>1. mainpc = "unhook" /\ pc = "unhook"
    BY <1>1, MainGoes, <1>5 DEF Unhook, At
  <2>2. intmask = 0 /\ phase = "execute"
    BY <1>1, <2>1, MainCpu DEF Masked
  <2>3. Counts
    BY <1>2, <2>1, Margins DEF Counts
  <2>4. Came(1)
    BY <2>2, <2>3 DEF CountInv
  <2> QED BY <1>1, <1>2, <1>3, <2>1, <2>4, Margins DEF Came
<1> QED BY <1>2, <1>4, <1>5

LEMMA HandlerCalled ==
    ASSUME ScoreInv, Requested, RoutineInv, TypeOK', Handler
    PROVE  /\ "PORTS" \in Pending' => Called'
           /\ Place(Contexts', Level2Labels) => Called'
<1>1. /\ TypeOK /\ CpuTypeOK /\ Nested(Contexts)
      /\ score'.hooked = score.hooked
  BY OthersTimer DEF ScoreInv, TypeOK
<1>2. CASE pc = "rte"
  <2>1. Rte /\ burst' = burst
    BY <1>2, Kinds DEF Handler, ReturnFromException, At, CatchUp, Acknowledge, ReadIcr, Player, mylevel3,
         CountFrame, ClearFrame, mylevel4, AcknowledgeAudio, put_string, TellString, MoreAudio
  <2>2. Pending' = Pending
    BY <2>1, LoadKept DEF Rte
  <2>3. Place(Contexts', Level2Labels) => Place(Contexts, Level2Labels)
    BY <1>1, <2>1, ReturnPlaces, PlaceNow
  <2> QED BY <1>1, <2>1, <2>2, <2>3 DEF RoutineInv, Called
<1>3. CASE pc # "rte"
  <2>1. burst' = burst /\ Pending' \subseteq Pending
    BY <1>1, <1>3, HandlerCpu, AcknowledgeTakes, OthersServe
  <2>2. pc' \in Level2Labels => pc \in Level2Labels
    <3>1. CASE Acknowledge \/ ReadIcr \/ Player
      BY <3>1 DEF Acknowledge, ReadIcr, Player, At, Level2Labels
    <3>2. CASE mylevel3 \/ CountFrame \/ ClearFrame \/ mylevel4
      BY <3>2 DEF mylevel3, CountFrame, ClearFrame, mylevel4, Step, INTREQ, Level2Labels
    <3>3. CASE AcknowledgeAudio \/ put_string \/ TellString \/ MoreAudio
      BY <3>3 DEF AcknowledgeAudio, put_string, TellString, MoreAudio, Step, INTREQ, Trap, Level2Labels
    <3> QED BY <1>3, <3>1, <3>2, <3>3 DEF Handler, ReturnFromException, At
  <2>3. "audiomore" \notin Level2Labels
    BY DEF Level2Labels
  <2>4. Place(Contexts', Level2Labels) => Place(Contexts, Level2Labels)
    BY <1>1, <1>3, <2>2, <2>3, HandlerPlaces, PlaceNow
  <2> QED BY <1>1, <2>1, <2>4 DEF RoutineInv, Called
<1> QED BY <1>2, <1>3

LEMMA SpecialCalled ==
    ASSUME ScoreInv, RoutineInv, TypeOK', Special
    PROVE  /\ "PORTS" \in Pending' => Called'
           /\ Place(Contexts', Level2Labels) => Called'
<1>1. /\ TypeOK /\ CpuTypeOK /\ CpuTypeOK' /\ Nested(Contexts)
      /\ score' = score /\ Pending' = Pending
  BY BesideCpu DEF ScoreInv, TypeOK, Special, Beside
<1>2. "PORTS" \in Pending' => Called'
  BY <1>1 DEF RoutineInv, Called, Special, CatchUp
<1>3. ASSUME Place(Contexts', Level2Labels) PROVE Called'
  <2>1. CASE intlev > intmask /\ Interrupt(intlev)
    <3>1. Pending # {} /\ burst' = burst
      BY <1>1, <2>1, InterruptServes DEF Special, CatchUp
    <3>2. "PORTS" \in Pending \/ Place(Contexts, Level2Labels)
      BY <1>1, <1>3, <2>1, InterruptPlaces, InterruptServes
    <3> QED BY <1>1, <3>1, <3>2 DEF RoutineInv, Called
  <2>2. CASE UNCHANGED frameVars
    <3>1. Contexts' = Contexts
      BY <2>2 DEF frameVars, Contexts
    <3>2. ~stop
      <4>1. Place(Contexts, HandlerLabels)
        BY <1>3, <3>1 DEF Place, HandlerLabels
      <4>2. Contexts # <<>> /\ Contexts \in Seq(Frame) /\ Contexts[1].mask = intmask
        BY <1>1, ContextsAre
      <4>3. intmask # 0
        BY <1>1, <4>1, <4>2, NoneQuiet
      <4> QED BY <4>3 DEF RoutineInv
    <3>3. burst' = burst
      BY <3>2 DEF Special, CatchUp
    <3> QED BY <1>1, <1>3, <3>1, <3>3 DEF RoutineInv, Called
  <2> QED BY <1>1, <2>1, <2>2, BesideCpu DEF Beside
<1> QED BY <1>2, <1>3

LEMMA EventCalled ==
    ASSUME ScoreInv, TimerInv, RoutineInv, TypeOK',
           vsync_handler \/ AudioPass \/ Underflow \/ change_subsong
    PROVE  /\ "PORTS" \in Pending' => Called'
           /\ Place(Contexts', Level2Labels) => Called'
<1>1. burst \in Nat /\ burst' = burst + 1 /\ score' = score
  <2>1. burst \in Nat
    BY DEF ScoreInv, TypeOK
  <2>2. burst' = burst + 1 /\ score' = score
    BY DEF vsync_handler, AudioPass, Underflow, change_subsong, Event
  <2> QED BY <2>1, <2>2
<1>2. Contexts' = Contexts
  <2>1. UNCHANGED <<intmask, stack, pc>>
    BY DEF vsync_handler, AudioPass, Underflow, change_subsong, Request, cpuVars
  <2> QED BY <2>1 DEF Contexts
<1>3. "PORTS" \in Pending' => "PORTS" \in Pending \/ score.hooked
  <2>1. CASE UNCHANGED cpuVars
    BY <2>1 DEF cpuVars, Pending
  <2>2. CASE vsync_handler \/ AudioPass
    BY <2>2 DEF vsync_handler, AudioPass, Request, Pending
  <2>3. CASE Underflow /\ cia.imask
    BY <2>3 DEF TimerInv
  <2> QED BY <2>1, <2>2, <2>3 DEF Underflow, change_subsong
<1> QED BY <1>1, <1>2, <1>3 DEF RoutineInv, Called

LEMMA RoutineKept ==
    ASSUME ScoreInv, ZeroInv, NoneForgotten, TypeOK', [Next]_vars
    PROVE  RoutineInv'
<1>1. stop' => intmask' = 0 /\ phase' = "special"
  BY StopKept DEF ZeroInv
<1>2. CASE MainProgram \/ TrapHandler
  <2>1. ~Place(Contexts', HandlerLabels)
    BY <1>2, NoHandlerRuns DEF ScoreInv
  <2>2. ~Place(Contexts', Level2Labels)
    BY <2>1 DEF Place, HandlerLabels
  <2>3. CASE MainProgram
    BY <1>1, <2>2, <2>3, MainCalled DEF ZeroInv, RoutineInv, Called
  <2>4. CASE TrapHandler
    <3>1. UNCHANGED <<intreq, intena, master>> /\ score'.hooked = score.hooked
      BY <2>4, OthersTimer DEF ScoreInv, TrapHandler, ReadFrame, newstop, CompareFrame, Step, Stop
    <3>2. Pending' = Pending /\ CatchUp(TRUE)
      BY <2>4, <3>1, LoadKept, MainCpu DEF ScoreInv
    <3> QED BY <1>1, <2>2, <3>1, <3>2 DEF ZeroInv, RoutineInv, CatchUp
  <2> QED BY <1>2, <2>3, <2>4
<1>3. CASE Handler
  BY <1>1, <1>3, HandlerCalled DEF ZeroInv, RoutineInv, Called
<1>4. CASE Special
  BY <1>1, <1>4, SpecialCalled DEF ZeroInv, RoutineInv, Called
<1>5. CASE vsync_handler \/ AudioPass \/ Underflow \/ change_subsong
  BY <1>1, <1>5, EventCalled DEF ZeroInv, RoutineInv, Called
<1>6. CASE UNCHANGED vars
  <2>1. UNCHANGED <<intreq, intena, master, intmask, stack, pc, score, burst>>
    BY <1>6 DEF vars, cpuVars
  <2>2. Contexts' = Contexts /\ Pending' = Pending
    BY <2>1, LoadKept DEF Contexts
  <2> QED BY <1>1, <2>1, <2>2 DEF ZeroInv, RoutineInv
<1> QED BY <1>2, <1>3, <1>4, <1>5, <1>6 DEF Next, Main, MainProgram, TrapHandler

-----------------------------------------------------------------------------
(* The routine is called where it is.                                      *)

LEMMA ZeroInit == Init => ZeroInv
<1> SUFFICES ASSUME Init PROVE ZeroInv
  OBVIOUS
<1>1. /\ stack = <<>> /\ pc = "start" /\ Pending = {} /\ "PORTS" \notin intena /\ CpuTypeOK
      /\ stop = FALSE /\ master = FALSE /\ cia.imask = FALSE
  BY TypeInit DEF Init, CpuInit, Pending, TypeOK
<1>2. mainpc = "start" /\ pc \notin HandlerLabels
  BY <1>1 DEF mainpc, HandlerLabels, Level2Labels, Level3Labels, Level4Labels
<1>3. ~Place(stack, HandlerLabels)
  BY <1>1 DEF Place
<1>4. ~Place(Contexts, HandlerLabels)
  BY <1>1, <1>2, <1>3, PlaceNow
<1>5. ~Place(Contexts, Level2Labels) /\ \A source : ~Place(Contexts, Owners(source))
  BY <1>4, OwnersAre DEF Place, HandlerLabels
<1>6. Requested /\ RoutineInv
  BY <1>1, <1>4, <1>5 DEF Requested, RoutineInv
<1>7. CountInv
  BY <1>2, Margins DEF CountInv, Counts
<1>8. TimerInv
  BY <1>1, <1>2 DEF TimerInv, TimerOff, Masked
<1> QED BY <1>6, <1>7, <1>8 DEF ZeroInv

LEMMA ZeroStep == ScoreInv /\ NoneForgotten /\ ZeroInv /\ [Next]_vars => ZeroInv'
<1> SUFFICES ASSUME ScoreInv, NoneForgotten, ZeroInv, [Next]_vars PROVE ZeroInv'
  OBVIOUS
<1>1. TypeOK'
  BY TypeStep DEF ScoreInv
<1> QED BY <1>1, RequestedKept, CountsKept, TimerKept, RoutineKept DEF ZeroInv

\* The player's routine, called by its timer's interrupt, is not called through a
\* vector that is cleared, as long as no more than three events have come since
\* nothing was pending: the interrupt that was pending when the timer was disabled
\* is taken before, for each instruction up to that lets one in.
THEOREM ZeroIsNeverCalled == Spec => []NeverCallsZero
<1>1. ScoreInv /\ ZeroInv => NeverCallsZero
  <2> SUFFICES ASSUME ScoreInv, ZeroInv, pc = "player", burst <= 3 PROVE score.hooked
    BY DEF NeverCallsZero
  <2>1. CpuTypeOK /\ burst \in Nat /\ pc \in Level2Labels
    BY DEF ScoreInv, TypeOK, Level2Labels
  <2>2. Place(Contexts, Level2Labels)
    BY <2>1, PlaceNow
  <2> QED BY <2>1, <2>2 DEF ZeroInv, RoutineInv
<1> QED BY <1>1, ZeroInit, ZeroStep, ScoreInvariant, ScoreForgetsNone, PTL DEF Spec
=============================================================================
