-------------------------------- MODULE Score --------------------------------
(***************************************************************************)
(* The sound core of the Amiga side (amigasrc/score/score.s) on the        *)
(* emulated CPU: its main loop, its interrupt handlers, and what it and    *)
(* the emulator tell each other through memory (uade.c).  The player is    *)
(* one with a DTP_Interrupt routine, called by a timer of CIA A, and       *)
(* without routines for the next and the previous subsong.                 *)
(*                                                                         *)
(* An action is one instruction wherever another party can see or change   *)
(* what it touches; between two of them handlers may run and events come.  *)
(***************************************************************************)
EXTENDS Interrupts

CONSTANTS
    Subsongs,
    Burst \* most events before the CPU has caught up with all of them

MainLabels ==
    {"start", "intreq", "user", "master", "vectors", "initsound", "output", "tellout",
     "hook", "enableicr", "enableint", "playloop", "poll", "input", "clear", "changed", "disable", "reset", "remove", "shift", "datas", "unhook",
     "enable", "ended", "report", "tell", "clearend", "wait", "stop", "compare"}
Level2Labels == {"level2", "readicr", "player"}
Level3Labels == {"level3", "count", "vclear"}
Level4Labels == {"level4", "audioack", "audiosay", "audiotell", "audiomore"}
HandlerLabels == Level2Labels \cup Level3Labels \cup Level4Labels
HandlerLevel ==
    [label \in HandlerLabels |->
        IF label \in Level2Labels THEN 2 ELSE IF label \in Level3Labels THEN 3 ELSE 4]

ASSUME ScoreAssumption ==
    /\ Sources = {"PORTS", "VERTB", "AUD"}
    /\ Level["PORTS"] = 2 /\ Level["VERTB"] = 3 /\ Level["AUD"] = 4
    /\ Vector[2] = "level2" /\ Vector[3] = "level3" /\ Vector[4] = "level4"
    /\ MainLabels \cup HandlerLabels \cup {"rte"} \subseteq Labels
    /\ Subsongs # {} /\ Burst \in Nat \ {0}

VARIABLES
    score, \* memory of the score.  over: in the loop after the end of a song;
           \* newframe: framecount is not what waittrap read; first: the first
           \* subsong is set up; back: where the set-up of a subsong returns to
    cia,   \* the player's timer: started, its bits of ciaaicr and ciaaimask
    mail,  \* the messages at $200 and $300, and $120, which is song.cur_subsong
    hist,  \* history: see Init
    burst  \* events since the main program last found nothing pending

vars == <<cpuVars, score, cia, mail, hist, burst>>

\* playing: the subsong of the last InitSound; late: the last request came while
\* another was being handled; told: the emulator knows of the song's end; said: the
\* song has had its message of an audio interrupt without a handler; replaced: that
\* was written over the message of the song's end before the emulator read it.
Init ==
    /\ CpuInit /\ pc = "start"
    /\ \E s \in Subsongs :
          /\ score = [booted |-> FALSE, over |-> FALSE, hooked |-> FALSE, newframe |-> FALSE,
                      songend |-> FALSE, change |-> FALSE, cursubsong |-> s, virgin |-> TRUE,
                      first |-> TRUE, back |-> "playloop"]
          /\ mail = [out |-> "none", in |-> FALSE, wanted |-> s]
          /\ hist = [playing |-> s, late |-> FALSE, told |-> FALSE, said |-> FALSE,
                     replaced |-> FALSE]
    /\ cia = [started |-> FALSE, icr |-> FALSE, imask |-> FALSE]
    /\ burst = 0

CatchUp(main) == burst' = IF main /\ Pending = {} THEN 0 ELSE burst

\* The next instruction is at "label".
At(label) == pc = label /\ CatchUp(label \in MainLabels)

\* Where the main program is, though a handler may be running.
mainpc == IF stack = <<>> THEN pc ELSE stack[Len(stack)].pc

\* trap #5: the emulator reads the message before the CPU takes the exception,
\* whose handler is an rte.
uade_get_amiga_message ==
    hist' = IF mail.out = "SONG_END" THEN [hist EXCEPT !.told = TRUE] ELSE hist

-----------------------------------------------------------------------------
(* Start-up, as far as it bears on interrupts.                             *)

Start == At("start") /\ INTENA({}, FALSE, "intreq") /\ UNCHANGED <<score, cia, mail, hist>>
ClearRequests == At("intreq") /\ INTREQ(Sources, "user") /\ UNCHANGED <<score, cia, mail, hist>>
UserLevel == At("user") /\ MoveToSR(0, "master") /\ UNCHANGED <<score, cia, mail, hist>>
MasterOn == At("master") /\ INTENA(intena, TRUE, "vectors") /\ UNCHANGED <<score, cia, mail, hist>>

init_interrupts ==
    /\ At("vectors") /\ INTENA(intena \cup {"VERTB"}, TRUE, "initsound")
    /\ score' = [score EXCEPT !.booted = TRUE]
    /\ UNCHANGED <<cia, mail, hist>>

\* call_init_sound: the player may switch all interrupts off, or enable those of
\* the audio channels.  Variant: what it switched off stays off.
MasterLeftOff(off) == master /\ ~off
MasterAfterInit(off) == master

call_init_sound ==
    /\ At("initsound")
    /\ \E off, audio \in BOOLEAN :
          INTENA(intena \cup (IF audio THEN {"AUD"} ELSE {}), MasterAfterInit(off),
                 IF score.first THEN "output" ELSE "hook")
    /\ hist' = [hist EXCEPT !.playing = score.cursubsong]
    /\ UNCHANGED <<score, cia, mail>>

\* "tell the simulator that audio output should start now"
StartOutput ==
    /\ At("output") /\ Step("tellout")
    /\ mail' = [mail EXCEPT !.out = "START_OUTPUT"]
    /\ UNCHANGED <<score, cia, hist>>

TellOutput ==
    /\ At("tellout") /\ Trap("rte", "hook") /\ uade_get_amiga_message
    /\ score' = [score EXCEPT !.first = FALSE]
    /\ UNCHANGED <<cia, mail>>

\* set_player_interrupt: add_ciaa_interrupt
Hook ==
    /\ At("hook") /\ Step("enableicr")
    /\ score' = [score EXCEPT !.hooked = TRUE]
    /\ UNCHANGED <<cia, mail, hist>>

EnableIcr ==
    /\ At("enableicr") /\ Step("enableint")
    /\ cia' = [cia EXCEPT !.imask = TRUE, !.started = TRUE]
    /\ UNCHANGED <<score, mail, hist>>

EnableInt ==
    /\ At("enableint") /\ INTENA(intena \cup {"PORTS"}, master, score.back)
    /\ score' = [score EXCEPT !.over = FALSE]
    /\ hist' = IF score.over THEN [hist EXCEPT !.told = FALSE, !.replaced = FALSE] ELSE hist
    /\ UNCHANGED <<cia, mail>>

-----------------------------------------------------------------------------
(* The main loop (playloop), and the one that follows the end of a song.   *)

\* waittrap: trap #4, and its handler waittrapvector.
waittrap == At("playloop") /\ Trap("wait", "poll") /\ UNCHANGED <<score, cia, mail, hist>>

ReadFrame ==
    /\ At("wait") /\ Step("stop")
    /\ score' = [score EXCEPT !.newframe = FALSE]
    /\ UNCHANGED <<cia, mail, hist>>

newstop == At("stop") /\ Stop(0, "compare") /\ UNCHANGED <<score, cia, mail, hist>>

CompareFrame ==
    /\ At("compare") /\ Step(IF score.newframe THEN "rte" ELSE "stop")
    /\ UNCHANGED <<score, cia, mail, hist>>

\* inputmessagehandler: $120 is read, and $300 cleared when it is handled.
PollInput ==
    /\ At("poll")
    /\ Step(IF mail.in THEN "input" ELSE IF score.over THEN "playloop" ELSE "changed")
    /\ UNCHANGED <<score, cia, mail, hist>>

\* Variant: the bit that asks for the change is not set.
SetSubSongOnly ==
    /\ At("input") /\ Step("clear")
    /\ score' = [score EXCEPT !.cursubsong = mail.wanted]
    /\ UNCHANGED <<cia, mail, hist>>

SetSubSong ==
    /\ At("input") /\ Step("clear")
    /\ score' = [score EXCEPT !.cursubsong = mail.wanted, !.change = TRUE]
    /\ UNCHANGED <<cia, mail, hist>>

inputmessagehandled ==
    /\ At("clear") /\ Step(IF score.over THEN "initsound" ELSE "changed")
    /\ mail' = [mail EXCEPT !.in = FALSE]
    /\ UNCHANGED <<score, cia, hist>>

TestChange ==
    /\ At("changed") /\ Step(IF score.change THEN "disable" ELSE "ended")
    /\ score' = [score EXCEPT !.change = FALSE]
    /\ UNCHANGED <<cia, mail, hist>>

Disable ==
    /\ At("disable") /\ INTENA(intena, FALSE, "reset")
    /\ score' = [score EXCEPT !.back = "enable"]
    /\ UNCHANGED <<cia, mail, hist>>

ResetSong ==
    /\ At("reset") /\ Step("remove")
    /\ score' = [score EXCEPT !.songend = FALSE, !.virgin = TRUE]
    /\ hist' = [hist EXCEPT !.said = FALSE]
    /\ UNCHANGED <<cia, mail>>

Enable == At("enable") /\ INTENA(intena, TRUE, "ended") /\ UNCHANGED <<score, cia, mail, hist>>

\* call_stop_int: rem_ciaa_interrupt.  Variant: the timer is not disabled.
RemoveNothing == At("remove") /\ Step("shift") /\ UNCHANGED <<score, cia, mail, hist>>

RemoveIcr ==
    /\ At("remove") /\ Step("shift")
    /\ cia' = [cia EXCEPT !.imask = FALSE]
    /\ UNCHANGED <<score, mail, hist>>

Shift == At("shift") /\ Step("datas") /\ UNCHANGED <<score, cia, mail, hist>>
ClearData == At("datas") /\ Step("unhook") /\ UNCHANGED <<score, cia, mail, hist>>

Unhook ==
    /\ At("unhook") /\ Step(IF score.over THEN "clearend" ELSE "initsound")
    /\ score' = [score EXCEPT !.hooked = FALSE]
    /\ UNCHANGED <<cia, mail, hist>>

TestEnd ==
    /\ At("ended") /\ Step(IF score.songend THEN "report" ELSE "playloop")
    /\ UNCHANGED <<score, cia, mail, hist>>

\* end_song: put_message_by_value, and what is done once it is told.
Report ==
    /\ At("report") /\ Step("tell")
    /\ mail' = [mail EXCEPT !.out = "SONG_END"]
    /\ UNCHANGED <<score, cia, hist>>

Tell ==
    /\ At("tell") /\ Trap("rte", "remove") /\ uade_get_amiga_message
    /\ score' = [score EXCEPT !.over = TRUE, !.back = "playloop"]
    /\ UNCHANGED <<cia, mail>>

ClearEnd ==
    /\ At("clearend") /\ Step("playloop")
    /\ score' = [score EXCEPT !.songend = FALSE]
    /\ UNCHANGED <<cia, mail, hist>>

-----------------------------------------------------------------------------
(* The handlers.                                                           *)

ReturnFromException == At("rte") /\ Rte /\ UNCHANGED <<score, cia, mail, hist>>

\* ciaa_interrupt: "IS THIS RIGHT? Should we hit intreq+custom after the
\* interrupt is executed?"
Acknowledge == At("level2") /\ INTREQ({"PORTS"}, "readicr") /\ UNCHANGED <<score, cia, mail, hist>>

ReadIcr ==
    /\ At("readicr") /\ Step(IF cia.icr THEN "player" ELSE "rte")
    /\ cia' = [cia EXCEPT !.icr = FALSE]
    /\ UNCHANGED <<score, mail, hist>>

\* The player's routine, which may call endsongfunc.
Player ==
    /\ At("player") /\ Step("rte")
    /\ \E end \in BOOLEAN : score' = [score EXCEPT !.songend = @ \/ end]
    /\ UNCHANGED <<cia, mail, hist>>

\* mylevel3; it has no servers of a player.
mylevel3 ==
    /\ At("level3") /\ Step(IF "VERTB" \in intreq THEN "count" ELSE "vclear")
    /\ UNCHANGED <<score, cia, mail, hist>>

CountFrame ==
    /\ At("count") /\ Step("vclear")
    /\ score' = [score EXCEPT !.newframe = TRUE]
    /\ UNCHANGED <<cia, mail, hist>>

ClearFrame == At("vclear") /\ INTREQ({"VERTB"}, "rte") /\ UNCHANGED <<score, cia, mail, hist>>

\* mylevel4, for channels without a handler: the first time it says so.
mylevel4 ==
    /\ At("level4") /\ Step(IF "AUD" \in intena \cap intreq THEN "audioack" ELSE "audiomore")
    /\ UNCHANGED <<score, cia, mail, hist>>

\* Variant: it says so every time.
AcknowledgeEvery ==
    /\ At("audioack") /\ INTREQ({"AUD"}, "audiosay")
    /\ UNCHANGED <<score, cia, mail, hist>>

AcknowledgeAudio ==
    /\ At("audioack") /\ INTREQ({"AUD"}, IF score.virgin THEN "audiosay" ELSE "audiomore")
    /\ score' = [score EXCEPT !.virgin = FALSE]
    /\ UNCHANGED <<cia, mail, hist>>

put_string ==
    /\ At("audiosay") /\ Step("audiotell")
    /\ mail' = [mail EXCEPT !.out = "GENERALMSG"]
    /\ hist' = [hist EXCEPT !.said = TRUE,
                            !.replaced = @ \/ (mainpc = "tell" /\ ~hist.said)]
    /\ UNCHANGED <<score, cia>>

TellString ==
    /\ At("audiotell") /\ Trap("rte", "audiomore") /\ uade_get_amiga_message
    /\ UNCHANGED <<score, cia, mail>>

MoreAudio ==
    /\ At("audiomore") /\ Step(IF "AUD" \in intena \cap intreq THEN "audioack" ELSE "rte")
    /\ UNCHANGED <<score, cia, mail, hist>>

-----------------------------------------------------------------------------
(* The chips and the emulator, between two instructions.                   *)

Event == burst < Burst /\ burst' = burst + 1

vsync_handler == Event /\ Request({"VERTB"}) /\ UNCHANGED <<score, cia, mail, hist>>

\* The end of a channel's pass, in audio_handler().
AudioPass == Event /\ Request({"AUD"}) /\ UNCHANGED <<score, cia, mail, hist>>

\* RethinkICRA() after an underflow.  Variant: only the first of several
\* underflows requests an interrupt.
UnderflowOnce ==
    /\ Event /\ phase = "special" /\ cia.started
    /\ cia' = [cia EXCEPT !.icr = TRUE]
    /\ IF cia.imask /\ ~cia.icr THEN Request({"PORTS"}) ELSE UNCHANGED cpuVars
    /\ UNCHANGED <<score, mail, hist>>

Underflow ==
    /\ Event /\ phase = "special" /\ cia.started
    /\ cia' = [cia EXCEPT !.icr = TRUE]
    /\ IF cia.imask THEN Request({"PORTS"}) ELSE UNCHANGED cpuVars
    /\ UNCHANGED <<score, mail, hist>>

\* A command of the frontend, taken when a sound buffer is full.
change_subsong ==
    /\ Event /\ phase = "special" /\ score.booted
    /\ \E s \in Subsongs : mail' = [mail EXCEPT !.wanted = s, !.in = TRUE]
    /\ hist' = [hist EXCEPT !.late = mainpc = "clear"]
    /\ UNCHANGED <<cpuVars, score, cia>>

Special ==
    /\ do_specialties
    /\ CatchUp(stop)
    /\ UNCHANGED <<score, cia, mail, hist>>

Main ==
    \/ Start \/ ClearRequests \/ UserLevel \/ MasterOn \/ init_interrupts
    \/ call_init_sound \/ StartOutput \/ TellOutput \/ Hook \/ EnableIcr \/ EnableInt
    \/ waittrap \/ ReadFrame \/ newstop \/ CompareFrame
    \/ PollInput \/ SetSubSong \/ inputmessagehandled
    \/ TestChange \/ Disable \/ ResetSong \/ Enable \/ RemoveIcr \/ Shift \/ ClearData \/ Unhook
    \/ TestEnd \/ Report \/ Tell \/ ClearEnd

Handler ==
    \/ ReturnFromException \/ Acknowledge \/ ReadIcr \/ Player
    \/ mylevel3 \/ CountFrame \/ ClearFrame
    \/ mylevel4 \/ AcknowledgeAudio \/ put_string \/ TellString \/ MoreAudio

Next ==
    \/ Main \/ Handler \/ Special
    \/ vsync_handler \/ AudioPass \/ Underflow \/ change_subsong

\* The CPU runs; frames and the timer come again and again, however the CPU's
\* instructions fall between them.
Spec == Init /\ [][Next]_vars
FairSpec ==
    /\ Spec
    /\ WF_vars(Main \/ Handler \/ Special)
    /\ SF_vars(vsync_handler) /\ SF_vars(Underflow)

-----------------------------------------------------------------------------
(* What must hold.                                                         *)

ScoreMemory ==
    [booted : BOOLEAN, over : BOOLEAN, hooked : BOOLEAN, newframe : BOOLEAN, songend : BOOLEAN,
     change : BOOLEAN, cursubsong : Subsongs, virgin : BOOLEAN, first : BOOLEAN,
     back : {"playloop", "enable"}]
PlayerTimer == [started : BOOLEAN, icr : BOOLEAN, imask : BOOLEAN]
Mailbox == [out : {"none", "START_OUTPUT", "SONG_END", "GENERALMSG"}, in : BOOLEAN, wanted : Subsongs]
History ==
    [playing : Subsongs, late : BOOLEAN, told : BOOLEAN, said : BOOLEAN, replaced : BOOLEAN]

TypeOK ==
    /\ CpuTypeOK
    /\ score \in ScoreMemory /\ cia \in PlayerTimer
    /\ mail \in Mailbox /\ hist \in History /\ burst \in 0..Burst

SettingUp == {"disable", "reset", "remove", "shift", "datas", "unhook", "initsound"}

\* Where the CPU is, and where it was when it was interrupted, newest first.
Places == <<pc>> \o [i \in 1..Len(stack) |-> stack[i].pc]

\* Handlers keep their registers on the stack but share the score's memory and the
\* message buffer: none is entered again before it is done, and each is interrupted
\* by those of higher levels only.
NestedByLevel ==
    \A i \in DOMAIN Places : \A j \in i+1..Len(Places) :
        {Places[i], Places[j]} \subseteq HandlerLabels => HandlerLevel[Places[i]] > HandlerLevel[Places[j]]

\* The player's routine is called through a vector that call_stop_int sets to 0
\* three instructions after it disabled the timer, which runs on.  An interrupt
\* that was pending then is taken before, unless others keep coming between the
\* instructions: three events are not enough for that.
NeverCallsZero == pc = "player" /\ burst <= 3 => score.hooked

\* The subsong asked for last is played, or its request is somewhere: in the
\* mailbox, or taken and not yet set up.  The exception is one that falls between
\* the last look at $120 and the clearing of $300: it is dropped.
RequestIsKept ==
    mail.wanted # hist.playing =>
        \/ mail.in \/ hist.late
        \/ score.cursubsong = mail.wanted /\ (score.change \/ mainpc \in SettingUp)

\* "FIRST: report that song has ended": when the score waits for another subsong
\* the emulator knows that this one is over.  The exception is a window of two
\* instructions, once in a song: the message of its first audio interrupt without a
\* handler is written between the one that writes the end and the trap.
SongEndIsTold == score.over /\ pc = "playloop" => hist.told \/ hist.replaced

\* The stopped CPU wakes up, and waittrap returns, however an interrupt falls
\* between reading the frame counter, the stop, and the comparison.
Waiting == \E i \in DOMAIN Places : Places[i] \in {"wait", "stop", "compare"}
WaitReturns == Waiting ~> ~Waiting

\* The player's timer is served whatever is pending when it is enabled, and when
\* it underflows while its handler runs.
TimerIsServed == cia.icr /\ cia.imask ~> ~(cia.icr /\ cia.imask)
=============================================================================
