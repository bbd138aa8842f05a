----------------------------- MODULE UadeSession -----------------------------
(***************************************************************************)
(* The native two-process player: uadecore (src/src/uade.c and the main    *)
(* loop m68k_go() of newcpu.c) and a frontend that drives it with the      *)
(* calls of uadecontrol.c, over the message layer of UadeIpc.              *)
(*                                                                         *)
(* The core is a state machine of the places where it blocks or talks.     *)
(* The 68000 program it emulates is a source of Amiga messages and of      *)
(* audio frames.  The frontend's play loop is not in this repository: it   *)
(* is modelled as the client uadecontrol.c is written for (one READ or     *)
(* one REBOOT per turn) and may in addition die anywhere.                  *)
(***************************************************************************)
EXTENDS Integers, Sequences

CONSTANTS Songs,          \* song numbers the frontend may load; 0 is no song
          Options,        \* the optional commands of uade_song_initialization
          ReadSizes,      \* frames a READ may ask for
          SkipLimit,      \* frames dropped before output starts anyway (3 s)
          InstrPerFrame,  \* Amiga messages possible between two frames
          PipeCapacity,
          None

\* Optional setup commands by the place where the core undoes them.
InAmigaMemory == {"IGNORE_CHECK", "SONG_END_NOT_POSSIBLE", "SET_NTSC"}
ResetByUadeReset == InAmigaMemory \cup {"SPEED_HACK"}
ResetAfterCanPlay == {"SET_FREQUENCY", "SET_PLAYER_OPTION"}
ResetByCustomreset == {"SET_RESAMPLING_MODE", "USE_TEXT_SCOPE"}
AllOptions == ResetByUadeReset \cup ResetAfterCanPlay \cup ResetByCustomreset

ASSUME SessionAssumption ==
    /\ Songs \subseteq Nat \ {0}
    /\ Options \subseteq AllOptions
    /\ ReadSizes \subseteq Nat \ {0}
    /\ SkipLimit \in Nat \ {0} /\ InstrPerFrame \in Nat
    /\ PipeCapacity \in Nat \ {0, 1}

\* A message: its msgtype, a number it carries and the song it is about.
M(type, arg, song) == [type |-> type, arg |-> arg, song |-> song]
Plain(type) == M(type, 0, 0)
Token == Plain("TOKEN")
StringOptions == {"SET_PLAYER_OPTION", "SET_RESAMPLING_MODE"}
NameCommands == {"CONFIG", "SCORE", "PLAYER", "MODULE"}
Msg ==
    {Plain(t) : t \in {"TOKEN", "CONFIG", "SCORE", "PLAYER", "REBOOT", "MSG",
                       "CHANGE_SUBSONG", "CAN_PLAY", "CANT_PLAY"} \cup Options}
    \cup {M("READ", n, 0) : n \in ReadSizes}
    \cup {M(t, 0, s) : t \in {"MODULE", "SONG_END", "SUBSONG_INFO"}, s \in Songs}
    \cup {M("DATA", n, s) : n \in ReadSizes, s \in Songs}
Bodiless == {"TOKEN", "REBOOT", "CAN_PLAY", "CANT_PLAY", "IGNORE_CHECK",
             "SONG_END_NOT_POSSIBLE", "SPEED_HACK", "SET_NTSC", "USE_TEXT_SCOPE"}
WithBody == {m \in Msg : m.type \notin Bodiless}

\* "No message yet" and "no exit status yet" are values of their own.
ASSUME NoneAssumption == None \notin Msg /\ None \notin {0, -1}

VARIABLES
    state, wire, rx, tx, open,   \* the message layer
    kpc,       \* core: where its control is
    loaded,    \* core: the song in Amiga memory, 0 after memset
    readSize,  \* core: uade_read_size, frames still to produce
    filled,    \* core: sndbufpt - sndbuffer, frames
    output,    \* core: uade_audio_output
    skip,      \* core: uade_audio_skip, frames
    reboot,    \* core: uade_reboot
    chatter,   \* core: Amiga messages since the last frame
    active,    \* core: the optional settings in force
    exitCode,  \* core: its exit status, None while it runs
    cpc,       \* client: where its control is
    song,      \* client: the song it is playing
    sent,      \* client: the optional commands it sent for this song
    asked,     \* client: frames its READ asked for, 0 when none is pending
    heard      \* client: frames of DATA received since its last turn

Ipc == INSTANCE UadeIpc
ipcVars == <<state, wire, rx, tx, open>>
coreVars == <<kpc, loaded, readSize, filled, output, skip, reboot, chatter,
              active, exitCode>>
clientVars == <<cpc, song, sent, asked, heard>>
vars == <<ipcVars, coreVars, clientVars>>

Init ==
    /\ Ipc!IpcInit
    /\ kpc = "config" /\ loaded = 0 /\ readSize = 0 /\ filled = 0
    /\ output = FALSE /\ skip = 0 /\ reboot = TRUE /\ chatter = 0
    /\ active = {} /\ exitCode = None
    /\ cpc = "spawn" /\ song = 0 /\ sent = {} /\ asked = 0 /\ heard = 0

-----------------------------------------------------------------------------
(* The core.                                                               *)
CoreAt(pc) == open["core"] /\ kpc = pc /\ tx["core"] = None
CoreReceives(m) == Ipc!ReceiveMessage("core", m) /\ UNCHANGED clientVars

\* Where the core goes after each message it insists on.
NextName == [config |-> "score", score |-> "player", player |-> "module"]
ExpectedName == [config |-> "CONFIG", score |-> "SCORE",
                 player |-> "PLAYER", module |-> "MODULE"]

\* uade_option() and uade_reset() receive the config, score and player names.
CoreReceiveName ==
    /\ kpc \in DOMAIN NextName
    /\ \E m \in Msg : m.type = ExpectedName[kpc] /\ CoreReceives(m)
    /\ kpc' = NextName[kpc]
    /\ UNCHANGED <<loaded, readSize, filled, output, skip, reboot, chatter,
                   active, exitCode>>

\* A plausible slip: memory is not cleared, the song before stays loaded.
SongStaysLoaded(m) == IF loaded = 0 THEN m.song ELSE loaded

\* What Amiga memory holds once the module file of message m is loaded.
SongInMemory(m) == m.song

(***************************************************************************)
(* uade_reset() has the module name: it has cleared the Amiga memory, and  *)
(* loads player, module and score.  On success it resets the per-song      *)
(* state; uade_read_size is left as it is.                                 *)
(***************************************************************************)
CoreLoad ==
    /\ kpc = "module"
    /\ \E m \in Msg :
        /\ m.type = "MODULE"
        /\ CoreReceives(m)
        /\ \/ /\ kpc' = "tokenCan"
              /\ loaded' = SongInMemory(m)
              /\ active' = active \ ResetByUadeReset
              /\ filled' = 0 /\ output' = FALSE /\ skip' = 0 /\ reboot' = FALSE
           \/ /\ kpc' = "tokenCant"         \* goto skiptonextsong
              /\ loaded' = 0
              /\ active' = active \ InAmigaMemory
              /\ UNCHANGED <<filled, output, skip, reboot>>
    /\ UNCHANGED <<readSize, chatter, exitCode>>

CoreReceiveToken ==
    /\ kpc \in {"tokenCan", "tokenCant"}
    /\ CoreReceives(Token)
    /\ kpc' = IF kpc = "tokenCan" THEN "canPlay" ELSE "cantPlay"
    /\ UNCHANGED <<loaded, readSize, filled, output, skip, reboot, chatter,
                   active, exitCode>>

CoreReplyPlay ==
    /\ \/ CoreAt("canPlay") /\ Ipc!SendMessage("core", Plain("CAN_PLAY"))
          /\ kpc' = "canPlayToken"
       \/ CoreAt("cantPlay") /\ Ipc!SendMessage("core", Plain("CANT_PLAY"))
          /\ kpc' = "cantPlayToken"
    /\ UNCHANGED <<loaded, readSize, filled, output, skip, reboot, chatter,
                   active, exitCode, clientVars>>

\* A plausible slip: customreset() leaves the audio settings of the last song.
ChipResetKeeps(settings) == settings \ ResetAfterCanPlay

\* The settings that survive the resets before a song starts to run.
AfterChipReset(settings) == settings \ (ResetAfterCanPlay \cup ResetByCustomreset)

(***************************************************************************)
(* The token after CAN_PLAY, then set_sound_freq(DEFAULT), epoptionsize =  *)
(* 0, m68k_reset() and customreset() before uade_handle_r_state() starts   *)
(* to read: the resets come after the acknowledgement.                     *)
(***************************************************************************)
CoreStartSong ==
    /\ CoreAt("canPlayToken")
    /\ Ipc!SendMessage("core", Token)
    /\ active' = AfterChipReset(active)
    /\ filled' = 0
    /\ chatter' = 0
    /\ kpc' = "listen"
    /\ UNCHANGED <<loaded, readSize, output, skip, reboot, exitCode, clientVars>>

\* The token after CANT_PLAY; goto nextsong.
CoreNextSong ==
    /\ CoreAt("cantPlayToken")
    /\ Ipc!SendMessage("core", Token)
    /\ kpc' = "score"
    /\ UNCHANGED <<loaded, readSize, filled, output, skip, reboot, chatter,
                   active, exitCode, clientVars>>

(***************************************************************************)
(* uade_handle_r_state(): one command per iteration until the token; then  *)
(* m68k_go() runs the CPU, or acknowledges a reboot.                       *)
(***************************************************************************)
CoreCommand(m) ==
    CASE m.type = "READ" -> /\ readSize = 0
                            /\ readSize' = m.arg
                            /\ UNCHANGED <<kpc, filled, reboot, active>>
      [] m.type = "REBOOT" -> /\ reboot' = TRUE
                              /\ UNCHANGED <<kpc, readSize, filled, active>>
      [] m.type = "CHANGE_SUBSONG" -> /\ filled' = 0    \* flush_sound()
                                      /\ UNCHANGED <<kpc, readSize, reboot, active>>
      [] m.type \in AllOptions -> /\ active' = active \cup {m.type}
                                  /\ filled' = IF m.type = "SET_FREQUENCY"
                                               THEN 0 ELSE filled
                                  /\ UNCHANGED <<kpc, readSize, reboot>>
      [] m = Token -> /\ kpc' = IF reboot THEN "rebootAck" ELSE "run"
                      /\ UNCHANGED <<readSize, filled, reboot, active>>
      [] OTHER -> FALSE

CoreHandleRState ==
    /\ kpc = "listen"
    /\ \E m \in Msg : CoreReceives(m) /\ CoreCommand(m)
    /\ UNCHANGED <<loaded, output, skip, chatter, exitCode>>

\* m68k_go(): the token that acknowledges the reboot, then uade_reset().
CoreRebootAck ==
    /\ CoreAt("rebootAck")
    /\ Ipc!SendMessage("core", Token)
    /\ kpc' = "score"
    /\ UNCHANGED <<loaded, readSize, filled, output, skip, reboot, chatter, active,
                   exitCode, clientVars>>

(***************************************************************************)
(* The 68000 runs and executes a trap #5: uade_get_amiga_message(), or     *)
(* memory.c kills the song.  Song end is reported once per message the     *)
(* score sends and starts the audio output.  A general message is a        *)
(* debug string in two writes.                                             *)
(***************************************************************************)
CoreSongEnd ==
    /\ CoreAt("run") /\ chatter < InstrPerFrame
    /\ Ipc!SendMessage("core", M("SONG_END", 0, loaded))
    /\ output' = TRUE
    /\ chatter' = chatter + 1
    /\ UNCHANGED <<kpc, loaded, readSize, filled, skip, reboot, active,
                   exitCode, clientVars>>

CoreSubsongInfo ==
    /\ CoreAt("run") /\ chatter < InstrPerFrame
    /\ Ipc!SendMessage("core", M("SUBSONG_INFO", 0, loaded))
    /\ chatter' = chatter + 1
    /\ UNCHANGED <<kpc, loaded, readSize, filled, output, skip, reboot, active,
                   exitCode, clientVars>>

\* AMIGAMSG_START_OUTPUT and AMIGAMSG_GENERALMSG: a debug string goes out.
CoreDebugMessage ==
    /\ CoreAt("run") /\ chatter < InstrPerFrame
    /\ Ipc!SendString("core", Plain("MSG"))
    /\ output' \in {output, TRUE}
    /\ chatter' = chatter + 1
    /\ UNCHANGED <<kpc, loaded, readSize, filled, skip, reboot, active,
                   exitCode, clientVars>>

\* A plausible slip: a string is given up although its reader lives.
StringDropped ==
    /\ tx["core"] # None
    /\ tx' = [tx EXCEPT !["core"] = None]
    /\ UNCHANGED <<state, wire, rx, open, coreVars, clientVars>>

CoreDebugBody == Ipc!SendStringBody("core") /\ UNCHANGED <<coreVars, clientVars>>

\* A plausible slip: one frame too many is dropped.
SkipTooMany(n) == n > SkipLimit

\* Output starts without the score asking for it after n silent frames.
OutputDue(n) == n >= SkipLimit

\* A plausible slip: silence is not counted, so it never ends.
SkipForEver ==
    /\ CoreAt("run") /\ ~output
    /\ UNCHANGED <<skip, output>>
    /\ filled' = 0
    /\ chatter' = 0
    /\ UNCHANGED <<kpc, loaded, readSize, reboot, active, exitCode,
                   clientVars, ipcVars>>

(***************************************************************************)
(* A frame reaches check_sound_buffers() (audio.c).  Before output starts  *)
(* frames are dropped and counted; after three seconds' worth output is    *)
(* started involuntarily.  When the frames a READ asked for are there,     *)
(* uade_check_sound_buffers() sends them.                                  *)
(***************************************************************************)
CoreSkipFrame ==
    /\ CoreAt("run") /\ ~output
    /\ skip' = skip + 1
    /\ output' = OutputDue(skip + 1)
    /\ filled' = 0
    /\ chatter' = 0
    /\ UNCHANGED <<kpc, loaded, readSize, reboot, active, exitCode,
                   clientVars, ipcVars>>

CoreMixFrame ==
    /\ CoreAt("run") /\ output /\ readSize > 0 /\ filled + 1 # readSize
    /\ filled' = filled + 1
    /\ chatter' = 0
    /\ UNCHANGED <<kpc, loaded, readSize, output, skip, reboot, active,
                   exitCode, clientVars, ipcVars>>

\* Plausible slips: the request stays pending, or a part of it is sent.
ReadStaysPending ==
    /\ CoreAt("run") /\ output /\ filled + 1 = readSize
    /\ Ipc!SendMessage("core", M("DATA", readSize, loaded))
    /\ UNCHANGED readSize
    /\ filled' = 0
    /\ chatter' = 0
    /\ kpc' = "dataToken"
    /\ UNCHANGED <<loaded, output, skip, reboot, active, exitCode, clientVars>>

SendWhatIsThere ==
    /\ CoreAt("run") /\ output /\ filled + 1 <= readSize
    /\ Ipc!SendMessage("core", M("DATA", filled + 1, loaded))
    /\ readSize' = 0
    /\ filled' = 0
    /\ chatter' = 0
    /\ kpc' = "dataToken"
    /\ UNCHANGED <<loaded, output, skip, reboot, active, exitCode, clientVars>>

CoreSendData ==
    /\ CoreAt("run") /\ output /\ filled + 1 = readSize
    /\ Ipc!SendMessage("core", M("DATA", readSize, loaded))
    /\ readSize' = 0
    /\ filled' = 0
    /\ chatter' = 0
    /\ kpc' = "dataToken"
    /\ UNCHANGED <<loaded, output, skip, reboot, active, exitCode, clientVars>>

\* The token that ends the answer to a READ, then uade_handle_r_state().
CoreEndAnswer ==
    /\ CoreAt("dataToken")
    /\ Ipc!SendMessage("core", Token)
    /\ kpc' = "listen"
    /\ UNCHANGED <<loaded, readSize, filled, output, skip, reboot, chatter,
                   active, exitCode, clientVars>>

CoreHeader == Ipc!ReceiveHeader("core") /\ UNCHANGED <<coreVars, clientVars>>

CoreExit(code) ==
    /\ Ipc!Close("core")
    /\ kpc' = "exit"
    /\ exitCode' = code
    /\ UNCHANGED <<loaded, readSize, filled, output, skip, reboot, chatter,
                   active, clientVars>>

\* "No more songs to play" and "No more input" exit successfully.
OrderlyEnd == kpc \in {"score", "listen"} /\ Ipc!ReceiveResultAtEnd("core") = 0

\* A plausible slip: the end of the commands is not noticed between turns.
EndOfCommandsIgnored ==
    /\ kpc # "listen"
    /\ Ipc!EndOfInput("core")
    /\ IF OrderlyEnd THEN CoreExit(0) ELSE CoreExit(-1)

\* A command is awaited and the other process is gone.
CoreInputEnds ==
    /\ Ipc!EndOfInput("core")
    /\ IF OrderlyEnd THEN CoreExit(0) ELSE CoreExit(-1)

\* The core is gone without an exit status of its own.
CoreDies ==
    /\ Ipc!Close("core")
    /\ kpc' = "killed"
    /\ UNCHANGED <<loaded, readSize, filled, output, skip, reboot, chatter,
                   active, exitCode, clientVars>>

\* A write to a frontend that is gone.  Of all signals the core ignores SIGINT
\* only (uade_portable_initializations()): SIGPIPE ends it, and what its callers
\* would make of a failed write is never seen.
CoreWriteFails ==
    /\ Ipc!WriteFails("core")
    /\ kpc \in {"canPlay", "cantPlay", "canPlayToken", "cantPlayToken",
                "rebootAck", "dataToken", "run"}
    /\ CoreDies

Core ==
    \/ CoreReceiveName \/ CoreLoad \/ CoreReceiveToken \/ CoreReplyPlay
    \/ CoreStartSong \/ CoreNextSong \/ CoreHandleRState \/ CoreRebootAck
    \/ CoreSongEnd \/ CoreSubsongInfo \/ CoreDebugMessage \/ CoreDebugBody
    \/ CoreSkipFrame \/ CoreMixFrame \/ CoreSendData \/ CoreEndAnswer
    \/ CoreHeader \/ CoreInputEnds \/ CoreWriteFails
-----------------------------------------------------------------------------
(* The frontend.                                                           *)
ClientAt(pc) == open["client"] /\ cpc = pc /\ tx["client"] = None
ClientSends(m) == IF m \in WithBody /\ m.type \in NameCommands \cup StringOptions
                  THEN Ipc!SendString("client", m)
                  ELSE Ipc!SendMessage("client", m)
ClientReceives(m) == Ipc!ReceiveMessage("client", m) /\ UNCHANGED coreVars

\* uade_spawn() sends CONFIG, uade_song_initialization() SCORE and PLAYER.
ClientSendName ==
    /\ \/ ClientAt("spawn") /\ ClientSends(Plain("CONFIG")) /\ cpc' = "score"
       \/ ClientAt("score") /\ ClientSends(Plain("SCORE")) /\ cpc' = "player"
       \/ ClientAt("player") /\ ClientSends(Plain("PLAYER")) /\ cpc' = "module"
    /\ UNCHANGED <<song, sent, asked, heard, coreVars>>

ClientSendModule ==
    /\ ClientAt("module")
    /\ \E s \in Songs : ClientSends(M("MODULE", 0, s)) /\ song' = s
    /\ cpc' = "moduleToken"
    /\ UNCHANGED <<sent, asked, heard, coreVars>>

ClientStringBody == Ipc!SendStringBody("client") /\ UNCHANGED <<coreVars, clientVars>>

\* The token after the module name; then the reply and its token.
ClientEndNames ==
    /\ ClientAt("moduleToken")
    /\ ClientSends(Token)
    /\ cpc' = "reply"
    /\ UNCHANGED <<song, sent, asked, heard, coreVars>>

ClientReceiveReply ==
    /\ \/ /\ cpc = "reply" /\ ClientReceives(Plain("CAN_PLAY"))
          /\ cpc' = "canToken"
       \/ /\ cpc = "reply" /\ ClientReceives(Plain("CANT_PLAY"))
          /\ cpc' = "cantToken"
       \/ cpc = "canToken" /\ ClientReceives(Token) /\ cpc' = "options"
       \/ cpc = "cantToken" /\ ClientReceives(Token) /\ cpc' = "score"
    /\ sent' = {}
    /\ UNCHANGED <<song, asked, heard>>

\* The optional commands, in the order of uade_song_initialization().
OptionOrder == <<"IGNORE_CHECK", "SONG_END_NOT_POSSIBLE", "SET_RESAMPLING_MODE",
                 "SPEED_HACK", "SET_NTSC", "SET_FREQUENCY", "USE_TEXT_SCOPE",
                 "SET_PLAYER_OPTION">>
Place(o) == CHOOSE i \in DOMAIN OptionOrder : OptionOrder[i] = o

ClientSendOption ==
    /\ ClientAt("options")
    /\ \E o \in Options :
        /\ \A s \in sent : Place(s) < Place(o)
        /\ ClientSends(Plain(o))
        /\ sent' = sent \cup {o}
    /\ UNCHANGED <<cpc, song, asked, heard, coreVars>>

ClientEndOptions ==
    /\ ClientAt("options")
    /\ cpc' = "turn"
    /\ UNCHANGED <<song, sent, asked, heard, coreVars, ipcVars>>

\* uade_change_subsong(), before the READ of the same turn.
ClientChangeSubsong ==
    /\ ClientAt("turn")
    /\ ClientSends(Plain("CHANGE_SUBSONG"))
    /\ cpc' = "read"
    /\ UNCHANGED <<song, sent, asked, heard, coreVars>>

\* uade_read_request(), then the token.
ClientRead ==
    /\ ClientAt("turn") \/ ClientAt("read")
    /\ \E n \in ReadSizes : ClientSends(M("READ", n, 0)) /\ asked' = n
    /\ heard' = 0
    /\ cpc' = "readToken"
    /\ UNCHANGED <<song, sent, coreVars>>

ClientReboot ==
    /\ ClientAt("turn")
    /\ ClientSends(Plain("REBOOT"))
    /\ cpc' = "rebootToken"
    /\ UNCHANGED <<song, sent, asked, heard, coreVars>>

ClientEndTurn ==
    /\ \/ ClientAt("readToken") /\ ClientSends(Token) /\ cpc' = "hear"
       \/ ClientAt("rebootToken") /\ ClientSends(Token) /\ cpc' = "rebootWait"
    /\ UNCHANGED <<song, sent, asked, heard, coreVars>>

\* In the R state the frontend takes every reply until the token.
ClientHear ==
    /\ cpc \in {"hear", "rebootWait"}
    /\ \E m \in Msg :
        /\ ClientReceives(m)
        /\ heard' = IF m.type = "DATA" THEN heard + m.arg ELSE heard
        /\ IF m = Token
           THEN cpc' = (IF cpc = "hear" THEN "turn" ELSE "score") /\ asked' = 0
           ELSE UNCHANGED <<cpc, asked>>
    /\ UNCHANGED <<song, sent>>

ClientHeader == Ipc!ReceiveHeader("client") /\ UNCHANGED <<coreVars, clientVars>>

ClientLeaves(pc) ==
    /\ Ipc!Close("client")
    /\ cpc' = pc
    /\ UNCHANGED <<song, sent, asked, heard, coreVars>>

\* The last song is over, or there is none: the frontend exits in its turn.
ClientQuit == (ClientAt("turn") \/ ClientAt("score")) /\ ClientLeaves("done")

\* A send or a receive fails because the core is gone.
ClientFails ==
    /\ Ipc!WriteFails("client") \/ Ipc!EndOfInput("client")
    /\ ClientLeaves("failed")

Client ==
    \/ ClientSendName \/ ClientSendModule \/ ClientStringBody
    \/ ClientEndNames \/ ClientReceiveReply \/ ClientSendOption
    \/ ClientEndOptions \/ ClientChangeSubsong \/ ClientRead \/ ClientReboot
    \/ ClientEndTurn \/ ClientHear \/ ClientHeader \/ ClientQuit
    \/ ClientFails

\* SIGKILL, a crash or a power cut takes one of the processes anywhere.
ClientKilled == ClientLeaves("killed")
CoreKilled == CoreDies

Next == Core \/ Client \/ ClientKilled \/ CoreKilled

(***************************************************************************)
(* Both programs are single-threaded loops the operating system schedules: *)
(* each keeps taking steps while it can.  Nothing is assumed of kills, of  *)
(* what the Amiga program says, or of which command the frontend chooses.  *)
(***************************************************************************)
Spec == Init /\ [][Next]_vars /\ WF_vars(Core) /\ WF_vars(Client)
-----------------------------------------------------------------------------
TypeOK ==
    /\ state \in [Ipc!Peers -> {"INITIAL", "R", "S"}]
    /\ \A p \in Ipc!Peers :
        /\ wire[p] \in Seq(Ipc!Chunk)
        /\ Len(wire[p]) <= PipeCapacity
    /\ rx \in [Ipc!Peers -> WithBody \cup {None}]
    /\ tx \in [Ipc!Peers -> WithBody \cup {None}]
    /\ open \in [Ipc!Peers -> BOOLEAN]
    /\ kpc \in {"config", "score", "player", "module", "tokenCan", "tokenCant",
                "canPlay", "cantPlay", "canPlayToken", "cantPlayToken", "listen",
                "run", "dataToken", "rebootAck", "exit", "killed"}
    /\ loaded \in Songs \cup {0}
    /\ readSize \in ReadSizes \cup {0}
    /\ filled \in Nat
    /\ output \in BOOLEAN /\ reboot \in BOOLEAN
    /\ skip \in 0 .. SkipLimit
    /\ chatter \in 0 .. InstrPerFrame
    /\ active \subseteq Options /\ sent \subseteq Options
    /\ exitCode \in {None, 0, -1}
    /\ cpc \in {"spawn", "score", "player", "module", "moduleToken", "reply",
                "canToken", "cantToken", "options", "turn", "read", "readToken",
                "rebootToken", "hear", "rebootWait", "done", "failed", "killed"}
    /\ song \in Songs \cup {0}
    /\ asked \in ReadSizes \cup {0}
    /\ heard \in Nat

\* What the next message to the core will be, if its header is there.
NextForCore == IF rx["core"] # None THEN {rx["core"]}
               ELSE IF wire["core"] = <<>> THEN {} ELSE {Head(wire["core"]).msg}
Accepted(m) ==
    CASE kpc \in DOMAIN ExpectedName -> m.type = ExpectedName[kpc]
      [] kpc \in {"tokenCan", "tokenCant"} -> m = Token
      [] kpc = "listen" -> IF m.type = "READ" THEN readSize = 0
                           ELSE m.type \in AllOptions \cup
                                   {"TOKEN", "REBOOT", "CHANGE_SUBSONG"}
      [] OTHER -> TRUE

(***************************************************************************)
(* The core never meets a command it answers with exit(-1) or an assert:   *)
(* every message is of the type the place in the code insists on, no READ  *)
(* arrives while one is pending, and the CPU never runs without a READ to  *)
(* fill (check_sound_buffers() asserts uade_read_size > 0), also when a    *)
(* song could not be loaded or the previous one was rebooted.              *)
(***************************************************************************)
CoreNeverFaults ==
    open["core"] =>
        /\ \A m \in NextForCore : Accepted(m)
        /\ kpc = "run" => readSize > filled

(***************************************************************************)
(* The answer to a READ is exact: when the token that ends it is the next  *)
(* thing to read, the frontend has received as many frames as it asked     *)
(* for, whatever the score reported in between.                            *)
(***************************************************************************)
AnswerIsExact ==
    cpc = "hear" /\ Ipc!Completes("client", Token) => heard = asked

(***************************************************************************)
(* Replies are about the song the frontend believes is playing: samples,   *)
(* song ends and subsong ranges of a song that was rebooted are never read *)
(* in the next one.                                                        *)
(***************************************************************************)
RepliesAreCurrent ==
    open["client"] =>
      \A i \in 1 .. Len(wire["client"]) :
        wire["client"][i].msg.type \in {"DATA", "SONG_END", "SUBSONG_INFO"} =>
            wire["client"][i].msg.song = song

(***************************************************************************)
(* A song plays with the options its own initialisation sent and with no   *)
(* other: none leaks from the song before (or from one that could not be   *)
(* played), none is undone by the resets the core performs after it has    *)
(* acknowledged CAN_PLAY.                                                  *)
(***************************************************************************)
OptionsInForce == kpc = "run" => active = sent

\* The core's exit status tells an orderly end from a lost frontend: it is 0
\* whenever the frontend quit in its own turn, even if its last commands were
\* still unread, and -1 only when the frontend died or failed.  A core that SIGPIPE
\* ended has none.
ExitStatusIsRight ==
    /\ cpc = "done" => exitCode # -1
    /\ exitCode = -1 => cpc \in {"killed", "failed"}

\* The two programs use the message layer as its specification allows.
UsesIpcCorrectly == Ipc!IpcSpec

(***************************************************************************)
(* A frontend that waits gets the floor back (or finds the core dead): a   *)
(* READ is answered although the score may be silent, crash, or never      *)
(* report that output started.                                             *)
(***************************************************************************)
RequestIsAnswered == (cpc \in {"hear", "rebootWait"}) ~> (cpc \notin {"hear", "rebootWait"})

\* No orphan: once the frontend is gone the core terminates, with the status
\* that says how it went.
NoOrphanCore == (~open["client"]) ~> (~open["core"]) /\ ExitStatusIsRight
=============================================================================
