-------------------------- MODULE UadeSessionProofs --------------------------
(***************************************************************************)
(* The conversation of the core with a frontend, for every set of songs,   *)
(* options and request sizes and every pipe capacity, wherever one of the  *)
(* processes dies: the programs use the message layer as it is meant to be *)
(* used, the core never meets a command it gives up on, a READ is answered *)
(* exactly, replies are about the song the frontend is playing, and a song *)
(* plays with its own options.                                             *)
(***************************************************************************)
EXTENDS UadeSession, TLAPS

Layer == INSTANCE UadeIpcProofs

(***************************************************************************)
(* The grammar of the two streams: the types of message that may follow a  *)
(* message.  Names come in order and the module name ends its turn, a READ *)
(* or a REBOOT ends its turn, and nothing follows the token.               *)
(***************************************************************************)
Typed(types) == {m \in Msg : m.type \in types}
CommandTypes == Options \cup {"CHANGE_SUBSONG", "READ", "REBOOT"}
RunTypes == {"MSG", "SONG_END", "SUBSONG_INFO", "DATA"}

AfterCommand(type) ==
    CASE type = "CONFIG" -> {"SCORE"}
      [] type = "SCORE" -> {"PLAYER"}
      [] type = "PLAYER" -> {"MODULE"}
      [] type \in {"MODULE", "READ", "REBOOT"} -> {"TOKEN"}
      [] type \in AllOptions \cup {"CHANGE_SUBSONG"} -> CommandTypes
      [] OTHER -> {}
CommandAfter == [m \in Msg |-> Typed(AfterCommand(m.type))]

AfterReply(type) ==
    CASE type \in {"CAN_PLAY", "CANT_PLAY", "DATA"} -> {"TOKEN"}
      [] type \in {"MSG", "SONG_END", "SUBSONG_INFO"} -> RunTypes
      [] OTHER -> {}
ReplyAfter == [m \in Msg |-> Typed(AfterReply(m.type))]

\* What each program takes next where it is, and what it says next.
CoreExpects ==
    CASE kpc \in DOMAIN ExpectedName -> {ExpectedName[kpc]}
      [] kpc \in {"tokenCan", "tokenCant"} -> {"TOKEN"}
      [] kpc = "listen" -> IF readSize = 0 /\ ~reboot THEN CommandTypes
                                                      ELSE {"TOKEN"}
      [] OTHER -> {}
ClientSays ==
    CASE cpc = "spawn" -> {"CONFIG"}
      [] cpc = "score" -> {"SCORE"}
      [] cpc = "player" -> {"PLAYER"}
      [] cpc = "module" -> {"MODULE"}
      [] cpc \in {"moduleToken", "readToken", "rebootToken"} -> {"TOKEN"}
      [] cpc \in {"options", "turn", "read"} -> CommandTypes
      [] OTHER -> {}
ClientExpects ==
    CASE cpc = "reply" -> {"CAN_PLAY", "CANT_PLAY"}
      [] cpc \in {"canToken", "cantToken", "rebootWait"} -> {"TOKEN"}
      [] cpc = "hear" -> IF heard = asked THEN {"TOKEN"} ELSE RunTypes
      [] OTHER -> {}
CoreSays ==
    CASE kpc = "canPlay" -> {"CAN_PLAY"}
      [] kpc = "cantPlay" -> {"CANT_PLAY"}
      [] kpc \in {"canPlayToken", "cantPlayToken", "dataToken", "rebootAck"} -> {"TOKEN"}
      [] kpc = "run" -> RunTypes
      [] OTHER -> {}

\* Commands and replies on their way.
Commands == Layer!Pending(wire["core"], rx["core"], tx["client"])
Replies == Layer!Pending(wire["client"], rx["client"], tx["core"])
TokenForClient == Layer!TokenInFlight("client")
BothLive == open["client"] /\ open["core"]

\* What the layer promises by itself.
LayerInv == /\ Layer!TurnInv
            /\ Layer!QuietBehindToken
            /\ Layer!WithinCapacity

(***************************************************************************)
(* The inductive invariant, part by part.  First: who may speak shows in   *)
(* where the programs are, and so does which of them live.                 *)
(***************************************************************************)
ClientSpeaking == {"spawn", "score", "player", "module", "moduleToken", "options",
                   "turn", "read", "readToken", "rebootToken"}
CoreSpeaking == {"canPlay", "cantPlay", "canPlayToken", "cantPlayToken", "run",
                 "dataToken", "rebootAck"}
PlacesMatch ==
    /\ open["client"] <=> cpc \notin {"done", "failed", "killed"}
    /\ open["core"] <=> kpc \notin {"exit", "killed"}
    /\ open["client"] => (Layer!MaySend("client") <=> cpc \in ClientSpeaking)
    /\ open["core"] => (Layer!MaySend("core") <=> kpc \in CoreSpeaking)

\* The core by itself: what it has of a READ, of a song and of its output.
InSong == {"tokenCan", "canPlay", "canPlayToken", "listen", "run", "dataToken"}
CoreInOrder ==
    /\ kpc = "run" => filled < readSize
    /\ kpc \notin {"run", "exit", "killed"} => filled = 0
    /\ kpc \notin {"listen", "run", "exit", "killed"} => readSize = 0
    /\ kpc = "listen" => readSize = 0 \/ ~reboot
    /\ kpc \in InSong \ {"listen"} => ~reboot
    /\ kpc \in InSong => loaded \in Songs
    /\ ~output => skip < SkipLimit
    /\ kpc \in {"tokenCan", "canPlay", "canPlayToken"} =>
           active \cap ResetByUadeReset = {}

\* Each stream is what its reader expects, and accepts what its writer says.
CommandsFit ==
    /\ open["core"] =>
           Layer!Talks(wire["core"], rx["core"], Typed(CoreExpects), CommandAfter)
    /\ BothLive =>
           Layer!Accepts(wire["core"], rx["core"], tx["client"],
                         Typed(CoreExpects), CommandAfter, Typed(ClientSays))
RepliesFit ==
    /\ open["client"] =>
           Layer!Talks(wire["client"], rx["client"], Typed(ClientExpects), ReplyAfter)
    /\ BothLive =>
           Layer!Accepts(wire["client"], rx["client"], tx["core"],
                         Typed(ClientExpects), ReplyAfter, Typed(CoreSays))

(***************************************************************************)
(* While both live, where the client is follows from what the core does    *)
(* and from the commands and replies on their way.                         *)
(***************************************************************************)
CommandsAreTheClients ==
    /\ \A m \in Commands :
        /\ m.type = "MODULE" => cpc \in {"moduleToken", "reply"} /\ m.song = song
        /\ m.type = "READ" => cpc \in {"readToken", "hear"} /\ m.arg = asked /\ heard = 0
        /\ m.type = "REBOOT" => cpc \in {"rebootToken", "rebootWait"}
    /\ kpc = "listen" /\ readSize # 0 =>
           cpc \in {"readToken", "hear"} /\ readSize = asked /\ heard = 0
    /\ kpc = "listen" /\ reboot => cpc \in {"rebootToken", "rebootWait"}
    /\ cpc \in {"canToken", "cantToken"} => Commands = {}

CoreFollowsClient ==
    /\ kpc \in {"tokenCan", "tokenCant"} => cpc \in {"moduleToken", "reply"}
    /\ kpc \in {"canPlay", "cantPlay"} => cpc = "reply"
    /\ kpc = "canPlayToken" => cpc \in {"reply", "canToken"}
    /\ kpc = "cantPlayToken" => cpc \in {"reply", "cantToken"}
    /\ kpc = "run" => cpc = "hear" /\ readSize = asked /\ heard = 0
    /\ kpc = "dataToken" => cpc = "hear"
    /\ kpc = "rebootAck" => cpc = "rebootWait"
    /\ kpc \in InSong => loaded = song
    /\ cpc \in {"spawn", "score", "player", "module"} =>
           kpc \in {"config", "score", "player", "module"}
    /\ cpc = "moduleToken" =>
           kpc \in {"config", "score", "player", "module", "tokenCan", "tokenCant"}
    /\ cpc = "canToken" => kpc \in {"canPlayToken", "listen"}
    /\ cpc = "cantToken" => kpc \in {"cantPlayToken", "score"}
    /\ cpc = "reply" /\ kpc = "listen" => TokenForClient

AnswersAreTheCores ==
    /\ TokenForClient =>
           \/ /\ kpc = "listen" /\ readSize = 0 /\ ~reboot
              /\ cpc \in {"reply", "canToken", "hear"}
           \/ /\ kpc = "score"
              /\ cpc \in {"reply", "cantToken", "rebootWait"}
    /\ \A m \in Replies :
        /\ m.type = "CAN_PLAY" => kpc \in {"canPlayToken", "listen"}
        /\ m.type = "CANT_PLAY" => kpc \in {"cantPlayToken", "score"}
        /\ m.type = "DATA" => kpc \in {"dataToken", "listen"} /\ readSize = 0

\* What the client has on record.
ClientInOrder ==
    /\ cpc \in {"readToken", "hear"} => asked \in ReadSizes
    /\ cpc = "readToken" => heard = 0
    /\ cpc = "hear" => heard \in {0, asked}
    /\ open["client"] =>
        \A m \in Replies :
            /\ m.type \in {"DATA", "SONG_END", "SUBSONG_INFO"} => m.song = song
            /\ m.type = "DATA" => m.arg = asked

\* The options in force and those on their way are those the client sent.
OptionsOnTheWay == {m.type : m \in Typed(AllOptions) \cap Commands}
OptionsKept ==
    /\ kpc \in {"run", "dataToken"} => active = sent
    /\ kpc = "listen" /\ (~TokenForClient \/ cpc = "hear") =>
           sent = active \cup OptionsOnTheWay
    /\ kpc = "listen" /\ cpc \in {"reply", "canToken"} => active = {}

\* A frontend that quit did so where the core takes the end of its input for
\* the end of the session.
QuitInTurn ==
    /\ cpc = "done" =>
        /\ Layer!MaySend("client") /\ tx["client"] = None
        /\ open["core"] =>
            \/ Layer!Accepts(wire["core"], rx["core"], None, Typed(CoreExpects),
                             CommandAfter, Typed(CommandTypes))
            \/ Layer!Accepts(wire["core"], rx["core"], None, Typed(CoreExpects),
                             CommandAfter, Typed({"SCORE"}))
    /\ exitCode = -1 => cpc \in {"killed", "failed"}

SessionInv ==
    /\ TypeOK
    /\ LayerInv
    /\ PlacesMatch
    /\ CoreInOrder
    /\ CommandsFit
    /\ RepliesFit
    /\ BothLive => /\ CommandsAreTheClients
                   /\ CoreFollowsClient
                   /\ AnswersAreTheCores
    /\ ClientInOrder
    /\ OptionsKept
    /\ QuitInTurn

-----------------------------------------------------------------------------
(* The messages, and the layer they travel on.                             *)

\* Which messages there are, by type.
LEMMA MessagesThereAre ==
    /\ Token \in Msg /\ Token.type = "TOKEN"
    /\ \A t \in {"TOKEN", "CONFIG", "SCORE", "PLAYER", "REBOOT", "MSG",
                 "CHANGE_SUBSONG", "CAN_PLAY", "CANT_PLAY"} \cup Options :
           Plain(t) \in Msg /\ Plain(t).type = t
    /\ \A n \in ReadSizes : M("READ", n, 0) \in Msg
    /\ \A t \in {"MODULE", "SONG_END", "SUBSONG_INFO"}, s \in Songs : M(t, 0, s) \in Msg
    /\ \A n \in ReadSizes, s \in Songs : M("DATA", n, s) \in Msg
<1>1. ASSUME NEW t \in {"TOKEN", "CONFIG", "SCORE", "PLAYER", "REBOOT", "MSG",
                        "CHANGE_SUBSONG", "CAN_PLAY", "CANT_PLAY"} \cup Options
      PROVE  Plain(t) \in Msg /\ Plain(t).type = t
  <2>1. Plain(t) \in Msg
    BY <1>1 DEF Msg
  <2>2. QED
    BY <2>1 DEF Plain, M
<1>2. Token \in Msg /\ Token.type = "TOKEN"
  BY <1>1 DEF Token
<1>3. \A n \in ReadSizes : M("READ", n, 0) \in Msg
  BY DEF Msg
<1>4. \A t \in {"MODULE", "SONG_END", "SUBSONG_INFO"}, s \in Songs : M(t, 0, s) \in Msg
  BY DEF Msg
<1>5. \A n \in ReadSizes, s \in Songs : M("DATA", n, s) \in Msg
  BY DEF Msg
<1>6. QED
  BY <1>1, <1>2, <1>3, <1>4, <1>5

\* What a message of a type looks like.
LEMMA MessagesByType ==
    ASSUME NEW m \in Msg
    PROVE  /\ m.type = "TOKEN" <=> m = Token
           /\ m.type = "READ" => m.arg \in ReadSizes
           /\ m.type \in {"MODULE", "SONG_END", "SUBSONG_INFO", "DATA"} => m.song \in Songs
           /\ m.type = "DATA" => m.arg \in ReadSizes
           /\ m.type \in {"CONFIG", "SCORE", "PLAYER", "REBOOT", "MSG", "CHANGE_SUBSONG",
                          "CAN_PLAY", "CANT_PLAY"} => m = Plain(m.type)
           /\ m.type \in AllOptions => m.type \in Options
           /\ m.type \in {"TOKEN", "CONFIG", "SCORE", "PLAYER", "REBOOT", "MSG",
                          "CHANGE_SUBSONG", "CAN_PLAY", "CANT_PLAY", "READ", "MODULE",
                          "SONG_END", "SUBSONG_INFO", "DATA"} \cup Options
<1>1. Options \subseteq AllOptions
  BY SessionAssumption
<1>2. CASE \E t \in {"TOKEN", "CONFIG", "SCORE", "PLAYER", "REBOOT", "MSG",
                     "CHANGE_SUBSONG", "CAN_PLAY", "CANT_PLAY"} \cup Options : m = Plain(t)
  BY <1>1, <1>2 DEF Plain, M, Token, AllOptions, ResetByUadeReset, InAmigaMemory,
                    ResetAfterCanPlay, ResetByCustomreset
<1>3. CASE \E n \in ReadSizes : m = M("READ", n, 0)
  BY <1>1, <1>3 DEF Plain, M, Token, AllOptions, ResetByUadeReset, InAmigaMemory,
                    ResetAfterCanPlay, ResetByCustomreset
<1>4. CASE \E t \in {"MODULE", "SONG_END", "SUBSONG_INFO"}, s \in Songs : m = M(t, 0, s)
  BY <1>1, <1>4 DEF Plain, M, Token, AllOptions, ResetByUadeReset, InAmigaMemory,
                    ResetAfterCanPlay, ResetByCustomreset
<1>5. CASE \E n \in ReadSizes, s \in Songs : m = M("DATA", n, s)
  BY <1>1, <1>5 DEF Plain, M, Token, AllOptions, ResetByUadeReset, InAmigaMemory,
                    ResetAfterCanPlay, ResetByCustomreset
<1>6. QED
  BY <1>2, <1>3, <1>4, <1>5 DEF Msg

\* What may follow a command, type by type.
LEMMA Follows ==
    /\ AfterCommand("CONFIG") = {"SCORE"} /\ AfterCommand("SCORE") = {"PLAYER"}
    /\ AfterCommand("PLAYER") = {"MODULE"} /\ AfterCommand("TOKEN") = {}
    /\ \A t \in {"MODULE", "READ", "REBOOT"} : AfterCommand(t) = {"TOKEN"}
    /\ \A t \in AllOptions \cup {"CHANGE_SUBSONG"} : AfterCommand(t) = CommandTypes
    /\ AllOptions \cap {"TOKEN", "CONFIG", "SCORE", "PLAYER", "MODULE", "READ",
                         "REBOOT", "CHANGE_SUBSONG"} = {}
BY DEF AfterCommand, AllOptions, ResetByUadeReset, InAmigaMemory,
       ResetAfterCanPlay, ResetByCustomreset

\* The message layer's assumption holds of these messages.
LEMMA IpcAssumed == Layer!IpcAssumption
<1>1. WithBody \subseteq Msg
  BY DEF WithBody
<1>2. Token \in Msg \ WithBody
  BY MessagesThereAre DEF WithBody, Bodiless
<1>3. None \notin Msg
  BY NoneAssumption
<1>4. PipeCapacity \in Nat \ {0, 1}
  BY SessionAssumption
<1>5. QED
  BY <1>1, <1>2, <1>3, <1>4 DEF Layer!IpcAssumption

\* The layer the programs call is the layer the lemmas are about.
LEMMA SameLayer ==
    /\ Ipc!IpcInit <=> Layer!IpcInit
    /\ \A p, m : /\ Ipc!SendMessage(p, m) <=> Layer!SendMessage(p, m)
                 /\ Ipc!SendString(p, m) <=> Layer!SendString(p, m)
                 /\ Ipc!ReceiveMessage(p, m) <=> Layer!ReceiveMessage(p, m)
    /\ \A p : /\ Ipc!SendStringBody(p) <=> Layer!SendStringBody(p)
              /\ Ipc!ReceiveHeader(p) <=> Layer!ReceiveHeader(p)
              /\ Ipc!AbandonString(p) <=> Layer!AbandonString(p)
              /\ Ipc!WriteFails(p) <=> Layer!WriteFails(p)
              /\ Ipc!EndOfInput(p) <=> Layer!EndOfInput(p)
              /\ Ipc!Close(p) <=> Layer!Close(p)
<1>1. Ipc!IpcInit <=> Layer!IpcInit
  BY DEF Ipc!IpcInit, Layer!IpcInit, Ipc!Peers, Layer!Peers
<1>2. ASSUME NEW p, NEW m PROVE Ipc!SendMessage(p, m) <=> Layer!SendMessage(p, m)
  BY DEF Ipc!SendMessage, Layer!SendMessage, Ipc!MaySend, Layer!MaySend,
         Ipc!Writable, Layer!Writable, Ipc!Other, Layer!Other, Ipc!Header,
         Layer!Header, Ipc!Body, Layer!Body, Ipc!StateAfterSend, Layer!StateAfterSend
<1>3. ASSUME NEW p, NEW m PROVE Ipc!SendString(p, m) <=> Layer!SendString(p, m)
  BY DEF Ipc!SendString, Layer!SendString, Ipc!MaySend, Layer!MaySend,
         Ipc!Writable, Layer!Writable, Ipc!Other, Layer!Other, Ipc!Header, Layer!Header
<1>4. ASSUME NEW p, NEW m PROVE Ipc!ReceiveMessage(p, m) <=> Layer!ReceiveMessage(p, m)
  BY DEF Ipc!ReceiveMessage, Layer!ReceiveMessage, Ipc!MayReceive, Layer!MayReceive,
         Ipc!Completes, Layer!Completes, Ipc!StateAfterReceive, Layer!StateAfterReceive
<1>5. ASSUME NEW p PROVE Ipc!SendStringBody(p) <=> Layer!SendStringBody(p)
  BY DEF Ipc!SendStringBody, Layer!SendStringBody, Ipc!Other, Layer!Other,
         Ipc!Body, Layer!Body
<1>6. ASSUME NEW p PROVE Ipc!ReceiveHeader(p) <=> Layer!ReceiveHeader(p)
  BY DEF Ipc!ReceiveHeader, Layer!ReceiveHeader, Ipc!MayReceive, Layer!MayReceive
<1>7. ASSUME NEW p PROVE /\ Ipc!AbandonString(p) <=> Layer!AbandonString(p)
                         /\ Ipc!WriteFails(p) <=> Layer!WriteFails(p)
  BY DEF Ipc!AbandonString, Layer!AbandonString, Ipc!WriteFails, Layer!WriteFails,
         Ipc!MaySend, Layer!MaySend, Ipc!Other, Layer!Other
<1>8. ASSUME NEW p PROVE /\ Ipc!EndOfInput(p) <=> Layer!EndOfInput(p)
                         /\ Ipc!Close(p) <=> Layer!Close(p)
  BY DEF Ipc!EndOfInput, Layer!EndOfInput, Ipc!MayReceive, Layer!MayReceive,
         Ipc!Other, Layer!Other, Ipc!Close, Layer!Close
<1>9. QED
  BY <1>1, <1>2, <1>3, <1>4, <1>5, <1>6, <1>7, <1>8

\* The two peers.
LEMMA ThePeers == /\ Layer!Peers = {"client", "core"} /\ Ipc!Peers = {"client", "core"}
                  /\ "core" = Layer!Other("client") /\ "client" = Layer!Other("core")
BY DEF Layer!Peers, Layer!Other, Ipc!Peers

\* Sets of messages by type, and what may follow each message.
LEMMA TypedSets ==
    /\ \A T : Typed(T) \in SUBSET Msg
    /\ \A S, T : S \subseteq T => Typed(S) \subseteq Typed(T)
    /\ CommandAfter \in [Msg -> SUBSET Msg]
    /\ ReplyAfter \in [Msg -> SUBSET Msg]
    /\ \A m \in Msg : CommandAfter[m] = Typed(AfterCommand(m.type))
    /\ \A m \in Msg : ReplyAfter[m] = Typed(AfterReply(m.type))
BY DEF Typed, CommandAfter, ReplyAfter

-----------------------------------------------------------------------------
(***************************************************************************)
(* What each call of a program does to the conversation.                   *)
(***************************************************************************)
\* A call of one peer.
IpcCall(p) ==
    \/ \E m \in Msg : Ipc!SendMessage(p, m) \/ Ipc!ReceiveMessage(p, m)
    \/ \E m \in WithBody : Ipc!SendString(p, m)
    \/ Ipc!SendStringBody(p) \/ Ipc!ReceiveHeader(p)
    \/ Ipc!AbandonString(p) \/ Ipc!Close(p)

\* The layer keeps its promises whichever call a program makes.
LEMMA LayerKept ==
    ASSUME LayerInv, NEW p \in Layer!Peers, IpcCall(p)
    PROVE  LayerInv'
<1>1. Layer!IpcStep(p)
  BY SameLayer DEF IpcCall, Layer!IpcStep
<1>2. Layer!TurnInv' /\ Layer!QuietBehindToken'
  BY <1>1, IpcAssumed, Layer!StepKeepsTurn, Layer!StepKeepsQuiet DEF LayerInv
<1>3. Layer!WithinCapacity'
  BY <1>1, IpcAssumed, Layer!StepKeepsCapacity DEF LayerInv, Layer!TurnInv
<1>4. QED
  BY <1>2, <1>3 DEF LayerInv

\* The core writes a message, or the header of a string.
LEMMA CoreWrites ==
    ASSUME SessionInv, NEW m \in Msg, m.type \in CoreSays,
           Ipc!SendMessage("core", m) \/ (m \in WithBody /\ Ipc!SendString("core", m))
    PROVE  /\ LayerInv' /\ BothLive /\ open' = open /\ cpc \notin ClientSpeaking
           /\ ~Layer!MaySend("client")' /\ (Layer!MaySend("core")' <=> m # Token)
           /\ wire'["core"] = <<>> /\ rx'["core"] = None /\ tx'["client"] = None
           /\ Commands = {} /\ Commands' = {} /\ Replies' = Replies \cup {m}
           /\ TokenForClient' <=> m = Token
           /\ Layer!Talks(wire'["client"], rx'["client"], Typed(ClientExpects), ReplyAfter)
           /\ \A T : T \subseteq AfterReply(m.type) =>
                 Layer!Accepts(wire'["client"], rx'["client"], tx'["core"],
                               Typed(ClientExpects), ReplyAfter, Typed(T))
<1>1. LayerInv'
  BY LayerKept, ThePeers DEF SessionInv, IpcCall
<1>2. Layer!TurnInv /\ Layer!QuietBehindToken
  BY DEF SessionInv, LayerInv
<1>3. /\ Typed(ClientExpects) \in SUBSET Msg /\ Typed(CoreSays) \in SUBSET Msg
      /\ m \in Typed(CoreSays)
      /\ ReplyAfter \in [Msg -> SUBSET Msg] /\ ReplyAfter[m] = Typed(AfterReply(m.type))
  BY TypedSets DEF Typed
<1>4. Layer!SendMessage("core", m) \/ Layer!SendString("core", m)
  BY SameLayer
<1>5. BothLive
  BY <1>4, ThePeers DEF Layer!SendMessage, Layer!SendString, Layer!Writable, BothLive
<1>6. /\ Layer!Talks(wire["client"], rx["client"], Typed(ClientExpects), ReplyAfter)
      /\ Layer!Accepts(wire["client"], rx["client"], tx["core"],
                       Typed(ClientExpects), ReplyAfter, Typed(CoreSays))
  BY <1>5 DEF SessionInv, RepliesFit, BothLive
<1>7. /\ open' = open
      /\ ~Layer!MaySend("client") /\ ~Layer!MaySend("client")'
      /\ (Layer!MaySend("core")' <=> m # Token)
      /\ wire["core"] = <<>> /\ wire'["core"] = <<>> /\ rx["core"] = None /\ rx' = rx
      /\ tx["client"] = None /\ tx'["client"] = None
      /\ (Layer!TokenInFlight("client")' <=> m = Token)
  BY <1>2, <1>4, ThePeers, IpcAssumed, Layer!SendEffect
<1>8. /\ Layer!Talks(wire'["client"], rx'["client"], Typed(ClientExpects), ReplyAfter)
      /\ \A V : V \subseteq ReplyAfter[m] =>
            Layer!Accepts(wire'["client"], rx'["client"], tx'["core"],
                          Typed(ClientExpects), ReplyAfter, V)
  BY <1>2, <1>3, <1>4, <1>6, ThePeers, IpcAssumed, Layer!SendFits
<1>9. Layer!Pending(wire'["client"], rx'["client"], tx'["core"])
       = Layer!Pending(wire["client"], rx["client"], tx["core"]) \cup {m}
  BY <1>2, <1>4, ThePeers, IpcAssumed, Layer!SendSaid
<1>10. cpc \notin ClientSpeaking
  BY <1>5, <1>7 DEF SessionInv, PlacesMatch, BothLive
<1>11. Commands = {} /\ Commands' = {}
  BY <1>7, IpcAssumed, Layer!NothingPending DEF Commands
<1>12. \A T : T \subseteq AfterReply(m.type) =>
          Layer!Accepts(wire'["client"], rx'["client"], tx'["core"],
                        Typed(ClientExpects), ReplyAfter, Typed(T))
  BY <1>3, <1>8, TypedSets
<1>13. QED
  BY <1>1, <1>5, <1>7, <1>8, <1>9, <1>10, <1>11, <1>12 DEF Replies, TokenForClient

\* The core has read a whole message.
LEMMA CoreReads ==
    ASSUME SessionInv, NEW m \in Msg, Ipc!ReceiveMessage("core", m)
    PROVE  /\ LayerInv' /\ open["core"] /\ open' = open /\ tx' = tx
           /\ kpc \notin CoreSpeaking /\ m.type \in CoreExpects /\ m \in Commands
           /\ (Layer!MaySend("core")' <=> m = Token)
           /\ (Layer!MaySend("client")' <=> Layer!MaySend("client"))
           /\ wire'["client"] = <<>> /\ rx'["client"] = None /\ tx["core"] = None
           /\ Replies = {} /\ Replies' = {} /\ ~TokenForClient /\ ~TokenForClient'
           /\ Commands' \subseteq Commands /\ Commands \subseteq Commands' \cup {m}
           /\ m = Token => /\ Commands' = {} /\ ~Layer!MaySend("client")
                           /\ tx["client"] = None
                           /\ wire'["core"] = <<>> /\ rx'["core"] = None
           /\ \A T : AfterCommand(m.type) \subseteq T =>
                 /\ Layer!Talks(wire'["core"], rx'["core"], Typed(T), CommandAfter)
                 /\ \A t, W : Layer!Accepts(wire["core"], rx["core"], t,
                                            Typed(CoreExpects), CommandAfter, W)
                              => Layer!Accepts(wire'["core"], rx'["core"], t,
                                               Typed(T), CommandAfter, W)
<1>1. LayerInv'
  BY LayerKept, ThePeers DEF SessionInv, IpcCall
<1>2. Layer!TurnInv /\ Layer!QuietBehindToken
  BY DEF SessionInv, LayerInv
<1>3. /\ Typed(CoreExpects) \in SUBSET Msg
      /\ CommandAfter \in [Msg -> SUBSET Msg] /\ CommandAfter[m] = Typed(AfterCommand(m.type))
  BY TypedSets
<1>4. Layer!ReceiveMessage("core", m)
  BY SameLayer
<1>5. open["core"]
  BY <1>4 DEF Layer!ReceiveMessage
<1>6. Layer!Talks(wire["core"], rx["core"], Typed(CoreExpects), CommandAfter)
  BY <1>5 DEF SessionInv, CommandsFit
<1>7. /\ open' = open /\ tx' = tx /\ tx["core"] = None
      /\ ~Layer!MaySend("core") /\ (Layer!MaySend("core")' <=> m = Token)
      /\ (Layer!MaySend("client")' <=> Layer!MaySend("client"))
      /\ wire["client"] = <<>> /\ wire'["client"] = <<>>
      /\ rx["client"] = None /\ rx'["client"] = None
      /\ ~Layer!TokenInFlight("client") /\ ~Layer!TokenInFlight("client")'
      /\ m = Token => /\ ~Layer!MaySend("client") /\ tx["client"] = None
                      /\ wire'["core"] = <<>> /\ rx'["core"] = None
  BY <1>2, <1>4, ThePeers, IpcAssumed, Layer!ReceiveEffect
<1>8. /\ m \in Typed(CoreExpects)
      /\ \A E2 : CommandAfter[m] \subseteq E2 =>
            /\ Layer!Talks(wire'["core"], rx'["core"], E2, CommandAfter)
            /\ \A t, W : Layer!Accepts(wire["core"], rx["core"], t,
                                       Typed(CoreExpects), CommandAfter, W)
                         => Layer!Accepts(wire'["core"], rx'["core"], t, E2, CommandAfter, W)
  BY <1>2, <1>3, <1>4, <1>6, ThePeers, IpcAssumed, Layer!ReceiveFits
<1>9. \A t : /\ m \in Layer!Pending(wire["core"], rx["core"], t)
              /\ Layer!Pending(wire'["core"], rx'["core"], t)
                 \subseteq Layer!Pending(wire["core"], rx["core"], t)
              /\ Layer!Pending(wire["core"], rx["core"], t)
                 \subseteq Layer!Pending(wire'["core"], rx'["core"], t) \cup {m}
  BY <1>2, <1>4, ThePeers, IpcAssumed, Layer!ReceivePending
<1>10. kpc \notin CoreSpeaking /\ m.type \in CoreExpects
  BY <1>5, <1>7, <1>8 DEF SessionInv, PlacesMatch, Typed
<1>11. Replies = {} /\ Replies' = {}
  BY <1>7, IpcAssumed, Layer!NothingPending DEF Replies
<1>12. /\ m \in Commands /\ Commands' \subseteq Commands
       /\ Commands \subseteq Commands' \cup {m}
  BY <1>7, <1>9 DEF Commands
<1>13. m = Token => Commands' = {}
  BY <1>7, IpcAssumed, Layer!NothingPending DEF Commands
<1>14. \A T : AfterCommand(m.type) \subseteq T => CommandAfter[m] \subseteq Typed(T)
  BY <1>3, TypedSets
<1>15. QED
  BY <1>1, <1>5, <1>7, <1>8, <1>10, <1>11, <1>12, <1>13, <1>14 DEF TokenForClient

\* The client writes a message, or the header of a string.
LEMMA ClientWrites ==
    ASSUME SessionInv, NEW m \in Msg, m.type \in ClientSays, ClientSends(m)
    PROVE  /\ LayerInv' /\ BothLive /\ open' = open /\ kpc \notin CoreSpeaking
           /\ cpc \in ClientSpeaking
           /\ ~Layer!MaySend("core")' /\ (Layer!MaySend("client")' <=> m # Token)
           /\ wire'["client"] = <<>> /\ rx'["client"] = None /\ tx'["core"] = None
           /\ Replies = {} /\ Replies' = {} /\ Commands' = Commands \cup {m}
           /\ ~TokenForClient /\ ~TokenForClient'
           /\ Layer!Talks(wire'["core"], rx'["core"], Typed(CoreExpects), CommandAfter)
           /\ \A T : T \subseteq AfterCommand(m.type) =>
                 Layer!Accepts(wire'["core"], rx'["core"], tx'["client"],
                               Typed(CoreExpects), CommandAfter, Typed(T))
<1>1. LayerInv'
  BY LayerKept, ThePeers DEF SessionInv, IpcCall, ClientSends
<1>2. Layer!TurnInv /\ Layer!QuietBehindToken
  BY DEF SessionInv, LayerInv
<1>3. /\ Typed(CoreExpects) \in SUBSET Msg /\ Typed(ClientSays) \in SUBSET Msg
      /\ m \in Typed(ClientSays)
      /\ CommandAfter \in [Msg -> SUBSET Msg] /\ CommandAfter[m] = Typed(AfterCommand(m.type))
  BY TypedSets DEF Typed
<1>4. Layer!SendMessage("client", m) \/ Layer!SendString("client", m)
  BY SameLayer DEF ClientSends
<1>5. BothLive
  BY <1>4, ThePeers DEF Layer!SendMessage, Layer!SendString, Layer!Writable, BothLive
<1>6. /\ Layer!Talks(wire["core"], rx["core"], Typed(CoreExpects), CommandAfter)
      /\ Layer!Accepts(wire["core"], rx["core"], tx["client"],
                       Typed(CoreExpects), CommandAfter, Typed(ClientSays))
  BY <1>5 DEF SessionInv, CommandsFit, BothLive
<1>7. /\ open' = open /\ Layer!MaySend("client")
      /\ ~Layer!MaySend("core") /\ ~Layer!MaySend("core")'
      /\ (Layer!MaySend("client")' <=> m # Token)
      /\ wire["client"] = <<>> /\ wire'["client"] = <<>> /\ rx["client"] = None /\ rx' = rx
      /\ tx["core"] = None /\ tx'["core"] = None
      /\ ~Layer!TokenInFlight("client") /\ ~Layer!TokenInFlight("client")'
  BY <1>2, <1>4, ThePeers, IpcAssumed, Layer!SendEffect
<1>8. /\ Layer!Talks(wire'["core"], rx'["core"], Typed(CoreExpects), CommandAfter)
      /\ \A V : V \subseteq CommandAfter[m] =>
            Layer!Accepts(wire'["core"], rx'["core"], tx'["client"],
                          Typed(CoreExpects), CommandAfter, V)
  BY <1>2, <1>3, <1>4, <1>6, ThePeers, IpcAssumed, Layer!SendFits
<1>9. Layer!Pending(wire'["core"], rx'["core"], tx'["client"])
       = Layer!Pending(wire["core"], rx["core"], tx["client"]) \cup {m}
  BY <1>2, <1>4, ThePeers, IpcAssumed, Layer!SendSaid
<1>10. kpc \notin CoreSpeaking /\ cpc \in ClientSpeaking
  BY <1>5, <1>7 DEF SessionInv, PlacesMatch, BothLive
<1>11. Replies = {} /\ Replies' = {}
  BY <1>7, IpcAssumed, Layer!NothingPending DEF Replies
<1>12. \A T : T \subseteq AfterCommand(m.type) =>
          Layer!Accepts(wire'["core"], rx'["core"], tx'["client"],
                        Typed(CoreExpects), CommandAfter, Typed(T))
  BY <1>3, <1>8, TypedSets
<1>13. QED
  BY <1>1, <1>5, <1>7, <1>8, <1>9, <1>10, <1>11, <1>12 DEF Commands, TokenForClient

\* The client has read a whole message.
LEMMA ClientReads ==
    ASSUME SessionInv, NEW m \in Msg, Ipc!ReceiveMessage("client", m)
    PROVE  /\ LayerInv' /\ open["client"] /\ open' = open /\ tx' = tx
           /\ cpc \notin ClientSpeaking /\ m.type \in ClientExpects /\ m \in Replies
           /\ (Layer!MaySend("client")' <=> m = Token)
           /\ (Layer!MaySend("core")' <=> Layer!MaySend("core"))
           /\ wire'["core"] = <<>> /\ rx'["core"] = None /\ tx["client"] = None
           /\ Commands = {} /\ Commands' = {}
           /\ TokenForClient' <=> TokenForClient /\ m # Token
           /\ Replies' \subseteq Replies
           /\ m = Token => /\ TokenForClient /\ Replies' = {} /\ ~Layer!MaySend("core")
                           /\ tx["core"] = None
                           /\ wire'["client"] = <<>> /\ rx'["client"] = None
           /\ \A T : AfterReply(m.type) \subseteq T =>
                 /\ Layer!Talks(wire'["client"], rx'["client"], Typed(T), ReplyAfter)
                 /\ \A t, W : Layer!Accepts(wire["client"], rx["client"], t,
                                            Typed(ClientExpects), ReplyAfter, W)
                              => Layer!Accepts(wire'["client"], rx'["client"], t,
                                               Typed(T), ReplyAfter, W)
<1>1. LayerInv'
  BY LayerKept, ThePeers DEF SessionInv, IpcCall
<1>2. Layer!TurnInv /\ Layer!QuietBehindToken
  BY DEF SessionInv, LayerInv
<1>3. /\ Typed(ClientExpects) \in SUBSET Msg
      /\ ReplyAfter \in [Msg -> SUBSET Msg] /\ ReplyAfter[m] = Typed(AfterReply(m.type))
  BY TypedSets
<1>4. Layer!ReceiveMessage("client", m)
  BY SameLayer
<1>5. open["client"]
  BY <1>4 DEF Layer!ReceiveMessage
<1>6. Layer!Talks(wire["client"], rx["client"], Typed(ClientExpects), ReplyAfter)
  BY <1>5 DEF SessionInv, RepliesFit
<1>7. /\ open' = open /\ tx' = tx /\ tx["client"] = None
      /\ ~Layer!MaySend("client") /\ (Layer!MaySend("client")' <=> m = Token)
      /\ (Layer!MaySend("core")' <=> Layer!MaySend("core"))
      /\ wire["core"] = <<>> /\ wire'["core"] = <<>>
      /\ rx["core"] = None /\ rx'["core"] = None
      /\ (Layer!TokenInFlight("client")' <=> Layer!TokenInFlight("client") /\ m # Token)
      /\ m = Token => /\ Layer!TokenInFlight("client") /\ ~Layer!MaySend("core") /\ tx["core"] = None
                      /\ wire'["client"] = <<>> /\ rx'["client"] = None
  BY <1>2, <1>4, ThePeers, IpcAssumed, Layer!ReceiveEffect
<1>8. /\ m \in Typed(ClientExpects)
      /\ \A E2 : ReplyAfter[m] \subseteq E2 =>
            /\ Layer!Talks(wire'["client"], rx'["client"], E2, ReplyAfter)
            /\ \A t, W : Layer!Accepts(wire["client"], rx["client"], t,
                                       Typed(ClientExpects), ReplyAfter, W)
                         => Layer!Accepts(wire'["client"], rx'["client"], t, E2, ReplyAfter, W)
  BY <1>2, <1>3, <1>4, <1>6, ThePeers, IpcAssumed, Layer!ReceiveFits
<1>9. \A t : /\ m \in Layer!Pending(wire["client"], rx["client"], t)
              /\ Layer!Pending(wire'["client"], rx'["client"], t)
                 \subseteq Layer!Pending(wire["client"], rx["client"], t)
              /\ Layer!Pending(wire["client"], rx["client"], t)
                 \subseteq Layer!Pending(wire'["client"], rx'["client"], t) \cup {m}
  BY <1>2, <1>4, ThePeers, IpcAssumed, Layer!ReceivePending
<1>10. cpc \notin ClientSpeaking /\ m.type \in ClientExpects
  BY <1>5, <1>7, <1>8 DEF SessionInv, PlacesMatch, Typed
<1>11. Commands = {} /\ Commands' = {}
  BY <1>7, IpcAssumed, Layer!NothingPending DEF Commands
<1>12. m \in Replies /\ Replies' \subseteq Replies
  BY <1>7, <1>9 DEF Replies
<1>13. m = Token => Replies' = {}
  BY <1>7, IpcAssumed, Layer!NothingPending DEF Replies
<1>14. \A T : AfterReply(m.type) \subseteq T => ReplyAfter[m] \subseteq Typed(T)
  BY <1>3, TypedSets
<1>15. QED
  BY <1>1, <1>5, <1>7, <1>8, <1>10, <1>11, <1>12, <1>13, <1>14 DEF TokenForClient

-----------------------------------------------------------------------------
(***************************************************************************)
(* What a step has to show: its effect on the conversation (Conversation)  *)
(* follows from the call it makes and from the place it goes to; what the  *)
(* programs have on record is shown action by action.                      *)
(***************************************************************************)
Conversation == LayerInv /\ PlacesMatch /\ CommandsFit /\ RepliesFit /\ QuitInTurn

\* The types of what the programs have on record.
ProgramTypes ==
    /\ kpc \in {"config", "score", "player", "module", "tokenCan", "tokenCant",
                "canPlay", "cantPlay", "canPlayToken", "cantPlayToken", "listen",
                "run", "dataToken", "rebootAck", "exit", "killed"}
    /\ loaded \in Songs \cup {0}
    /\ readSize \in ReadSizes \cup {0}
    /\ filled \in Nat
    /\ output \in BOOLEAN /\ reboot \in BOOLEAN
    /\ skip \in 0 .. SkipLimit
    /\ chatter \in 0 .. InstrPerFrame
    /\ active \subseteq Options /\ sent \subseteq Options
    /\ exitCode \in {None, 0, -1}
    /\ cpc \in {"spawn", "score", "player", "module", "moduleToken", "reply",
                "canToken", "cantToken", "options", "turn", "read", "readToken",
                "rebootToken", "hear", "rebootWait", "done", "failed", "killed"}
    /\ song \in Songs \cup {0}
    /\ asked \in ReadSizes \cup {0}
    /\ heard \in Nat

\* With the types of the layer they are all the types.
LEMMA Types == TypeOK => ProgramTypes
BY DEF TypeOK, ProgramTypes

LEMMA WellTyped == ASSUME LayerInv', ProgramTypes' PROVE TypeOK'
<1>1. Layer!TypeOK' /\ Layer!WithinCapacity'
  BY DEF LayerInv, Layer!TurnInv
<1>2. Layer!Peers = Ipc!Peers /\ Layer!Chunk = Ipc!Chunk
  BY ThePeers DEF Layer!Chunk, Ipc!Chunk
<1>3. /\ state' \in [Ipc!Peers -> {"INITIAL", "R", "S"}]
      /\ wire' \in [Ipc!Peers -> Seq(Ipc!Chunk)]
      /\ rx' \in [Ipc!Peers -> WithBody \cup {None}]
      /\ tx' \in [Ipc!Peers -> WithBody \cup {None}]
      /\ open' \in [Ipc!Peers -> BOOLEAN]
  BY <1>1, <1>2 DEF Layer!TypeOK
<1>4. \A p \in Ipc!Peers : Len(wire'[p]) <= PipeCapacity
  BY <1>1, <1>2 DEF Layer!WithinCapacity
<1>5. QED
  BY <1>3, <1>4 DEF TypeOK, ProgramTypes

\* Where nothing is on its way a stream fits if its writer says what its
\* reader expects.
LEMMA NoCommands ==
    ASSUME wire'["core"] = <<>>, rx'["core"] = None, tx'["client"] = None,
           BothLive' => ClientSays' \subseteq CoreExpects'
    PROVE  CommandsFit'
<1>1. BothLive' => Typed(ClientSays') \subseteq Typed(CoreExpects')
  BY TypedSets
<1>2. Layer!Talks(<<>>, None, Typed(CoreExpects'), CommandAfter)
  BY IpcAssumed, Layer!EmptyStream
<1>3. BothLive' => Layer!Accepts(<<>>, None, None, Typed(CoreExpects'), CommandAfter,
                                 Typed(ClientSays'))
  BY <1>1, IpcAssumed, Layer!EmptyStream
<1>4. QED
  BY <1>2, <1>3 DEF CommandsFit, Typed, CommandAfter

LEMMA NoReplies ==
    ASSUME wire'["client"] = <<>>, rx'["client"] = None, tx'["core"] = None,
           BothLive' => CoreSays' \subseteq ClientExpects'
    PROVE  RepliesFit'
<1>1. BothLive' => Typed(CoreSays') \subseteq Typed(ClientExpects')
  BY TypedSets
<1>2. Layer!Talks(<<>>, None, Typed(ClientExpects'), ReplyAfter)
  BY IpcAssumed, Layer!EmptyStream
<1>3. BothLive' => Layer!Accepts(<<>>, None, None, Typed(ClientExpects'), ReplyAfter,
                                 Typed(CoreSays'))
  BY <1>1, IpcAssumed, Layer!EmptyStream
<1>4. QED
  BY <1>2, <1>3 DEF RepliesFit, Typed, ReplyAfter

\* The core has written and goes to a place that says what may follow.
LEMMA CoreWriteKeeps ==
    ASSUME SessionInv, NEW m \in Msg, m.type \in CoreSays,
           Ipc!SendMessage("core", m) \/ (m \in WithBody /\ Ipc!SendString("core", m)),
           UNCHANGED clientVars, exitCode' = exitCode,
           CoreSays' \subseteq AfterReply(m.type),
           kpc' \notin {"exit", "killed"}, kpc' \in CoreSpeaking <=> m # Token
    PROVE  /\ Conversation' /\ BothLive /\ BothLive' /\ cpc \notin ClientSpeaking
           /\ Commands = {} /\ Commands' = {} /\ Replies' = Replies \cup {m}
           /\ TokenForClient' <=> m = Token
<1>1. /\ LayerInv' /\ BothLive /\ open' = open /\ cpc \notin ClientSpeaking
      /\ ~Layer!MaySend("client")' /\ (Layer!MaySend("core")' <=> m # Token)
      /\ wire'["core"] = <<>> /\ rx'["core"] = None /\ tx'["client"] = None
      /\ Commands = {} /\ Commands' = {} /\ Replies' = Replies \cup {m}
      /\ (TokenForClient' <=> m = Token)
      /\ Layer!Talks(wire'["client"], rx'["client"], Typed(ClientExpects), ReplyAfter)
      /\ \A T : T \subseteq AfterReply(m.type) =>
            Layer!Accepts(wire'["client"], rx'["client"], tx'["core"],
                          Typed(ClientExpects), ReplyAfter, Typed(T))
  BY CoreWrites
<1>2. /\ ClientExpects' = ClientExpects /\ ClientSays' = {} /\ cpc' = cpc
  BY <1>1 DEF clientVars, ClientExpects, ClientSays, ClientSpeaking
<1>3. CommandsFit'
  BY <1>1, <1>2, NoCommands
<1>4. RepliesFit'
  <2>1. Typed(ClientExpects') = Typed(ClientExpects)
    BY <1>2
  <2>2. Layer!Accepts(wire'["client"], rx'["client"], tx'["core"],
                      Typed(ClientExpects), ReplyAfter, Typed(CoreSays'))
    BY <1>1
  <2>3. QED
    BY <1>1, <2>1, <2>2 DEF RepliesFit, Typed, ReplyAfter
<1>5. PlacesMatch'
  BY <1>1, <1>2 DEF SessionInv, PlacesMatch, BothLive, ClientSpeaking
<1>6. QuitInTurn'
  BY <1>1, <1>2 DEF SessionInv, PlacesMatch, BothLive, QuitInTurn
<1>7. QED
  BY <1>1, <1>3, <1>4, <1>5, <1>6 DEF Conversation, BothLive

\* The core has read and expects what may follow; a token gives it the floor.
LEMMA CoreReadKeeps ==
    ASSUME SessionInv, NEW m \in Msg, Ipc!ReceiveMessage("core", m),
           UNCHANGED clientVars, exitCode' = exitCode,
           AfterCommand(m.type) \subseteq CoreExpects',
           kpc' \notin {"exit", "killed"}, kpc' \in CoreSpeaking <=> m = Token,
           m = Token /\ BothLive => CoreSays' \subseteq ClientExpects
    PROVE  Conversation'
<1>1. /\ LayerInv' /\ open["core"] /\ open' = open /\ tx' = tx
      /\ (Layer!MaySend("core")' <=> m = Token)
      /\ (Layer!MaySend("client")' <=> Layer!MaySend("client"))
      /\ wire'["client"] = <<>> /\ rx'["client"] = None /\ tx["core"] = None
      /\ \A T : AfterCommand(m.type) \subseteq T =>
            /\ Layer!Talks(wire'["core"], rx'["core"], Typed(T), CommandAfter)
            /\ \A t, W : Layer!Accepts(wire["core"], rx["core"], t,
                                       Typed(CoreExpects), CommandAfter, W)
                         => Layer!Accepts(wire'["core"], rx'["core"], t,
                                          Typed(T), CommandAfter, W)
  BY CoreReads
<1>2. /\ ClientExpects' = ClientExpects /\ ClientSays' = ClientSays /\ cpc' = cpc
  BY DEF clientVars, ClientExpects, ClientSays
<1>3. /\ Layer!Talks(wire'["core"], rx'["core"], Typed(CoreExpects'), CommandAfter)
      /\ \A t, W : Layer!Accepts(wire["core"], rx["core"], t,
                                 Typed(CoreExpects), CommandAfter, W)
                   => Layer!Accepts(wire'["core"], rx'["core"], t,
                                    Typed(CoreExpects'), CommandAfter, W)
  BY <1>1
<1>4. CommandsFit'
  <2>1. BothLive => Layer!Accepts(wire["core"], rx["core"], tx["client"],
                                  Typed(CoreExpects), CommandAfter, Typed(ClientSays))
    BY DEF SessionInv, CommandsFit
  <2>2. BothLive => Layer!Accepts(wire'["core"], rx'["core"], tx'["client"],
                                  Typed(CoreExpects'), CommandAfter, Typed(ClientSays'))
    BY <1>1, <1>2, <1>3, <2>1
  <2>3. QED
    BY <1>1, <1>3, <2>2 DEF CommandsFit, Typed, CommandAfter, BothLive
<1>5. RepliesFit'
  <2>1. m # Token => CoreSays' = {}
    BY DEF CoreSays, CoreSpeaking
  <2>2. BothLive' => CoreSays' \subseteq ClientExpects'
    BY <1>1, <1>2, <2>1 DEF BothLive
  <2>3. QED
    BY <1>1, <2>2, NoReplies
<1>6. PlacesMatch'
  BY <1>1, <1>2 DEF SessionInv, PlacesMatch
<1>7. QuitInTurn'
  BY <1>1, <1>2, <1>3 DEF SessionInv, QuitInTurn, Typed, CommandAfter
<1>8. QED
  BY <1>1, <1>4, <1>5, <1>6, <1>7 DEF Conversation

\* The client has written and goes to a place that says what may follow.
LEMMA ClientWriteKeeps ==
    ASSUME SessionInv, NEW m \in Msg, m.type \in ClientSays, ClientSends(m),
           UNCHANGED coreVars, ClientSays' \subseteq AfterCommand(m.type),
           cpc' \notin {"done", "failed", "killed"},
           cpc' \in ClientSpeaking <=> m # Token
    PROVE  /\ Conversation' /\ BothLive /\ BothLive' /\ kpc \notin CoreSpeaking
           /\ Replies = {} /\ Replies' = {} /\ Commands' = Commands \cup {m}
           /\ ~TokenForClient /\ ~TokenForClient'
<1>1. /\ LayerInv' /\ BothLive /\ open' = open /\ kpc \notin CoreSpeaking
      /\ cpc \in ClientSpeaking
      /\ ~Layer!MaySend("core")' /\ (Layer!MaySend("client")' <=> m # Token)
      /\ wire'["client"] = <<>> /\ rx'["client"] = None /\ tx'["core"] = None
      /\ Replies = {} /\ Replies' = {} /\ Commands' = Commands \cup {m}
      /\ ~TokenForClient /\ ~TokenForClient'
      /\ Layer!Talks(wire'["core"], rx'["core"], Typed(CoreExpects), CommandAfter)
      /\ \A T : T \subseteq AfterCommand(m.type) =>
            Layer!Accepts(wire'["core"], rx'["core"], tx'["client"],
                          Typed(CoreExpects), CommandAfter, Typed(T))
  BY ClientWrites
<1>2. /\ CoreExpects' = CoreExpects /\ CoreSays' = {} /\ kpc' = kpc /\ exitCode' = exitCode
  BY <1>1 DEF coreVars, CoreExpects, CoreSays, CoreSpeaking
<1>3. RepliesFit'
  BY <1>1, <1>2, NoReplies
<1>4. CommandsFit'
  <2>1. Typed(CoreExpects') = Typed(CoreExpects)
    BY <1>2
  <2>2. Layer!Accepts(wire'["core"], rx'["core"], tx'["client"],
                      Typed(CoreExpects), CommandAfter, Typed(ClientSays'))
    BY <1>1
  <2>3. QED
    BY <1>1, <2>1, <2>2 DEF CommandsFit, Typed, CommandAfter
<1>5. PlacesMatch'
  BY <1>1, <1>2 DEF SessionInv, PlacesMatch, BothLive, CoreSpeaking
<1>6. QuitInTurn'
  BY <1>1, <1>2 DEF SessionInv, PlacesMatch, BothLive, QuitInTurn
<1>7. QED
  BY <1>1, <1>3, <1>4, <1>5, <1>6 DEF Conversation, BothLive

\* The client has read and expects what may follow; a token gives it the floor.
LEMMA ClientReadKeeps ==
    ASSUME SessionInv, NEW m \in Msg, Ipc!ReceiveMessage("client", m),
           UNCHANGED coreVars, AfterReply(m.type) \subseteq ClientExpects',
           cpc' \notin {"done", "failed", "killed"},
           cpc' \in ClientSpeaking <=> m = Token,
           m = Token /\ BothLive => ClientSays' \subseteq CoreExpects
    PROVE  Conversation'
<1>1. /\ LayerInv' /\ open["client"] /\ open' = open /\ tx' = tx
      /\ (Layer!MaySend("client")' <=> m = Token)
      /\ (Layer!MaySend("core")' <=> Layer!MaySend("core"))
      /\ wire'["core"] = <<>> /\ rx'["core"] = None /\ tx["client"] = None
      /\ \A T : AfterReply(m.type) \subseteq T =>
            /\ Layer!Talks(wire'["client"], rx'["client"], Typed(T), ReplyAfter)
            /\ \A t, W : Layer!Accepts(wire["client"], rx["client"], t,
                                       Typed(ClientExpects), ReplyAfter, W)
                         => Layer!Accepts(wire'["client"], rx'["client"], t,
                                          Typed(T), ReplyAfter, W)
  BY ClientReads
<1>2. /\ CoreExpects' = CoreExpects /\ CoreSays' = CoreSays /\ kpc' = kpc
      /\ exitCode' = exitCode
  BY DEF coreVars, CoreExpects, CoreSays
<1>3. /\ Layer!Talks(wire'["client"], rx'["client"], Typed(ClientExpects'), ReplyAfter)
      /\ \A t, W : Layer!Accepts(wire["client"], rx["client"], t,
                                 Typed(ClientExpects), ReplyAfter, W)
                   => Layer!Accepts(wire'["client"], rx'["client"], t,
                                    Typed(ClientExpects'), ReplyAfter, W)
  BY <1>1
<1>4. RepliesFit'
  <2>1. BothLive => Layer!Accepts(wire["client"], rx["client"], tx["core"],
                                  Typed(ClientExpects), ReplyAfter, Typed(CoreSays))
    BY DEF SessionInv, RepliesFit
  <2>2. BothLive => Layer!Accepts(wire'["client"], rx'["client"], tx'["core"],
                                  Typed(ClientExpects'), ReplyAfter, Typed(CoreSays'))
    BY <1>1, <1>2, <1>3, <2>1
  <2>3. QED
    BY <1>1, <1>3, <2>2 DEF RepliesFit, Typed, ReplyAfter, BothLive
<1>5. CommandsFit'
  <2>1. m # Token => ClientSays' = {}
    BY DEF ClientSays, ClientSpeaking
  <2>2. BothLive' => ClientSays' \subseteq CoreExpects'
    BY <1>1, <1>2, <2>1 DEF BothLive
  <2>3. QED
    BY <1>1, <2>2, NoCommands
<1>6. PlacesMatch'
  BY <1>1, <1>2 DEF SessionInv, PlacesMatch
<1>7. QuitInTurn'
  BY <1>1, <1>2 DEF SessionInv, PlacesMatch, QuitInTurn
<1>8. QED
  BY <1>1, <1>4, <1>5, <1>6, <1>7 DEF Conversation

\* A step of the core, or of the client, that says and hears nothing.
LEMMA SilentKeeps ==
    ASSUME SessionInv, UNCHANGED ipcVars, exitCode' = exitCode,
           \/ UNCHANGED clientVars /\ kpc' = kpc /\ CoreExpects' = CoreExpects
           \/ /\ UNCHANGED coreVars /\ ClientExpects' = ClientExpects
              /\ ClientSays' = ClientSays
              /\ cpc' \notin {"done", "failed", "killed"}
              /\ cpc \notin {"done", "failed", "killed"}
              /\ cpc' \in ClientSpeaking <=> cpc \in ClientSpeaking
    PROVE  /\ Conversation' /\ Commands' = Commands /\ Replies' = Replies
           /\ (TokenForClient' <=> TokenForClient) /\ BothLive' = BothLive
<1>1. /\ open' = open /\ tx' = tx /\ wire' = wire /\ rx' = rx /\ state' = state
  BY DEF ipcVars
<1>2. /\ CoreExpects' = CoreExpects /\ CoreSays' = CoreSays /\ kpc' = kpc
      /\ ClientExpects' = ClientExpects /\ ClientSays' = ClientSays
  BY DEF coreVars, clientVars, CoreExpects, CoreSays, ClientExpects, ClientSays
<1>3. LayerInv'
  BY <1>1, ThePeers
     DEF SessionInv, LayerInv, Layer!TurnInv, Layer!TypeOK, Layer!ExactlyOneTurn,
         Layer!HalfDuplex, Layer!Turn, Layer!MaySend, Layer!TokenInFlight,
         Layer!QuietBehindToken, Layer!WithinCapacity, Layer!MayReceive
<1>4. CommandsFit' /\ RepliesFit'
  BY <1>1, <1>2 DEF SessionInv, CommandsFit, RepliesFit, BothLive, Typed,
                    CommandAfter, ReplyAfter
<1>5. PlacesMatch' /\ QuitInTurn'
  BY <1>1, <1>2 DEF SessionInv, PlacesMatch, QuitInTurn, Layer!MaySend, clientVars,
                    Typed, CommandAfter
<1>6. QED
  BY <1>1, <1>3, <1>4, <1>5 DEF Conversation, Commands, Replies, TokenForClient,
                                BothLive, Layer!TokenInFlight

(***************************************************************************)
(* The second half of a string, the header of a message and a string given *)
(* up change nothing either program knows of.                              *)
(***************************************************************************)
LEMMA HalvesKeep ==
    ASSUME SessionInv, UNCHANGED <<coreVars, clientVars>>, LayerInv', open' = open,
           Layer!MaySend("client")' <=> Layer!MaySend("client"),
           Layer!MaySend("core")' <=> Layer!MaySend("core"),
           CommandsFit', RepliesFit',
           Commands' = Commands, open["client"] => Replies' = Replies,
           TokenForClient' <=> TokenForClient,
           ~open["client"] => tx'["client"] = tx["client"],
           ~open["client"] =>
               \A W : Layer!Accepts(wire["core"], rx["core"], None,
                                    Typed(CoreExpects), CommandAfter, W)
                      => Layer!Accepts(wire'["core"], rx'["core"], None,
                                       Typed(CoreExpects), CommandAfter, W)
    PROVE  SessionInv'
<1>1. /\ kpc' = kpc /\ loaded' = loaded /\ readSize' = readSize /\ filled' = filled
      /\ output' = output /\ skip' = skip /\ reboot' = reboot /\ chatter' = chatter
      /\ active' = active /\ exitCode' = exitCode
      /\ cpc' = cpc /\ song' = song /\ sent' = sent /\ asked' = asked /\ heard' = heard
  BY DEF coreVars, clientVars
<1>2. TypeOK'
  <2>1. ProgramTypes'
    BY <1>1, Types DEF SessionInv, ProgramTypes
  <2>2. QED
    BY <2>1, WellTyped
<1>3. CoreExpects' = CoreExpects
  BY <1>1 DEF CoreExpects
<1>4. PlacesMatch' /\ CoreInOrder'
  BY <1>1 DEF SessionInv, PlacesMatch, CoreInOrder
<1>5. BothLive' => CommandsAreTheClients' /\ CoreFollowsClient' /\ AnswersAreTheCores'
  BY <1>1 DEF SessionInv, BothLive, CommandsAreTheClients, CoreFollowsClient,
              AnswersAreTheCores
<1>6. ClientInOrder' /\ OptionsKept'
  BY <1>1 DEF SessionInv, ClientInOrder, OptionsKept, OptionsOnTheWay, Typed
<1>7. QuitInTurn'
  <2>1. cpc = "done" => ~open["client"]
    BY DEF SessionInv, PlacesMatch
  <2>2. QED
    BY <1>1, <1>3, <2>1 DEF SessionInv, QuitInTurn, Typed, CommandAfter
<1>8. QED
  BY <1>2, <1>4, <1>5, <1>6, <1>7 DEF SessionInv

\* uade_send_string() of the core writes the body.
LEMMA CoreBodyKeeps ==
    ASSUME SessionInv, CoreDebugBody
    PROVE  SessionInv'
<1>1. LayerInv'
  BY LayerKept, ThePeers DEF SessionInv, IpcCall, CoreDebugBody
<1>2. Layer!TurnInv /\ Layer!QuietBehindToken /\ Layer!SendStringBody("core")
  BY SameLayer DEF SessionInv, LayerInv, CoreDebugBody
<1>3. BothLive
  BY <1>2, ThePeers DEF Layer!SendStringBody, BothLive
<1>4. /\ Typed(ClientExpects) \in SUBSET Msg /\ ReplyAfter \in [Msg -> SUBSET Msg]
      /\ Layer!Talks(wire["client"], rx["client"], Typed(ClientExpects), ReplyAfter)
      /\ Layer!Accepts(wire["client"], rx["client"], tx["core"],
                       Typed(ClientExpects), ReplyAfter, Typed(CoreSays))
  BY <1>3, TypedSets DEF SessionInv, RepliesFit, BothLive
<1>5. /\ open' = open /\ state' = state /\ rx' = rx
      /\ wire'["core"] = wire["core"] /\ tx'["client"] = tx["client"]
      /\ Layer!TokenInFlight("client")' = Layer!TokenInFlight("client")
      /\ Layer!Talks(wire'["client"], rx'["client"], Typed(ClientExpects), ReplyAfter)
      /\ Layer!Accepts(wire'["client"], rx'["client"], tx'["core"],
                       Typed(ClientExpects), ReplyAfter, Typed(CoreSays))
      /\ Layer!Pending(wire'["client"], rx'["client"], tx'["core"])
         = Layer!Pending(wire["client"], rx["client"], tx["core"])
  BY <1>2, <1>4, ThePeers, IpcAssumed, Layer!BodyEffect
<1>6. /\ CoreExpects' = CoreExpects /\ CoreSays' = CoreSays
      /\ ClientExpects' = ClientExpects /\ ClientSays' = ClientSays
  BY DEF CoreDebugBody, coreVars, clientVars, CoreExpects, CoreSays, ClientExpects,
         ClientSays
<1>7. CommandsFit' /\ RepliesFit'
  BY <1>5, <1>6 DEF SessionInv, CommandsFit, RepliesFit, BothLive, Typed,
                    CommandAfter, ReplyAfter
<1>8. QED
  BY <1>1, <1>3, <1>5, <1>7, HalvesKeep
     DEF CoreDebugBody, Layer!MaySend, Commands, Replies, TokenForClient, BothLive

\* uade_send_string() of the client writes the body.
LEMMA ClientBodyKeeps ==
    ASSUME SessionInv, ClientStringBody
    PROVE  SessionInv'
<1>1. LayerInv'
  BY LayerKept, ThePeers DEF SessionInv, IpcCall, ClientStringBody
<1>2. Layer!TurnInv /\ Layer!QuietBehindToken /\ Layer!SendStringBody("client")
  BY SameLayer DEF SessionInv, LayerInv, ClientStringBody
<1>3. BothLive
  BY <1>2, ThePeers DEF Layer!SendStringBody, BothLive
<1>4. /\ Typed(CoreExpects) \in SUBSET Msg /\ CommandAfter \in [Msg -> SUBSET Msg]
      /\ Layer!Talks(wire["core"], rx["core"], Typed(CoreExpects), CommandAfter)
      /\ Layer!Accepts(wire["core"], rx["core"], tx["client"],
                       Typed(CoreExpects), CommandAfter, Typed(ClientSays))
  BY <1>3, TypedSets DEF SessionInv, CommandsFit, BothLive
<1>5. /\ open' = open /\ state' = state /\ rx' = rx
      /\ wire'["client"] = wire["client"] /\ tx'["core"] = tx["core"]
      /\ Layer!Talks(wire'["core"], rx'["core"], Typed(CoreExpects), CommandAfter)
      /\ Layer!Accepts(wire'["core"], rx'["core"], tx'["client"],
                       Typed(CoreExpects), CommandAfter, Typed(ClientSays))
      /\ Layer!Pending(wire'["core"], rx'["core"], tx'["client"])
         = Layer!Pending(wire["core"], rx["core"], tx["client"])
  BY <1>2, <1>4, ThePeers, IpcAssumed, Layer!BodyEffect
<1>6. /\ CoreExpects' = CoreExpects /\ CoreSays' = CoreSays
      /\ ClientExpects' = ClientExpects /\ ClientSays' = ClientSays
  BY DEF ClientStringBody, coreVars, clientVars, CoreExpects, CoreSays, ClientExpects,
         ClientSays
<1>7. CommandsFit' /\ RepliesFit'
  BY <1>5, <1>6 DEF SessionInv, CommandsFit, RepliesFit, BothLive, Typed,
                    CommandAfter, ReplyAfter
<1>8. QED
  BY <1>1, <1>3, <1>5, <1>7, HalvesKeep
     DEF ClientStringBody, Layer!MaySend, Layer!TokenInFlight, Commands, Replies,
         TokenForClient, BothLive

\* uade_receive_message() of the core has a header and waits for the body.
LEMMA CoreHeaderKeeps ==
    ASSUME SessionInv, CoreHeader
    PROVE  SessionInv'
<1>1. LayerInv'
  BY LayerKept, ThePeers DEF SessionInv, IpcCall, CoreHeader
<1>2. Layer!TurnInv /\ Layer!QuietBehindToken /\ Layer!ReceiveHeader("core")
  BY SameLayer DEF SessionInv, LayerInv, CoreHeader
<1>3. open["core"]
  BY <1>2 DEF Layer!ReceiveHeader
<1>4. /\ Typed(CoreExpects) \in SUBSET Msg /\ CommandAfter \in [Msg -> SUBSET Msg]
      /\ Layer!Talks(wire["core"], rx["core"], Typed(CoreExpects), CommandAfter)
  BY <1>3, TypedSets DEF SessionInv, CommandsFit
<1>5. /\ open' = open /\ tx' = tx
      /\ wire'["client"] = wire["client"] /\ rx'["client"] = rx["client"]
      /\ ~Layer!MaySend("core") /\ ~Layer!MaySend("core")'
      /\ (Layer!MaySend("client")' <=> Layer!MaySend("client"))
      /\ Layer!TokenInFlight("client")' = Layer!TokenInFlight("client")
      /\ Layer!Talks(wire'["core"], rx'["core"], Typed(CoreExpects), CommandAfter)
      /\ \A t, W : Layer!Accepts(wire["core"], rx["core"], t,
                                 Typed(CoreExpects), CommandAfter, W)
                   => Layer!Accepts(wire'["core"], rx'["core"], t,
                                    Typed(CoreExpects), CommandAfter, W)
      /\ \A t : Layer!Pending(wire'["core"], rx'["core"], t)
                = Layer!Pending(wire["core"], rx["core"], t)
  BY <1>2, <1>4, ThePeers, IpcAssumed, Layer!HeaderEffect
<1>6. /\ CoreExpects' = CoreExpects /\ CoreSays' = CoreSays
      /\ ClientExpects' = ClientExpects /\ ClientSays' = ClientSays
  BY DEF CoreHeader, coreVars, clientVars, CoreExpects, CoreSays, ClientExpects,
         ClientSays
<1>7. CommandsFit' /\ RepliesFit'
  BY <1>5, <1>6 DEF SessionInv, CommandsFit, RepliesFit, BothLive, Typed,
                    CommandAfter, ReplyAfter
<1>8. QED
  BY <1>1, <1>5, <1>7, HalvesKeep DEF CoreHeader, Commands, Replies, TokenForClient

\* uade_receive_message() of the client has a header and waits for the body.
LEMMA ClientHeaderKeeps ==
    ASSUME SessionInv, ClientHeader
    PROVE  SessionInv'
<1>1. LayerInv'
  BY LayerKept, ThePeers DEF SessionInv, IpcCall, ClientHeader
<1>2. Layer!TurnInv /\ Layer!QuietBehindToken /\ Layer!ReceiveHeader("client")
  BY SameLayer DEF SessionInv, LayerInv, ClientHeader
<1>3. open["client"]
  BY <1>2 DEF Layer!ReceiveHeader
<1>4. /\ Typed(ClientExpects) \in SUBSET Msg /\ ReplyAfter \in [Msg -> SUBSET Msg]
      /\ Layer!Talks(wire["client"], rx["client"], Typed(ClientExpects), ReplyAfter)
  BY <1>3, TypedSets DEF SessionInv, RepliesFit
<1>5. /\ open' = open /\ tx' = tx
      /\ wire'["core"] = wire["core"] /\ rx'["core"] = rx["core"]
      /\ ~Layer!MaySend("client") /\ ~Layer!MaySend("client")'
      /\ (Layer!MaySend("core")' <=> Layer!MaySend("core"))
      /\ Layer!TokenInFlight("client")' = Layer!TokenInFlight("client")
      /\ Layer!Talks(wire'["client"], rx'["client"], Typed(ClientExpects), ReplyAfter)
      /\ \A t, W : Layer!Accepts(wire["client"], rx["client"], t,
                                 Typed(ClientExpects), ReplyAfter, W)
                   => Layer!Accepts(wire'["client"], rx'["client"], t,
                                    Typed(ClientExpects), ReplyAfter, W)
      /\ \A t : Layer!Pending(wire'["client"], rx'["client"], t)
                = Layer!Pending(wire["client"], rx["client"], t)
  BY <1>2, <1>4, ThePeers, IpcAssumed, Layer!HeaderEffect
<1>6. /\ CoreExpects' = CoreExpects /\ CoreSays' = CoreSays
      /\ ClientExpects' = ClientExpects /\ ClientSays' = ClientSays
  BY DEF ClientHeader, coreVars, clientVars, CoreExpects, CoreSays, ClientExpects,
         ClientSays
<1>7. CommandsFit' /\ RepliesFit'
  BY <1>5, <1>6 DEF SessionInv, CommandsFit, RepliesFit, BothLive, Typed,
                    CommandAfter, ReplyAfter
<1>8. QED
  BY <1>1, <1>3, <1>5, <1>7, HalvesKeep DEF ClientHeader, Commands, Replies, TokenForClient

\* The core exits or is killed.
LEMMA CoreLeavesKeeps ==
    ASSUME SessionInv, Ipc!Close("core"), kpc' \in {"exit", "killed"},
           exitCode' \in {None, 0, -1}, exitCode' = -1 => cpc \in {"killed", "failed"},
           UNCHANGED <<loaded, readSize, filled, output, skip, reboot, chatter, active,
                       clientVars>>
    PROVE  SessionInv'
<1>1. LayerInv'
  BY LayerKept, ThePeers DEF SessionInv, IpcCall
<1>2. /\ state' = state /\ wire' = wire /\ rx' = rx /\ tx' = tx
      /\ ~open'["core"] /\ open'["client"] = open["client"]
  BY ThePeers DEF SessionInv, TypeOK, Ipc!Close
<1>3. /\ cpc' = cpc /\ song' = song /\ sent' = sent /\ asked' = asked /\ heard' = heard
      /\ ~BothLive' /\ ClientExpects' = ClientExpects
  BY <1>2 DEF clientVars, BothLive, ClientExpects
<1>4. TypeOK'
  <2>1. ProgramTypes'
    BY <1>3, Types DEF SessionInv, ProgramTypes
  <2>2. QED
    BY <1>1, <2>1, WellTyped
<1>5. PlacesMatch' /\ CoreInOrder'
  BY <1>2, <1>3 DEF SessionInv, PlacesMatch, CoreInOrder, Layer!MaySend, InSong
<1>6. CommandsFit' /\ RepliesFit'
  BY <1>2, <1>3 DEF SessionInv, CommandsFit, RepliesFit, Typed, ReplyAfter, BothLive
<1>7. ClientInOrder'
  BY <1>2, <1>3 DEF SessionInv, ClientInOrder, Replies
<1>8. OptionsKept' /\ QuitInTurn'
  BY <1>2, <1>3 DEF SessionInv, OptionsKept, QuitInTurn, Layer!MaySend
<1>9. QED
  BY <1>1, <1>3, <1>4, <1>5, <1>6, <1>7, <1>8 DEF SessionInv

\* The client quits, fails or is killed.
LEMMA ClientLeavesKeeps ==
    ASSUME SessionInv, NEW pc \in {"done", "failed", "killed"}, ClientLeaves(pc),
           pc = "done" => ClientAt("turn") \/ ClientAt("score")
    PROVE  SessionInv'
<1>1. LayerInv'
  BY LayerKept, ThePeers DEF SessionInv, IpcCall, ClientLeaves
<1>2. /\ state' = state /\ wire' = wire /\ rx' = rx /\ tx' = tx
      /\ open["client"] /\ ~open'["client"] /\ open'["core"] = open["core"]
  BY ThePeers DEF SessionInv, TypeOK, Ipc!Close, ClientLeaves
<1>3. /\ kpc' = kpc /\ loaded' = loaded /\ readSize' = readSize /\ filled' = filled
      /\ output' = output /\ skip' = skip /\ reboot' = reboot /\ chatter' = chatter
      /\ active' = active /\ exitCode' = exitCode
      /\ cpc' = pc /\ song' = song /\ sent' = sent /\ asked' = asked /\ heard' = heard
      /\ ~BothLive' /\ CoreExpects' = CoreExpects
  BY <1>2 DEF ClientLeaves, coreVars, BothLive, CoreExpects
<1>4. TypeOK'
  <2>1. ProgramTypes'
    BY <1>3, Types DEF SessionInv, ProgramTypes
  <2>2. QED
    BY <1>1, <2>1, WellTyped
<1>5. PlacesMatch' /\ CoreInOrder'
  BY <1>2, <1>3 DEF SessionInv, PlacesMatch, CoreInOrder, Layer!MaySend, InSong
<1>6. CommandsFit' /\ RepliesFit'
  BY <1>2, <1>3 DEF SessionInv, CommandsFit, RepliesFit, Typed, CommandAfter, BothLive
<1>7. ClientInOrder'
  BY <1>2, <1>3 DEF ClientInOrder
<1>8. OptionsKept'
  BY <1>2, <1>3 DEF SessionInv, OptionsKept, OptionsOnTheWay, Commands, TokenForClient,
                    Layer!TokenInFlight, Typed
<1>9. QuitInTurn'
  <2>1. cpc \notin {"done", "failed", "killed"}
    BY <1>2 DEF SessionInv, PlacesMatch
  <2>2. exitCode' = -1 => cpc' \in {"killed", "failed"}
    BY <1>3, <2>1 DEF SessionInv, QuitInTurn
  <2>3. ASSUME pc = "done"
        PROVE  /\ Layer!MaySend("client") /\ tx["client"] = None
               /\ ClientSays \in {CommandTypes, {"SCORE"}}
    BY <1>2, <2>3 DEF SessionInv, PlacesMatch, ClientAt, ClientSpeaking, ClientSays
  <2>4. ASSUME pc = "done", open["core"]
        PROVE  Layer!Accepts(wire["core"], rx["core"], None, Typed(CoreExpects),
                             CommandAfter, Typed(ClientSays))
    BY <1>2, <2>3, <2>4 DEF SessionInv, CommandsFit, BothLive
  <2>5. QED
    BY <1>2, <1>3, <2>2, <2>3, <2>4 DEF QuitInTurn, Layer!MaySend, Typed, CommandAfter
<1>10. QED
  BY <1>1, <1>3, <1>4, <1>5, <1>6, <1>7, <1>8, <1>9 DEF SessionInv

-----------------------------------------------------------------------------
(***************************************************************************)
(* What the programs have on record, action by action.                     *)
(***************************************************************************)
Records ==
    /\ ProgramTypes
    /\ CoreInOrder
    /\ BothLive => /\ CommandsAreTheClients
                   /\ CoreFollowsClient
                   /\ AnswersAreTheCores
    /\ ClientInOrder
    /\ OptionsKept

LEMMA Together == ASSUME Conversation', Records' PROVE SessionInv'
BY WellTyped DEF Conversation, Records, SessionInv

LEMMA Apart == ASSUME SessionInv PROVE Conversation /\ Records
BY Types DEF Conversation, Records, SessionInv

\* The core answers the module name.
LEMMA CoreReplyPlayKeeps ==
    ASSUME SessionInv, CoreReplyPlay
    PROVE  SessionInv'
<1>1. PICK m \in {Plain("CAN_PLAY"), Plain("CANT_PLAY")} :
          /\ Ipc!SendMessage("core", m)
          /\ \/ m = Plain("CAN_PLAY") /\ kpc = "canPlay" /\ kpc' = "canPlayToken"
             \/ m = Plain("CANT_PLAY") /\ kpc = "cantPlay" /\ kpc' = "cantPlayToken"
  BY DEF CoreReplyPlay, CoreAt
<1>2. /\ UNCHANGED <<loaded, readSize, filled, output, skip, reboot, chatter, active,
                     exitCode, clientVars>>
  BY DEF CoreReplyPlay
<1>3. /\ m \in Msg /\ m.type \in {"CAN_PLAY", "CANT_PLAY"} /\ m # Token
      /\ m.type = "CAN_PLAY" <=> kpc = "canPlay"
  BY <1>1, MessagesThereAre DEF Token
<1>4. /\ m.type \in CoreSays /\ CoreSays' \subseteq AfterReply(m.type)
      /\ kpc' \in CoreSpeaking
  BY <1>1, <1>3 DEF CoreSays, AfterReply, CoreSpeaking
<1>5. /\ Conversation' /\ BothLive /\ BothLive' /\ cpc \notin ClientSpeaking
      /\ Commands = {} /\ Commands' = {} /\ Replies' = Replies \cup {m}
      /\ (TokenForClient' <=> m = Token)
  BY <1>1, <1>2, <1>3, <1>4, CoreWriteKeeps
<1>6. Records
  BY Apart
<1>7. ProgramTypes' /\ CoreInOrder'
  BY <1>1, <1>2, <1>6 DEF Records, ProgramTypes, CoreInOrder, InSong, clientVars
<1>8. cpc = "reply" /\ cpc' = "reply" /\ (kpc = "canPlay" => loaded = song) /\ song' = song
  BY <1>1, <1>2, <1>5, <1>6 DEF Records, CoreFollowsClient, clientVars, InSong
<1>9. CommandsAreTheClients' /\ CoreFollowsClient' /\ OptionsKept'
  BY <1>1, <1>2, <1>5, <1>8
     DEF CommandsAreTheClients, CoreFollowsClient, OptionsKept, InSong
<1>10. AnswersAreTheCores'
  BY <1>1, <1>3, <1>5, <1>6 DEF Records, AnswersAreTheCores
<1>11. ClientInOrder'
  BY <1>2, <1>3, <1>5, <1>6, <1>8 DEF Records, ClientInOrder, BothLive, clientVars
<1>12. QED
  BY <1>5, <1>7, <1>9, <1>10, <1>11, Together DEF Records

\* The token behind CAN_PLAY: the resets leave no optional setting in force.
LEMMA CoreStartSongKeeps ==
    ASSUME SessionInv, CoreStartSong
    PROVE  SessionInv'
<1>1. /\ kpc = "canPlayToken" /\ Ipc!SendMessage("core", Token)
      /\ active' = active \ (ResetAfterCanPlay \cup ResetByCustomreset)
      /\ filled' = 0 /\ chatter' = 0 /\ kpc' = "listen"
      /\ UNCHANGED <<loaded, readSize, output, skip, reboot, exitCode, clientVars>>
  BY DEF CoreStartSong, CoreAt, AfterChipReset
<1>2. /\ Token \in Msg /\ Token.type = "TOKEN" /\ Token.type \in CoreSays
      /\ CoreSays' = {} /\ kpc' \notin CoreSpeaking
  BY <1>1, MessagesThereAre DEF CoreSays, CoreSpeaking
<1>3. /\ Conversation' /\ BothLive /\ BothLive' /\ cpc \notin ClientSpeaking
      /\ Commands = {} /\ Commands' = {} /\ Replies' = Replies \cup {Token}
      /\ TokenForClient'
  BY <1>1, <1>2, CoreWriteKeeps
<1>4. Records
  BY Apart
<1>5. active' = {}
  BY <1>1, <1>4, SessionAssumption
     DEF Records, ProgramTypes, CoreInOrder, AllOptions, ResetByUadeReset
<1>6. readSize = 0 /\ ~reboot /\ ProgramTypes' /\ CoreInOrder'
  BY <1>1, <1>4, <1>5, SessionAssumption
     DEF Records, ProgramTypes, CoreInOrder, InSong, clientVars
<1>7. cpc \in {"reply", "canToken"} /\ cpc' = cpc /\ loaded = song /\ song' = song
  BY <1>1, <1>3, <1>4 DEF Records, CoreFollowsClient, clientVars, InSong
<1>8. CommandsAreTheClients' /\ CoreFollowsClient' /\ OptionsKept'
  BY <1>1, <1>3, <1>5, <1>6, <1>7
     DEF CommandsAreTheClients, CoreFollowsClient, OptionsKept, InSong
<1>9. AnswersAreTheCores'
  BY <1>1, <1>2, <1>3, <1>4, <1>6, <1>7 DEF Records, AnswersAreTheCores
<1>10. ClientInOrder'
  BY <1>1, <1>2, <1>3, <1>4, <1>7 DEF Records, ClientInOrder, BothLive, clientVars
<1>11. QED
  BY <1>3, <1>6, <1>8, <1>9, <1>10, Together DEF Records

\* The tokens behind CANT_PLAY and behind a reboot: the core awaits a score.
LEMMA CoreNextSongKeeps ==
    ASSUME SessionInv, CoreNextSong \/ CoreRebootAck
    PROVE  SessionInv'
<1>1. /\ kpc \in {"cantPlayToken", "rebootAck"} /\ Ipc!SendMessage("core", Token)
      /\ kpc' = "score"
      /\ UNCHANGED <<loaded, readSize, filled, output, skip, reboot, chatter, active,
                     exitCode, clientVars>>
  BY DEF CoreNextSong, CoreRebootAck, CoreAt
<1>2. /\ Token \in Msg /\ Token.type = "TOKEN" /\ Token.type \in CoreSays
      /\ CoreSays' = {} /\ kpc' \notin CoreSpeaking
  BY <1>1, MessagesThereAre DEF CoreSays, CoreSpeaking
<1>3. /\ Conversation' /\ BothLive /\ BothLive' /\ cpc \notin ClientSpeaking
      /\ Commands = {} /\ Commands' = {} /\ Replies' = Replies \cup {Token}
      /\ TokenForClient'
  BY <1>1, <1>2, CoreWriteKeeps
<1>4. Records
  BY Apart
<1>5. ProgramTypes' /\ CoreInOrder'
  BY <1>1, <1>4 DEF Records, ProgramTypes, CoreInOrder, InSong, clientVars
<1>6. cpc \in {"reply", "cantToken", "rebootWait"} /\ cpc' = cpc /\ song' = song
  BY <1>1, <1>3, <1>4 DEF Records, CoreFollowsClient, clientVars
<1>7. CommandsAreTheClients' /\ CoreFollowsClient' /\ OptionsKept'
  BY <1>1, <1>3, <1>6 DEF CommandsAreTheClients, CoreFollowsClient, OptionsKept, InSong
<1>8. AnswersAreTheCores'
  BY <1>1, <1>2, <1>3, <1>4, <1>6 DEF Records, AnswersAreTheCores
<1>9. ClientInOrder'
  BY <1>1, <1>2, <1>3, <1>4, <1>6 DEF Records, ClientInOrder, BothLive, clientVars
<1>10. QED
  BY <1>3, <1>5, <1>7, <1>8, <1>9, Together DEF Records

\* What the score reports while a READ is being filled.
LEMMA CoreReportKeeps ==
    ASSUME SessionInv, CoreSongEnd \/ CoreSubsongInfo \/ CoreDebugMessage
    PROVE  SessionInv'
<1>1. Records
  BY Apart
<1>2. /\ kpc = "run" /\ chatter < InstrPerFrame /\ chatter' = chatter + 1
      /\ output' \in {output, TRUE}
      /\ UNCHANGED <<kpc, loaded, readSize, filled, skip, reboot, active, exitCode,
                     clientVars>>
  BY DEF CoreSongEnd, CoreSubsongInfo, CoreDebugMessage, CoreAt
<1>3. loaded \in Songs
  BY <1>1, <1>2 DEF Records, CoreInOrder, InSong
<1>4. PICK m \in Msg :
        /\ m.type \in {"SONG_END", "SUBSONG_INFO", "MSG"}
        /\ m.type = "MSG" \/ m.song = loaded
        /\ Ipc!SendMessage("core", m) \/ (m \in WithBody /\ Ipc!SendString("core", m))
  <2>1. \A t \in {"SONG_END", "SUBSONG_INFO"} :
          M(t, 0, loaded) \in Msg /\ M(t, 0, loaded).type = t /\ M(t, 0, loaded).song = loaded
    BY <1>3, MessagesThereAre DEF M
  <2>2. /\ Plain("MSG") \in Msg /\ Plain("MSG").type = "MSG" /\ Plain("MSG") \in WithBody
    BY MessagesThereAre DEF WithBody, Bodiless
  <2>3. QED
    BY <2>1, <2>2 DEF CoreSongEnd, CoreSubsongInfo, CoreDebugMessage
<1>5. m # Token /\ m.type \in CoreSays /\ CoreSays' = AfterReply(m.type)
      /\ kpc' \in CoreSpeaking
  BY <1>2, <1>4, MessagesThereAre DEF CoreSays, AfterReply, CoreSpeaking, RunTypes
<1>6. /\ Conversation' /\ BothLive /\ BothLive' /\ cpc \notin ClientSpeaking
      /\ Commands = {} /\ Commands' = {} /\ Replies' = Replies \cup {m}
      /\ ~TokenForClient'
  BY <1>2, <1>4, <1>5, CoreWriteKeeps
<1>7. ProgramTypes' /\ CoreInOrder'
  <2>1. output' \in BOOLEAN /\ (~output' => ~output)
    <3>1. output \in BOOLEAN /\ (output' = output \/ output' = TRUE)
      BY <1>1, <1>2 DEF Records, ProgramTypes
    <3>2. QED
      BY <3>1, Zenon
  <2>2. chatter' \in 0 .. InstrPerFrame
    BY <1>1, <1>2, SessionAssumption DEF Records, ProgramTypes
  <2>3. QED
    BY <1>1, <1>2, <2>1, <2>2 DEF Records, ProgramTypes, CoreInOrder, InSong, clientVars
<1>8. /\ cpc = "hear" /\ loaded = song /\ readSize = asked /\ heard = 0
      /\ cpc' = cpc /\ song' = song /\ asked' = asked /\ heard' = heard /\ sent' = sent
  BY <1>1, <1>2, <1>6 DEF Records, CoreFollowsClient, clientVars, InSong
<1>9. CommandsAreTheClients' /\ CoreFollowsClient'
  BY <1>2, <1>6, <1>8 DEF CommandsAreTheClients, CoreFollowsClient, InSong
<1>10. AnswersAreTheCores' /\ ClientInOrder' /\ OptionsKept'
  BY <1>1, <1>2, <1>4, <1>6, <1>8
     DEF Records, AnswersAreTheCores, ClientInOrder, OptionsKept, BothLive
<1>11. QED
  BY <1>6, <1>7, <1>9, <1>10, Together DEF Records

\* The frames a READ asked for are there: they are the answer.
LEMMA CoreSendDataKeeps ==
    ASSUME SessionInv, CoreSendData
    PROVE  SessionInv'
<1>1. Records
  BY Apart
<1>2. /\ kpc = "run" /\ Ipc!SendMessage("core", M("DATA", readSize, loaded))
      /\ readSize' = 0 /\ filled' = 0 /\ chatter' = 0 /\ kpc' = "dataToken"
      /\ UNCHANGED <<loaded, output, skip, reboot, active, exitCode, clientVars>>
  BY DEF CoreSendData, CoreAt
<1>3. loaded \in Songs /\ readSize \in ReadSizes
  BY <1>1, <1>2 DEF Records, ProgramTypes, CoreInOrder, InSong
<1>4. PICK m \in Msg : /\ m.type = "DATA" /\ m.song = loaded /\ m.arg = readSize
                       /\ Ipc!SendMessage("core", m)
  BY <1>2, <1>3, MessagesThereAre DEF M
<1>5. m # Token /\ m.type \in CoreSays /\ CoreSays' \subseteq AfterReply(m.type)
      /\ kpc' \in CoreSpeaking
  BY <1>2, <1>4, MessagesThereAre DEF CoreSays, AfterReply, CoreSpeaking, RunTypes
<1>6. /\ Conversation' /\ BothLive /\ BothLive' /\ cpc \notin ClientSpeaking
      /\ Commands = {} /\ Commands' = {} /\ Replies' = Replies \cup {m}
      /\ ~TokenForClient'
  BY <1>2, <1>4, <1>5, CoreWriteKeeps
<1>7. ProgramTypes' /\ CoreInOrder'
  BY <1>1, <1>2, SessionAssumption
     DEF Records, ProgramTypes, CoreInOrder, InSong, clientVars
<1>8. /\ cpc = "hear" /\ loaded = song /\ readSize = asked /\ heard = 0
      /\ cpc' = cpc /\ song' = song /\ asked' = asked /\ heard' = heard /\ sent' = sent
  BY <1>1, <1>2, <1>6 DEF Records, CoreFollowsClient, clientVars, InSong
<1>9. CommandsAreTheClients' /\ CoreFollowsClient'
  BY <1>2, <1>6, <1>8 DEF CommandsAreTheClients, CoreFollowsClient, InSong
<1>10. AnswersAreTheCores' /\ ClientInOrder' /\ OptionsKept'
  BY <1>1, <1>2, <1>4, <1>6, <1>8
     DEF Records, AnswersAreTheCores, ClientInOrder, OptionsKept, BothLive
<1>11. QED
  BY <1>6, <1>7, <1>9, <1>10, Together DEF Records

\* The token that ends the answer.
LEMMA CoreEndAnswerKeeps ==
    ASSUME SessionInv, CoreEndAnswer
    PROVE  SessionInv'
<1>1. Records
  BY Apart
<1>2. /\ kpc = "dataToken" /\ Ipc!SendMessage("core", Token) /\ kpc' = "listen"
      /\ UNCHANGED <<loaded, readSize, filled, output, skip, reboot, chatter, active,
                     exitCode, clientVars>>
  BY DEF CoreEndAnswer, CoreAt
<1>3. /\ Token \in Msg /\ Token.type = "TOKEN" /\ Token.type \in CoreSays
      /\ CoreSays' = {} /\ kpc' \notin CoreSpeaking
  BY <1>2, MessagesThereAre DEF CoreSays, CoreSpeaking
<1>4. /\ Conversation' /\ BothLive /\ BothLive' /\ cpc \notin ClientSpeaking
      /\ Commands = {} /\ Commands' = {} /\ Replies' = Replies \cup {Token}
      /\ TokenForClient'
  BY <1>2, <1>3, CoreWriteKeeps
<1>5. readSize = 0 /\ ~reboot /\ ProgramTypes' /\ CoreInOrder'
  BY <1>1, <1>2 DEF Records, ProgramTypes, CoreInOrder, InSong, clientVars
<1>6. /\ cpc = "hear" /\ loaded = song
      /\ cpc' = cpc /\ song' = song /\ asked' = asked /\ heard' = heard /\ sent' = sent
  BY <1>1, <1>2, <1>4 DEF Records, CoreFollowsClient, clientVars, InSong
<1>7. CommandsAreTheClients' /\ CoreFollowsClient'
  BY <1>2, <1>4, <1>5, <1>6 DEF CommandsAreTheClients, CoreFollowsClient, InSong
<1>8. AnswersAreTheCores' /\ ClientInOrder'
  BY <1>1, <1>2, <1>3, <1>4, <1>5, <1>6
     DEF Records, AnswersAreTheCores, ClientInOrder, BothLive
<1>9. OptionsKept'
  <2>1. OptionsOnTheWay' = {}
    BY <1>4 DEF OptionsOnTheWay
  <2>2. QED
    BY <1>1, <1>2, <1>6, <2>1 DEF Records, OptionsKept
<1>10. QED
  BY <1>4, <1>5, <1>7, <1>8, <1>9, Together DEF Records

\* A frame is dropped, or mixed.
LEMMA CoreFrameKeeps ==
    ASSUME SessionInv, CoreSkipFrame \/ CoreMixFrame
    PROVE  SessionInv'
<1>1. Records
  BY Apart
<1>2. /\ kpc = "run" /\ chatter' = 0
      /\ UNCHANGED <<kpc, loaded, readSize, reboot, active, exitCode, clientVars, ipcVars>>
  BY DEF CoreSkipFrame, CoreMixFrame, CoreAt
<1>3. /\ Conversation' /\ Commands' = Commands /\ Replies' = Replies
      /\ (TokenForClient' <=> TokenForClient) /\ BothLive' = BothLive
  <2>1. CoreExpects' = CoreExpects
    BY <1>2 DEF CoreExpects
  <2>2. QED
    BY <1>2, <2>1, SilentKeeps
<1>4. readSize \in Nat /\ filled \in Nat /\ filled < readSize
  BY <1>1, <1>2, SessionAssumption DEF Records, ProgramTypes, CoreInOrder
<1>5. /\ filled' \in Nat /\ filled' < readSize /\ output' \in BOOLEAN
      /\ skip' \in 0 .. SkipLimit /\ (~output' => skip' < SkipLimit)
  <2>1. CASE CoreSkipFrame
    <3>1. /\ skip \in 0 .. SkipLimit /\ skip < SkipLimit /\ skip' = skip + 1 /\ filled' = 0
      BY <1>1, <2>1 DEF Records, ProgramTypes, CoreInOrder, CoreSkipFrame
    <3>2. /\ output' \in BOOLEAN
          /\ ~output' => ~(skip + 1 >= SkipLimit)
      <4>1. output' = OutputDue(skip + 1)
        BY <2>1 DEF CoreSkipFrame
      <4>2. OutputDue(skip + 1) \in BOOLEAN
        BY DEF OutputDue
      <4>3. output' \in BOOLEAN /\ (~output' => ~OutputDue(skip + 1))
        BY <4>1, <4>2, Zenon
      <4>4. QED
        BY <4>3 DEF OutputDue
    <3>3. skip + 1 \in 0 .. SkipLimit /\ (~(skip + 1 >= SkipLimit) => skip + 1 < SkipLimit)
      BY <3>1, SessionAssumption
    <3>4. filled' \in Nat /\ filled' < readSize
      BY <1>4, <3>1
    <3>5. QED
      BY <3>1, <3>2, <3>3, <3>4
  <2>2. CASE CoreMixFrame
    BY <1>1, <1>4, <2>2 DEF Records, ProgramTypes, CoreInOrder, CoreMixFrame
  <2>3. QED
    BY <2>1, <2>2
<1>6. ProgramTypes' /\ CoreInOrder'
  BY <1>1, <1>2, <1>5, SessionAssumption
     DEF Records, ProgramTypes, CoreInOrder, InSong, clientVars
<1>7. /\ cpc' = cpc /\ song' = song /\ asked' = asked /\ heard' = heard /\ sent' = sent
      /\ open' = open
  BY <1>2 DEF clientVars, ipcVars
<1>8. BothLive => CommandsAreTheClients' /\ CoreFollowsClient' /\ AnswersAreTheCores'
  BY <1>1, <1>2, <1>3, <1>7
     DEF Records, CommandsAreTheClients, CoreFollowsClient, AnswersAreTheCores
<1>9. ClientInOrder' /\ OptionsKept'
  BY <1>1, <1>2, <1>3, <1>7 DEF Records, ClientInOrder, OptionsKept
<1>10. QED
  BY <1>3, <1>6, <1>8, <1>9, Together DEF Records

\* A name the core insists on.
LEMMA CoreReceiveNameKeeps ==
    ASSUME SessionInv, CoreReceiveName
    PROVE  SessionInv'
<1>1. Records
  BY Apart
<1>2. /\ kpc \in {"config", "score", "player"} /\ kpc' = NextName[kpc]
      /\ UNCHANGED <<loaded, readSize, filled, output, skip, reboot, chatter, active,
                     exitCode, clientVars>>
  BY DEF CoreReceiveName, NextName, CoreReceives
<1>3. PICK m \in Msg : m.type = ExpectedName[kpc] /\ Ipc!ReceiveMessage("core", m)
  BY DEF CoreReceiveName, CoreReceives
<1>4. /\ open' = open /\ m \in Commands /\ Commands' \subseteq Commands
      /\ Replies' = {} /\ Replies = {} /\ ~TokenForClient'
  BY <1>3, CoreReads
<1>5. Conversation'
  <2>1. m # Token /\ AfterCommand(m.type) \subseteq CoreExpects'
    BY <1>2, <1>3, MessagesThereAre, Follows DEF NextName, ExpectedName, CoreExpects
  <2>2. kpc' \notin CoreSpeaking /\ kpc' \notin {"exit", "killed"}
    BY <1>2 DEF NextName, CoreSpeaking
  <2>3. QED
    BY <1>2, <1>3, <2>1, <2>2, CoreReadKeeps
<1>6. kpc' \in {"score", "player", "module"}
  BY <1>2 DEF NextName
<1>7. ProgramTypes' /\ CoreInOrder'
  BY <1>1, <1>2, <1>6 DEF Records, ProgramTypes, CoreInOrder, InSong, clientVars
<1>8. /\ cpc' = cpc /\ song' = song /\ asked' = asked /\ heard' = heard /\ sent' = sent
      /\ BothLive' = BothLive
  BY <1>2, <1>4 DEF clientVars, BothLive
<1>9. BothLive => CommandsAreTheClients' /\ CoreFollowsClient' /\ AnswersAreTheCores'
  <2> SUFFICES ASSUME BothLive
               PROVE  CommandsAreTheClients' /\ CoreFollowsClient' /\ AnswersAreTheCores'
    OBVIOUS
  <2>1. CommandsAreTheClients'
    BY <1>1, <1>2, <1>4, <1>6, <1>8 DEF Records, CommandsAreTheClients
  <2>2. cpc \notin {"canToken", "cantToken"}
    BY <1>1, <1>4 DEF Records, CommandsAreTheClients
  <2>3. CoreFollowsClient' /\ AnswersAreTheCores'
    BY <1>1, <1>2, <1>4, <1>6, <1>8, <2>2
       DEF Records, CoreFollowsClient, AnswersAreTheCores, InSong
  <2>4. QED
    BY <2>1, <2>3
<1>10. ClientInOrder' /\ OptionsKept'
  BY <1>1, <1>4, <1>6, <1>8 DEF Records, ClientInOrder, OptionsKept
<1>11. QED
  BY <1>5, <1>7, <1>8, <1>9, <1>10, Together DEF Records

\* The module name: a song is in memory, or it could not be loaded.
LEMMA CoreLoadKeeps ==
    ASSUME SessionInv, CoreLoad
    PROVE  SessionInv'
<1>1. Records
  BY Apart
<1>2. PICK m \in Msg : /\ m.type = "MODULE" /\ CoreReceives(m)
                       /\ \/ /\ kpc' = "tokenCan" /\ loaded' = m.song
                             /\ active' = active \ ResetByUadeReset
                             /\ filled' = 0 /\ output' = FALSE /\ skip' = 0
                             /\ reboot' = FALSE
                          \/ /\ kpc' = "tokenCant" /\ loaded' = 0
                             /\ active' = active \ InAmigaMemory
                             /\ UNCHANGED <<filled, output, skip, reboot>>
  BY DEF CoreLoad, SongInMemory
<1>3. /\ kpc = "module" /\ UNCHANGED <<readSize, chatter, exitCode, clientVars>>
      /\ Ipc!ReceiveMessage("core", m) /\ m.song \in Songs
  BY <1>2, MessagesByType DEF CoreLoad, CoreReceives
<1>4. /\ open' = open /\ m \in Commands /\ Commands' \subseteq Commands
      /\ Replies' = {} /\ Replies = {} /\ ~TokenForClient'
  BY <1>3, CoreReads
<1>5. Conversation'
  <2>1. m # Token /\ AfterCommand(m.type) \subseteq CoreExpects'
    BY <1>2, MessagesThereAre, Follows DEF ExpectedName, CoreExpects
  <2>2. kpc' \notin CoreSpeaking /\ kpc' \notin {"exit", "killed"}
    BY <1>2 DEF CoreSpeaking
  <2>3. QED
    BY <1>2, <1>3, <2>1, <2>2, CoreReadKeeps
<1>6. kpc' \in {"tokenCan", "tokenCant"}
  BY <1>2
<1>7. ProgramTypes' /\ CoreInOrder'
  <2>1. filled = 0 /\ readSize = 0
    BY <1>1, <1>3 DEF Records, CoreInOrder
  <2>2. /\ filled' = 0 /\ loaded' \in Songs \cup {0} /\ active' \subseteq Options
        /\ output' \in BOOLEAN /\ reboot' \in BOOLEAN /\ skip' \in 0 .. SkipLimit
        /\ ~output' => skip' < SkipLimit
        /\ kpc' = "tokenCan" => /\ ~reboot' /\ loaded' \in Songs
                                /\ active' \cap ResetByUadeReset = {}
    <3>1. /\ active \subseteq Options /\ output \in BOOLEAN /\ reboot \in BOOLEAN
          /\ skip \in 0 .. SkipLimit /\ (~output => skip < SkipLimit)
      BY <1>1 DEF Records, ProgramTypes, CoreInOrder
    <3>2. 0 \in 0 .. SkipLimit /\ 0 < SkipLimit
      BY SessionAssumption
    <3>3. CASE kpc' = "tokenCan"
      BY <1>2, <1>3, <3>1, <3>2, <3>3
    <3>4. CASE kpc' = "tokenCant"
      BY <1>2, <2>1, <3>1, <3>4
    <3>5. QED
      BY <1>6, <3>3, <3>4
  <2>3. ProgramTypes'
    BY <1>1, <1>3, <1>6, <2>2 DEF Records, ProgramTypes, clientVars
  <2>4. CoreInOrder'
    BY <1>3, <1>6, <2>1, <2>2 DEF CoreInOrder, InSong
  <2>5. QED
    BY <2>3, <2>4
<1>8. /\ cpc' = cpc /\ song' = song /\ asked' = asked /\ heard' = heard /\ sent' = sent
      /\ BothLive' = BothLive
  BY <1>3, <1>4 DEF clientVars, BothLive
<1>9. BothLive => CommandsAreTheClients' /\ CoreFollowsClient' /\ AnswersAreTheCores'
  <2> SUFFICES ASSUME BothLive
               PROVE  CommandsAreTheClients' /\ CoreFollowsClient' /\ AnswersAreTheCores'
    OBVIOUS
  <2>1. cpc \in {"moduleToken", "reply"} /\ m.song = song
    BY <1>1, <1>2, <1>4 DEF Records, CommandsAreTheClients
  <2>2. CommandsAreTheClients'
    BY <1>1, <1>3, <1>4, <1>6, <1>8 DEF Records, CommandsAreTheClients
  <2>3. CoreFollowsClient' /\ AnswersAreTheCores'
    BY <1>2, <1>4, <1>8, <2>1 DEF CoreFollowsClient, AnswersAreTheCores, InSong
  <2>4. QED
    BY <2>2, <2>3
<1>10. ClientInOrder' /\ OptionsKept'
  BY <1>1, <1>4, <1>6, <1>8 DEF Records, ClientInOrder, OptionsKept
<1>11. QED
  BY <1>5, <1>7, <1>8, <1>9, <1>10, Together DEF Records

\* The token behind the module name.
LEMMA CoreReceiveTokenKeeps ==
    ASSUME SessionInv, CoreReceiveToken
    PROVE  SessionInv'
<1>1. Records /\ PlacesMatch
  BY Apart DEF Conversation
<1>2. /\ \/ kpc = "tokenCan" /\ kpc' = "canPlay"
         \/ kpc = "tokenCant" /\ kpc' = "cantPlay"
      /\ Ipc!ReceiveMessage("core", Token) /\ Token \in Msg /\ Token.type = "TOKEN"
      /\ UNCHANGED <<loaded, readSize, filled, output, skip, reboot, chatter, active,
                     exitCode, clientVars>>
  BY MessagesThereAre DEF CoreReceiveToken, CoreReceives
<1>3. /\ open' = open /\ Commands' = {} /\ ~Layer!MaySend("client")
      /\ Replies' = {} /\ Replies = {} /\ ~TokenForClient'
  BY <1>2, CoreReads
<1>4. BothLive => cpc = "reply"
  BY <1>1, <1>2, <1>3
     DEF Records, CoreFollowsClient, PlacesMatch, BothLive, ClientSpeaking
<1>5. Conversation'
  <2>1. AfterCommand(Token.type) = {}
    BY <1>2, Follows
  <2>2. kpc' \in CoreSpeaking /\ kpc' \notin {"exit", "killed"}
    BY <1>2 DEF CoreSpeaking
  <2>3. BothLive => CoreSays' \subseteq ClientExpects
    BY <1>2, <1>4 DEF CoreSays, ClientExpects
  <2>4. QED
    BY <1>2, <2>1, <2>2, <2>3, CoreReadKeeps
<1>6. ProgramTypes' /\ CoreInOrder'
  BY <1>1, <1>2 DEF Records, ProgramTypes, CoreInOrder, InSong, clientVars
<1>7. /\ cpc' = cpc /\ song' = song /\ asked' = asked /\ heard' = heard /\ sent' = sent
      /\ BothLive' = BothLive
  BY <1>2, <1>3 DEF clientVars, BothLive
<1>8. BothLive => CommandsAreTheClients' /\ CoreFollowsClient' /\ AnswersAreTheCores'
  BY <1>1, <1>2, <1>3, <1>4, <1>7
     DEF Records, CommandsAreTheClients, CoreFollowsClient, AnswersAreTheCores, InSong
<1>9. ClientInOrder' /\ OptionsKept'
  BY <1>1, <1>2, <1>3, <1>7 DEF Records, ClientInOrder, OptionsKept
<1>10. QED
  BY <1>5, <1>6, <1>7, <1>8, <1>9, Together DEF Records

(***************************************************************************)
(* uade_handle_r_state() takes a command.  A token is expected only behind *)
(* a READ or a REBOOT, and options only in front of one.                   *)
(***************************************************************************)
LEMMA CoreCommandKeeps ==
    ASSUME SessionInv, CoreHandleRState
    PROVE  SessionInv'
<1>1. Records /\ PlacesMatch
  BY Apart DEF Conversation
<1>2. PICK m \in Msg : CoreReceives(m) /\ CoreCommand(m)
  BY DEF CoreHandleRState
<1>3. /\ kpc = "listen" /\ Ipc!ReceiveMessage("core", m)
      /\ UNCHANGED <<loaded, output, skip, chatter, exitCode, clientVars>>
  BY <1>2 DEF CoreHandleRState, CoreReceives
<1>4. /\ open["core"] /\ open' = open /\ m.type \in CoreExpects
      /\ m \in Commands /\ Commands' \subseteq Commands /\ Commands \subseteq Commands' \cup {m}
      /\ m = Token => Commands' = {} /\ ~Layer!MaySend("client")
      /\ Replies' = {} /\ Replies = {} /\ ~TokenForClient /\ ~TokenForClient'
  BY <1>3, CoreReads
<1>5. /\ cpc' = cpc /\ song' = song /\ asked' = asked /\ heard' = heard /\ sent' = sent
      /\ BothLive' = BothLive
  BY <1>3, <1>4 DEF clientVars, BothLive
<1>6. /\ filled = 0 /\ (readSize = 0 \/ ~reboot) /\ loaded \in Songs
      /\ sent = active \cup OptionsOnTheWay
      /\ BothLive => loaded = song
  BY <1>1, <1>3, <1>4 DEF Records, CoreInOrder, OptionsKept, InSong, CoreFollowsClient
<1>7. cpc \notin {"reply", "canToken", "cantToken"}
  <2>1. cpc \in {"reply", "canToken", "cantToken"} => BothLive
    BY <1>1, <1>4 DEF PlacesMatch, BothLive
  <2>2. QED
    BY <1>1, <1>3, <1>4, <2>1 DEF Records, CommandsAreTheClients, CoreFollowsClient
<1>8. \/ /\ m.type \in {"READ", "REBOOT", "CHANGE_SUBSONG"} \cup AllOptions
         /\ readSize = 0 /\ ~reboot
      \/ m = Token /\ (readSize # 0 \/ reboot)
  BY <1>3, <1>4, MessagesByType, SessionAssumption
     DEF CoreExpects, CommandTypes, ExpectedName
<1>9. CASE m.type \in {"READ", "REBOOT", "CHANGE_SUBSONG"} \cup AllOptions
  <2>1. m # Token /\ readSize = 0 /\ ~reboot
    BY <1>8, <1>9, Follows, MessagesThereAre
  <2>2. /\ kpc' = "listen"
        /\ readSize' = IF m.type = "READ" THEN m.arg ELSE 0
        /\ reboot' = (IF m.type = "REBOOT" THEN TRUE ELSE reboot)
        /\ filled' = 0
        /\ active' = IF m.type \in AllOptions THEN active \cup {m.type} ELSE active
    BY <1>2, <1>3, <1>6, <1>9, <2>1, Follows DEF CoreCommand
  <2>3. /\ m.type = "READ" => m.arg \in ReadSizes /\ m.arg # 0
        /\ m.type \in AllOptions => m.type \in Options
    BY MessagesByType, SessionAssumption
  <2>4. Conversation'
    <3>1. AfterCommand(m.type) \subseteq CoreExpects'
      BY <1>9, <2>1, <2>2, <2>3, Follows DEF CoreExpects, ExpectedName
    <3>2. QED
      BY <1>3, <2>1, <2>2, <3>1, CoreReadKeeps DEF CoreSpeaking
  <2>5. ProgramTypes' /\ CoreInOrder'
    <3>1. reboot' \in BOOLEAN /\ (m.type # "REBOOT" => ~reboot')
      BY <1>1, <2>1, <2>2, Zenon DEF Records, ProgramTypes
    <3>2. readSize' \in ReadSizes \cup {0} /\ active' \subseteq Options
      BY <1>1, <2>2, <2>3 DEF Records, ProgramTypes
    <3>3. readSize' = 0 \/ ~reboot'
      BY <2>2, <3>1
    <3>4. ProgramTypes'
      BY <1>1, <1>3, <2>2, <3>1, <3>2 DEF Records, ProgramTypes, clientVars
    <3>5. CoreInOrder'
      BY <1>1, <1>3, <1>6, <2>2, <3>3 DEF Records, CoreInOrder, InSong
    <3>6. QED
      BY <3>4, <3>5
  <2>6. BothLive => CommandsAreTheClients' /\ CoreFollowsClient' /\ AnswersAreTheCores'
    <3> SUFFICES ASSUME BothLive
                 PROVE  CommandsAreTheClients' /\ CoreFollowsClient' /\ AnswersAreTheCores'
      OBVIOUS
    <3>1. CommandsAreTheClients
      BY <1>1 DEF Records
    <3>2. /\ readSize' # 0 => cpc \in {"readToken", "hear"} /\ readSize' = asked /\ heard = 0
          /\ reboot' => cpc \in {"rebootToken", "rebootWait"}
      BY <1>4, <2>1, <2>2, <3>1 DEF CommandsAreTheClients
    <3>3. CommandsAreTheClients'
      BY <1>4, <1>5, <1>7, <3>1, <3>2 DEF CommandsAreTheClients
    <3>4. CoreFollowsClient' /\ AnswersAreTheCores'
      BY <1>1, <1>3, <1>4, <1>5, <1>6, <1>7, <2>2
         DEF Records, CoreFollowsClient, AnswersAreTheCores, InSong
    <3>5. QED
      BY <3>3, <3>4
  <2>7. OptionsKept'
    <3>1. /\ OptionsOnTheWay' \subseteq OptionsOnTheWay
          /\ OptionsOnTheWay \subseteq OptionsOnTheWay'
                \cup (IF m.type \in AllOptions THEN {m.type} ELSE {})
          /\ m.type \in AllOptions => m.type \in OptionsOnTheWay
      BY <1>4 DEF OptionsOnTheWay, Typed
    <3>2. sent = active' \cup OptionsOnTheWay'
      BY <1>6, <2>2, <3>1
    <3>3. QED
      BY <1>5, <1>7, <2>2, <3>2 DEF OptionsKept
  <2>8. ClientInOrder'
    BY <1>1, <1>4, <1>5 DEF Records, ClientInOrder
  <2>9. QED
    BY <1>5, <2>4, <2>5, <2>6, <2>7, <2>8, Together DEF Records
<1>10. CASE m = Token
  <2>1. /\ m.type = "TOKEN" /\ (readSize # 0 \/ reboot)
        /\ m.type \notin AllOptions \cup {"READ", "REBOOT", "CHANGE_SUBSONG"}
    BY <1>8, <1>10, Follows, MessagesThereAre
  <2>2. /\ kpc' = IF reboot THEN "rebootAck" ELSE "run"
        /\ UNCHANGED <<readSize, filled, reboot, active>>
    BY <1>2, <1>10, <2>1 DEF CoreCommand
  <2>3. BothLive => IF reboot THEN cpc = "rebootWait"
                    ELSE cpc = "hear" /\ readSize = asked /\ heard = 0
    BY <1>1, <1>3, <1>4, <1>10, <2>1
       DEF Records, CommandsAreTheClients, PlacesMatch, BothLive, ClientSpeaking
  <2>4. /\ readSize \in ReadSizes \cup {0} /\ (reboot => readSize = 0)
        /\ ~reboot => readSize \in Nat /\ 0 < readSize
    BY <1>1, <1>6, <2>1, SessionAssumption DEF Records, ProgramTypes
  <2>5. Conversation'
    <3>1. AfterCommand(m.type) = {} /\ kpc' \in CoreSpeaking
      BY <2>1, <2>2, Follows DEF CoreSpeaking
    <3>2. BothLive => CoreSays' \subseteq ClientExpects
      BY <2>2, <2>3, <2>4 DEF CoreSays, ClientExpects
    <3>3. QED
      BY <1>3, <1>10, <2>2, <3>1, <3>2, CoreReadKeeps
  <2>6. ProgramTypes' /\ CoreInOrder'
    <3>1. ProgramTypes'
      BY <1>1, <1>3, <2>2 DEF Records, ProgramTypes, clientVars
    <3>2. CoreInOrder'
      BY <1>1, <1>3, <1>6, <2>2, <2>4 DEF Records, CoreInOrder, InSong
    <3>3. QED
      BY <3>1, <3>2
  <2>7. BothLive => CommandsAreTheClients' /\ CoreFollowsClient' /\ AnswersAreTheCores'
    BY <1>3, <1>4, <1>5, <1>6, <1>10, <2>2, <2>3
       DEF CommandsAreTheClients, CoreFollowsClient, AnswersAreTheCores, InSong
  <2>8. OptionsKept'
    <3>1. OptionsOnTheWay = {}
      BY <1>4, <1>10, <2>1 DEF OptionsOnTheWay, Typed
    <3>2. QED
      BY <1>5, <1>6, <2>2, <3>1 DEF OptionsKept
  <2>9. ClientInOrder'
    BY <1>1, <1>4, <1>5 DEF Records, ClientInOrder
  <2>10. QED
    BY <1>5, <2>5, <2>6, <2>7, <2>8, <2>9, Together DEF Records
<1>11. QED
  BY <1>8, <1>9, <1>10

\* The input ends: the exit status is that of how the frontend left.
LEMMA CoreInputEndsKeeps ==
    ASSUME SessionInv, CoreInputEnds
    PROVE  SessionInv'
<1>1. /\ Layer!EndOfInput("core")
      /\ IF OrderlyEnd THEN CoreExit(0) ELSE CoreExit(-1)
  BY SameLayer DEF CoreInputEnds
<1>2. open["core"] /\ ~open["client"] /\ wire["core"] = <<>>
  BY <1>1, ThePeers DEF Layer!EndOfInput
<1>3. cpc \in {"done", "failed", "killed"}
  BY <1>2 DEF SessionInv, PlacesMatch
<1>4. cpc = "done" => OrderlyEnd
  <2> SUFFICES ASSUME cpc = "done" PROVE OrderlyEnd
    OBVIOUS
  <2>1. \/ Layer!Accepts(<<>>, rx["core"], None, Typed(CoreExpects),
                         CommandAfter, Typed(CommandTypes))
        \/ Layer!Accepts(<<>>, rx["core"], None, Typed(CoreExpects),
                         CommandAfter, Typed({"SCORE"}))
    BY <1>2 DEF SessionInv, QuitInTurn
  <2>2. /\ Plain("CHANGE_SUBSONG") \in Typed(CommandTypes)
        /\ Plain("SCORE") \in Typed({"SCORE"})
    BY MessagesThereAre DEF Typed, CommandTypes
  <2>3. /\ rx["core"] = None
        /\ \/ Plain("CHANGE_SUBSONG") \in Typed(CoreExpects)
           \/ Plain("SCORE") \in Typed(CoreExpects)
    <3>1. ASSUME NEW T, NEW m \in Typed(T),
                 Layer!Accepts(<<>>, rx["core"], None, Typed(CoreExpects), CommandAfter,
                               Typed(T))
          PROVE  rx["core"] = None /\ m \in Typed(CoreExpects)
      BY <3>1, IpcAssumed, Layer!EmptyStreamOnly
    <3>2. QED
      BY <2>1, <2>2, <3>1
  <2>4. "CHANGE_SUBSONG" \in CoreExpects \/ "SCORE" \in CoreExpects
    BY <2>3, MessagesThereAre DEF Typed
  <2>5. kpc \in {"score", "listen"}
    BY <2>4 DEF CoreExpects, ExpectedName
  <2>6. QED
    BY <2>3, <2>5 DEF OrderlyEnd, Ipc!ReceiveResultAtEnd
<1>5. PICK code \in {0, -1} : CoreExit(code) /\ (code = -1 => cpc # "done")
  BY <1>1, <1>4
<1>6. QED
  BY <1>3, <1>5, CoreLeavesKeeps DEF CoreExit

\* The core is killed, by SIGPIPE or by another signal.
LEMMA CoreDiesKeeps ==
    ASSUME SessionInv, CoreDies
    PROVE  SessionInv'
<1>1. exitCode \in {None, 0, -1} /\ (exitCode = -1 => cpc \in {"killed", "failed"})
  BY DEF SessionInv, TypeOK, QuitInTurn
<1>2. QED
  BY <1>1, CoreLeavesKeeps DEF CoreDies

\* Every step of the core keeps the invariant.
LEMMA CoreKeeps == ASSUME SessionInv, Core PROVE SessionInv'
<1>1. CASE CoreReceiveName \/ CoreLoad \/ CoreReceiveToken \/ CoreHandleRState
  BY <1>1, CoreReceiveNameKeeps, CoreLoadKeeps, CoreReceiveTokenKeeps, CoreCommandKeeps
<1>2. CASE CoreReplyPlay \/ CoreStartSong \/ CoreNextSong \/ CoreRebootAck
  BY <1>2, CoreReplyPlayKeeps, CoreStartSongKeeps, CoreNextSongKeeps
<1>3. CASE CoreSongEnd \/ CoreSubsongInfo \/ CoreDebugMessage \/ CoreDebugBody
  BY <1>3, CoreReportKeeps, CoreBodyKeeps
<1>4. CASE CoreSkipFrame \/ CoreMixFrame \/ CoreSendData \/ CoreEndAnswer
  BY <1>4, CoreFrameKeeps, CoreSendDataKeeps, CoreEndAnswerKeeps
<1>5. CASE CoreHeader \/ CoreInputEnds \/ CoreWriteFails
  BY <1>5, CoreHeaderKeeps, CoreInputEndsKeeps, CoreDiesKeeps DEF CoreWriteFails
<1>6. QED
  BY <1>1, <1>2, <1>3, <1>4, <1>5 DEF Core

\* The client names the files, the song last.
LEMMA ClientNamesKeep ==
    ASSUME SessionInv, ClientSendName \/ ClientSendModule
    PROVE  SessionInv'
<1>1. Records
  BY Apart
<1>2. PICK m \in Msg :
        /\ ClientSends(m) /\ (m.type = "MODULE" => m.song = song')
        /\ \/ m.type = "CONFIG" /\ cpc = "spawn" /\ cpc' = "score"
           \/ m.type = "SCORE" /\ cpc = "score" /\ cpc' = "player"
           \/ m.type = "PLAYER" /\ cpc = "player" /\ cpc' = "module"
           \/ m.type = "MODULE" /\ cpc = "module" /\ cpc' = "moduleToken"
        /\ m.type # "MODULE" => song' = song
        /\ song' \in Songs \cup {0}
  <2>1. CASE ClientSendName
    BY <1>1, <2>1, MessagesThereAre DEF Records, ProgramTypes, ClientSendName, ClientAt
  <2>2. CASE ClientSendModule
    <3>1. PICK s \in Songs : ClientSends(M("MODULE", 0, s)) /\ song' = s
      BY <2>2 DEF ClientSendModule
    <3>2. /\ M("MODULE", 0, s) \in Msg /\ M("MODULE", 0, s).type = "MODULE"
          /\ M("MODULE", 0, s).song = s
      BY MessagesThereAre DEF M
    <3>3. QED
      BY <2>2, <3>1, <3>2 DEF ClientSendModule, ClientAt
  <2>3. QED
    BY <2>1, <2>2
<1>3. UNCHANGED <<sent, asked, heard, coreVars>>
  BY DEF ClientSendName, ClientSendModule
<1>4. /\ m # Token /\ m.type \in ClientSays /\ ClientSays' \subseteq AfterCommand(m.type)
      /\ cpc' \in ClientSpeaking /\ m.type \notin AllOptions
  BY <1>2, Follows, MessagesThereAre DEF ClientSays, ClientSpeaking
<1>5. /\ Conversation' /\ BothLive /\ BothLive' /\ kpc \notin CoreSpeaking
      /\ Replies' = {} /\ Commands' = Commands \cup {m} /\ ~TokenForClient'
  BY <1>2, <1>3, <1>4, ClientWriteKeeps DEF ClientSpeaking
<1>6. ProgramTypes' /\ CoreInOrder'
  BY <1>1, <1>2, <1>3 DEF Records, ProgramTypes, CoreInOrder, coreVars
<1>7. kpc \in {"config", "score", "player", "module"} /\ kpc' = kpc
  BY <1>1, <1>2, <1>3, <1>5 DEF Records, CoreFollowsClient, coreVars
<1>8. CommandsAreTheClients'
  BY <1>1, <1>2, <1>5, <1>7 DEF Records, CommandsAreTheClients
<1>9. CoreFollowsClient' /\ AnswersAreTheCores'
  BY <1>2, <1>5, <1>7 DEF CoreFollowsClient, AnswersAreTheCores, InSong
<1>10. ClientInOrder' /\ OptionsKept'
  BY <1>2, <1>5, <1>7 DEF ClientInOrder, OptionsKept
<1>11. QED
  BY <1>5, <1>6, <1>8, <1>9, <1>10, Together DEF Records

\* The token behind the module name.
LEMMA ClientEndNamesKeeps ==
    ASSUME SessionInv, ClientEndNames
    PROVE  SessionInv'
<1>1. Records
  BY Apart
<1>2. /\ cpc = "moduleToken" /\ cpc' = "reply" /\ ClientSends(Token)
      /\ UNCHANGED <<song, sent, asked, heard, coreVars>>
  BY DEF ClientEndNames, ClientAt
<1>3. /\ Token \in Msg /\ Token.type = "TOKEN" /\ Token.type \in ClientSays
      /\ ClientSays' = {} /\ cpc' \notin ClientSpeaking
  BY <1>2, MessagesThereAre DEF ClientSays, ClientSpeaking
<1>4. /\ Conversation' /\ BothLive /\ BothLive' /\ kpc \notin CoreSpeaking
      /\ Replies' = {} /\ Commands' = Commands \cup {Token} /\ ~TokenForClient'
  BY <1>2, <1>3, ClientWriteKeeps
<1>5. ProgramTypes' /\ CoreInOrder'
  BY <1>1, <1>2 DEF Records, ProgramTypes, CoreInOrder, coreVars
<1>6. /\ kpc \in {"config", "score", "player", "module", "tokenCan", "tokenCant"}
      /\ kpc' = kpc /\ loaded' = loaded
  BY <1>1, <1>2, <1>4 DEF Records, CoreFollowsClient, coreVars
<1>7. CommandsAreTheClients'
  BY <1>1, <1>2, <1>3, <1>4, <1>6 DEF Records, CommandsAreTheClients
<1>8. CoreFollowsClient' /\ AnswersAreTheCores'
  BY <1>1, <1>2, <1>4, <1>6 DEF Records, CoreFollowsClient, AnswersAreTheCores, InSong
<1>9. ClientInOrder' /\ OptionsKept'
  BY <1>2, <1>4, <1>6 DEF ClientInOrder, OptionsKept
<1>10. QED
  BY <1>4, <1>5, <1>7, <1>8, <1>9, Together DEF Records

\* The optional commands of a song.
LEMMA ClientSendOptionKeeps ==
    ASSUME SessionInv, ClientSendOption
    PROVE  SessionInv'
<1>1. Records
  BY Apart
<1>2. PICK o \in Options : ClientSends(Plain(o)) /\ sent' = sent \cup {o}
  BY DEF ClientSendOption
<1>3. /\ cpc = "options" /\ UNCHANGED <<cpc, song, asked, heard, coreVars>>
  BY DEF ClientSendOption, ClientAt
<1>4. PICK m \in Msg : m = Plain(o) /\ m.type = o /\ ClientSends(m)
  BY <1>2, MessagesThereAre
<1>5. /\ m.type \in AllOptions /\ m # Token
      /\ m.type \notin {"MODULE", "READ", "REBOOT"}
      /\ m.type \in ClientSays /\ ClientSays' \subseteq AfterCommand(m.type)
      /\ cpc' \in ClientSpeaking /\ cpc' \notin {"done", "failed", "killed"}
  BY <1>3, <1>4, Follows, MessagesThereAre, SessionAssumption
     DEF ClientSays, ClientSpeaking, CommandTypes
<1>6. /\ Conversation' /\ BothLive /\ BothLive' /\ kpc \notin CoreSpeaking
      /\ Replies' = {} /\ Commands' = Commands \cup {m}
      /\ ~TokenForClient /\ ~TokenForClient'
  BY <1>3, <1>4, <1>5, ClientWriteKeeps
<1>7. ProgramTypes' /\ CoreInOrder'
  BY <1>1, <1>2, <1>3 DEF Records, ProgramTypes, CoreInOrder, coreVars
<1>8. kpc' = kpc /\ loaded' = loaded /\ readSize' = readSize /\ reboot' = reboot
      /\ active' = active
  BY <1>3 DEF coreVars
<1>9. CommandsAreTheClients'
  BY <1>1, <1>3, <1>5, <1>6, <1>8 DEF Records, CommandsAreTheClients
<1>10. CoreFollowsClient' /\ AnswersAreTheCores'
  BY <1>1, <1>3, <1>6, <1>8 DEF Records, CoreFollowsClient, AnswersAreTheCores
<1>11. ClientInOrder'
  BY <1>3, <1>6 DEF ClientInOrder
<1>12. OptionsKept'
  <2>1. OptionsOnTheWay' = OptionsOnTheWay \cup {o}
    BY <1>4, <1>5, <1>6 DEF OptionsOnTheWay, Typed
  <2>2. QED
    BY <1>1, <1>2, <1>3, <1>6, <1>8, <2>1 DEF Records, OptionsKept, CoreSpeaking
<1>13. QED
  BY <1>6, <1>7, <1>9, <1>10, <1>11, <1>12, Together DEF Records

\* uade_song_initialization() is done.
LEMMA ClientEndOptionsKeeps ==
    ASSUME SessionInv, ClientEndOptions
    PROVE  SessionInv'
<1>1. Records
  BY Apart
<1>2. /\ cpc = "options" /\ cpc' = "turn"
      /\ UNCHANGED <<song, sent, asked, heard, coreVars, ipcVars>>
  BY DEF ClientEndOptions, ClientAt
<1>3. /\ Conversation' /\ Commands' = Commands /\ Replies' = Replies
      /\ (TokenForClient' <=> TokenForClient) /\ BothLive' = BothLive
  <2>1. ClientExpects' = ClientExpects /\ ClientSays' = ClientSays /\ exitCode' = exitCode
    BY <1>2 DEF ClientExpects, ClientSays, coreVars
  <2>2. QED
    BY <1>2, <2>1, SilentKeeps DEF ClientSpeaking
<1>4. /\ kpc' = kpc /\ loaded' = loaded /\ readSize' = readSize /\ reboot' = reboot
      /\ active' = active /\ open' = open
  BY <1>2 DEF coreVars, ipcVars
<1>5. ProgramTypes' /\ CoreInOrder'
  BY <1>1, <1>2 DEF Records, ProgramTypes, CoreInOrder, coreVars
<1>6. BothLive => CommandsAreTheClients' /\ CoreFollowsClient' /\ AnswersAreTheCores'
  BY <1>1, <1>2, <1>3, <1>4
     DEF Records, CommandsAreTheClients, CoreFollowsClient, AnswersAreTheCores
<1>7. ClientInOrder' /\ OptionsKept'
  BY <1>1, <1>2, <1>3, <1>4
     DEF Records, ClientInOrder, OptionsKept, OptionsOnTheWay, Typed
<1>8. QED
  BY <1>3, <1>5, <1>6, <1>7, Together DEF Records

\* The commands of a turn: another subsong, and a READ or a REBOOT.
LEMMA ClientCommandKeeps ==
    ASSUME SessionInv, ClientChangeSubsong \/ ClientRead \/ ClientReboot
    PROVE  SessionInv'
<1>1. Records
  BY Apart
<1>2. PICK m \in Msg :
        /\ ClientSends(m)
        /\ \/ /\ m.type = "CHANGE_SUBSONG" /\ cpc = "turn" /\ cpc' = "read"
              /\ asked' = asked /\ heard' = heard
           \/ /\ m.type = "READ" /\ cpc \in {"turn", "read"} /\ cpc' = "readToken"
              /\ m.arg = asked' /\ asked' \in ReadSizes /\ heard' = 0
           \/ /\ m.type = "REBOOT" /\ cpc = "turn" /\ cpc' = "rebootToken"
              /\ asked' = asked /\ heard' = heard
  <2>1. CASE ClientChangeSubsong \/ ClientReboot
    BY <2>1, MessagesThereAre DEF ClientChangeSubsong, ClientReboot, ClientAt
  <2>2. CASE ClientRead
    <3>1. PICK n \in ReadSizes : ClientSends(M("READ", n, 0)) /\ asked' = n
      BY <2>2 DEF ClientRead
    <3>2. /\ M("READ", n, 0) \in Msg /\ M("READ", n, 0).type = "READ"
          /\ M("READ", n, 0).arg = n
      BY MessagesThereAre DEF M
    <3>3. QED
      BY <2>2, <3>1, <3>2 DEF ClientRead, ClientAt
  <2>3. QED
    BY <2>1, <2>2
<1>3. UNCHANGED <<song, sent, coreVars>>
  BY DEF ClientChangeSubsong, ClientRead, ClientReboot
<1>4. /\ m # Token /\ m.type \in ClientSays /\ ClientSays' \subseteq AfterCommand(m.type)
      /\ cpc' \in ClientSpeaking /\ cpc' \notin {"done", "failed", "killed"}
      /\ m.type \notin AllOptions
  BY <1>2, Follows, MessagesThereAre DEF ClientSays, ClientSpeaking, CommandTypes
<1>5. /\ Conversation' /\ BothLive /\ BothLive' /\ kpc \notin CoreSpeaking
      /\ Replies' = {} /\ Commands' = Commands \cup {m}
      /\ ~TokenForClient /\ ~TokenForClient'
  BY <1>2, <1>3, <1>4, ClientWriteKeeps
<1>6. /\ kpc' = kpc /\ loaded' = loaded /\ readSize' = readSize /\ reboot' = reboot
      /\ active' = active
  BY <1>3 DEF coreVars
<1>7. ProgramTypes' /\ CoreInOrder'
  <2>1. asked' \in ReadSizes \cup {0} /\ heard' \in Nat
    BY <1>1, <1>2 DEF Records, ProgramTypes
  <2>2. QED
    BY <1>1, <1>2, <1>3, <2>1 DEF Records, ProgramTypes, CoreInOrder, coreVars
<1>8. CommandsAreTheClients'
  BY <1>1, <1>2, <1>5, <1>6 DEF Records, CommandsAreTheClients
<1>9. CoreFollowsClient' /\ AnswersAreTheCores'
  BY <1>1, <1>2, <1>3, <1>5, <1>6
     DEF Records, CoreFollowsClient, AnswersAreTheCores, CoreSpeaking
<1>10. ClientInOrder'
  BY <1>2, <1>5 DEF ClientInOrder
<1>11. OptionsKept'
  <2>1. OptionsOnTheWay' = OptionsOnTheWay
    BY <1>4, <1>5 DEF OptionsOnTheWay, Typed
  <2>2. QED
    BY <1>1, <1>2, <1>3, <1>5, <1>6, <2>1 DEF Records, OptionsKept, CoreSpeaking
<1>12. QED
  BY <1>5, <1>7, <1>8, <1>9, <1>10, <1>11, Together DEF Records

\* The token behind a READ or a REBOOT.
LEMMA ClientEndTurnKeeps ==
    ASSUME SessionInv, ClientEndTurn
    PROVE  SessionInv'
<1>1. Records
  BY Apart
<1>2. /\ \/ cpc = "readToken" /\ cpc' = "hear"
         \/ cpc = "rebootToken" /\ cpc' = "rebootWait"
      /\ ClientSends(Token) /\ UNCHANGED <<song, sent, asked, heard, coreVars>>
  BY DEF ClientEndTurn, ClientAt
<1>3. /\ Token \in Msg /\ Token.type = "TOKEN" /\ Token.type \in ClientSays
      /\ ClientSays' = {} /\ cpc' \notin ClientSpeaking /\ "TOKEN" \notin AllOptions
  BY <1>2, MessagesThereAre, Follows DEF ClientSays, ClientSpeaking
<1>4. /\ Conversation' /\ BothLive /\ BothLive' /\ kpc \notin CoreSpeaking
      /\ Replies' = {} /\ Commands' = Commands \cup {Token}
      /\ ~TokenForClient /\ ~TokenForClient'
  BY <1>2, <1>3, ClientWriteKeeps
<1>5. /\ kpc' = kpc /\ loaded' = loaded /\ readSize' = readSize /\ reboot' = reboot
      /\ active' = active
  BY <1>2 DEF coreVars
<1>6. ProgramTypes' /\ CoreInOrder'
  BY <1>1, <1>2 DEF Records, ProgramTypes, CoreInOrder, coreVars
<1>7. CommandsAreTheClients'
  BY <1>1, <1>2, <1>3, <1>4, <1>5 DEF Records, CommandsAreTheClients
<1>8. CoreFollowsClient' /\ AnswersAreTheCores'
  BY <1>1, <1>2, <1>4, <1>5
     DEF Records, CoreFollowsClient, AnswersAreTheCores, CoreSpeaking
<1>9. ClientInOrder'
  BY <1>1, <1>2, <1>4 DEF Records, ClientInOrder
<1>10. OptionsKept'
  <2>1. OptionsOnTheWay' = OptionsOnTheWay
    BY <1>3, <1>4 DEF OptionsOnTheWay, Typed
  <2>2. QED
    BY <1>1, <1>2, <1>4, <1>5, <2>1 DEF Records, OptionsKept, CoreSpeaking
<1>11. QED
  BY <1>4, <1>6, <1>7, <1>8, <1>9, <1>10, Together DEF Records

\* The reply to the module name, and the token behind it.
LEMMA ClientReceiveReplyKeeps ==
    ASSUME SessionInv, ClientReceiveReply
    PROVE  SessionInv'
<1>1. Records /\ PlacesMatch
  BY Apart DEF Conversation
<1>2. PICK m \in Msg :
        /\ ClientReceives(m)
        /\ \/ m.type = "CAN_PLAY" /\ cpc = "reply" /\ cpc' = "canToken"
           \/ m.type = "CANT_PLAY" /\ cpc = "reply" /\ cpc' = "cantToken"
           \/ m = Token /\ cpc = "canToken" /\ cpc' = "options"
           \/ m = Token /\ cpc = "cantToken" /\ cpc' = "score"
  BY MessagesThereAre DEF ClientReceiveReply
<1>3. /\ Ipc!ReceiveMessage("client", m) /\ sent' = {}
      /\ UNCHANGED <<song, asked, heard, coreVars>>
  BY <1>2 DEF ClientReceiveReply, ClientReceives
<1>4. /\ open["client"] /\ open' = open /\ m \in Replies /\ Replies' \subseteq Replies
      /\ Commands' = {} /\ (TokenForClient' <=> TokenForClient /\ m # Token)
      /\ m = Token => TokenForClient /\ Replies' = {}
  BY <1>3, ClientReads
<1>5. /\ kpc' = kpc /\ loaded' = loaded /\ readSize' = readSize /\ reboot' = reboot
      /\ active' = active /\ BothLive' = BothLive
  BY <1>3, <1>4 DEF coreVars, BothLive
<1>6. BothLive =>
        /\ cpc' = "canToken" => kpc \in {"canPlayToken", "listen"}
        /\ cpc' = "cantToken" => kpc \in {"cantPlayToken", "score"}
        /\ cpc' = "options" => kpc = "listen" /\ readSize = 0 /\ ~reboot
        /\ cpc' = "score" => kpc = "score"
  BY <1>1, <1>2, <1>4 DEF Records, AnswersAreTheCores
<1>7. m # Token <=> m.type # "TOKEN"
  BY MessagesByType
<1>8. Conversation'
  <2>1. AfterReply(m.type) \subseteq ClientExpects'
    BY <1>2, <1>7, MessagesThereAre DEF AfterReply, ClientExpects
  <2>2. m = Token /\ BothLive => ClientSays' \subseteq CoreExpects
    BY <1>2, <1>6, <1>7 DEF ClientSays, CoreExpects, ExpectedName
  <2>3. /\ cpc' \notin {"done", "failed", "killed"}
        /\ cpc' \in ClientSpeaking <=> m = Token
    BY <1>2, <1>7 DEF ClientSpeaking
  <2>4. QED
    BY <1>3, <2>1, <2>2, <2>3, ClientReadKeeps
<1>9. ProgramTypes' /\ CoreInOrder'
  BY <1>1, <1>2, <1>3 DEF Records, ProgramTypes, CoreInOrder, coreVars
<1>10. BothLive => CommandsAreTheClients' /\ CoreFollowsClient' /\ AnswersAreTheCores'
  <2> SUFFICES ASSUME BothLive
               PROVE  CommandsAreTheClients' /\ CoreFollowsClient' /\ AnswersAreTheCores'
    OBVIOUS
  <2>1. CommandsAreTheClients'
    BY <1>1, <1>2, <1>4, <1>5 DEF Records, CommandsAreTheClients
  <2>2. CoreFollowsClient'
    BY <1>1, <1>2, <1>3, <1>5, <1>6 DEF Records, CoreFollowsClient, InSong
  <2>3. AnswersAreTheCores'
    BY <1>1, <1>2, <1>4, <1>5, <1>6 DEF Records, AnswersAreTheCores
  <2>4. QED
    BY <2>1, <2>2, <2>3
<1>11. ClientInOrder'
  BY <1>1, <1>2, <1>3, <1>4 DEF Records, ClientInOrder
<1>12. OptionsKept'
  <2>1. kpc \in {"listen", "run", "dataToken"} => BothLive
    BY <1>1, <1>4 DEF PlacesMatch, BothLive
  <2>2. kpc \notin {"run", "dataToken"} \/ ~BothLive
    BY <1>1, <1>2 DEF Records, CoreFollowsClient
  <2>3. OptionsOnTheWay' = {}
    BY <1>4 DEF OptionsOnTheWay
  <2>4. kpc = "listen" => active = {} /\ (m # Token => TokenForClient)
    BY <1>1, <1>2, <1>6, <2>1 DEF Records, OptionsKept, CoreFollowsClient, AnswersAreTheCores
  <2>5. QED
    BY <1>2, <1>3, <1>4, <1>5, <2>1, <2>2, <2>3, <2>4 DEF OptionsKept
<1>13. QED
  BY <1>5, <1>8, <1>9, <1>10, <1>11, <1>12, Together DEF Records

\* The frontend takes a reply of its turn, or the token that ends them.
LEMMA ClientHearKeeps ==
    ASSUME SessionInv, ClientHear
    PROVE  SessionInv'
<1>1. Records /\ PlacesMatch
  BY Apart DEF Conversation
<1>2. PICK m \in Msg :
        /\ ClientReceives(m)
        /\ heard' = IF m.type = "DATA" THEN heard + m.arg ELSE heard
        /\ IF m = Token
           THEN cpc' = (IF cpc = "hear" THEN "turn" ELSE "score") /\ asked' = 0
           ELSE UNCHANGED <<cpc, asked>>
  BY DEF ClientHear
<1>3. /\ cpc \in {"hear", "rebootWait"} /\ Ipc!ReceiveMessage("client", m)
      /\ UNCHANGED <<song, sent, coreVars>>
  BY <1>2 DEF ClientHear, ClientReceives
<1>4. /\ open["client"] /\ open' = open /\ m \in Replies /\ Replies' \subseteq Replies
      /\ m.type \in ClientExpects
      /\ Commands = {} /\ Commands' = {} /\ (TokenForClient' <=> TokenForClient /\ m # Token)
      /\ m = Token => TokenForClient /\ Replies' = {}
  BY <1>3, ClientReads
<1>5. /\ kpc' = kpc /\ loaded' = loaded /\ readSize' = readSize /\ reboot' = reboot
      /\ active' = active /\ BothLive' = BothLive
  BY <1>3, <1>4 DEF coreVars, BothLive
<1>6. (m # Token <=> m.type # "TOKEN") /\ OptionsOnTheWay = {} /\ OptionsOnTheWay' = {}
  BY <1>4, MessagesByType DEF OptionsOnTheWay
<1>7. CASE m = Token
  <2>1. /\ m.type = "TOKEN" /\ asked' = 0 /\ heard' = heard
        /\ \/ cpc = "hear" /\ cpc' = "turn"
           \/ cpc = "rebootWait" /\ cpc' = "score"
    BY <1>2, <1>3, <1>6, <1>7
  <2>2. BothLive => /\ cpc = "hear" => kpc = "listen" /\ readSize = 0 /\ ~reboot
                    /\ cpc = "rebootWait" => kpc = "score"
    BY <1>1, <1>3, <1>4, <1>7 DEF Records, AnswersAreTheCores
  <2>3. Conversation'
    <3>1. AfterReply(m.type) \subseteq ClientExpects'
      BY <2>1 DEF AfterReply
    <3>2. BothLive => ClientSays' \subseteq CoreExpects
      BY <2>1, <2>2 DEF ClientSays, CoreExpects, ExpectedName
    <3>3. cpc' \in ClientSpeaking /\ cpc' \notin {"done", "failed", "killed"}
      BY <2>1 DEF ClientSpeaking
    <3>4. QED
      BY <1>3, <1>7, <3>1, <3>2, <3>3, ClientReadKeeps
  <2>4. ProgramTypes' /\ CoreInOrder'
    BY <1>1, <1>3, <2>1 DEF Records, ProgramTypes, CoreInOrder, coreVars
  <2>5. BothLive => CommandsAreTheClients' /\ CoreFollowsClient' /\ AnswersAreTheCores'
    BY <1>1, <1>3, <1>4, <1>5, <1>7, <2>1, <2>2
       DEF Records, CommandsAreTheClients, CoreFollowsClient, AnswersAreTheCores, InSong
  <2>6. ClientInOrder' /\ OptionsKept'
    <3>1. kpc \in {"listen", "run", "dataToken"} => BothLive
      BY <1>1, <1>4 DEF PlacesMatch, BothLive
    <3>2. QED
      BY <1>1, <1>3, <1>4, <1>5, <1>6, <1>7, <2>1, <2>2, <3>1
         DEF Records, ClientInOrder, OptionsKept
  <2>7. QED
    BY <1>5, <2>3, <2>4, <2>5, <2>6, Together DEF Records
<1>8. CASE m # Token
  <2>1. /\ cpc = "hear" /\ cpc' = "hear" /\ asked' = asked /\ asked \in ReadSizes
        /\ heard \in {0, asked} /\ heard # asked /\ m.type \in RunTypes
    BY <1>1, <1>2, <1>3, <1>4, <1>6, <1>8 DEF Records, ClientInOrder, ClientExpects
  <2>2. heard = 0 /\ asked \in Nat /\ (m.type = "DATA" => m.arg = asked)
    BY <1>1, <1>4, <2>1, SessionAssumption DEF Records, ClientInOrder
  <2>3. heard' = IF m.type = "DATA" THEN asked ELSE 0
    BY <1>2, <2>2
  <2>4. BothLive /\ m.type = "DATA" => kpc \in {"dataToken", "listen"} /\ readSize = 0
    BY <1>1, <1>4 DEF Records, AnswersAreTheCores
  <2>5. Conversation'
    <3>1. AfterReply(m.type) \subseteq ClientExpects'
      BY <2>1, <2>2, <2>3 DEF AfterReply, ClientExpects, RunTypes
    <3>2. cpc' \notin ClientSpeaking /\ cpc' \notin {"done", "failed", "killed"}
      BY <2>1 DEF ClientSpeaking
    <3>3. QED
      BY <1>3, <1>8, <3>1, <3>2, ClientReadKeeps
  <2>6. ProgramTypes' /\ CoreInOrder'
    <3>1. heard' \in Nat
      BY <2>2, <2>3
    <3>2. QED
      BY <1>1, <1>3, <2>1, <3>1 DEF Records, ProgramTypes, CoreInOrder, coreVars
  <2>7. BothLive => CommandsAreTheClients' /\ CoreFollowsClient' /\ AnswersAreTheCores'
    <3> SUFFICES ASSUME BothLive
                 PROVE  CommandsAreTheClients' /\ CoreFollowsClient' /\ AnswersAreTheCores'
      OBVIOUS
    <3>1. CommandsAreTheClients'
      BY <1>1, <1>4, <1>5, <2>1, <2>2, <2>3, <2>4 DEF Records, CommandsAreTheClients
    <3>2. CoreFollowsClient' /\ AnswersAreTheCores'
      BY <1>1, <1>3, <1>4, <1>5, <1>8, <2>1, <2>2, <2>3, <2>4
         DEF Records, CoreFollowsClient, AnswersAreTheCores, InSong
    <3>3. QED
      BY <3>1, <3>2
  <2>8. ClientInOrder'
    BY <1>1, <1>3, <1>4, <2>1, <2>2, <2>3 DEF Records, ClientInOrder
  <2>9. OptionsKept'
    BY <1>1, <1>3, <1>4, <1>5, <1>6, <1>8, <2>1 DEF Records, OptionsKept
  <2>10. QED
    BY <1>5, <2>5, <2>6, <2>7, <2>8, <2>9, Together DEF Records
<1>9. QED
  BY <1>7, <1>8

\* Every step of the client keeps the invariant.
LEMMA ClientKeeps == ASSUME SessionInv, Client PROVE SessionInv'
<1>1. CASE ClientSendName \/ ClientSendModule \/ ClientStringBody \/ ClientEndNames
  BY <1>1, ClientNamesKeep, ClientBodyKeeps, ClientEndNamesKeeps
<1>2. CASE ClientReceiveReply \/ ClientSendOption \/ ClientEndOptions
  BY <1>2, ClientReceiveReplyKeeps, ClientSendOptionKeeps, ClientEndOptionsKeeps
<1>3. CASE ClientChangeSubsong \/ ClientRead \/ ClientReboot \/ ClientEndTurn
  BY <1>3, ClientCommandKeeps, ClientEndTurnKeeps
<1>4. CASE ClientHear \/ ClientHeader
  BY <1>4, ClientHearKeeps, ClientHeaderKeeps
<1>5. CASE ClientQuit
  BY <1>5, ClientLeavesKeeps DEF ClientQuit
<1>6. CASE ClientFails
  BY <1>6, ClientLeavesKeeps DEF ClientFails
<1>7. QED
  BY <1>1, <1>2, <1>3, <1>4, <1>5, <1>6 DEF Client

-----------------------------------------------------------------------------
(***************************************************************************)
(* The invariant, and what it shows.                                       *)
(***************************************************************************)
\* Both programs start; nothing is on its way and the frontend is to speak.
LEMMA InitSession == Init => SessionInv
<1> SUFFICES ASSUME Init PROVE SessionInv
  OBVIOUS
<1>1. Layer!IpcInit
  BY SameLayer DEF Init
<1>2. LayerInv
  BY <1>1, IpcAssumed, Layer!InitTurn, Layer!InitQuiet, Layer!InitWithinCapacity
     DEF LayerInv
<1>3. /\ wire["core"] = <<>> /\ rx["core"] = None /\ tx["client"] = None
      /\ wire["client"] = <<>> /\ rx["client"] = None /\ tx["core"] = None
      /\ open["client"] /\ open["core"]
      /\ state["client"] = "INITIAL" /\ state["core"] = "INITIAL"
  BY <1>1, ThePeers DEF Layer!IpcInit
<1>4. /\ kpc = "config" /\ loaded = 0 /\ readSize = 0 /\ filled = 0
      /\ output = FALSE /\ skip = 0 /\ reboot = TRUE /\ chatter = 0
      /\ active = {} /\ exitCode = None
      /\ cpc = "spawn" /\ song = 0 /\ sent = {} /\ asked = 0 /\ heard = 0
  BY DEF Init
<1>5. Commands = {} /\ Replies = {} /\ ~TokenForClient
  BY <1>3, IpcAssumed, Layer!NothingPending, Layer!EmptyHasNoToken
     DEF Commands, Replies, TokenForClient, Layer!TokenInFlight
<1>6. TypeOK
  <2>1. ProgramTypes
    <3>1. 0 \in 0 .. SkipLimit /\ 0 \in 0 .. InstrPerFrame /\ 0 \in Nat
      BY SessionAssumption
    <3>2. output \in BOOLEAN /\ reboot \in BOOLEAN
      BY <1>4
    <3>3. QED
      BY <1>4, <3>1, <3>2 DEF ProgramTypes
  <2>2. /\ Layer!TypeOK /\ Layer!WithinCapacity
        /\ Layer!Peers = Ipc!Peers /\ Layer!Chunk = Ipc!Chunk
    BY <1>2, ThePeers DEF LayerInv, Layer!TurnInv, Layer!Chunk, Ipc!Chunk
  <2>3. /\ state \in [Ipc!Peers -> {"INITIAL", "R", "S"}]
        /\ wire \in [Ipc!Peers -> Seq(Ipc!Chunk)]
        /\ rx \in [Ipc!Peers -> WithBody \cup {None}]
        /\ tx \in [Ipc!Peers -> WithBody \cup {None}]
        /\ open \in [Ipc!Peers -> BOOLEAN]
    BY <2>2 DEF Layer!TypeOK
  <2>4. \A p \in Ipc!Peers : Len(wire[p]) <= PipeCapacity
    BY <2>2 DEF Layer!WithinCapacity
  <2>5. QED
    BY <2>1, <2>3, <2>4 DEF TypeOK, ProgramTypes
<1>7. PlacesMatch
  BY <1>3, <1>4 DEF PlacesMatch, Layer!MaySend, ClientSpeaking, CoreSpeaking
<1>8. CommandsFit /\ RepliesFit
  <2>1. ClientSays = {"CONFIG"} /\ CoreExpects = {"CONFIG"} /\ CoreSays = {}
    BY <1>4 DEF ClientSays, CoreExpects, CoreSays, ExpectedName
  <2>2. Typed(CoreSays) \subseteq Typed(ClientExpects)
    BY <2>1, TypedSets
  <2>3. QED
    BY <1>3, <2>1, <2>2, IpcAssumed, Layer!EmptyStream DEF CommandsFit, RepliesFit
<1>9. CoreInOrder /\ ClientInOrder /\ OptionsKept
  BY <1>4, <1>5, SessionAssumption DEF CoreInOrder, ClientInOrder, OptionsKept, InSong
<1>10. CommandsAreTheClients /\ CoreFollowsClient /\ AnswersAreTheCores
  BY <1>4, <1>5 DEF CommandsAreTheClients, CoreFollowsClient, AnswersAreTheCores, InSong
<1>11. QuitInTurn
  BY <1>4, NoneAssumption DEF QuitInTurn
<1>12. QED
  BY <1>2, <1>6, <1>7, <1>8, <1>9, <1>10, <1>11 DEF SessionInv

\* Every step keeps the invariant.
LEMMA NextKeepsSession == SessionInv /\ [Next]_vars => SessionInv'
<1> SUFFICES ASSUME SessionInv, [Next]_vars PROVE SessionInv'
  OBVIOUS
<1>1. CASE Core
  BY <1>1, CoreKeeps
<1>2. CASE Client
  BY <1>2, ClientKeeps
<1>3. CASE ClientKilled
  BY <1>3, ClientLeavesKeeps DEF ClientKilled
<1>4. CASE CoreKilled
  BY <1>4, CoreDiesKeeps DEF CoreKilled
<1>5. CASE UNCHANGED vars
  <2>1. UNCHANGED ipcVars /\ UNCHANGED coreVars /\ UNCHANGED clientVars
    BY <1>5 DEF vars
  <2>2. CoreExpects' = CoreExpects /\ exitCode' = exitCode /\ kpc' = kpc
    BY <2>1 DEF coreVars, CoreExpects
  <2>3. /\ Conversation' /\ Commands' = Commands /\ Replies' = Replies
        /\ (TokenForClient' <=> TokenForClient)
    BY <2>1, <2>2, SilentKeeps
  <2>4. /\ open' = open /\ tx' = tx /\ wire' = wire /\ rx' = rx
        /\ (Layer!MaySend("client")' <=> Layer!MaySend("client"))
        /\ (Layer!MaySend("core")' <=> Layer!MaySend("core"))
    BY <2>1 DEF ipcVars, Layer!MaySend
  <2>5. QED
    BY <2>1, <2>3, <2>4, HalvesKeep DEF Conversation
<1>6. QED
  BY <1>1, <1>2, <1>3, <1>4, <1>5 DEF Next

(***************************************************************************)
(* In every reachable state, wherever a process died, the two streams are  *)
(* conversations both programs can follow, and what either has on record   *)
(* agrees with the other and with what is on its way.                      *)
(***************************************************************************)
THEOREM SessionInvariant == Spec => []SessionInv
<1>1. QED
  BY InitSession, NextKeepsSession, PTL DEF Spec

\* Every variable keeps its type; no stream outgrows its pipe.
THEOREM SessionTypes == Spec => []TypeOK
<1>1. SessionInv => TypeOK
  BY DEF SessionInv
<1>2. QED
  BY <1>1, SessionInvariant, PTL

(***************************************************************************)
(* uadecore never meets a command it gives up on: main(), uade_reset() and *)
(* uade_handle_r_state() find the type they insist on, no READ arrives     *)
(* while one is pending, and the CPU never runs without a READ to fill     *)
(* (the assert of check_sound_buffers()).                                  *)
(***************************************************************************)
THEOREM CoreIsNeverAtFault == Spec => []CoreNeverFaults
<1>1. ASSUME SessionInv PROVE CoreNeverFaults
  <2> SUFFICES ASSUME open["core"]
               PROVE  /\ \A m \in NextForCore : Accepted(m)
                      /\ kpc = "run" => readSize > filled
    BY DEF CoreNeverFaults
  <2>1. Layer!Talks(wire["core"], rx["core"], Typed(CoreExpects), CommandAfter)
    BY <1>1 DEF SessionInv, CommandsFit
  <2>2. wire["core"] \in Seq(Layer!Chunk)
    BY <1>1, ThePeers DEF SessionInv, LayerInv, Layer!TurnInv, Layer!TypeOK
  <2>3. \A m \in NextForCore : m \in Typed(CoreExpects)
    <3>1. CASE rx["core"] # None
      BY <2>1, <3>1 DEF NextForCore, Layer!Talks
    <3>2. CASE rx["core"] = None /\ wire["core"] # <<>>
      <4>1. Head(wire["core"]).msg \in Typed(CoreExpects)
        BY <2>1, <2>2, <3>2, IpcAssumed, Layer!NextExpected
      <4>2. QED
        BY <3>2, <4>1 DEF NextForCore
    <3>3. CASE rx["core"] = None /\ wire["core"] = <<>>
      BY <3>3 DEF NextForCore
    <3>4. QED
      BY <3>1, <3>2, <3>3
  <2>4. ASSUME NEW m \in Typed(CoreExpects) PROVE Accepted(m)
    <3>1. m \in Msg /\ m.type \in CoreExpects
      BY <2>4 DEF Typed
    <3>2. CASE kpc \in DOMAIN ExpectedName
      BY <3>1, <3>2 DEF CoreExpects, Accepted, ExpectedName
    <3>3. CASE kpc \in {"tokenCan", "tokenCant"}
      BY <3>1, <3>3, MessagesByType DEF CoreExpects, Accepted, ExpectedName
    <3>4. CASE kpc = "listen"
      BY <3>1, <3>4, SessionAssumption, Follows
         DEF CoreExpects, Accepted, ExpectedName, CommandTypes
    <3>5. CASE kpc \notin DOMAIN ExpectedName \cup {"tokenCan", "tokenCant", "listen"}
      BY <3>5 DEF Accepted
    <3>6. QED
      BY <3>2, <3>3, <3>4, <3>5
  <2>5. kpc = "run" => readSize > filled
    BY <1>1, SessionAssumption DEF SessionInv, TypeOK, CoreInOrder
  <2>6. QED
    BY <2>3, <2>4, <2>5
<1>2. QED
  BY <1>1, SessionInvariant, PTL

(***************************************************************************)
(* The answer to a READ is exact: the token that ends it is read only when *)
(* as many frames have been received as were asked for.                    *)
(***************************************************************************)
THEOREM AnswersAreExact == Spec => []AnswerIsExact
<1>1. ASSUME SessionInv PROVE AnswerIsExact
  <2> SUFFICES ASSUME cpc = "hear", Ipc!Completes("client", Token) PROVE heard = asked
    BY DEF AnswerIsExact
  <2>1. open["client"]
    BY <1>1 DEF SessionInv, PlacesMatch
  <2>2. /\ Layer!Talks(wire["client"], rx["client"], Typed(ClientExpects), ReplyAfter)
        /\ wire["client"] \in Seq(Layer!Chunk)
        /\ rx["client"] \in WithBody \cup {None}
    BY <1>1, <2>1, ThePeers
       DEF SessionInv, RepliesFit, LayerInv, Layer!TurnInv, Layer!TypeOK
  <2>3. wire["client"] # <<>> /\ Head(wire["client"]).msg = Token /\ rx["client"] = None
    BY <2>2, MessagesThereAre DEF Ipc!Completes, WithBody, Bodiless
  <2>4. Token \in Typed(ClientExpects)
    BY <2>2, <2>3, IpcAssumed, Layer!NextExpected
  <2>5. "TOKEN" \in ClientExpects
    BY <2>4, MessagesThereAre DEF Typed
  <2>6. QED
    BY <2>5 DEF ClientExpects, RunTypes
<1>2. QED
  BY <1>1, SessionInvariant, PTL

(***************************************************************************)
(* No sample, song end or subsong range of one song is read in the next:   *)
(* what is on its way to the frontend is about the song it is playing.     *)
(***************************************************************************)
THEOREM RepliesStayCurrent == Spec => []RepliesAreCurrent
<1>1. ASSUME SessionInv PROVE RepliesAreCurrent
  <2> SUFFICES ASSUME open["client"], NEW i \in 1 .. Len(wire["client"]),
                      wire["client"][i].msg.type \in {"DATA", "SONG_END", "SUBSONG_INFO"}
               PROVE  wire["client"][i].msg.song = song
    BY DEF RepliesAreCurrent
  <2>1. wire["client"][i].msg \in Replies
    BY DEF Replies, Layer!Pending, Layer!Said
  <2>2. QED
    BY <1>1, <2>1 DEF SessionInv, ClientInOrder
<1>2. QED
  BY <1>1, SessionInvariant, PTL

(***************************************************************************)
(* A song plays with the options of its own initialisation and no other,   *)
(* although the core resets some of them after it has acknowledged         *)
(* CAN_PLAY and the frontend sends them without waiting.                   *)
(***************************************************************************)
THEOREM OptionsStayInForce == Spec => []OptionsInForce
<1>1. SessionInv => OptionsInForce
  BY DEF SessionInv, OptionsKept, OptionsInForce
<1>2. QED
  BY <1>1, SessionInvariant, PTL

(***************************************************************************)
(* The core exits with 0 when the frontend quit in its own turn, even with *)
(* commands still unread, and with -1 only when it died or failed.         *)
(***************************************************************************)
THEOREM ExitStatusStaysRight == Spec => []ExitStatusIsRight
<1>1. SessionInv => ExitStatusIsRight
  BY DEF SessionInv, QuitInTurn, ExitStatusIsRight
<1>2. QED
  BY <1>1, SessionInvariant, PTL

(***************************************************************************)
(* The two programs use the message layer as its specification allows:     *)
(* each of their steps is a step of the layer or leaves it alone.  What    *)
(* UadeIpcProofs shows of the layer therefore holds of the session.        *)
(***************************************************************************)
THEOREM SessionUsesIpc == Spec => UsesIpcCorrectly
<1>1. ASSUME SessionInv, [Next]_vars PROVE [Ipc!IpcNext]_(Ipc!ipcVars)
  <2>1. CASE Core
    <3>1. \A m \in Msg : CoreReceives(m) => Ipc!IpcStep("core")
      BY DEF CoreReceives, Ipc!IpcStep
    <3>2. /\ Token \in Msg /\ Plain("CAN_PLAY") \in Msg /\ Plain("CANT_PLAY") \in Msg
          /\ Plain("MSG") \in WithBody
          /\ kpc = "run" => /\ M("SONG_END", 0, loaded) \in Msg
                            /\ M("SUBSONG_INFO", 0, loaded) \in Msg
                            /\ readSize # 0 => M("DATA", readSize, loaded) \in Msg
      BY <1>1, MessagesThereAre
         DEF SessionInv, TypeOK, CoreInOrder, InSong, WithBody, Bodiless
    <3>3. CASE Ipc!IpcStep("core")
      BY <3>3, ThePeers DEF Ipc!IpcNext
    <3>4. CASE UNCHANGED ipcVars
      BY <3>4 DEF ipcVars, Ipc!ipcVars
    <3>5. CASE CoreReceiveName \/ CoreLoad \/ CoreReceiveToken \/ CoreHandleRState
      BY <3>1, <3>2, <3>3, <3>5
         DEF CoreReceiveName, CoreLoad, CoreReceiveToken, CoreHandleRState
    <3>6. CASE CoreReplyPlay \/ CoreStartSong \/ CoreNextSong \/ CoreRebootAck
               \/ CoreEndAnswer
      BY <3>2, <3>3, <3>6
         DEF CoreReplyPlay, CoreStartSong, CoreNextSong, CoreRebootAck, CoreEndAnswer,
             Ipc!IpcStep
    <3>7. CASE CoreSongEnd \/ CoreSubsongInfo \/ CoreDebugMessage \/ CoreSendData
      <4>1. kpc = "run"
        BY <3>7 DEF CoreSongEnd, CoreSubsongInfo, CoreDebugMessage, CoreSendData,
                    CoreAt
      <4>2. readSize # 0
        <5>1. filled < readSize
          BY <1>1, <4>1 DEF SessionInv, CoreInOrder
        <5>2. filled \in Nat
          BY <1>1 DEF SessionInv, TypeOK
        <5>3. QED
          BY <5>1, <5>2
      <4>3. QED
        BY <3>2, <3>3, <3>7, <4>1, <4>2
           DEF CoreSongEnd, CoreSubsongInfo, CoreDebugMessage, CoreSendData, Ipc!IpcStep
    <3>8. CASE CoreSkipFrame \/ CoreMixFrame
      BY <3>4, <3>8 DEF CoreSkipFrame, CoreMixFrame
    <3>9. CASE CoreDebugBody \/ CoreHeader \/ CoreInputEnds \/ CoreWriteFails
      BY <3>3, <3>9 DEF CoreDebugBody, CoreHeader, CoreInputEnds, CoreWriteFails,
                        CoreDies, CoreExit, Ipc!IpcStep
    <3>10. QED
      BY <2>1, <3>5, <3>6, <3>7, <3>8, <3>9 DEF Core
  <2>2. CASE Client
    <3>1. /\ \A m \in Msg : ClientReceives(m) \/ ClientSends(m) => Ipc!IpcStep("client")
          /\ \A pc : ClientLeaves(pc) => Ipc!IpcStep("client")
      BY DEF ClientReceives, ClientSends, ClientLeaves, Ipc!IpcStep
    <3>2. CASE Ipc!IpcStep("client")
      BY <3>2, ThePeers DEF Ipc!IpcNext
    <3>3. CASE ClientSendName \/ ClientSendModule \/ ClientEndNames \/ ClientSendOption
      BY <3>1, <3>2, <3>3, MessagesThereAre
         DEF ClientSendName, ClientSendModule, ClientEndNames, ClientSendOption
    <3>4. CASE ClientChangeSubsong \/ ClientRead \/ ClientReboot \/ ClientEndTurn
      BY <3>1, <3>2, <3>4, MessagesThereAre
         DEF ClientChangeSubsong, ClientRead, ClientReboot, ClientEndTurn
    <3>5. CASE ClientReceiveReply \/ ClientHear
      BY <3>1, <3>2, <3>5, MessagesThereAre DEF ClientReceiveReply, ClientHear
    <3>6. CASE ClientStringBody \/ ClientHeader \/ ClientQuit \/ ClientFails
      BY <3>1, <3>2, <3>6
         DEF ClientStringBody, ClientHeader, ClientQuit, ClientFails, Ipc!IpcStep
    <3>7. CASE ClientEndOptions
      BY <3>7 DEF ClientEndOptions, ipcVars, Ipc!ipcVars
    <3>8. QED
      BY <2>2, <3>3, <3>4, <3>5, <3>6, <3>7 DEF Client
  <2>3. CASE ClientKilled \/ CoreKilled
    BY <2>3, ThePeers DEF ClientKilled, CoreKilled, CoreDies, ClientLeaves, Ipc!IpcNext, Ipc!IpcStep
  <2>4. CASE UNCHANGED vars
    BY <2>4 DEF vars, ipcVars, Ipc!ipcVars
  <2>5. QED
    BY <1>1, <2>1, <2>2, <2>3, <2>4 DEF Next
<1>2. Init => Ipc!IpcInit
  BY DEF Init
<1>3. QED
  BY <1>1, <1>2, SessionInvariant, PTL DEF Spec, UsesIpcCorrectly, Ipc!IpcSpec

\* A step of the layer the programs call is a step of the layer the lemmas
\* are about.
LEMMA SameStep == [Ipc!IpcNext]_(Ipc!ipcVars) => [Layer!IpcNext]_(Layer!ipcVars)
<1>1. ASSUME NEW p PROVE Ipc!IpcStep(p) => Layer!IpcStep(p)
  BY SameLayer DEF Ipc!IpcStep, Layer!IpcStep
<1>2. Ipc!IpcNext => Layer!IpcNext
  BY <1>1, ThePeers DEF Ipc!IpcNext, Layer!IpcNext
<1>3. QED
  BY <1>2 DEF Ipc!ipcVars, Layer!ipcVars

(***************************************************************************)
(* The two programs speak in turns: what they send each other, from the    *)
(* start to the end of either, is a behaviour of TurnTaking.               *)
(***************************************************************************)
THEOREM SessionTakesTurns == Spec => Layer!TurnsRefined
<1>1. Ipc!IpcInit => Layer!IpcInit
  BY SameLayer
<1>2. Layer!IpcSpec => Layer!TurnsRefined
  BY IpcAssumed, Layer!TurnsAreRefined
<1>3. Ipc!IpcSpec => Layer!IpcSpec
  BY <1>1, SameStep, PTL DEF Ipc!IpcSpec, Layer!IpcSpec
<1>4. QED
  BY <1>2, <1>3, SessionUsesIpc DEF UsesIpcCorrectly
=============================================================================
