------------------------------- MODULE UadeIpc -------------------------------
(***************************************************************************)
(* src/src/uadeipc.c: the message layer between the frontend ("client")    *)
(* and the emulator process ("core").  Each process has one struct         *)
(* uade_ipc with a control state and a byte stream in each direction.      *)
(*                                                                         *)
(* A message travels as a header (msgtype, size) and, when its size is     *)
(* not zero, a body.  uade_send_message() writes both at once,             *)
(* uade_send_string() writes them in two calls, and the receiver reads     *)
(* them in two calls of get_more(), so a stream is modelled as a sequence  *)
(* of header and body chunks and a process may die between any two.        *)
(***************************************************************************)
EXTENDS Integers, Sequences, FiniteSets

CONSTANTS Msg,           \* the messages: a msgtype together with its payload
          Token,         \* the UADE_COMMAND_TOKEN message
          WithBody,      \* the messages whose size is not zero
          None,          \* not a message
          PipeCapacity   \* how many chunks the kernel buffers for a reader

ASSUME IpcAssumption ==
    /\ WithBody \subseteq Msg
    /\ Token \in Msg \ WithBody
    /\ None \notin Msg
    /\ PipeCapacity \in Nat \ {0, 1}

Peers == {"client", "core"}
Other(p) == IF p = "client" THEN "core" ELSE "client"
Chunk == [msg : Msg, part : {"header", "body"}]

VARIABLES state,   \* ipc->state of each peer: UADE_INITIAL/R/S_STATE
          wire,    \* wire[p]: the chunks written for p that p has not read
          rx,      \* rx[p]: the message whose header p has read, not its body
          tx,      \* tx[p]: the string whose header p has written, not its body
          open     \* open[p]: process p lives, its descriptors are open

ipcVars == <<state, wire, rx, tx, open>>

\* uade_set_peer(): both endpoints start in UADE_INITIAL_STATE.
IpcInit ==
    /\ state = [p \in Peers |-> "INITIAL"]
    /\ wire = [p \in Peers |-> <<>>]
    /\ rx = [p \in Peers |-> None]
    /\ tx = [p \in Peers |-> None]
    /\ open = [p \in Peers |-> TRUE]

\* A plausible slip: an endpoint nobody has used yet may send as well.
AnyFirstSpeaker(p) == state[p] \in {"S", "INITIAL"}

(***************************************************************************)
(* The programs make the frontend speak first: the first call on the       *)
(* client's endpoint is the uade_send_string() of uade_spawn(), the first  *)
(* one on the core's is the uade_receive_string() of uade_option().        *)
(***************************************************************************)
MaySend(p) == \/ state[p] = "S"
              \/ p = "client" /\ state[p] = "INITIAL"
MayReceive(p) == \/ state[p] = "R"
                 \/ p = "core" /\ state[p] = "INITIAL"

Header(m) == [msg |-> m, part |-> "header"]
Body(m) == [msg |-> m, part |-> "body"]

\* Plausible slips: the token does not change the state of its sender, or of
\* its receiver.
SenderKeepsTurn(m) == "S"
ReceiverStaysMute(m) == "R"

\* The state an endpoint is in after sending, or after receiving, m.
StateAfterSend(m) == IF m = Token THEN "R" ELSE "S"
StateAfterReceive(m) == IF m = Token THEN "S" ELSE "R"

\* write(2) succeeds for a reader that is alive, and blocks when it is full.
Writable(p, n) == /\ open[p]
                  /\ tx[p] = None
                  /\ open[Other(p)]
                  /\ Len(wire[Other(p)]) + n <= PipeCapacity

(***************************************************************************)
(* uade_send_message(), and uade_send_short_message(), uade_send_u32() and *)
(* uade_send_two_u32s() that call it: header and body in one write.        *)
(***************************************************************************)
SendMessage(p, m) ==
    /\ MaySend(p)
    /\ Writable(p, IF m \in WithBody THEN 2 ELSE 1)
    /\ state' = [state EXCEPT ![p] = StateAfterSend(m)]
    /\ wire' = [wire EXCEPT ![Other(p)] =
                   IF m \in WithBody THEN Append(Append(@, Header(m)), Body(m))
                                     ELSE Append(@, Header(m))]
    /\ UNCHANGED <<rx, tx, open>>

\* uade_send_string() up to and including the write of its header.
SendString(p, m) ==
    /\ m \in WithBody
    /\ MaySend(p)
    /\ Writable(p, 1)
    /\ state' = [state EXCEPT ![p] = "S"]
    /\ wire' = [wire EXCEPT ![Other(p)] = Append(@, Header(m))]
    /\ tx' = [tx EXCEPT ![p] = m]
    /\ UNCHANGED <<rx, open>>

\* The second write of uade_send_string().
SendStringBody(p) ==
    /\ tx[p] # None
    /\ open[p]
    /\ open[Other(p)]
    /\ Len(wire[Other(p)]) + 1 <= PipeCapacity
    /\ wire' = [wire EXCEPT ![Other(p)] = Append(@, Body(tx[p]))]
    /\ tx' = [tx EXCEPT ![p] = None]
    /\ UNCHANGED <<state, rx, open>>

\* uade_receive_message() reads the header of a message that has a body.
ReceiveHeader(p) ==
    /\ open[p]
    /\ MayReceive(p)
    /\ rx[p] = None
    /\ wire[p] # <<>>
    /\ Head(wire[p]).msg \in WithBody
    /\ rx' = [rx EXCEPT ![p] = Head(wire[p]).msg]
    /\ wire' = [wire EXCEPT ![p] = Tail(@)]
    /\ state' = [state EXCEPT ![p] = "R"]
    /\ UNCHANGED <<tx, open>>

\* A plausible slip: a header is taken for the whole message.
HeaderIsEnough(p, m) == wire[p] # <<>> /\ Head(wire[p]).msg = m

\* The message a receiver completes with the next chunk it reads.
Completes(p, m) ==
    /\ wire[p] # <<>>
    /\ Head(wire[p]).msg = m
    /\ IF rx[p] = None THEN m \notin WithBody ELSE rx[p] = m

(***************************************************************************)
(* uade_receive_message() returns 1 with message m: it has read the header *)
(* of a message without body, or the body of the one in rx.  Receiving the *)
(* token moves the endpoint to UADE_S_STATE.                               *)
(***************************************************************************)
ReceiveMessage(p, m) ==
    /\ open[p]
    /\ MayReceive(p)
    /\ Completes(p, m)
    /\ wire' = [wire EXCEPT ![p] = Tail(@)]
    /\ rx' = [rx EXCEPT ![p] = None]
    /\ state' = [state EXCEPT ![p] = StateAfterReceive(m)]
    /\ UNCHANGED <<tx, open>>

\* A read that finds the other process gone and nothing buffered:
\* uade_receive_message() returns 0 before a header and -1 before a body.
EndOfInput(p) ==
    /\ open[p]
    /\ MayReceive(p)
    /\ wire[p] = <<>>
    /\ ~open[Other(p)]
ReceiveResultAtEnd(p) == IF rx[p] = None THEN 0 ELSE -1

\* A write whose reader is gone: the send functions return -1.
WriteFails(p) ==
    /\ open[p]
    /\ MaySend(p)
    /\ ~open[Other(p)]

\* The second write of uade_send_string() fails: the string is given up.
AbandonString(p) ==
    /\ WriteFails(p)
    /\ tx[p] # None
    /\ tx' = [tx EXCEPT ![p] = None]
    /\ UNCHANGED <<state, wire, rx, open>>

\* Process p exits or is killed: the kernel closes its descriptors.
Close(p) ==
    /\ open[p]
    /\ open' = [open EXCEPT ![p] = FALSE]
    /\ UNCHANGED <<state, wire, rx, tx>>

IpcStep(p) ==
    \/ \E m \in Msg : SendMessage(p, m)
    \/ \E m \in WithBody : SendString(p, m)
    \/ SendStringBody(p)
    \/ ReceiveHeader(p)
    \/ \E m \in Msg : ReceiveMessage(p, m)
    \/ AbandonString(p)
    \/ Close(p)

IpcNext == \E p \in Peers : IpcStep(p)

IpcSpec == IpcInit /\ [][IpcNext]_ipcVars
-----------------------------------------------------------------------------
TypeOK ==
    /\ state \in [Peers -> {"INITIAL", "R", "S"}]
    /\ wire \in [Peers -> Seq(Chunk)]
    /\ rx \in [Peers -> WithBody \cup {None}]
    /\ tx \in [Peers -> WithBody \cup {None}]
    /\ open \in [Peers -> BOOLEAN]

\* The token is in the stream to p and p has not read it.
HasToken(s) == \E i \in 1 .. Len(s) : s[i].msg = Token
TokenInFlight(p) == HasToken(wire[p])

(***************************************************************************)
(* The right to speak exists exactly once: one endpoint may send, or one   *)
(* token is on its way.  Two holders would make both processes write       *)
(* against each other, none would leave both blocked in read(2) for ever.  *)
(***************************************************************************)
Turn(p) == MaySend(p) \/ TokenInFlight(p)
ExactlyOneTurn ==
    /\ Turn("client") # Turn("core")
    /\ \A p \in Peers : ~(MaySend(p) /\ TokenInFlight(p))

(***************************************************************************)
(* Half duplex: a process that may speak has read everything the other     *)
(* one wrote.  A reply left unread would be taken for the answer to the    *)
(* next request.                                                           *)
(***************************************************************************)
HalfDuplex == \A p \in Peers : MaySend(p) => wire[p] = <<>> /\ rx[p] = None

(***************************************************************************)
(* Headers and bodies never lose step: what a receiver reads next is a     *)
(* header when it expects a header and the body of the message whose       *)
(* header it has when it expects a body, whoever died in the middle.       *)
(***************************************************************************)
Framed == \A p \in Peers :
    wire[p] # <<>> =>
        IF rx[p] = None THEN Head(wire[p]).part = "header"
                        ELSE Head(wire[p]) = Body(rx[p])

-----------------------------------------------------------------------------
\* The conversation in turns the layer implements.
HoldsFloor(p) == MaySend(p) \/ TokenInFlight(Other(p))
Speaker == IF HoldsFloor("client") THEN "client" ELSE "core"
Listener == Other(Speaker)
HeardPart(p) == IF rx[p] = None THEN <<>> ELSE <<rx[p]>>

\* The messages of a stream, one for each of its headers, in their order.
HeadersOf(s) == {i \in DOMAIN s : s[i].part = "header"}
Rank(s, i) == Cardinality({j \in HeadersOf(s) : j <= i})
MessagesOf(s) ==
    [k \in 1 .. Cardinality(HeadersOf(s)) |->
        s[CHOOSE i \in HeadersOf(s) : Rank(s, i) = k].msg]
Unheard(p) == HeardPart(p) \o MessagesOf(wire[p])

Turns == INSTANCE TurnTaking WITH
    floor <- Speaker,
    passed <- TokenInFlight(Listener),
    said <- Unheard(Listener)

\* Every step of the byte-stream layer is a step of the conversation or
\* invisible in it: messages arrive once, whole and in order, and the floor
\* changes hands only after the listener has heard everything.
TurnsRefined == Turns!TurnSpec
=============================================================================
