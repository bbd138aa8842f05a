----------------------------- MODULE TurnTaking -----------------------------
(***************************************************************************)
(* What the IPC layer promises its two users: a conversation in turns.     *)
(* One peer has the floor; what it says is heard by the other one in       *)
(* order; it passes the floor with the token, and the listener gets the    *)
(* floor only after hearing everything that was said before the token.     *)
(***************************************************************************)
EXTENDS Sequences

CONSTANTS Msg,      \* every message but the token has some content
          Token     \* the message that passes the floor

Peers == {"client", "core"}
Other(p) == IF p = "client" THEN "core" ELSE "client"

VARIABLES floor,    \* the peer whose turn it is
          passed,   \* TRUE once that peer has said the token
          said      \* what it said in this turn and the other has not heard

turnVars == <<floor, passed, said>>

TurnInit ==
    /\ floor = "client"
    /\ passed = FALSE
    /\ said = <<>>

Say(m) ==
    /\ ~passed
    /\ said' = Append(said, m)
    /\ passed' = (m = Token)
    /\ UNCHANGED floor

Hear ==
    /\ said # <<>>
    /\ Head(said) # Token
    /\ said' = Tail(said)
    /\ UNCHANGED <<floor, passed>>

TakeFloor ==
    /\ said = <<Token>>
    /\ said' = <<>>
    /\ passed' = FALSE
    /\ floor' = Other(floor)

TurnNext ==
    \/ \E m \in Msg : Say(m)
    \/ Hear
    \/ TakeFloor

TurnSpec == TurnInit /\ [][TurnNext]_turnVars
=============================================================================
