---------------------------- MODULE UadeIpcProofs ----------------------------
(***************************************************************************)
(* Safety of the message layer for every set of messages and every pipe    *)
(* capacity: there is exactly one right to speak, a process that may speak *)
(* has read everything, headers and bodies keep step, and the byte streams *)
(* implement the conversation in turns.                                    *)
(***************************************************************************)
EXTENDS UadeIpc, SequenceTheorems, FiniteSetTheorems, TLAPS

-----------------------------------------------------------------------------
(* Streams that end with the token.                                        *)
TokenOnlyLast(s) == \A i \in 1 .. Len(s) : s[i].msg = Token => i = Len(s)

\* No token is in flight in an empty stream.
LEMMA EmptyHasNoToken == ~HasToken(<<>>)
<1>1. Len(<<>>) = 0
  BY EmptySeq
<1>2. QED
  BY <1>1 DEF HasToken

\* Writing a chunk to a stream without token: the chunk is the only place
\* the token can be.
LEMMA AppendChunk ==
    ASSUME NEW s \in Seq(Chunk), NEW c \in Chunk, ~HasToken(s)
    PROVE  /\ Append(s, c) \in Seq(Chunk)
           /\ Append(s, c) # <<>>
           /\ TokenOnlyLast(Append(s, c))
           /\ HasToken(Append(s, c)) <=> c.msg = Token
<1>1. /\ Append(s, c) \in Seq(Chunk)
      /\ Append(s, c) # <<>>
      /\ Len(Append(s, c)) = Len(s) + 1
      /\ \A i \in 1 .. Len(s) : Append(s, c)[i] = s[i]
      /\ Append(s, c)[Len(s) + 1] = c
  BY AppendProperties
<1>2. Len(s) \in Nat
  BY LenProperties
<1>3. \A i \in 1 .. Len(s) + 1 : i \in 1 .. Len(s) \/ i = Len(s) + 1
  BY <1>2
<1>4. QED
  BY <1>1, <1>2, <1>3 DEF HasToken, TokenOnlyLast

\* Reading a chunk from a stream in which the token can only be last.
LEMMA TailOfStream ==
    ASSUME NEW s \in Seq(Chunk), s # <<>>, TokenOnlyLast(s)
    PROVE  /\ Tail(s) \in Seq(Chunk)
           /\ Head(s) \in Chunk
           /\ TokenOnlyLast(Tail(s))
           /\ Head(s).msg = Token => Tail(s) = <<>> /\ HasToken(s)
           /\ Head(s).msg # Token => (HasToken(Tail(s)) <=> HasToken(s))
<1>1. /\ Tail(s) \in Seq(Chunk)
      /\ Head(s) \in Chunk
      /\ Head(s) = s[1]
      /\ Len(Tail(s)) = Len(s) - 1
      /\ Len(s) \in Nat \ {0}
      /\ \A i \in 1 .. Len(Tail(s)) : Tail(s)[i] = s[i + 1]
  BY HeadTailProperties, LenProperties, EmptySeq
<1>2. \A i \in 1 .. Len(Tail(s)) : i + 1 \in 1 .. Len(s)
  BY <1>1
<1>3. \A i \in 1 .. Len(s) : i = 1 \/ (i - 1 \in 1 .. Len(Tail(s)) /\ i = (i - 1) + 1)
  BY <1>1
<1>4. TokenOnlyLast(Tail(s))
  <2> SUFFICES ASSUME NEW i \in 1 .. Len(Tail(s)), Tail(s)[i].msg = Token
               PROVE  i = Len(Tail(s))
    BY DEF TokenOnlyLast
  <2>1. s[i + 1].msg = Token /\ i + 1 \in 1 .. Len(s)
    BY <1>1, <1>2
  <2>2. i + 1 = Len(s)
    BY <2>1 DEF TokenOnlyLast
  <2>3. i \in Int /\ Len(s) \in Int /\ Len(Tail(s)) = Len(s) - 1
    BY <1>1
  <2>4. QED
    BY <2>2, <2>3
<1>5. ASSUME Head(s).msg = Token PROVE Tail(s) = <<>> /\ HasToken(s)
  <2>1. 1 \in 1 .. Len(s) /\ s[1].msg = Token
    BY <1>1, <1>5
  <2>2. Len(s) = 1
    BY <2>1 DEF TokenOnlyLast
  <2>3. Len(Tail(s)) = 0
    BY <1>1, <2>2
  <2>4. Tail(s) = <<>>
    BY <1>1, <2>3, EmptySeq
  <2>5. QED
    BY <2>1, <2>4 DEF HasToken
<1>6. ASSUME Head(s).msg # Token PROVE HasToken(Tail(s)) <=> HasToken(s)
  <2>1. ASSUME NEW i \in 1 .. Len(Tail(s)), Tail(s)[i].msg = Token
        PROVE  HasToken(s)
    BY <1>1, <1>2, <2>1 DEF HasToken
  <2>2. ASSUME NEW i \in 1 .. Len(s), s[i].msg = Token
        PROVE  HasToken(Tail(s))
    <3>1. i # 1
      BY <1>1, <1>6, <2>2
    <3>2. i - 1 \in 1 .. Len(Tail(s)) /\ i = (i - 1) + 1
      BY <1>3, <3>1
    <3>3. Tail(s)[i - 1] = s[i]
      BY <1>1, <3>2
    <3>4. QED
      BY <2>2, <3>2, <3>3 DEF HasToken
  <2>3. QED
    BY <2>1, <2>2 DEF HasToken
<1>7. QED
  BY <1>1, <1>4, <1>5, <1>6
-----------------------------------------------------------------------------
(***************************************************************************)
(* The inductive invariant.  ExactlyOneTurn alone is not inductive: a      *)
(* token in the middle of a stream would let its reader speak with chunks  *)
(* unread, and a half-written string of a peer that no longer may speak    *)
(* would put a body behind the token.                                      *)
(***************************************************************************)
TurnInv ==
    /\ TypeOK
    /\ ExactlyOneTurn
    /\ HalfDuplex
    /\ \A p \in Peers : TokenOnlyLast(wire[p])
    /\ \A p \in Peers : tx[p] # None => state[p] = "S"

\* There are two peers, each the other's other.
LEMMA OtherPeer ==
    \A p \in Peers : Other(p) \in Peers /\ Other(p) # p /\ Other(Other(p)) = p
                     /\ Peers = {p, Other(p)}
BY DEF Peers, Other

\* The turn, seen from either peer.
LEMMA TurnOfPeer ==
    ASSUME NEW p \in Peers
    PROVE  ExactlyOneTurn <=> /\ Turn(p) # Turn(Other(p))
                              /\ ~(MaySend(p) /\ TokenInFlight(p))
                              /\ ~(MaySend(Other(p)) /\ TokenInFlight(Other(p)))
BY DEF ExactlyOneTurn, Peers, Other

\* When p keeps the other stream as it is, or appends to it and keeps its own.
LEMMA BothStreams ==
    ASSUME NEW p \in Peers, \A q \in Peers : TokenOnlyLast(wire[q]),
           TokenOnlyLast(wire'[p]) \/ wire'[p] = wire[p],
           TokenOnlyLast(wire'[Other(p)]) \/ wire'[Other(p)] = wire[Other(p)]
    PROVE  \A q \in Peers : TokenOnlyLast(wire'[q])
<1>1. TokenOnlyLast(wire'[p])
  OBVIOUS
<1>2. TokenOnlyLast(wire'[Other(p)])
  BY OtherPeer
<1>3. QED
  BY <1>1, <1>2, OtherPeer

\* uade_set_peer() on both ends establishes the invariant.
LEMMA InitTurn == IpcInit => TurnInv
<1> SUFFICES ASSUME IpcInit PROVE TurnInv
  OBVIOUS
<1>1. /\ \A p \in Peers : wire[p] = <<>> /\ Len(wire[p]) = 0
      /\ wire \in [Peers -> Seq(Chunk)]
  BY EmptySeq DEF IpcInit
<1>2. TypeOK
  BY <1>1 DEF IpcInit, TypeOK
<1>3. \A p \in Peers : ~TokenInFlight(p) /\ TokenOnlyLast(wire[p])
  BY <1>1 DEF TokenInFlight, HasToken, TokenOnlyLast
<1>4. \A p \in Peers : MaySend(p) <=> p = "client"
  BY DEF IpcInit, MaySend, Peers
<1>5. ExactlyOneTurn
  BY <1>3, <1>4 DEF ExactlyOneTurn, Turn, Peers
<1>6. HalfDuplex
  BY <1>1 DEF HalfDuplex, IpcInit
<1>7. QED
  BY <1>2, <1>3, <1>5, <1>6 DEF TurnInv, IpcInit

(***************************************************************************)
(* One lemma for each of the things a step can do to the turn.             *)
(***************************************************************************)
\* p writes one chunk that is not the token, and may still speak.
LEMMA WriteKeepsTurn ==
    ASSUME TurnInv, TypeOK', NEW p \in Peers, NEW c \in Chunk, c.msg # Token,
           MaySend(p), state'[p] = "S", state'[Other(p)] = state[Other(p)],
           wire'[p] = wire[p], wire'[Other(p)] = Append(wire[Other(p)], c),
           rx' = rx, tx'[Other(p)] = tx[Other(p)]
    PROVE  TurnInv'
<1>1. ~HasToken(wire[p]) /\ ~HasToken(wire[Other(p)]) /\ ~MaySend(Other(p))
  BY TurnOfPeer DEF TurnInv, Turn, TokenInFlight
<1>2. wire[Other(p)] \in Seq(Chunk)
  BY OtherPeer DEF TurnInv, TypeOK
<1>3. TokenOnlyLast(wire'[Other(p)]) /\ ~HasToken(wire'[Other(p)])
  BY <1>1, <1>2, AppendChunk
<1>4. MaySend(p)' /\ ~MaySend(Other(p))'
  BY <1>1 DEF MaySend
<1>5. ExactlyOneTurn'
  BY <1>1, <1>3, <1>4 DEF ExactlyOneTurn, Turn, TokenInFlight, Peers, Other, HasToken
<1>6. HalfDuplex'
  BY <1>4, OtherPeer DEF TurnInv, HalfDuplex
<1>7. \A q \in Peers : TokenOnlyLast(wire[q])'
  BY <1>3, BothStreams DEF TurnInv
<1>8. \A q \in Peers : tx'[q] # None => state'[q] = "S"
  BY <1>1, OtherPeer DEF TurnInv, MaySend
<1>9. QED
  BY <1>5, <1>6, <1>7, <1>8 DEF TurnInv

\* p writes a header and a body in one write.
LEMMA WriteTwoKeepsTurn ==
    ASSUME TurnInv, TypeOK', NEW p \in Peers,
           NEW c \in Chunk, c.msg # Token, NEW d \in Chunk, d.msg # Token,
           MaySend(p), state'[p] = "S", state'[Other(p)] = state[Other(p)],
           wire'[p] = wire[p],
           wire'[Other(p)] = Append(Append(wire[Other(p)], c), d),
           rx' = rx, tx'[Other(p)] = tx[Other(p)]
    PROVE  TurnInv'
<1>1. ~HasToken(wire[p]) /\ ~HasToken(wire[Other(p)]) /\ ~MaySend(Other(p))
  BY TurnOfPeer DEF TurnInv, Turn, TokenInFlight
<1>2. wire[Other(p)] \in Seq(Chunk)
  BY OtherPeer DEF TurnInv, TypeOK
<1>3. /\ Append(wire[Other(p)], c) \in Seq(Chunk)
      /\ ~HasToken(Append(wire[Other(p)], c))
  BY <1>1, <1>2, AppendChunk
<1>4. TokenOnlyLast(wire'[Other(p)]) /\ ~HasToken(wire'[Other(p)])
  BY <1>3, AppendChunk
<1>5. MaySend(p)' /\ ~MaySend(Other(p))'
  BY <1>1 DEF MaySend
<1>6. ExactlyOneTurn'
  BY <1>1, <1>4, <1>5 DEF ExactlyOneTurn, Turn, TokenInFlight, Peers, Other, HasToken
<1>7. HalfDuplex'
  BY <1>5, OtherPeer DEF TurnInv, HalfDuplex
<1>8. \A q \in Peers : TokenOnlyLast(wire[q])'
  BY <1>4, BothStreams DEF TurnInv
<1>9. \A q \in Peers : tx'[q] # None => state'[q] = "S"
  BY <1>1, OtherPeer DEF TurnInv, MaySend
<1>10. QED
  BY <1>6, <1>7, <1>8, <1>9 DEF TurnInv

\* p writes the token: the turn is in the stream to the other peer.
LEMMA TokenPassesTurn ==
    ASSUME TurnInv, TypeOK', NEW p \in Peers, NEW c \in Chunk, c.msg = Token,
           MaySend(p), tx[p] = None,
           state'[p] = "R", state'[Other(p)] = state[Other(p)],
           wire'[p] = wire[p], wire'[Other(p)] = Append(wire[Other(p)], c),
           rx' = rx, tx' = tx
    PROVE  TurnInv'
<1>1. ~HasToken(wire[p]) /\ ~HasToken(wire[Other(p)]) /\ ~MaySend(Other(p))
  BY TurnOfPeer DEF TurnInv, Turn, TokenInFlight
<1>2. wire[Other(p)] \in Seq(Chunk)
  BY OtherPeer DEF TurnInv, TypeOK
<1>3. TokenOnlyLast(wire'[Other(p)]) /\ HasToken(wire'[Other(p)])
  BY <1>1, <1>2, AppendChunk
<1>4. ~MaySend(p)' /\ ~MaySend(Other(p))'
  BY <1>1 DEF MaySend
<1>5. ExactlyOneTurn'
  BY <1>1, <1>3, <1>4 DEF ExactlyOneTurn, Turn, TokenInFlight, Peers, Other, HasToken
<1>6. HalfDuplex'
  BY <1>4, OtherPeer DEF HalfDuplex
<1>7. \A q \in Peers : TokenOnlyLast(wire[q])'
  BY <1>3, BothStreams DEF TurnInv
<1>8. \A q \in Peers : tx'[q] # None => state'[q] = "S"
  BY <1>1, OtherPeer DEF TurnInv, MaySend
<1>9. QED
  BY <1>5, <1>6, <1>7, <1>8 DEF TurnInv

\* p reads one chunk that is not the token, and goes on listening.
LEMMA ReadKeepsTurn ==
    ASSUME TurnInv, TypeOK', NEW p \in Peers, ~MaySend(p), wire[p] # <<>>,
           Head(wire[p]).msg # Token,
           state'[p] = "R", state'[Other(p)] = state[Other(p)],
           wire'[p] = Tail(wire[p]), wire'[Other(p)] = wire[Other(p)],
           rx'[Other(p)] = rx[Other(p)], tx' = tx
    PROVE  TurnInv'
<1>1. wire[p] \in Seq(Chunk) /\ TokenOnlyLast(wire[p])
  BY DEF TurnInv, TypeOK
<1>2. TokenOnlyLast(wire'[p]) /\ (HasToken(wire'[p]) <=> HasToken(wire[p]))
  BY <1>1, TailOfStream
<1>3. ~MaySend(p)' /\ (MaySend(Other(p))' <=> MaySend(Other(p)))
  BY DEF MaySend
<1>4. (TokenInFlight(p)' <=> TokenInFlight(p))
      /\ (TokenInFlight(Other(p))' <=> TokenInFlight(Other(p)))
  BY <1>2 DEF TokenInFlight, HasToken
<1>5. ExactlyOneTurn'
  BY <1>3, <1>4 DEF TurnInv, ExactlyOneTurn, Turn, Peers, Other
<1>6. HalfDuplex'
  BY <1>3, OtherPeer DEF TurnInv, HalfDuplex
<1>7. \A q \in Peers : TokenOnlyLast(wire[q])'
  BY <1>2, BothStreams DEF TurnInv
<1>8. \A q \in Peers : tx'[q] # None => state'[q] = "S"
  BY <1>1, OtherPeer DEF TurnInv, MaySend
<1>9. QED
  BY <1>5, <1>6, <1>7, <1>8 DEF TurnInv

\* p reads the token: it may speak, and nothing is left to read.
LEMMA TokenGivesTurn ==
    ASSUME TurnInv, TypeOK', NEW p \in Peers, ~MaySend(p), wire[p] # <<>>,
           Head(wire[p]).msg = Token,
           state'[p] = "S", state'[Other(p)] = state[Other(p)],
           wire'[p] = Tail(wire[p]), wire'[Other(p)] = wire[Other(p)],
           rx'[p] = None, tx' = tx
    PROVE  TurnInv'
<1>1. wire[p] \in Seq(Chunk) /\ TokenOnlyLast(wire[p])
  BY DEF TurnInv, TypeOK
<1>2. TokenOnlyLast(wire'[p]) /\ wire'[p] = <<>> /\ HasToken(wire[p])
  BY <1>1, TailOfStream
<1>3. ~HasToken(wire[Other(p)]) /\ ~MaySend(Other(p))
  BY <1>2, TurnOfPeer DEF TurnInv, Turn, TokenInFlight
<1>4. MaySend(p)' /\ ~MaySend(Other(p))'
  BY <1>3 DEF MaySend
<1>5. ~TokenInFlight(p)' /\ ~TokenInFlight(Other(p))'
  <2>1. ~HasToken(wire'[p])
    BY <1>2, EmptyHasNoToken
  <2>2. ~HasToken(wire'[Other(p)])
    BY <1>3
  <2>3. QED
    BY <2>1, <2>2 DEF TokenInFlight, HasToken
<1>6. ExactlyOneTurn'
  BY <1>4, <1>5 DEF ExactlyOneTurn, Turn, Peers, Other
<1>7. HalfDuplex'
  BY <1>2, <1>4, OtherPeer DEF HalfDuplex
<1>8. \A q \in Peers : TokenOnlyLast(wire[q])'
  BY <1>2, BothStreams DEF TurnInv
<1>9. \A q \in Peers : tx'[q] # None => state'[q] = "S"
  BY <1>1, OtherPeer DEF TurnInv, MaySend
<1>10. QED
  BY <1>6, <1>7, <1>8, <1>9 DEF TurnInv

-----------------------------------------------------------------------------
(***************************************************************************)
(* Every step preserves the invariant.  TypeOK first: it does not depend   *)
(* on whose turn it is.                                                    *)
(***************************************************************************)
\* What a message is written as.
LEMMA ChunkTypes ==
    ASSUME NEW m \in Msg
    PROVE  Header(m) \in Chunk /\ Body(m) \in Chunk
           /\ Header(m).msg = m /\ Body(m).msg = m
BY DEF Header, Body, Chunk

\* Every step of a peer keeps the types.
LEMMA TypeStep ==
    ASSUME TypeOK, NEW p \in Peers, IpcStep(p)
    PROVE  TypeOK'
<1>1. ASSUME NEW m \in Msg, SendMessage(p, m) PROVE TypeOK'
  <2>1. Other(p) \in Peers /\ wire[Other(p)] \in Seq(Chunk)
    BY OtherPeer DEF TypeOK
  <2>2. /\ Append(wire[Other(p)], Header(m)) \in Seq(Chunk)
        /\ Append(Append(wire[Other(p)], Header(m)), Body(m)) \in Seq(Chunk)
    BY <2>1, ChunkTypes, AppendProperties
  <2>3. wire' \in [Peers -> Seq(Chunk)]
    BY <1>1, <2>1, <2>2 DEF SendMessage, TypeOK
  <2>4. QED
    BY <1>1, <2>3 DEF SendMessage, StateAfterSend, TypeOK
<1>2. ASSUME NEW m \in WithBody, SendString(p, m) PROVE TypeOK'
  <2>1. Other(p) \in Peers /\ wire[Other(p)] \in Seq(Chunk) /\ m \in Msg
    BY OtherPeer, IpcAssumption DEF TypeOK
  <2>2. Append(wire[Other(p)], Header(m)) \in Seq(Chunk)
    BY <2>1, ChunkTypes, AppendProperties
  <2>3. wire' \in [Peers -> Seq(Chunk)]
    BY <1>2, <2>1, <2>2 DEF SendString, TypeOK
  <2>4. QED
    BY <1>2, <2>3 DEF SendString, TypeOK
<1>3. ASSUME SendStringBody(p) PROVE TypeOK'
  <2>1. Other(p) \in Peers /\ wire[Other(p)] \in Seq(Chunk) /\ tx[p] \in Msg
    BY <1>3, OtherPeer, IpcAssumption DEF TypeOK, SendStringBody
  <2>2. Append(wire[Other(p)], Body(tx[p])) \in Seq(Chunk)
    BY <2>1, ChunkTypes, AppendProperties
  <2>3. wire' \in [Peers -> Seq(Chunk)]
    BY <1>3, <2>1, <2>2 DEF SendStringBody, TypeOK
  <2>4. QED
    BY <1>3, <2>3 DEF SendStringBody, TypeOK
<1>4. ASSUME ReceiveHeader(p) PROVE TypeOK'
  <2>1. Tail(wire[p]) \in Seq(Chunk)
    BY <1>4, HeadTailProperties DEF ReceiveHeader, TypeOK
  <2>2. wire' \in [Peers -> Seq(Chunk)]
    BY <1>4, <2>1 DEF ReceiveHeader, TypeOK
  <2>3. QED
    BY <1>4, <2>2 DEF ReceiveHeader, TypeOK
<1>5. ASSUME NEW m \in Msg, ReceiveMessage(p, m) PROVE TypeOK'
  <2>1. Tail(wire[p]) \in Seq(Chunk)
    BY <1>5, HeadTailProperties DEF ReceiveMessage, Completes, TypeOK
  <2>2. wire' \in [Peers -> Seq(Chunk)]
    BY <1>5, <2>1 DEF ReceiveMessage, TypeOK
  <2>3. QED
    BY <1>5, <2>2 DEF ReceiveMessage, StateAfterReceive, TypeOK
<1>6. ASSUME AbandonString(p) PROVE TypeOK'
  BY <1>6 DEF AbandonString, TypeOK
<1>7. ASSUME Close(p) PROVE TypeOK'
  BY <1>7 DEF Close, TypeOK
<1>8. QED
  BY <1>1, <1>2, <1>3, <1>4, <1>5, <1>6, <1>7 DEF IpcStep

\* Every step of a peer keeps the invariant, by the lemma for what it reads or writes.
LEMMA StepKeepsTurn ==
    ASSUME TurnInv, NEW p \in Peers, IpcStep(p)
    PROVE  TurnInv'
<1> TypeOK'
  BY TypeStep DEF TurnInv
<1> USE OtherPeer
<1>0. Token \notin WithBody /\ Token \in Msg
  BY IpcAssumption
<1>1. ASSUME NEW m \in Msg, SendMessage(p, m) PROVE TurnInv'
  <2>1. CASE m = Token
    <3>1. wire'[Other(p)] = Append(wire[Other(p)], Header(m)) /\ wire'[p] = wire[p]
      BY <1>0, <1>1, <2>1 DEF SendMessage, TurnInv, TypeOK
    <3>2. /\ state'[p] = "R" /\ state'[Other(p)] = state[Other(p)]
          /\ MaySend(p) /\ tx[p] = None /\ rx' = rx /\ tx' = tx
      BY <1>1, <2>1 DEF SendMessage, Writable, StateAfterSend, TurnInv, TypeOK
    <3>3. QED
      BY <2>1, <3>1, <3>2, ChunkTypes, TokenPassesTurn
  <2>2. CASE m # Token /\ m \notin WithBody
    <3>1. wire'[Other(p)] = Append(wire[Other(p)], Header(m)) /\ wire'[p] = wire[p]
      BY <1>1, <2>2 DEF SendMessage, TurnInv, TypeOK
    <3>2. /\ state'[p] = "S" /\ state'[Other(p)] = state[Other(p)]
          /\ MaySend(p) /\ rx' = rx /\ tx' = tx
      BY <1>1, <2>2 DEF SendMessage, StateAfterSend, TurnInv, TypeOK
    <3>3. QED
      BY <2>2, <3>1, <3>2, ChunkTypes, WriteKeepsTurn
  <2>3. CASE m \in WithBody
    <3>1. /\ wire'[Other(p)] = Append(Append(wire[Other(p)], Header(m)), Body(m))
          /\ wire'[p] = wire[p]
      BY <1>1, <2>3 DEF SendMessage, TurnInv, TypeOK
    <3>2. /\ state'[p] = "S" /\ state'[Other(p)] = state[Other(p)]
          /\ MaySend(p) /\ rx' = rx /\ tx' = tx
      BY <1>0, <1>1, <2>3 DEF SendMessage, StateAfterSend, TurnInv, TypeOK
    <3>3. QED
      BY <1>0, <2>3, <3>1, <3>2, ChunkTypes, WriteTwoKeepsTurn
  <2>4. QED
    BY <2>1, <2>2, <2>3
<1>2. ASSUME NEW m \in WithBody, SendString(p, m) PROVE TurnInv'
  <2>1. wire'[Other(p)] = Append(wire[Other(p)], Header(m)) /\ wire'[p] = wire[p]
    BY <1>2 DEF SendString, TurnInv, TypeOK
  <2>2. /\ state'[p] = "S" /\ state'[Other(p)] = state[Other(p)]
        /\ MaySend(p) /\ rx' = rx /\ tx'[Other(p)] = tx[Other(p)]
    BY <1>2 DEF SendString, TurnInv, TypeOK
  <2>3. m \in Msg /\ m # Token
    BY <1>0, IpcAssumption
  <2>4. QED
    BY <2>1, <2>2, <2>3, ChunkTypes, WriteKeepsTurn
<1>3. ASSUME SendStringBody(p) PROVE TurnInv'
  <2>1. state[p] = "S" /\ MaySend(p) /\ tx[p] \in WithBody
    BY <1>3 DEF SendStringBody, MaySend, TurnInv, TypeOK
  <2>2. wire'[Other(p)] = Append(wire[Other(p)], Body(tx[p])) /\ wire'[p] = wire[p]
    BY <1>3 DEF SendStringBody, TurnInv, TypeOK
  <2>3. state' = state /\ rx' = rx /\ tx'[Other(p)] = tx[Other(p)]
    BY <1>3 DEF SendStringBody, TurnInv, TypeOK
  <2>4. tx[p] \in Msg /\ tx[p] # Token
    BY <1>0, <2>1, IpcAssumption
  <2>5. QED
    BY <2>1, <2>2, <2>3, <2>4, ChunkTypes, WriteKeepsTurn
<1>4. ASSUME ReceiveHeader(p) PROVE TurnInv'
  <2>1. /\ wire'[p] = Tail(wire[p]) /\ wire'[Other(p)] = wire[Other(p)]
        /\ state'[p] = "R" /\ state'[Other(p)] = state[Other(p)]
        /\ rx'[Other(p)] = rx[Other(p)] /\ tx' = tx /\ wire[p] # <<>>
    BY <1>4 DEF ReceiveHeader, TurnInv, TypeOK
  <2>2. ~MaySend(p) /\ Head(wire[p]).msg # Token
    BY <1>0, <1>4 DEF ReceiveHeader, MayReceive, MaySend
  <2>3. QED
    BY <2>1, <2>2, ReadKeepsTurn
<1>5. ASSUME NEW m \in Msg, ReceiveMessage(p, m) PROVE TurnInv'
  <2>1. /\ wire'[p] = Tail(wire[p]) /\ wire'[Other(p)] = wire[Other(p)]
        /\ state'[p] = StateAfterReceive(m) /\ state'[Other(p)] = state[Other(p)]
        /\ rx'[p] = None /\ rx'[Other(p)] = rx[Other(p)] /\ tx' = tx
        /\ wire[p] # <<>> /\ Head(wire[p]).msg = m
    BY <1>5 DEF ReceiveMessage, Completes, TurnInv, TypeOK
  <2>2. ~MaySend(p)
    BY <1>5 DEF ReceiveMessage, MayReceive, MaySend
  <2>3. CASE m = Token
    BY <2>1, <2>2, <2>3, TokenGivesTurn DEF StateAfterReceive
  <2>4. CASE m # Token
    BY <2>1, <2>2, <2>4, ReadKeepsTurn DEF StateAfterReceive
  <2>5. QED
    BY <2>3, <2>4
<1>6. ASSUME AbandonString(p) PROVE TurnInv'
  <2>1. state' = state /\ wire' = wire /\ rx' = rx
    BY <1>6 DEF AbandonString
  <2>2. \A q \in Peers : tx'[q] # None => tx[q] # None
    BY <1>6 DEF AbandonString, TurnInv, TypeOK
  <2>3. QED
    BY <2>1, <2>2 DEF TurnInv, ExactlyOneTurn, HalfDuplex, Turn, MaySend,
                      TokenInFlight, HasToken, TokenOnlyLast
<1>7. ASSUME Close(p) PROVE TurnInv'
  BY <1>7 DEF Close, TurnInv, ExactlyOneTurn, HalfDuplex, Turn, MaySend,
              TokenInFlight, HasToken, TokenOnlyLast
<1>8. QED
  BY <1>1, <1>2, <1>3, <1>4, <1>5, <1>6, <1>7 DEF IpcStep

\* So does every step of the system.
LEMMA NextKeepsTurn == TurnInv /\ [IpcNext]_ipcVars => TurnInv'
<1> SUFFICES ASSUME TurnInv, [IpcNext]_ipcVars PROVE TurnInv'
  OBVIOUS
<1>1. CASE IpcNext
  BY <1>1, StepKeepsTurn DEF IpcNext
<1>2. CASE UNCHANGED ipcVars
  BY <1>2 DEF ipcVars, TurnInv, TypeOK, ExactlyOneTurn, HalfDuplex, Turn,
              MaySend, TokenInFlight, HasToken, TokenOnlyLast
<1>3. QED
  BY <1>1, <1>2

\* The inductive invariant holds in every reachable state.
THEOREM TurnInvariant == IpcSpec => []TurnInv
<1>1. IpcInit => TurnInv
  BY InitTurn
<1>2. TurnInv /\ [IpcNext]_ipcVars => TurnInv'
  BY NextKeepsTurn
<1>3. QED
  BY <1>1, <1>2, PTL DEF IpcSpec

\* Endpoint states, streams and half-read messages keep their types.
THEOREM TypeCorrect == IpcSpec => []TypeOK
<1>1. TurnInv => TypeOK
  BY DEF TurnInv
<1>2. QED
  BY <1>1, TurnInvariant, PTL

(***************************************************************************)
(* For every set of messages and every pipe capacity, in every state,      *)
(* deaths of either process in the middle of a message included, there is  *)
(* exactly one right to speak.                                             *)
(***************************************************************************)
THEOREM TurnIsUnique == IpcSpec => []ExactlyOneTurn
<1>1. TurnInv => ExactlyOneTurn
  BY DEF TurnInv
<1>2. QED
  BY <1>1, TurnInvariant, PTL

\* And a process that may speak has read everything written for it.
THEOREM SpeakerHasReadAll == IpcSpec => []HalfDuplex
<1>1. TurnInv => HalfDuplex
  BY DEF TurnInv
<1>2. QED
  BY <1>1, TurnInvariant, PTL

-----------------------------------------------------------------------------
(***************************************************************************)
(* What may come next in a stream.  N[c] is the set of chunks that may     *)
(* follow chunk c and F the set of those the reader is ready for.  The     *)
(* stream is right when each chunk may follow the one before it, and       *)
(* Ahead is what may be written to it next.                                *)
(***************************************************************************)
Fits(s, F, N) == /\ s # <<>> => s[1] \in F
                 /\ \A i \in 2 .. Len(s) : s[i] \in N[s[i - 1]]
Ahead(s, F, N) == IF s = <<>> THEN F ELSE N[s[Len(s)]]

\* Nothing is wrong with an empty stream.
LEMMA EmptyFits == ASSUME NEW F, NEW N PROVE Fits(<<>>, F, N)
<1>1. Len(<<>>) = 0
  BY EmptySeq
<1>2. QED
  BY <1>1 DEF Fits

\* A chunk that may be written leaves a right stream, and decides what follows.
LEMMA AppendFits ==
    ASSUME NEW s \in Seq(Chunk), NEW F, NEW N, Fits(s, F, N),
           NEW c \in Chunk, c \in Ahead(s, F, N)
    PROVE  /\ Append(s, c) \in Seq(Chunk)
           /\ Fits(Append(s, c), F, N)
           /\ Ahead(Append(s, c), F, N) = N[c]
<1>1. /\ Append(s, c) \in Seq(Chunk)
      /\ Append(s, c) # <<>>
      /\ Len(Append(s, c)) = Len(s) + 1
      /\ \A i \in 1 .. Len(s) : Append(s, c)[i] = s[i]
      /\ Append(s, c)[Len(s) + 1] = c
  BY AppendProperties
<1>2. Len(s) \in Nat /\ (s = <<>> <=> Len(s) = 0)
  BY LenProperties, EmptySeq
<1>3. Append(s, c)[1] \in F
  <2>1. CASE s = <<>>
    BY <1>1, <1>2, <2>1 DEF Ahead
  <2>2. CASE s # <<>>
    BY <1>1, <1>2, <2>2 DEF Fits
  <2>3. QED
    BY <2>1, <2>2
<1>4. ASSUME NEW i \in 2 .. Len(s) + 1
      PROVE  Append(s, c)[i] \in N[Append(s, c)[i - 1]]
  <2>1. CASE i = Len(s) + 1
    <3>1. s # <<>> /\ i - 1 = Len(s) /\ Len(s) \in 1 .. Len(s)
      BY <1>2, <1>4, <2>1
    <3>2. QED
      BY <1>1, <2>1, <3>1 DEF Ahead
  <2>2. CASE i # Len(s) + 1
    <3>1. i \in 2 .. Len(s) /\ i \in 1 .. Len(s) /\ i - 1 \in 1 .. Len(s)
      BY <1>2, <1>4, <2>2
    <3>2. QED
      BY <1>1, <3>1 DEF Fits
  <2>3. QED
    BY <2>1, <2>2
<1>5. QED
  BY <1>1, <1>3, <1>4 DEF Fits, Ahead

\* The first chunk is one the reader is ready for; the rest fits what follows it.
LEMMA TailFits ==
    ASSUME NEW s \in Seq(Chunk), s # <<>>, NEW F, NEW N, Fits(s, F, N)
    PROVE  /\ Tail(s) \in Seq(Chunk)
           /\ Head(s) \in Chunk
           /\ Head(s) \in F
           /\ Fits(Tail(s), N[Head(s)], N)
           /\ Ahead(Tail(s), N[Head(s)], N) = Ahead(s, F, N)
<1>1. /\ Tail(s) \in Seq(Chunk)
      /\ Head(s) \in Chunk
      /\ Head(s) = s[1]
      /\ Len(Tail(s)) = Len(s) - 1
      /\ Len(s) \in Nat \ {0}
      /\ \A i \in 1 .. Len(Tail(s)) : Tail(s)[i] = s[i + 1]
  BY HeadTailProperties, LenProperties, EmptySeq
<1>2. Tail(s) = <<>> <=> Len(Tail(s)) = 0
  BY <1>1, EmptySeq
<1>3. Tail(s) # <<>> => Tail(s)[1] \in N[Head(s)]
  <2> SUFFICES ASSUME Tail(s) # <<>> PROVE Tail(s)[1] \in N[Head(s)]
    OBVIOUS
  <2>1. 1 \in 1 .. Len(Tail(s)) /\ 2 \in 2 .. Len(s)
    BY <1>1, <1>2
  <2>2. s[2] \in N[s[2 - 1]] /\ Tail(s)[1] = s[1 + 1]
    BY <1>1, <2>1 DEF Fits
  <2>3. QED
    BY <1>1, <2>2
<1>4. ASSUME NEW i \in 2 .. Len(Tail(s)) PROVE Tail(s)[i] \in N[Tail(s)[i - 1]]
  <2>1. i \in 1 .. Len(Tail(s)) /\ i - 1 \in 1 .. Len(Tail(s)) /\ i + 1 \in 2 .. Len(s)
    BY <1>1, <1>4
  <2>2. Tail(s)[i] = s[i + 1] /\ Tail(s)[i - 1] = s[(i - 1) + 1]
    BY <1>1, <2>1
  <2>3. (i - 1) + 1 = i /\ (i + 1) - 1 = i
    BY <1>4
  <2>4. QED
    BY <2>1, <2>2, <2>3 DEF Fits
<1>5. Ahead(Tail(s), N[Head(s)], N) = Ahead(s, F, N)
  <2>1. CASE Tail(s) = <<>>
    BY <1>1, <1>2, <2>1 DEF Ahead
  <2>2. CASE Tail(s) # <<>>
    <3>1. Len(Tail(s)) \in 1 .. Len(Tail(s)) /\ Len(Tail(s)) + 1 = Len(s)
      BY <1>1, <1>2, <2>2
    <3>2. Tail(s)[Len(Tail(s))] = s[Len(s)]
      BY <1>1, <3>1
    <3>3. QED
      BY <2>2, <3>2 DEF Ahead
  <2>3. QED
    BY <2>1, <2>2
<1>6. Head(s) \in F
  BY <1>1 DEF Fits
<1>7. QED
  BY <1>1, <1>3, <1>4, <1>5, <1>6 DEF Fits

-----------------------------------------------------------------------------
(***************************************************************************)
(* The same for messages.  f[m] are the messages that may follow m and E   *)
(* those the reader expects.  A message with a body is two chunks, of      *)
(* which the reader may have read one (r) and the writer written one (t).  *)
(***************************************************************************)
Headers(ms) == {Header(m) : m \in ms}
Follow(f) == [c \in Chunk |-> IF c.part = "header" /\ c.msg \in WithBody
                              THEN {Body(c.msg)} ELSE Headers(f[c.msg])]
Due(r, E) == IF r = None THEN Headers(E) ELSE {Body(r)}

\* What is in the stream is, message by message, what its reader expects.
Talks(s, r, E, f) == /\ Fits(s, Due(r, E), Follow(f))
                     /\ r # None => r \in E

\* The reader expects each of the messages W after all that is in the stream.
Accepts(s, r, t, E, f, W) ==
    LET next == Ahead(s, Due(r, E), Follow(f))
    IN  IF t = None THEN Headers(W) \subseteq next
                    ELSE Body(t) \in next /\ W \subseteq f[t]

\* A reader that expects more is as content with the stream.
LEMMA ExpectMore ==
    ASSUME NEW s, NEW r, NEW t, NEW E, NEW E2, NEW f, NEW W, NEW W2, E \subseteq E2
    PROVE  /\ Talks(s, r, E, f) => Talks(s, r, E2, f)
           /\ W2 \subseteq W /\ Accepts(s, r, t, E, f, W) => Accepts(s, r, t, E2, f, W2)
<1>1. Due(r, E) \subseteq Due(r, E2)
  BY DEF Due, Headers
<1>2. Ahead(s, Due(r, E), Follow(f)) \subseteq Ahead(s, Due(r, E2), Follow(f))
  BY <1>1 DEF Ahead
<1>3. W2 \subseteq W => Headers(W2) \subseteq Headers(W)
  BY DEF Headers
<1>4. QED
  BY <1>1, <1>2, <1>3 DEF Talks, Accepts, Fits

\* Writing the header of a message the reader accepts.
LEMMA WriteHeader ==
    ASSUME NEW s \in Seq(Chunk), NEW r, NEW E \in SUBSET Msg,
           NEW f \in [Msg -> SUBSET Msg], NEW W \in SUBSET Msg, NEW m \in W,
           Talks(s, r, E, f), Accepts(s, r, None, E, f, W)
    PROVE  /\ Append(s, Header(m)) \in Seq(Chunk)
           /\ Talks(Append(s, Header(m)), r, E, f)
           /\ \A V : V \subseteq f[m] =>
                 Accepts(Append(s, Header(m)), r, IF m \in WithBody THEN m ELSE None,
                         E, f, V)
<1>1. /\ m \in Msg /\ Header(m) \in Chunk /\ Header(m).msg = m
      /\ Header(m).part = "header" /\ m # None
  BY IpcAssumption DEF Header, Chunk
<1>2. Header(m) \in Ahead(s, Due(r, E), Follow(f))
  BY DEF Accepts, Headers
<1>3. /\ Append(s, Header(m)) \in Seq(Chunk)
      /\ Fits(Append(s, Header(m)), Due(r, E), Follow(f))
      /\ Ahead(Append(s, Header(m)), Due(r, E), Follow(f)) = Follow(f)[Header(m)]
  BY <1>1, <1>2, AppendFits DEF Talks
<1>4. Follow(f)[Header(m)] = IF m \in WithBody THEN {Body(m)} ELSE Headers(f[m])
  BY <1>1 DEF Follow
<1>5. \A V : V \subseteq f[m] => Headers(V) \subseteq Headers(f[m])
  BY DEF Headers
<1>6. QED
  BY <1>1, <1>3, <1>4, <1>5 DEF Talks, Accepts

\* Writing the body of the message whose header was written before.
LEMMA WriteBody ==
    ASSUME NEW s \in Seq(Chunk), NEW r, NEW E \in SUBSET Msg,
           NEW f \in [Msg -> SUBSET Msg], NEW W, NEW t \in WithBody,
           Talks(s, r, E, f), Accepts(s, r, t, E, f, W)
    PROVE  /\ Append(s, Body(t)) \in Seq(Chunk)
           /\ Talks(Append(s, Body(t)), r, E, f)
           /\ Accepts(Append(s, Body(t)), r, None, E, f, W)
<1>1. /\ t \in Msg /\ Body(t) \in Chunk /\ Body(t).msg = t
      /\ Body(t).part # "header" /\ t # None
  BY IpcAssumption DEF Body, Chunk
<1>2. Body(t) \in Ahead(s, Due(r, E), Follow(f)) /\ W \subseteq f[t]
  BY <1>1 DEF Accepts
<1>3. /\ Append(s, Body(t)) \in Seq(Chunk)
      /\ Fits(Append(s, Body(t)), Due(r, E), Follow(f))
      /\ Ahead(Append(s, Body(t)), Due(r, E), Follow(f)) = Follow(f)[Body(t)]
  BY <1>1, <1>2, AppendFits DEF Talks
<1>4. Follow(f)[Body(t)] = Headers(f[t])
  BY <1>1 DEF Follow
<1>5. Headers(W) \subseteq Headers(f[t])
  BY <1>2 DEF Headers
<1>6. QED
  BY <1>1, <1>3, <1>4, <1>5 DEF Talks, Accepts

\* Reading the header of a message with a body: it is one the reader expects.
LEMMA ReadHeader ==
    ASSUME NEW s \in Seq(Chunk), NEW E \in SUBSET Msg,
           NEW f \in [Msg -> SUBSET Msg], s # <<>>,
           Head(s).msg \in WithBody,
           Talks(s, None, E, f)
    PROVE  /\ Tail(s) \in Seq(Chunk)
           /\ Talks(Tail(s), Head(s).msg, E, f)
           /\ \A t, W : Accepts(s, None, t, E, f, W)
                        => Accepts(Tail(s), Head(s).msg, t, E, f, W)
<1>1. /\ Tail(s) \in Seq(Chunk) /\ Head(s) \in Chunk /\ Head(s) \in Headers(E)
      /\ Fits(Tail(s), Follow(f)[Head(s)], Follow(f))
      /\ Ahead(Tail(s), Follow(f)[Head(s)], Follow(f)) = Ahead(s, Headers(E), Follow(f))
  BY TailFits DEF Talks, Due
<1>2. /\ Head(s).part = "header" /\ Head(s).msg \in E /\ Head(s).msg \in Msg
      /\ Head(s).msg # None
  <2>1. PICK m \in E : Head(s) = Header(m)
    BY <1>1 DEF Headers
  <2>2. Header(m).part = "header" /\ Header(m).msg = m
    BY DEF Header
  <2>3. QED
    BY <2>1, <2>2, IpcAssumption
<1>3. Follow(f)[Head(s)] = Due(Head(s).msg, E)
  BY <1>1, <1>2 DEF Follow, Due
<1>4. QED
  BY <1>1, <1>2, <1>3 DEF Talks, Accepts, Due

\* Completing a message, likewise; what may follow it is expected next.
LEMMA ReadMessage ==
    ASSUME NEW s \in Seq(Chunk), NEW r, NEW E \in SUBSET Msg, NEW E2,
           NEW f \in [Msg -> SUBSET Msg], s # <<>>, Head(s).msg \in Msg,
           r = None => Head(s).msg \notin WithBody, r = None \/ r = Head(s).msg,
           Talks(s, r, E, f), f[Head(s).msg] \subseteq E2
    PROVE  /\ Tail(s) \in Seq(Chunk)
           /\ Head(s).msg \in E
           /\ Talks(Tail(s), None, E2, f)
           /\ \A t, W : Accepts(s, r, t, E, f, W)
                        => Accepts(Tail(s), None, t, E2, f, W)
<1> DEFINE m == Head(s).msg
<1>1. /\ Tail(s) \in Seq(Chunk) /\ Head(s) \in Chunk /\ Head(s) \in Due(r, E)
      /\ Fits(Tail(s), Follow(f)[Head(s)], Follow(f))
      /\ Ahead(Tail(s), Follow(f)[Head(s)], Follow(f)) = Ahead(s, Due(r, E), Follow(f))
  BY TailFits DEF Talks
<1>2. /\ m \in E
      /\ ~(Head(s).part = "header" /\ Head(s).msg \in WithBody)
  BY <1>1 DEF Talks, Due, Headers, Header, Body
<1>3. Follow(f)[Head(s)] = Headers(f[m])
  BY <1>1, <1>2 DEF Follow
<1>4. /\ Talks(Tail(s), None, f[m], f)
      /\ \A t, W : Accepts(s, r, t, E, f, W) => Accepts(Tail(s), None, t, f[m], f, W)
  BY <1>1, <1>2, <1>3 DEF Talks, Accepts, Due
<1>5. QED
  BY <1>1, <1>2, <1>4, ExpectMore

-----------------------------------------------------------------------------
(***************************************************************************)
(* Headers and bodies keep step.  Framed looks at the first chunk only;    *)
(* the invariant is about the whole stream and about what the writer is    *)
(* going to put behind it, for as long as the reader lives: a string that  *)
(* is given up leaves a header without body in a stream nobody reads.      *)
(***************************************************************************)
AnyMessage == [m \in Msg |-> Msg]
FramedAt(s, r, t, reads) == /\ Talks(s, r, Msg, AnyMessage)
                            /\ reads => Accepts(s, r, t, Msg, AnyMessage, Msg)
FramingInv ==
    /\ TypeOK
    /\ \A p \in Peers : FramedAt(wire[p], rx[p], tx[Other(p)], open[p])

\* Both streams keep step when the one to q does and the other is not touched.
LEMMA OneStream ==
    ASSUME FramingInv, TypeOK', NEW q \in Peers,
           FramedAt(wire'[q], rx'[q], tx'[Other(q)], open'[q]),
           wire'[Other(q)] = wire[Other(q)], rx'[Other(q)] = rx[Other(q)],
           tx'[q] = tx[q] \/ ~open'[Other(q)],
           open'[Other(q)] => open[Other(q)]
    PROVE  FramingInv'
<1>1. FramedAt(wire[Other(q)], rx[Other(q)], tx[q], open[Other(q)])
  BY OtherPeer DEF FramingInv
<1>2. FramedAt(wire'[Other(q)], rx'[Other(q)], tx'[q], open'[Other(q)])
  BY <1>1 DEF FramedAt
<1>3. FramedAt(wire'[q], rx'[q], tx'[Other(q)], open'[q])
  OBVIOUS
<1>4. \A p \in Peers : FramedAt(wire'[p], rx'[p], tx'[Other(p)], open'[p])
  BY <1>2, <1>3, OtherPeer
<1>5. QED
  BY <1>4 DEF FramingInv

\* Both streams are empty at the start, and any message may come first.
LEMMA InitFramed == IpcInit => FramingInv
<1> SUFFICES ASSUME IpcInit PROVE FramingInv
  OBVIOUS
<1>1. TypeOK
  BY InitTurn DEF TurnInv
<1>2. \A p \in Peers : wire[p] = <<>> /\ rx[p] = None /\ tx[Other(p)] = None
  BY OtherPeer DEF IpcInit
<1>3. FramedAt(<<>>, None, None, TRUE)
  BY EmptyFits DEF FramedAt, Talks, Accepts, Ahead, Due
<1>4. QED
  BY <1>1, <1>2, <1>3 DEF FramingInv, FramedAt

\* Every step of a peer keeps the framing of both streams.
LEMMA StepKeepsFraming ==
    ASSUME FramingInv, NEW p \in Peers, IpcStep(p)
    PROVE  FramingInv'
<1> DEFINE q == Other(p)
<1>a. TypeOK'
  BY TypeStep DEF FramingInv
<1>b. /\ q \in Peers /\ Other(q) = p /\ q # p
      /\ wire[p] \in Seq(Chunk) /\ wire[q] \in Seq(Chunk)
  BY OtherPeer DEF FramingInv, TypeOK
<1>c. /\ AnyMessage \in [Msg -> SUBSET Msg] /\ Msg \in SUBSET Msg
      /\ \A m \in Msg : AnyMessage[m] = Msg
  BY DEF AnyMessage
<1>d. /\ FramedAt(wire[q], rx[q], tx[p], open[q])
      /\ FramedAt(wire[p], rx[p], tx[q], open[p])
  BY <1>b DEF FramingInv
<1> HIDE DEF q
<1>1. ASSUME NEW m \in Msg, SendMessage(p, m) PROVE FramingInv'
  <2>1. /\ Talks(wire[q], rx[q], Msg, AnyMessage)
        /\ Accepts(wire[q], rx[q], None, Msg, AnyMessage, Msg)
    BY <1>1, <1>d DEF SendMessage, Writable, FramedAt, q
  <2>2. /\ Append(wire[q], Header(m)) \in Seq(Chunk)
        /\ Talks(Append(wire[q], Header(m)), rx[q], Msg, AnyMessage)
        /\ Accepts(Append(wire[q], Header(m)), rx[q],
                   IF m \in WithBody THEN m ELSE None, Msg, AnyMessage, Msg)
    BY <1>b, <1>c, <2>1, WriteHeader
  <2>3. CASE m \notin WithBody
    <3>1. wire'[q] = Append(wire[q], Header(m)) /\ wire'[p] = wire[p]
      BY <1>1, <1>b, <2>3 DEF SendMessage, FramingInv, TypeOK, q
    <3>2. rx' = rx /\ tx' = tx /\ open' = open /\ tx[p] = None
      BY <1>1 DEF SendMessage, Writable
    <3>3. FramedAt(wire'[q], rx'[q], tx'[p], open'[q])
      BY <2>2, <2>3, <3>1, <3>2 DEF FramedAt
    <3>4. QED
      BY <1>a, <1>b, <3>1, <3>2, <3>3, OneStream
  <2>4. CASE m \in WithBody
    <3>1. /\ wire'[q] = Append(Append(wire[q], Header(m)), Body(m))
          /\ wire'[p] = wire[p]
      BY <1>1, <1>b, <2>4 DEF SendMessage, FramingInv, TypeOK, q
    <3>2. rx' = rx /\ tx' = tx /\ open' = open /\ tx[p] = None
      BY <1>1 DEF SendMessage, Writable
    <3>3. /\ Talks(Append(Append(wire[q], Header(m)), Body(m)), rx[q], Msg, AnyMessage)
          /\ Accepts(Append(Append(wire[q], Header(m)), Body(m)), rx[q], None,
                     Msg, AnyMessage, Msg)
      BY <1>c, <2>2, <2>4, WriteBody
    <3>4. FramedAt(wire'[q], rx'[q], tx'[p], open'[q])
      BY <3>1, <3>2, <3>3 DEF FramedAt
    <3>5. QED
      BY <1>a, <1>b, <3>1, <3>2, <3>4, OneStream
  <2>5. QED
    BY <2>3, <2>4
<1>2. ASSUME NEW m \in WithBody, SendString(p, m) PROVE FramingInv'
  <2>1. /\ Talks(wire[q], rx[q], Msg, AnyMessage)
        /\ Accepts(wire[q], rx[q], None, Msg, AnyMessage, Msg)
    BY <1>2, <1>d DEF SendString, Writable, FramedAt, q
  <2>2. /\ wire'[q] = Append(wire[q], Header(m)) /\ wire'[p] = wire[p]
        /\ rx' = rx /\ open' = open /\ tx'[p] = m /\ tx'[q] = tx[q] /\ m \in Msg
    BY <1>2, <1>b, IpcAssumption DEF SendString, FramingInv, TypeOK, q
  <2>3. /\ Talks(Append(wire[q], Header(m)), rx[q], Msg, AnyMessage)
        /\ Accepts(Append(wire[q], Header(m)), rx[q],
                   IF m \in WithBody THEN m ELSE None, Msg, AnyMessage, Msg)
    BY <1>b, <1>c, <2>1, <2>2, WriteHeader
  <2>4. FramedAt(wire'[q], rx'[q], tx'[p], open'[q])
    BY <2>2, <2>3 DEF FramedAt
  <2>5. QED
    BY <1>a, <1>b, <2>2, <2>4, OneStream
<1>3. ASSUME SendStringBody(p) PROVE FramingInv'
  <2>1. /\ Talks(wire[q], rx[q], Msg, AnyMessage)
        /\ Accepts(wire[q], rx[q], tx[p], Msg, AnyMessage, Msg)
        /\ tx[p] \in WithBody
    BY <1>3, <1>d DEF SendStringBody, FramedAt, q, FramingInv, TypeOK
  <2>2. /\ wire'[q] = Append(wire[q], Body(tx[p])) /\ wire'[p] = wire[p]
        /\ rx' = rx /\ open' = open /\ tx'[p] = None /\ tx'[q] = tx[q]
    BY <1>3, <1>b DEF SendStringBody, FramingInv, TypeOK, q
  <2>3. FramedAt(wire'[q], rx'[q], tx'[p], open'[q])
    BY <1>b, <1>c, <2>1, <2>2, WriteBody DEF FramedAt
  <2>4. QED
    BY <1>a, <1>b, <2>2, <2>3, OneStream
<1>4. ASSUME ReceiveHeader(p) PROVE FramingInv'
  <2>1. /\ wire'[p] = Tail(wire[p]) /\ wire'[q] = wire[q]
        /\ rx'[p] = Head(wire[p]).msg /\ rx'[q] = rx[q] /\ tx' = tx /\ open' = open
        /\ rx[p] = None /\ wire[p] # <<>> /\ Head(wire[p]).msg \in WithBody
    BY <1>4, <1>b DEF ReceiveHeader, FramingInv, TypeOK
  <2>2. Talks(wire[p], None, Msg, AnyMessage)
    BY <1>d, <2>1 DEF FramedAt
  <2>3. /\ Talks(Tail(wire[p]), Head(wire[p]).msg, Msg, AnyMessage)
        /\ Accepts(wire[p], None, tx[q], Msg, AnyMessage, Msg) =>
           Accepts(Tail(wire[p]), Head(wire[p]).msg, tx[q], Msg, AnyMessage, Msg)
    BY <1>b, <1>c, <2>1, <2>2, ReadHeader
  <2>4. FramedAt(wire'[p], rx'[p], tx'[q], open'[p])
    BY <1>d, <2>1, <2>3 DEF FramedAt
  <2>5. QED
    BY <1>a, <1>b, <2>1, <2>4, OneStream DEF q
<1>5. ASSUME NEW m \in Msg, ReceiveMessage(p, m) PROVE FramingInv'
  <2>1. /\ wire'[p] = Tail(wire[p]) /\ wire'[q] = wire[q]
        /\ rx'[p] = None /\ rx'[q] = rx[q] /\ tx' = tx /\ open' = open
        /\ wire[p] # <<>> /\ Head(wire[p]).msg = m
        /\ rx[p] = None => m \notin WithBody
        /\ rx[p] = None \/ rx[p] = m
    BY <1>5, <1>b DEF ReceiveMessage, Completes, FramingInv, TypeOK
  <2>2. Talks(wire[p], rx[p], Msg, AnyMessage)
    BY <1>d DEF FramedAt
  <2>3. /\ Talks(Tail(wire[p]), None, Msg, AnyMessage)
        /\ Accepts(wire[p], rx[p], tx[q], Msg, AnyMessage, Msg) =>
           Accepts(Tail(wire[p]), None, tx[q], Msg, AnyMessage, Msg)
    BY <1>b, <1>c, <2>1, <2>2, ReadMessage
  <2>4. FramedAt(wire'[p], rx'[p], tx'[q], open'[p])
    BY <1>d, <2>1, <2>3 DEF FramedAt
  <2>5. QED
    BY <1>a, <1>b, <2>1, <2>4, OneStream DEF q
<1>6. ASSUME AbandonString(p) PROVE FramingInv'
  <2>1. /\ wire' = wire /\ rx' = rx /\ open' = open /\ ~open[q] /\ tx'[q] = tx[q]
    BY <1>6, <1>b DEF AbandonString, WriteFails, FramingInv, TypeOK, q
  <2>2. FramedAt(wire'[q], rx'[q], tx'[p], open'[q])
    BY <1>d, <2>1 DEF FramedAt
  <2>3. QED
    BY <1>a, <1>b, <2>1, <2>2, OneStream
<1>7. ASSUME Close(p) PROVE FramingInv'
  <2>1. /\ wire' = wire /\ rx' = rx /\ tx' = tx /\ open'[q] = open[q] /\ ~open'[p]
    BY <1>7, <1>b DEF Close, FramingInv, TypeOK
  <2>2. FramedAt(wire'[q], rx'[q], tx'[p], open'[q])
    BY <1>d, <2>1
  <2>3. QED
    BY <1>a, <1>b, <2>1, <2>2, OneStream
<1>8. QED
  BY <1>1, <1>2, <1>3, <1>4, <1>5, <1>6, <1>7 DEF IpcStep

(***************************************************************************)
(* For every set of messages and every pipe capacity, a process that       *)
(* expects a header finds one and a process that has read a header finds   *)
(* the body that belongs to it, whoever died in the middle.                *)
(***************************************************************************)
THEOREM FramingIsKept == IpcSpec => []Framed
<1>1. IpcInit => FramingInv
  BY InitFramed
<1>2. FramingInv /\ [IpcNext]_ipcVars => FramingInv'
  <2>1. CASE IpcNext
    BY <2>1, StepKeepsFraming DEF IpcNext
  <2>2. CASE UNCHANGED ipcVars
    BY <2>2 DEF ipcVars, FramingInv, TypeOK
  <2>3. QED
    BY <2>1, <2>2
<1>3. FramingInv => Framed
  <2> SUFFICES ASSUME FramingInv, NEW p \in Peers, wire[p] # <<>>
               PROVE  IF rx[p] = None THEN Head(wire[p]).part = "header"
                                      ELSE Head(wire[p]) = Body(rx[p])
    BY DEF Framed
  <2>1. wire[p] \in Seq(Chunk) /\ Fits(wire[p], Due(rx[p], Msg), Follow(AnyMessage))
    BY DEF FramingInv, TypeOK, FramedAt, Talks
  <2>2. Head(wire[p]) \in Due(rx[p], Msg)
    BY <2>1, TailFits
  <2>3. QED
    BY <2>2 DEF Due, Headers, Header
<1>4. QED
  BY <1>1, <1>2, <1>3, PTL DEF IpcSpec

(***************************************************************************)
(* The two processes never wait for each other: in every state one of them *)
(* has the right to speak and room in the pipe for any message, or is to   *)
(* listen and finds the next piece of a message that it can use.  (The     *)
(* first may prefer to do something else, and the other process may have   *)
(* died: then write() and read() return for that reason.)                  *)
(***************************************************************************)
CanSpeak(p) == MaySend(p) /\ Len(wire[Other(p)]) + 2 <= PipeCapacity
CanListen(p) ==
    /\ MayReceive(p) /\ wire[p] # <<>>
    /\ IF rx[p] = None THEN Head(wire[p]).part = "header" ELSE Head(wire[p]) = Body(rx[p])
SomebodyCanGoOn == \E p \in Peers : CanSpeak(p) \/ CanListen(p)

\* read_data() of uadeipc.c blocks without a timeout: neither process is ever left in
\* it for good by the other one waiting too, nor in a write() to a pipe that is full.
THEOREM NeverBothBlocked == IpcSpec => []SomebodyCanGoOn
<1>1. TypeOK /\ ExactlyOneTurn /\ Framed => SomebodyCanGoOn
  <2> SUFFICES ASSUME TypeOK, ExactlyOneTurn, Framed PROVE SomebodyCanGoOn
    OBVIOUS
  <2>1. ASSUME NEW p \in Peers, ~MaySend(p), wire[p] # <<>> PROVE CanListen(p)
    <3>1. MayReceive(p)
      BY <2>1 DEF MaySend, MayReceive, TypeOK, Peers
    <3> QED BY <2>1, <3>1 DEF CanListen, Framed
  <2>2. PICK p \in Peers : Turn(p) /\ ~Turn(Other(p)) /\ ~(MaySend(p) /\ TokenInFlight(p))
    BY DEF ExactlyOneTurn, Turn, Peers, Other
  <2>3. Other(p) \in Peers /\ ~MaySend(Other(p))
    BY <2>2, OtherPeer DEF Turn
  <2>4. CASE TokenInFlight(p)
    <3>1. ~MaySend(p)
      BY <2>2, <2>4
    <3>2. wire[p] # <<>>
      BY <2>4, EmptyHasNoToken DEF TokenInFlight
    <3> QED BY <2>1, <3>1, <3>2 DEF SomebodyCanGoOn
  <2>5. CASE MaySend(p) /\ wire[Other(p)] = <<>>
    <3>1. Len(wire[Other(p)]) = 0
      BY <2>5, EmptySeq
    <3>2. 0 + 2 <= PipeCapacity
      BY IpcAssumption
    <3> QED BY <2>5, <3>1, <3>2 DEF SomebodyCanGoOn, CanSpeak
  <2>6. CASE wire[Other(p)] # <<>>
    BY <2>1, <2>3, <2>6 DEF SomebodyCanGoOn
  <2> QED BY <2>2, <2>4, <2>5, <2>6 DEF Turn
<1> QED BY <1>1, TypeCorrect, TurnIsUnique, FramingIsKept, PTL

-----------------------------------------------------------------------------
(***************************************************************************)
(* What a program that uses the layer can say about a message on its way:  *)
(* it is in the stream, or one half of it has been read or is still to be  *)
(* written.                                                                *)
(***************************************************************************)
Said(s) == {s[i].msg : i \in 1 .. Len(s)}
Pending(s, r, t) == Said(s) \cup ({r, t} \ {None})

\* Nothing is on its way in an empty stream.
LEMMA NothingSaid == Said(<<>>) = {}
<1>1. Len(<<>>) = 0
  BY EmptySeq
<1>2. QED
  BY <1>1 DEF Said

\* Writing adds a message.
LEMMA AppendSaid ==
    ASSUME NEW s \in Seq(Chunk), NEW c \in Chunk
    PROVE  Said(Append(s, c)) = Said(s) \cup {c.msg}
<1>1. /\ Len(Append(s, c)) = Len(s) + 1
      /\ \A i \in 1 .. Len(s) : Append(s, c)[i] = s[i]
      /\ Append(s, c)[Len(s) + 1] = c
  BY AppendProperties
<1>2. 1 .. Len(s) + 1 = (1 .. Len(s)) \cup {Len(s) + 1}
  BY LenProperties
<1>3. QED
  BY <1>1, <1>2 DEF Said

\* Reading removes at most the message read.
LEMMA TailSaid ==
    ASSUME NEW s \in Seq(Chunk), s # <<>>
    PROVE  Said(s) = Said(Tail(s)) \cup {Head(s).msg}
<1>1. /\ Head(s) = s[1]
      /\ Len(Tail(s)) = Len(s) - 1
      /\ Len(s) \in Nat \ {0}
      /\ \A i \in 1 .. Len(Tail(s)) : Tail(s)[i] = s[i + 1]
  BY HeadTailProperties, LenProperties, EmptySeq
<1>2. \A i \in 1 .. Len(Tail(s)) : i + 1 \in 1 .. Len(s)
  BY <1>1
<1>3. \A i \in 1 .. Len(s) : i = 1 \/ (i - 1 \in 1 .. Len(Tail(s)) /\ i = (i - 1) + 1)
  BY <1>1
<1>4. 1 \in 1 .. Len(s)
  BY <1>1
<1>5. Said(Tail(s)) \cup {Head(s).msg} \subseteq Said(s)
  BY <1>1, <1>2, <1>4 DEF Said
<1>6. ASSUME NEW i \in 1 .. Len(s)
      PROVE  s[i].msg \in Said(Tail(s)) \cup {Head(s).msg}
  <2>1. CASE i = 1
    BY <1>1, <2>1
  <2>2. CASE i # 1
    <3>1. i - 1 \in 1 .. Len(Tail(s)) /\ Tail(s)[i - 1] = s[i]
      BY <1>1, <1>3, <2>2
    <3>2. QED
      BY <3>1 DEF Said
  <2>3. QED
    BY <2>1, <2>2
<1>7. QED
  BY <1>5, <1>6 DEF Said

\* Writing a header, or the other half of a string.
LEMMA PendingWrite ==
    ASSUME NEW s \in Seq(Chunk), NEW r, NEW m \in Msg
    PROVE  /\ Pending(Append(s, Header(m)), r, None) = Pending(s, r, None) \cup {m}
           /\ Pending(Append(s, Header(m)), r, m) = Pending(s, r, None) \cup {m}
           /\ Pending(Append(s, Body(m)), r, None) = Pending(s, r, m)
<1>1. /\ Said(Append(s, Header(m))) = Said(s) \cup {m}
      /\ Said(Append(s, Body(m))) = Said(s) \cup {m}
      /\ m # None
  BY ChunkTypes, AppendSaid, IpcAssumption
<1>2. QED
  BY <1>1 DEF Pending

\* The token is in a stream when it is among what was said in it.
LEMMA TokenIsSaid == ASSUME NEW s PROVE HasToken(s) <=> Token \in Said(s)
BY DEF HasToken, Said

(***************************************************************************)
(* The sender of a token that is still in flight has nothing to read and   *)
(* has read nothing half: it is quiet on its side until the other process  *)
(* has heard everything.                                                   *)
(***************************************************************************)
QuietBehindToken ==
    \A p \in Peers : TokenInFlight(Other(p)) => wire[p] = <<>> /\ rx[p] = None

\* Nothing is in flight at the start.
LEMMA InitQuiet == IpcInit => QuietBehindToken
BY OtherPeer DEF IpcInit, QuietBehindToken

\* Every step of a peer keeps the sender of a token in flight quiet.
LEMMA StepKeepsQuiet ==
    ASSUME TurnInv, QuietBehindToken, NEW p \in Peers, IpcStep(p)
    PROVE  QuietBehindToken'
<1> DEFINE q == Other(p)
<1>a. /\ q \in Peers /\ Other(q) = p /\ q # p /\ Peers = {p, q}
      /\ wire[p] \in Seq(Chunk) /\ wire[q] \in Seq(Chunk)
      /\ TokenOnlyLast(wire[p])
  BY OtherPeer DEF TurnInv, TypeOK
<1> HIDE DEF q
\* A peer that speaks sees no token behind or before it.
<1>b. MaySend(p) => /\ ~HasToken(wire[p]) /\ ~HasToken(wire[q])
                    /\ wire[p] = <<>> /\ rx[p] = None
  BY <1>a, TurnOfPeer DEF TurnInv, Turn, TokenInFlight, HalfDuplex, q
\* So what it writes to q is the only thing that can put a token there.
<1>c. ASSUME MaySend(p), wire'[p] = wire[p], rx'[p] = rx[p]
      PROVE  QuietBehindToken'
  <2>1. ~HasToken(wire'[p]) /\ wire'[p] = <<>> /\ rx'[p] = None
    BY <1>b, <1>c
  <2>2. \A o \in Peers : o = p \/ (o = q /\ Other(o) = p)
    BY <1>a
  <2>3. QED
    BY <2>1, <2>2 DEF QuietBehindToken, TokenInFlight, HasToken
\* Nobody reads behind its own token, and reading another chunk keeps the rest.
<1>d. ASSUME ~MaySend(p), wire[p] # <<>>, wire'[p] = Tail(wire[p]),
             wire'[q] = wire[q], rx'[q] = rx[q]
      PROVE  QuietBehindToken'
  <2>1. ~HasToken(wire[q])
    BY <1>a, <1>d DEF QuietBehindToken, TokenInFlight, q
  <2>2. HasToken(Tail(wire[p])) => HasToken(wire[p])
    BY <1>a, <1>d, TailOfStream
  <2>3. HasToken(Tail(wire[p])) => wire[q] = <<>> /\ rx[q] = None
    BY <1>a, <2>2 DEF QuietBehindToken, TokenInFlight
  <2>4. ~HasToken(wire'[q])
    BY <2>1, <1>d
  <2>5. HasToken(wire'[p]) => wire'[q] = <<>> /\ rx'[q] = None
    BY <2>3, <1>d
  <2>6. \A o \in Peers : (o = p /\ Other(o) = q) \/ (o = q /\ Other(o) = p)
    BY <1>a DEF q
  <2>7. QED
    BY <2>4, <2>5, <2>6 DEF QuietBehindToken, TokenInFlight, HasToken
<1>1. ASSUME NEW m \in Msg, SendMessage(p, m) PROVE QuietBehindToken'
  BY <1>1, <1>a, <1>c DEF SendMessage, TurnInv, TypeOK, q
<1>2. ASSUME NEW m \in WithBody, SendString(p, m) PROVE QuietBehindToken'
  BY <1>2, <1>a, <1>c DEF SendString, TurnInv, TypeOK, q
<1>3. ASSUME SendStringBody(p) PROVE QuietBehindToken'
  <2>1. MaySend(p)
    BY <1>3 DEF SendStringBody, TurnInv, MaySend
  <2>2. QED
    BY <1>3, <1>a, <1>c, <2>1 DEF SendStringBody, TurnInv, TypeOK, q
<1>4. ASSUME ReceiveHeader(p) PROVE QuietBehindToken'
  BY <1>4, <1>a, <1>d DEF ReceiveHeader, MayReceive, MaySend, TurnInv, TypeOK
<1>5. ASSUME NEW m \in Msg, ReceiveMessage(p, m) PROVE QuietBehindToken'
  BY <1>5, <1>a, <1>d DEF ReceiveMessage, Completes, MayReceive, MaySend, TurnInv, TypeOK
<1>6. ASSUME AbandonString(p) \/ Close(p) PROVE QuietBehindToken'
  BY <1>6 DEF AbandonString, Close, QuietBehindToken, TokenInFlight, HasToken
<1>7. QED
  BY <1>1, <1>2, <1>3, <1>4, <1>5, <1>6 DEF IpcStep

(***************************************************************************)
(* The kernel never buffers more than a pipe holds.                        *)
(***************************************************************************)
WithinCapacity == \A p \in Peers : Len(wire[p]) <= PipeCapacity

\* Two empty pipes.
LEMMA InitWithinCapacity == IpcInit => WithinCapacity
BY EmptySeq, IpcAssumption DEF IpcInit, WithinCapacity

\* A write waits for room, a read makes some.
LEMMA StepKeepsCapacity ==
    ASSUME TypeOK, WithinCapacity, NEW p \in Peers, IpcStep(p)
    PROVE  WithinCapacity'
<1> DEFINE q == Other(p)
<1>a. /\ q \in Peers /\ q # p /\ Peers = {p, q}
      /\ wire[p] \in Seq(Chunk) /\ wire[q] \in Seq(Chunk)
      /\ wire \in [Peers -> Seq(Chunk)]
      /\ Len(wire[p]) \in Nat /\ Len(wire[q]) \in Nat
      /\ PipeCapacity \in Nat
  BY OtherPeer, LenProperties, IpcAssumption DEF TypeOK
<1> HIDE DEF q
<1>b. ASSUME NEW c \in Chunk
      PROVE  /\ Append(wire[q], c) \in Seq(Chunk)
             /\ Len(Append(wire[q], c)) = Len(wire[q]) + 1
  BY <1>a, AppendProperties
<1>c. wire[p] # <<>> => Len(Tail(wire[p])) = Len(wire[p]) - 1
  BY <1>a, HeadTailProperties
<1>1. ASSUME NEW m \in Msg, SendMessage(p, m) PROVE WithinCapacity'
  <2>1. CASE m \in WithBody
    <3>1. Len(Append(Append(wire[q], Header(m)), Body(m))) = Len(wire[q]) + 2
      BY <1>a, <1>b, ChunkTypes, AppendProperties
    <3>2. /\ wire'[q] = Append(Append(wire[q], Header(m)), Body(m))
          /\ wire'[p] = wire[p] /\ Len(wire[q]) + 2 <= PipeCapacity
      BY <1>1, <1>a, <2>1 DEF SendMessage, Writable, q
    <3>3. QED
      BY <1>a, <3>1, <3>2 DEF WithinCapacity
  <2>2. CASE m \notin WithBody
    <3>1. Len(Append(wire[q], Header(m))) = Len(wire[q]) + 1
      BY <1>b, ChunkTypes
    <3>2. /\ wire'[q] = Append(wire[q], Header(m))
          /\ wire'[p] = wire[p] /\ Len(wire[q]) + 1 <= PipeCapacity
      BY <1>1, <1>a, <2>2 DEF SendMessage, Writable, q
    <3>3. QED
      BY <1>a, <3>1, <3>2 DEF WithinCapacity
  <2>3. QED
    BY <2>1, <2>2
<1>2. ASSUME NEW m \in WithBody, SendString(p, m) PROVE WithinCapacity'
  <2>1. Len(Append(wire[q], Header(m))) = Len(wire[q]) + 1
    BY <1>b, ChunkTypes, IpcAssumption
  <2>2. /\ wire'[q] = Append(wire[q], Header(m))
        /\ wire'[p] = wire[p] /\ Len(wire[q]) + 1 <= PipeCapacity
    BY <1>2, <1>a DEF SendString, Writable, q
  <2>3. QED
    BY <1>a, <2>1, <2>2 DEF WithinCapacity
<1>3. ASSUME SendStringBody(p) PROVE WithinCapacity'
  <2>1. tx[p] \in Msg
    BY <1>3, IpcAssumption DEF SendStringBody, TypeOK
  <2>2. Len(Append(wire[q], Body(tx[p]))) = Len(wire[q]) + 1
    BY <1>b, <2>1, ChunkTypes
  <2>3. /\ wire'[q] = Append(wire[q], Body(tx[p]))
        /\ wire'[p] = wire[p] /\ Len(wire[q]) + 1 <= PipeCapacity
    BY <1>3, <1>a DEF SendStringBody, q
  <2>4. QED
    BY <1>a, <2>2, <2>3 DEF WithinCapacity
<1>4. ASSUME ReceiveHeader(p) \/ \E m \in Msg : ReceiveMessage(p, m) PROVE WithinCapacity'
  <2>1. wire[p] # <<>> /\ wire'[p] = Tail(wire[p]) /\ wire'[q] = wire[q]
    BY <1>4, <1>a DEF ReceiveHeader, ReceiveMessage, Completes
  <2>2. QED
    BY <1>a, <1>c, <2>1 DEF WithinCapacity
<1>5. ASSUME AbandonString(p) \/ Close(p) PROVE WithinCapacity'
  BY <1>5 DEF AbandonString, Close, WithinCapacity
<1>6. QED
  BY <1>1, <1>2, <1>3, <1>4, <1>5 DEF IpcStep

-----------------------------------------------------------------------------
(***************************************************************************)
(* What a program that uses the layer may conclude from each of its calls, *)
(* when the stream to q is right (E, f) and accepts the messages W.        *)
(***************************************************************************)
\* A process that may speak, or that reads, finds nothing in the other direction.
LEMMA OneDirection ==
    ASSUME TurnInv, QuietBehindToken, NEW p \in Peers, NEW q \in Peers, q = Other(p),
           MaySend(p) \/ (MayReceive(q) /\ wire[q] # <<>>)
    PROVE  /\ ~MaySend(q) /\ tx[q] = None
           /\ wire[p] = <<>> /\ rx[p] = None
           /\ ~TokenInFlight(p)
           /\ MaySend(p) => ~TokenInFlight(q)
<1>1. /\ Turn(p) # Turn(q) /\ p = Other(q)
      /\ ~(MaySend(p) /\ TokenInFlight(p)) /\ ~(MaySend(q) /\ TokenInFlight(q))
  BY OtherPeer, TurnOfPeer DEF TurnInv
<1>2. ~MaySend(q)
  BY <1>1 DEF Turn, MaySend, MayReceive
<1>3. tx[q] = None
  BY <1>2 DEF TurnInv, MaySend
<1>4. MaySend(p) => /\ wire[p] = <<>> /\ rx[p] = None
                    /\ ~TokenInFlight(p) /\ ~TokenInFlight(q)
  BY <1>1 DEF Turn, TurnInv, HalfDuplex
<1>5. ASSUME ~MaySend(p), wire[q] # <<>>
      PROVE  wire[p] = <<>> /\ rx[p] = None /\ ~TokenInFlight(p)
  <2>1. ~TokenInFlight(p)
    BY <1>1, <1>5 DEF QuietBehindToken
  <2>2. TokenInFlight(q)
    BY <1>1, <1>2, <1>5, <2>1 DEF Turn
  <2>3. QED
    BY <2>1, <2>2 DEF QuietBehindToken
<1>6. QED
  BY <1>2, <1>3, <1>4, <1>5

\* Nothing is on its way where nothing was written, read half or written half.
LEMMA NothingPending == Pending(<<>>, None, None) = {}
BY NothingSaid DEF Pending

\* What a send writes for the other peer.
LEMMA SendChunks ==
    ASSUME TurnInv, NEW p \in Peers, NEW q \in Peers, q # p,
           NEW m \in Msg, SendMessage(p, m) \/ SendString(p, m)
    PROVE  \/ /\ wire'[q] = Append(wire[q], Header(m))
              /\ tx'[p] = IF m \in WithBody THEN m ELSE None
           \/ /\ m \in WithBody /\ tx'[p] = None
              /\ wire'[q] = Append(Append(wire[q], Header(m)), Body(m))
<1>1. q = Other(p)
  BY DEF Peers, Other
<1>2. wire \in [Peers -> Seq(Chunk)] /\ tx \in [Peers -> WithBody \cup {None}]
  BY DEF TurnInv, TypeOK
<1>3. CASE SendString(p, m)
  BY <1>1, <1>2, <1>3 DEF SendString
<1>4. CASE SendMessage(p, m)
  BY <1>1, <1>2, <1>4 DEF SendMessage, Writable
<1>5. QED
  BY <1>3, <1>4

\* Afterwards it is said, and on its way with all that was on its way before.
LEMMA SendSaid ==
    ASSUME TurnInv, NEW p \in Peers, NEW q \in Peers, q # p,
           NEW m \in Msg, SendMessage(p, m) \/ SendString(p, m)
    PROVE  /\ Said(wire'[q]) = Said(wire[q]) \cup {m}
           /\ Pending(wire'[q], rx'[q], tx'[p])
              = Pending(wire[q], rx[q], tx[p]) \cup {m}
<1>1. /\ wire[q] \in Seq(Chunk) /\ m # None /\ rx' = rx /\ tx[p] = None
  BY IpcAssumption DEF TurnInv, TypeOK, SendMessage, SendString, Writable
<1> DEFINE h == Append(wire[q], Header(m))
<1>2. /\ h \in Seq(Chunk)
      /\ Said(h) = Said(wire[q]) \cup {m}
      /\ Said(Append(h, Body(m))) = Said(h) \cup {m}
  <2>1. /\ Header(m) \in Chunk /\ Body(m) \in Chunk
        /\ Header(m).msg = m /\ Body(m).msg = m
    BY ChunkTypes
  <2>2. h \in Seq(Chunk) /\ Said(h) = Said(wire[q]) \cup {m}
    BY <1>1, <2>1, AppendSaid, AppendProperties
  <2> HIDE DEF h
  <2>3. Said(Append(h, Body(m))) = Said(h) \cup {m}
    BY <2>1, <2>2, AppendSaid
  <2>4. QED
    BY <2>2, <2>3
<1>3. \/ wire'[q] = h /\ tx'[p] = IF m \in WithBody THEN m ELSE None
      \/ m \in WithBody /\ wire'[q] = Append(h, Body(m)) /\ tx'[p] = None
  BY SendChunks
<1> HIDE DEF h
<1>4. Said(wire'[q]) = Said(wire[q]) \cup {m}
  BY <1>2, <1>3
<1>5. tx'[p] \in {None, m} /\ rx'[q] = rx[q]
  BY <1>1, <1>3
<1>6. QED
  BY <1>1, <1>4, <1>5 DEF Pending

\* uade_send_message(), or the first half of uade_send_string(): the turn.
LEMMA SendEffect ==
    ASSUME TurnInv, QuietBehindToken, NEW p \in Peers, NEW q \in Peers, q # p,
           NEW m \in Msg, SendMessage(p, m) \/ SendString(p, m)
    PROVE  /\ open[p] /\ open[q] /\ open' = open
           /\ MaySend(p) /\ ~MaySend(q) /\ ~MaySend(q)' /\ (MaySend(p)' <=> m # Token)
           /\ wire[p] = <<>> /\ wire'[p] = <<>> /\ rx[p] = None /\ rx' = rx
           /\ tx[p] = None /\ tx[q] = None /\ tx'[q] = None
           /\ ~TokenInFlight(p) /\ ~TokenInFlight(p)'
           /\ ~TokenInFlight(q) /\ (TokenInFlight(q)' <=> m = Token)
<1>0. q = Other(p) /\ p = Other(q)
  BY DEF Peers, Other
<1>1. /\ p # q /\ wire[q] \in Seq(Chunk) /\ m # None
      /\ state \in [Peers -> {"INITIAL", "R", "S"}]
      /\ wire \in [Peers -> Seq(Chunk)]
      /\ tx \in [Peers -> WithBody \cup {None}]
  BY OtherPeer, IpcAssumption DEF TurnInv, TypeOK
<1>2. /\ open[p] /\ open[q] /\ open' = open /\ rx' = rx
      /\ MaySend(p) /\ tx[p] = None
      /\ m \in WithBody => m # Token
  BY <1>0, IpcAssumption DEF SendMessage, SendString, Writable
<1>3. /\ ~MaySend(q) /\ tx[q] = None
      /\ wire[p] = <<>> /\ rx[p] = None
      /\ ~TokenInFlight(p) /\ ~TokenInFlight(q)
  BY <1>0, <1>2, OneDirection
<1>4. /\ wire'[p] = <<>> /\ tx'[q] = None
      /\ state'[p] = StateAfterSend(m) /\ state'[q] = state[q]
  BY <1>0, <1>1, <1>2, <1>3 DEF SendMessage, SendString, StateAfterSend
<1>5. ~MaySend(q)' /\ (MaySend(p)' <=> m # Token)
  BY <1>3, <1>4 DEF MaySend, StateAfterSend
<1>6. ~TokenInFlight(p)'
  BY <1>4, EmptyHasNoToken DEF TokenInFlight, HasToken
<1>7. TokenInFlight(q)' <=> m = Token
  <2>1. Said(wire'[q]) = Said(wire[q]) \cup {m}
    BY SendSaid
  <2>2. Token \notin Said(wire[q])
    BY <1>3, TokenIsSaid DEF TokenInFlight
  <2>3. QED
    BY <2>1, <2>2, TokenIsSaid DEF TokenInFlight, HasToken
<1>8. QED
  BY <1>2, <1>3, <1>4, <1>5, <1>6, <1>7

\* A message that may come next leaves a stream its reader can follow.
LEMMA SendFits ==
    ASSUME TurnInv, NEW p \in Peers, NEW q \in Peers, q # p,
           NEW m \in Msg, SendMessage(p, m) \/ SendString(p, m),
           NEW E \in SUBSET Msg, NEW f \in [Msg -> SUBSET Msg],
           NEW W \in SUBSET Msg, m \in W,
           Talks(wire[q], rx[q], E, f), Accepts(wire[q], rx[q], tx[p], E, f, W)
    PROVE  /\ Talks(wire'[q], rx'[q], E, f)
           /\ \A V : V \subseteq f[m] => Accepts(wire'[q], rx'[q], tx'[p], E, f, V)
<1>1. /\ wire[q] \in Seq(Chunk) /\ m # None /\ rx' = rx /\ tx[p] = None
      /\ tx \in [Peers -> WithBody \cup {None}]
  BY IpcAssumption DEF TurnInv, TypeOK, SendMessage, SendString, Writable
<1> DEFINE h == Append(wire[q], Header(m))
<1>2. /\ h \in Seq(Chunk) /\ Talks(h, rx[q], E, f)
      /\ \A V : V \subseteq f[m]
                => Accepts(h, rx[q], IF m \in WithBody THEN m ELSE None, E, f, V)
  BY <1>1, WriteHeader
<1>3. \/ wire'[q] = h /\ tx'[p] = IF m \in WithBody THEN m ELSE None
      \/ m \in WithBody /\ wire'[q] = Append(h, Body(m)) /\ tx'[p] = None
  BY <1>1, SendChunks
<1> HIDE DEF h
<1>4. CASE wire'[q] = h /\ tx'[p] = IF m \in WithBody THEN m ELSE None
  BY <1>1, <1>2, <1>4
<1>5. CASE m \in WithBody /\ wire'[q] = Append(h, Body(m)) /\ tx'[p] = None
  <2>1. /\ Talks(Append(h, Body(m)), rx[q], E, f)
        /\ \A V : V \subseteq f[m] => Accepts(Append(h, Body(m)), rx[q], None, E, f, V)
    BY <1>2, <1>5, WriteBody
  <2>2. QED
    BY <1>1, <1>5, <2>1
<1>6. QED
  BY <1>3, <1>4, <1>5

\* The second half of uade_send_string().
LEMMA BodyEffect ==
    ASSUME TurnInv, QuietBehindToken, NEW p \in Peers, NEW q \in Peers, q # p,
           NEW E \in SUBSET Msg, NEW f \in [Msg -> SUBSET Msg], NEW W,
           SendStringBody(p), Talks(wire[q], rx[q], E, f),
           Accepts(wire[q], rx[q], tx[p], E, f, W)
    PROVE  /\ open[p] /\ open[q] /\ open' = open /\ state' = state /\ rx' = rx
           /\ MaySend(p) /\ wire'[p] = wire[p]
           /\ tx'[p] = None /\ tx'[q] = tx[q]
           /\ TokenInFlight(q)' = TokenInFlight(q)
           /\ Talks(wire'[q], rx'[q], E, f)
           /\ Accepts(wire'[q], rx'[q], tx'[p], E, f, W)
           /\ Pending(wire'[q], rx'[q], tx'[p]) = Pending(wire[q], rx[q], tx[p])
<1>0. q = Other(p) /\ p = Other(q)
  BY DEF Peers, Other
<1>1. /\ p # q /\ wire[q] \in Seq(Chunk)
      /\ wire \in [Peers -> Seq(Chunk)]
      /\ tx \in [Peers -> WithBody \cup {None}]
  BY OtherPeer DEF TurnInv, TypeOK
<1>2. /\ open[p] /\ open[q] /\ open' = open /\ rx' = rx /\ state' = state
      /\ wire'[q] = Append(wire[q], Body(tx[p])) /\ wire'[p] = wire[p]
      /\ tx'[p] = None /\ tx'[q] = tx[q]
      /\ tx[p] \in WithBody
  BY <1>0, <1>1 DEF SendStringBody
<1>3. MaySend(p) /\ tx[p] \in Msg /\ tx[p] # Token
  BY <1>2, IpcAssumption DEF TurnInv, MaySend
<1>4. Said(wire'[q]) = Said(wire[q]) \cup {tx[p]} /\ ~TokenInFlight(q)
  BY <1>1, <1>2, <1>3, ChunkTypes, AppendSaid, <1>0, OneDirection
<1>5. TokenInFlight(q)' = TokenInFlight(q)
  BY <1>3, <1>4, TokenIsSaid DEF TokenInFlight, HasToken
<1>6. /\ Talks(Append(wire[q], Body(tx[p])), rx[q], E, f)
      /\ Accepts(Append(wire[q], Body(tx[p])), rx[q], None, E, f, W)
  BY <1>1, <1>2, WriteBody
<1>7. Pending(Append(wire[q], Body(tx[p])), rx[q], None) = Pending(wire[q], rx[q], tx[p])
  BY <1>1, <1>3, PendingWrite
<1>8. QED
  BY <1>2, <1>3, <1>5, <1>6, <1>7

\* uade_receive_message() reads a header and has to wait for the body.
LEMMA HeaderEffect ==
    ASSUME TurnInv, QuietBehindToken, NEW p \in Peers, NEW q \in Peers, q # p,
           NEW E \in SUBSET Msg, NEW f \in [Msg -> SUBSET Msg],
           ReceiveHeader(p), Talks(wire[p], rx[p], E, f)
    PROVE  /\ open[p] /\ open' = open /\ tx' = tx
           /\ ~MaySend(p) /\ ~MaySend(p)' /\ (MaySend(q)' <=> MaySend(q))
           /\ wire'[q] = wire[q] /\ rx'[q] = rx[q]
           /\ TokenInFlight(p)' = TokenInFlight(p)
           /\ TokenInFlight(q)' = TokenInFlight(q)
           /\ Talks(wire'[p], rx'[p], E, f)
           /\ \A t, W : Accepts(wire[p], rx[p], t, E, f, W)
                        => Accepts(wire'[p], rx'[p], t, E, f, W)
           /\ \A t : Pending(wire'[p], rx'[p], t) = Pending(wire[p], rx[p], t)
<1>0. q = Other(p) /\ p = Other(q)
  BY DEF Peers, Other
<1>1. /\ p # q /\ wire[p] \in Seq(Chunk) /\ TokenOnlyLast(wire[p])
      /\ state \in [Peers -> {"INITIAL", "R", "S"}]
      /\ wire \in [Peers -> Seq(Chunk)]
      /\ rx \in [Peers -> WithBody \cup {None}]
  BY OtherPeer DEF TurnInv, TypeOK
<1>2. /\ open[p] /\ open' = open /\ tx' = tx /\ MayReceive(p)
      /\ state'[p] = "R" /\ state'[q] = state[q]
      /\ wire[p] # <<>> /\ wire'[p] = Tail(wire[p]) /\ wire'[q] = wire[q]
      /\ rx[p] = None /\ rx'[p] = Head(wire[p]).msg /\ rx'[q] = rx[q]
      /\ Head(wire[p]).msg \in WithBody
  BY <1>1 DEF ReceiveHeader
<1>3. Head(wire[p]).msg # Token /\ Head(wire[p]).msg # None
  BY <1>2, IpcAssumption
<1>4. ~MaySend(p) /\ ~MaySend(p)' /\ (MaySend(q)' <=> MaySend(q))
  BY <1>2 DEF MayReceive, MaySend
<1>5. HasToken(Tail(wire[p])) <=> HasToken(wire[p])
  BY <1>1, <1>2, <1>3, TailOfStream
<1>6. /\ TokenInFlight(p)' = TokenInFlight(p)
      /\ TokenInFlight(q)' = TokenInFlight(q)
  BY <1>2, <1>5 DEF TokenInFlight, HasToken
<1>7. /\ Talks(Tail(wire[p]), Head(wire[p]).msg, E, f)
      /\ \A t, W : Accepts(wire[p], None, t, E, f, W)
                   => Accepts(Tail(wire[p]), Head(wire[p]).msg, t, E, f, W)
  BY <1>1, <1>2, ReadHeader
<1>8. ASSUME NEW t
      PROVE  Pending(wire'[p], rx'[p], t) = Pending(wire[p], rx[p], t)
  <2>1. Said(wire[p]) = Said(Tail(wire[p])) \cup {Head(wire[p]).msg}
    BY <1>1, <1>2, TailSaid
  <2>2. QED
    BY <1>2, <1>3, <2>1 DEF Pending
<1>9. QED
  BY <1>2, <1>4, <1>6, <1>7, <1>8

\* uade_receive_message() returns message m: who may speak then.
LEMMA ReceiveEffect ==
    ASSUME TurnInv, QuietBehindToken, NEW p \in Peers, NEW q \in Peers, q # p,
           NEW m \in Msg, ReceiveMessage(p, m)
    PROVE  /\ open[p] /\ open' = open /\ tx' = tx /\ tx[p] = None
           /\ ~MaySend(p) /\ (MaySend(p)' <=> m = Token)
           /\ (MaySend(q)' <=> MaySend(q))
           /\ wire[q] = <<>> /\ wire'[q] = <<>> /\ rx[q] = None /\ rx'[q] = None
           /\ ~TokenInFlight(q) /\ ~TokenInFlight(q)'
           /\ (TokenInFlight(p)' <=> TokenInFlight(p) /\ m # Token)
           /\ m = Token => /\ TokenInFlight(p) /\ ~MaySend(q) /\ tx[q] = None
                           /\ wire'[p] = <<>> /\ rx'[p] = None
<1>0. q = Other(p) /\ p = Other(q)
  BY DEF Peers, Other
<1>1. /\ p # q /\ wire[p] \in Seq(Chunk) /\ TokenOnlyLast(wire[p])
      /\ state \in [Peers -> {"INITIAL", "R", "S"}]
      /\ wire \in [Peers -> Seq(Chunk)]
      /\ rx \in [Peers -> WithBody \cup {None}]
  BY OtherPeer DEF TurnInv, TypeOK
<1>2. /\ open[p] /\ open' = open /\ tx' = tx /\ MayReceive(p)
      /\ state'[p] = StateAfterReceive(m) /\ state'[q] = state[q]
      /\ wire[p] # <<>> /\ wire'[p] = Tail(wire[p]) /\ wire'[q] = wire[q]
      /\ rx'[p] = None /\ rx'[q] = rx[q]
      /\ Head(wire[p]).msg = m
  BY <1>1 DEF ReceiveMessage, Completes
<1>3. ~MaySend(p) /\ (MaySend(p)' <=> m = Token) /\ (MaySend(q)' <=> MaySend(q))
  BY <1>2 DEF MayReceive, MaySend, StateAfterReceive
<1>4. tx[p] = None /\ wire[q] = <<>> /\ rx[q] = None /\ ~TokenInFlight(q)
  BY <1>0, <1>1, <1>2, OneDirection
<1>5. /\ m = Token => Tail(wire[p]) = <<>> /\ HasToken(wire[p])
      /\ m # Token => (HasToken(Tail(wire[p])) <=> HasToken(wire[p]))
  BY <1>1, <1>2, TailOfStream
<1>6. /\ TokenInFlight(p)' <=> TokenInFlight(p) /\ m # Token
      /\ ~TokenInFlight(q)'
  BY <1>2, <1>4, <1>5, EmptyHasNoToken DEF TokenInFlight, HasToken
<1>7. m = Token => TokenInFlight(p) /\ ~MaySend(q) /\ tx[q] = None
  <2> SUFFICES ASSUME m = Token PROVE TokenInFlight(p) /\ ~MaySend(q) /\ tx[q] = None
    OBVIOUS
  <2>1. TokenInFlight(p)
    BY <1>5 DEF TokenInFlight
  <2>2. ~MaySend(q)
    BY <1>0, <1>1, <2>1, OneDirection
  <2>3. QED
    BY <2>1, <2>2 DEF TurnInv, MaySend
<1>8. QED
  BY <1>2, <1>3, <1>4, <1>5, <1>6, <1>7

\* It is a message the reader expects, and leaves what may follow it.
LEMMA ReceiveFits ==
    ASSUME TurnInv, NEW p \in Peers, NEW m \in Msg, ReceiveMessage(p, m),
           NEW E \in SUBSET Msg, NEW f \in [Msg -> SUBSET Msg],
           Talks(wire[p], rx[p], E, f)
    PROVE  /\ m \in E
           /\ \A E2 : f[m] \subseteq E2 =>
                /\ Talks(wire'[p], rx'[p], E2, f)
                /\ \A t, W : Accepts(wire[p], rx[p], t, E, f, W)
                             => Accepts(wire'[p], rx'[p], t, E2, f, W)
<1>1. wire[p] \in Seq(Chunk) /\ wire \in [Peers -> Seq(Chunk)] /\ rx \in [Peers -> WithBody \cup {None}]
  BY DEF TurnInv, TypeOK
<1> DEFINE h == Head(wire[p])
<1>2. /\ wire[p] # <<>> /\ wire'[p] = Tail(wire[p]) /\ rx'[p] = None
      /\ h.msg = m /\ h.msg \in Msg
      /\ rx[p] = None \/ rx[p] = h.msg
      /\ rx[p] = None => h.msg \notin WithBody
  BY <1>1 DEF ReceiveMessage, Completes
<1>3. h.msg \in E
  BY <1>1, <1>2, ReadMessage
<1>4. ASSUME NEW E2, f[m] \subseteq E2
      PROVE  /\ Talks(wire'[p], rx'[p], E2, f)
             /\ \A t, W : Accepts(wire[p], rx[p], t, E, f, W)
                          => Accepts(wire'[p], rx'[p], t, E2, f, W)
  <2>1. f[h.msg] \subseteq E2
    BY <1>2, <1>4
  <2>2. /\ Talks(Tail(wire[p]), None, E2, f)
        /\ \A t, W : Accepts(wire[p], rx[p], t, E, f, W)
                     => Accepts(Tail(wire[p]), None, t, E2, f, W)
    BY <1>1, <1>2, <2>1, ReadMessage
  <2>3. QED
    BY <1>2, <2>2
<1>5. QED
  BY <1>2, <1>3, <1>4

\* Nothing else that was on its way is gone.
LEMMA ReceivePending ==
    ASSUME TurnInv, NEW p \in Peers, NEW m \in Msg, ReceiveMessage(p, m)
    PROVE  \A t : /\ m \in Pending(wire[p], rx[p], t)
                  /\ Pending(wire'[p], rx'[p], t) \subseteq Pending(wire[p], rx[p], t)
                  /\ Pending(wire[p], rx[p], t) \subseteq Pending(wire'[p], rx'[p], t) \cup {m}
<1>1. wire[p] \in Seq(Chunk) /\ wire \in [Peers -> Seq(Chunk)] /\ rx \in [Peers -> WithBody \cup {None}]
  BY DEF TurnInv, TypeOK
<1>2. /\ wire[p] # <<>> /\ wire'[p] = Tail(wire[p]) /\ rx'[p] = None
      /\ Head(wire[p]).msg = m /\ (rx[p] = None \/ rx[p] = m)
  BY <1>1 DEF ReceiveMessage, Completes
<1>3. Said(wire[p]) = Said(Tail(wire[p])) \cup {m}
  BY <1>1, <1>2, TailSaid
<1>4. QED
  BY <1>2, <1>3 DEF Pending

\* An empty stream accepts what its reader expects and nothing else.
LEMMA EmptyStream ==
    ASSUME NEW E, NEW f, NEW W
    PROVE  /\ Talks(<<>>, None, E, f)
           /\ W \subseteq E => Accepts(<<>>, None, None, E, f, W)
<1>1. Talks(<<>>, None, E, f)
  BY EmptyFits DEF Talks
<1>2. W \subseteq E => Accepts(<<>>, None, None, E, f, W)
  BY DEF Accepts, Ahead, Due, Headers
<1>3. QED
  BY <1>1, <1>2

LEMMA EmptyStreamOnly ==
    ASSUME NEW r, NEW E, NEW f, NEW W, Accepts(<<>>, r, None, E, f, W),
           NEW m \in W
    PROVE  r = None /\ m \in E
<1>1. Header(m) \in Due(r, E)
  BY DEF Accepts, Ahead, Headers
<1>2. r = None
  BY <1>1 DEF Due, Header, Body
<1>3. PICK n \in E : Header(m) = Header(n)
  BY <1>1, <1>2 DEF Due, Headers
<1>4. Header(m).msg = m /\ Header(n).msg = n
  BY DEF Header
<1>5. QED
  BY <1>2, <1>3, <1>4

\* What comes next in a stream is what its reader expects.
LEMMA NextExpected ==
    ASSUME NEW s \in Seq(Chunk), s # <<>>, NEW E, NEW f, Talks(s, None, E, f)
    PROVE  Head(s).msg \in E
<1>1. Head(s) \in Headers(E)
  BY TailFits DEF Talks, Due
<1>2. PICK m \in E : Head(s) = Header(m)
  BY <1>1 DEF Headers
<1>3. QED
  BY <1>2 DEF Header

-----------------------------------------------------------------------------
(***************************************************************************)
(* The streams implement TurnTaking.  Its `said' is what the headers that  *)
(* are not read yet announce, after the message read half; no step between *)
(* the first and the last chunk of a message is noticed in it.             *)
(***************************************************************************)

\* Headers are counted from the start of the stream, and each has its number.
LEMMA RankIs ==
    ASSUME NEW s \in Seq(Chunk)
    PROVE  /\ IsFiniteSet(HeadersOf(s)) /\ HeadersOf(s) \subseteq 1 .. Len(s)
           /\ Cardinality(HeadersOf(s)) \in Nat
           /\ \A i \in HeadersOf(s) : Rank(s, i) \in 1 .. Cardinality(HeadersOf(s))
           /\ \A i, j \in HeadersOf(s) : i < j => Rank(s, i) < Rank(s, j)
<1> DEFINE H == HeadersOf(s)
           Upto(i) == {j \in H : j <= i}
<1>1. DOMAIN s = 1 .. Len(s) /\ Len(s) \in Nat
  BY LenProperties
<1>2. H \subseteq 1 .. Len(s) /\ IsFiniteSet(1 .. Len(s))
  BY <1>1, FS_Interval DEF HeadersOf
<1>3. IsFiniteSet(H) /\ Cardinality(H) \in Nat
  BY <1>2, FS_Subset, FS_CardinalityType
<1>4. \A i : Rank(s, i) = Cardinality(Upto(i))
  BY DEF Rank
<1> HIDE DEF H
<1>5. \A i : IsFiniteSet(Upto(i)) /\ Cardinality(Upto(i)) \in Nat /\ Cardinality(Upto(i)) <= Cardinality(H)
  <2> TAKE i
  <2>1. Upto(i) \in SUBSET H
    OBVIOUS
  <2> HIDE DEF Upto
  <2> QED BY <1>3, <2>1, FS_Subset, FS_CardinalityType
<1>6. ASSUME NEW i \in H PROVE Cardinality(Upto(i)) \in 1 .. Cardinality(H)
  <2>1. Upto(i) # {}
    BY <1>2
  <2> HIDE DEF Upto
  <2>2. Cardinality(Upto(i)) # 0
    BY <1>5, <2>1, FS_EmptySet
  <2> QED BY <1>3, <1>5, <2>2
<1>7. ASSUME NEW i \in H, NEW j \in H, i < j PROVE Cardinality(Upto(i)) < Cardinality(Upto(j))
  <2>1. Upto(i) \in SUBSET Upto(j) /\ j \in Upto(j) /\ j \notin Upto(i)
    <3>1. Len(s) \in Nat /\ \A x \in H : x \in Int
      BY <1>1, <1>2
    <3>2. \A x \in H : x <= i => x <= j
      BY <1>7, <3>1
    <3>3. ~(j <= i) /\ j <= j
      BY <1>7, <3>1
    <3> QED BY <3>2, <3>3
  <2>2. Upto(i) # Upto(j)
    BY <2>1
  <2> HIDE DEF Upto
  <2>3. Cardinality(Upto(i)) <= Cardinality(Upto(j)) /\ Cardinality(Upto(i)) # Cardinality(Upto(j))
    BY <1>5, <2>1, <2>2, FS_Subset
  <2> QED BY <1>5, <2>3
<1> HIDE DEF Upto
<1>8. /\ \A i \in H : Rank(s, i) \in 1 .. Cardinality(H)
      /\ \A i, j \in H : i < j => Rank(s, i) < Rank(s, j)
  BY <1>4, <1>6, <1>7
<1> QED BY <1>2, <1>3, <1>8 DEF H

LEMMA RankExists ==
    ASSUME NEW s \in Seq(Chunk), NEW k \in 1 .. Cardinality(HeadersOf(s))
    PROVE  \E i \in HeadersOf(s) : Rank(s, i) = k
<1> DEFINE H == HeadersOf(s)
           n == Cardinality(H)
           f == [i \in H |-> Rank(s, i)]
<1>1. /\ IsFiniteSet(H) /\ H \subseteq 1 .. Len(s) /\ n \in Nat
      /\ \A i \in H : Rank(s, i) \in 1 .. n
      /\ \A i, j \in H : i < j => Rank(s, i) < Rank(s, j)
  BY RankIs
<1>2. Len(s) \in Nat
  BY LenProperties
<1>3. IsFiniteSet(1 .. n) /\ Cardinality(1 .. n) = n
  BY <1>1, FS_Interval
<1> HIDE DEF H, n
<1>4. \A i, j \in H : Rank(s, i) = Rank(s, j) => i = j
  <2> SUFFICES ASSUME NEW i \in H, NEW j \in H, Rank(s, i) = Rank(s, j), i # j PROVE FALSE
    OBVIOUS
  <2>1. i < j \/ j < i
    BY <1>1, <1>2
  <2>2. Rank(s, i) < Rank(s, j) \/ Rank(s, j) < Rank(s, i)
    BY <1>1, <2>1
  <2>3. Rank(s, i) \in Int /\ Rank(s, j) \in Int
    BY <1>1
  <2> QED BY <2>2, <2>3
<1>5. f \in Injection(H, 1 .. n)
  BY <1>1, <1>4 DEF Injection, IsInjective
<1>6. f \in Surjection(H, 1 .. n)
  <2> HIDE DEF f
  <2>1. Cardinality(H) = Cardinality(1 .. n)
    BY <1>3 DEF n
  <2> QED BY <1>3, <1>5, <2>1, FS_Injection
<1>7. k \in 1 .. n
  BY DEF n, H
<1> QED BY <1>6, <1>7 DEF Surjection, H

\* The messages of a stream are those of its headers.
LEMMA MessagesAre ==
    ASSUME NEW s \in Seq(Chunk)
    PROVE  /\ MessagesOf(s) \in Seq(Msg) /\ Len(MessagesOf(s)) = Cardinality(HeadersOf(s))
           /\ \A i \in HeadersOf(s) : MessagesOf(s)[Rank(s, i)] = s[i].msg
<1> DEFINE H == HeadersOf(s)
           n == Cardinality(H)
           At(k) == CHOOSE i \in H : Rank(s, i) = k
<1>1. /\ H \subseteq 1 .. Len(s) /\ n \in Nat
      /\ \A i \in H : Rank(s, i) \in 1 .. n
      /\ \A i, j \in H : i < j => Rank(s, i) < Rank(s, j)
  BY RankIs
<1>2. Len(s) \in Nat /\ \A i \in 1 .. Len(s) : s[i] \in Chunk
  BY LenProperties
<1>3. MessagesOf(s) = [k \in 1 .. n |-> s[At(k)].msg]
  BY DEF MessagesOf
<1>4. \A k \in 1 .. n : At(k) \in H /\ Rank(s, At(k)) = k
  BY RankExists
<1> HIDE DEF H, n, At
<1>5. \A k \in 1 .. n : s[At(k)].msg \in Msg
  BY <1>1, <1>2, <1>4 DEF Chunk
<1>6. MessagesOf(s) \in Seq(Msg)
  BY <1>1, <1>3, <1>5
<1>7. Len(MessagesOf(s)) = n
  BY <1>1, <1>3, <1>6, LenProperties
<1>8. ASSUME NEW i \in H PROVE MessagesOf(s)[Rank(s, i)] = s[i].msg
  <2>1. Rank(s, i) \in 1 .. n
    BY <1>1
  <2>2. At(Rank(s, i)) \in H /\ Rank(s, At(Rank(s, i))) = Rank(s, i)
    BY <1>4, <2>1
  <2>3. At(Rank(s, i)) = i
    <3> DEFINE j == At(Rank(s, i))
    <3>1. j \in H /\ Rank(s, j) = Rank(s, i)
      BY <2>2
    <3> HIDE DEF j
    <3>2. j < i => Rank(s, j) < Rank(s, i)
      BY <1>1, <3>1
    <3>3. i < j => Rank(s, i) < Rank(s, j)
      BY <1>1, <3>1
    <3>4. ~(j < i) /\ ~(i < j)
      BY <1>1, <2>1, <3>1, <3>2, <3>3
    <3>5. j = i
      BY <1>1, <1>2, <3>1, <3>4
    <3> QED BY <3>5 DEF j
  <2> QED BY <1>3, <2>1, <2>3
<1> QED BY <1>6, <1>7, <1>8 DEF H, n

LEMMA NoMessages == MessagesOf(<<>>) = <<>> /\ <<>> \in Seq(Chunk)
<1>1. <<>> \in Seq(Chunk) /\ Len(<<>>) = 0
  BY EmptySeq
<1>2. HeadersOf(<<>>) = {}
  <2>1. HeadersOf(<<>>) \subseteq 1 .. 0
    BY <1>1, RankIs
  <2> QED BY <2>1
<1>3. MessagesOf(<<>>) \in Seq(Msg) /\ Len(MessagesOf(<<>>)) = 0
  BY <1>1, <1>2, MessagesAre, FS_EmptySet
<1> QED BY <1>1, <1>3, EmptySeq

\* Writing a header adds a message at the end, writing a body adds none.
LEMMA MessagesWritten ==
    ASSUME NEW s \in Seq(Chunk), NEW c \in Chunk
    PROVE  MessagesOf(Append(s, c)) =
               IF c.part = "header" THEN Append(MessagesOf(s), c.msg) ELSE MessagesOf(s)
<1> DEFINE t == Append(s, c)
           H == HeadersOf(s)
           n == Cardinality(H)
           len == Len(s)
<1>1. /\ t \in Seq(Chunk) /\ Len(t) = len + 1 /\ len \in Nat
      /\ \A i \in 1 .. len : t[i] = s[i]
      /\ t[len + 1] = c
  BY AppendProperties, LenProperties
<1>2. DOMAIN t = 1 .. len + 1 /\ DOMAIN s = 1 .. len
  BY <1>1, LenProperties
<1>3. /\ H \subseteq 1 .. len /\ IsFiniteSet(H) /\ n \in Nat
      /\ \A i \in H : Rank(s, i) \in 1 .. n
  BY RankIs
<1>4. HeadersOf(t) = IF c.part = "header" THEN H \cup {len + 1} ELSE H
  <2>1. \A i : i \in 1 .. len + 1 <=> i \in 1 .. len \/ i = len + 1
    BY <1>1
  <2> HIDE DEF t, len
  <2> QED BY <1>1, <1>2, <2>1 DEF HeadersOf
<1> HIDE DEF t, len
<1>5. \A i \in H : Rank(t, i) = Rank(s, i)
  <2> TAKE i \in H
  <2>1. ~(len + 1 <= i)
    BY <1>1, <1>3
  <2>2. {j \in HeadersOf(t) : j <= i} = {j \in H : j <= i}
    BY <1>4, <2>1
  <2> QED BY <2>2 DEF Rank
<1>6. /\ MessagesOf(s) \in Seq(Msg) /\ Len(MessagesOf(s)) = n
      /\ \A i \in H : MessagesOf(s)[Rank(s, i)] = s[i].msg
  BY MessagesAre
<1>7. /\ MessagesOf(t) \in Seq(Msg) /\ Len(MessagesOf(t)) = Cardinality(HeadersOf(t))
      /\ \A i \in HeadersOf(t) : MessagesOf(t)[Rank(t, i)] = t[i].msg
  BY <1>1, MessagesAre
<1>8. \A k \in 1 .. n : MessagesOf(t)[k] = MessagesOf(s)[k]
  <2> TAKE k \in 1 .. n
  <2>1. PICK i \in H : Rank(s, i) = k
    BY RankExists
  <2>2. i \in HeadersOf(t) /\ t[i] = s[i] /\ Rank(t, i) = k
    BY <1>1, <1>3, <1>4, <1>5, <2>1
  <2> QED BY <1>6, <1>7, <2>1, <2>2
<1>9. CASE c.part = "header"
  <2>1. len + 1 \notin H
    BY <1>1, <1>3
  <2>2. HeadersOf(t) = H \cup {len + 1} /\ Cardinality(HeadersOf(t)) = n + 1
    BY <1>3, <1>4, <1>9, <2>1, FS_AddElement
  <2>3. Rank(t, len + 1) = n + 1
    <3>1. {j \in HeadersOf(t) : j <= len + 1} = HeadersOf(t)
      BY <1>1, <1>3, <2>2
    <3> QED BY <2>2, <3>1 DEF Rank
  <2>4. MessagesOf(t)[n + 1] = c.msg
    BY <1>1, <1>7, <2>2, <2>3
  <2>5. c.msg \in Msg
    BY DEF Chunk
  <2> DEFINE u == Append(MessagesOf(s), c.msg)
  <2>6. /\ u \in Seq(Msg) /\ Len(u) = n + 1
        /\ \A k \in 1 .. n : u[k] = MessagesOf(s)[k]
        /\ u[n + 1] = c.msg
    BY <1>6, <2>5, AppendProperties
  <2> HIDE DEF u, n
  <2>7. \A k \in 1 .. n + 1 : k \in 1 .. n \/ k = n + 1
    BY <1>3
  <2>8. \A k \in 1 .. n + 1 : MessagesOf(t)[k] = u[k]
    BY <1>8, <2>4, <2>6, <2>7
  <2>9. MessagesOf(t) = u
    BY <1>7, <2>2, <2>6, <2>8, SeqEqual
  <2> QED BY <1>9, <2>9 DEF u, t
<1>10. CASE c.part # "header"
  <2>1. Len(MessagesOf(t)) = n
    BY <1>4, <1>7, <1>10
  <2> HIDE DEF n
  <2>2. MessagesOf(t) = MessagesOf(s)
    BY <1>6, <1>7, <1>8, <2>1, SeqEqual
  <2> QED BY <1>10, <2>2 DEF t
<1> QED BY <1>9, <1>10

\* Moving a set of numbers does not change how many they are.
LEMMA ShiftedCount ==
    ASSUME NEW S \in SUBSET Int, IsFiniteSet(S), NEW T \in SUBSET Int,
           \A i \in Int : i \in S <=> i + 1 \in T
    PROVE  IsFiniteSet(T) /\ Cardinality(T) = Cardinality(S)
<1> DEFINE f == [i \in S |-> i + 1]
<1>1. f \in Injection(S, T)
  BY DEF Injection, IsInjective
<1>2. f \in Surjection(S, T)
  <2>1. \A j \in T : j - 1 \in S /\ f[j - 1] = j
    OBVIOUS
  <2> QED BY <2>1 DEF Surjection
<1>3. ExistsBijection(S, T)
  BY <1>1, <1>2 DEF ExistsBijection, Bijection
<1> QED BY <1>3, FS_Bijection

\* Reading a header takes away the first message, reading a body none.
LEMMA MessagesRead ==
    ASSUME NEW s \in Seq(Chunk), s # <<>>
    PROVE  MessagesOf(s) = IF Head(s).part = "header"
                           THEN <<Head(s).msg>> \o MessagesOf(Tail(s)) ELSE MessagesOf(Tail(s))
<1> DEFINE t == Tail(s)
           H == HeadersOf(s)
           G == HeadersOf(t)
           b == IF Head(s).part = "header" THEN 1 ELSE 0
           len == Len(s)
<1>1. /\ t \in Seq(Chunk) /\ Len(t) = len - 1 /\ len \in Nat \ {0} /\ Head(s) = s[1]
      /\ \A i \in 1 .. len - 1 : t[i] = s[i + 1]
      /\ Head(s) \in Chunk
  BY HeadTailProperties, EmptySeq
<1>2. DOMAIN t = 1 .. len - 1 /\ DOMAIN s = 1 .. len
  BY <1>1, LenProperties
<1>3. /\ H \subseteq 1 .. len /\ IsFiniteSet(H) /\ Cardinality(H) \in Nat
      /\ \A i \in H : Rank(s, i) \in 1 .. Cardinality(H)
  BY RankIs
<1>4. /\ G \subseteq 1 .. len - 1 /\ IsFiniteSet(G) /\ Cardinality(G) \in Nat
      /\ \A i \in G : Rank(t, i) \in 1 .. Cardinality(G)
  BY <1>1, RankIs
<1> HIDE DEF t, len
<1>5. \A i \in 1 .. len - 1 : i \in G <=> i + 1 \in H
  <2>1. \A i \in 1 .. len - 1 : i + 1 \in 1 .. len
    BY <1>1
  <2> QED BY <1>1, <1>2, <2>1 DEF HeadersOf
<1>6. 1 \in H <=> b = 1
  BY <1>1, <1>2 DEF HeadersOf
<1> HIDE DEF G, H
<1>7. \A i \in Int : i \in G <=> i + 1 \in H \ {1}
  <2> TAKE i \in Int
  <2>1. CASE i \in 1 .. len - 1
    BY <1>1, <1>5, <2>1
  <2>2. CASE i \notin 1 .. len - 1
    <3>1. i + 1 \notin 1 .. len \/ i + 1 = 1
      BY <1>1, <2>2
    <3> QED BY <1>3, <1>4, <2>2, <3>1
  <2> QED BY <2>1, <2>2
<1>8. Cardinality(H) = Cardinality(G) + b
  <2>1. H \ {1} \in SUBSET Int /\ G \in SUBSET Int
    BY <1>1, <1>3, <1>4
  <2>2. Cardinality(H \ {1}) = Cardinality(G)
    BY <1>4, <1>7, <2>1, ShiftedCount
  <2>3. Cardinality(H \ {1}) = IF 1 \in H THEN Cardinality(H) - 1 ELSE Cardinality(H)
    BY <1>3, FS_RemoveElement
  <2> QED BY <1>3, <1>4, <1>6, <2>2, <2>3
<1>9. \A i \in G : Rank(s, i + 1) = Rank(t, i) + b
  <2> TAKE i \in G
  <2> DEFINE A == {j \in G : j <= i}
             B == {j \in H : j <= i + 1}
  <2>1. i \in Int /\ i >= 1
    BY <1>1, <1>4
  <2>2. A \in SUBSET Int /\ B \in SUBSET Int /\ A \in SUBSET G /\ B \in SUBSET H
    <3>1. (\A j \in H : j \in Int) /\ (\A j \in G : j \in Int)
      BY <1>1, <1>3, <1>4
    <3> QED BY <3>1
  <2>3. \A j \in Int : j \in A <=> j + 1 \in B \ {1}
    BY <1>7, <2>1
  <2>4. 1 \in B <=> 1 \in H
    BY <2>1
  <2>5. Rank(s, i + 1) = Cardinality(B) /\ Rank(t, i) = Cardinality(A)
    BY DEF Rank, G, H
  <2> HIDE DEF A, B
  <2>6. IsFiniteSet(A) /\ IsFiniteSet(B)
    BY <1>3, <1>4, <2>2, FS_Subset
  <2>7. Cardinality(B \ {1}) = Cardinality(A)
    BY <2>2, <2>3, <2>6, ShiftedCount
  <2>8. Cardinality(B \ {1}) = IF 1 \in B THEN Cardinality(B) - 1 ELSE Cardinality(B)
    BY <2>6, FS_RemoveElement
  <2>9. Cardinality(A) \in Nat /\ Cardinality(B) \in Nat
    BY <2>6, FS_CardinalityType
  <2> QED BY <1>6, <2>4, <2>5, <2>7, <2>8, <2>9
<1>10. /\ MessagesOf(s) \in Seq(Msg) /\ Len(MessagesOf(s)) = Cardinality(H)
       /\ \A i \in H : MessagesOf(s)[Rank(s, i)] = s[i].msg
  BY MessagesAre DEF H
<1>11. /\ MessagesOf(t) \in Seq(Msg) /\ Len(MessagesOf(t)) = Cardinality(G)
       /\ \A i \in G : MessagesOf(t)[Rank(t, i)] = t[i].msg
  BY <1>1, MessagesAre DEF G
<1>12. \A k \in 1 .. Cardinality(G) : MessagesOf(s)[k + b] = MessagesOf(t)[k]
  <2> TAKE k \in 1 .. Cardinality(G)
  <2>1. PICK i \in G : Rank(t, i) = k
    BY <1>1, RankExists DEF G
  <2>2. i \in 1 .. len - 1 /\ i \in Int /\ i + 1 \in H
    BY <1>1, <1>4, <1>7, <2>1
  <2>3. t[i] = s[i + 1] /\ Rank(s, i + 1) = k + b
    BY <1>1, <1>9, <2>1, <2>2
  <2> QED BY <1>10, <1>11, <2>1, <2>2, <2>3
<1>13. CASE Head(s).part = "header"
  <2>1. b = 1 /\ 1 \in H
    BY <1>6, <1>13
  <2>2. Rank(s, 1) = 1
    <3>1. {j \in H : j <= 1} = {1}
      <4>1. \A j \in H : j \in Int /\ j >= 1
        BY <1>1, <1>3
      <4>2. \A j \in H : j <= 1 <=> j = 1
        BY <4>1
      <4> QED BY <2>1, <4>2
    <3> QED BY <3>1, FS_Singleton DEF Rank, H
  <2> DEFINE n == Cardinality(G)
             u == <<Head(s).msg>> \o MessagesOf(t)
  <2>3. MessagesOf(s)[1] = Head(s).msg /\ Head(s).msg \in Msg
    BY <1>1, <1>10, <2>1, <2>2 DEF Chunk
  <2>4. /\ u \in Seq(Msg) /\ Len(u) = n + 1 /\ u[1] = Head(s).msg
        /\ \A k \in 1 .. n : u[k + 1] = MessagesOf(t)[k]
    <3>1. <<Head(s).msg>> \in Seq(Msg) /\ Len(<<Head(s).msg>>) = 1 /\ <<Head(s).msg>>[1] = Head(s).msg
      BY <2>3
    <3> HIDE DEF n
    <3> DEFINE v == <<Head(s).msg>>
               w == MessagesOf(t)
    <3>2. v \in Seq(Msg) /\ Len(v) = 1 /\ v[1] = Head(s).msg
      BY <3>1
    <3>3. w \in Seq(Msg) /\ Len(w) = n /\ n \in Nat
      BY <1>4, <1>11 DEF n
    <3> HIDE DEF v, w
    <3>4. /\ v \o w \in Seq(Msg) /\ Len(v \o w) = 1 + n
          /\ \A k \in 1 .. 1 + n : (v \o w)[k] = IF k <= 1 THEN v[k] ELSE w[k - 1]
      <4>1. /\ v \o w \in Seq(Msg) /\ Len(v \o w) = Len(v) + Len(w)
            /\ \A k \in 1 .. Len(v) + Len(w) :
                  (v \o w)[k] = IF k <= Len(v) THEN v[k] ELSE w[k - Len(v)]
        BY <3>2, <3>3, ConcatProperties
      <4> QED BY <3>2, <3>3, <4>1
    <3>5. u = v \o w
      BY DEF v, w
    <3> HIDE DEF u
    <3>6. \A k \in 1 .. n : u[k + 1] = w[k]
      BY <3>3, <3>4, <3>5
    <3>7. u[1] = Head(s).msg /\ Len(u) = n + 1 /\ u \in Seq(Msg)
      BY <3>2, <3>3, <3>4, <3>5
    <3> QED BY <3>6, <3>7 DEF w
  <2> HIDE DEF u
  <2>5. \A k \in 1 .. n + 1 : MessagesOf(s)[k] = u[k]
    <3> TAKE k \in 1 .. n + 1
    <3>1. CASE k = 1
      BY <2>3, <2>4, <3>1
    <3>2. CASE k # 1
      <4>1. k - 1 \in 1 .. n /\ (k - 1) + 1 = k
        BY <1>4, <3>2
      <4>2. MessagesOf(s)[(k - 1) + 1] = MessagesOf(t)[k - 1]
        BY <1>12, <2>1, <4>1
      <4>3. u[(k - 1) + 1] = MessagesOf(t)[k - 1]
        BY <2>4, <4>1
      <4> QED BY <4>1, <4>2, <4>3
    <3> QED BY <3>1, <3>2
  <2>6. MessagesOf(s) = u
    <3>1. Len(MessagesOf(s)) = n + 1
      BY <1>8, <1>10, <2>1
    <3> HIDE DEF n
    <3> QED BY <1>10, <2>4, <2>5, <3>1, SeqEqual
  <2> QED BY <1>13, <2>6 DEF u, t
<1>14. CASE Head(s).part # "header"
  <2>1. \A k \in 1 .. Cardinality(G) : MessagesOf(s)[k] = MessagesOf(t)[k]
    BY <1>4, <1>12, <1>14
  <2>2. Len(MessagesOf(s)) = Cardinality(G)
    BY <1>4, <1>8, <1>10, <1>14
  <2>3. MessagesOf(s) = MessagesOf(t)
    BY <1>10, <1>11, <2>1, <2>2, SeqEqual
  <2> QED BY <1>14, <2>3 DEF t
<1> QED BY <1>13, <1>14

-----------------------------------------------------------------------------
\* What a process hears first, and what is left to hear.
LEMMA FirstHeard ==
    ASSUME NEW m \in Msg, NEW w \in Seq(Msg)
    PROVE  <<m>> \o w # <<>> /\ Head(<<m>> \o w) = m /\ Tail(<<m>> \o w) = w
<1> DEFINE u == <<m>> \o w
           v == <<m>>
<1>1. v \in Seq(Msg) /\ Len(v) = 1 /\ v[1] = m
  OBVIOUS
<1>2. u = v \o w /\ Len(w) \in Nat
  BY LenProperties
<1> HIDE DEF v
<1>3. /\ v \o w \in Seq(Msg) /\ Len(v \o w) = Len(v) + Len(w)
      /\ \A k \in 1 .. Len(v) + Len(w) : (v \o w)[k] = IF k <= Len(v) THEN v[k] ELSE w[k - Len(v)]
  BY <1>1, ConcatProperties
<1> HIDE DEF u
<1>4. u \in Seq(Msg) /\ Len(u) = 1 + Len(w) /\ u[1] = m /\ \A k \in 1 .. Len(w) : u[k + 1] = w[k]
  BY <1>1, <1>2, <1>3
<1>5. u # <<>>
  BY <1>2, <1>4, EmptySeq
<1>6. Tail(u) \in Seq(Msg) /\ Len(Tail(u)) = Len(w) /\ \A k \in 1 .. Len(w) : Tail(u)[k] = w[k]
  <2>1. /\ Tail(u) \in Seq(Msg) /\ Len(Tail(u)) = Len(u) - 1
        /\ \A k \in 1 .. Len(Tail(u)) : Tail(u)[k] = u[k + 1]
    BY <1>4, <1>5, HeadTailProperties
  <2> QED BY <1>2, <1>4, <2>1
<1>7. Tail(u) = w
  BY <1>6, SeqEqual
<1>8. Head(u) = m
  BY <1>4, <1>5
<1> QED BY <1>5, <1>7, <1>8 DEF u

\* What is said last is heard last.
LEMMA LastSaid ==
    ASSUME NEW a \in Seq(Msg), NEW b \in Seq(Msg), NEW m \in Msg
    PROVE  a \o Append(b, m) = Append(a \o b, m)
<1> DEFINE v == <<m>>
<1>1. v \in Seq(Msg) /\ Append(b, m) = b \o v /\ a \o b \in Seq(Msg)
  BY AppendIsConcat, ConcatProperties
<1>2. Append(a \o b, m) = (a \o b) \o v
  BY <1>1, AppendIsConcat
<1> HIDE DEF v
<1>3. (a \o b) \o v = a \o (b \o v)
  BY <1>1, ConcatAssociative
<1> QED BY <1>1, <1>2, <1>3

\* Exactly one of the two has the floor.
OneSpeaker ==
    \A p \in Peers : /\ HoldsFloor(p) \/ HoldsFloor(Other(p))
                     /\ HoldsFloor(p) => Speaker = p /\ Listener = Other(p)

LEMMA SpeakerIs == TurnInv => OneSpeaker
<1> SUFFICES ASSUME TurnInv PROVE OneSpeaker
  OBVIOUS
<1>1. /\ MaySend("client") \in BOOLEAN /\ MaySend("core") \in BOOLEAN
      /\ TokenInFlight("client") \in BOOLEAN /\ TokenInFlight("core") \in BOOLEAN
  BY DEF MaySend, TokenInFlight, HasToken
<1>2. /\ (MaySend("client") \/ TokenInFlight("client")) # (MaySend("core") \/ TokenInFlight("core"))
      /\ ~(MaySend("client") /\ TokenInFlight("client"))
      /\ ~(MaySend("core") /\ TokenInFlight("core"))
  BY DEF TurnInv, ExactlyOneTurn, Turn, Peers
<1>3. HoldsFloor("client") \/ HoldsFloor("core")
  BY <1>1, <1>2 DEF HoldsFloor, Other
<1>4. ~(HoldsFloor("client") /\ HoldsFloor("core"))
  BY <1>1, <1>2 DEF HoldsFloor, Other
<1> QED BY <1>3, <1>4 DEF OneSpeaker, Speaker, Listener, Peers, Other

\* Types of what is unheard.
UnheardTyped == \A p \in Peers : HeardPart(p) \in Seq(Msg) /\ MessagesOf(wire[p]) \in Seq(Msg)

LEMMA UnheardIs == TurnInv => UnheardTyped
<1> SUFFICES ASSUME TurnInv, NEW p \in Peers
             PROVE  HeardPart(p) \in Seq(Msg) /\ MessagesOf(wire[p]) \in Seq(Msg)
  BY DEF UnheardTyped
<1>1. wire[p] \in Seq(Chunk) /\ rx[p] \in WithBody \cup {None} /\ WithBody \subseteq Msg
  BY IpcAssumption DEF TurnInv, TypeOK
<1>2. rx[p] # None => <<rx[p]>> \in Seq(Msg)
  BY <1>1
<1>3. <<>> \in Seq(Msg)
  BY EmptySeq
<1> QED BY <1>1, <1>2, <1>3, MessagesAre DEF HeardPart

TurnsInv == TurnInv /\ FramingInv /\ QuietBehindToken

\* uade_set_peer(): the frontend has the floor and nothing has been said.
LEMMA TurnsInit == IpcInit => Turns!TurnInit
<1> SUFFICES ASSUME IpcInit PROVE Turns!TurnInit
  OBVIOUS
<1>1. Speaker = "client" /\ Listener = "core"
  BY DEF IpcInit, Speaker, HoldsFloor, MaySend, Listener, Other, Peers
<1>2. wire["core"] = <<>> /\ rx["core"] = None
  BY DEF IpcInit, Peers
<1>3. ~TokenInFlight(Listener)
  BY <1>1, <1>2, EmptyHasNoToken DEF TokenInFlight
<1>4. Unheard(Listener) = <<>>
  <2>1. HeardPart("core") = <<>> /\ MessagesOf(wire["core"]) = <<>>
    BY <1>2, NoMessages DEF HeardPart
  <2>2. <<>> \o <<>> = <<>>
    BY EmptySeq, ConcatEmptySeq
  <2> QED BY <1>1, <2>1, <2>2 DEF Unheard
<1> QED BY <1>1, <1>3, <1>4 DEF Turns!TurnInit

\* The one who may speak has the floor and has not passed it.
LEMMA WriterSpeaks ==
    ASSUME TurnsInv, TurnsInv', NEW p \in Peers, MaySend(p),
           MaySend(p)' \/ TokenInFlight(Other(p))'
    PROVE  /\ Speaker = p /\ Listener = Other(p) /\ ~HasToken(wire[Other(p)])
           /\ Speaker' = p /\ Listener' = Other(p)
<1>1. OneSpeaker /\ OneSpeaker'
  <2>1. TurnInv /\ TurnInv'
    BY DEF TurnsInv
  <2>2. TurnInv => OneSpeaker
    BY SpeakerIs
  <2>3. TurnInv' => OneSpeaker'
    BY SpeakerIs, PTL
  <2> QED BY <2>1, <2>2, <2>3
<1>2. HoldsFloor(p) /\ HoldsFloor(p)'
  BY DEF HoldsFloor
<1>3. ~HasToken(wire[Other(p)])
  BY TurnOfPeer DEF TurnsInv, TurnInv, Turn, TokenInFlight
<1>4. Speaker = p /\ Listener = Other(p)
  BY <1>1, <1>2 DEF OneSpeaker
<1>5. Speaker' = p /\ Listener' = Other(p)
  BY <1>1, <1>2 DEF OneSpeaker
<1> QED BY <1>3, <1>4, <1>5

\* The one who reads listens: the speaker, behind its token, finds nothing.
LEMMA ReaderListens ==
    ASSUME TurnsInv, NEW p \in Peers, MayReceive(p), wire[p] # <<>>
    PROVE  Speaker = Other(p) /\ Listener = p /\ HoldsFloor(Other(p))
<1>1. TurnInv /\ QuietBehindToken
  BY DEF TurnsInv
<1>2. OneSpeaker
  BY <1>1, SpeakerIs
<1>3. ~MaySend(p)
  BY DEF MaySend, MayReceive
<1>4. ~TokenInFlight(Other(p))
  BY <1>1 DEF QuietBehindToken
<1>5. HoldsFloor(Other(p))
  BY <1>2, <1>3, <1>4 DEF OneSpeaker, HoldsFloor
<1>6. Other(p) \in Peers /\ Other(Other(p)) = p
  BY OtherPeer
<1> QED BY <1>2, <1>5, <1>6 DEF OneSpeaker

\* Nothing the conversation consists of has changed.
LEMMA SameTurns ==
    ASSUME state' = state, wire' = wire, rx' = rx
    PROVE  UNCHANGED Turns!turnVars
BY DEF Turns!turnVars, Speaker, Listener, HoldsFloor, MaySend, TokenInFlight, HasToken, Unheard,
       HeardPart, MessagesOf, HeadersOf, Rank

\* A message of which the first chunk, or all, was written has been said.
LEMMA Says ==
    ASSUME TurnsInv, TurnsInv', NEW p \in Peers, NEW m \in Msg, MaySend(p),
           MaySend(p)' \/ TokenInFlight(Other(p))', rx'[Other(p)] = rx[Other(p)],
           MessagesOf(wire'[Other(p)]) = Append(MessagesOf(wire[Other(p)]), m),
           HasToken(wire'[Other(p)]) <=> m = Token
    PROVE  Turns!Say(m)
<1> DEFINE q == Other(p)
<1>1. q \in Peers
  BY OtherPeer
<1>2. /\ Speaker = p /\ Listener = q /\ ~HasToken(wire[q])
      /\ Speaker' = p /\ Listener' = q
  BY WriterSpeaks
<1>3. UnheardTyped
  BY UnheardIs DEF TurnsInv
<1>4. HeardPart(q) \in Seq(Msg) /\ MessagesOf(wire[q]) \in Seq(Msg)
  BY <1>1, <1>3 DEF UnheardTyped
<1>5. HeardPart(q)' = HeardPart(q)
  BY DEF HeardPart
<1>6. HeardPart(q)' \o MessagesOf(wire'[q]) = Append(HeardPart(q) \o MessagesOf(wire[q]), m)
  BY <1>4, <1>5, LastSaid
<1> HIDE DEF q
<1>7. Unheard(Listener) = HeardPart(q) \o MessagesOf(wire[q])
  BY <1>2 DEF Unheard
<1>8. Unheard(Listener)' = HeardPart(q)' \o MessagesOf(wire'[q])
  BY <1>2 DEF Unheard, HeardPart
<1>9. ~TokenInFlight(Listener)
  BY <1>2 DEF TokenInFlight
<1>10. TokenInFlight(Listener)' = (m = Token)
  <2>1. TokenInFlight(Listener)' = HasToken(wire'[q])
    BY <1>2 DEF TokenInFlight, HasToken
  <2>2. HasToken(wire'[q]) \in BOOLEAN
    BY DEF HasToken
  <2> QED BY <2>1, <2>2 DEF q
<1> QED BY <1>2, <1>6, <1>7, <1>8, <1>9, <1>10 DEF Turns!Say

\* Something short of a whole message was written or read.
LEMMA Unnoticed ==
    ASSUME NEW p \in Peers, NEW q \in Peers, Speaker = p, Listener = q, Speaker' = p, Listener' = q,
           HeardPart(q)' \o MessagesOf(wire'[q]) = HeardPart(q) \o MessagesOf(wire[q]),
           HasToken(wire'[q]) <=> HasToken(wire[q])
    PROVE  UNCHANGED Turns!turnVars
<1>1. Unheard(Listener)' = HeardPart(q)' \o MessagesOf(wire'[q])
  BY DEF Unheard, HeardPart
<1>2. Unheard(Listener) = HeardPart(q) \o MessagesOf(wire[q])
  BY DEF Unheard
<1>3. TokenInFlight(Listener)' = TokenInFlight(Listener)
  <2>1. TokenInFlight(Listener)' = HasToken(wire'[q])
    BY DEF TokenInFlight, HasToken
  <2>2. TokenInFlight(Listener) = HasToken(wire[q])
    BY DEF TokenInFlight
  <2>3. HasToken(wire'[q]) \in BOOLEAN /\ HasToken(wire[q]) \in BOOLEAN
    BY DEF HasToken
  <2> QED BY <2>1, <2>2, <2>3
<1> QED BY <1>1, <1>2, <1>3 DEF Turns!turnVars

LEMMA SendMessageSays ==
    ASSUME TurnsInv, TurnsInv', NEW p \in Peers, NEW m \in Msg, SendMessage(p, m)
    PROVE  Turns!Say(m)
<1> DEFINE q == Other(p)
           s == wire[q]
<1>1. /\ q \in Peers /\ q # p /\ s \in Seq(Chunk) /\ TypeOK
  BY OtherPeer DEF TurnsInv, TurnInv, TypeOK
<1>2. MaySend(p) /\ rx' = rx
  BY DEF SendMessage
<1>3. ~HasToken(s)
  BY <1>2, TurnOfPeer DEF TurnsInv, TurnInv, Turn, TokenInFlight
<1>4. wire'[q] = IF m \in WithBody THEN Append(Append(s, Header(m)), Body(m)) ELSE Append(s, Header(m))
  BY <1>1 DEF SendMessage, TypeOK
<1>5. state'[p] = StateAfterSend(m)
  BY <1>1 DEF SendMessage, TypeOK
<1>6. /\ Header(m) \in Chunk /\ Body(m) \in Chunk /\ Header(m).msg = m /\ Body(m).msg = m
      /\ Header(m).part = "header" /\ Body(m).part = "body"
  BY ChunkTypes DEF Header, Body
<1> HIDE DEF q, s
<1> DEFINE h == Append(s, Header(m))
<1>7. /\ h \in Seq(Chunk) /\ MessagesOf(h) = Append(MessagesOf(s), m) /\ (HasToken(h) <=> m = Token)
  BY <1>1, <1>3, <1>6, MessagesWritten, AppendChunk
<1> HIDE DEF h
<1>8. m \in WithBody => /\ MessagesOf(Append(h, Body(m))) = MessagesOf(h)
                        /\ HasToken(Append(h, Body(m))) <=> m = Token
  <2>1. m \in WithBody => m # Token
    BY IpcAssumption
  <2> QED BY <1>6, <1>7, <2>1, MessagesWritten, AppendChunk
<1>9. MessagesOf(wire'[q]) = Append(MessagesOf(s), m) /\ (HasToken(wire'[q]) <=> m = Token)
  BY <1>4, <1>7, <1>8 DEF h
<1>10. MaySend(p)' \/ TokenInFlight(q)'
  <2>1. CASE m = Token
    BY <1>9, <2>1 DEF TokenInFlight, HasToken
  <2>2. CASE m # Token
    BY <1>5, <2>2 DEF StateAfterSend, MaySend
  <2> QED BY <2>1, <2>2
<1> QED BY <1>2, <1>9, <1>10, Says DEF q, s

LEMMA SendStringSays ==
    ASSUME TurnsInv, TurnsInv', NEW p \in Peers, NEW m \in WithBody, SendString(p, m)
    PROVE  Turns!Say(m)
<1> DEFINE q == Other(p)
           s == wire[q]
<1>1. /\ q \in Peers /\ q # p /\ s \in Seq(Chunk) /\ TypeOK /\ m \in Msg /\ m # Token
  BY OtherPeer, IpcAssumption DEF TurnsInv, TurnInv, TypeOK
<1>2. MaySend(p) /\ rx' = rx
  BY DEF SendString
<1>3. ~HasToken(s)
  BY <1>2, TurnOfPeer DEF TurnsInv, TurnInv, Turn, TokenInFlight
<1>4. wire'[q] = Append(s, Header(m)) /\ state'[p] = "S"
  BY <1>1 DEF SendString, TypeOK
<1>5. Header(m) \in Chunk /\ Header(m).msg = m /\ Header(m).part = "header"
  BY <1>1, ChunkTypes DEF Header
<1> HIDE DEF q, s
<1>6. MessagesOf(wire'[q]) = Append(MessagesOf(s), m) /\ (HasToken(wire'[q]) <=> m = Token)
  BY <1>1, <1>3, <1>4, <1>5, MessagesWritten, AppendChunk
<1>7. MaySend(p)'
  BY <1>4 DEF MaySend
<1> QED BY <1>1, <1>2, <1>6, <1>7, Says DEF q, s

LEMMA SendStringBodyUnnoticed ==
    ASSUME TurnsInv, TurnsInv', NEW p \in Peers, SendStringBody(p)
    PROVE  UNCHANGED Turns!turnVars
<1> DEFINE q == Other(p)
           s == wire[q]
           m == tx[p]
<1>1. /\ q \in Peers /\ q # p /\ s \in Seq(Chunk) /\ TypeOK /\ m \in WithBody
  BY OtherPeer DEF TurnsInv, TurnInv, TypeOK, SendStringBody
<1>2. m \in Msg /\ m # Token
  BY <1>1, IpcAssumption
<1>3. wire'[q] = Append(s, Body(m)) /\ state' = state /\ rx' = rx
  BY <1>1 DEF SendStringBody, TypeOK
<1>4. state[p] = "S"
  BY DEF SendStringBody, TurnsInv, TurnInv
<1>5. MaySend(p) /\ MaySend(p)'
  BY <1>3, <1>4 DEF MaySend
<1>6. /\ Speaker = p /\ Listener = q /\ ~HasToken(s)
      /\ Speaker' = p /\ Listener' = q
  BY <1>5, WriterSpeaks
<1>7. Body(m) \in Chunk /\ Body(m).msg = m /\ Body(m).part = "body"
  BY <1>2, ChunkTypes DEF Body
<1> HIDE DEF q, s, m
<1>8. MessagesOf(wire'[q]) = MessagesOf(s) /\ ~HasToken(wire'[q])
  BY <1>1, <1>2, <1>3, <1>6, <1>7, MessagesWritten, AppendChunk
<1>9. HeardPart(q)' = HeardPart(q)
  BY <1>3 DEF HeardPart
<1>10. HeardPart(q)' \o MessagesOf(wire'[q]) = HeardPart(q) \o MessagesOf(wire[q])
  BY <1>8, <1>9 DEF s
<1>11. HasToken(wire'[q]) <=> HasToken(wire[q])
  BY <1>6, <1>8 DEF s
<1> QED BY <1>1, <1>6, <1>10, <1>11, Unnoticed

\* Reading a chunk other than the token leaves the floor where it is.
LEMMA StillListens ==
    ASSUME TurnsInv, TurnsInv', NEW p \in Peers, MayReceive(p), wire[p] # <<>>,
           Head(wire[p]).msg # Token, wire'[p] = Tail(wire[p]), state'[Other(p)] = state[Other(p)]
    PROVE  /\ Speaker = Other(p) /\ Listener = p /\ Speaker' = Other(p) /\ Listener' = p
           /\ HasToken(wire'[p]) <=> HasToken(wire[p])
<1> DEFINE q == Other(p)
<1>1. Speaker = q /\ Listener = p /\ HoldsFloor(q)
  BY ReaderListens
<1>2. q \in Peers /\ Other(q) = p
  BY OtherPeer
<1>3. wire[p] \in Seq(Chunk) /\ TokenOnlyLast(wire[p])
  BY DEF TurnsInv, TurnInv, TypeOK
<1>4. HasToken(wire'[p]) <=> HasToken(wire[p])
  BY <1>3, TailOfStream
<1>5. HoldsFloor(q)'
  <2>1. MaySend(q) => MaySend(q)'
    BY DEF MaySend
  <2>2. TokenInFlight(p) => TokenInFlight(p)'
    BY <1>4 DEF TokenInFlight, HasToken
  <2> QED BY <1>1, <1>2, <2>1, <2>2 DEF HoldsFloor
<1>6. OneSpeaker'
  <2>1. TurnInv'
    BY DEF TurnsInv
  <2>2. TurnInv' => OneSpeaker'
    BY SpeakerIs, PTL
  <2> QED BY <2>1, <2>2
<1> QED BY <1>1, <1>2, <1>4, <1>5, <1>6 DEF OneSpeaker

\* What comes next in a stream.
LEMMA NextChunk ==
    ASSUME TurnsInv, NEW p \in Peers, wire[p] # <<>>
    PROVE  IF rx[p] = None THEN Head(wire[p]).part = "header" ELSE Head(wire[p]) = Body(rx[p])
<1>1. wire[p] \in Seq(Chunk) /\ Fits(wire[p], Due(rx[p], Msg), Follow(AnyMessage))
  BY DEF TurnsInv, FramingInv, TypeOK, FramedAt, Talks
<1>2. Head(wire[p]) \in Due(rx[p], Msg)
  BY <1>1, TailFits
<1> QED BY <1>2 DEF Due, Headers, Header

LEMMA ReceiveHeaderUnnoticed ==
    ASSUME TurnsInv, TurnsInv', NEW p \in Peers, ReceiveHeader(p)
    PROVE  UNCHANGED Turns!turnVars
<1> DEFINE s == wire[p]
           m == Head(s).msg
<1>1. /\ s \in Seq(Chunk) /\ s # <<>> /\ TypeOK /\ rx[p] = None /\ m \in WithBody /\ MayReceive(p)
  BY DEF TurnsInv, TurnInv, TypeOK, ReceiveHeader
<1>2. m \in Msg /\ m # Token /\ m # None
  BY <1>1, IpcAssumption
<1>3. Other(p) \in Peers /\ Other(p) # p
  BY OtherPeer
<1>4. wire'[p] = Tail(s) /\ rx'[p] = m /\ state'[Other(p)] = state[Other(p)]
  BY <1>1, <1>3 DEF ReceiveHeader, TypeOK
<1>5. /\ Speaker = Other(p) /\ Listener = p /\ Speaker' = Other(p) /\ Listener' = p
      /\ HasToken(wire'[p]) <=> HasToken(wire[p])
  BY <1>1, <1>2, <1>4, StillListens
<1>6. Head(s).part = "header"
  BY <1>1, NextChunk
<1>7. Tail(s) \in Seq(Chunk) /\ MessagesOf(s) = <<m>> \o MessagesOf(Tail(s))
  BY <1>1, <1>6, MessagesRead, HeadTailProperties
<1>8. HeardPart(p) = <<>> /\ HeardPart(p)' = <<m>>
  BY <1>1, <1>2, <1>4 DEF HeardPart
<1>9. MessagesOf(s) \in Seq(Msg)
  BY <1>1, MessagesAre
<1> HIDE DEF s, m
<1>10. <<>> \o MessagesOf(s) = MessagesOf(s)
  BY <1>9, ConcatEmptySeq
<1>11. HeardPart(p)' \o MessagesOf(wire'[p]) = HeardPart(p) \o MessagesOf(wire[p])
  BY <1>4, <1>7, <1>8, <1>10 DEF s
<1> QED BY <1>3, <1>5, <1>11, Unnoticed

LEMMA ReceiveMessageHears ==
    ASSUME TurnsInv, TurnsInv', NEW p \in Peers, NEW m \in Msg, ReceiveMessage(p, m), m # Token
    PROVE  Turns!Hear
<1> DEFINE s == wire[p]
           w == MessagesOf(Tail(s))
<1>1. /\ s \in Seq(Chunk) /\ s # <<>> /\ TypeOK /\ MayReceive(p) /\ Head(s).msg = m
      /\ IF rx[p] = None THEN m \notin WithBody ELSE rx[p] = m
  BY DEF TurnsInv, TurnInv, TypeOK, ReceiveMessage, Completes
<1>2. m # None
  BY IpcAssumption
<1>3. Other(p) \in Peers /\ Other(p) # p
  BY OtherPeer
<1>4. wire'[p] = Tail(s) /\ rx'[p] = None /\ state'[Other(p)] = state[Other(p)]
  BY <1>1, <1>3 DEF ReceiveMessage, TypeOK
<1>5. /\ Speaker = Other(p) /\ Listener = p /\ Speaker' = Other(p) /\ Listener' = p
      /\ HasToken(wire'[p]) <=> HasToken(wire[p])
  BY <1>1, <1>4, StillListens
<1>6. w \in Seq(Msg) /\ <<>> \o w = w /\ <<>> \o (<<m>> \o w) = <<m>> \o w
  <2>1. Tail(s) \in Seq(Chunk)
    BY <1>1, HeadTailProperties
  <2> HIDE DEF s
  <2>4. w \in Seq(Msg)
    BY <2>1, MessagesAre
  <2> HIDE DEF w
  <2>2. w \in Seq(Msg) /\ <<m>> \in Seq(Msg)
    BY <2>4
  <2>3. <<m>> \o w \in Seq(Msg)
    BY <2>2, ConcatProperties
  <2> QED BY <2>2, <2>3, ConcatEmptySeq
<1>7. HeardPart(p) \o MessagesOf(s) = <<m>> \o w
  <2>1. CASE rx[p] = None
    <3>1. Head(s).part = "header"
      BY <1>1, <2>1, NextChunk
    <3>2. MessagesOf(s) = <<m>> \o w
      BY <1>1, <3>1, MessagesRead
    <3>3. HeardPart(p) = <<>>
      BY <2>1 DEF HeardPart
    <3> QED BY <1>6, <3>2, <3>3
  <2>2. CASE rx[p] # None
    <3>1. Head(s) = Body(rx[p])
      BY <1>1, <2>2, NextChunk
    <3>4. Head(s).part # "header"
      BY <3>1 DEF Body
    <3> HIDE DEF s
    <3>2. MessagesOf(s) = w
      BY <1>1, <3>4, MessagesRead
    <3>3. HeardPart(p) = <<m>>
      BY <1>1, <2>2 DEF HeardPart
    <3> QED BY <3>2, <3>3
  <2> QED BY <2>1, <2>2
<1>8. HeardPart(p)' \o MessagesOf(wire'[p]) = w
  BY <1>4, <1>6 DEF HeardPart
<1>9. <<m>> \o w # <<>> /\ Head(<<m>> \o w) = m /\ Tail(<<m>> \o w) = w
  BY <1>6, FirstHeard
<1>10. Unheard(Listener) = <<m>> \o w
  BY <1>5, <1>7 DEF Unheard
<1>11. Unheard(Listener)' = w
  BY <1>5, <1>8 DEF Unheard, HeardPart
<1> HIDE DEF w, s
<1>12. TokenInFlight(Listener)' = TokenInFlight(Listener)
  <2>1. TokenInFlight(Listener)' = HasToken(wire'[p])
    BY <1>5 DEF TokenInFlight, HasToken
  <2>2. TokenInFlight(Listener) = HasToken(wire[p])
    BY <1>5 DEF TokenInFlight
  <2>3. HasToken(wire'[p]) \in BOOLEAN /\ HasToken(wire[p]) \in BOOLEAN
    BY DEF HasToken
  <2> QED BY <1>5, <2>1, <2>2, <2>3
<1> QED BY <1>5, <1>9, <1>10, <1>11, <1>12 DEF Turns!Hear

LEMMA ReceiveTokenTakesFloor ==
    ASSUME TurnsInv, TurnsInv', NEW p \in Peers, ReceiveMessage(p, Token)
    PROVE  Turns!TakeFloor
<1> DEFINE q == Other(p)
           s == wire[p]
<1>1. /\ s \in Seq(Chunk) /\ s # <<>> /\ TypeOK /\ MayReceive(p) /\ Head(s).msg = Token
      /\ TokenOnlyLast(s) /\ rx[p] \in WithBody \cup {None}
      /\ IF rx[p] = None THEN TRUE ELSE rx[p] = Token
  BY DEF TurnsInv, TurnInv, TypeOK, ReceiveMessage, Completes
<1>2. Token \in Msg /\ Token \notin WithBody
  BY IpcAssumption
<1>3. q \in Peers /\ q # p /\ Other(q) = p
  BY OtherPeer
<1>4. rx[p] = None
  BY <1>1, <1>2
<1>5. Tail(s) = <<>> /\ HasToken(s)
  BY <1>1, TailOfStream
<1>6. /\ state'[p] = "S" /\ wire'[q] = wire[q] /\ rx'[q] = rx[q]
  BY <1>1, <1>3 DEF ReceiveMessage, StateAfterReceive, TypeOK
<1>7. Speaker = q /\ Listener = p
  BY <1>1, ReaderListens
<1>8. wire[q] = <<>> /\ rx[q] = None
  BY <1>3, <1>5 DEF TurnsInv, QuietBehindToken, TokenInFlight
<1>9. Speaker' = p /\ Listener' = q
  <2>1. TurnInv'
    BY DEF TurnsInv
  <2>2. TurnInv' => OneSpeaker'
    BY SpeakerIs, PTL
  <2>3. HoldsFloor(p)'
    BY <1>6 DEF HoldsFloor, MaySend
  <2> QED BY <2>1, <2>2, <2>3 DEF OneSpeaker
<1>10. Unheard(Listener) = <<Token>>
  <2>1. Head(s).part = "header"
    BY <1>1, <1>4, NextChunk
  <2>2. MessagesOf(s) = <<Token>> \o MessagesOf(<<>>)
    BY <1>1, <1>5, <2>1, MessagesRead
  <2>3. <<Token>> \in Seq(Msg)
    BY <1>2
  <2>4. MessagesOf(s) = <<Token>>
    BY <2>2, <2>3, NoMessages, ConcatEmptySeq
  <2>5. <<>> \o <<Token>> = <<Token>>
    BY <2>3, ConcatEmptySeq
  <2> QED BY <1>4, <1>7, <2>4, <2>5 DEF Unheard, HeardPart
<1>11. Unheard(Listener)' = <<>>
  <2>1. HeardPart(q)' = <<>> /\ MessagesOf(wire'[q]) = <<>>
    BY <1>6, <1>8, NoMessages DEF HeardPart
  <2>2. <<>> \o <<>> = <<>>
    BY EmptySeq, ConcatEmptySeq
  <2>3. Unheard(Listener)' = HeardPart(q)' \o MessagesOf(wire'[q])
    BY <1>9 DEF Unheard, HeardPart
  <2> QED BY <2>1, <2>2, <2>3
<1>12. TokenInFlight(Listener)' = FALSE
  <2>1. ~HasToken(wire'[q])
    BY <1>6, <1>8, EmptyHasNoToken
  <2> QED BY <1>9, <2>1 DEF TokenInFlight, HasToken
<1> QED BY <1>3, <1>7, <1>9, <1>10, <1>11, <1>12 DEF Turns!TakeFloor, Turns!Other, Other

LEMMA TurnsStep == TurnsInv /\ TurnsInv' /\ [IpcNext]_ipcVars => [Turns!TurnNext]_(Turns!turnVars)
<1> SUFFICES ASSUME TurnsInv, TurnsInv', [IpcNext]_ipcVars
             PROVE  Turns!TurnNext \/ UNCHANGED Turns!turnVars
  OBVIOUS
<1>1. CASE UNCHANGED ipcVars
  BY <1>1, SameTurns DEF ipcVars
<1>2. ASSUME NEW p \in Peers, IpcStep(p)
      PROVE  Turns!TurnNext \/ UNCHANGED Turns!turnVars
  <2>1. ASSUME NEW m \in Msg, SendMessage(p, m) PROVE Turns!TurnNext
    BY <2>1, SendMessageSays DEF Turns!TurnNext
  <2>2. ASSUME NEW m \in WithBody, SendString(p, m) PROVE Turns!TurnNext
    BY <2>2, SendStringSays, IpcAssumption DEF Turns!TurnNext
  <2>3. CASE SendStringBody(p)
    BY <2>3, SendStringBodyUnnoticed
  <2>4. CASE ReceiveHeader(p)
    BY <2>4, ReceiveHeaderUnnoticed
  <2>5. ASSUME NEW m \in Msg, ReceiveMessage(p, m) PROVE Turns!TurnNext
    BY <2>5, ReceiveMessageHears, ReceiveTokenTakesFloor DEF Turns!TurnNext
  <2>6. CASE AbandonString(p)
    BY <2>6, SameTurns DEF AbandonString
  <2>7. CASE Close(p)
    BY <2>7, SameTurns DEF Close
  <2> QED BY <1>2, <2>1, <2>2, <2>3, <2>4, <2>5, <2>6, <2>7 DEF IpcStep
<1> QED BY <1>1, <1>2 DEF IpcNext

(***************************************************************************)
(* The byte streams implement the conversation in turns: messages arrive   *)
(* once, whole and in order, and the floor changes hands only when the     *)
(* listener has heard everything, for any messages, strings written in two *)
(* calls, and deaths of either process.                                    *)
(***************************************************************************)
THEOREM TurnsAreRefined == IpcSpec => TurnsRefined
<1>1. IpcInit => TurnsInv
  BY InitTurn, InitFramed, InitQuiet DEF TurnsInv
<1>2. TurnsInv /\ [IpcNext]_ipcVars => TurnsInv'
  <2> SUFFICES ASSUME TurnsInv, [IpcNext]_ipcVars PROVE TurnsInv'
    OBVIOUS
  <2>1. TurnInv'
    BY NextKeepsTurn DEF TurnsInv
  <2>2. FramingInv' /\ QuietBehindToken'
    <3>1. CASE IpcNext
      BY <3>1, StepKeepsFraming, StepKeepsQuiet DEF IpcNext, TurnsInv
    <3>2. CASE UNCHANGED ipcVars
      BY <3>2 DEF ipcVars, TurnsInv, FramingInv, TypeOK, QuietBehindToken, TokenInFlight, HasToken
    <3> QED BY <3>1, <3>2
  <2> QED BY <2>1, <2>2 DEF TurnsInv
<1>3. IpcInit => Turns!TurnInit
  BY TurnsInit
<1>4. TurnsInv /\ TurnsInv' /\ [IpcNext]_ipcVars => [Turns!TurnNext]_(Turns!turnVars)
  BY TurnsStep
<1> QED BY <1>1, <1>2, <1>3, <1>4, PTL DEF IpcSpec, TurnsRefined, Turns!TurnSpec
=============================================================================
