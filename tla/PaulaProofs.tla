----------------------------- MODULE PaulaProofs -----------------------------
(***************************************************************************)
(* Proofs about Paula for any number of channels, any line, any output     *)
(* rate and whatever the 68000 writes.                                     *)
(***************************************************************************)
EXTENDS Paula, SincQueue, SequenceTheorems, WellFoundedInduction, TLAPS

\* A channel: every period takes time, what plays has an event ahead, and what
\* does not play adds nothing.
Sound(r) ==
    /\ r \in Channel /\ r.per >= 1
    /\ r.state # 0 => r.evtime >= 1
    /\ r.state \in {0, 1, 5} => r.current = 0

\* A channel that waits for its two lines has its event at the next one.
OnLines(r) ==
    /\ r.state = 1 => r.wanted
    /\ IF pc = "line"
       THEN /\ r.state = 1 => r.evtime = lag
            /\ r.state = 5 => IF r.wanted THEN lag = 0 ELSE r.evtime = lag
            /\ r.state = 5 /\ r.wanted => r.evtime = LinePeriod
       ELSE r.state \in {1, 5} => r.evtime = lag + line /\ (r.state = 5 => ~r.wanted)

\* update_audio() is never behind by more than the line, which calls it.
Lags ==
    /\ lag \in 0..LinePeriod /\ line \in 1..LinePeriod
    /\ pc \in {"cpu", "access", "line"}
    /\ IF pc = "line" THEN line = LinePeriod ELSE lag + line <= LinePeriod

\* The next sample is at least half a cycle away.
Clock == clock \in Int /\ 2 * clock >= Den /\ accum \in Nat

Bits ==
    /\ intreq \subseteq Channels /\ audible \subseteq Channels /\ hand \subseteq Channels
    /\ adk \in [Channels -> SUBSET {"vol", "per"}]

Sounds == DOMAIN ch = Channels /\ ch = [c \in Channels |-> ch[c]] /\ \A c \in Channels : Sound(ch[c])
Lines == \A c \in Channels : OnLines(ch[c])

IInv == Sounds /\ Lines /\ Lags /\ Clock /\ Bits

-----------------------------------------------------------------------------
(* Numbers.                                                                *)

\* Whole cycles are rounded to the nearest.
LEMMA Rounding ==
    ASSUME clock \in Int, 2 * clock >= Den
    PROVE  /\ Rounded \in Nat /\ Rounded >= 1
           /\ 2 * Den * Rounded <= 2 * clock + Den
           /\ 2 * clock + Den < 2 * Den * Rounded + 2 * Den
<1> DEFINE b == 2 * Den
           a == 2 * clock + Den
<1>1. Den \in Nat \ {0} BY PaulaAssumption
<1>2. b \in Nat \ {0} /\ a \in Int /\ a >= b BY <1>1
<1>3. Rounded = a \div b BY DEF Rounded
<1> HIDE DEF a, b
<1>4. a \div b \in Int /\ a % b \in 0..b-1 /\ a = b * (a \div b) + (a % b) BY <1>2
<1>5. a \div b >= 1
  <2>1. CASE a \div b <= 0
    <3>1. b * (a \div b) <= 0 BY <1>2, <1>4, <2>1
    <3> QED BY <1>2, <1>4, <3>1
  <2> QED BY <1>4, <2>1
<1>6. b * Rounded <= a /\ a < b * Rounded + b BY <1>2, <1>3, <1>4
<1> QED BY <1>1, <1>3, <1>4, <1>5, <1>6 DEF a, b

\* A byte of a word is a signed byte.
LEMMA Bytes ==
    ASSUME NEW w \in Nat
    PROVE  /\ HighByte(w) \in -(Byte \div 2) .. (Byte \div 2)
           /\ LowByte(w) \in -(Byte \div 2) .. (Byte \div 2)
<1>1. PICK n \in 1..128 : Byte = 2 * n BY PaulaAssumption
<1>2. Byte \in Nat \ {0} /\ Byte \div 2 = n BY <1>1
<1>3. (w \div Byte) \in Int BY <1>2
<1>4. (w \div Byte) % Byte \in 0..Byte-1 /\ w % Byte \in 0..Byte-1 BY <1>2, <1>3
<1>5. ASSUME NEW x \in 0..Byte-1 PROVE Signed(x) \in -(Byte \div 2) .. (Byte \div 2)
  BY <1>1, <1>2 DEF Signed
<1> QED BY <1>4, <1>5 DEF HighByte, LowByte

LEMMA Sizes ==
    /\ LinePeriod \in Nat \ {0} /\ LenMod \in Nat /\ LenMod > 1
    /\ MaxPer \in Nat /\ MaxPer >= 1 /\ MinPer \in Nat /\ MinPer >= 1 /\ VolMod \in Nat \ {0}
    /\ Data \subseteq Nat /\ 0 \in Nat
    /\ 0 \in -(Byte \div 2) .. (Byte \div 2)
<1>1. PICK n \in 1..128 : Byte = 2 * n BY PaulaAssumption
<1>2. Byte \div 2 = n BY <1>1
<1> QED BY <1>2, PaulaAssumption

LEMMA Counters == ASSUME NEW n \in Int PROVE n % LenMod \in 0..LenMod-1
BY Sizes

-----------------------------------------------------------------------------
(* What each handler makes of a channel.                                   *)

\* A channel whose event is due.
Due(r) == r \in Channel /\ r.per >= 1 /\ (r.state \in {0, 1, 5} => r.current = 0)

\* The pieces a channel is made of, as sets that need not be taken apart.
Words == Data \cup {0}
Counts == 0..LenMod-1
Samples == -(Byte \div 2) .. (Byte \div 2)

LEMMA ChannelFields ==
    Channel =
        [state : {0, 1, 5, 2, 3}, evtime : Nat, dmaen : BOOLEAN, intreq2 : BOOLEAN, wanted : BOOLEAN,
         lc : Nat, len : Counts, per : Nat, vol : Nat,
         pt : Nat, ptend : Nat, wlen : Counts, dat : Words, nextdat : Words, current : Samples]
BY DEF Channel, Words, Counts, Samples

LEMMA DmaStartsSound ==
    ASSUME NEW r, Due(r), NEW w \in Data, r.state = 1
    PROVE  /\ Sound(DmaStarts(r, w))
           /\ DmaStarts(r, w).state = 5 /\ DmaStarts(r, w).evtime = LinePeriod
           /\ DmaStarts(r, w).wanted = r.wanted
<1> DEFINE l == IF r.wlen = 1 THEN 1 ELSE (r.wlen - 1) % LenMod
<1>1. l \in Counts
  <2>1. r.wlen \in 0..LenMod-1 BY DEF Due, Channel
  <2>2. (r.wlen - 1) % LenMod \in 0..LenMod-1 BY <2>1, Counters
  <2> QED BY <2>2, Sizes DEF Counts
<1>2. DmaStarts(r, w) = [r EXCEPT !.evtime = LinePeriod, !.state = 5, !.nextdat = w, !.wlen = l]
  BY DEF DmaStarts
<1> HIDE DEF l
<1>3. w \in Words BY DEF Words
<1>4. DmaStarts(r, w) \in Channel BY <1>1, <1>2, <1>3, Sizes, ChannelFields DEF Due
<1>5. r \in Channel BY DEF Due
<1> QED BY <1>2, <1>4, <1>5, Sizes, ChannelFields DEF Due, Sound

LEMMA FirstWordSound ==
    ASSUME NEW r, Due(r), NEW c, r.state = 5
    PROVE  Sound(FirstWord(r, c)) /\ FirstWord(r, c).state = 2
<1> DEFINE h == HighByte(r.nextdat)
           b == r.wanted \/ napnav(c)
<1>1. r.nextdat \in Words /\ r.nextdat \in Nat BY Sizes, ChannelFields DEF Due, Words
<1>2. h \in Samples BY <1>1, Bytes DEF Samples
<1>3. b \in BOOLEAN OBVIOUS
<1>4. FirstWord(r, c) = [r EXCEPT !.evtime = r.per, !.state = 2, !.dat = r.nextdat,
                                  !.current = h, !.wanted = b] BY DEF FirstWord
<1> HIDE DEF h, b
<1>5. r \in Channel BY DEF Due
<1>6. FirstWord(r, c) \in Channel BY <1>1, <1>2, <1>3, <1>4, <1>5, ChannelFields
<1> QED BY <1>4, <1>5, <1>6, ChannelFields DEF Due, Sound

LEMMA SecondByteSound ==
    ASSUME NEW r, Due(r), NEW c, r.state = 2
    PROVE  Sound(SecondByte(r, c)) /\ SecondByte(r, c).state = 3
<1> DEFINE l == LowByte(r.dat)
           b == r.wanted \/ r.dmaen
           s == [r EXCEPT !.evtime = r.per, !.state = 3, !.current = l]
<1>1. r.dat \in Words /\ r.dat \in Nat /\ r.nextdat \in Words BY Sizes, ChannelFields DEF Due, Words
<1>2. l \in Samples BY <1>1, Bytes DEF Samples
<1>3. b \in BOOLEAN OBVIOUS
<1>4. r \in Channel BY DEF Due
<1> HIDE DEF l
<1>5. s \in Channel BY <1>2, <1>4, ChannelFields
<1>6. Sound(s) /\ s.state = 3 BY <1>4, <1>5, ChannelFields DEF Due, Sound
<1>7. s.wanted = r.wanted BY <1>4, ChannelFields
<1>8. CASE "per" \notin adk[c] BY <1>6, <1>8 DEF SecondByte, l
<1>9. CASE "per" \in adk[c]
  <2>1. SecondByte(r, c) = [s EXCEPT !.intreq2 = FALSE, !.dat = r.nextdat, !.wanted = b]
    BY <1>7, <1>9 DEF SecondByte, l
  <2> HIDE DEF s, b
  <2>2. SecondByte(r, c) \in Channel BY <1>1, <1>3, <1>5, <2>1, ChannelFields
  <2> QED BY <1>5, <1>6, <2>1, <2>2, ChannelFields DEF Sound
<1> QED BY <1>8, <1>9

LEMMA NextWordSound ==
    ASSUME NEW r, Due(r), NEW c, r.state = 3
    PROVE  Sound(NextWord(r, c)) /\ NextWord(r, c).state \in {0, 2}
<1> DEFINE h == HighByte(r.nextdat)
           b == r.wanted \/ (r.dmaen /\ napnav(c))
<1>1. r.nextdat \in Words /\ r.nextdat \in Nat BY Sizes, ChannelFields DEF Due, Words
<1>2. h \in Samples /\ 0 \in Samples BY <1>1, Bytes, Sizes DEF Samples
<1>3. b \in BOOLEAN OBVIOUS
<1>4. r \in Channel BY DEF Due
<1>5. CASE Stops(r, c)
  <2>1. NextWord(r, c) = [r EXCEPT !.evtime = r.per, !.state = 0, !.current = 0] BY <1>5 DEF NextWord
  <2>2. NextWord(r, c) \in Channel BY <1>2, <1>4, <2>1, ChannelFields
  <2> QED BY <1>4, <2>1, <2>2, ChannelFields DEF Due, Sound
<1>6. CASE ~Stops(r, c)
  <2>1. NextWord(r, c) = [r EXCEPT !.evtime = r.per, !.state = 2, !.intreq2 = FALSE, !.dat = r.nextdat,
                                   !.current = h, !.wanted = b] BY <1>6 DEF NextWord
  <2> HIDE DEF h, b
  <2>2. NextWord(r, c) \in Channel BY <1>1, <1>2, <1>3, <1>4, <2>1, ChannelFields
  <2> QED BY <1>4, <2>1, <2>2, ChannelFields DEF Due, Sound
<1> QED BY <1>5, <1>6

\* Only a channel in state 1 comes to wait for the second line.
LEMMA HandlerSound ==
    ASSUME NEW r, Due(r), NEW c, NEW w \in Data, r.state # 0
    PROVE  /\ Sound(audio_handler(r, c, w))
           /\ r.state = 1 => /\ audio_handler(r, c, w).state = 5
                             /\ audio_handler(r, c, w).evtime = LinePeriod
                             /\ audio_handler(r, c, w).wanted = r.wanted
           /\ r.state # 1 => audio_handler(r, c, w).state \in {0, 2, 3}
<1>1. r.state \in {1, 5, 2, 3} BY ChannelFields DEF Due
<1>2. CASE r.state = 1 BY <1>2, DmaStartsSound DEF audio_handler
<1>3. CASE r.state = 5
  <2>1. audio_handler(r, c, w) = FirstWord(r, c) BY <1>3 DEF audio_handler
  <2> QED BY <1>3, <2>1, FirstWordSound
<1>4. CASE r.state = 2
  <2>1. audio_handler(r, c, w) = SecondByte(r, c) BY <1>4 DEF audio_handler
  <2> QED BY <1>4, <2>1, SecondByteSound
<1>5. CASE r.state = 3
  <2>1. audio_handler(r, c, w) = NextWord(r, c) BY <1>5 DEF audio_handler
  <2> QED BY <1>5, <2>1, NextWordSound
<1> QED BY <1>1, <1>2, <1>3, <1>4, <1>5

\* What the channel before leaves is another period or volume.
LEMMA ModulatedSound ==
    ASSUME Sounds, NEW c \in Channels, NEW due \in SUBSET Channels
    PROVE  \E p, v \in Nat : p >= 1 /\ Modulated(c, due) = [ch[c] EXCEPT !.per = p, !.vol = v]
<1>1. ch[c] \in Channel /\ ch[c].per >= 1 BY DEF Sounds, Sound
<1>2. ch[c].per \in Nat /\ ch[c].vol \in Nat BY <1>1, ChannelFields
<1>3. ch[c] = [ch[c] EXCEPT !.per = ch[c].per, !.vol = ch[c].vol] BY <1>1, ChannelFields
<1>4. CASE c = 0 \/ (c - 1) \notin due
  <2>1. Modulated(c, due) = ch[c] BY <1>4 DEF Modulated
  <2> QED BY <1>1, <1>2, <1>3, <2>1
<1>5. CASE c # 0 /\ (c - 1) \in due
  <2> DEFINE x == ch[c - 1].nextdat
  <2>1. x \in Nat
    <3>1. ch[c - 1] \in Channel BY <1>5 DEF Sounds, Sound
    <3> QED BY <3>1, Sizes, ChannelFields DEF Words
  <2>2. PeriodOf(x) \in Nat /\ PeriodOf(x) >= 1 BY <2>1, Sizes DEF PeriodOf
  <2>3. \/ Modulated(c, due) = [ch[c] EXCEPT !.per = PeriodOf(x)]
        \/ Modulated(c, due) = [ch[c] EXCEPT !.vol = x]
        \/ Modulated(c, due) = ch[c]
    BY <1>5 DEF Modulated
  <2> HIDE DEF x
  <2>4. CASE Modulated(c, due) = [ch[c] EXCEPT !.per = PeriodOf(x)]
    <3>1. Modulated(c, due) = [ch[c] EXCEPT !.per = PeriodOf(x), !.vol = ch[c].vol]
      BY <1>1, <2>4, ChannelFields
    <3> QED BY <1>2, <2>2, <3>1
  <2>5. CASE Modulated(c, due) = [ch[c] EXCEPT !.vol = x]
    <3>1. Modulated(c, due) = [ch[c] EXCEPT !.per = ch[c].per, !.vol = x]
      BY <1>1, <2>5, ChannelFields
    <3> QED BY <1>1, <1>2, <2>1, <3>1
  <2>6. CASE Modulated(c, due) = ch[c] BY <1>1, <1>2, <1>3, <2>6
  <2> QED BY <2>3, <2>4, <2>5, <2>6
<1> QED BY <1>4, <1>5

-----------------------------------------------------------------------------
(* A turn of update_audio().                                               *)

\* Each turn takes at least a cycle, and none goes beyond an event.
LEMMA TurnTakesTime ==
    ASSUME Sounds, Clock, Lags, Updating, NEW n \in Best
    PROVE  /\ n \in Nat /\ n >= 1 /\ n <= lag /\ n <= Rounded
           /\ \A c \in Active : n <= ch[c].evtime
<1>1. Rounded \in Nat /\ Rounded >= 1 BY Rounding DEF Clock
<1>2. lag \in Nat /\ lag >= 1 BY Sizes DEF Lags, Updating
<1>3. \A c \in Active : ch[c].evtime \in Nat /\ ch[c].evtime >= 1
  BY ChannelFields DEF Active, Sounds, Sound
<1>4. n \in Times /\ \A m \in Times : n <= m BY DEF Best
<1>5. \A m \in Times : m \in Nat /\ m >= 1 BY <1>1, <1>2, <1>3 DEF Times
<1> QED BY <1>4, <1>5 DEF Times

LEMMA TurnKeepsClock ==
    ASSUME Sounds, Clock, Lags, Updating, NEW n \in Best, Turn(n)
    PROVE  Clock'
<1>1. n \in Nat /\ n >= 1 /\ n <= Rounded BY TurnTakesTime
<1>2. /\ Rounded \in Nat /\ 2 * Den * Rounded <= 2 * clock + Den
      /\ 2 * clock + Den < 2 * Den * Rounded + 2 * Den
  BY Rounding DEF Clock
<1>3. Den \in Nat \ {0} /\ Num \in Nat /\ Num >= Den BY PaulaAssumption
<1>4. accum' \in Nat BY <1>1 DEF Turn, AccumAfter, Clock
<1>5. CASE SampleDue(n)
  <2>1. n = Rounded BY <1>5 DEF SampleDue
  <2>2. clock' = clock - Den * n + Num BY <1>5 DEF Turn, ClockAfter
  <2> DEFINE x == Den * n
  <2>3. x \in Int /\ 2 * x <= 2 * clock + Den /\ clock' = clock - x + Num
    BY <1>1, <1>2, <1>3, <2>1, <2>2
  <2> HIDE DEF x
  <2> QED BY <1>3, <1>4, <2>3 DEF Clock
<1>6. CASE ~SampleDue(n)
  <2>1. n <= Rounded - 1 BY <1>1, <1>2, <1>6 DEF SampleDue
  <2>2. clock' = clock - Den * n BY <1>1, <1>3, <1>6 DEF Turn, ClockAfter, Clock
  <2> DEFINE x == Den * n
             y == Den * Rounded
  <2>3. x \in Int /\ y \in Int /\ x <= y - Den /\ 2 * y <= 2 * clock + Den
    <3>1. x \in Int /\ y \in Int BY <1>1, <1>2, <1>3
    <3>2. Den * (Rounded - 1 - n) >= 0 BY <1>1, <1>2, <1>3, <2>1
    <3> QED BY <1>1, <1>2, <1>3, <3>1, <3>2
  <2>4. clock' = clock - x BY <2>2
  <2> HIDE DEF x, y
  <2> QED BY <1>3, <1>4, <2>3, <2>4 DEF Clock
<1> QED BY <1>5, <1>6

LEMMA TurnKeepsLags ==
    ASSUME Sounds, Clock, Lags, Updating, NEW n \in Best, Turn(n)
    PROVE  Lags' /\ lag' = lag - n /\ lag' \in Nat /\ line' = line /\ pc' = pc
<1>1. n \in Nat /\ n >= 1 /\ n <= lag BY TurnTakesTime
<1> QED BY <1>1, Sizes DEF Lags, Turn

\* Each channel is handled if it is due, and otherwise as long ahead as before.
LEMMA TurnPerChannel ==
    ASSUME Sounds, Clock, Lags, Updating, NEW n \in Best, Turn(n), NEW c \in Channels
    PROVE  \/ /\ ch[c].state # 0 /\ ch[c].evtime = n
              /\ Sound(ch'[c])
              /\ ch[c].state = 1 => /\ ch'[c].state = 5 /\ ch'[c].evtime = LinePeriod
                                    /\ ch'[c].wanted = ch[c].wanted
              /\ ch[c].state # 1 => ch'[c].state \in {0, 2, 3}
           \/ /\ ch[c].state = 0 \/ ch[c].evtime > n
              /\ Sound(ch'[c]) /\ ch'[c].state = ch[c].state /\ ch'[c].wanted = ch[c].wanted
              /\ ch[c].state # 0 => ch'[c].evtime = ch[c].evtime - n
<1> DEFINE due == {d \in Active : ch[d].evtime = n}
           m == Modulated(c, due)
           r == Elapsed(m, n)
<1>1. n \in Nat /\ n >= 1 /\ \A d \in Active : n <= ch[d].evtime BY TurnTakesTime
<1>2. due \in SUBSET Channels BY DEF Active
<1>3. PICK p, v \in Nat : p >= 1 /\ m = [ch[c] EXCEPT !.per = p, !.vol = v] BY <1>2, ModulatedSound
<1>4. PICK w \in [due -> Data] : ch'[c] = IF c \in due THEN audio_handler(r, c, w[c]) ELSE r
  BY DEF Turn
<1>5. Sound(ch[c]) BY DEF Sounds
<1>6. ch[c].state # 0 <=> c \in Active BY DEF Active
<1> HIDE DEF due
<1>7. ch[c].state # 0 => ch[c].evtime \in Nat /\ n <= ch[c].evtime
  BY <1>1, <1>5, <1>6, ChannelFields DEF Sound
<1>8. m \in Channel BY <1>3, <1>5, ChannelFields DEF Sound
<1>9. /\ m.per = p /\ m.state = ch[c].state /\ m.evtime = ch[c].evtime
      /\ m.wanted = ch[c].wanted /\ m.current = ch[c].current
  BY <1>3, <1>5, ChannelFields DEF Sound
<1> HIDE DEF m
<1>10. /\ r \in Channel /\ r.per = p /\ r.state = ch[c].state
       /\ r.wanted = ch[c].wanted /\ r.current = ch[c].current
       /\ ch[c].state # 0 => r.evtime = ch[c].evtime - n
  <2>1. CASE m.state = 0 BY <1>8, <1>9, <2>1 DEF Elapsed
  <2>2. CASE m.state # 0
    <3>1. r = [m EXCEPT !.evtime = m.evtime - n] BY <2>2 DEF Elapsed
    <3>2. m.evtime - n \in Nat BY <1>1, <1>7, <1>9, <2>2
    <3> HIDE DEF r
    <3> QED BY <1>8, <1>9, <3>1, <3>2, ChannelFields
  <2> QED BY <2>1, <2>2
<1> HIDE DEF r
<1>11. Due(r) BY <1>3, <1>5, <1>10 DEF Due, Sound
<1>12. CASE c \in due
  <2>1. ch[c].state # 0 /\ ch[c].evtime = n BY <1>12 DEF due, Active
  <2>2. w[c] \in Data /\ ch'[c] = audio_handler(r, c, w[c]) BY <1>4, <1>12
  <2> QED BY <1>10, <1>11, <2>1, <2>2, HandlerSound
<1>13. CASE c \notin due
  <2>1. ch'[c] = r BY <1>4, <1>13
  <2>2. ch[c].state # 0 => ch[c].evtime > n BY <1>1, <1>6, <1>7, <1>13 DEF due
  <2>3. r.state # 0 => r.evtime >= 1 BY <1>1, <1>7, <1>10, <2>2
  <2>4. Sound(r) BY <1>3, <1>5, <1>10, <2>3 DEF Sound
  <2> QED BY <1>10, <2>1, <2>2, <2>4
<1> QED BY <1>12, <1>13

LEMMA TurnKeeps ==
    ASSUME IInv, Updating, NEW n \in Best, Turn(n)
    PROVE  IInv'
<1>1. n \in Nat /\ n >= 1 /\ n <= lag /\ lag \in Nat BY TurnTakesTime, Sizes DEF IInv, Lags
<1>2. Lags' /\ lag' = lag - n /\ line' = line /\ pc' = pc BY TurnKeepsLags DEF IInv
<1>3. Clock' BY TurnKeepsClock DEF IInv
<1>4. Bits'
  <2>1. intreq' \subseteq Channels BY DEF IInv, Bits, Turn, Active
  <2> QED BY <2>1 DEF IInv, Bits, Turn
<1>5. Sounds'
  <2>1. \A c \in Channels : Sound(ch'[c]) BY TurnPerChannel DEF IInv
  <2>2. DOMAIN ch' = Channels /\ ch' = [c \in Channels |-> ch'[c]] BY DEF Turn
  <2> QED BY <2>1, <2>2 DEF Sounds, Sound
<1>6. ASSUME NEW c \in Channels PROVE OnLines(ch[c])'
  <2>1. OnLines(ch[c]) /\ Sound(ch[c]) /\ ch[c].evtime \in Nat /\ ch[c].state \in {0, 1, 5, 2, 3}
    BY ChannelFields DEF IInv, Lines, Sounds, Sound
  <2>2. line \in Nat /\ line >= 1 /\ LinePeriod \in Nat BY Sizes DEF IInv, Lags
  <2>3. CASE /\ ch[c].state # 0 /\ ch[c].evtime = n
             /\ ch[c].state = 1 => /\ ch'[c].state = 5 /\ ch'[c].evtime = LinePeriod
                                   /\ ch'[c].wanted = ch[c].wanted
             /\ ch[c].state # 1 => ch'[c].state \in {0, 2, 3}
    BY <1>1, <1>2, <2>1, <2>2, <2>3 DEF OnLines
  <2>4. CASE /\ ch[c].state = 0 \/ ch[c].evtime > n
             /\ ch'[c].state = ch[c].state /\ ch'[c].wanted = ch[c].wanted
             /\ ch[c].state # 0 => ch'[c].evtime = ch[c].evtime - n
    BY <1>1, <1>2, <2>1, <2>2, <2>4 DEF OnLines
  <2> QED BY <2>3, <2>4, TurnPerChannel DEF IInv
<1> QED BY <1>2, <1>3, <1>4, <1>5, <1>6 DEF IInv, Lines

-----------------------------------------------------------------------------
(* The other steps.                                                        *)

LEMMA Stopped == Sound(ResetChannel) /\ ResetChannel.state = 0
<1>1. ResetChannel \in Channel
  <2>1. 0 \in Words /\ 0 \in Counts /\ 0 \in Samples /\ MaxPer \in Nat
    BY Sizes DEF Words, Counts, Samples
  <2> QED BY <2>1, ChannelFields DEF ResetChannel
<1> QED BY <1>1, Sizes DEF Sound, ResetChannel

LEMMA InitHolds == Init => IInv
<1> SUFFICES ASSUME Init PROVE IInv OBVIOUS
<1>1. \A c \in Channels : ch[c] = ResetChannel BY DEF Init
<1>2. Sounds BY <1>1, Stopped DEF Init, Sounds
<1>3. Lines BY <1>1, Stopped DEF Init, Lines, OnLines
<1>4. Lags BY Sizes DEF Init, Lags
<1>5. Clock BY PaulaAssumption DEF Init, Clock
<1>6. Bits BY DEF Init, Bits
<1> QED BY <1>2, <1>3, <1>4, <1>5, <1>6 DEF IInv

LEMMA ResetKeeps == IInv /\ customreset => IInv'
<1> SUFFICES ASSUME IInv, customreset PROVE IInv' OBVIOUS
<1>1. \A c \in Channels : ch'[c] = ResetChannel BY DEF customreset
<1>2. Sounds' BY <1>1, Stopped DEF customreset, Sounds
<1>3. Lines' BY <1>1, Stopped DEF customreset, Lines, OnLines
<1>4. Lags' BY Sizes DEF customreset, Lags
<1>5. Clock' BY PaulaAssumption DEF customreset, Clock
<1>6. Bits' BY DEF customreset, IInv, Bits
<1> QED BY <1>2, <1>3, <1>4, <1>5, <1>6 DEF IInv

\* A cycle brings the line, and with it the event of a channel that waits, nearer.
LEMMA CycleKeeps == IInv /\ Cycle => IInv'
<1> SUFFICES ASSUME IInv, Cycle PROVE IInv' OBVIOUS
<1>1. Sounds' /\ Clock' /\ Bits' BY DEF IInv, Sounds, Clock, Bits, Cycle
<1>2. Lags' BY Sizes DEF IInv, Lags, Cycle
<1>3. ASSUME NEW c \in Channels PROVE OnLines(ch[c])'
  BY Sizes DEF IInv, Lines, Lags, OnLines, Cycle
<1> QED BY <1>1, <1>2, <1>3 DEF IInv, Lines

LEMMA FetchedSound ==
    ASSUME NEW r, Sound(r), NEW w \in Data
    PROVE  /\ Sound(Fetched(r, w)) /\ ~Fetched(r, w).wanted
           /\ Fetched(r, w).state = r.state /\ Fetched(r, w).evtime = r.evtime
<1> DEFINE q == IF r.wlen = 1 THEN r.pt ELSE r.pt + 1
           l == (r.wlen - 1) % LenMod
           e == SampleEnd(r.lc, r.len)
           s == [r EXCEPT !.wanted = FALSE, !.nextdat = w, !.pt = q]
<1>1. r \in Channel /\ r.len \in Counts /\ r.wlen \in Counts /\ r.lc \in Nat
  BY ChannelFields DEF Sound
<1>2. q \in Nat BY <1>1, ChannelFields
<1>3. l \in Counts BY <1>1, Counters, Sizes DEF Counts
<1>4. e \in Nat BY <1>1, Sizes DEF Counts, SampleEnd
<1>5. w \in Words BY DEF Words
<1>6. Fetched(r, w) = IF r.state \notin {2, 3} THEN s
                      ELSE IF r.wlen = 1 THEN [s EXCEPT !.pt = r.lc, !.ptend = e, !.wlen = r.len, !.intreq2 = TRUE]
                      ELSE [s EXCEPT !.wlen = l]
  <2>1. s.wlen = r.wlen BY <1>1, ChannelFields
  <2> QED BY <2>1 DEF Fetched
<1> HIDE DEF q, l, e
<1>7. s \in Channel BY <1>1, <1>2, <1>5, ChannelFields
<1>8. /\ s.state = r.state /\ s.evtime = r.evtime /\ s.current = r.current
      /\ s.per = r.per /\ s.wanted = FALSE
  BY <1>1, ChannelFields
<1> HIDE DEF s
<1>9. CASE r.state \notin {2, 3} BY <1>6, <1>7, <1>8, <1>9 DEF Sound
<1>10. CASE r.state \in {2, 3} /\ r.wlen = 1
  <2> DEFINE t == [s EXCEPT !.pt = r.lc, !.ptend = e, !.wlen = r.len, !.intreq2 = TRUE]
  <2>1. t \in Channel BY <1>1, <1>4, <1>7, ChannelFields
  <2>2. /\ t.state = r.state /\ t.evtime = r.evtime /\ t.current = r.current
        /\ t.per = r.per /\ t.wanted = FALSE
    BY <1>7, <1>8, ChannelFields
  <2>3. Fetched(r, w) = t BY <1>6, <1>10
  <2> HIDE DEF t
  <2> QED BY <2>1, <2>2, <2>3 DEF Sound
<1>11. CASE r.state \in {2, 3} /\ r.wlen # 1
  <2> DEFINE t == [s EXCEPT !.wlen = l]
  <2>1. t \in Channel BY <1>3, <1>7, ChannelFields
  <2>2. /\ t.state = r.state /\ t.evtime = r.evtime /\ t.current = r.current
        /\ t.per = r.per /\ t.wanted = FALSE
    BY <1>7, <1>8, ChannelFields
  <2>3. Fetched(r, w) = t BY <1>6, <1>11
  <2> HIDE DEF t
  <2> QED BY <2>1, <2>2, <2>3 DEF Sound
<1> QED BY <1>9, <1>10, <1>11

\* After the line's fetch, a channel that waits for the second line waits for no word.
LEMMA FetchKeeps == IInv /\ hsync_handler => IInv'
<1> SUFFICES ASSUME IInv, hsync_handler PROVE IInv' OBVIOUS
<1> DEFINE wanting == {c \in Channels : ch[c].wanted}
<1>1. PICK w \in [wanting -> Data] :
         ch' = [c \in Channels |-> IF c \in wanting THEN Fetched(ch[c], w[c]) ELSE ch[c]]
  BY DEF hsync_handler
<1>2. Lags' /\ Clock' /\ Bits' BY Sizes DEF IInv, Lags, Clock, Bits, hsync_handler
<1>3. ASSUME NEW c \in Channels
      PROVE  /\ Sound(ch'[c]) /\ ch'[c].state = ch[c].state /\ ch'[c].evtime = ch[c].evtime
             /\ ~ch'[c].wanted
  <2>1. Sound(ch[c]) /\ ch[c].wanted \in BOOLEAN BY ChannelFields DEF IInv, Sounds, Sound
  <2>2. CASE c \in wanting
    <3>1. ch'[c] = Fetched(ch[c], w[c]) /\ w[c] \in Data BY <1>1, <2>2
    <3> QED BY <2>1, <3>1, FetchedSound
  <2>3. CASE c \notin wanting BY <1>1, <2>1, <2>3
  <2> QED BY <2>2, <2>3
<1>4. Sounds' BY <1>1, <1>3 DEF Sounds
<1>5. ASSUME NEW c \in Channels PROVE OnLines(ch[c])'
  <2>1. OnLines(ch[c]) /\ Sound(ch[c]) /\ ch[c].evtime \in Nat
    BY ChannelFields DEF IInv, Lines, Sounds, Sound
  <2>2. pc = "line" /\ lag = 0 /\ line = LinePeriod /\ LinePeriod \in Nat /\ pc' = "cpu" /\ lag' = lag /\ line' = line
    BY Sizes DEF IInv, Lags, hsync_handler
  <2> QED BY <1>3, <2>1, <2>2 DEF OnLines, Sound
<1> QED BY <1>2, <1>4, <1>5 DEF IInv, Lines

\* A write changes channels without touching those that wait, but to stop or to
\* start them.
Kept(r, s) ==
    /\ Sound(s)
    /\ \/ s.state = r.state /\ s.evtime = r.evtime /\ s.wanted = r.wanted
       \/ s.state \in {0, 2}
       \/ s.state = 1 /\ s.wanted /\ s.evtime = line

LEMMA WriteKeeps ==
    ASSUME IInv, NEW new, Write(new), Bits',
           DOMAIN new = Channels, new = [c \in Channels |-> new[c]],
           \A c \in Channels : Kept(ch[c], new[c])
    PROVE  IInv'
<1>1. ch' = new /\ pc = "access" /\ pc' = "cpu" /\ lag = 0 /\ UNCHANGED <<lag, line, clock, accum>>
  BY DEF Write
<1>2. Lags' /\ Clock' BY <1>1, Sizes DEF IInv, Lags, Clock
<1>3. Sounds' BY <1>1 DEF Sounds, Kept
<1>4. ASSUME NEW c \in Channels PROVE OnLines(ch[c])'
  <2>1. OnLines(ch[c]) /\ Kept(ch[c], ch'[c]) BY <1>1 DEF IInv, Lines
  <2>2. line \in Nat BY Sizes DEF IInv, Lags
  <2> QED BY <1>1, <2>1, <2>2 DEF OnLines, Kept
<1> QED BY <1>2, <1>3, <1>4 DEF IInv, Lines

\* Latches are written one at a time.
LEMMA SetKeeps ==
    ASSUME IInv, NEW c \in Channels, NEW field \in {"lc", "len", "per", "vol"}, NEW v \in Nat,
           field = "len" => v \in Counts, field = "per" => v >= 1, Set(c, field, v)
    PROVE  IInv'
<1> DEFINE s == [ch[c] EXCEPT ![field] = v]
           new == [ch EXCEPT ![c] = s]
<1>1. \A d \in Channels : Sound(ch[d]) /\ ch[d] \in Channel BY DEF IInv, Sounds, Sound
<1>2. Sound(s) /\ s.state = ch[c].state /\ s.evtime = ch[c].evtime /\ s.wanted = ch[c].wanted
  <2>1. CASE field = "lc" BY <1>1, <2>1, ChannelFields DEF Sound
  <2>2. CASE field = "len" BY <1>1, <2>2, ChannelFields DEF Sound
  <2>3. CASE field = "per" BY <1>1, <2>3, ChannelFields DEF Sound
  <2>4. CASE field = "vol" BY <1>1, <2>4, ChannelFields DEF Sound
  <2> QED BY <2>1, <2>2, <2>3, <2>4
<1>3. Write(new) /\ Bits' BY DEF Set, IInv, Bits
<1> HIDE DEF s
<1>4. \A d \in Channels : Kept(ch[d], new[d]) BY <1>1, <1>2 DEF IInv, Sounds, Kept
<1>5. DOMAIN new = Channels /\ new = [d \in Channels |-> new[d]] BY DEF IInv, Sounds
<1> HIDE DEF new
<1> QED BY <1>3, <1>4, <1>5, WriteKeeps

LEMMA LatchesKeep ==
    ASSUME IInv, NEW c \in Channels,
           \/ \E a \in Starts : AUDxLC(c, a)
           \/ \E v \in Lengths : AUDxLEN(c, v)
           \/ \E v \in Periods : AUDxPER(c, v)
           \/ \E v \in Volumes : AUDxVOL(c, v)
    PROVE  IInv'
<1>1. ASSUME NEW a \in Starts, AUDxLC(c, a) PROVE IInv'
  <2>1. a \in Nat /\ Set(c, "lc", a) BY <1>1, PaulaAssumption DEF AUDxLC
  <2> QED BY <2>1, SetKeeps
<1>2. ASSUME NEW v \in Lengths, AUDxLEN(c, v) PROVE IInv'
  <2>1. v \in Counts /\ v \in Nat /\ Set(c, "len", v)
    BY <1>2, PaulaAssumption, Sizes DEF AUDxLEN, Counts
  <2> QED BY <2>1, SetKeeps
<1>3. ASSUME NEW v \in Periods, AUDxPER(c, v) PROVE IInv'
  <2> DEFINE p == IF v = 0 THEN MaxPer ELSE IF v < MinPer THEN MinPer ELSE v
  <2>1. p \in Nat /\ p >= 1 BY PaulaAssumption, Sizes
  <2>2. Set(c, "per", p) BY <1>3 DEF AUDxPER
  <2> HIDE DEF p
  <2> QED BY <2>1, <2>2, SetKeeps
<1>4. ASSUME NEW v \in Volumes, AUDxVOL(c, v) PROVE IInv'
  <2> DEFINE p == IF (v \div VolMod) % 2 = 1 THEN VolMod - 1 ELSE v % VolMod
  <2>1. v \in Nat /\ VolMod \in Nat \ {0} BY PaulaAssumption, Sizes
  <2>2. p \in Nat BY <2>1
  <2>3. Set(c, "vol", p) BY <1>4 DEF AUDxVOL
  <2> HIDE DEF p
  <2> QED BY <2>2, <2>3, SetKeeps
<1> QED BY <1>1, <1>2, <1>3, <1>4

LEMMA DataKeeps ==
    ASSUME IInv, NEW c \in Channels, NEW v \in Data, AUDxDAT(c, v)
    PROVE  IInv'
<1> DEFINE starts == ch[c].state = 0 /\ c \notin intreq
           s == [ch[c] EXCEPT !.dat = v]
           t == IF starts THEN [s EXCEPT !.state = 2, !.evtime = s.per] ELSE s
           new == [ch EXCEPT ![c] = t]
<1>1. \A d \in Channels : Sound(ch[d]) /\ ch[d] \in Channel BY DEF IInv, Sounds, Sound
<1>2. v \in Words BY DEF Words
<1>3. /\ s \in Channel /\ s.state = ch[c].state /\ s.evtime = ch[c].evtime /\ s.wanted = ch[c].wanted
      /\ s.per = ch[c].per /\ s.current = ch[c].current
  BY <1>1, <1>2, ChannelFields
<1>4. Write(new) /\ Bits' BY DEF AUDxDAT, IInv, Bits
<1> HIDE DEF s
<1>5. Kept(ch[c], t)
  <2>1. CASE starts
    <3>1. t = [s EXCEPT !.state = 2, !.evtime = s.per] BY <2>1
    <3>2. s.per \in Nat BY <1>3, ChannelFields
    <3>3. t \in Channel /\ t.state = 2 /\ t.evtime = s.per /\ t.per = s.per
      BY <1>3, <3>1, <3>2, ChannelFields
    <3> HIDE DEF t
    <3> QED BY <1>1, <1>3, <3>3 DEF Kept, Sound
  <2>2. CASE ~starts
    <3>1. t = s BY <2>2
    <3> QED BY <1>1, <1>3, <3>1 DEF Kept, Sound
  <2> QED BY <2>1, <2>2
<1> HIDE DEF t
<1>6. \A d \in Channels : Kept(ch[d], new[d]) BY <1>1, <1>5 DEF IInv, Sounds, Kept
<1>7. DOMAIN new = Channels /\ new = [d \in Channels |-> new[d]] BY DEF IInv, Sounds
<1> HIDE DEF new
<1> QED BY <1>4, <1>6, <1>7, WriteKeeps

LEMMA DmaOnKept ==
    ASSUME IInv, NEW r, Sound(r)
    PROVE  Kept(r, DmaOn(r))
<1> DEFINE e == SampleEnd(r.lc, r.len)
<1>1. r \in Channel /\ r.lc \in Nat /\ r.len \in Counts BY ChannelFields DEF Sound
<1>2. e \in Nat BY <1>1, Sizes DEF Counts, SampleEnd
<1>3. line \in Nat /\ line >= 1 BY Sizes DEF IInv, Lags
<1>4. CASE r.state # 0
  <2>1. DmaOn(r) = [r EXCEPT !.dmaen = TRUE] BY <1>4 DEF DmaOn
  <2>2. DmaOn(r) \in Channel BY <1>1, <2>1, ChannelFields
  <2> QED BY <1>1, <2>1, <2>2, ChannelFields DEF Kept, Sound
<1>5. CASE r.state = 0
  <2>1. DmaOn(r) = [r EXCEPT !.dmaen = TRUE, !.state = 1, !.pt = r.lc, !.ptend = e,
                             !.wlen = r.len, !.wanted = TRUE, !.evtime = line] BY <1>5 DEF DmaOn
  <2> HIDE DEF e
  <2>2. DmaOn(r) \in Channel BY <1>1, <1>2, <1>3, <2>1, ChannelFields
  <2> QED BY <1>1, <1>3, <1>5, <2>1, <2>2, ChannelFields DEF Kept, Sound
<1> QED BY <1>4, <1>5

LEMMA DmaOffKept ==
    ASSUME IInv, NEW r, Sound(r)
    PROVE  Kept(r, DmaOff(r))
<1>1. r \in Channel BY DEF Sound
<1>2. CASE r.state \notin {1, 5}
  <2>1. DmaOff(r) = [r EXCEPT !.dmaen = FALSE] BY <1>2 DEF DmaOff
  <2>2. DmaOff(r) \in Channel BY <1>1, <2>1, ChannelFields
  <2> QED BY <1>1, <2>1, <2>2, ChannelFields DEF Kept, Sound
<1>3. CASE r.state \in {1, 5}
  <2>1. DmaOff(r) = [r EXCEPT !.dmaen = FALSE, !.state = 0, !.current = 0] BY <1>3 DEF DmaOff
  <2>2. 0 \in Samples BY Sizes DEF Samples
  <2>3. DmaOff(r) \in Channel BY <1>1, <2>1, <2>2, ChannelFields
  <2> QED BY <1>1, <2>1, <2>3, ChannelFields DEF Kept, Sound
<1> QED BY <1>2, <1>3

LEMMA DmaKeeps ==
    ASSUME IInv, NEW set \in BOOLEAN, NEW bits \in SUBSET Channels, DMACON(set, bits)
    PROVE  IInv'
<1> DEFINE on == {c \in Channels : ch[c].dmaen}
           to == IF set THEN on \cup bits ELSE on \ bits
           new == [c \in Channels |-> IF c \in to THEN DmaOn(ch[c]) ELSE DmaOff(ch[c])]
<1>1. \A c \in Channels : Sound(ch[c]) BY DEF IInv, Sounds
<1>2. Write(new) /\ Bits' BY DEF DMACON, IInv, Bits
<1> HIDE DEF to
<1>3. \A c \in Channels : Kept(ch[c], new[c])
  <2> TAKE c \in Channels
  <2>1. Kept(ch[c], DmaOn(ch[c])) BY <1>1, DmaOnKept
  <2>2. Kept(ch[c], DmaOff(ch[c])) BY <1>1, DmaOffKept
  <2> QED BY <2>1, <2>2
<1>4. DOMAIN new = Channels /\ new = [c \in Channels |-> new[c]] OBVIOUS
<1> HIDE DEF new
<1> QED BY <1>2, <1>3, <1>4, WriteKeeps

LEMMA AdkKeeps ==
    ASSUME IInv, NEW set \in BOOLEAN, NEW bits \in [Channels -> SUBSET {"vol", "per"}], ADKCON(set, bits)
    PROVE  IInv'
<1>1. Bits'
  <2>1. adk' = [c \in Channels |-> IF set THEN adk[c] \cup bits[c] ELSE adk[c] \ bits[c]]
    BY DEF ADKCON
  <2>2. \A c \in Channels : adk[c] \subseteq {"vol", "per"} /\ bits[c] \subseteq {"vol", "per"}
    BY DEF IInv, Bits
  <2>3. adk' \in [Channels -> SUBSET {"vol", "per"}] BY <2>1, <2>2
  <2> QED BY <2>3 DEF ADKCON, IInv, Bits
<1>2. Write(ch) /\ DOMAIN ch = Channels /\ ch = [c \in Channels |-> ch[c]] BY DEF ADKCON, IInv, Sounds
<1>3. \A c \in Channels : Kept(ch[c], ch[c]) BY DEF IInv, Sounds, Kept
<1> QED BY <1>1, <1>2, <1>3, WriteKeeps

LEMMA AccessKeeps == IInv /\ Access => IInv'
<1> SUFFICES ASSUME IInv, Access PROVE IInv' OBVIOUS
<1>1. ByHand \subseteq Channels BY PaulaAssumption
<1> QED BY <1>1, LatchesKeep, DataKeeps, DmaKeeps, AdkKeeps DEF Access

\* What leaves the channels and the time as they are.
LEMMA OthersKeep ==
    ASSUME IInv,
           \/ BeginAccess
           \/ \E set \in BOOLEAN, bits \in SUBSET Channels : INTREQ(set, bits)
           \/ UNCHANGED vars
    PROVE  IInv'
<1>1. UNCHANGED <<ch, lag, line, clock, accum>> /\ (pc' = pc \/ (pc = "cpu" /\ pc' = "access"))
  BY DEF BeginAccess, INTREQ, vars
<1>2. Bits' BY DEF IInv, Bits, BeginAccess, INTREQ, vars
<1>3. Sounds' /\ Clock' BY <1>1 DEF IInv, Sounds, Clock
<1>4. Lags' BY <1>1 DEF IInv, Lags
<1>5. Lines' BY <1>1 DEF IInv, Lines, OnLines
<1> QED BY <1>2, <1>3, <1>4, <1>5 DEF IInv

LEMMA StepKeeps == IInv /\ [Next]_vars => IInv'
<1> SUFFICES ASSUME IInv, [Next]_vars PROVE IInv' OBVIOUS
<1>1. CASE update_audio BY <1>1, TurnKeeps DEF update_audio
<1>2. CASE Cycle BY <1>2, CycleKeeps
<1>3. CASE hsync_handler BY <1>3, FetchKeeps
<1>4. CASE Access BY <1>4, AccessKeeps
<1>5. CASE customreset BY <1>5, ResetKeeps
<1>6. CASE BeginAccess \/ (\E set \in BOOLEAN, bits \in SUBSET Channels : INTREQ(set, bits)) \/ UNCHANGED vars
  BY <1>6, OthersKeep
<1> QED BY <1>1, <1>2, <1>3, <1>4, <1>5, <1>6 DEF Next

-----------------------------------------------------------------------------
(* Theorems.                                                               *)

\* The inductive invariant.
THEOREM PaulaInductive == Spec => []IInv
<1> QED BY InitHolds, StepKeeps, PTL DEF Spec

\* No counter of audio.c leaves its width, whatever is written when.
THEOREM PaulaTypeCorrect == Spec => []TypeOK
<1>1. IInv => TypeOK
  <2>1. Bits /\ Lags /\ Clock /\ Sounds => TypeOK
    BY PaulaAssumption DEF TypeOK, Bits, Lags, Clock, Sounds, Sound
  <2> QED BY <2>1 DEF IInv
<1> QED BY <1>1, PaulaInductive, PTL

\* Each turn of the loop of update_audio() takes at least a cycle: it ends.
THEOREM TimeAlwaysGoesOn == Spec => []TimeGoesOn
<1>1. IInv => TimeGoesOn BY TurnTakesTime DEF IInv, TimeGoesOn
<1> QED BY <1>1, PaulaInductive, PTL

\* The output clock is met to the nearest cycle at any rate up to one sample per
\* cycle, and no mean is over nothing.
THEOREM ClockIsMet == Spec => []SampleClock
<1>1. ASSUME IInv PROVE SampleClock
  <2>1. Den \in Nat \ {0} /\ clock \in Int /\ 2 * clock >= Den /\ accum \in Nat
    BY <1>1, PaulaAssumption DEF IInv, Clock
  <2>2. ASSUME Updating, NEW n \in Best, SampleDue(n)
        PROVE  /\ -Den <= 2 * (clock - Den * n) /\ 2 * (clock - Den * n) < Den
               /\ accum + n > 0
    <3>1. n \in Nat /\ n >= 1 BY <1>1, <2>2, TurnTakesTime DEF IInv
    <3>2. 2 * Den * n <= 2 * clock + Den /\ 2 * clock + Den < 2 * Den * n + 2 * Den
      BY <2>1, <2>2, Rounding DEF SampleDue
    <3> DEFINE x == Den * n
    <3>3. x \in Int /\ 2 * x <= 2 * clock + Den /\ 2 * clock + Den < 2 * x + 2 * Den
      BY <2>1, <3>1, <3>2
    <3> HIDE DEF x
    <3>4. -Den <= 2 * (clock - x) /\ 2 * (clock - x) < Den BY <2>1, <3>3
    <3> QED BY <2>1, <3>1, <3>4 DEF x
  <2>3. clock >= 0 BY <2>1
  <2> QED BY <2>2, <2>3 DEF SampleClock
<1> QED BY <1>1, PaulaInductive, PTL

\* A channel whose DMA is switched on gets its first word at the next line and
\* plays it at the one after that, however its start falls into a line.
THEOREM StartsOnLines == Spec => []DmaStartsOnLines
<1>1. ASSUME IInv, NEW c \in Channels
      PROVE  IF pc = "line" /\ lag = 0 THEN ch[c].state # 1 /\ (ch[c].state = 5 => ch[c].wanted)
             ELSE (ch[c].state = 1 => ch[c].wanted)
                  /\ (pc # "line" => (ch[c].state = 5 => ~ch[c].wanted))
  BY <1>1 DEF IInv, Lines, OnLines, Sounds, Sound
<1>2. IInv => DmaStartsOnLines BY <1>1 DEF DmaStartsOnLines
<1> QED BY <1>2, PaulaInductive, PTL

\* A channel that is off, or about to start, is silent.
THEOREM SilentWhenStopped == Spec => []StoppedIsSilent
<1>1. IInv => StoppedIsSilent BY DEF IInv, Sounds, Sound, StoppedIsSilent
<1> QED BY <1>1, PaulaInductive, PTL

-----------------------------------------------------------------------------
(* The pointer and the counter of a sample.                                *)

\* The words that the counter says are left: 0 stands for all its values.
Left(r) == IF r.wlen = 0 THEN LenMod ELSE r.wlen

\* A channel that was started by DMA is as far from the end of its sample as its
\* counter says, or farther.  In state 5 the counter is ahead of the pointer until
\* the line has fetched.
Reaches(r) ==
    r.state # 0 =>
        IF r.state = 5 /\ r.wanted
        THEN r.ptend >= r.pt + 1 /\ (r.wlen # 1 => r.ptend >= r.pt + Left(r) + 1)
        ELSE r.ptend >= r.pt + Left(r)

Pointers == \A c \in Channels \ hand : Reaches(ch[c])

LEMMA SmallModulus == ASSUME NEW m \in Nat \ {0}, NEW y \in 0..m-1 PROVE y % m = y
<1> DEFINE q == y \div m
           x == y % m
<1>1. q \in Int /\ x \in 0..m-1 /\ y = m * q + x OBVIOUS
<1> HIDE DEF q, x
<1>2. q = 0
  <2>1. CASE q >= 1
    <3>1. m * q >= m BY <1>1, <2>1
    <3> QED BY <1>1, <3>1
  <2>2. CASE q <= -1
    <3>1. m * q <= -m BY <1>1, <2>2
    <3> QED BY <1>1, <3>1
  <2> QED BY <1>1, <2>1, <2>2
<1>3. x = y BY <1>1, <1>2
<1> QED BY <1>3 DEF x

LEMMA NegativeOne == ASSUME NEW m \in Nat \ {0} PROVE (-1) % m = m - 1
<1> DEFINE q == (-1) \div m
           x == (-1) % m
<1>1. q \in Int /\ x \in 0..m-1 /\ -1 = m * q + x OBVIOUS
<1> HIDE DEF q, x
<1>2. q = -1
  <2>1. CASE q >= 0
    <3>1. m * q >= 0 BY <1>1, <2>1
    <3> QED BY <1>1, <3>1
  <2>2. CASE q <= -2
    <3>1. m * (-2 - q) >= 0 BY <1>1, <2>2
    <3>2. m * q <= -2 * m BY <1>1, <3>1
    <3> QED BY <1>1, <3>2
  <2> QED BY <1>1, <2>1, <2>2
<1>3. x = m - 1 BY <1>1, <1>2
<1> QED BY <1>3 DEF x

\* The counter counts down, from 0 as from LenMod.
LEMMA CountsDown ==
    ASSUME NEW r, r \in Channel, r.wlen # 1
    PROVE  (r.wlen - 1) % LenMod # 0 /\ (r.wlen - 1) % LenMod = Left(r) - 1
<1>1. r.wlen \in 0..LenMod-1 /\ LenMod \in Nat /\ LenMod > 1 BY Sizes DEF Channel
<1>2. CASE r.wlen = 0
  <2>1. LenMod \in Nat \ {0} BY <1>1
  <2>2. (-1) % LenMod = LenMod - 1 BY <2>1, NegativeOne
  <2> QED BY <1>1, <1>2, <2>2 DEF Left
<1>3. CASE r.wlen > 1
  <2>1. (r.wlen - 1) % LenMod = r.wlen - 1 BY <1>1, <1>3, SmallModulus
  <2> QED BY <1>1, <1>3, <2>1 DEF Left
<1> QED BY <1>1, <1>2, <1>3

LEMMA LeftIsPositive == ASSUME NEW r, r \in Channel PROVE Left(r) \in Nat /\ Left(r) >= 1
BY Sizes DEF Channel, Left

\* The handlers leave the pointer to the line; only the first counts.
LEMMA HandlerPointers ==
    ASSUME NEW r, Due(r), NEW c, NEW w \in Data, r.state # 0
    PROVE  /\ audio_handler(r, c, w).pt = r.pt /\ audio_handler(r, c, w).ptend = r.ptend
           /\ audio_handler(r, c, w).wlen = IF r.state = 1 /\ r.wlen # 1 THEN (r.wlen - 1) % LenMod
                                            ELSE r.wlen
<1>1. r.state \in {1, 5, 2, 3} /\ r \in Channel BY ChannelFields DEF Due
<1>2. CASE r.state = 1
  <2>1. audio_handler(r, c, w) = DmaStarts(r, w) BY <1>2 DEF audio_handler
  <2> QED BY <1>1, <1>2, <2>1, ChannelFields DEF DmaStarts
<1>3. CASE r.state = 5
  <2>1. audio_handler(r, c, w) = FirstWord(r, c) BY <1>3 DEF audio_handler
  <2> QED BY <1>1, <1>3, <2>1, ChannelFields DEF FirstWord
<1>4. CASE r.state = 2
  <2>1. audio_handler(r, c, w) = SecondByte(r, c) BY <1>4 DEF audio_handler
  <2> QED BY <1>1, <1>4, <2>1, ChannelFields DEF SecondByte
<1>5. CASE r.state = 3
  <2>1. audio_handler(r, c, w) = NextWord(r, c) BY <1>5 DEF audio_handler
  <2> QED BY <1>1, <1>5, <2>1, ChannelFields DEF NextWord
<1> QED BY <1>1, <1>2, <1>3, <1>4, <1>5

LEMMA HandlerReaches ==
    ASSUME NEW r, Due(r), NEW c, NEW w \in Data, r.state # 0, Reaches(r),
           r.state = 1 => r.wanted, r.state = 5 => ~r.wanted
    PROVE  Reaches(audio_handler(r, c, w))
<1> DEFINE h == audio_handler(r, c, w)
<1> SUFFICES Reaches(h) OBVIOUS
<1>1. r \in Channel /\ r.pt \in Nat /\ r.ptend \in Nat /\ r.wlen \in Counts BY ChannelFields DEF Due
<1>2. Left(r) \in Nat /\ Left(r) >= 1 BY <1>1, LeftIsPositive
<1>3. h.pt = r.pt /\ h.ptend = r.ptend BY HandlerPointers
<1>4. CASE r.state = 1
  <2>1. h.state = 5 /\ h.wanted BY <1>4, HandlerSound
  <2>2. r.ptend >= r.pt + Left(r) BY <1>4 DEF Reaches
  <2>3. CASE r.wlen = 1
    <3>1. h.wlen = 1 BY <2>3, HandlerPointers
    <3> HIDE DEF h
    <3> QED BY <1>1, <1>2, <1>3, <2>1, <2>2, <3>1 DEF Reaches
  <2>4. CASE r.wlen # 1
    <3>1. h.wlen = (r.wlen - 1) % LenMod BY <1>4, <2>4, HandlerPointers
    <3>2. h.wlen # 0 /\ h.wlen = Left(r) - 1 BY <1>1, <2>4, <3>1, CountsDown
    <3> HIDE DEF h
    <3>3. Left(h) = Left(r) - 1 BY <3>2 DEF Left
    <3> QED BY <1>1, <1>2, <1>3, <2>1, <2>2, <3>3 DEF Reaches
  <2> QED BY <2>3, <2>4
<1>5. CASE r.state # 1
  <2>1. h.state \in {0, 2, 3} BY <1>5, HandlerSound
  <2>2. h.wlen = r.wlen BY <1>5, HandlerPointers
  <2>3. r.ptend >= r.pt + Left(r) BY <1>5 DEF Reaches
  <2> HIDE DEF h
  <2>4. Left(h) = Left(r) BY <2>2 DEF Left
  <2> QED BY <1>3, <2>1, <2>3, <2>4 DEF Reaches
<1> QED BY <1>4, <1>5

\* A line's fetch moves both, or starts the sample again from its latches.
LEMMA FetchedReaches ==
    ASSUME NEW r, r \in Channel, r.wanted, Reaches(r), NEW w \in Data, r.state # 1
    PROVE  Reaches(Fetched(r, w))
<1> DEFINE f == Fetched(r, w)
<1> SUFFICES Reaches(f) OBVIOUS
<1>1. /\ r.pt \in Nat /\ r.ptend \in Nat /\ r.wlen \in Counts /\ r.lc \in Nat /\ r.len \in Counts
      /\ r.state \in {0, 1, 5, 2, 3}
  BY ChannelFields
<1>2. Left(r) \in Nat /\ Left(r) >= 1 BY LeftIsPositive
<1>3. f.state = r.state /\ f.wanted = FALSE BY <1>1, ChannelFields DEF Fetched
<1>4. CASE r.state = 0 BY <1>3, <1>4 DEF Reaches
<1>5. CASE r.state = 5
  <2>1. f.ptend = r.ptend /\ f.wlen = r.wlen /\ f.pt = IF r.wlen = 1 THEN r.pt ELSE r.pt + 1
    BY <1>5, ChannelFields DEF Fetched
  <2> HIDE DEF f
  <2>2. Left(f) = Left(r) BY <2>1 DEF Left
  <2>3. r.wlen = 1 => Left(r) = 1 BY DEF Left
  <2> QED BY <1>1, <1>2, <1>3, <1>5, <2>1, <2>2, <2>3 DEF Reaches
<1>6. CASE r.state \in {2, 3} /\ r.wlen = 1
  <2>1. f.pt = r.lc /\ f.ptend = SampleEnd(r.lc, r.len) /\ f.wlen = r.len
    BY <1>6, ChannelFields DEF Fetched
  <2> HIDE DEF f
  <2>2. f.ptend = f.pt + Left(f) BY <2>1 DEF SampleEnd, Left
  <2>3. f.ptend \in Nat BY <1>1, <2>1, Sizes DEF SampleEnd, Counts
  <2> QED BY <1>1, <1>3, <1>6, <2>1, <2>2, <2>3 DEF Reaches
<1>7. CASE r.state \in {2, 3} /\ r.wlen # 1
  <2>1. f.pt = r.pt + 1 /\ f.ptend = r.ptend /\ f.wlen = (r.wlen - 1) % LenMod
    BY <1>7, ChannelFields DEF Fetched
  <2>2. f.wlen # 0 /\ f.wlen = Left(r) - 1 BY <1>7, <2>1, CountsDown
  <2> HIDE DEF f
  <2>3. Left(f) = Left(r) - 1 BY <2>2 DEF Left
  <2>4. r.ptend >= r.pt + Left(r) BY <1>7 DEF Reaches
  <2> QED BY <1>1, <1>2, <1>3, <1>7, <2>1, <2>3, <2>4 DEF Reaches
<1> QED BY <1>1, <1>4, <1>5, <1>6, <1>7

\* What leaves the pointer, its end and the counter as they are.
SamePointers(r, s) ==
    /\ s.state = r.state /\ s.wanted = r.wanted
    /\ s.pt = r.pt /\ s.ptend = r.ptend /\ s.wlen = r.wlen

LEMMA SameReaches == ASSUME NEW r, NEW s, SamePointers(r, s), Reaches(r) PROVE Reaches(s)
BY DEF SamePointers, Reaches, Left

LEMMA TurnPointers ==
    ASSUME IInv, Pointers, Updating, NEW n \in Best, Turn(n)
    PROVE  Pointers'
<1> SUFFICES ASSUME NEW c \in Channels, c \notin hand' PROVE Reaches(ch'[c])
  BY DEF Pointers
<1> DEFINE due == {d \in Active : ch[d].evtime = n}
           m == Modulated(c, due)
           r == Elapsed(m, n)
<1>1. n \in Nat /\ n >= 1 /\ \A d \in Active : n <= ch[d].evtime BY TurnTakesTime DEF IInv
<1>2. due \in SUBSET Channels BY DEF Active
<1>3. PICK p, v \in Nat : p >= 1 /\ m = [ch[c] EXCEPT !.per = p, !.vol = v]
  BY <1>2, ModulatedSound DEF IInv
<1>4. PICK w \in [due -> Data] : ch'[c] = IF c \in due THEN audio_handler(r, c, w[c]) ELSE r
  BY DEF Turn
<1>5. Sound(ch[c]) /\ OnLines(ch[c]) /\ ch[c].state \in {0, 1, 5, 2, 3}
  BY ChannelFields DEF IInv, Sounds, Sound, Lines
<1>6. c \in due => ch[c].state # 0 /\ ch[c].evtime = n BY DEF Active
<1>7. ch[c].state # 0 => ch[c].evtime \in Nat /\ n <= ch[c].evtime
  BY <1>1, <1>5, ChannelFields DEF Sound, Active
<1>8. c \in hand => ch'[c].state = 0 BY DEF Turn
<1> HIDE DEF due
<1>9. /\ m \in Channel /\ m.per = p /\ SamePointers(ch[c], m)
      /\ m.evtime = ch[c].evtime /\ m.current = ch[c].current
  BY <1>3, <1>5, ChannelFields DEF Sound, SamePointers
<1> HIDE DEF m
<1>10. /\ r \in Channel /\ r.per = p /\ SamePointers(ch[c], r) /\ r.current = ch[c].current
  <2>1. CASE m.state = 0 BY <1>9, <2>1 DEF Elapsed
  <2>2. CASE m.state # 0
    <3>1. r = [m EXCEPT !.evtime = m.evtime - n] BY <2>2 DEF Elapsed
    <3>2. m.evtime - n \in Nat BY <1>1, <1>7, <1>9, <2>2 DEF SamePointers
    <3> HIDE DEF r
    <3> QED BY <1>9, <3>1, <3>2, ChannelFields DEF SamePointers
  <2> QED BY <2>1, <2>2
<1> HIDE DEF r
<1>11. Due(r) BY <1>3, <1>5, <1>10 DEF Due, Sound, SamePointers
<1>12. CASE ch'[c].state = 0 BY <1>12 DEF Reaches
<1>13. CASE c \notin hand
  <2>1. Reaches(r) BY <1>10, <1>13, SameReaches DEF Pointers
  <2>2. CASE c \notin due BY <1>4, <2>1, <2>2
  <2>3. CASE c \in due
    <3>1. (r.state = 1 => r.wanted) /\ (r.state = 5 => ~r.wanted) /\ r.state # 0
      BY <1>5, <1>6, <1>10, <2>3, Sizes DEF OnLines, SamePointers, IInv, Lags, Updating
    <3>2. w[c] \in Data /\ ch'[c] = audio_handler(r, c, w[c]) BY <1>4, <2>3
    <3> QED BY <1>11, <2>1, <3>1, <3>2, HandlerReaches
  <2> QED BY <2>2, <2>3
<1> QED BY <1>8, <1>12, <1>13

LEMMA FetchPointers == IInv /\ Pointers /\ hsync_handler => Pointers'
<1> SUFFICES ASSUME IInv, Pointers, hsync_handler PROVE Pointers' OBVIOUS
<1> DEFINE wanting == {c \in Channels : ch[c].wanted}
<1>1. PICK w \in [wanting -> Data] :
         ch' = [c \in Channels |-> IF c \in wanting THEN Fetched(ch[c], w[c]) ELSE ch[c]]
  BY DEF hsync_handler
<1>2. pc = "line" /\ lag = 0 /\ hand' = hand BY DEF hsync_handler
<1>3. ASSUME NEW c \in Channels \ hand PROVE Reaches(ch'[c])
  <2>1. Reaches(ch[c]) /\ ch[c] \in Channel /\ Sound(ch[c]) /\ OnLines(ch[c])
    BY DEF Pointers, IInv, Sounds, Sound, Lines
  <2>2. ch[c].state # 1 BY <1>2, <2>1 DEF OnLines, Sound
  <2>3. CASE c \in wanting
    <3>1. ch'[c] = Fetched(ch[c], w[c]) /\ w[c] \in Data BY <1>1, <2>3
    <3> QED BY <2>1, <2>2, <2>3, <3>1, FetchedReaches
  <2>4. CASE c \notin wanting BY <1>1, <2>1, <2>4
  <2> QED BY <2>3, <2>4
<1> QED BY <1>2, <1>3 DEF Pointers

LEMMA WritePointers ==
    ASSUME IInv, Pointers, NEW new, Write(new), hand \subseteq hand',
           \A c \in Channels \ hand' : Reaches(ch[c]) => Reaches(new[c])
    PROVE  Pointers'
BY DEF Write, Pointers

LEMMA SetPointers ==
    ASSUME IInv, Pointers, NEW c \in Channels, NEW field \in {"lc", "len", "per", "vol"}, NEW v,
           Set(c, field, v)
    PROVE  Pointers'
<1> DEFINE s == [ch[c] EXCEPT ![field] = v]
           new == [ch EXCEPT ![c] = s]
<1>1. ch[c] \in Channel /\ DOMAIN ch = Channels BY DEF IInv, Sounds, Sound
<1>2. SamePointers(ch[c], s) BY <1>1, ChannelFields DEF SamePointers
<1>3. Write(new) /\ hand' = hand BY DEF Set
<1> HIDE DEF s
<1>4. \A d \in Channels : Reaches(ch[d]) => Reaches(new[d]) BY <1>1, <1>2, SameReaches
<1> HIDE DEF new
<1> QED BY <1>3, <1>4, WritePointers

LEMMA DmaOnReaches == ASSUME NEW r, Sound(r), Reaches(r) PROVE Reaches(DmaOn(r))
<1> DEFINE h == DmaOn(r)
<1> SUFFICES Reaches(h) OBVIOUS
<1>1. r \in Channel /\ r.lc \in Nat /\ r.len \in Counts BY ChannelFields DEF Sound
<1>2. CASE r.state # 0
  <2>1. h = [r EXCEPT !.dmaen = TRUE] BY <1>2 DEF DmaOn
  <2>2. SamePointers(r, h) BY <1>1, <2>1, ChannelFields DEF SamePointers
  <2> QED BY <2>2, SameReaches
<1>3. CASE r.state = 0
  <2>1. h.state = 1 /\ h.pt = r.lc /\ h.ptend = SampleEnd(r.lc, r.len) /\ h.wlen = r.len
    BY <1>1, <1>3, ChannelFields DEF DmaOn
  <2> HIDE DEF h
  <2>2. h.ptend = h.pt + Left(h) BY <2>1 DEF SampleEnd, Left
  <2>3. h.ptend \in Nat BY <1>1, <2>1, Sizes DEF SampleEnd, Counts
  <2> QED BY <2>1, <2>2, <2>3 DEF Reaches
<1> QED BY <1>2, <1>3

LEMMA DmaOffReaches == ASSUME NEW r, Sound(r), Reaches(r) PROVE Reaches(DmaOff(r))
<1>1. r \in Channel BY DEF Sound
<1>2. CASE r.state \in {1, 5}
  <2>1. DmaOff(r).state = 0 BY <1>1, <1>2, ChannelFields DEF DmaOff
  <2> QED BY <2>1 DEF Reaches
<1>3. CASE r.state \notin {1, 5}
  <2>1. SamePointers(r, DmaOff(r)) BY <1>1, <1>3, ChannelFields DEF DmaOff, SamePointers
  <2> QED BY <2>1, SameReaches
<1> QED BY <1>2, <1>3

LEMMA AccessPointers == IInv /\ Pointers /\ Access => Pointers'
<1> SUFFICES ASSUME IInv, Pointers, Access PROVE Pointers' OBVIOUS
<1>1. \A c \in Channels : ch[c] \in Channel /\ Sound(ch[c]) BY DEF IInv, Sounds, Sound
<1>2. ASSUME NEW c \in Channels,
             \/ \E a \in Starts : AUDxLC(c, a)
             \/ \E v \in Lengths : AUDxLEN(c, v)
             \/ \E v \in Periods : AUDxPER(c, v)
             \/ \E v \in Volumes : AUDxVOL(c, v)
      PROVE  Pointers'
  BY <1>2, SetPointers DEF AUDxLC, AUDxLEN, AUDxPER, AUDxVOL
<1>3. ASSUME NEW c \in Channels, NEW v \in Data, AUDxDAT(c, v) PROVE Pointers'
  <2> DEFINE starts == ch[c].state = 0 /\ c \notin intreq
             s == [ch[c] EXCEPT !.dat = v]
             t == IF starts THEN [s EXCEPT !.state = 2, !.evtime = s.per] ELSE s
             new == [ch EXCEPT ![c] = t]
  <2>1. Write(new) /\ hand' = (IF starts THEN hand \cup {c} ELSE hand) BY <1>3 DEF AUDxDAT
  <2>2. ~starts => SamePointers(ch[c], t) BY <1>1, ChannelFields DEF SamePointers
  <2> HIDE DEF t
  <2>3. \A d \in Channels : d # c => new[d] = ch[d] BY DEF IInv, Sounds
  <2>4. new[c] = t BY DEF IInv, Sounds
  <2> HIDE DEF new
  <2>5. \A d \in Channels \ hand' : Reaches(ch[d]) => Reaches(new[d])
    BY <2>1, <2>2, <2>3, <2>4, SameReaches
  <2> QED BY <2>1, <2>5, WritePointers
<1>4. ASSUME NEW set \in BOOLEAN, NEW bits \in SUBSET Channels, DMACON(set, bits) PROVE Pointers'
  <2> DEFINE on == {c \in Channels : ch[c].dmaen}
             to == IF set THEN on \cup bits ELSE on \ bits
             new == [c \in Channels |-> IF c \in to THEN DmaOn(ch[c]) ELSE DmaOff(ch[c])]
  <2>1. Write(new) /\ hand' = hand BY <1>4 DEF DMACON
  <2> HIDE DEF to
  <2>2. \A c \in Channels : Reaches(ch[c]) => Reaches(new[c])
    BY <1>1, DmaOnReaches, DmaOffReaches
  <2> HIDE DEF new
  <2> QED BY <2>1, <2>2, WritePointers
<1>5. ASSUME NEW set, NEW bits, ADKCON(set, bits) PROVE Pointers'
  BY <1>5 DEF ADKCON, Write, Pointers
<1>6. ByHand \subseteq Channels BY PaulaAssumption
<1> QED BY <1>2, <1>3, <1>4, <1>5, <1>6 DEF Access

LEMMA StepPointers == IInv /\ Pointers /\ [Next]_vars => Pointers'
<1> SUFFICES ASSUME IInv, Pointers, [Next]_vars PROVE Pointers' OBVIOUS
<1>1. CASE update_audio BY <1>1, TurnPointers DEF update_audio
<1>2. CASE hsync_handler BY <1>2, FetchPointers
<1>3. CASE Access BY <1>3, AccessPointers
<1>4. CASE customreset
  <2>1. \A c \in Channels : ch'[c] = ResetChannel BY <1>4 DEF customreset
  <2> QED BY <2>1 DEF Pointers, Reaches, ResetChannel
<1>5. CASE \/ Cycle \/ BeginAccess \/ UNCHANGED vars
           \/ \E set \in BOOLEAN, bits \in SUBSET Channels : INTREQ(set, bits)
  <2>1. ch' = ch /\ hand' = hand BY <1>5 DEF Cycle, BeginAccess, INTREQ, vars
  <2> QED BY <2>1 DEF Pointers
<1> QED BY <1>1, <1>2, <1>3, <1>4, <1>5 DEF Next

\* A channel that DMA started never fetches a word beyond its sample, whatever
\* is written to its registers and whenever its DMA is switched.
THEOREM FetchStaysInRange == Spec => []FetchInRange
<1>1. Init => Pointers
  <2>1. ASSUME Init, NEW c \in Channels PROVE ch[c].state = 0 BY <2>1 DEF Init, ResetChannel
  <2> QED BY <2>1 DEF Pointers, Reaches
<1>2. IInv /\ Pointers => FetchInRange
  <2> SUFFICES ASSUME IInv, Pointers, pc = "line", lag = 0, NEW c \in Active \ hand, ch[c].wanted
               PROVE  ch[c].pt < ch[c].ptend
    BY DEF FetchInRange
  <2>1. c \in Channels /\ ch[c].state # 0 /\ Reaches(ch[c]) /\ ch[c] \in Channel
    BY DEF Active, Pointers, IInv, Sounds, Sound
  <2>2. ch[c].pt \in Nat /\ ch[c].ptend \in Nat BY <2>1, ChannelFields
  <2>3. Left(ch[c]) \in Nat /\ Left(ch[c]) >= 1 BY <2>1, LeftIsPositive
  <2> QED BY <2>1, <2>2, <2>3 DEF Reaches
<1>3. Spec => []Pointers BY <1>1, PaulaInductive, StepPointers, PTL DEF Spec
<1> QED BY <1>2, <1>3, PaulaInductive, PTL

------------------------------------------------------------------------------
(***************************************************************************)
(* The queue of the sinc resampler, for every length of the queue and of   *)
(* the table, and every sequence of turns and outputs.                     *)
(***************************************************************************)

\* The step that place j of the walk stands for: behind the first step there are
\* only cleared places, which look like it.
Latest(j) == steps[IF j < Len(steps) THEN j + 1 ELSE Len(steps)]

\* The history: only the reset is a step of nothing; ages grow, by MaxIdle at most.
History ==
    /\ \A k \in DOMAIN steps : k < Len(steps) => steps[k].output # 0
    /\ Len(steps) <= Length => steps[Len(steps)].output = 0
    /\ steps[1].age <= MaxIdle
    /\ \A k, l \in DOMAIN steps : k <= l => steps[k].age <= steps[l].age
    /\ \A k \in DOMAIN steps : k < Len(steps) => steps[k+1].age <= steps[k].age + MaxIdle

\* Between two steps that are not of nothing they grow by MinGap at least.
Apart ==
    \A k \in DOMAIN steps : steps[k].output # 0 => steps[k].age >= steps[1].age + (k - 1) * MinGap

\* The queue holds the steps whose age an int can tell.
Ring ==
    \A j \in 0..Length-1 :
        Latest(j).age < Half =>
            Step(j) = [time |-> AsInt(sinc_queue_time - Latest(j).age), output |-> Latest(j).output]

SincInv == SincTypeOK /\ History /\ Ring

-----------------------------------------------------------------------------
\* Positions stay in the queue, and the new head is one before the old.
LEMMA Places ==
    ASSUME SincConstants, NEW h \in 0..Length-1, NEW j \in 0..Length-1
    PROVE  /\ Place(h + j) \in 0..Length-1 /\ NewHead(h) \in 0..Length-1
           /\ Place(NewHead(h) + 0) = NewHead(h)
           /\ j > 0 => /\ Place(NewHead(h) + j) = Place(h + (j - 1))
                       /\ Place(NewHead(h) + j) # NewHead(h)
BY DEF SincConstants, Place, NewHead

\* Sums of an int and a difference that fits are ints; a common shift cancels.
LEMMA Ints ==
    ASSUME SincConstants, NEW t \in -Half..Half-1, NEW a \in Nat, a < Half, NEW n \in Nat, a + n < Half
    PROVE  /\ AsInt(t + n) \in -Half..Half-1 /\ AsInt(t - a) \in -Half..Half-1
           /\ AsInt(AsInt(t + n) - (a + n)) = AsInt(t - a)
           /\ AsInt(t - AsInt(t - a)) = a
           /\ AsInt(t - 0) = t
BY DEF SincConstants, AsInt

\* A function on an initial segment is a sequence.
LEMMA Segments ==
    ASSUME NEW S, NEW m \in Nat, NEW f \in [1..m -> S]
    PROVE  f \in Seq(S) /\ Len(f) = m /\ DOMAIN f = 1..m
<1>1. f \in Seq(S) BY SeqDef
<1>2. Len(f) \in Nat /\ 1..Len(f) = 1..m BY <1>1, LenProperties
<1> QED BY <1>1, <1>2

\* The history is a sequence of steps.
LEMMA StepTypes ==
    ASSUME SincConstants, SincTypeOK
    PROVE  /\ Len(steps) \in 1..Length+1 /\ DOMAIN steps = 1..Len(steps)
           /\ \A k \in 1..Len(steps) : steps[k] \in [age : Nat, output : Int]
<1>1. steps \in Seq([age : Nat, output : Int]) /\ Len(steps) \in 1..Length+1 BY DEF SincTypeOK
<1> QED BY <1>1, LenProperties, ElementOfSeq

\* The place that the walk is at is one of the history.
LEMMA LatestIsAStep ==
    ASSUME SincConstants, SincTypeOK, NEW j \in 0..Length-1
    PROVE  /\ (IF j < Len(steps) THEN j + 1 ELSE Len(steps)) \in DOMAIN steps
           /\ Latest(j).age \in Nat /\ Latest(j).output \in Int
<1>1. (IF j < Len(steps) THEN j + 1 ELSE Len(steps)) \in 1..Len(steps) BY StepTypes DEF SincConstants
<1> QED BY <1>1, StepTypes DEF Latest

-----------------------------------------------------------------------------
\* What the walk finds, given the invariant.

\* The age of a step that an int can tell is exact.
LEMMA AgeIsExact ==
    ASSUME SincConstants, SincInv, NEW j \in 0..Length-1, Latest(j).age < Half
    PROVE  Age(j) = Latest(j).age /\ Step(j).output = Latest(j).output
<1>1. Step(j) = [time |-> AsInt(sinc_queue_time - Latest(j).age), output |-> Latest(j).output]
  BY DEF SincInv, Ring
<1>2. Latest(j).age \in Nat /\ sinc_queue_time \in -Half..Half-1
  BY LatestIsAStep DEF SincInv, SincTypeOK
<1>3. AsInt(sinc_queue_time - AsInt(sinc_queue_time - Latest(j).age)) = Latest(j).age
  BY <1>2, Ints
<1> QED BY <1>1, <1>3 DEF Age

\* Along the walk ages grow, by MaxIdle at most.
LEMMA AgesGrow ==
    ASSUME SincConstants, SincInv, NEW i \in 0..Length-1, NEW j \in 0..Length-1, i <= j
    PROVE  /\ Latest(i).age <= Latest(j).age
           /\ Latest(0).age <= MaxIdle
           /\ i + 1 = j => Latest(j).age <= Latest(i).age + MaxIdle
<1>1. Len(steps) \in Nat /\ Len(steps) >= 1 /\ DOMAIN steps = 1..Len(steps)
  BY DEF SincConstants, SincInv, SincTypeOK
<1>2. Latest(i).age <= Latest(j).age
  <2> DEFINE at(n) == IF n < Len(steps) THEN n + 1 ELSE Len(steps)
  <2>1. at(i) \in DOMAIN steps /\ at(j) \in DOMAIN steps /\ at(i) <= at(j)
    BY <1>1 DEF SincConstants
  <2>2. steps[at(i)].age <= steps[at(j)].age BY <2>1 DEF SincInv, History
  <2> QED BY <2>2 DEF Latest
<1>3. Latest(0).age <= MaxIdle BY <1>1 DEF SincInv, History, Latest
<1>4. ASSUME i + 1 = j PROVE Latest(j).age <= Latest(i).age + MaxIdle
  <2>1. CASE j < Len(steps) BY <1>1, <1>4, <2>1 DEF SincInv, History, Latest
  <2>2. CASE ~(j < Len(steps))
    <3>1. Latest(i) = Latest(j) BY <1>1, <1>4, <2>2 DEF Latest
    <3> QED BY <3>1, LatestIsAStep DEF SincConstants, MaxIdle, SincInv
  <2> QED BY <2>1, <2>2
<1> QED BY <1>2, <1>3, <1>4

\* The walk goes on exactly as long as the steps are younger than MaxAge.
LEMMA WalkIsRecent ==
    ASSUME SincConstants, SincInv, NEW j \in 0..Length-1
    PROVE  j \in Walked <=> Latest(j).age < MaxAge
<1>1. MaxAge \in Nat /\ MaxIdle \in Nat /\ MaxAge >= 1 /\ MaxAge + MaxIdle <= Half /\ Half \in Nat
  BY DEF SincConstants, MaxIdle
<1>2. \A i \in 0..Length-1 : Latest(i).age \in Nat BY LatestIsAStep DEF SincInv
<1>3. ASSUME Latest(j).age < MaxAge PROVE j \in Walked
  <2>1. ASSUME NEW i \in 0..j PROVE Mixed(Age(i))
    <3>1. i \in 0..Length-1 /\ i <= j BY <2>1 DEF SincConstants
    <3>2. Latest(i).age <= Latest(j).age BY <3>1, AgesGrow
    <3>3. Latest(i).age < MaxAge BY <1>1, <1>2, <1>3, <3>1, <3>2
    <3>4. Age(i) = Latest(i).age BY <1>1, <1>2, <3>1, <3>3, AgeIsExact
    <3> QED BY <3>3, <3>4 DEF Mixed
  <2> QED BY <2>1 DEF Walked
<1>4. ASSUME j \in Walked, Latest(j).age >= MaxAge PROVE FALSE
  <2> DEFINE Old == {i \in 0..j : Latest(i).age >= MaxAge}
  <2>1. Old \subseteq Nat /\ j \in Old BY <1>4
  <2>2. PICK i \in Old : \A k \in Old : i <= k
    <3>1. PICK i \in Old : \A k \in Old : <<k, i>> \notin OpToRel(<, Nat)
      BY <2>1, NatLessThanWellFounded, WFMin
    <3>2. ASSUME NEW k \in Old PROVE i <= k
      <4>1. k \in Nat /\ i \in Nat BY <2>1, <3>1
      <4>2. <<k, i>> \notin OpToRel(<, Nat) BY <3>1
      <4>3. ~(k < i) BY <4>1, <4>2 DEF OpToRel
      <4> HIDE DEF Old
      <4> QED BY <4>1, <4>3
    <3> QED BY <3>2
  <2>3. i \in 0..Length-1 /\ i \in 0..j /\ j \in Nat BY <2>2 DEF SincConstants
  <2>4. Latest(i).age < Half
    <3>1. CASE i = 0 BY <1>1, <1>2, <2>3, <3>1, AgesGrow
    <3>2. CASE i # 0
      <4>1. i - 1 \in 0..j /\ i - 1 \in 0..Length-1 /\ i - 1 <= i /\ (i - 1) + 1 = i
        BY <2>3, <3>2 DEF SincConstants
      <4>2. i - 1 \notin Old BY <2>2, <2>3, <4>1
      <4>3. Latest(i - 1).age < MaxAge BY <1>1, <1>2, <4>1, <4>2
      <4>4. Latest(i).age <= Latest(i - 1).age + MaxIdle BY <2>3, <4>1, AgesGrow
      <4> QED BY <1>1, <1>2, <2>3, <4>1, <4>3, <4>4
    <3> QED BY <3>1, <3>2
  <2>5. Age(i) = Latest(i).age BY <2>3, <2>4, AgeIsExact
  <2>6. Mixed(Age(i)) BY <1>4, <2>3 DEF Walked
  <2>7. Latest(i).age >= MaxAge BY <2>2
  <2> QED BY <1>1, <1>2, <2>3, <2>5, <2>6, <2>7 DEF Mixed
<1> QED BY <1>1, <1>2, <1>3, <1>4

-----------------------------------------------------------------------------
\* The invariant gives the two properties.
LEMMA TableFollows ==
    ASSUME SincConstants, SincInv
    PROVE  AgesInTable
<1>1. ASSUME NEW j \in Walked PROVE Age(j) \in 0..MaxAge-1
  <2>1. j \in 0..Length-1 BY DEF Walked
  <2>2. Latest(j).age < MaxAge /\ Latest(j).age \in Nat BY <2>1, WalkIsRecent, LatestIsAStep DEF SincInv
  <2>3. Age(j) = Latest(j).age BY <2>1, <2>2, AgeIsExact DEF SincConstants
  <2> QED BY <2>2, <2>3 DEF SincConstants
<1> QED BY <1>1 DEF AgesInTable

LEMMA MixedFollows ==
    ASSUME SincConstants, SincInv, Apart
    PROVE  StepsAreMixed
<1> DEFINE Found == {i \in Walked : Step(i).output # 0}
           Recent == {l \in DOMAIN steps : steps[l].age < MaxAge /\ steps[l].output # 0}
<1>1. Len(steps) \in 1..Length+1 /\ DOMAIN steps = 1..Len(steps) /\ Length \in Nat \ {0}
  BY LenProperties DEF SincConstants, SincInv, SincTypeOK
<1>2. ASSUME NEW j \in Found
      PROVE  j + 1 \in Recent /\ Age(j) = steps[j+1].age /\ Step(j).output = steps[j+1].output
  <2>1. j \in 0..Length-1 BY DEF Walked
  <2>2. Latest(j).age < MaxAge /\ Latest(j).age \in Nat BY <2>1, WalkIsRecent, LatestIsAStep DEF SincInv
  <2>3. Age(j) = Latest(j).age /\ Step(j).output = Latest(j).output
    BY <2>1, <2>2, AgeIsExact DEF SincConstants
  <2>4. j < Len(steps)
    <3>1. ASSUME ~(j < Len(steps)) PROVE FALSE
      <4>1. Len(steps) <= Length /\ Latest(j) = steps[Len(steps)] BY <1>1, <2>1, <3>1 DEF Latest
      <4>2. steps[Len(steps)].output = 0 BY <4>1 DEF SincInv, History
      <4> QED BY <2>3, <4>1, <4>2
    <3> QED BY <3>1
  <2>5. Latest(j) = steps[j+1] /\ j + 1 \in DOMAIN steps BY <1>1, <2>1, <2>4 DEF Latest
  <2> QED BY <2>2, <2>3, <2>5
<1>3. ASSUME NEW k \in Recent
      PROVE  /\ k - 1 \in Found /\ (k - 1) + 1 = k
             /\ Age(k-1) = steps[k].age /\ Step(k-1).output = steps[k].output
  <2>1. k \in 1..Len(steps) /\ steps[k].age < MaxAge /\ steps[k].output # 0 BY <1>1
  <2>2. k <= Length
    <3>1. ASSUME k > Length PROVE FALSE
      <4>1. k = Length + 1 BY <1>1, <2>1, <3>1
      <4>2. steps[k].age >= steps[1].age + (k - 1) * MinGap BY <1>1, <2>1 DEF Apart
      <4>3. (k - 1) * MinGap = Length * MinGap /\ Length * MinGap \in Nat BY <1>1, <4>1 DEF SincConstants
      <4>4. steps[1].age \in Nat /\ steps[k].age \in Nat
        BY <1>1, <2>1, StepTypes DEF SincInv
      <4> QED BY <2>1, <4>2, <4>3, <4>4 DEF SincConstants
    <3> QED BY <1>1, <2>1, <3>1
  <2>3. k - 1 \in 0..Length-1 /\ (k - 1) + 1 = k BY <1>1, <2>1, <2>2
  <2>4. Latest(k-1) = steps[k] BY <1>1, <2>1, <2>3 DEF Latest
  <2>5. steps[k].age \in Nat BY <2>3, <2>4, LatestIsAStep DEF SincInv
  <2>6. k - 1 \in Walked BY <2>1, <2>3, <2>4, WalkIsRecent
  <2>7. Age(k-1) = steps[k].age /\ Step(k-1).output = steps[k].output
    BY <2>1, <2>3, <2>4, <2>5, AgeIsExact DEF SincConstants
  <2> QED BY <2>1, <2>3, <2>6, <2>7
<1>4. {<<j + 1, Age(j), Step(j).output>> : j \in Found}
        = {<<k, steps[k].age, steps[k].output>> : k \in Recent}
  <2> HIDE DEF Found, Recent
  <2>1. ASSUME NEW j \in Found
        PROVE \E k \in Recent : <<j + 1, Age(j), Step(j).output>> = <<k, steps[k].age, steps[k].output>>
    BY <1>2
  <2>2. ASSUME NEW k \in Recent
        PROVE \E j \in Found : <<j + 1, Age(j), Step(j).output>> = <<k, steps[k].age, steps[k].output>>
    BY <1>3
  <2> QED BY <2>1, <2>2
<1> QED BY <1>4 DEF StepsAreMixed

-----------------------------------------------------------------------------
\* A cleared queue.
LEMMA Cleared ==
    ASSUME SincConstants, sinc_queue = [i \in 0..Length-1 |-> [time |-> 0, output |-> 0]],
           sinc_queue_head = 0, sinc_queue_time = 0, output_state = 0,
           steps = <<[age |-> 0, output |-> 0]>>
    PROVE  SincInv
<1>1. 0 \in -Half..Half-1 /\ 0 \in 0..Length-1 /\ AsInt(0 - 0) = 0 BY DEF SincConstants, AsInt
<1>2. Len(steps) = 1 /\ DOMAIN steps = {1} /\ steps[1] = [age |-> 0, output |-> 0] OBVIOUS
<1>3. SincTypeOK BY <1>1, <1>2 DEF SincConstants, SincTypeOK, Entry
<1>4. History BY <1>2 DEF SincConstants, MaxIdle, History
<1>5. ASSUME NEW j \in 0..Length-1
      PROVE  /\ Step(j) = [time |-> 0, output |-> 0]
             /\ Latest(j) = [age |-> 0, output |-> 0]
  <2>1. Place(sinc_queue_head + j) \in 0..Length-1 BY <1>1, Places
  <2>2. Latest(j) = steps[1] BY <1>2 DEF SincConstants, Latest
  <2> QED BY <1>2, <2>1, <2>2 DEF Step
<1>6. Ring BY <1>1, <1>5 DEF Ring
<1> QED BY <1>3, <1>4, <1>6 DEF SincInv

\* A turn in which the output stays: every step is n cycles older.
LEMMA StaysShifts ==
    ASSUME SincConstants, SincTypeOK, NEW n \in Nat, NEW o, Stays(n, o)
    PROVE  /\ steps' \in Seq([age : Nat, output : Int])
           /\ Len(steps') = Len(steps) /\ DOMAIN steps' = 1..Len(steps)
           /\ \A k \in 1..Len(steps) :
                 /\ steps[k].age \in Nat /\ steps'[k].age = steps[k].age + n
                 /\ steps'[k].output = steps[k].output
                 /\ steps'[k] = [age |-> steps[k].age + n, output |-> steps[k].output]
<1>1. /\ Len(steps) \in 1..Length+1 /\ DOMAIN steps = 1..Len(steps) /\ Length \in Nat \ {0}
      /\ \A k \in 1..Len(steps) : steps[k] \in [age : Nat, output : Int]
  BY StepTypes DEF SincConstants
<1>2. \A k \in 1..Len(steps) : Aged(n)[k] = [age |-> steps[k].age + n, output |-> steps[k].output]
  BY <1>1 DEF Aged
<1>3. Aged(n) \in [1..Len(steps) -> [age : Nat, output : Int]]
  BY <1>1, <1>2 DEF Aged
<1>4. steps' \in Seq([age : Nat, output : Int]) /\ Len(steps') = Len(steps) /\ DOMAIN steps' = 1..Len(steps)
  <2>1. steps' \in [1..Len(steps) -> [age : Nat, output : Int]] /\ Len(steps) \in Nat
    BY <1>1, <1>3 DEF Stays
  <2> QED BY <2>1, Segments
<1>5. \A k \in 1..Len(steps) : steps'[k] = [age |-> steps[k].age + n, output |-> steps[k].output]
  BY <1>2 DEF Stays
<1> QED BY <1>1, <1>4, <1>5

LEMMA StaysKeeps ==
    ASSUME SincConstants, SincInv, NeverIdle', NEW n \in Nat, NEW o, Stays(n, o),
           sinc_queue_time' = AsInt(sinc_queue_time + n)
    PROVE  SincInv'
<1>1. /\ Len(steps) \in 1..Length+1 /\ DOMAIN steps = 1..Len(steps) /\ Length \in Nat \ {0}
      /\ \A k \in 1..Len(steps) : steps[k] \in [age : Nat, output : Int]
  BY StepTypes DEF SincConstants, SincInv
<1>2. /\ steps' \in Seq([age : Nat, output : Int])
      /\ Len(steps') = Len(steps) /\ DOMAIN steps' = 1..Len(steps)
      /\ \A k \in 1..Len(steps) :
            /\ steps[k].age \in Nat /\ steps'[k].age = steps[k].age + n
            /\ steps'[k].output = steps[k].output
            /\ steps'[k] = [age |-> steps[k].age + n, output |-> steps[k].output]
  BY StaysShifts DEF SincInv
<1>4. steps' \in Seq([age : Nat, output : Int]) /\ Len(steps') = Len(steps) /\ DOMAIN steps' = 1..Len(steps)
  BY <1>2
<1>5. \A k \in 1..Len(steps) : steps'[k] = [age |-> steps[k].age + n, output |-> steps[k].output]
  BY <1>2
<1>6. n <= MaxIdle /\ n < Half /\ steps[1].age + n <= MaxIdle
  <2>1. 1 \in 1..Len(steps) BY <1>1
  <2>2. steps'[1].age <= MaxIdle BY DEF NeverIdle, MaxIdle
  <2> QED BY <1>2, <2>1, <2>2 DEF SincConstants, MaxIdle
<1>7. SincTypeOK'
  <2>1. AsInt(sinc_queue_time + n) \in -Half..Half-1
    <3>1. sinc_queue_time \in -Half..Half-1 /\ 0 < Half /\ 0 + n < Half
      BY <1>6 DEF SincConstants, MaxIdle, SincInv, SincTypeOK
    <3> QED BY <3>1, Ints
  <2> QED BY <1>1, <1>4, <2>1 DEF SincInv, SincTypeOK, Stays
<1>8. History'
  <2>0. ASSUME NEW k \in 1..Len(steps)
        PROVE  /\ steps[k].age \in Nat /\ steps'[k].age = steps[k].age + n
               /\ steps'[k].output = steps[k].output
    BY <1>2
  <2>1. ASSUME NEW k \in 1..Len(steps), k < Len(steps) PROVE steps'[k].output # 0
    <3>1. steps[k].output # 0 BY <1>1, <2>1 DEF SincInv, History
    <3> QED BY <2>0, <3>1
  <2>2. ASSUME Len(steps) <= Length PROVE steps'[Len(steps)].output = 0
    <3>1. steps[Len(steps)].output = 0 /\ Len(steps) \in 1..Len(steps)
      BY <1>1, <2>2 DEF SincInv, History
    <3> QED BY <2>0, <3>1
  <2>3. steps'[1].age <= MaxIdle
    <3>1. 1 \in 1..Len(steps) BY <1>1
    <3> QED BY <1>6, <2>0, <3>1
  <2>4. ASSUME NEW k \in 1..Len(steps), NEW l \in 1..Len(steps), k <= l
        PROVE  steps'[k].age <= steps'[l].age
    <3>1. steps[k].age <= steps[l].age BY <1>1, <2>4 DEF SincInv, History
    <3>2. /\ steps[k].age \in Nat /\ steps'[k].age = steps[k].age + n
          /\ steps[l].age \in Nat /\ steps'[l].age = steps[l].age + n
      BY <2>0
    <3> QED BY <3>1, <3>2
  <2>5. ASSUME NEW k \in 1..Len(steps), k < Len(steps) PROVE steps'[k+1].age <= steps'[k].age + MaxIdle
    <3>1. k + 1 \in 1..Len(steps) BY <1>1, <2>5
    <3>2. steps[k+1].age <= steps[k].age + MaxIdle BY <1>1, <2>5 DEF SincInv, History
    <3>3. /\ steps[k].age \in Nat /\ steps'[k].age = steps[k].age + n
          /\ steps[k+1].age \in Nat /\ steps'[k+1].age = steps[k+1].age + n
      BY <2>0, <3>1
    <3> QED BY <3>2, <3>3 DEF SincConstants, MaxIdle
  <2>6. Len(steps') = Len(steps) /\ DOMAIN steps' = 1..Len(steps) BY <1>4
  <2> QED BY <2>1, <2>2, <2>3, <2>4, <2>5, <2>6 DEF History
<1>9. ASSUME NEW j \in 0..Length-1, Latest(j)'.age < Half
      PROVE  Step(j)' = [time |-> AsInt(sinc_queue_time' - Latest(j)'.age), output |-> Latest(j)'.output]
  <2>1. /\ (IF j < Len(steps) THEN j + 1 ELSE Len(steps)) \in 1..Len(steps)
        /\ Latest(j).age \in Nat /\ Latest(j).output \in Int
    BY <1>1, LatestIsAStep DEF SincInv
  <2>2. Latest(j)' = [age |-> Latest(j).age + n, output |-> Latest(j).output]
    BY <1>4, <1>5, <2>1 DEF Latest
  <2>3. Latest(j).age < Half BY <1>9, <2>1, <2>2 DEF SincConstants
  <2>4. Step(j) = [time |-> AsInt(sinc_queue_time - Latest(j).age), output |-> Latest(j).output]
    BY <2>3 DEF SincInv, Ring
  <2>5. Step(j)' = Step(j) BY DEF Step, Stays
  <2>6. AsInt(AsInt(sinc_queue_time + n) - (Latest(j).age + n)) = AsInt(sinc_queue_time - Latest(j).age)
    <3>1. sinc_queue_time \in -Half..Half-1 BY DEF SincInv, SincTypeOK
    <3>2. Latest(j).age + n < Half BY <1>9, <2>2
    <3> QED BY <2>1, <2>3, <3>1, <3>2, Ints
  <2> QED BY <2>2, <2>4, <2>5, <2>6
<1>10. Ring' BY <1>9 DEF Ring
<1> QED BY <1>7, <1>8, <1>10 DEF SincInv

LEMMA StaysApart ==
    ASSUME SincConstants, SincTypeOK, Apart, NEW n \in Nat, NEW o, Stays(n, o)
    PROVE  Apart'
<1>1. Len(steps) \in 1..Length+1 /\ DOMAIN steps = 1..Len(steps) /\ Length \in Nat \ {0}
  BY StepTypes DEF SincConstants
<1>2. /\ DOMAIN steps' = 1..Len(steps)
      /\ \A k \in 1..Len(steps) : /\ steps[k].age \in Nat /\ steps'[k].age = steps[k].age + n
                                  /\ steps'[k].output = steps[k].output
  BY StaysShifts
<1>3. ASSUME NEW k \in 1..Len(steps), steps'[k].output # 0
      PROVE  steps'[k].age >= steps'[1].age + (k - 1) * MinGap
  <2>1. 1 \in 1..Len(steps) /\ k \in Nat /\ k - 1 \in Nat BY <1>1
  <2>2. steps[k].output # 0 BY <1>2, <1>3
  <2>3. steps[k].age >= steps[1].age + (k - 1) * MinGap BY <1>1, <2>2 DEF Apart
  <2>4. (k - 1) * MinGap \in Nat BY <2>1 DEF SincConstants
  <2>5. /\ steps[k].age \in Nat /\ steps'[k].age = steps[k].age + n
        /\ steps[1].age \in Nat /\ steps'[1].age = steps[1].age + n
    BY <1>2, <2>1
  <2> QED BY <2>3, <2>4, <2>5
<1> QED BY <1>2, <1>3 DEF Apart

\* A turn at whose beginning the output changed: a new step before those there
\* were, the oldest of which may be dropped.
LEMMA StepsShift ==
    ASSUME SincConstants, SincTypeOK, NEW n \in Nat, NEW o \in Outputs, Steps(n, o)
    PROVE  LET len == IF Len(steps) > Length THEN Length + 1 ELSE Len(steps) + 1
               d == o - output_state
           IN  /\ d \in Int /\ d # 0 /\ len \in 2..Length+1
               /\ steps' \in Seq([age : Nat, output : Int]) /\ Len(steps') = len /\ DOMAIN steps' = 1..len
               /\ steps'[1].age = n /\ steps'[1].output = d
               /\ \A k \in 2..len : /\ k - 1 \in 1..Len(steps)
                                    /\ steps[k-1].age \in Nat /\ steps'[k].age = steps[k-1].age + n
                                    /\ steps'[k].output = steps[k-1].output
<1> DEFINE len == IF Len(steps) > Length THEN Length + 1 ELSE Len(steps) + 1
           d == o - output_state
<1>1. /\ Len(steps) \in 1..Length+1 /\ DOMAIN steps = 1..Len(steps) /\ Length \in Nat \ {0}
      /\ \A k \in 1..Len(steps) : steps[k] \in [age : Nat, output : Int]
  BY StepTypes DEF SincConstants
<1>2. o \in Int /\ output_state \in Int /\ d \in Int /\ d # 0 BY DEF SincConstants, Steps, SincTypeOK
<1>3. \A k \in 1..Len(steps) : Aged(n)[k] = [age |-> steps[k].age + n, output |-> steps[k].output]
  BY <1>1 DEF Aged
<1>4. len \in 2..Length+1 /\ \A k \in 2..len : k - 1 \in 1..Len(steps) BY <1>1
<1>5. /\ Recorded(n, d)[1] = [age |-> n, output |-> d]
      /\ \A k \in 2..len : Recorded(n, d)[k] = [age |-> steps[k-1].age + n, output |-> steps[k-1].output]
  <2>1. 1 \in 1..len BY <1>4
  <2>2. ASSUME NEW k \in 2..len
        PROVE  Recorded(n, d)[k] = [age |-> steps[k-1].age + n, output |-> steps[k-1].output]
    <3>1. k \in 1..len /\ k # 1 /\ k - 1 \in 1..Len(steps) BY <1>4, <2>2
    <3>2. Recorded(n, d)[k] = Aged(n)[k-1] BY <3>1 DEF Recorded
    <3> QED BY <1>3, <3>1, <3>2
  <2> QED BY <2>1, <2>2 DEF Recorded
<1>6. steps' = Recorded(n, d) BY DEF Steps
<1>7. steps' \in Seq([age : Nat, output : Int]) /\ Len(steps') = len /\ DOMAIN steps' = 1..len
  <2>1. len \in Nat BY <1>4
  <2>2. ASSUME NEW k \in 1..len PROVE Recorded(n, d)[k] \in [age : Nat, output : Int]
    <3>1. CASE k = 1 BY <1>2, <1>5, <3>1
    <3>2. CASE k # 1
      <4>1. k \in 2..len /\ k - 1 \in 1..Len(steps) BY <1>4, <2>2, <3>2
      <4>2. steps[k-1].age + n \in Nat /\ steps[k-1].output \in Int BY <1>1, <4>1
      <4>3. Recorded(n, d)[k] = [age |-> steps[k-1].age + n, output |-> steps[k-1].output]
        BY <1>5, <4>1
      <4> QED BY <4>2, <4>3
    <3> QED BY <3>1, <3>2
  <2>3. Recorded(n, d) = [k \in 1..len |-> Recorded(n, d)[k]] BY DEF Recorded
  <2>4. Recorded(n, d) \in [1..len -> [age : Nat, output : Int]] BY <2>2, <2>3
  <2> QED BY <1>6, <2>1, <2>4, Segments
<1> HIDE DEF len, d
<1>8. /\ steps'[1].age = n /\ steps'[1].output = d
      /\ \A k \in 2..len : /\ k - 1 \in 1..Len(steps)
                           /\ steps[k-1].age \in Nat /\ steps'[k].age = steps[k-1].age + n
                           /\ steps'[k].output = steps[k-1].output
  <2>1. steps'[1].age = n /\ steps'[1].output = d BY <1>5, <1>6
  <2>2. ASSUME NEW k \in 2..len
        PROVE  /\ k - 1 \in 1..Len(steps)
               /\ steps[k-1].age \in Nat /\ steps'[k].age = steps[k-1].age + n
               /\ steps'[k].output = steps[k-1].output
    <3>1. k - 1 \in 1..Len(steps) BY <1>4
    <3>2. steps'[k] = [age |-> steps[k-1].age + n, output |-> steps[k-1].output] BY <1>5, <1>6
    <3> QED BY <1>1, <3>1, <3>2
  <2> QED BY <2>1, <2>2
<1> QED BY <1>2, <1>4, <1>7, <1>8 DEF len, d

LEMMA StepsKeeps ==
    ASSUME SincConstants, SincInv, NeverIdle', NEW n \in Nat, NEW o \in Outputs, Steps(n, o),
           sinc_queue_time' = AsInt(sinc_queue_time + n)
    PROVE  SincInv'
<1> DEFINE len == IF Len(steps) > Length THEN Length + 1 ELSE Len(steps) + 1
           d == o - output_state
<1>1. /\ Len(steps) \in 1..Length+1 /\ DOMAIN steps = 1..Len(steps) /\ Length \in Nat \ {0}
      /\ \A k \in 1..Len(steps) : steps[k] \in [age : Nat, output : Int]
  BY StepTypes DEF SincConstants, SincInv
<1>2. /\ d \in Int /\ d # 0 /\ len \in 2..Length+1
      /\ steps' \in Seq([age : Nat, output : Int]) /\ Len(steps') = len /\ DOMAIN steps' = 1..len
      /\ steps'[1].age = n /\ steps'[1].output = d
      /\ \A k \in 2..len : /\ k - 1 \in 1..Len(steps)
                           /\ steps[k-1].age \in Nat /\ steps'[k].age = steps[k-1].age + n
                           /\ steps'[k].output = steps[k-1].output
  BY StepsShift DEF SincInv
<1> HIDE DEF len, d
<1>4. len \in 2..Length+1 /\ \A k \in 2..len : k - 1 \in 1..Len(steps) BY <1>2
<1>7. steps' \in Seq([age : Nat, output : Int]) /\ Len(steps') = len /\ DOMAIN steps' = 1..len
  BY <1>2
<1>8. /\ steps'[1].age = n /\ steps'[1].output = d
      /\ \A k \in 2..len : /\ k - 1 \in 1..Len(steps)
                           /\ steps[k-1].age \in Nat /\ steps'[k].age = steps[k-1].age + n
                           /\ steps'[k].output = steps[k-1].output
  BY <1>2
<1>9. n <= MaxIdle /\ n < Half
  <2>1. steps'[1].age <= MaxIdle BY DEF NeverIdle, MaxIdle
  <2> QED BY <1>8, <2>1 DEF SincConstants, MaxIdle
<1>10. History'
  <2>1. ASSUME NEW k \in 1..len, k < len PROVE steps'[k].output # 0
    <3>1. CASE k = 1 BY <1>2, <1>8, <3>1
    <3>2. CASE k # 1
      <4>1. k \in 2..len /\ k - 1 < Len(steps) /\ k - 1 \in 1..Len(steps)
        BY <1>1, <1>4, <2>1, <3>2 DEF len
      <4>2. steps[k-1].output # 0 BY <1>1, <4>1 DEF SincInv, History
      <4> QED BY <1>8, <4>1, <4>2
    <3> QED BY <3>1, <3>2
  <2>2. ASSUME len <= Length PROVE steps'[len].output = 0
    <3>1. len = Len(steps) + 1 /\ Len(steps) <= Length /\ len \in 2..len BY <1>1, <1>4, <2>2 DEF len
    <3>2. steps[len-1].output = 0
      <4>1. len - 1 = Len(steps) BY <1>1, <3>1
      <4>2. steps[Len(steps)].output = 0 BY <3>1 DEF SincInv, History
      <4> QED BY <4>1, <4>2
    <3> QED BY <1>8, <3>1, <3>2
  <2>3. steps'[1].age <= MaxIdle BY <1>8, <1>9
  <2>4. ASSUME NEW k \in 1..len, NEW l \in 1..len, k <= l PROVE steps'[k].age <= steps'[l].age
    <3>1. CASE l = 1
      <4>1. k = 1 BY <1>4, <2>4, <3>1
      <4> QED BY <1>8, <3>1, <4>1
    <3>2. CASE l # 1 /\ k = 1
      <4>1. l \in 2..len BY <1>4, <2>4, <3>2
      <4>2. steps[l-1].age \in Nat /\ steps'[l].age = steps[l-1].age + n BY <1>8, <4>1
      <4> QED BY <1>8, <3>2, <4>2
    <3>3. CASE k # 1
      <4>1. k \in 2..len /\ l \in 2..len /\ k - 1 <= l - 1 BY <1>4, <2>4, <3>3
      <4>2. k - 1 \in 1..Len(steps) /\ l - 1 \in 1..Len(steps) BY <1>8, <4>1
      <4>3. steps[k-1].age <= steps[l-1].age BY <1>1, <4>1, <4>2 DEF SincInv, History
      <4>4. /\ steps[k-1].age \in Nat /\ steps'[k].age = steps[k-1].age + n
            /\ steps[l-1].age \in Nat /\ steps'[l].age = steps[l-1].age + n
        BY <1>8, <4>1
      <4> QED BY <4>3, <4>4
    <3> QED BY <3>1, <3>2, <3>3
  <2>5. ASSUME NEW k \in 1..len, k < len PROVE steps'[k+1].age <= steps'[k].age + MaxIdle
    <3>1. k + 1 \in 2..len /\ (k + 1) - 1 = k BY <1>4, <2>5
    <3>2. steps[k].age \in Nat /\ steps'[k+1].age = steps[k].age + n /\ k \in 1..Len(steps)
      BY <1>8, <3>1
    <3>3. CASE k = 1
      <4>1. steps[1].age <= MaxIdle BY DEF SincInv, History
      <4> QED BY <1>8, <3>2, <3>3, <4>1 DEF SincConstants, MaxIdle
    <3>4. CASE k # 1
      <4>1. k \in 2..len /\ k - 1 < Len(steps) /\ (k - 1) + 1 = k BY <1>1, <1>4, <2>5, <3>2, <3>4
      <4>2. k - 1 \in 1..Len(steps) /\ steps[k-1].age \in Nat /\ steps'[k].age = steps[k-1].age + n
        BY <1>8, <4>1
      <4>3. steps[k].age <= steps[k-1].age + MaxIdle BY <1>1, <4>1, <4>2 DEF SincInv, History
      <4>4. MaxIdle \in Nat /\ n \in Nat BY DEF SincConstants, MaxIdle
      <4> QED BY <3>2, <4>2, <4>3, <4>4
    <3> QED BY <3>3, <3>4
  <2>6. Len(steps') = len /\ DOMAIN steps' = 1..len BY <1>7
  <2> QED BY <2>1, <2>2, <2>3, <2>4, <2>5, <2>6 DEF History
<1>11. /\ sinc_queue_head \in 0..Length-1 /\ sinc_queue_head' = NewHead(sinc_queue_head)
       /\ sinc_queue_head' \in 0..Length-1
       /\ sinc_queue' = [sinc_queue EXCEPT ![sinc_queue_head'] = [time |-> sinc_queue_time, output |-> d]]
       /\ sinc_queue \in [0..Length-1 -> Entry] /\ sinc_queue_time \in -Half..Half-1
  <2>1. sinc_queue_head \in 0..Length-1 /\ 0 \in 0..Length-1 BY <1>1 DEF SincInv, SincTypeOK
  <2>2. NewHead(sinc_queue_head) \in 0..Length-1 BY <2>1, Places
  <2> QED BY <2>1, <2>2 DEF SincInv, SincTypeOK, Steps, d
<1>12. SincTypeOK'
  <2>1. sinc_queue_time' \in -Half..Half-1
    <3>1. 0 < Half /\ 0 + n < Half BY <1>9 DEF SincConstants
    <3> QED BY <1>11, <3>1, Ints
  <2>2. sinc_queue' \in [0..Length-1 -> Entry] BY <1>2, <1>11 DEF Entry
  <2>3. output_state' \in Outputs BY DEF Steps
  <2>4. Len(steps') \in 1..Length+1 BY <1>4, <1>7
  <2> QED BY <1>7, <1>11, <2>1, <2>2, <2>3, <2>4 DEF SincTypeOK
<1>13. ASSUME NEW j \in 0..Length-1, Latest(j)'.age < Half
       PROVE  Step(j)' = [time |-> AsInt(sinc_queue_time' - Latest(j)'.age), output |-> Latest(j)'.output]
  <2>1. CASE j = 0
    <3>1. Place(sinc_queue_head' + j) = sinc_queue_head' BY <1>11, <2>1, Places
    <3>2. Step(j)' = [time |-> sinc_queue_time, output |-> d] BY <1>11, <3>1 DEF Step
    <3>3. Latest(j)'.age = n /\ Latest(j)'.output = d BY <1>4, <1>7, <1>8, <2>1 DEF Latest
    <3>4. AsInt(sinc_queue_time' - n) = sinc_queue_time
      <4>1. 0 < Half /\ 0 + n < Half BY <1>9 DEF SincConstants
      <4>2. /\ AsInt(AsInt(sinc_queue_time + n) - (0 + n)) = AsInt(sinc_queue_time - 0)
            /\ AsInt(sinc_queue_time - 0) = sinc_queue_time
        BY <1>11, <4>1, Ints
      <4>3. 0 + n = n OBVIOUS
      <4> QED BY <4>2, <4>3
    <3> QED BY <3>2, <3>3, <3>4
  <2>2. CASE j # 0
    <3>1. j - 1 \in 0..Length-1 /\ j > 0 BY <1>1, <2>2
    <3>2. /\ Place(sinc_queue_head' + j) = Place(sinc_queue_head + (j - 1))
          /\ Place(sinc_queue_head' + j) # sinc_queue_head'
          /\ Place(sinc_queue_head + (j - 1)) \in 0..Length-1
      BY <1>11, <3>1, Places
    <3>3. Step(j)' = Step(j-1) BY <1>11, <3>2 DEF Step
    <3> DEFINE at == IF j < len THEN j + 1 ELSE len
               before == IF j - 1 < Len(steps) THEN (j - 1) + 1 ELSE Len(steps)
    <3>4. at \in 2..len /\ at - 1 = before BY <1>1, <1>4, <3>1 DEF len
    <3>5. Latest(j)' = steps'[at] /\ Latest(j-1) = steps[before] BY <1>7 DEF Latest
    <3>6. Latest(j)'.age = Latest(j-1).age + n /\ Latest(j)'.output = Latest(j-1).output
      BY <1>8, <3>4, <3>5
    <3>7. Latest(j-1).age \in Nat BY <3>1, LatestIsAStep DEF SincInv
    <3>8. Latest(j-1).age < Half /\ Latest(j-1).age + n < Half BY <1>13, <3>6, <3>7 DEF SincConstants
    <3>9. Step(j-1) = [time |-> AsInt(sinc_queue_time - Latest(j-1).age), output |-> Latest(j-1).output]
      BY <3>1, <3>8 DEF SincInv, Ring
    <3>10. AsInt(AsInt(sinc_queue_time + n) - (Latest(j-1).age + n)) = AsInt(sinc_queue_time - Latest(j-1).age)
      BY <1>11, <3>7, <3>8, Ints
    <3> QED BY <3>3, <3>6, <3>9, <3>10
  <2> QED BY <2>1, <2>2
<1>14. Ring' BY <1>13 DEF Ring
<1> QED BY <1>10, <1>12, <1>14 DEF SincInv

LEMMA StepsKeepApart ==
    ASSUME SincConstants, SincTypeOK, History, Apart, StepsApart',
           NEW n \in Nat, NEW o \in Outputs, Steps(n, o)
    PROVE  Apart'
<1> DEFINE len == IF Len(steps) > Length THEN Length + 1 ELSE Len(steps) + 1
           d == o - output_state
<1>1. Len(steps) \in 1..Length+1 /\ DOMAIN steps = 1..Len(steps) /\ Length \in Nat \ {0}
  BY StepTypes DEF SincConstants
<1>2. /\ d \in Int /\ d # 0 /\ len \in 2..Length+1
      /\ steps' \in Seq([age : Nat, output : Int]) /\ Len(steps') = len /\ DOMAIN steps' = 1..len
      /\ steps'[1].age = n /\ steps'[1].output = d
      /\ \A k \in 2..len : /\ k - 1 \in 1..Len(steps)
                           /\ steps[k-1].age \in Nat /\ steps'[k].age = steps[k-1].age + n
                           /\ steps'[k].output = steps[k-1].output
  BY StepsShift
<1> HIDE DEF len, d
<1>3. steps[1].age \in Nat /\ 1 \in 1..Len(steps) BY <1>1, StepTypes
<1>4. steps[1].output # 0 => steps[1].age >= MinGap
  <2> SUFFICES ASSUME steps[1].output # 0 PROVE steps[1].age >= MinGap OBVIOUS
  <2>1. 1 \in 1..len /\ 1 < len /\ 1 + 1 \in 2..len /\ (1 + 1) - 1 = 1 BY <1>1, <1>2
  <2>2. steps'[1+1].output = steps[1].output /\ steps'[1+1].age = steps[1].age + n BY <1>2, <2>1
  <2>3. steps'[1+1].age >= steps'[1].age + MinGap BY <1>2, <2>1, <2>2 DEF StepsApart
  <2>4. steps'[1].age = n /\ MinGap \in Nat BY <1>2 DEF SincConstants
  <2> QED BY <1>3, <2>2, <2>3, <2>4
<1>5. ASSUME NEW k \in 1..len, steps'[k].output # 0
      PROVE  steps'[k].age >= steps'[1].age + (k - 1) * MinGap
  <2>1. CASE k = 1
    <3>1. (k - 1) * MinGap = 0 /\ steps'[1].age = n BY <1>2, <2>1 DEF SincConstants
    <3> QED BY <2>1, <3>1
  <2>2. CASE k # 1
    <3>1. k \in 2..len /\ k \in Nat /\ k - 2 \in Nat BY <1>2, <2>2
    <3>2. /\ k - 1 \in 1..Len(steps) /\ steps[k-1].age \in Nat
          /\ steps'[k].age = steps[k-1].age + n /\ steps[k-1].output # 0
      BY <1>2, <1>5, <3>1
    <3>3. steps[k-1].age >= steps[1].age + ((k - 1) - 1) * MinGap BY <1>1, <3>2 DEF Apart
    <3>4. steps[1].age >= MinGap
      <4>1. CASE k = 2 BY <1>4, <3>2, <4>1
      <4>2. CASE k # 2
        <5>1. 1 < Len(steps) BY <1>1, <3>1, <3>2, <4>2
        <5>2. steps[1].output # 0 BY <1>1, <1>3, <5>1 DEF History
        <5> QED BY <1>4, <5>2
      <4> QED BY <4>1, <4>2
    <3>5. /\ (k - 1) * MinGap = ((k - 1) - 1) * MinGap + MinGap
          /\ ((k - 1) - 1) * MinGap \in Nat /\ MinGap \in Nat
      BY <3>1 DEF SincConstants
    <3>6. steps'[1].age = n BY <1>2
    <3> DEFINE X == ((k - 1) - 1) * MinGap
               Y == (k - 1) * MinGap
    <3>7. X \in Nat /\ Y = X + MinGap /\ steps[k-1].age >= steps[1].age + X /\ MinGap \in Nat
      BY <3>3, <3>5
    <3> HIDE DEF X, Y
    <3>8. steps'[k].age >= steps'[1].age + Y BY <1>3, <3>2, <3>4, <3>6, <3>7
    <3> QED BY <3>8 DEF Y
  <2> QED BY <2>1, <2>2
<1> QED BY <1>2, <1>5 DEF Apart

-----------------------------------------------------------------------------
\* While no channel is left alone for too long, the invariant is inductive.
THEOREM SincInductive == ASSUME SincConstants PROVE SincSpec /\ []NeverIdle => []SincInv
<1>1. SincInit => SincInv BY Cleared DEF SincInit
<1>2. SincInv /\ NeverIdle' /\ [SincNext]_sincVars => SincInv'
  <2> SUFFICES ASSUME SincInv, NeverIdle', [SincNext]_sincVars PROVE SincInv' OBVIOUS
  <2>1. CASE audio_reset
    <3>1. SincInit' BY <2>1 DEF audio_reset, SincInit
    <3> QED BY <3>1, <1>1, PTL
  <2>2. ASSUME NEW n \in Turns, NEW o \in Outputs, sinc_prehandler(n, o) PROVE SincInv'
    <3>1. n \in Nat BY DEF SincConstants
    <3>2. CASE Steps(n, o) BY <2>2, <3>1, <3>2, StepsKeeps DEF sinc_prehandler
    <3>3. CASE Stays(n, o) BY <2>2, <3>1, <3>3, StaysKeeps DEF sinc_prehandler
    <3> QED BY <2>2, <3>2, <3>3 DEF sinc_prehandler
  <2>3. CASE UNCHANGED sincVars
    BY <2>3 DEF sincVars, SincInv, SincTypeOK, History, Ring, Step, Latest
  <2> QED BY <2>1, <2>2, <2>3 DEF SincNext
<1> QED BY <1>1, <1>2, PTL DEF SincSpec

\* If the steps are apart besides, their ages are, however many lie between them.
THEOREM ApartInductive ==
    ASSUME SincConstants PROVE SincSpec /\ []NeverIdle /\ []StepsApart => []Apart
<1>1. SincInit => Apart
  <2> SUFFICES ASSUME SincInit PROVE Apart OBVIOUS
  <2>1. DOMAIN steps = {1} /\ steps[1].output = 0 BY DEF SincInit
  <2> QED BY <2>1 DEF Apart
<1>2. SincInv /\ Apart /\ StepsApart' /\ [SincNext]_sincVars => Apart'
  <2> SUFFICES ASSUME SincInv, Apart, StepsApart', [SincNext]_sincVars PROVE Apart' OBVIOUS
  <2>1. CASE audio_reset
    <3>1. DOMAIN steps' = {1} /\ steps'[1].output = 0 BY <2>1 DEF audio_reset
    <3> QED BY <3>1 DEF Apart
  <2>2. ASSUME NEW n \in Turns, NEW o \in Outputs, sinc_prehandler(n, o) PROVE Apart'
    <3>1. n \in Nat BY DEF SincConstants
    <3>2. CASE Steps(n, o) BY <3>1, <3>2, StepsKeepApart DEF SincInv
    <3>3. CASE Stays(n, o) BY <3>1, <3>3, StaysApart DEF SincInv
    <3> QED BY <2>2, <3>2, <3>3 DEF sinc_prehandler
  <2>3. CASE UNCHANGED sincVars BY <2>3 DEF sincVars, Apart
  <2> QED BY <2>1, <2>2, <2>3 DEF SincNext
<1> QED BY <1>1, <1>2, SincInductive, PTL DEF SincSpec

\* The queue, its head and its time are what the code's ints can hold.
THEOREM SincTypeCorrect == ASSUME SincConstants PROVE SincSpec /\ []NeverIdle => []SincTypeOK
<1>1. SincInv => SincTypeOK BY DEF SincInv
<1> QED BY <1>1, SincInductive, PTL

\* No coefficient outside the table is read (sample16si_sinc_handler()) in a song
\* that leaves no channel alone for MaxIdle cycles, 605 seconds less the table.
THEOREM TableSuffices == ASSUME SincConstants PROVE SincSpec /\ []NeverIdle => []AgesInTable
<1>1. SincInv => AgesInTable BY TableFollows
<1> QED BY <1>1, SincInductive, PTL

\* If its steps are no closer than audio.h says besides, what is mixed is exactly the
\* steps of the last MaxAge cycles: the length of the queue suffices for that.
THEOREM QueueSuffices ==
    ASSUME SincConstants PROVE SincSpec /\ []NeverIdle /\ []StepsApart => []StepsAreMixed
<1>1. SincInv /\ Apart => StepsAreMixed BY MixedFollows
<1> QED BY <1>1, SincInductive, ApartInductive, PTL
=============================================================================
