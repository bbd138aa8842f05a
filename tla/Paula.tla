------------------------------- MODULE Paula -------------------------------
(***************************************************************************)
(* The audio channels of Paula (audio.c) and their DMA (custom.c).  The    *)
(* channels do not run with the 68000: each register access and each       *)
(* raster line calls update_audio(), which catches up with the cycles that *)
(* have passed, from one event of a channel or of the output to the next.  *)
(*                                                                         *)
(* The loop of update_audio() is one action per turn.  Nothing else runs   *)
(* meanwhile, so what the access is going to write may be chosen when the  *)
(* loop is done.  Addresses and lengths are in words.                      *)
(***************************************************************************)
EXTENDS Integers

CONSTANTS
    LastChannel, \* 3
    LinePeriod,  \* cycles of one raster line (maxhpos)
    LenMod,      \* values of a length register: 65536
    MinPer,      \* the least period the 68000 can set: 16
    MaxPer,      \* the greatest: 65535
    VolMod,      \* volumes are below it: 64
    Byte,        \* values of a sample byte: 256
    Num, Den,    \* sample_evtime_interval = Num / Den cycles
    Data,        \* words the sample memory may hold
    Starts, Lengths, Periods, Volumes, \* what the 68000 writes
    ByHand,      \* the channels whose data register the 68000 writes
    Attachments  \* per channel, what its words may modulate instead

Channels == 0..LastChannel

ASSUME PaulaAssumption ==
    /\ LastChannel \in Nat /\ LinePeriod \in Nat \ {0} /\ LenMod \in Nat \ {0, 1}
    /\ MinPer \in Nat \ {0} /\ MaxPer \in Nat /\ MinPer <= MaxPer
    /\ VolMod \in Nat \ {0} /\ Byte \in {2 * n : n \in 1..128}
    /\ Den \in Nat \ {0} /\ Num \in Nat /\ Num >= Den \* no rate above one sample per cycle
    /\ Data \subseteq 0..MaxPer /\ Data # {}
    /\ Starts \subseteq Nat /\ Lengths \subseteq 0..LenMod-1
    /\ Periods \subseteq 0..MaxPer /\ Volumes \subseteq Nat
    /\ ByHand \subseteq Channels
    /\ Attachments \in [Channels -> SUBSET SUBSET {"vol", "per"}]

VARIABLES
    ch,      \* audio_channel[]
    intreq,  \* the channels whose interrupt is requested (INTREQ)
    adk,     \* per channel, the attachments of ADKCON
    audible, \* the channels whose adk_mask is all ones
    lag,     \* cycles - last_audio_cycles; in update_audio() n_cycles
    line,    \* eventtab[ev_hsync].evtime - cycles
    clock,   \* next_sample_evtime * Den
    accum,   \* sample_accum_time, the same for all channels
    pc,      \* who called update_audio(), if anyone
    hand     \* history: the channels that AUDxDAT() started

vars == <<ch, intreq, adk, audible, lag, line, clock, accum, pc, hand>>

\* The fields of struct audio_channel_data; wanted is data_written = 2.
ResetChannel ==
    [state |-> 0, evtime |-> 0, dmaen |-> FALSE, intreq2 |-> FALSE, wanted |-> FALSE,
     lc |-> 0, len |-> 0, per |-> MaxPer, vol |-> 0,
     pt |-> 0, ptend |-> 0, wlen |-> 0, dat |-> 0, nextdat |-> 0, current |-> 0]

Init ==
    /\ ch = [c \in Channels |-> ResetChannel]
    /\ intreq = {} /\ adk = [c \in Channels |-> {}] /\ audible = {}
    /\ lag = 0 /\ line = LinePeriod /\ clock = Num /\ accum = 0
    /\ pc = "cpu" /\ hand = {}

-----------------------------------------------------------------------------
(* audio_handler(): a channel's counter has run out.                       *)

Signed(b) == IF b >= Byte \div 2 THEN b - Byte ELSE b
HighByte(w) == Signed((w \div Byte) % Byte)
LowByte(w) == Signed(w % Byte)

SampleEnd(lc, len) == lc + (IF len = 0 THEN LenMod ELSE len)
napnav(c) == "per" \notin adk[c] \/ "vol" \in adk[c]

\* Variant: the pointer is moved as in UAE.
DmaStartsAsInUae(r, w) ==
    [r EXCEPT !.evtime = LinePeriod, !.state = 5, !.nextdat = w, !.pt = @ + 1,
              !.wlen = IF @ = 1 THEN 1 ELSE (@ - 1) % LenMod]

\* State 1, "at the first hsync after DMA was turned on".
DmaStarts(r, w) ==
    [r EXCEPT !.evtime = LinePeriod, !.state = 5, !.nextdat = w,
              !.wlen = IF @ = 1 THEN 1 ELSE (@ - 1) % LenMod]

\* State 5, at the second one.
FirstWord(r, c) ==
    [r EXCEPT !.evtime = r.per, !.state = 2, !.dat = r.nextdat,
              !.current = HighByte(r.nextdat), !.wanted = @ \/ napnav(c)]

\* State 2: the low byte is played.  With the period attached, the word was
\* for the next channel, and the next word is fetched.
SecondByte(r, c) ==
    LET s == [r EXCEPT !.evtime = r.per, !.state = 3, !.current = LowByte(r.dat)]
    IN  IF "per" \notin adk[c] THEN s
        ELSE [s EXCEPT !.intreq2 = FALSE, !.dat = r.nextdat, !.wanted = @ \/ r.dmaen]

\* State 3: the next word, or the end of a channel without DMA.
Stops(r, c) == c \in intreq /\ ~r.dmaen

NextWord(r, c) ==
    IF Stops(r, c) THEN [r EXCEPT !.evtime = r.per, !.state = 0, !.current = 0]
    ELSE [r EXCEPT !.evtime = r.per, !.state = 2, !.intreq2 = FALSE, !.dat = r.nextdat,
                   !.current = HighByte(r.nextdat), !.wanted = @ \/ (r.dmaen /\ napnav(c))]

audio_handler(r, c, w) ==
    CASE r.state = 1 -> DmaStarts(r, w)
      [] r.state = 5 -> FirstWord(r, c)
      [] r.state = 2 -> SecondByte(r, c)
      [] r.state = 3 -> NextWord(r, c)

\* Whether it calls INTREQ().
Interrupts(r, c) ==
    \/ r.state = 1
    \/ r.state = 2 /\ "per" \in adk[c] /\ r.intreq2 /\ r.dmaen
    \/ r.state = 3 /\ ~Stops(r, c) /\ napnav(c) /\ (r.intreq2 \/ ~r.dmaen)

\* A zero period stands for the longest.
PeriodOf(w) == IF w = 0 THEN MaxPer ELSE w

\* What the handler of channel c - 1, which runs before, leaves to channel c.
Modulated(c, due) ==
    LET r == ch[c]
        m == ch[c - 1]
    IN  IF c = 0 \/ (c - 1) \notin due THEN r
        ELSE IF m.state = 2 /\ "per" \in adk[c - 1] THEN [r EXCEPT !.per = PeriodOf(m.nextdat)]
        ELSE IF m.state = 3 /\ ~Stops(m, c - 1) /\ "vol" \in adk[c - 1]
             THEN [r EXCEPT !.vol = m.nextdat]
        ELSE r

-----------------------------------------------------------------------------
(* update_audio(): one turn of its loop.                                   *)

Active == {c \in Channels : ch[c].state # 0}

\* Variant: without the half.
RoundedDown == clock \div Den

\* floorf(), and one more from a half on.
Rounded == (2 * clock + Den) \div (2 * Den)

\* best_evtime: the first event of a channel or of the output.
Times == {Rounded, lag} \cup {ch[c].evtime : c \in Active}
Best == {n \in Times : \A m \in Times : n <= m}

SampleDue(n) == Rounded = n

\* The clock, and the time the samples are averaged over (anti_prehandler()).
ClockAfter(n) == clock - Den * n + IF SampleDue(n) THEN Num ELSE 0
AccumAfter(n) == IF SampleDue(n) THEN 0 ELSE accum + n

\* The counter of a stopped channel runs on, unread, and is left out.
Elapsed(r, n) == IF r.state = 0 THEN r ELSE [r EXCEPT !.evtime = @ - n]

Turn(n) ==
    LET due == {c \in Active : ch[c].evtime = n}
    IN  /\ lag' = lag - n /\ clock' = ClockAfter(n) /\ accum' = AccumAfter(n)
        /\ \E w \in [due -> Data] :
              ch' = [c \in Channels |->
                        LET r == Elapsed(Modulated(c, due), n)
                        IN  IF c \in due THEN audio_handler(r, c, w[c]) ELSE r]
        /\ intreq' = intreq \cup {c \in due : Interrupts(ch[c], c)}
        /\ hand' = {c \in hand : ch'[c].state # 0}
        /\ UNCHANGED <<adk, audible, line, pc>>

Updating == pc # "cpu" /\ lag > 0

update_audio == Updating /\ \E n \in Best : Turn(n)

-----------------------------------------------------------------------------
(* The raster line: hsync_handler() fetches a word for each channel.       *)
Cycle ==
    /\ pc = "cpu" /\ lag' = lag + 1
    /\ IF line = 1 THEN line' = LinePeriod /\ pc' = "line" ELSE line' = line - 1 /\ pc' = pc
    /\ UNCHANGED <<ch, intreq, adk, audible, clock, accum, hand>>

\* Only a playing channel counts its words; after the last it starts over.
Fetched(r, w) ==
    LET last == r.wlen = 1
        s == [r EXCEPT !.wanted = FALSE, !.nextdat = w, !.pt = IF last THEN @ ELSE @ + 1]
    IN  IF r.state \notin {2, 3} THEN s
        ELSE IF last THEN [s EXCEPT !.pt = r.lc, !.ptend = SampleEnd(r.lc, r.len), !.wlen = r.len,
                                    !.intreq2 = TRUE]
        ELSE [s EXCEPT !.wlen = (@ - 1) % LenMod]

hsync_handler ==
    LET wanting == {c \in Channels : ch[c].wanted}
    IN  /\ pc = "line" /\ lag = 0
        /\ \E w \in [wanting -> Data] :
              ch' = [c \in Channels |-> IF c \in wanting THEN Fetched(ch[c], w[c]) ELSE ch[c]]
        /\ pc' = "cpu"
        /\ UNCHANGED <<intreq, adk, audible, lag, line, clock, accum, hand>>

-----------------------------------------------------------------------------
(* The 68000 accesses a register: update_audio() first, then the write.    *)
BeginAccess ==
    /\ pc = "cpu" /\ pc' = "access"
    /\ UNCHANGED <<ch, intreq, adk, audible, lag, line, clock, accum, hand>>

Write(newCh) ==
    /\ pc = "access" /\ lag = 0
    /\ ch' = newCh /\ pc' = "cpu"
    /\ UNCHANGED <<lag, line, clock, accum>>

Set(c, field, v) == Write([ch EXCEPT ![c] = [@ EXCEPT ![field] = v]]) /\ UNCHANGED <<intreq, adk, audible, hand>>

\* AUDxLCH() or AUDxLCL(), each writing half of it.
AUDxLC(c, a) == Set(c, "lc", a)

AUDxLEN(c, v) == Set(c, "len", v)

\* Variant: the period is taken as it is.
AnyPeriod(c, v) == Set(c, "per", v)

AUDxPER(c, v) == Set(c, "per", IF v = 0 THEN MaxPer ELSE IF v < MinPer THEN MinPer ELSE v)

AUDxVOL(c, v) == Set(c, "vol", IF (v \div VolMod) % 2 = 1 THEN VolMod - 1 ELSE v % VolMod)

\* A word by hand starts a stopped channel.
AUDxDAT(c, v) ==
    LET starts == ch[c].state = 0 /\ c \notin intreq
        s == [ch[c] EXCEPT !.dat = v]
    IN  /\ Write([ch EXCEPT ![c] = IF starts THEN [s EXCEPT !.state = 2, !.evtime = s.per] ELSE s])
        /\ intreq' = IF starts THEN intreq \cup {c} ELSE intreq
        /\ hand' = IF starts THEN hand \cup {c} ELSE hand
        /\ UNCHANGED <<adk, audible>>

\* Variant: a channel that already plays is started again.
DmaOnAgain(r) ==
    [r EXCEPT !.dmaen = TRUE, !.state = 1, !.current = 0, !.pt = r.lc, !.ptend = SampleEnd(r.lc, r.len),
              !.wlen = r.len, !.wanted = TRUE, !.evtime = line]

DmaOn(r) ==
    IF r.state # 0 THEN [r EXCEPT !.dmaen = TRUE]
    ELSE [r EXCEPT !.dmaen = TRUE, !.state = 1, !.pt = r.lc, !.ptend = SampleEnd(r.lc, r.len),
                   !.wlen = r.len, !.wanted = TRUE, !.evtime = line]

DmaOff(r) ==
    IF r.state \in {1, 5} THEN [r EXCEPT !.dmaen = FALSE, !.state = 0, !.current = 0]
    ELSE [r EXCEPT !.dmaen = FALSE]

\* Channel bits are set or cleared; the other bits of a write change nothing
\* but the master bit, which is all channels at once.
DMACON(set, bits) ==
    /\ LET on == {c \in Channels : ch[c].dmaen}
           to == IF set THEN on \cup bits ELSE on \ bits
       IN  Write([c \in Channels |-> IF c \in to THEN DmaOn(ch[c]) ELSE DmaOff(ch[c])])
    /\ UNCHANGED <<intreq, adk, audible, hand>>

\* One write sets or clears bits of all channels.
ADKCON(set, bits) ==
    /\ Write(ch)
    /\ adk' = [c \in Channels |-> IF set THEN adk[c] \cup bits[c] ELSE adk[c] \ bits[c]]
    /\ audible' = {c \in Channels : adk'[c] = {}}
    /\ UNCHANGED <<intreq, hand>>

\* INTREQ() does not call update_audio().
INTREQ(set, bits) ==
    /\ pc = "cpu"
    /\ intreq' = IF set THEN intreq \cup bits ELSE intreq \ bits
    /\ UNCHANGED <<ch, adk, audible, lag, line, clock, accum, pc, hand>>

\* customreset() with audio_reset() leaves INTREQ and ADKCON alone.
customreset ==
    /\ pc = "cpu"
    /\ ch' = [c \in Channels |-> ResetChannel] /\ audible' = {} /\ hand' = {}
    /\ lag' = 0 /\ line' = LinePeriod /\ clock' = Num /\ accum' = 0
    /\ UNCHANGED <<intreq, adk, pc>>

Access ==
    \/ \E c \in Channels :
          \/ \E a \in Starts : AUDxLC(c, a)
          \/ \E v \in Lengths : AUDxLEN(c, v)
          \/ \E v \in Periods : AUDxPER(c, v)
          \/ \E v \in Volumes : AUDxVOL(c, v)
    \/ \E c \in ByHand, v \in Data : AUDxDAT(c, v)
    \/ \E set \in BOOLEAN, bits \in SUBSET Channels : DMACON(set, bits)
    \/ \E set \in BOOLEAN, bits \in {b \in [Channels -> SUBSET {"vol", "per"}] :
                                       \A c \in Channels : b[c] \in Attachments[c]} :
          ADKCON(set, bits)

Next ==
    \/ update_audio \/ Cycle \/ hsync_handler \/ BeginAccess \/ Access
    \/ \E set \in BOOLEAN, bits \in SUBSET Channels : INTREQ(set, bits)
    \/ customreset

Spec == Init /\ [][Next]_vars

\* The emulator's own loops run, and an access ends.  Every instruction takes
\* cycles, so cycles pass however many accesses there are.
Fairness ==
    /\ WF_vars(update_audio) /\ WF_vars(hsync_handler) /\ WF_vars(Access)
    /\ SF_vars(Cycle)

FairSpec == Spec /\ Fairness

-----------------------------------------------------------------------------
(* What must hold.                                                         *)

Channel ==
    [state : {0, 1, 5, 2, 3}, evtime : Nat, dmaen : BOOLEAN, intreq2 : BOOLEAN, wanted : BOOLEAN,
     lc : Nat, len : 0..LenMod-1, per : Nat, vol : Nat,
     pt : Nat, ptend : Nat, wlen : 0..LenMod-1, dat : Data \cup {0}, nextdat : Data \cup {0},
     current : -(Byte \div 2) .. (Byte \div 2)]

TypeOK ==
    /\ ch \in [Channels -> Channel]
    /\ intreq \subseteq Channels /\ audible \subseteq Channels /\ hand \subseteq Channels
    /\ adk \in [Channels -> SUBSET {"vol", "per"}]
    /\ lag \in 0..LinePeriod /\ line \in 1..LinePeriod
    /\ clock \in Int /\ accum \in Nat
    /\ pc \in {"cpu", "access", "line"}

\* update_audio() ends: each turn of its loop takes at least one cycle.  It
\* would not if a period were ever zero, from a register, a reset or a word.
TimeGoesOn == Updating => \A n \in Best : n >= 1

\* "Before the following addition, next_sample_evtime is in range [-0.5, 0.5)":
\* the output clock is met to the cycle whatever the channels do.  And the mean
\* of sample16si_anti_handler() is over at least one cycle: it divides by it.
SampleClock ==
    /\ clock >= 0
    /\ Updating =>
          \A n \in Best : SampleDue(n) =>
             /\ -Den <= 2 * (clock - Den * n) /\ 2 * (clock - Den * n) < Den
             /\ accum + n > 0

\* A channel started by DMA fetches only words of its sample, whatever is
\* written to its registers and whenever DMA is switched (the check of
\* AUDIO_DEBUG in hsync_handler()).
FetchInRange ==
    pc = "line" /\ lag = 0 =>
        \A c \in Active \ hand : ch[c].wanted => ch[c].pt < ch[c].ptend

\* "We come here at the first hsync after DMA was turned on", "at the second":
\* neither the sample clock nor the lag of update_audio() moves the start.
DmaStartsOnLines ==
    \A c \in Channels :
        IF pc = "line" /\ lag = 0 THEN ch[c].state # 1 /\ (ch[c].state = 5 => ch[c].wanted)
        ELSE (ch[c].state = 1 => ch[c].wanted)
             /\ (pc # "line" => (ch[c].state = 5 => ~ch[c].wanted))

\* A channel that is off, or about to start, adds nothing to the output.
StoppedIsSilent == \A c \in Channels : ch[c].state \in {0, 1, 5} => ch[c].current = 0

\* While DMA stays on and nothing is attached, passes of the sample keep coming
\* to their end, and each end is announced: players loop on this interrupt.
PassesGoOn ==
    \A c \in Channels :
        <>[](ch[c].dmaen /\ adk[c] = {}) => []<>(ch[c].intreq2) /\ []<>(~ch[c].intreq2)
=============================================================================
