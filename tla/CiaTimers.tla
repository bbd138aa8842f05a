----------------------------- MODULE CiaTimers -----------------------------
(***************************************************************************)
(* The timers of the two 8520 CIAs (cia.c) and the event loop that drives  *)
(* them (include/events.h).  The timers do not tick: CIA_update() catches  *)
(* up with the cycles that have passed, CIA_calctimers() computes when the *)
(* next underflow is due, and do_cycles() calls the handler in that cycle. *)
(*                                                                         *)
(* All times are relative to the cycle counter.  The 68000 writes the      *)
(* timer registers between cycles; players program their tempo with them.  *)
(***************************************************************************)
EXTENDS Integers

CONSTANTS
    Chips,      \* the CIAs
    DIV10,      \* cycles per CIA clock: 5 ("Yes, a bad identifier.")
    Byte,       \* values of one register: 256
    IntMod,     \* values of an int: 2^32, against latches of Byte^2
    LinePeriod, \* cycles of one raster line (maxhpos)
    Programmed, \* the timers whose latches the 68000 writes
    Onces,      \* values the 68000 writes to the one-shot bit of each
    Masks,      \* the timers whose interrupts a write enables or disables
    MaxIdle     \* bound: cycles modelled while no timer runs

ASSUME CiaAssumption ==
    /\ DIV10 \in {2, 5} \* 2 for small instances
    /\ Byte \in Nat \ {0, 1} /\ IntMod \in Nat \ {0} /\ LinePeriod \in Nat \ {0}
    /\ Programmed \subseteq Chips \X {"A", "B"} /\ Onces \in [Chips \X {"A", "B"} -> SUBSET BOOLEAN]
    /\ Masks \subseteq SUBSET {"A", "B"} /\ MaxIdle \in Nat

MaxLatch == Byte * Byte - 1

Timers == Chips \X {"A", "B"}
TimerA(c) == <<c, "A">>
TimerB(c) == <<c, "B">>

\* What a timer counts: bits 0x20 of CRA, 0x60 of CRB.
Modes == {"clock", "cascade", "other"}
ModesOf(t) == IF t[2] = "A" THEN {"clock", "other"} ELSE Modes

VARIABLES
    count, latch,        \* ciaata, ciaala and so on, per timer
    run, once, mode,     \* bits 0x01, 0x08 and 0x60 of its control register
    icr, imask, irq,     \* per chip: pending, enabled, bit 0x80 of the icr
    div10, lastdiv10,    \* cycles that are no whole clock yet
    since,               \* cycles - eventtab[ev_cia].oldcycles
    active, due,         \* eventtab[ev_cia].active, .evtime - cycles
    line,                \* eventtab[ev_hsync].evtime - cycles
    next,                \* nextevent - cycles
    drift                \* history: cycles passed less cycles counted

timerVars == <<count, run, icr, irq, div10, lastdiv10, drift>>
vars == <<timerVars, latch, once, mode, imask, since, active, due, line, next>>

Init ==
    /\ count = [t \in Timers |-> MaxLatch] /\ latch = [t \in Timers |-> MaxLatch]
    /\ run = [t \in Timers |-> FALSE] /\ once = [t \in Timers |-> FALSE]
    /\ mode = [t \in Timers |-> "clock"]
    /\ icr = [c \in Chips |-> {}] /\ imask = [c \in Chips |-> {}]
    /\ irq = [c \in Chips |-> FALSE]
    /\ div10 = 0 /\ lastdiv10 = 0 /\ drift = 0
    /\ since = 0
    /\ active = FALSE /\ due = 0
    /\ line = LinePeriod /\ next = LinePeriod

-----------------------------------------------------------------------------
(* CIA_update(), e cycles after the last CIA_calctimers().                 *)
Counting(t) == run[t] /\ mode[t] = "clock"

\* Variant: the cycles left over last time are forgotten.
ClocksOfThese(e) == e \div DIV10

ciaclocks(e) == (e + lastdiv10) \div DIV10

\* A clocked timer underflows when it would be decremented at zero.
Elapses(t, e) == Counting(t) /\ count[t] + 1 = ciaclocks(e)

\* Timer B gets a pulse when timer A underflows.
Pulsed(t, e) ==
    /\ t[2] = "B" /\ run[t] /\ mode[t] = "cascade"
    /\ Elapses(TimerA(t[1]), e)

Underflows(t, e) == Elapses(t, e) \/ (Pulsed(t, e) /\ count[t] = 0)

CountAfter(t, e) ==
    IF Underflows(t, e) THEN latch[t]
    ELSE count[t] - (IF Counting(t) THEN ciaclocks(e)
                     ELSE IF Pulsed(t, e) THEN 1 ELSE 0)

RunAfter(t, e) == run[t] /\ ~(Underflows(t, e) /\ once[t])

\* RethinkICRA(), RethinkICRB() after each underflow.
IcrAfter(c, e) == icr[c] \cup {x \in {"A", "B"} : Underflows(<<c, x>>, e)}

\* Variant: only an underflow of timer A is looked at.
IrqAfterA(c, e) ==
    IF Underflows(TimerA(c), e) THEN imask[c] \cap IcrAfter(c, e) # {} ELSE irq[c]

IrqAfter(c, e) ==
    IF \E x \in {"A", "B"} : Underflows(<<c, x>>, e)
    THEN imask[c] \cap IcrAfter(c, e) # {} ELSE irq[c]

\* What CIA_update() leaves of the cycles, with the carry of two updates.
Carry(e) ==
    /\ lastdiv10' = div10
    /\ div10' = (e + lastdiv10) % DIV10
    /\ drift' = drift + e - DIV10 * ciaclocks(e)

CIA_update(e) ==
    /\ count' = [t \in Timers |-> CountAfter(t, e)]
    /\ run' = [t \in Timers |-> RunAfter(t, e)]
    /\ icr' = [c \in Chips |-> IcrAfter(c, e)]
    /\ irq' = [c \in Chips |-> IrqAfter(c, e)]
    /\ Carry(e)

-----------------------------------------------------------------------------
(* CIA_calctimers() and events_schedule().                                 *)

\* Conversion to int, then back to unsigned long: a negative time is so far
\* away that it is never the first.
AsInt(x) == ((x + IntMod \div 2) % IntMod) - IntMod \div 2

\* Variant: without the cycles already spent.
WholeClocks(n, d) == DIV10 + DIV10 * n

ClockTime(n, d) == (DIV10 - d) + DIV10 * n

\* A cascaded timer B, as long as timer A goes on.
Cascaded(c) ==
    /\ Counting(TimerA(c)) /\ run[TimerB(c)] /\ mode[TimerB(c)] = "cascade"
    /\ count[TimerB(c)] = 0 \/ ~once[TimerA(c)]

CascadeTime(c) ==
    AsInt(ClockTime(count[TimerA(c)], div10)
          + latch[TimerA(c)] * DIV10 * count[TimerB(c)])

\* The times CIA_calctimers() computes from the registers.
Times ==
    {ClockTime(count[t], div10) : t \in {u \in Timers : Counting(u)}}
    \cup {x \in {CascadeTime(c) : c \in {d \in Chips : Cascaded(d)}} : x >= 0}

First(S) == {x \in S : \A y \in S : x <= y}

CIA_calctimers ==
    /\ since' = 0
    /\ IF Times' = {} THEN active' = FALSE /\ due' = 0
       ELSE active' = TRUE /\ due' \in First(Times')

\* Differences of unsigned numbers: a time in the past is far away.
Ahead(S) == {x \in S : x >= 0}
Scheduled(S) == IF Ahead(S) = {} THEN {-1} ELSE First(Ahead(S))

events_schedule == next' \in Scheduled({line'} \cup IF active' THEN {due'} ELSE {})

-----------------------------------------------------------------------------
(* do_cycles(): one cycle.                                                 *)

Reached(d) == d = 1

\* ++cycles == nextevent: hsync_handler(), then CIA_handler(), if it is time.
EventCycle ==
    /\ next = 1 /\ (active \/ since < MaxIdle)
    /\ UNCHANGED <<latch, once, mode, imask>>
    /\ line' = IF Reached(line) THEN LinePeriod ELSE line - 1
    /\ IF active /\ Reached(due)
       THEN CIA_update(since + 1) /\ CIA_calctimers
       ELSE /\ since' = since + 1 /\ due' = IF active THEN due - 1 ELSE 0
            /\ UNCHANGED <<timerVars, active>>
    /\ events_schedule

PlainCycle ==
    /\ next # 1 /\ (active \/ since < MaxIdle)
    /\ next' = next - 1 /\ line' = line - 1 /\ since' = since + 1
    /\ due' = IF active THEN due - 1 ELSE 0
    /\ UNCHANGED <<timerVars, latch, once, mode, imask, active>>

-----------------------------------------------------------------------------
(* The 68000 accesses registers: update, change, calculate.                *)
Register(newCount, newLatch, newRun, newOnce, newMode) ==
    /\ count' = newCount /\ latch' = newLatch
    /\ run' = newRun /\ once' = newOnce /\ mode' = newMode
    /\ icr' = [c \in Chips |-> IcrAfter(c, since)]
    /\ irq' = [c \in Chips |-> IrqAfter(c, since)]
    /\ Carry(since)
    /\ UNCHANGED <<imask, line>>
    /\ CIA_calctimers
    /\ events_schedule

Counts == [t \in Timers |-> CountAfter(t, since)]
Runs == [t \in Timers |-> RunAfter(t, since)]

\* Registers 4 and 6.
WriteLatchLow(t, v) ==
    Register(Counts, [latch EXCEPT ![t] = Byte * (@ \div Byte) + v], Runs, once, mode)

\* Registers 5 and 7: a stopped timer is loaded, a one-shot timer started.
WriteLatchHigh(t, v) ==
    LET l == (latch[t] % Byte) + Byte * v
    IN  Register(IF ~Runs[t] \/ once[t] THEN [Counts EXCEPT ![t] = l] ELSE Counts,
                 [latch EXCEPT ![t] = l],
                 IF once[t] THEN [Runs EXCEPT ![t] = TRUE] ELSE Runs, once, mode)

\* Registers 14 and 15; load is the strobe bit 0x10.
WriteControl(t, r, o, m, load) ==
    Register(IF load THEN [Counts EXCEPT ![t] = latch[t]] ELSE Counts, latch,
             [Runs EXCEPT ![t] = r], [once EXCEPT ![t] = o], [mode EXCEPT ![t] = m])

\* Register 13: the interrupt mask, which does not call RethinkICR().
WriteMask(c, set, bits) ==
    /\ imask' = [imask EXCEPT ![c] = IF set THEN @ \cup bits ELSE @ \ bits]
    /\ UNCHANGED <<timerVars, latch, once, mode, since, active, due, line, next>>

\* Register 13: reading acknowledges.
ReadIcr(c) ==
    /\ icr' = [icr EXCEPT ![c] = {}] /\ irq' = [irq EXCEPT ![c] = FALSE]
    /\ UNCHANGED <<count, run, div10, lastdiv10, drift, latch, once, mode, imask,
                   since, active, due, line, next>>

\* Writes to DMACON and the copper's registers reschedule.
WriteCustom ==
    /\ UNCHANGED <<timerVars, latch, once, mode, imask, since, active, due, line>>
    /\ events_schedule

Next ==
    \/ EventCycle
    \/ PlainCycle
    \/ \E t \in Programmed, v \in 0..Byte-1 : WriteLatchLow(t, v) \/ WriteLatchHigh(t, v)
    \/ \E t \in Timers, r, load \in BOOLEAN : \E o \in Onces[t] :
          \E m \in ModesOf(t) : WriteControl(t, r, o, m, load)
    \/ \E c \in Chips, set \in BOOLEAN, bits \in Masks : WriteMask(c, set, bits)
    \/ \E c \in Chips : ReadIcr(c)
    \/ WriteCustom

Spec == Init /\ [][Next]_vars

-----------------------------------------------------------------------------
(* What must hold.                                                         *)

TypeOK ==
    /\ count \in [Timers -> 0..MaxLatch] /\ latch \in [Timers -> 0..MaxLatch]
    /\ run \in [Timers -> BOOLEAN] /\ once \in [Timers -> BOOLEAN]
    /\ mode \in [Timers -> Modes]
    /\ icr \in [Chips -> SUBSET {"A", "B"}] /\ imask \in [Chips -> SUBSET {"A", "B"}]
    /\ irq \in [Chips -> BOOLEAN]
    /\ div10 \in 0..DIV10-1 /\ lastdiv10 \in 0..DIV10-1
    /\ since \in Nat /\ active \in BOOLEAN /\ due \in Int /\ line \in Int /\ next \in Int
    /\ drift \in Int

\* The four asserts of CIA_update(): whenever a register is written or the
\* event fires, no timer has been left to run past its underflow.
UpdateAssertHolds ==
    \A t \in Timers : Counting(t) => count[t] + 1 >= ciaclocks(since)

\* nextevent is ahead of cycles between two instructions.  do_cycles() only
\* looks for equality: once it is passed, no event fires any more, and with the
\* raster line the sound stops too.
EventAhead == next >= 1

\* The chips lose no time: what the timers counted is the cycles that passed,
\* up to the two remainders that are carried over.  Tempo does not drift.
TempoIsExact == drift = div10 + lastdiv10

\* An underflow whose interrupt is enabled requests it in the same cycle, from
\* either timer and whatever else that update did.
UnderflowInterrupts ==
    [][\A c \in Chips : (icr'[c] \ icr[c]) \cap imask[c] # {} => irq'[c]]_vars

\* While a timer runs, the event is not later than its underflow: at most one
\* CIA clock beyond it.
EventInTime ==
    \A t \in Timers : Counting(t) =>
        active /\ since + due <= DIV10 * (count[t] + 1) - div10

\* What the theorems need: no time that CIA_calctimers() puts into an int is
\* truncated to zero, which reads as "now".  See the run cia_overflow.
NoTimeIsZero == \A c \in Chips : Cascaded(c) => CascadeTime(c) # 0
=============================================================================
