-------------------------- MODULE CiaTimersProofs --------------------------
(***************************************************************************)
(* Proofs about CiaTimers for every number of chips and every size of the  *)
(* registers.  As long as no time wraps around to zero (NoTimeIsZero), the *)
(* event is never missed, the asserts of CIA_update() hold, and no cycle   *)
(* is lost.                                                                *)
(***************************************************************************)
EXTENDS CiaTimers, TLAPS

\* What the timers are between two cycles or accesses.
Registers ==
    /\ count \in [Timers -> 0..MaxLatch] /\ latch \in [Timers -> 0..MaxLatch]
    /\ run \in [Timers -> BOOLEAN] /\ once \in [Timers -> BOOLEAN]
    /\ mode \in [Timers -> Modes]

Interrupts ==
    /\ icr \in [Chips -> SUBSET {"A", "B"}] /\ imask \in [Chips -> SUBSET {"A", "B"}]
    /\ irq \in [Chips -> BOOLEAN]

Remainders ==
    /\ div10 \in 0..DIV10-1 /\ lastdiv10 \in 0..DIV10-1
    /\ drift = div10 + lastdiv10

\* The event table: what is active is ahead, and nextevent is the first of it.
Table ==
    /\ since \in Nat /\ active \in BOOLEAN
    /\ due \in Int /\ line \in Int /\ next \in Int
    /\ line >= 1 /\ next >= 1 /\ next <= line
    /\ active => due >= 1 /\ next <= due

\* The inductive invariant.
IInv == Registers /\ Interrupts /\ Remainders /\ Table /\ EventInTime

-----------------------------------------------------------------------------
\* The cycles are the whole clocks and what remains of them.
LEMMA Division ==
    ASSUME NEW e \in Nat
    PROVE  /\ e \div DIV10 \in Nat /\ e % DIV10 \in 0..DIV10-1
           /\ e = DIV10 * (e \div DIV10) + (e % DIV10)
<1>1. CASE DIV10 = 2 BY <1>1
<1>2. CASE DIV10 = 5 BY <1>2
<1> QED BY <1>1, <1>2, CiaAssumption

\* The largest latch value is a natural number.
LEMMA LatchSize == MaxLatch \in Nat /\ Byte \in Nat /\ Byte >= 2 /\ Byte * Byte = MaxLatch + 1
<1>1. Byte \in Nat /\ Byte >= 2 BY CiaAssumption
<1>2. Byte * Byte \in Nat BY <1>1
<1>3. Byte * Byte >= 1 BY <1>1, <1>2
<1> QED BY <1>1, <1>2, <1>3 DEF MaxLatch

\* CIA_update() within the time of the event finds no timer past its underflow.
LEMMA NotPast ==
    ASSUME IInv, NEW e \in Nat, active => e <= since + due, NEW t \in Timers, Counting(t)
    PROVE  ciaclocks(e) \in Nat /\ ciaclocks(e) <= count[t] + 1
<1>1. active /\ since + due <= DIV10 * (count[t] + 1) - div10
  BY DEF IInv, EventInTime
<1>2. e + lastdiv10 \in Nat /\ lastdiv10 \in 0..DIV10-1 /\ div10 \in 0..DIV10-1
  BY CiaAssumption DEF IInv, Remainders
<1>3. count[t] \in Nat BY LatchSize DEF IInv, Registers
<1>4. since \in Nat /\ due \in Int BY DEF IInv, Table
<1>5. ciaclocks(e) \in Nat BY <1>2, Division DEF ciaclocks
<1>6. DIV10 * ciaclocks(e) <= e + lastdiv10 BY <1>2, Division, CiaAssumption DEF ciaclocks
<1>7. CASE DIV10 = 2 BY <1>1, <1>2, <1>3, <1>4, <1>5, <1>6, <1>7
<1>8. CASE DIV10 = 5 BY <1>1, <1>2, <1>3, <1>4, <1>5, <1>6, <1>8
<1> QED BY <1>5, <1>7, <1>8, CiaAssumption

\* So what it leaves in the counters are counts.
LEMMA CountsAreCounts ==
    ASSUME IInv, NEW e \in Nat, active => e <= since + due, NEW t \in Timers
    PROVE  CountAfter(t, e) \in 0..MaxLatch /\ RunAfter(t, e) \in BOOLEAN
<1>1. count[t] \in 0..MaxLatch /\ latch[t] \in 0..MaxLatch /\ run[t] \in BOOLEAN
  BY DEF IInv, Registers
<1>2. MaxLatch \in Nat BY LatchSize
<1>3. RunAfter(t, e) \in BOOLEAN BY <1>1 DEF RunAfter
<1>4. CASE Underflows(t, e) BY <1>1, <1>3, <1>4 DEF CountAfter
<1>5. CASE ~Underflows(t, e) /\ Counting(t)
  <2>1. ciaclocks(e) \in Nat /\ ciaclocks(e) <= count[t] + 1 BY <1>5, NotPast
  <2>2. ciaclocks(e) # count[t] + 1 BY <1>5 DEF Underflows, Elapses
  <2>3. CountAfter(t, e) = count[t] - ciaclocks(e) BY <1>5 DEF CountAfter
  <2> QED BY <1>1, <1>2, <1>3, <2>1, <2>2, <2>3
<1>6. CASE ~Underflows(t, e) /\ ~Counting(t) /\ Pulsed(t, e)
  <2>1. count[t] # 0 BY <1>6 DEF Underflows
  <2>2. CountAfter(t, e) = count[t] - 1 BY <1>6 DEF CountAfter
  <2> QED BY <1>1, <1>2, <1>3, <2>1, <2>2
<1>7. CASE ~Underflows(t, e) /\ ~Counting(t) /\ ~Pulsed(t, e)
  <2>1. CountAfter(t, e) = count[t] - 0 BY <1>7 DEF CountAfter
  <2> QED BY <1>1, <1>2, <1>3, <2>1
<1> QED BY <1>4, <1>5, <1>6, <1>7

\* Carry keeps the account of cycles.
LEMMA CarryKeeps ==
    ASSUME Remainders, NEW e \in Nat, Carry(e)
    PROVE  Remainders'
<1>1. e + lastdiv10 \in Nat BY CiaAssumption DEF Remainders
<1>2. /\ (e + lastdiv10) % DIV10 \in 0..DIV10-1
      /\ e + lastdiv10 = DIV10 * ciaclocks(e) + ((e + lastdiv10) % DIV10)
      /\ ciaclocks(e) \in Nat
  BY <1>1, Division DEF ciaclocks
<1>3. CASE DIV10 = 2 BY <1>1, <1>2, <1>3 DEF Remainders, Carry
<1>4. CASE DIV10 = 5 BY <1>1, <1>2, <1>4 DEF Remainders, Carry
<1> QED BY <1>3, <1>4, CiaAssumption

\* The interrupt registers keep their types.
LEMMA InterruptTypes ==
    ASSUME Interrupts, NEW e, NEW c \in Chips
    PROVE  IcrAfter(c, e) \in SUBSET {"A", "B"} /\ IrqAfter(c, e) \in BOOLEAN
<1>1. icr[c] \in SUBSET {"A", "B"} /\ irq[c] \in BOOLEAN BY DEF Interrupts
<1> QED BY <1>1 DEF IcrAfter, IrqAfter

-----------------------------------------------------------------------------
\* What CIA_calctimers() schedules is ahead, and no running timer elapses before.
LEMMA Calc ==
    ASSUME Registers', Remainders', NoTimeIsZero', CIA_calctimers
    PROVE  /\ since' = 0 /\ active' \in BOOLEAN /\ due' \in Int
           /\ active' => due' >= 1
           /\ EventInTime'
<1>1. ASSUME NEW n \in 0..MaxLatch, NEW d \in 0..DIV10-1
      PROVE  /\ ClockTime(n, d) \in Nat /\ ClockTime(n, d) >= 1
             /\ ClockTime(n, d) = DIV10 * (n + 1) - d
  <2>1. n \in Nat BY LatchSize
  <2>2. CASE DIV10 = 2 BY <2>1, <2>2 DEF ClockTime
  <2>3. CASE DIV10 = 5 BY <2>1, <2>3 DEF ClockTime
  <2> QED BY <2>2, <2>3, CiaAssumption
<1>2. /\ div10' \in 0..DIV10-1
      /\ \A t \in Timers : count'[t] \in 0..MaxLatch /\ latch'[t] \in 0..MaxLatch
  BY DEF Registers, Remainders
<1>3. ASSUME NEW x \in Times' PROVE x \in Int /\ x >= 1
  <2>1. CASE \E t \in Timers : x = ClockTime(count'[t], div10')
    BY <1>1, <1>2, <2>1
  <2>2. CASE \E c \in Chips : Cascaded(c)' /\ x >= 0 /\ x = CascadeTime(c)'
    <3>1. PICK c \in Chips : Cascaded(c)' /\ x >= 0 /\ x = CascadeTime(c)' BY <2>2
    <3>2. TimerA(c) \in Timers /\ TimerB(c) \in Timers BY DEF Timers, TimerA, TimerB
    <3>3. x # 0 BY <3>1 DEF NoTimeIsZero
    <3>4. ASSUME NEW y \in Int PROVE AsInt(y) \in Int BY CiaAssumption DEF AsInt
    <3>5. ASSUME NEW l \in Nat, NEW n \in Nat PROVE l * DIV10 * n \in Int
      <4>1. l * DIV10 \in Int BY CiaAssumption
      <4> QED BY <4>1
    <3>6. ClockTime(count'[TimerA(c)], div10') \in Int BY <1>1, <1>2, <3>2
    <3>7. latch'[TimerA(c)] * DIV10 * count'[TimerB(c)] \in Int
      BY <1>2, <3>2, <3>5, LatchSize
    <3>8. ClockTime(count'[TimerA(c)], div10')
          + latch'[TimerA(c)] * DIV10 * count'[TimerB(c)] \in Int
      BY <3>6, <3>7
    <3>9. x \in Int BY <3>1, <3>4, <3>8 DEF CascadeTime, TimerA, TimerB
    <3> QED BY <3>1, <3>3, <3>9
  <2> QED BY <2>1, <2>2 DEF Times
<1>4. ASSUME NEW t \in Timers, Counting(t)' PROVE ClockTime(count'[t], div10') \in Times'
  BY <1>4 DEF Times
<1>5. since' = 0 /\ active' \in BOOLEAN /\ (active' <=> Times' # {})
      /\ (active' => due' \in First(Times')) /\ (~active' => due' = 0)
  BY DEF CIA_calctimers
<1>6. active' => due' \in Times' /\ \A y \in Times' : due' <= y BY <1>5 DEF First
<1>7. EventInTime'
  <2> SUFFICES ASSUME NEW t \in Timers, Counting(t)'
               PROVE active' /\ since' + due' <= DIV10 * (count'[t] + 1) - div10'
    BY DEF EventInTime
  <2>1. active' /\ due' <= ClockTime(count'[t], div10') BY <1>4, <1>5, <1>6
  <2>2. due' \in Int BY <1>3, <1>6, <2>1
  <2> QED BY <1>1, <1>2, <1>5, <2>1, <2>2
<1> QED BY <1>3, <1>5, <1>6, <1>7

\* events_schedule() takes the first of what is active.
LEMMA Schedule ==
    ASSUME line' \in Int, line' >= 1, active' \in BOOLEAN, due' \in Int,
           active' => due' >= 1, events_schedule
    PROVE  /\ next' \in Int /\ next' >= 1 /\ next' <= line'
           /\ active' => next' <= due'
<1> DEFINE S == {line'} \cup IF active' THEN {due'} ELSE {}
<1>1. line' \in Ahead(S) /\ (active' => due' \in Ahead(S)) BY DEF Ahead
<1>2. \A x \in S : x \in Int /\ x >= 1 OBVIOUS
<1>3. next' \in First(Ahead(S)) BY <1>1 DEF events_schedule, Scheduled
<1> QED BY <1>1, <1>2, <1>3 DEF First, Ahead

-----------------------------------------------------------------------------
\* A latch with one of its bytes replaced is a latch value.
LEMMA LatchBytes ==
    ASSUME NEW l \in 0..MaxLatch, NEW v \in 0..Byte-1
    PROVE  /\ Byte * (l \div Byte) + v \in 0..MaxLatch
           /\ (l % Byte) + Byte * v \in 0..MaxLatch
<1>1. Byte \in Nat /\ Byte >= 2 /\ l \in Nat /\ MaxLatch = Byte * Byte - 1
  BY LatchSize DEF MaxLatch
<1>2. l % Byte \in 0..Byte-1 /\ l \div Byte \in Nat BY <1>1
<1>3. l = Byte * (l \div Byte) + (l % Byte) BY <1>1
<1>4. ASSUME NEW q \in Nat, q <= Byte - 1
      PROVE  Byte * q \in Nat /\ Byte * q <= Byte * (Byte - 1)
  BY <1>1, <1>4
<1>5. Byte * (Byte - 1) = Byte * Byte - Byte BY <1>1
<1>6. l \div Byte <= Byte - 1
  <2>1. SUFFICES ASSUME l \div Byte >= Byte PROVE FALSE BY <1>1, <1>2
  <2>2. Byte * (l \div Byte) >= Byte * Byte BY <1>1, <1>2, <2>1
  <2>3. l >= Byte * Byte /\ l <= Byte * Byte - 1 BY <1>1, <1>2, <1>3, <2>2
  <2> QED BY <1>1, <2>3
<1>7. Byte * (l \div Byte) \in Nat /\ Byte * (l \div Byte) <= Byte * Byte - Byte
  BY <1>2, <1>4, <1>5, <1>6
<1>8. Byte * v \in Nat /\ Byte * v <= Byte * Byte - Byte BY <1>1, <1>4, <1>5
<1> QED BY <1>1, <1>2, <1>7, <1>8

-----------------------------------------------------------------------------
\* The initial state satisfies the invariant.
LEMMA InitIInv == Init => IInv
<1> SUFFICES ASSUME Init PROVE IInv OBVIOUS
<1>1. MaxLatch \in Nat BY LatchSize
<1>2. Registers BY <1>1 DEF Init, Registers, Modes
<1>3. Interrupts BY DEF Init, Interrupts
<1>4. Remainders BY CiaAssumption DEF Init, Remainders
<1>5. Table
  <2>1. since = 0 /\ active = FALSE /\ due = 0 /\ line = LinePeriod /\ next = LinePeriod
    BY DEF Init
  <2>2. LinePeriod \in Nat /\ LinePeriod # 0 BY CiaAssumption
  <2>3. active \in BOOLEAN /\ ~active BY <2>1
  <2>4. since \in Nat /\ due \in Int /\ line \in Int /\ next \in Int
        /\ line >= 1 /\ next >= 1 /\ next <= line
    BY <2>1, <2>2
  <2> QED BY <2>3, <2>4 DEF Table
<1>6. EventInTime BY DEF Init, EventInTime, Counting
<1> QED BY <1>2, <1>3, <1>4, <1>5, <1>6 DEF IInv

\* An access to a register, whatever it changes, keeps the invariant.
LEMMA RegisterKeeps ==
    ASSUME IInv,
           NEW newCount \in [Timers -> 0..MaxLatch], NEW newLatch \in [Timers -> 0..MaxLatch],
           NEW newRun \in [Timers -> BOOLEAN], NEW newOnce \in [Timers -> BOOLEAN],
           NEW newMode \in [Timers -> Modes],
           NoTimeIsZero', Register(newCount, newLatch, newRun, newOnce, newMode)
    PROVE  IInv'
<1>1. Registers' BY DEF Register, Registers
<1>2. since \in Nat BY DEF IInv, Table
<1>3. Interrupts'
  <2>1. \A c \in Chips : IcrAfter(c, since) \in SUBSET {"A", "B"}
                         /\ IrqAfter(c, since) \in BOOLEAN
    BY InterruptTypes DEF IInv
  <2> QED BY <2>1 DEF Register, Interrupts, IInv
<1>4. Remainders' BY <1>2, CarryKeeps DEF Register, IInv
<1>5. /\ since' = 0 /\ active' \in BOOLEAN /\ due' \in Int
      /\ active' => due' >= 1
      /\ EventInTime'
  BY <1>1, <1>4, Calc DEF Register
<1>6. line' \in Int /\ line' >= 1 BY DEF Register, IInv, Table
<1>7. next' \in Int /\ next' >= 1 /\ next' <= line' /\ (active' => next' <= due')
  BY <1>5, <1>6, Schedule DEF Register
<1>8. Table' BY <1>5, <1>6, <1>7 DEF Table
<1> QED BY <1>1, <1>3, <1>4, <1>5, <1>8 DEF IInv

\* What CIA_update() leaves, for the accesses that build on it.
LEMMA Updated ==
    ASSUME IInv
    PROVE  Counts \in [Timers -> 0..MaxLatch] /\ Runs \in [Timers -> BOOLEAN]
<1>1. since \in Nat /\ (active => since <= since + due) BY DEF IInv, Table
<1>2. \A t \in Timers : CountAfter(t, since) \in 0..MaxLatch /\ RunAfter(t, since) \in BOOLEAN
  BY <1>1, CountsAreCounts
<1> QED BY <1>2 DEF Counts, Runs

\* Writing a low latch byte keeps the invariant.
LEMMA LatchLowKeeps ==
    ASSUME IInv, NEW t \in Programmed, NEW v \in 0..Byte-1, NoTimeIsZero',
           WriteLatchLow(t, v)
    PROVE  IInv'
<1>1. t \in Timers BY CiaAssumption DEF Timers
<1>2. Byte * (latch[t] \div Byte) + v \in 0..MaxLatch
  BY <1>1, LatchBytes DEF IInv, Registers
<1>3. [latch EXCEPT ![t] = Byte * (@ \div Byte) + v] \in [Timers -> 0..MaxLatch]
  BY <1>2 DEF IInv, Registers
<1> QED BY <1>3, Updated, RegisterKeeps DEF WriteLatchLow, IInv, Registers

\* Writing a high latch byte keeps the invariant.
LEMMA LatchHighKeeps ==
    ASSUME IInv, NEW t \in Programmed, NEW v \in 0..Byte-1, NoTimeIsZero',
           WriteLatchHigh(t, v)
    PROVE  IInv'
<1> DEFINE l == (latch[t] % Byte) + Byte * v
           nc == IF ~Runs[t] \/ once[t] THEN [Counts EXCEPT ![t] = l] ELSE Counts
           nl == [latch EXCEPT ![t] = l]
           nr == IF once[t] THEN [Runs EXCEPT ![t] = TRUE] ELSE Runs
<1>1. t \in Timers BY CiaAssumption DEF Timers
<1>2. l \in 0..MaxLatch BY <1>1, LatchBytes DEF IInv, Registers
<1>3. Register(nc, nl, nr, once, mode) BY DEF WriteLatchHigh
<1> HIDE DEF l
<1>4. nc \in [Timers -> 0..MaxLatch] BY <1>2, Updated
<1>5. nl \in [Timers -> 0..MaxLatch] BY <1>2 DEF IInv, Registers
<1>6. nr \in [Timers -> BOOLEAN] BY Updated
<1>7. once \in [Timers -> BOOLEAN] /\ mode \in [Timers -> Modes] BY DEF IInv, Registers
<1> HIDE DEF nc, nl, nr
<1> QED BY <1>3, <1>4, <1>5, <1>6, <1>7, RegisterKeeps

\* Writing a control register keeps the invariant.
LEMMA ControlKeeps ==
    ASSUME IInv, NEW t \in Timers, NEW r \in BOOLEAN, NEW o \in BOOLEAN,
           NEW m \in ModesOf(t), NEW load \in BOOLEAN, NoTimeIsZero',
           WriteControl(t, r, o, m, load)
    PROVE  IInv'
<1> DEFINE nc == IF load THEN [Counts EXCEPT ![t] = latch[t]] ELSE Counts
           nr == [Runs EXCEPT ![t] = r]
           no == [once EXCEPT ![t] = o]
           nm == [mode EXCEPT ![t] = m]
<1>1. Register(nc, latch, nr, no, nm) BY DEF WriteControl
<1>2. latch \in [Timers -> 0..MaxLatch] /\ once \in [Timers -> BOOLEAN]
      /\ mode \in [Timers -> Modes]
  BY DEF IInv, Registers
<1>3. m \in Modes BY DEF ModesOf, Modes
<1>4. nc \in [Timers -> 0..MaxLatch] BY <1>2, Updated
<1>5. nr \in [Timers -> BOOLEAN] BY Updated
<1>6. no \in [Timers -> BOOLEAN] BY <1>2
<1>7. nm \in [Timers -> Modes] BY <1>2, <1>3
<1> HIDE DEF nc, nr, no, nm
<1> QED BY <1>1, <1>2, <1>4, <1>5, <1>6, <1>7, RegisterKeeps

\* The cycle in which an event is due keeps the invariant.
LEMMA EventCycleKeeps == ASSUME IInv, NoTimeIsZero', EventCycle PROVE IInv'
<1>1. line' \in Int /\ line' >= 1
  BY CiaAssumption DEF IInv, Table, EventCycle, Reached
<1>2. latch' = latch /\ once' = once /\ mode' = mode /\ imask' = imask /\ events_schedule
  BY DEF EventCycle
<1>3. CASE active /\ Reached(due)
  <2>1. CIA_update(since + 1) /\ CIA_calctimers BY <1>3 DEF EventCycle
  <2>2. since + 1 \in Nat /\ (active => since + 1 <= since + due)
    BY <1>3 DEF IInv, Table, Reached
  <2>3. \A t \in Timers : CountAfter(t, since + 1) \in 0..MaxLatch
                          /\ RunAfter(t, since + 1) \in BOOLEAN
    BY <2>2, CountsAreCounts
  <2>4. Registers' BY <1>2, <2>1, <2>3 DEF CIA_update, IInv, Registers
  <2>5. \A c \in Chips : IcrAfter(c, since + 1) \in SUBSET {"A", "B"}
                         /\ IrqAfter(c, since + 1) \in BOOLEAN
    BY InterruptTypes DEF IInv
  <2>6. Interrupts' BY <1>2, <2>1, <2>5 DEF CIA_update, IInv, Interrupts
  <2>7. Remainders' BY <2>1, <2>2, CarryKeeps DEF CIA_update, IInv
  <2>8. /\ since' = 0 /\ active' \in BOOLEAN /\ due' \in Int
        /\ active' => due' >= 1
        /\ EventInTime'
    BY <2>1, <2>4, <2>7, Calc
  <2>9. next' \in Int /\ next' >= 1 /\ next' <= line' /\ (active' => next' <= due')
    BY <1>1, <1>2, <2>8, Schedule
  <2> QED BY <1>1, <2>4, <2>6, <2>7, <2>8, <2>9 DEF IInv, Table
<1>4. CASE ~(active /\ Reached(due))
  <2>1. /\ since' = since + 1 /\ due' = IF active THEN due - 1 ELSE 0
        /\ UNCHANGED <<timerVars, active>>
    BY <1>4 DEF EventCycle
  <2>2. UNCHANGED <<count, run, icr, irq, div10, lastdiv10, drift>> /\ active' = active
    BY <2>1 DEF timerVars
  <2>3. Registers' /\ Interrupts' /\ Remainders'
    BY <1>2, <2>2 DEF IInv, Registers, Interrupts, Remainders
  <2>4. since \in Nat /\ active \in BOOLEAN /\ due \in Int /\ (active => due >= 2)
    BY <1>4 DEF IInv, Table, Reached
  <2>5. since' \in Nat /\ active' \in BOOLEAN /\ due' \in Int /\ (active' => due' >= 1)
    BY <2>1, <2>2, <2>4
  <2>6. next' \in Int /\ next' >= 1 /\ next' <= line' /\ (active' => next' <= due')
    BY <1>1, <1>2, <2>5, Schedule
  <2>7. active => since' + due' = since + due BY <2>1, <2>4
  <2>8. EventInTime'
    BY <1>2, <2>2, <2>7 DEF IInv, EventInTime, Counting
  <2> QED BY <1>1, <2>3, <2>5, <2>6, <2>8 DEF IInv, Table
<1> QED BY <1>3, <1>4

\* Any other cycle keeps the invariant.
LEMMA PlainCycleKeeps == ASSUME IInv, PlainCycle PROVE IInv'
<1>1. /\ latch' = latch /\ once' = once /\ mode' = mode /\ imask' = imask
      /\ active' = active /\ UNCHANGED <<count, run, icr, irq, div10, lastdiv10, drift>>
  BY DEF PlainCycle, timerVars
<1>2. Registers' /\ Interrupts' /\ Remainders'
  BY <1>1 DEF IInv, Registers, Interrupts, Remainders
<1>3. Table' BY <1>1 DEF IInv, Table, PlainCycle
<1>4. active => since' + due' = since + due BY DEF PlainCycle, IInv, Table
<1>5. EventInTime' BY <1>1, <1>4 DEF IInv, EventInTime, Counting
<1> QED BY <1>2, <1>3, <1>5 DEF IInv

\* The accesses that leave the timers alone keep the invariant.
LEMMA MaskKeeps ==
    ASSUME IInv, NEW c \in Chips, NEW set \in BOOLEAN, NEW bits \in Masks,
           WriteMask(c, set, bits)
    PROVE  IInv'
<1>1. UNCHANGED <<count, run, icr, irq, div10, lastdiv10, drift>> BY DEF WriteMask, timerVars
<1>2. Registers' /\ Remainders' /\ Table' /\ EventInTime'
  BY <1>1 DEF WriteMask, IInv, Registers, Remainders, Table, EventInTime, Counting
<1>3. bits \in SUBSET {"A", "B"} BY CiaAssumption
<1>4. Interrupts' BY <1>1, <1>3 DEF WriteMask, IInv, Interrupts
<1> QED BY <1>2, <1>4 DEF IInv

\* So does reading the interrupt register.
LEMMA ReadKeeps == ASSUME IInv, NEW c \in Chips, ReadIcr(c) PROVE IInv'
<1>1. Registers' /\ Remainders' /\ Table' /\ EventInTime'
  BY DEF ReadIcr, IInv, Registers, Remainders, Table, EventInTime, Counting
<1>2. Interrupts' BY DEF ReadIcr, IInv, Interrupts
<1> QED BY <1>1, <1>2 DEF IInv

\* So does scheduling once more.
LEMMA CustomKeeps == ASSUME IInv, WriteCustom PROVE IInv'
<1>1. UNCHANGED <<count, run, icr, irq, div10, lastdiv10, drift>>
      /\ UNCHANGED <<latch, once, mode, imask, since, active, due, line>>
  BY DEF WriteCustom, timerVars
<1>2. Registers' /\ Interrupts' /\ Remainders' /\ EventInTime'
  BY <1>1 DEF IInv, Registers, Interrupts, Remainders, EventInTime, Counting
<1>3. next' \in Int /\ next' >= 1 /\ next' <= line' /\ (active' => next' <= due')
  BY <1>1, Schedule DEF WriteCustom, IInv, Table
<1>4. Table' BY <1>1, <1>3 DEF IInv, Table
<1> QED BY <1>2, <1>4 DEF IInv

\* Every step keeps the invariant.
LEMMA NextKeeps == IInv /\ NoTimeIsZero' /\ [Next]_vars => IInv'
<1> SUFFICES ASSUME IInv, NoTimeIsZero', [Next]_vars PROVE IInv' OBVIOUS
<1>1. CASE EventCycle BY <1>1, EventCycleKeeps
<1>2. CASE PlainCycle BY <1>2, PlainCycleKeeps
<1>3. CASE \E t \in Programmed, v \in 0..Byte-1 : WriteLatchLow(t, v) \/ WriteLatchHigh(t, v)
  BY <1>3, LatchLowKeeps, LatchHighKeeps
<1>4. CASE \E t \in Timers, r, load \in BOOLEAN : \E o \in Onces[t] :
              \E m \in ModesOf(t) : WriteControl(t, r, o, m, load)
  <2>1. \A t \in Timers : Onces[t] \subseteq BOOLEAN BY CiaAssumption DEF Timers
  <2> QED BY <1>4, <2>1, ControlKeeps
<1>5. CASE \E c \in Chips, set \in BOOLEAN, bits \in Masks : WriteMask(c, set, bits)
  BY <1>5, MaskKeeps
<1>6. CASE \E c \in Chips : ReadIcr(c) BY <1>6, ReadKeeps
<1>7. CASE WriteCustom BY <1>7, CustomKeeps
<1>8. CASE UNCHANGED vars
  BY <1>8 DEF vars, timerVars, IInv, Registers, Interrupts, Remainders, Table,
              EventInTime, Counting
<1> QED BY <1>1, <1>2, <1>3, <1>4, <1>5, <1>6, <1>7, <1>8 DEF Next

-----------------------------------------------------------------------------
\* The invariant holds of every state the timers and the event loop reach.
THEOREM Inductive == Spec /\ []NoTimeIsZero => []IInv
<1> QED BY InitIInv, NextKeeps, PTL DEF Spec

\* Counters stay within their latches' range: CIA_update() never makes one
\* negative, which as an unsigned long it could not show.
THEOREM TypesHold == Spec /\ []NoTimeIsZero => []TypeOK
<1>1. IInv => TypeOK
  BY CiaAssumption DEF IInv, Registers, Interrupts, Remainders, Table, TypeOK
<1> QED BY <1>1, Inductive, PTL

\* The four asserts of CIA_update() hold at every register access.
THEOREM AssertsHold == Spec /\ []NoTimeIsZero => []UpdateAssertHolds
<1>1. IInv => UpdateAssertHolds
  <2> SUFFICES ASSUME IInv, NEW t \in Timers, Counting(t)
               PROVE  count[t] + 1 >= ciaclocks(since)
    BY DEF UpdateAssertHolds
  <2>1. since \in Nat /\ (active => since <= since + due) BY DEF IInv, Table
  <2>2. ciaclocks(since) \in Nat /\ ciaclocks(since) <= count[t] + 1 BY <2>1, NotPast
  <2>3. count[t] \in Nat BY LatchSize DEF IInv, Registers
  <2> QED BY <2>2, <2>3
<1> QED BY <1>1, Inductive, PTL

\* do_cycles() never steps over nextevent.
THEOREM NoEventIsMissed == Spec /\ []NoTimeIsZero => []EventAhead
<1>1. IInv => EventAhead BY DEF IInv, Table, EventAhead
<1> QED BY <1>1, Inductive, PTL

\* The event comes before a running timer elapses.
THEOREM EventComesInTime == Spec /\ []NoTimeIsZero => []EventInTime
<1>1. IInv => EventInTime BY DEF IInv
<1> QED BY <1>1, Inductive, PTL

\* An underflow that raises an enabled interrupt, in CIA_update(), requests it.
LEMMA RaisedIsRequested ==
    ASSUME NEW c \in Chips, NEW e, (IcrAfter(c, e) \ icr[c]) \cap imask[c] # {}
    PROVE  IrqAfter(c, e)
<1>1. PICK x \in {"A", "B"} : Underflows(<<c, x>>, e) /\ x \in imask[c]
  BY DEF IcrAfter
<1>2. imask[c] \cap IcrAfter(c, e) # {} BY <1>1 DEF IcrAfter
<1> QED BY <1>1, <1>2 DEF IrqAfter

-----------------------------------------------------------------------------
\* What needs no assumption on the times: the account of cycles and the types of
\* the interrupt registers are invariants by themselves.
Account == Remainders /\ Interrupts /\ since \in Nat

\* Every step keeps the account.
LEMMA AccountKeeps == Account /\ [Next]_vars => Account'
<1> SUFFICES ASSUME Account, [Next]_vars PROVE Account' OBVIOUS
<1> USE DEF Account
<1>1. ASSUME NEW e \in Nat, Carry(e), CIA_calctimers, imask' = imask,
             icr' = [c \in Chips |-> IcrAfter(c, e)], irq' = [c \in Chips |-> IrqAfter(c, e)]
      PROVE  Account'
  <2>1. Remainders' BY <1>1, CarryKeeps
  <2>2. \A c \in Chips : IcrAfter(c, e) \in SUBSET {"A", "B"} /\ IrqAfter(c, e) \in BOOLEAN
    BY InterruptTypes
  <2>3. Interrupts' BY <1>1, <2>2 DEF Interrupts
  <2>4. since' \in Nat BY <1>1 DEF CIA_calctimers
  <2> QED BY <2>1, <2>3, <2>4
<1>2. CASE EventCycle
  <2>1. CASE active /\ Reached(due)
    <3>1. imask' = imask /\ CIA_update(since + 1) /\ CIA_calctimers
      BY <1>2, <2>1 DEF EventCycle
    <3>2. since + 1 \in Nat OBVIOUS
    <3> QED BY <1>1, <3>1, <3>2 DEF CIA_update
  <2>2. CASE ~(active /\ Reached(due))
    <3>1. imask' = imask /\ since' = since + 1 /\ UNCHANGED timerVars
      BY <1>2, <2>2 DEF EventCycle
    <3> QED BY <3>1 DEF timerVars, Remainders, Interrupts
  <2> QED BY <2>1, <2>2
<1>3. CASE PlainCycle BY <1>3 DEF PlainCycle, timerVars, Remainders, Interrupts
<1>4. CASE \E t \in Programmed, v \in 0..Byte-1 : WriteLatchLow(t, v) \/ WriteLatchHigh(t, v)
  BY <1>1, <1>4 DEF WriteLatchLow, WriteLatchHigh, Register
<1>5. CASE \E t \in Timers, r, load \in BOOLEAN : \E o \in Onces[t] :
              \E m \in ModesOf(t) : WriteControl(t, r, o, m, load)
  BY <1>1, <1>5 DEF WriteControl, Register
<1>6. CASE \E c \in Chips, set \in BOOLEAN, bits \in Masks : WriteMask(c, set, bits)
  <2>1. PICK c \in Chips, set \in BOOLEAN, bits \in Masks : WriteMask(c, set, bits) BY <1>6
  <2>2. Remainders' /\ since' = since BY <2>1 DEF WriteMask, timerVars, Remainders
  <2>3. bits \in SUBSET {"A", "B"} BY CiaAssumption
  <2>4. Interrupts' BY <2>1, <2>3 DEF WriteMask, timerVars, Interrupts
  <2> QED BY <2>2, <2>4
<1>7. CASE \E c \in Chips : ReadIcr(c) BY <1>7 DEF ReadIcr, Remainders, Interrupts
<1>8. CASE WriteCustom BY <1>8 DEF WriteCustom, timerVars, Remainders, Interrupts
<1>9. CASE UNCHANGED vars BY <1>9 DEF vars, timerVars, Remainders, Interrupts
<1> QED BY <1>2, <1>3, <1>4, <1>5, <1>6, <1>7, <1>8, <1>9 DEF Next

\* The account holds of every reachable state.
LEMMA AccountHolds == Spec => []Account
<1>1. Init => Account BY InitIInv DEF IInv, Table, Account
<1> QED BY <1>1, AccountKeeps, PTL DEF Spec

\* What the timers count is the time that passed, up to two remainders.
THEOREM TempoHolds == Spec => []TempoIsExact
<1>1. Account => TempoIsExact BY DEF Account, Remainders, TempoIsExact
<1> QED BY <1>1, AccountHolds, PTL

\* Every step does so.
LEMMA StepRequests ==
    ASSUME Account, [Next]_vars, NEW c \in Chips, (icr'[c] \ icr[c]) \cap imask[c] # {}
    PROVE  irq'[c]
<1>1. ASSUME NEW e, icr' = [d \in Chips |-> IcrAfter(d, e)],
             irq' = [d \in Chips |-> IrqAfter(d, e)]
      PROVE  irq'[c]
  BY <1>1, RaisedIsRequested
<1>2. CASE EventCycle
  BY <1>1, <1>2 DEF EventCycle, CIA_update, timerVars
<1>3. CASE PlainCycle BY <1>3 DEF PlainCycle, timerVars
<1>4. CASE \E t \in Programmed, v \in 0..Byte-1 : WriteLatchLow(t, v) \/ WriteLatchHigh(t, v)
  BY <1>1, <1>4 DEF WriteLatchLow, WriteLatchHigh, Register
<1>5. CASE \E t \in Timers, r, load \in BOOLEAN : \E o \in Onces[t] :
              \E m \in ModesOf(t) : WriteControl(t, r, o, m, load)
  BY <1>1, <1>5 DEF WriteControl, Register
<1>6. CASE \E d \in Chips, set \in BOOLEAN, bits \in Masks : WriteMask(d, set, bits)
  BY <1>6 DEF WriteMask, timerVars
<1>7. CASE \E d \in Chips : ReadIcr(d) BY <1>7 DEF ReadIcr, Account, Interrupts
<1>8. CASE WriteCustom BY <1>8 DEF WriteCustom, timerVars
<1>9. CASE UNCHANGED vars BY <1>9 DEF vars, timerVars
<1> QED BY <1>2, <1>3, <1>4, <1>5, <1>6, <1>7, <1>8, <1>9 DEF Next

\* Whichever timer underflows, an enabled interrupt is requested at once.
THEOREM UnderflowsInterrupt == Spec => UnderflowInterrupts
<1>1. Account /\ [Next]_vars =>
        [\A c \in Chips : (icr'[c] \ icr[c]) \cap imask[c] # {} => irq'[c]]_vars
  BY StepRequests
<1> QED BY <1>1, AccountHolds, PTL DEF Spec, UnderflowInterrupts
=============================================================================
