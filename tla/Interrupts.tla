----------------------------- MODULE Interrupts -----------------------------
(***************************************************************************)
(* How the emulated 68000 takes interrupts: INTREQ and INTENA (custom.c),  *)
(* the main loop, its special flags and the loop of a stopped CPU          *)
(* (newcpu.c).  The program is any: an instruction goes on at any label.   *)
(*                                                                         *)
(* m68k_run_1() executes an instruction, lets its cycles pass, in which    *)
(* the chips' events come, and calls do_specialties().  The model has the  *)
(* two halves of that as phases; events come in the second.                *)
(***************************************************************************)
EXTENDS Integers, Sequences

CONSTANTS
    Sources, \* bits of INTREQ
    Level,   \* the interrupt level of each
    Labels,  \* where the program may be
    Vector   \* where the handler of each level begins

ASSUME InterruptAssumption ==
    /\ Level \in [Sources -> 1..6]
    /\ Vector \in [1..6 -> Labels]

VARIABLES
    intreq,  \* the requests, as sources
    intena,  \* the sources enabled
    master,  \* bit 14 of INTENA
    intmask, \* regs.intmask
    int,     \* SPCFLAG_INT
    doint,   \* SPCFLAG_DOINT
    stop,    \* SPCFLAG_STOP
    stack,   \* the exception frames, newest first
    pc,      \* the next instruction
    phase    \* "execute", or "special" once an instruction is executed

chipVars == <<intreq, intena, master>>
frameVars == <<intmask, stack, pc>>
cpuVars == <<intreq, intena, master, intmask, int, doint, stop, stack, pc, phase>>

Frame == [mask : 0..7, pc : Labels]

Pending == IF master THEN intreq \cap intena ELSE {}

\* The highest level that is requested and enabled, or -1.
intlev ==
    IF Pending = {} THEN -1
    ELSE CHOOSE l \in 1..6 :
            /\ \E s \in Pending : Level[s] = l
            /\ \A s \in Pending : Level[s] <= l

-----------------------------------------------------------------------------
(* Instructions.  Each goes on at the label "next".                        *)

Execute ==
    /\ phase = "execute" /\ phase' = "special"
    /\ UNCHANGED <<doint, stack>>

Step(next) ==
    Execute /\ pc' = next /\ UNCHANGED <<intreq, intena, master, intmask, int, stop>>

\* A write to INTREQ that clears bits, and one to INTENA.
INTREQ(cleared, next) ==
    /\ Execute /\ pc' = next
    /\ intreq' = intreq \ cleared /\ int' = TRUE
    /\ UNCHANGED <<intena, master, intmask, stop>>

INTENA(enabled, on, next) ==
    /\ Execute /\ pc' = next
    /\ intena' = enabled /\ master' = on /\ int' = TRUE
    /\ UNCHANGED <<intreq, intmask, stop>>

\* Writes to the status register end in MakeFromSR().  Variant: the CPU does not
\* look at what the new mask lets through.
MakeFromSRQuietly(mask) == intmask' = mask /\ UNCHANGED int
MakeFromSR(mask) == intmask' = mask /\ int' = TRUE

MoveToSR(mask, next) ==
    /\ Execute /\ pc' = next /\ MakeFromSR(mask)
    /\ UNCHANGED <<intreq, intena, master, stop>>

Stop(mask, next) ==
    /\ Execute /\ pc' = next /\ MakeFromSR(mask) /\ stop' = TRUE
    /\ UNCHANGED <<intreq, intena, master>>

\* Exception() keeps the mask in the frame and leaves it as it is.
Trap(vector, next) ==
    /\ phase = "execute" /\ phase' = "special"
    /\ stack' = <<[mask |-> intmask, pc |-> next]>> \o stack /\ pc' = vector
    /\ UNCHANGED <<intreq, intena, master, intmask, int, doint, stop>>

Rte ==
    /\ phase = "execute" /\ phase' = "special"
    /\ stack # <<>>
    /\ pc' = Head(stack).pc /\ stack' = Tail(stack)
    /\ MakeFromSR(Head(stack).mask)
    /\ UNCHANGED <<intreq, intena, master, doint, stop>>

Instruction ==
    \/ pc' \in Labels /\ Step(pc')
    \/ pc' \in Labels /\ INTREQ(intreq \ intreq', pc')
    \/ pc' \in Labels /\ intena' \subseteq Sources /\ master' \in BOOLEAN /\ INTENA(intena', master', pc')
    \/ pc' \in Labels /\ intmask' \in 0..7 /\ MoveToSR(intmask', pc')
    \/ pc' \in Labels /\ intmask' \in 0..7 /\ Stop(intmask', pc')
    \/ pc' \in Labels /\ \E next \in Labels : Trap(pc', next)
    \/ Rte

-----------------------------------------------------------------------------
(* The cycles of the instruction, and what comes of them.                  *)

\* Chips request interrupts through INTREQ() as well.
Request(requested) ==
    /\ phase = "special"
    /\ intreq' = intreq \cup requested /\ int' = TRUE
    /\ UNCHANGED <<intena, master, intmask, doint, stop, stack, pc, phase>>

\* Variant: the mask is left as it was.
InterruptUnmasked(nr) ==
    /\ stack' = <<[mask |-> intmask, pc |-> pc]>> \o stack
    /\ pc' = Vector[nr] /\ intmask' = intmask

Interrupt(nr) ==
    /\ stack' = <<[mask |-> intmask, pc |-> pc]>> \o stack
    /\ pc' = Vector[nr] /\ intmask' = nr

\* SPCFLAG_INT becomes SPCFLAG_DOINT: an interrupt waits for one more
\* instruction.  Interrupt() sets SPCFLAG_INT again.
Running ==
    /\ phase = "special" /\ ~stop
    /\ IF doint /\ intlev > intmask
       THEN Interrupt(intlev) /\ doint' = TRUE
       ELSE UNCHANGED frameVars /\ doint' = int
    /\ int' = FALSE /\ phase' = "execute"
    /\ UNCHANGED <<intreq, intena, master, stop>>

\* A turn of the loop of a stopped CPU; both flags are looked at at once.
Stopped ==
    /\ phase = "special" /\ stop
    /\ int' = FALSE
    /\ IF (int \/ doint) /\ intlev > intmask
       THEN Interrupt(intlev) /\ doint' = TRUE /\ stop' = FALSE /\ phase' = "execute"
       ELSE UNCHANGED frameVars /\ doint' = FALSE /\ UNCHANGED <<stop, phase>>
    /\ UNCHANGED <<intreq, intena, master>>

do_specialties == Running \/ Stopped

\* m68k_reset() and customreset(); INTREQ is left as the last song left it.
CpuInit ==
    /\ intreq \in SUBSET Sources /\ intena = {} /\ master = FALSE
    /\ intmask = 7 /\ int = FALSE /\ doint = FALSE /\ stop = FALSE
    /\ stack = <<>> /\ pc \in Labels /\ phase = "execute"

CpuNext ==
    \/ Instruction
    \/ \E requested \in SUBSET Sources : Request(requested)
    \/ do_specialties

CpuSpec == CpuInit /\ [][CpuNext]_cpuVars

-----------------------------------------------------------------------------
(* What must hold of every program.                                        *)

CpuTypeOK ==
    /\ intreq \subseteq Sources /\ intena \subseteq Sources /\ master \in BOOLEAN
    /\ intmask \in 0..7 /\ int \in BOOLEAN /\ doint \in BOOLEAN /\ stop \in BOOLEAN
    /\ stack \in Seq(Frame) /\ pc \in Labels /\ phase \in {"execute", "special"}

Deliverable == \E s \in Pending : Level[s] > intmask

\* No interrupt is forgotten.  The CPU looks at INTREQ, INTENA and its mask only
\* when a flag tells it to: whatever made an interrupt deliverable, and however
\* it was put off before, a flag is up.
NoneForgotten == Deliverable => doint \/ (phase = "special" /\ int)
=============================================================================
