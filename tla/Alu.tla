---------------------------------- MODULE Alu ----------------------------------
(***************************************************************************)
(* The arithmetic of the emulated 68000: the functions that gencpu.c       *)
(* writes into cpuemu.c for the instructions that add, subtract, compare,  *)
(* divide and shift by one, with the flags they leave, and the conditions  *)
(* that branches read from these (machdep/m68k.h).                         *)
(*                                                                         *)
(* An operand is a number without sign; H is the value of its sign bit:    *)
(* 128, 32768 or 2^31 for the three sizes.  An instruction is an operator  *)
(* that returns the value it stores and the flags it leaves.               *)
(***************************************************************************)
EXTENDS Integers

CONSTANTS H, Regs

VARIABLES reg, ccr \* registers or words of memory; the flags, as booleans

vars == <<reg, ccr>>

Word == 0..2 * H - 1
Flags == [x : BOOLEAN, n : BOOLEAN, z : BOOLEAN, v : BOOLEAN, c : BOOLEAN]

Bit(b) == IF b THEN 1 ELSE 0
Negative(w) == w >= H
Signed(w) == IF Negative(w) THEN w - 2 * H ELSE w

\* The bits of an intermediate result that are stored, for -2H <= i < 4H.
Low(i) == IF i < 0 THEN i + 2 * H ELSE IF i >= 2 * H THEN i - 2 * H ELSE i

-----------------------------------------------------------------------------
(* genflags_normal().                                                      *)

flag_logical(w, f) ==
    [f EXCEPT !.c = FALSE, !.v = FALSE, !.z = w = 0, !.n = Negative(w)]

flag_zn(w, f) == [f EXCEPT !.z = @ /\ w = 0, !.n = Negative(w)]

\* ~dst < src
flag_add(w, src, dst, f) ==
    LET carry == (2 * H - 1) - dst < src
    IN  [x |-> carry, n |-> Negative(w), z |-> w = 0,
         v |-> Negative(src) # Negative(w) /\ Negative(dst) # Negative(w), c |-> carry]

\* flag_cmp has the same expressions.  X keeps its value.
flag_sub(w, src, dst, f) ==
    [x |-> f.x, n |-> Negative(w), z |-> w = 0,
     v |-> Negative(src) # Negative(dst) /\ Negative(w) # Negative(dst), c |-> src > dst]

\* Exclusive or of booleans is #.
flag_addx(w, src, dst, f) ==
    LET flgs == Negative(src)  flgo == Negative(dst)  flgn == Negative(w)
        carry == flgs # (flgs # flgo /\ flgo # flgn)
    IN  [f EXCEPT !.x = carry, !.c = carry, !.v = flgs # flgn /\ flgo # flgn]

flag_subx(w, src, dst, f) ==
    LET flgs == Negative(src)  flgo == Negative(dst)  flgn == Negative(w)
        carry == flgs # (flgs # flgn /\ flgo # flgn)
    IN  [f EXCEPT !.x = carry, !.c = carry, !.v = flgs # flgo /\ flgo # flgn]

-----------------------------------------------------------------------------
(* The instructions: what they store and the flags they leave.             *)

Add(src, dst, f) ==
    LET w == Low(dst + src) IN [val |-> w, f |-> flag_add(w, src, dst, f)]

Addx(src, dst, f) ==
    LET w == Low(dst + src + Bit(f.x))
    IN  [val |-> w, f |-> flag_zn(w, flag_addx(w, src, dst, f))]

Sub(src, dst, f) ==
    LET w == Low(dst - src) IN [val |-> w, f |-> flag_sub(w, src, dst, f)]

Subx(src, dst, f) ==
    LET w == Low(dst - src - Bit(f.x))
    IN  [val |-> w, f |-> flag_zn(w, flag_subx(w, src, dst, f))]

Neg(src, f) == Sub(src, 0, f)
Negx(src, f) == Subx(src, 0, f)
Not(src, f) == LET w == (2 * H - 1) - src IN [val |-> w, f |-> flag_logical(w, f)]
Cmp(src, dst, f) == flag_sub(Low(dst - src), src, dst, f)

\* Bytes of two decimal digits, whatever H is.  The tens are counted in units of
\* 0x10; & 0x1F0 leaves five bits of them.
Ones(b) == b % 16
Tens(b) == b \div 16

Abcd(src, dst, x) ==
    LET lo == Ones(src) + Ones(dst) + Bit(x)
        new == 16 * (Tens(src) + Tens(dst)) + (IF lo > 9 THEN lo + 6 ELSE lo)
        cflg == Tens(new) % 32 > 9
    IN  [val |-> (new + (IF cflg THEN 96 ELSE 0)) % 256, c |-> cflg]

\* The difference of the ones is a uae_u16: below 0 it is greater than 9 too.
Sbcd(src, dst, x) ==
    LET lo == Ones(dst) - Ones(src) - Bit(x)
        borrow == lo < 0 \/ lo > 9
        hi == Tens(dst) - Tens(src) - Bit(borrow)
        new == 16 * hi + Ones(IF borrow THEN lo - 6 ELSE lo)
        cflg == hi % 32 > 9
    IN  [val |-> (new - (IF cflg THEN 96 ELSE 0)) % 256, c |-> cflg]

\* It sets C and leaves X.
Nbcd(src, x) == Sbcd(src, 0, x)

\* A number of two words, and its division by a word: the remainder goes to the
\* high word.  The case of a zero divisor is an exception.
Long(hi, lo) == hi * (2 * H) + lo

Divu(src, dst, f) ==
    LET quotient == dst \div src
    IN  IF quotient >= 2 * H THEN [val |-> dst, f |-> [f EXCEPT !.v = TRUE, !.n = TRUE, !.c = FALSE]]
        ELSE [val |-> Long(dst % src, quotient), f |-> flag_logical(quotient, f)]

\* The shifts and rotations by one bit, of a word in memory.
Shifted(w, carry, f) == [val |-> w, f |-> [flag_logical(w, f) EXCEPT !.c = carry, !.x = carry]]
Rotated(w, carry, f) == [val |-> w, f |-> [flag_logical(w, f) EXCEPT !.c = carry]]
Odd(w) == w % 2 = 1

Asr(w, f) == Shifted(w \div 2 + (IF Negative(w) THEN H ELSE 0), Odd(w), f)
Lsr(w, f) == Shifted(w \div 2, Odd(w), f)
Lsl(w, f) == Shifted(Low(2 * w), Negative(w), f)
Asl(w, f) ==
    LET r == Lsl(w, f) IN [r EXCEPT !.f.v = Negative(r.val) # Negative(w)]
Rol(w, f) == Rotated(Low(2 * w) + Bit(Negative(w)), Negative(w), f)
Ror(w, f) == Rotated(w \div 2 + (IF Odd(w) THEN H ELSE 0), Odd(w), f)
Roxl(w, f) == Shifted(Low(2 * w) + Bit(f.x), Negative(w), f)
Roxr(w, f) == Shifted(w \div 2 + (IF f.x THEN H ELSE 0), Odd(w), f)

cctrue(f) ==
    [HI |-> ~f.c /\ ~f.z, LS |-> f.c \/ f.z, CC |-> ~f.c, CS |-> f.c, NE |-> ~f.z, EQ |-> f.z,
     VC |-> ~f.v, VS |-> f.v, PL |-> ~f.n, MI |-> f.n, GE |-> f.n = f.v, LT |-> f.n # f.v,
     GT |-> ~f.z /\ f.n = f.v, LE |-> f.z \/ f.n # f.v]

-----------------------------------------------------------------------------
(* A program of such instructions of one size, in any order.               *)

Init == reg \in [Regs -> Word] /\ ccr = [x |-> FALSE, n |-> FALSE, z |-> FALSE, v |-> FALSE, c |-> FALSE]

Store(d, r) == reg' = [reg EXCEPT ![d] = r.val] /\ ccr' = r.f

i_ADD(s, d) == Store(d, Add(reg[s], reg[d], ccr))
i_ADDX(s, d) == Store(d, Addx(reg[s], reg[d], ccr))
i_SUB(s, d) == Store(d, Sub(reg[s], reg[d], ccr))
i_SUBX(s, d) == Store(d, Subx(reg[s], reg[d], ccr))
i_NEG(d) == Store(d, Neg(reg[d], ccr))
i_NEGX(d) == Store(d, Negx(reg[d], ccr))
i_CMP(s, d) == ccr' = Cmp(reg[s], reg[d], ccr) /\ UNCHANGED reg
i_NOT(d) == Store(d, Not(reg[d], ccr))
i_TST(d) == ccr' = flag_logical(reg[d], ccr) /\ UNCHANGED reg
i_CLR(d) == Store(d, [val |-> 0, f |-> flag_logical(0, ccr)])
Shift(d) ==
    \E r \in {Asr(reg[d], ccr), Lsr(reg[d], ccr), Lsl(reg[d], ccr), Asl(reg[d], ccr),
              Rol(reg[d], ccr), Ror(reg[d], ccr), Roxl(reg[d], ccr), Roxr(reg[d], ccr)} : Store(d, r)

Next ==
    \/ \E s, d \in Regs :
          i_ADD(s, d) \/ i_ADDX(s, d) \/ i_SUB(s, d) \/ i_SUBX(s, d) \/ i_CMP(s, d)
    \/ \E d \in Regs : i_NEG(d) \/ i_NEGX(d) \/ i_NOT(d) \/ i_TST(d) \/ i_CLR(d) \/ Shift(d)

Spec == Init /\ [][Next]_vars

TypeOK == reg \in [Regs -> Word] /\ ccr \in Flags

\* table68k lists X among the flags that SUB and NEG set ("XNZVC"), and the other
\* variant of genflags() gives it the value of C after them as after ADD: their
\* borrow.
BorrowIsKept ==
    [][\A s, d \in Regs : i_SUB(s, d) \/ i_NEG(d) => ccr'.x = ccr'.c]_vars
=============================================================================
