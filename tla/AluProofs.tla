------------------------------- MODULE AluProofs -------------------------------
(***************************************************************************)
(* Theorems about the arithmetic of the emulated 68000, for operands of    *)
(* every size: which flags are what a program takes them for.  The lemmas  *)
(* on numbers come first; each theorem then reads an instruction's record. *)
(***************************************************************************)
EXTENDS Alu, TLAPS

LEMMA AddArithmetic ==
  ASSUME H \in Nat \ {0}, NEW s \in Word, NEW d \in Word, NEW w, w = Low(d + s)
  PROVE  /\ w \in Word
         /\ w + (IF (2 * H - 1) - d < s THEN 2 * H ELSE 0) = s + d
         /\ (Negative(s) # Negative(w) /\ Negative(d) # Negative(w)) <=> Signed(s) + Signed(d) \notin -H..H - 1
         /\ Signed(s) + Signed(d) \in -H..H - 1 => Signed(w) = Signed(s) + Signed(d)
  BY DEF Low, Word, Signed, Negative

LEMMA SubArithmetic ==
  ASSUME H \in Nat \ {0}, NEW s \in Word, NEW d \in Word, NEW w, w = Low(d - s)
  PROVE  /\ w \in Word
         /\ w - (IF s > d THEN 2 * H ELSE 0) = d - s
         /\ (Negative(s) # Negative(d) /\ Negative(w) # Negative(d)) <=> Signed(d) - Signed(s) \notin -H..H - 1
         /\ Signed(d) - Signed(s) \in -H..H - 1 => Signed(w) = Signed(d) - Signed(s)
         /\ w = 0 <=> s = d
         /\ Signed(d) >= Signed(s) <=> (Negative(w) <=> Signed(d) - Signed(s) \notin -H..H - 1)
         /\ Signed(d) = Signed(s) <=> s = d
  BY DEF Low, Word, Signed, Negative

LEMMA AddxArithmetic ==
  ASSUME H \in Nat \ {0}, NEW s \in Word, NEW d \in Word, NEW b \in 0..1, NEW w, w = Low(d + s + b)
  PROVE  /\ w \in Word
         /\ w + (IF Negative(s) # (Negative(s) # Negative(d) /\ Negative(d) # Negative(w)) THEN 2 * H ELSE 0)
               = s + d + b
         /\ (Negative(s) # Negative(w) /\ Negative(d) # Negative(w)) <=> Signed(s) + Signed(d) + b \notin -H..H - 1
  BY DEF Low, Word, Signed, Negative

LEMMA SubxArithmetic ==
  ASSUME H \in Nat \ {0}, NEW s \in Word, NEW d \in Word, NEW b \in 0..1, NEW w, w = Low(d - s - b)
  PROVE  /\ w \in Word
         /\ w - (IF Negative(s) # (Negative(s) # Negative(w) /\ Negative(d) # Negative(w)) THEN 2 * H ELSE 0)
               = d - s - b
         /\ (Negative(s) # Negative(d) /\ Negative(d) # Negative(w)) <=> Signed(d) - Signed(s) - b \notin -H..H - 1
  BY DEF Low, Word, Signed, Negative

\* ADD: the value and the carry are the sum, V says that the signed sum does not
\* fit the size, and X is C.
THEOREM AddIsExact ==
  ASSUME H \in Nat \ {0}, NEW s \in Word, NEW d \in Word, NEW f \in Flags, NEW r, r = Add(s, d, f)
  PROVE  /\ r.val \in Word
         /\ r.val + (IF r.f.c THEN 2 * H ELSE 0) = s + d
         /\ r.f.v <=> Signed(s) + Signed(d) \notin -H..H - 1
         /\ ~r.f.v => Signed(r.val) = Signed(s) + Signed(d)
         /\ r.f.x = r.f.c
<1> DEFINE w == Low(d + s)
<1>1. /\ r.val = w
      /\ r.f.c = ((2 * H - 1) - d < s) /\ r.f.x = ((2 * H - 1) - d < s)
      /\ r.f.v = (Negative(s) # Negative(w) /\ Negative(d) # Negative(w))
  BY DEF Add, flag_add
<1>2. /\ w \in Word
      /\ w + (IF (2 * H - 1) - d < s THEN 2 * H ELSE 0) = s + d
      /\ (Negative(s) # Negative(w) /\ Negative(d) # Negative(w)) <=> Signed(s) + Signed(d) \notin -H..H - 1
      /\ Signed(s) + Signed(d) \in -H..H - 1 => Signed(w) = Signed(s) + Signed(d)
  BY AddArithmetic
<1> HIDE DEF w
<1> QED  BY <1>1, <1>2, Zenon

\* SUB: the value and the borrow are the difference, V says that the signed
\* difference does not fit; X is what it was.
THEOREM SubIsExact ==
  ASSUME H \in Nat \ {0}, NEW s \in Word, NEW d \in Word, NEW f \in Flags, NEW r, r = Sub(s, d, f)
  PROVE  /\ r.val \in Word
         /\ r.val - (IF r.f.c THEN 2 * H ELSE 0) = d - s
         /\ r.f.c <=> s > d
         /\ r.f.v <=> Signed(d) - Signed(s) \notin -H..H - 1
         /\ ~r.f.v => Signed(r.val) = Signed(d) - Signed(s)
         /\ r.f.x = f.x
<1> DEFINE w == Low(d - s)
<1>1. /\ r.val = w
      /\ r.f.c = (s > d) /\ r.f.x = f.x
      /\ r.f.v = (Negative(s) # Negative(d) /\ Negative(w) # Negative(d))
  BY DEF Sub, flag_sub
<1>2. /\ w \in Word
      /\ w - (IF s > d THEN 2 * H ELSE 0) = d - s
      /\ (Negative(s) # Negative(d) /\ Negative(w) # Negative(d)) <=> Signed(d) - Signed(s) \notin -H..H - 1
      /\ Signed(d) - Signed(s) \in -H..H - 1 => Signed(w) = Signed(d) - Signed(s)
  BY SubArithmetic
<1> HIDE DEF w
<1> QED  BY <1>1, <1>2, Zenon

\* CMP: the fourteen conditions of Bcc, Scc and DBcc.  Those with C compare the
\* operands without sign and those with N and V together with it; V alone says
\* that the signed difference does not fit, N alone that what is left of it is
\* negative.
THEOREM CmpDecides ==
  ASSUME H \in Nat \ {0}, NEW s \in Word, NEW d \in Word, NEW f \in Flags,
         NEW cc, cc = cctrue(Cmp(s, d, f))
  PROVE  /\ cc.EQ <=> d = s
         /\ cc.HI <=> d > s
         /\ cc.CC <=> d >= s
         /\ cc.GE <=> Signed(d) >= Signed(s)
         /\ cc.GT <=> Signed(d) > Signed(s)
         /\ cc.VS <=> Signed(d) - Signed(s) \notin -H..H - 1
         /\ cc.MI <=> Negative(Low(d - s))
         /\ (cc.NE <=> ~cc.EQ) /\ (cc.LS <=> ~cc.HI) /\ (cc.CS <=> ~cc.CC)
         /\ (cc.LT <=> ~cc.GE) /\ (cc.LE <=> ~cc.GT) /\ (cc.VC <=> ~cc.VS) /\ (cc.PL <=> ~cc.MI)
<1> DEFINE w == Low(d - s)
           V == Negative(s) # Negative(d) /\ Negative(w) # Negative(d)
           g == Cmp(s, d, f)
<1>1. g.z = (w = 0) /\ g.c = (s > d) /\ g.n = Negative(w) /\ g.v = V
  BY Zenon DEF Cmp, flag_sub
<1>2. /\ cc.EQ = g.z /\ cc.HI = (~g.c /\ ~g.z) /\ cc.CC = ~g.c /\ cc.GE = (g.n = g.v)
      /\ cc.GT = (~g.z /\ g.n = g.v) /\ cc.NE = ~g.z /\ cc.LS = (g.c \/ g.z) /\ cc.CS = g.c
      /\ cc.LT = (g.n # g.v) /\ cc.LE = (g.z \/ g.n # g.v)
      /\ cc.VS = g.v /\ cc.VC = ~g.v /\ cc.MI = g.n /\ cc.PL = ~g.n
  BY Zenon DEF cctrue
<1> HIDE DEF g
<1>3. /\ w \in Word
      /\ V <=> Signed(d) - Signed(s) \notin -H..H - 1
      /\ w = 0 <=> s = d
      /\ Signed(d) >= Signed(s) <=> (Negative(w) <=> Signed(d) - Signed(s) \notin -H..H - 1)
      /\ Signed(d) = Signed(s) <=> s = d
  BY SubArithmetic
<1>4. (Negative(w) <=> V) <=> Signed(d) >= Signed(s)
  BY <1>3
<1> HIDE DEF V, w
<1>5. (g.n = g.v) <=> Signed(d) >= Signed(s)
  <2>1. (Negative(w) = V) <=> (Negative(w) <=> V)
    BY DEF V, Negative
  <2> QED  BY <1>1, <1>4, <2>1, Zenon
<1>6. g.z <=> s = d
  BY <1>1, <1>3, Zenon
<1>7. g.c <=> ~(d >= s)
  <2>1. s > d <=> ~(d >= s)
    BY DEF Word
  <2> QED  BY <1>1, <2>1, Zenon
<1>8. /\ d > s <=> d >= s /\ d # s
      /\ Signed(d) > Signed(s) <=> Signed(d) >= Signed(s) /\ d # s
  <2>1. Signed(d) \in Int /\ Signed(s) \in Int
    BY DEF Signed, Word
  <2> QED  BY <1>3, <2>1 DEF Word
<1>9. cc.EQ <=> d = s
  BY <1>2, <1>6, Zenon
<1>10. cc.CC <=> d >= s
  BY <1>2, <1>7, Zenon
<1>11. cc.HI <=> d > s
  BY <1>2, <1>6, <1>7, <1>8, Zenon
<1>12. cc.GE <=> Signed(d) >= Signed(s)
  BY <1>2, <1>5, Zenon
<1>13. cc.GT <=> Signed(d) > Signed(s)
  BY <1>2, <1>5, <1>6, <1>8, Zenon
<1>14. /\ (cc.NE <=> ~cc.EQ) /\ (cc.LS <=> ~cc.HI) /\ (cc.CS <=> ~cc.CC)
       /\ (cc.LT <=> ~cc.GE) /\ (cc.LE <=> ~cc.GT) /\ (cc.VC <=> ~cc.VS) /\ (cc.PL <=> ~cc.MI)
  BY <1>2, Zenon
<1>15. (g.v <=> Signed(d) - Signed(s) \notin -H..H - 1) /\ (g.n <=> Negative(w))
  BY <1>1, <1>3, Zenon
<1>16. (cc.VS <=> Signed(d) - Signed(s) \notin -H..H - 1) /\ (cc.MI <=> Negative(w))
  BY <1>2, <1>15, Zenon
<1>17. cc.MI <=> Negative(Low(d - s))
  BY <1>16 DEF w
<1> QED  BY <1>9, <1>10, <1>11, <1>12, <1>13, <1>14, <1>16, <1>17, Zenon

\* ADDX: the sum with X; Z is only ever cleared.  The carry comes from three sign
\* bits ("minterm").
THEOREM AddxIsExact ==
  ASSUME H \in Nat \ {0}, NEW s \in Word, NEW d \in Word, NEW f \in Flags, NEW r, r = Addx(s, d, f)
  PROVE  /\ r.val \in Word
         /\ r.val + (IF r.f.c THEN 2 * H ELSE 0) = s + d + Bit(f.x)
         /\ r.f.v <=> Signed(s) + Signed(d) + Bit(f.x) \notin -H..H - 1
         /\ r.f.z <=> f.z /\ r.val = 0
         /\ r.f.x = r.f.c
<1> DEFINE w == Low(d + s + Bit(f.x))
           C == Negative(s) # (Negative(s) # Negative(d) /\ Negative(d) # Negative(w))
<1>1. /\ r.val = w
      /\ r.f.c = C /\ r.f.x = C /\ r.f.z = (f.z /\ w = 0)
      /\ r.f.v = (Negative(s) # Negative(w) /\ Negative(d) # Negative(w))
  BY DEF Addx, flag_addx, flag_zn, Flags
<1>2. Bit(f.x) \in 0..1
  BY DEF Bit
<1>3. /\ w \in Word
      /\ w + (IF C THEN 2 * H ELSE 0) = s + d + Bit(f.x)
      /\ (Negative(s) # Negative(w) /\ Negative(d) # Negative(w))
            <=> Signed(s) + Signed(d) + Bit(f.x) \notin -H..H - 1
  BY <1>2, AddxArithmetic
<1> HIDE DEF w, C
<1> QED  BY <1>1, <1>3, Zenon

\* SUBX: the difference less X; Z is only ever cleared.
THEOREM SubxIsExact ==
  ASSUME H \in Nat \ {0}, NEW s \in Word, NEW d \in Word, NEW f \in Flags, NEW r, r = Subx(s, d, f)
  PROVE  /\ r.val \in Word
         /\ r.val - (IF r.f.c THEN 2 * H ELSE 0) = d - s - Bit(f.x)
         /\ r.f.v <=> Signed(d) - Signed(s) - Bit(f.x) \notin -H..H - 1
         /\ r.f.z <=> f.z /\ r.val = 0
         /\ r.f.x = r.f.c
<1> DEFINE w == Low(d - s - Bit(f.x))
           C == Negative(s) # (Negative(s) # Negative(w) /\ Negative(d) # Negative(w))
<1>1. /\ r.val = w
      /\ r.f.c = C /\ r.f.x = C /\ r.f.z = (f.z /\ w = 0)
      /\ r.f.v = (Negative(s) # Negative(d) /\ Negative(d) # Negative(w))
  BY DEF Subx, flag_subx, flag_zn, Flags
<1>2. Bit(f.x) \in 0..1
  BY DEF Bit
<1>3. /\ w \in Word
      /\ w - (IF C THEN 2 * H ELSE 0) = d - s - Bit(f.x)
      /\ (Negative(s) # Negative(d) /\ Negative(d) # Negative(w))
            <=> Signed(d) - Signed(s) - Bit(f.x) \notin -H..H - 1
  BY <1>2, SubxArithmetic
<1> HIDE DEF w, C
<1> QED  BY <1>1, <1>3, Zenon

-----------------------------------------------------------------------------
(* Numbers of two words.                                                   *)

LEMMA LongRange ==
  ASSUME H \in Nat \ {0}, NEW hi \in Word, NEW lo \in Word
  PROVE  Long(hi, lo) = 0 <=> hi = 0 /\ lo = 0
  BY DEF Long, Word

LEMMA ZnFlags ==
  ASSUME NEW w, NEW f \in Flags
  PROVE  flag_zn(w, f) \in Flags
<1>1. f.z \in BOOLEAN /\ (f.z /\ w = 0) \in BOOLEAN /\ Negative(w) \in BOOLEAN
  BY DEF Flags, Negative
<1> QED  BY <1>1 DEF flag_zn, Flags

LEMMA CarryFlags ==
  ASSUME NEW f \in Flags, NEW c \in BOOLEAN, NEW v \in BOOLEAN
  PROVE  [f EXCEPT !.x = c, !.c = c, !.v = v] \in Flags
  BY DEF Flags

LEMMA AddxFlags ==
  ASSUME NEW s, NEW d, NEW f \in Flags
  PROVE  Addx(s, d, f).f \in Flags
<1>1. \A w : flag_addx(w, s, d, f) \in Flags
  BY CarryFlags, Zenon DEF flag_addx
<1> QED  BY <1>1, ZnFlags DEF Addx

LEMMA SubxFlags ==
  ASSUME NEW s, NEW d, NEW f \in Flags
  PROVE  Subx(s, d, f).f \in Flags
<1>1. \A w : flag_subx(w, s, d, f) \in Flags
  BY CarryFlags, Zenon DEF flag_subx
<1> QED  BY <1>1, ZnFlags DEF Subx

LEMMA SubFlags ==
  ASSUME NEW s, NEW d, NEW f \in Flags
  PROVE  Sub(s, d, f).f \in Flags
  BY DEF Sub, flag_sub, Flags, Negative

\* Two ADDX, after X was cleared and Z set, add numbers of two words: the carry
\* crosses through X, and Z is that of the whole number.
THEOREM LongAddition ==
  ASSUME H \in Nat \ {0}, NEW sh \in Word, NEW sl \in Word, NEW dh \in Word, NEW dl \in Word,
         NEW f \in Flags, ~f.x, f.z,
         NEW lo, lo = Addx(sl, dl, f), NEW hi, hi = Addx(sh, dh, lo.f)
  PROVE  /\ Long(hi.val, lo.val) + Bit(hi.f.c) * ((2 * H) * (2 * H)) = Long(sh, sl) + Long(dh, dl)
         /\ hi.f.z <=> Long(hi.val, lo.val) = 0
<1> DEFINE b == Bit(lo.f.c)  c == Bit(hi.f.c)
<1>1. lo.f \in Flags
  BY AddxFlags
<1>2. b \in 0..1 /\ c \in 0..1 /\ Bit(f.x) = 0
  BY DEF Bit
<1>3. /\ lo.val \in Word
      /\ lo.val + (IF lo.f.c THEN 2 * H ELSE 0) = sl + dl + Bit(f.x)
      /\ lo.f.z <=> f.z /\ lo.val = 0
      /\ lo.f.x = lo.f.c
  BY AddxIsExact
<1>4. /\ hi.val \in Word
      /\ hi.val + (IF hi.f.c THEN 2 * H ELSE 0) = sh + dh + Bit(lo.f.x)
      /\ hi.f.z <=> lo.f.z /\ hi.val = 0
  BY <1>1, AddxIsExact
<1>5. lo.val \in Word /\ lo.val + 2 * H * b = sl + dl
  BY <1>2, <1>3 DEF Bit, Word
<1>6. hi.val \in Word /\ hi.val + 2 * H * c = sh + dh + b
  BY <1>2, <1>3, <1>4 DEF Bit, Word
<1> HIDE DEF b, c
<1>7. Long(hi.val, lo.val) + c * ((2 * H) * (2 * H)) = Long(sh, sl) + Long(dh, dl)
  <2>0. hi.val = sh + dh + b - 2 * H * c
    BY <1>2, <1>6 DEF Word
  <2>1. hi.val = sh + dh + b - 2 * H * c /\ lo.val = sl + dl - 2 * H * b
    BY <1>2, <1>5, <2>0 DEF Word
  <2>2. CASE b = 0 /\ c = 0
    BY <2>1, <2>2 DEF Long, Word
  <2>3. CASE b = 0 /\ c = 1
    BY <2>1, <2>3 DEF Long, Word
  <2>4. CASE b = 1 /\ c = 0
    BY <2>1, <2>4 DEF Long, Word
  <2>5. CASE b = 1 /\ c = 1
    BY <2>1, <2>5 DEF Long, Word
  <2> QED  BY <1>2, <2>2, <2>3, <2>4, <2>5
<1>8. hi.f.z <=> Long(hi.val, lo.val) = 0
  BY <1>3, <1>4, LongRange, Zenon
<1> QED  BY <1>7, <1>8 DEF c

\* Two SUBX subtract numbers of two words in the same way.
THEOREM LongSubtraction ==
  ASSUME H \in Nat \ {0}, NEW sh \in Word, NEW sl \in Word, NEW dh \in Word, NEW dl \in Word,
         NEW f \in Flags, ~f.x, f.z,
         NEW lo, lo = Subx(sl, dl, f), NEW hi, hi = Subx(sh, dh, lo.f)
  PROVE  /\ Long(hi.val, lo.val) - Bit(hi.f.c) * ((2 * H) * (2 * H)) = Long(dh, dl) - Long(sh, sl)
         /\ hi.f.z <=> Long(hi.val, lo.val) = 0
<1> DEFINE b == Bit(lo.f.c)  c == Bit(hi.f.c)
<1>1. lo.f \in Flags
  BY SubxFlags
<1>2. b \in 0..1 /\ c \in 0..1 /\ Bit(f.x) = 0
  BY DEF Bit
<1>3. /\ lo.val \in Word
      /\ lo.val - (IF lo.f.c THEN 2 * H ELSE 0) = dl - sl - Bit(f.x)
      /\ lo.f.z <=> f.z /\ lo.val = 0
      /\ lo.f.x = lo.f.c
  BY SubxIsExact
<1>4. /\ hi.val \in Word
      /\ hi.val - (IF hi.f.c THEN 2 * H ELSE 0) = dh - sh - Bit(lo.f.x)
      /\ hi.f.z <=> lo.f.z /\ hi.val = 0
  BY <1>1, SubxIsExact
<1>5. lo.val \in Word /\ lo.val - 2 * H * b = dl - sl
  BY <1>2, <1>3 DEF Bit, Word
<1>6. hi.val \in Word /\ hi.val - 2 * H * c = dh - sh - b
  BY <1>2, <1>3, <1>4 DEF Bit, Word
<1> HIDE DEF b, c
<1>7. Long(hi.val, lo.val) - c * ((2 * H) * (2 * H)) = Long(dh, dl) - Long(sh, sl) + 2 * H * (b - b)
  <2>0. hi.val = dh - sh - b + 2 * H * c
    BY <1>2, <1>6 DEF Word
  <2>1. hi.val = dh - sh - b + 2 * H * c /\ lo.val = dl - sl + 2 * H * b
    BY <1>2, <1>5, <2>0 DEF Word
  <2>2. CASE c = 0
    BY <1>2, <2>1, <2>2 DEF Long, Word
  <2>3. CASE c = 1
    BY <1>2, <2>1, <2>3 DEF Long, Word
  <2> QED  BY <1>2, <2>2, <2>3
<1>8. Long(hi.val, lo.val) - c * ((2 * H) * (2 * H)) = Long(dh, dl) - Long(sh, sl)
  BY <1>2, <1>7 DEF Long, Word
<1>9. hi.f.z <=> Long(hi.val, lo.val) = 0
  BY <1>3, <1>4, LongRange, Zenon
<1> QED  BY <1>8, <1>9 DEF c

\* SUB and SUBX subtract numbers of two words if and only if X happened to be the
\* borrow of the low words before: SUB does not leave it there.
THEOREM SubThenSubx ==
  ASSUME H \in Nat \ {0}, NEW sh \in Word, NEW sl \in Word, NEW dh \in Word, NEW dl \in Word,
         NEW f \in Flags,
         NEW lo, lo = Sub(sl, dl, f), NEW hi, hi = Subx(sh, dh, lo.f)
  PROVE  Long(hi.val, lo.val) - Bit(hi.f.c) * ((2 * H) * (2 * H)) = Long(dh, dl) - Long(sh, sl)
            <=> (f.x <=> sl > dl)
<1> DEFINE b == Bit(lo.f.c)  c == Bit(hi.f.c)  x == Bit(f.x)
<1>1. lo.f \in Flags
  BY SubFlags
<1>2. b \in 0..1 /\ c \in 0..1 /\ x \in 0..1
  BY DEF Bit
<1>3. /\ lo.val \in Word
      /\ lo.val - (IF lo.f.c THEN 2 * H ELSE 0) = dl - sl
      /\ lo.f.c <=> sl > dl
      /\ lo.f.x = f.x
  BY SubIsExact
<1>4. /\ hi.val \in Word
      /\ hi.val - (IF hi.f.c THEN 2 * H ELSE 0) = dh - sh - Bit(lo.f.x)
  BY <1>1, SubxIsExact
<1>5. lo.val \in Word /\ lo.val - 2 * H * b = dl - sl
  BY <1>2, <1>3 DEF Bit, Word
<1>6. hi.val \in Word /\ hi.val - 2 * H * c = dh - sh - x
  BY <1>2, <1>3, <1>4 DEF Bit, Word
<1>7. b = x <=> (f.x <=> sl > dl)
  BY <1>3 DEF Bit
<1> HIDE DEF b, c, x
<1>8. Long(hi.val, lo.val) - c * ((2 * H) * (2 * H)) = Long(dh, dl) - Long(sh, sl) + 2 * H * (b - x)
  <2>0. hi.val = dh - sh - x + 2 * H * c
    BY <1>2, <1>6 DEF Word
  <2>1. hi.val = dh - sh - x + 2 * H * c /\ lo.val = dl - sl + 2 * H * b
    BY <1>2, <1>5, <2>0 DEF Word
  <2>2. CASE c = 0
    BY <1>2, <2>1, <2>2 DEF Long, Word
  <2>3. CASE c = 1
    BY <1>2, <2>1, <2>3 DEF Long, Word
  <2> QED  BY <1>2, <2>2, <2>3
<1>9. Long(hi.val, lo.val) - c * ((2 * H) * (2 * H)) = Long(dh, dl) - Long(sh, sl) <=> b = x
  BY <1>2, <1>8 DEF Long, Word
<1> QED  BY <1>7, <1>9 DEF c

LEMMA Division ==
  ASSUME NEW a \in Nat, NEW b \in Nat \ {0}
  PROVE  /\ a \div b \in Nat /\ a % b \in 0..b - 1
         /\ a = (a \div b) * b + (a % b)
  OBVIOUS

\* DIVU: exact quotient and remainder, or V and the dividend as it was, when and
\* only when the quotient does not fit.
THEOREM DivuIsExact ==
  ASSUME H \in Nat \ {0}, NEW src \in Word, src # 0, NEW hi \in Word, NEW lo \in Word, NEW f \in Flags,
         NEW r, r = Divu(src, Long(hi, lo), f)
  PROVE  IF hi >= src
         THEN r.val = Long(hi, lo) /\ r.f.v
         ELSE /\ ~r.f.v
              /\ \E q \in Word, rem \in 0..src - 1 :
                    r.val = Long(rem, q) /\ Long(hi, lo) = q * src + rem
<1> DEFINE W == 2 * H  a == Long(hi, lo)  q == a \div src  m == a % src
<1>1. W \in Nat \ {0} /\ src \in 1..W - 1 /\ hi \in 0..W - 1 /\ lo \in 0..W - 1 /\ a = hi * W + lo
  BY DEF Word, Long
<1> HIDE DEF W
<1>2. a \in Nat
  BY <1>1
<1> HIDE DEF a
<1>3. q \in Nat /\ m \in 0..src - 1 /\ a = q * src + m
  <2>1. src \in Nat \ {0}
    BY <1>1
  <2> QED  BY <1>2, <2>1, Division, Zenon
<1>4. /\ q >= W => r.val = a /\ r.f.v
      /\ q < W => r.val = Long(m, q) /\ ~r.f.v
  BY <1>1, <1>3 DEF Divu, flag_logical, Flags, W, a
<1> HIDE DEF q, m
<1>5. CASE hi >= src
  <2>1. hi * W >= src * W
    BY <1>1, <1>5
  <2>2. ASSUME q <= W - 1
        PROVE  FALSE
    <3>1. q * src <= (W - 1) * src
      BY <1>1, <1>3, <2>2
    <3>2. (W - 1) * src = src * W - src
      BY <1>1
    <3> QED  BY <1>1, <1>3, <2>1, <3>1, <3>2
  <2> QED  BY <1>1, <1>3, <1>4, <1>5, <2>2 DEF a
<1>6. CASE hi < src
  <2>1. hi * W <= (src - 1) * W
    BY <1>1, <1>6
  <2>2. (src - 1) * W = src * W - W
    BY <1>1
  <2>3. ASSUME q >= W
        PROVE  FALSE
    <3>1. q * src >= W * src
      BY <1>1, <1>3, <2>3
    <3> QED  BY <1>1, <1>3, <2>1, <2>2, <3>1
  <2>4. q \in Word
    BY <1>1, <1>3, <2>3 DEF Word, W
  <2>5. r.val = Long(m, q) /\ ~r.f.v
    BY <1>1, <1>3, <1>4, <2>3
  <2> QED  BY <1>3, <1>6, <2>4, <2>5 DEF a
<1> QED  BY <1>1, <1>5, <1>6

-----------------------------------------------------------------------------
(* Decimal numbers.                                                        *)

Decimal(tens, ones) == 16 * tens + ones

LEMMA Digits ==
  ASSUME NEW t \in 0..9, NEW o \in 0..9
  PROVE  Ones(Decimal(t, o)) = o /\ Tens(Decimal(t, o)) = t
  BY DEF Ones, Tens, Decimal

\* ABCD of decimal digits is decimal addition with X, and C the carry.
THEOREM AbcdIsDecimal ==
  ASSUME NEW st \in 0..9, NEW so \in 0..9, NEW dt \in 0..9, NEW do \in 0..9, NEW x \in BOOLEAN,
         NEW r, r = Abcd(Decimal(st, so), Decimal(dt, do), x)
  PROVE  \E t, o \in 0..9 :
            /\ r.val = Decimal(t, o)
            /\ 100 * Bit(r.c) + 10 * t + o = 10 * (st + dt) + so + do + Bit(x)
<1> DEFINE n == so + do + Bit(x)
           lo == Ones(Decimal(st, so)) + Ones(Decimal(dt, do)) + Bit(x)
           new == 16 * (Tens(Decimal(st, so)) + Tens(Decimal(dt, do))) + (IF lo > 9 THEN lo + 6 ELSE lo)
           k == IF n > 9 THEN 1 ELSE 0
           m == st + dt + k
           t == IF m > 9 THEN m - 10 ELSE m
           o == n - 10 * k
<1>1. r.val = (new + (IF Tens(new) % 32 > 9 THEN 96 ELSE 0)) % 256 /\ r.c = (Tens(new) % 32 > 9)
  BY Zenon DEF Abcd
<1>2. n \in 0..19 /\ k \in 0..1 /\ m \in 0..19 /\ t \in 0..9 /\ o \in 0..9
  BY DEF Bit
<1>3. new = 16 * m + o
  BY Digits DEF Bit
<1> HIDE DEF new
<1>4. Tens(new) = m /\ m % 32 = m
  BY <1>2, <1>3 DEF Tens
<1> HIDE DEF m, o
<1>5. (new + (IF m > 9 THEN 96 ELSE 0)) % 256 = Decimal(t, o)
  BY <1>2, <1>3 DEF Decimal
<1>6. r.val = Decimal(t, o)
  BY <1>1, <1>4, <1>5
<1>7. Bit(r.c) = IF m > 9 THEN 1 ELSE 0
  BY <1>1, <1>4 DEF Bit
<1>8. 100 * Bit(r.c) + 10 * t + o = 10 * (st + dt) + so + do + Bit(x)
  BY <1>2, <1>7 DEF m, o, Bit
<1> QED  BY <1>2, <1>6, <1>8

\* SBCD of decimal digits is decimal subtraction with X, and C the borrow; NBCD is
\* the case of a zero destination.
THEOREM SbcdIsDecimal ==
  ASSUME NEW st \in 0..9, NEW so \in 0..9, NEW dt \in 0..9, NEW do \in 0..9, NEW x \in BOOLEAN,
         NEW r, r = Sbcd(Decimal(st, so), Decimal(dt, do), x)
  PROVE  \E t, o \in 0..9 :
            /\ r.val = Decimal(t, o)
            /\ 10 * t + o - 100 * Bit(r.c) = 10 * (dt - st) + do - so - Bit(x)
<1> DEFINE n == do - so - Bit(x)
           lo == Ones(Decimal(dt, do)) - Ones(Decimal(st, so)) - Bit(x)
           borrow == lo < 0 \/ lo > 9
           hi == Tens(Decimal(dt, do)) - Tens(Decimal(st, so)) - Bit(borrow)
           new == 16 * hi + Ones(IF borrow THEN lo - 6 ELSE lo)
           k == IF n < 0 THEN 1 ELSE 0
           m == dt - st - k
           t == IF m < 0 THEN m + 10 ELSE m
           o == n + 10 * k
<1>1. r.val = (new - (IF hi % 32 > 9 THEN 96 ELSE 0)) % 256 /\ r.c = (hi % 32 > 9)
  BY Zenon DEF Sbcd
<1>2. n \in -10..9 /\ k \in 0..1 /\ m \in -10..9 /\ t \in 0..9 /\ o \in 0..9
  BY DEF Bit
<1>3. lo = n
  BY Digits
<1>4. hi = m /\ (borrow <=> n < 0)
  BY <1>2, <1>3, Digits DEF Bit
<1>5. Ones(IF borrow THEN lo - 6 ELSE lo) = o
  BY <1>2, <1>3, <1>4 DEF Ones
<1>6. new = 16 * m + o
  BY <1>4, <1>5
<1> HIDE DEF new, hi, lo, borrow
<1>7. hi % 32 > 9 <=> m < 0
  BY <1>2, <1>4
<1> HIDE DEF m, o
<1>8. (new - (IF m < 0 THEN 96 ELSE 0)) % 256 = Decimal(t, o)
  BY <1>2, <1>6 DEF Decimal
<1>9. r.val = Decimal(t, o)
  BY <1>1, <1>7, <1>8
<1>10. Bit(r.c) = IF m < 0 THEN 1 ELSE 0
  BY <1>1, <1>7 DEF Bit
<1>11. 10 * t + o - 100 * Bit(r.c) = 10 * (dt - st) + do - so - Bit(x)
  BY <1>2, <1>10 DEF m, o, Bit
<1> QED  BY <1>2, <1>9, <1>11

-----------------------------------------------------------------------------
(* Shifts by one.                                                          *)

LEMMA Doubled ==
  ASSUME H \in Nat \ {0}, NEW w \in Word
  PROVE  /\ Low(2 * w) \in Word /\ Low(2 * w) + 1 \in Word /\ Low(2 * w) % 2 = 0
         /\ (Low(2 * w) + 1) % 2 = 1
         /\ Low(2 * w) \div 2 + (IF Negative(w) THEN H ELSE 0) = w
         /\ (Low(2 * w) + 1) \div 2 + (IF Negative(w) THEN H ELSE 0) = w
  BY DEF Low, Word, Negative

LEMMA Halved ==
  ASSUME H \in Nat \ {0}, NEW w \in Word
  PROVE  /\ w \div 2 \in Word /\ w \div 2 + H \in Word
         /\ w \div 2 < H
         /\ w = 2 * (w \div 2) + (IF Odd(w) THEN 1 ELSE 0)
         /\ Low(2 * (w \div 2)) = 2 * (w \div 2)
         /\ Low(2 * (w \div 2 + H)) = 2 * (w \div 2)
         /\ ~Negative(w \div 2) /\ Negative(w \div 2 + H)
  BY DEF Low, Word, Negative, Odd

\* ASR halves a signed number, rounding down; LSR one without sign.
THEOREM AsrHalves ==
  ASSUME H \in Nat \ {0}, H % 2 = 0, NEW w \in Word, NEW f \in Flags
  PROVE  /\ Signed(Asr(w, f).val) = Signed(w) \div 2
         /\ Lsr(w, f).val = w \div 2
<1>1. Asr(w, f).val = w \div 2 + (IF Negative(w) THEN H ELSE 0) /\ Lsr(w, f).val = w \div 2
  BY DEF Asr, Lsr, Shifted
<1> QED  BY <1>1 DEF Signed, Negative, Word

\* ASL doubles: C is the bit lost, and V says that the signed double does not fit.
THEOREM AslDoubles ==
  ASSUME H \in Nat \ {0}, NEW w \in Word, NEW f \in Flags, NEW r, r = Asl(w, f)
  PROVE  /\ r.val + (IF r.f.c THEN 2 * H ELSE 0) = 2 * w
         /\ r.f.v <=> 2 * Signed(w) \notin -H..H - 1
         /\ ~r.f.v => Signed(r.val) = 2 * Signed(w)
<1> DEFINE d == Low(2 * w)
<1>1. r.val = d /\ r.f.c = Negative(w) /\ r.f.v = (Negative(d) # Negative(w))
  BY DEF Asl, Lsl, Shifted, flag_logical, Flags
<1>2. /\ d + (IF Negative(w) THEN 2 * H ELSE 0) = 2 * w
      /\ Negative(d) # Negative(w) <=> 2 * Signed(w) \notin -H..H - 1
      /\ 2 * Signed(w) \in -H..H - 1 => Signed(d) = 2 * Signed(w)
  BY DEF Low, Word, Signed, Negative
<1> HIDE DEF d
<1> QED  BY <1>1, <1>2, Zenon

LEMMA ShiftedFlags ==
  ASSUME NEW w, NEW c \in BOOLEAN, NEW f \in Flags
  PROVE  /\ Shifted(w, c, f).f \in Flags /\ Rotated(w, c, f).f \in Flags
         /\ Shifted(w, c, f).val = w /\ Rotated(w, c, f).val = w
         /\ Shifted(w, c, f).f.x = c /\ Rotated(w, c, f).f.x = f.x
<1>1. flag_logical(w, f) \in Flags /\ flag_logical(w, f).x = f.x
  <2>1. (w = 0) \in BOOLEAN /\ Negative(w) \in BOOLEAN
    BY DEF Negative
  <2> QED  BY <2>1 DEF flag_logical, Flags
<1> QED  BY <1>1 DEF Shifted, Rotated, Flags

\* ROXL and ROXR undo each other, the X flag included.
THEOREM RotationsAreUndone ==
  ASSUME H \in Nat \ {0}, NEW w \in Word, NEW f \in Flags,
         NEW l, l = Roxl(w, f), NEW r, r = Roxr(w, f)
  PROVE  /\ Roxr(l.val, l.f).val = w /\ Roxr(l.val, l.f).f.x = f.x
         /\ Roxl(r.val, r.f).val = w /\ Roxl(r.val, r.f).f.x = f.x
<1>1. \A v : \A g \in Flags :
         /\ Roxl(v, g).val = Low(2 * v) + Bit(g.x) /\ Roxl(v, g).f.x = Negative(v) /\ Roxl(v, g).f \in Flags
         /\ Roxr(v, g).val = v \div 2 + (IF g.x THEN H ELSE 0) /\ Roxr(v, g).f.x = Odd(v) /\ Roxr(v, g).f \in Flags
  <2>1. \A v : Negative(v) \in BOOLEAN /\ Odd(v) \in BOOLEAN
    BY DEF Negative, Odd
  <2> SUFFICES ASSUME NEW v, NEW g \in Flags
               PROVE  /\ Roxl(v, g).val = Low(2 * v) + Bit(g.x) /\ Roxl(v, g).f.x = Negative(v)
                      /\ Roxl(v, g).f \in Flags
                      /\ Roxr(v, g).val = v \div 2 + (IF g.x THEN H ELSE 0) /\ Roxr(v, g).f.x = Odd(v)
                      /\ Roxr(v, g).f \in Flags
    BY Zenon
  <2>2. Negative(v) \in BOOLEAN /\ Odd(v) \in BOOLEAN
    BY <2>1, Zenon
  <2>3. /\ Roxl(v, g) = Shifted(Low(2 * v) + Bit(g.x), Negative(v), g)
        /\ Roxr(v, g) = Shifted(v \div 2 + (IF g.x THEN H ELSE 0), Odd(v), g)
    BY DEF Roxl, Roxr
  <2> QED  BY <2>2, <2>3, ShiftedFlags
<1>2. /\ l.val = Low(2 * w) + Bit(f.x) /\ l.f.x = Negative(w) /\ l.f \in Flags
      /\ r.val = w \div 2 + (IF f.x THEN H ELSE 0) /\ r.f.x = Odd(w) /\ r.f \in Flags
  BY <1>1, Zenon
<1>3. /\ Roxr(l.val, l.f).val = l.val \div 2 + (IF l.f.x THEN H ELSE 0) /\ Roxr(l.val, l.f).f.x = Odd(l.val)
      /\ Roxl(r.val, r.f).val = Low(2 * r.val) + Bit(r.f.x) /\ Roxl(r.val, r.f).f.x = Negative(r.val)
  BY <1>1, <1>2, Zenon
<1>4. f.x \in BOOLEAN
  BY DEF Flags
<1>5. CASE f.x = TRUE
  <2>1. l.val = Low(2 * w) + 1 /\ r.val = w \div 2 + H
    BY <1>2, <1>5 DEF Bit
  <2>2. l.val \div 2 + (IF Negative(w) THEN H ELSE 0) = w /\ Odd(l.val) = TRUE
    BY <2>1, Doubled DEF Odd
  <2>3. Low(2 * r.val) + Bit(Odd(w)) = w /\ Negative(r.val) = TRUE
    BY <2>1, Halved DEF Bit, Negative
  <2> QED  BY <1>2, <1>3, <1>5, <2>2, <2>3, Zenon
<1>6. CASE f.x = FALSE
  <2>1. l.val = Low(2 * w) /\ r.val = w \div 2
    <3>1. Low(2 * w) \in Int /\ w \div 2 \in Int
      BY Doubled, Halved DEF Word
    <3>2. Bit(f.x) = 0
      BY <1>6 DEF Bit
    <3> QED  BY <1>2, <1>6, <3>1, <3>2
  <2>2. l.val \div 2 + (IF Negative(w) THEN H ELSE 0) = w /\ Odd(l.val) = FALSE
    BY <2>1, Doubled DEF Odd
  <2>3. Low(2 * r.val) + Bit(Odd(w)) = w /\ Negative(r.val) = FALSE
    BY <2>1, Halved DEF Bit, Negative
  <2> QED  BY <1>2, <1>3, <1>6, <2>2, <2>3, Zenon
<1> QED  BY <1>4, <1>5, <1>6

-----------------------------------------------------------------------------
(* Programs.                                                               *)

LEMMA LogicalFlags ==
  ASSUME NEW w, NEW f \in Flags
  PROVE  flag_logical(w, f) \in Flags
<1>1. (w = 0) \in BOOLEAN /\ Negative(w) \in BOOLEAN
  BY DEF Negative
<1> QED  BY <1>1 DEF flag_logical, Flags

LEMMA AddFlags ==
  ASSUME NEW s, NEW d, NEW f \in Flags
  PROVE  Add(s, d, f).f \in Flags
  BY DEF Add, flag_add, Flags, Negative

LEMMA ShiftsFit ==
  ASSUME H \in Nat \ {0}, NEW w \in Word, NEW f \in Flags,
         NEW r \in {Asr(w, f), Lsr(w, f), Lsl(w, f), Asl(w, f),
                    Rol(w, f), Ror(w, f), Roxl(w, f), Roxr(w, f)}
  PROVE  r.val \in Word /\ r.f \in Flags
<1>1. Negative(w) \in BOOLEAN /\ Odd(w) \in BOOLEAN
  BY DEF Negative, Odd
<1>2. \A i \in {Low(2 * w), Low(2 * w) + Bit(Negative(w)), Low(2 * w) + Bit(f.x), w \div 2,
                w \div 2 + (IF Negative(w) THEN H ELSE 0), w \div 2 + (IF Odd(w) THEN H ELSE 0),
                w \div 2 + (IF f.x THEN H ELSE 0)} : i \in Word
  BY DEF Low, Word, Bit
<1>3. CASE r = Asl(w, f)
  <2>1. Lsl(w, f).val \in Word /\ Lsl(w, f).f \in Flags
    BY <1>1, <1>2, ShiftedFlags DEF Lsl
  <2>2. \A v \in BOOLEAN : [Lsl(w, f).f EXCEPT !.v = v] \in Flags
    BY <2>1 DEF Flags
  <2>3. Asl(w, f).val = Lsl(w, f).val
    BY DEF Asl, Lsl, Shifted
  <2>4. Asl(w, f).f = [Lsl(w, f).f EXCEPT !.v = Negative(Lsl(w, f).val) # Negative(w)]
    BY DEF Asl, Lsl, Shifted
  <2>5. (Negative(Lsl(w, f).val) # Negative(w)) \in BOOLEAN
    OBVIOUS
  <2> QED  BY <1>3, <2>1, <2>2, <2>3, <2>4, <2>5
<1>4. CASE r \in {Asr(w, f), Lsr(w, f), Lsl(w, f), Rol(w, f), Ror(w, f), Roxl(w, f), Roxr(w, f)}
  BY <1>1, <1>2, <1>4, ShiftedFlags DEF Asr, Lsr, Lsl, Rol, Ror, Roxl, Roxr
<1> QED  BY <1>3, <1>4

\* No program of these instructions leaves a value that does not fit its size, or
\* a flag that is not a bit.
THEOREM AluTypeCorrect == H \in Nat \ {0} /\ Spec => []TypeOK
<1> SUFFICES ASSUME H \in Nat \ {0}
             PROVE  Spec => []TypeOK
  BY Zenon
<1>1. Init => TypeOK
  BY DEF Init, TypeOK, Flags
<1>2. TypeOK /\ [Next]_vars => TypeOK'
  <2> SUFFICES ASSUME TypeOK, [Next]_vars
               PROVE  TypeOK'
    OBVIOUS
  <2> USE DEF TypeOK
  <2>1. 0 \in Word
    BY DEF Word
  <2>2. \A d \in Regs : \A r : Store(d, r) /\ r.val \in Word /\ r.f \in Flags => TypeOK'
    BY DEF Store
  <2>3. ASSUME NEW s \in Regs, NEW d \in Regs, i_ADD(s, d)  PROVE TypeOK'
    BY <2>2, <2>3, AddIsExact, AddFlags DEF i_ADD
  <2>4. ASSUME NEW s \in Regs, NEW d \in Regs, i_ADDX(s, d)  PROVE TypeOK'
    BY <2>2, <2>4, AddxIsExact, AddxFlags DEF i_ADDX
  <2>5. ASSUME NEW s \in Regs, NEW d \in Regs, i_SUB(s, d)  PROVE TypeOK'
    BY <2>2, <2>5, SubIsExact, SubFlags DEF i_SUB
  <2>6. ASSUME NEW s \in Regs, NEW d \in Regs, i_SUBX(s, d)  PROVE TypeOK'
    BY <2>2, <2>6, SubxIsExact, SubxFlags DEF i_SUBX
  <2>7. ASSUME NEW s \in Regs, NEW d \in Regs, i_CMP(s, d)  PROVE TypeOK'
    BY <2>7, SubFlags DEF i_CMP, Cmp, Sub
  <2>8. ASSUME NEW d \in Regs, i_NEG(d)  PROVE TypeOK'
    BY <2>1, <2>2, <2>8, SubIsExact, SubFlags DEF i_NEG, Neg
  <2>9. ASSUME NEW d \in Regs, i_NEGX(d)  PROVE TypeOK'
    BY <2>1, <2>2, <2>9, SubxIsExact, SubxFlags DEF i_NEGX, Negx
  <2>10. ASSUME NEW d \in Regs, i_TST(d)  PROVE TypeOK'
    BY <2>10, LogicalFlags DEF i_TST
  <2>11. ASSUME NEW d \in Regs, i_CLR(d)  PROVE TypeOK'
    BY <2>1, <2>2, <2>11, LogicalFlags DEF i_CLR
  <2>14. ASSUME NEW d \in Regs, i_NOT(d)  PROVE TypeOK'
    <3>1. (2 * H - 1) - reg[d] \in Word
      BY DEF Word
    <3> QED  BY <2>2, <2>14, <3>1, LogicalFlags DEF i_NOT, Not
  <2>12. ASSUME NEW d \in Regs, Shift(d)  PROVE TypeOK'
    BY <2>2, <2>12, ShiftsFit DEF Shift
  <2>13. CASE UNCHANGED vars
    BY <2>13 DEF vars
  <2> QED  BY <2>3, <2>4, <2>5, <2>6, <2>7, <2>8, <2>9, <2>10, <2>11, <2>12, <2>13, <2>14 DEF Next
<1> QED  BY <1>1, <1>2, PTL DEF Spec
=============================================================================
