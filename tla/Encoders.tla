------------------------------ MODULE Encoders ------------------------------
(***************************************************************************)
(* The encoders of a block of 32 numbers as e4m3 codes with one e8m0       *)
(* scale: those of the requantisation of P in flash_mx_impl.hpp, one with  *)
(* selects, one with masks and one with two numbers in a register, and the *)
(* quantiser of simt_quant.  A behaviour is one input.                     *)
(*                                                                         *)
(* A code is the biased exponent times 8 plus the mantissa, without sign.  *)
(***************************************************************************)
EXTENDS Integers

CONSTANTS Exponents,    \* of the largest number of a block, biased: 0 for a block of zeros
          Significands, \* of the largest number, of 8 bits
          Depth         \* how many binades below the largest number the others lie

VARIABLE input

(* P: two numbers of a word, as u = exponent * 8 + mantissa, of which none *)
(* is larger than the largest of the block.                                *)
Below(em) ==
  {e * 8 + m : e \in {0, 1, 2} \cup em - 9 .. em, m \in {0, 1, 6, 7}} \cap 0 .. em * 8 + 7
PackInputs ==
  UNION {[of : {"P"}, em : {em}, lo : Below(em), hi : Below(em)] : em \in Exponents}

(* simt_quant: a number and the largest of its block, sig * 2^(e - 7).     *)
QuantInputs ==
  {x \in [of : {"X"}, top : Significands, sig : 128 .. 255, below : 0 .. Depth] :
     x.below = 0 => x.sig <= x.top}

EncoderInit == input \in PackInputs \cup QuantInputs

-----------------------------------------------------------------------------
(* requant_P_to_spad_tiled                                                 *)

(* Mutant: the clamp on K is left out.                                     *)
UnclampedK8(k) == k + 8

ClampK8(k) == (IF k > 0 THEN k ELSE 0) + 8
K8(em) == ClampK8((em - 7) * 8)
ScaleOf(em) == (K8(em) - 8) \div 8 + 7

(* bf16_to_e4m3_scaled(b, em - 127), which goes with the scale em.         *)
Scaled(u, em) ==
  LET e == u \div 8 - em
      m == IF e > 8 \/ (e = 8 /\ u % 8 > 6) THEN 6 ELSE u % 8
  IN IF u < 8 \/ e < -6 THEN 0 ELSE (IF e > 8 THEN 15 ELSE e + 7) * 8 + m

(* e4m3_pack4: one of its numbers.                                         *)
Masked(u, k8) == IF u - k8 < 0 THEN 0 ELSE u - k8 + 8

(* The bits that x and y, of 2, 4, 8 and 16 bits, have in common.          *)
And1(x, y) == x * y
And2(x, y) == And1(x % 2, y % 2) + 2 * And1(x \div 2, y \div 2)
And4(x, y) == And2(x % 4, y % 4) + 4 * And2(x \div 4, y \div 4)
And8(x, y) == And4(x % 16, y % 16) + 16 * And4(x \div 16, y \div 16)
And16(x, y) == And8(x % 256, y % 256) + 256 * And8(x \div 256, y \div 256)
Or16(x, y) == x + y - And16(x, y)

(* e4m3_pack4_swar.  A word is <<low half, high half>>; an addition carries*)
(* from the one to the other.                                              *)
HalfSpan == 65536
AddWord(x, y) ==
  LET low == x[1] + y[1] IN <<low % HalfSpan, (x[2] + y[2] + low \div HalfSpan) % HalfSpan>>
SubWord(x, y) ==
  LET low == x[1] - y[1] IN <<low % HalfSpan, (x[2] - y[2] + low \div HalfSpan) % HalfSpan>>
AndWord(x, y) == <<And16(x[1], y[1]), And16(x[2], y[2])>>
ShiftFields(x, n) == <<x[1] \div 2^n, x[2] \div 2^n>>

Swar(lo, hi, k8) ==
  LET bias == 32760 - (k8 - 8)
      y == AddWord(<<lo, hi>>, <<bias, bias>>)
      g == AndWord(y, <<32768, 32768>>)
      m == SubWord(g, ShiftFields(g, 15))
      r == AddWord(AndWord(y, m), ShiftFields(g, 12))
  IN Or16(r[1], r[1] \div 256 + (r[2] % 256) * 256)

-----------------------------------------------------------------------------
(* simt_quant                                                              *)

(* Mutant: a half is rounded up.                                           *)
RoundHalfUp(v, sh) ==
  IF sh >= 32 THEN 0 ELSE v \div 2^sh + (IF v % 2^sh >= 2^(sh - 1) THEN 1 ELSE 0)

RoundShift(v, sh) ==
  IF sh >= 32 THEN 0
  ELSE LET q == v \div 2^sh
           rest == v % 2^sh
           half == 2^(sh - 1)
       IN IF rest > half \/ (rest = half /\ q % 2 = 1) THEN q + 1 ELSE q

F32ToE4m3(sig, e) ==
  LET sig24 == sig * 2^16
      q == RoundShift(sig24, 14 - e)
      r == RoundShift(sig24, 20)
      mant == IF r = 16 THEN 0 ELSE r - 8
      expf == e + 7 + (IF r = 16 THEN 1 ELSE 0)
  IN IF e > 8 \/ (e = 8 /\ sig >= 224) THEN 126
     ELSE IF e < -6 THEN q
     ELSE IF expf > 15 \/ (expf = 15 /\ mant = 7) THEN 126
     ELSE expf * 8 + mant

(* The exponent of the number after the division by the scale 2^e, where e *)
(* is the exponent of the largest number less 8, and 1 more above 1.75.    *)
ScaledExponent(x) == 8 - (IF x.top > 224 THEN 1 ELSE 0) - x.below

-----------------------------------------------------------------------------
(* Properties                                                              *)

(* The code and the scale stand for the number cut to three bits of the    *)
(* mantissa, or for zero when it is less than the least normal code.       *)
StandsFor(code, scale, u) ==
  IF u < 8 \/ u \div 8 < scale - 6 THEN code = 0
  ELSE code \in 8 .. 126 /\ code % 8 = u % 8 /\ code \div 8 + scale - 7 = u \div 8

(* The three encoders of P give every number of a block the code that      *)
(* stands for it under the scale they store, and no number reaches into    *)
(* the code of its neighbour, for every exponent that a block can have.    *)
(* The comments derive the two fast ones for em >= 7 and a zero block; the *)
(* tests see the rows of one golden file.                                  *)
PackedIsExact ==
  input.of = "P" =>
    LET k8 == K8(input.em)
        word == Swar(input.lo, input.hi, k8)
    IN /\ StandsFor(Scaled(input.lo, input.em), input.em, input.lo)
       /\ StandsFor(Masked(input.lo, k8), ScaleOf(input.em), input.lo)
       /\ StandsFor(word % 256, ScaleOf(input.em), input.lo)
       /\ StandsFor(word \div 256, ScaleOf(input.em), input.hi)

(* The number of a code in units of 2^-19, a bit less than the least that  *)
(* a number of 8 bits can have here.                                       *)
ValueOf(code) ==
  (IF code < 8 THEN code ELSE (8 + (code % 8)) * 2^(code \div 8 - 1)) * 2^10

(* f32_to_e4m3 rounds to the nearest code and a tie to the even one, also  *)
(* across a power of two and into the subnormal codes, and the scale is    *)
(* the least under which the largest number of the block does not exceed   *)
(* 448.                                                                    *)
Distance(code, x) == IF ValueOf(code) > x THEN ValueOf(code) - x ELSE x - ValueOf(code)
QuantizeIsNearest ==
  input.of = "X" =>
    LET e == ScaledExponent(input)
        x == input.sig * 2^(e + 12)
        code == F32ToE4m3(input.sig, e)
    IN /\ \A other \in 0 .. 126 :
            \/ Distance(code, x) < Distance(other, x)
            \/ Distance(code, x) = Distance(other, x) /\ (other = code \/ code % 2 = 0)
       /\ input.below = 0 /\ input.sig = input.top =>
            ValueOf(126) \div 2 < x /\ x <= ValueOf(126)
=============================================================================
