----------------------------- MODULE SpadLayout -----------------------------
(***************************************************************************)
(* Where mxgemm places its tensors in the scratchpad                       *)
(* (src/lib/mxgemm/mxgemm_lib.hpp: calculate_spad_addr and                 *)
(* GemmConfig::SPAD_DEST).  The operands A and B are double buffered: the  *)
(* even and the odd buffer of A grow up from the start of the first and of *)
(* the second quarter, those of B grow down from the end of the last and   *)
(* of the third.  SPAD_DEST looks for a gap for the result C; 0 stands for *)
(* "does not fit", which a static_assert rejects.                          *)
(*                                                                         *)
(* A behaviour is one GemmConfig, given by the rows of one tile of A, of  *)
(* B and of C.                                                             *)
(***************************************************************************)
EXTENDS Integers

CONSTANTS Quarter,  \* SMEM_ROWS() / 4: 2048
          WordSpan, \* 2^32: the constants are computed in uint32_t
          MaxRows   \* bound on the rows of a tile

ASSUME LayoutAssumption ==
  /\ Quarter \in Nat \ {0} /\ MaxRows \in Nat \ {0}
  /\ WordSpan \in Nat /\ WordSpan > 4 * Quarter + 2 * MaxRows

VARIABLES tileA, tileB, tileC
tensors == <<tileA, tileB, tileC>>

TensorsOK == tileA \in 1 .. MaxRows /\ tileB \in 1 .. MaxRows /\ tileC \in 1 .. MaxRows

Smem == 4 * Quarter
Minus(x, y) == IF x >= y THEN x - y ELSE x - y + WordSpan \* x - y in uint32_t

BOddLo == Minus(Smem - Quarter, tileB)
BEvenLo == Minus(Smem, tileB)

(* Mutant: the gap after A_odd is taken without asking whether C fits.     *)
AfterAOddUnchecked == Quarter + tileA <= BOddLo

(* Mutant: the gap after A_odd is taken to end with A_odd's quarter.       *)
AfterAOddOneQuarter == Quarter + tileA <= 2 * Quarter /\ 2 * Quarter - (Quarter + tileA) >= tileC

(* The gaps of SPAD_DEST, in the order in which it tries them.             *)
AfterAEven == tileA <= Quarter /\ Minus(Quarter, tileA) >= tileC
AfterAOdd == Quarter + tileA <= BOddLo /\ Minus(BOddLo, Quarter + tileA) >= tileC
AfterBOdd == Smem - Quarter <= BEvenLo /\ Minus(BEvenLo, Smem - Quarter) >= tileC

SpadDest ==
  IF AfterAEven THEN tileA
  ELSE IF AfterAOdd THEN Quarter + tileA
  ELSE IF AfterBOdd THEN Smem - Quarter
  ELSE 0

(* calculate_spad_addr: first row of a buffer of A, row after one of B.    *)
AStart(odd) == IF odd THEN Quarter ELSE 0
BEnd(odd) == IF odd THEN Smem - Quarter ELSE Smem

ARows(odd) == AStart(odd) .. AStart(odd) + tileA - 1
BRows(odd) == BEnd(odd) - tileB .. BEnd(odd) - 1
CRows(start) == start .. start + tileC - 1

Buffers == {ARows(odd) : odd \in BOOLEAN} \cup {BRows(odd) : odd \in BOOLEAN}
Free(start) == \A rows \in Buffers : rows \cap CRows(start) = {}

LayoutInit == TensorsOK
LayoutNext == UNCHANGED tensors
LayoutSpec == LayoutInit /\ [][LayoutNext]_tensors

-----------------------------------------------------------------------------
OperandsFit == tileA <= Quarter /\ tileB <= Quarter

(* C is placed over no buffer that a DMA or the mesh may be using, as long *)
(* as each operand stays within its quarter (mxgemm_lib.hpp:58-77, written *)
(* after a fixed address had put C on top of A).                           *)
DestIsFree ==
  OperandsFit /\ SpadDest # 0 =>
    Free(SpadDest) /\ CRows(SpadDest) \subseteq 0 .. Smem - 1

(* "Does not fit" is only said where C fits nowhere: no usable GemmConfig  *)
(* is rejected (mxgemm_lib.hpp:73-77).                                     *)
NoNeedlessReject ==
  OperandsFit /\ SpadDest = 0 =>
    \A start \in 0 .. Smem - tileC : ~ Free(start)

=============================================================================
