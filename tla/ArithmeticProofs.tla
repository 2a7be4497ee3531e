-------------------------- MODULE ArithmeticProofs --------------------------
(***************************************************************************)
(* The placement of C in the scratchpad, for every size of the scratchpad  *)
(* and of the tiles, and the encoders, for every number and every block.   *)
(* A GemmConfig does not change, so every property of the initial states   *)
(* is an invariant; what remains is arithmetic on the four operand buffers *)
(* and the three gaps.  An encoder is a function of its input.             *)
(***************************************************************************)
EXTENDS SpadLayout, Encoders, TLAPS

-----------------------------------------------------------------------------
(* The layout of the scratchpad                                            *)

(* As long as each operand stays within its quarter, no subtraction of     *)
(* SPAD_DEST wraps around.                                                 *)
LEMMA GapsDoNotWrap ==
  ASSUME TensorsOK, OperandsFit
  PROVE  /\ Quarter \in Nat \ {0} /\ tileA \in Nat \ {0} /\ tileB \in Nat \ {0} /\ tileC \in Nat \ {0}
         /\ tileA <= Quarter /\ tileB <= Quarter
         /\ AfterAEven <=> Quarter - tileA >= tileC
         /\ AfterAOdd <=> (Quarter + tileA <= 3 * Quarter - tileB /\ 3 * Quarter - tileB - (Quarter + tileA) >= tileC)
         /\ AfterBOdd <=> (3 * Quarter <= 4 * Quarter - tileB /\ 4 * Quarter - tileB - 3 * Quarter >= tileC)
<1>1. /\ Quarter \in Nat \ {0} /\ tileA \in Nat \ {0} /\ tileB \in Nat \ {0} /\ tileC \in Nat \ {0}
      /\ tileA <= Quarter /\ tileB <= Quarter
  BY LayoutAssumption DEF TensorsOK, OperandsFit
<1>2. BOddLo = 3 * Quarter - tileB /\ BEvenLo = 4 * Quarter - tileB
  BY <1>1 DEF BOddLo, BEvenLo, Minus, Smem
<1>3. AfterAEven <=> Quarter - tileA >= tileC
  BY <1>1 DEF AfterAEven, Minus
<1>4. AfterAOdd <=> (Quarter + tileA <= 3 * Quarter - tileB /\ 3 * Quarter - tileB - (Quarter + tileA) >= tileC)
  BY <1>1, <1>2 DEF AfterAOdd, Minus
<1>5. AfterBOdd <=> (3 * Quarter <= 4 * Quarter - tileB /\ 4 * Quarter - tileB - 3 * Quarter >= tileC)
  BY <1>1, <1>2 DEF AfterBOdd, Minus, Smem
<1> QED BY <1>1, <1>3, <1>4, <1>5

(* C is free of the four operand buffers wherever it ends before each of   *)
(* them or begins behind it.                                               *)
LEMMA ApartIsFree ==
  ASSUME TensorsOK, NEW start \in Nat,
         tileA <= start,
         start + tileC <= Quarter \/ Quarter + tileA <= start,
         start + tileC <= 3 * Quarter - tileB \/ 3 * Quarter <= start,
         start + tileC <= 4 * Quarter - tileB
  PROVE  Free(start)
<1>1. Quarter \in Nat /\ tileA \in Nat /\ tileB \in Nat /\ tileC \in Nat
  BY LayoutAssumption DEF TensorsOK
<1>2. ARows(FALSE) \cap CRows(start) = {}
  BY <1>1 DEF ARows, CRows, AStart
<1>3. ARows(TRUE) \cap CRows(start) = {}
  BY <1>1 DEF ARows, CRows, AStart
<1>4. BRows(FALSE) \cap CRows(start) = {}
  BY <1>1 DEF BRows, CRows, BEnd, Smem
<1>5. BRows(TRUE) \cap CRows(start) = {}
  BY <1>1 DEF BRows, CRows, BEnd, Smem
<1> QED BY <1>2, <1>3, <1>4, <1>5 DEF Free, Buffers

(* Every GemmConfig whose operands stay in their quarters has a free       *)
(* destination, or none is accepted (GemmConfig::SPAD_DEST).               *)
LEMMA PlacedApart == TensorsOK => DestIsFree
<1> SUFFICES ASSUME TensorsOK, OperandsFit, SpadDest # 0
             PROVE  Free(SpadDest) /\ CRows(SpadDest) \subseteq 0 .. Smem - 1
  BY DEF DestIsFree
<1>1. /\ Quarter \in Nat \ {0} /\ tileA \in Nat \ {0} /\ tileB \in Nat \ {0} /\ tileC \in Nat \ {0}
      /\ tileA <= Quarter /\ tileB <= Quarter
  BY GapsDoNotWrap
<1>2. CASE AfterAEven
  <2>1. SpadDest = tileA /\ Quarter - tileA >= tileC
    BY <1>2, GapsDoNotWrap DEF SpadDest
  <2>2. tileA \in Nat
    BY <1>1
  <2>3. Free(tileA)
    BY <1>1, <2>1, <2>2, ApartIsFree
  <2> QED BY <1>1, <2>1, <2>3 DEF CRows, Smem
<1>3. CASE ~AfterAEven /\ AfterAOdd
  <2>1. SpadDest = Quarter + tileA /\ 3 * Quarter - tileB - (Quarter + tileA) >= tileC
    BY <1>3, GapsDoNotWrap DEF SpadDest
  <2>2. Quarter + tileA \in Nat
    BY <1>1
  <2>3. Free(Quarter + tileA)
    BY <1>1, <2>1, <2>2, ApartIsFree
  <2> QED BY <1>1, <2>1, <2>3 DEF CRows, Smem
<1>4. CASE ~AfterAEven /\ ~AfterAOdd /\ AfterBOdd
  <2>1. SpadDest = 3 * Quarter /\ 4 * Quarter - tileB - 3 * Quarter >= tileC
    BY <1>1, <1>4, GapsDoNotWrap DEF SpadDest, Smem
  <2>2. 3 * Quarter \in Nat
    BY <1>1
  <2>3. Free(3 * Quarter)
    BY <1>1, <2>1, <2>2, ApartIsFree
  <2> QED BY <1>1, <2>1, <2>3 DEF CRows, Smem
<1> QED BY <1>2, <1>3, <1>4 DEF SpadDest

(* SPAD_DEST says "does not fit" only where C fits nowhere: a destination  *)
(* that is free lies in one of the three gaps, because the first row of C  *)
(* falls behind one of the four buffers and its last row before the next.  *)
LEMMA FreeIsInAGap ==
  ASSUME TensorsOK, OperandsFit, NEW start \in 0 .. Smem - tileC, Free(start)
  PROVE  AfterAEven \/ AfterAOdd \/ AfterBOdd
<1>1. /\ Quarter \in Nat \ {0} /\ tileA \in Nat \ {0} /\ tileB \in Nat \ {0} /\ tileC \in Nat \ {0}
      /\ tileA <= Quarter /\ tileB <= Quarter
  BY GapsDoNotWrap
<1>2. start \in Nat /\ start + tileC <= 4 * Quarter
  BY <1>1 DEF Smem
<1>3. \A row \in Int : row \in CRows(start) <=> start <= row /\ row < start + tileC
  BY <1>1, <1>2 DEF CRows
<1>4. \A row \in CRows(start) :
        row \notin ARows(FALSE) /\ row \notin ARows(TRUE)
        /\ row \notin BRows(FALSE) /\ row \notin BRows(TRUE)
  BY DEF Free, Buffers
<1>5. ASSUME NEW row \in Int, start <= row, row < start + tileC
      PROVE  /\ ~(0 <= row /\ row < tileA)
             /\ ~(Quarter <= row /\ row < Quarter + tileA)
             /\ ~(4 * Quarter - tileB <= row /\ row < 4 * Quarter)
             /\ ~(3 * Quarter - tileB <= row /\ row < 3 * Quarter)
  <2>1. row \in CRows(start)
    BY <1>3, <1>5
  <2>2. row \notin ARows(FALSE) /\ row \notin ARows(TRUE)
    BY <1>4, <2>1
  <2>3. row \notin BRows(FALSE) /\ row \notin BRows(TRUE)
    BY <1>4, <2>1
  <2>4. ~(0 <= row /\ row < tileA) /\ ~(Quarter <= row /\ row < Quarter + tileA)
    BY <1>1, <2>2 DEF ARows, AStart
  <2>5. /\ ~(4 * Quarter - tileB <= row /\ row < 4 * Quarter)
        /\ ~(3 * Quarter - tileB <= row /\ row < 3 * Quarter)
    BY <1>1, <2>3 DEF BRows, BEnd, Smem
  <2> QED BY <2>4, <2>5
<1>6. /\ tileA <= start
      /\ start < Quarter \/ Quarter + tileA <= start
      /\ start < 3 * Quarter - tileB \/ 3 * Quarter <= start
      /\ start < 4 * Quarter - tileB
  BY <1>1, <1>2, <1>5
<1>7. start < Quarter => start + tileC <= Quarter
  BY <1>1, <1>2, <1>5
<1>8. start < 3 * Quarter - tileB => start + tileC <= 3 * Quarter - tileB
  <2>1. ASSUME start < 3 * Quarter - tileB, start + tileC > 3 * Quarter - tileB PROVE FALSE
    <3> DEFINE row == 3 * Quarter - tileB
    <3>1. row \in Int /\ start <= row /\ row < start + tileC
      BY <1>1, <1>2, <2>1
    <3>2. 3 * Quarter - tileB <= row /\ row < 3 * Quarter
      BY <1>1
    <3> QED BY <1>5, <3>1, <3>2
  <2> QED BY <1>1, <1>2, <2>1
<1>9. start < 4 * Quarter - tileB => start + tileC <= 4 * Quarter - tileB
  <2>1. ASSUME start < 4 * Quarter - tileB, start + tileC > 4 * Quarter - tileB PROVE FALSE
    <3> DEFINE row == 4 * Quarter - tileB
    <3>1. row \in Int /\ start <= row /\ row < start + tileC
      BY <1>1, <1>2, <2>1
    <3>2. 4 * Quarter - tileB <= row /\ row < 4 * Quarter
      BY <1>1
    <3> QED BY <1>5, <3>1, <3>2
  <2> QED BY <1>1, <1>2, <2>1
<1>10. CASE start < Quarter
  BY <1>1, <1>2, <1>6, <1>7, <1>10, GapsDoNotWrap
<1>11. CASE Quarter <= start /\ start < 3 * Quarter - tileB
  BY <1>1, <1>2, <1>6, <1>8, <1>11, GapsDoNotWrap
<1>12. CASE 3 * Quarter <= start
  BY <1>1, <1>2, <1>6, <1>9, <1>12, GapsDoNotWrap
<1> QED BY <1>1, <1>2, <1>6, <1>10, <1>11, <1>12

LEMMA RejectedNowhereFree == TensorsOK => NoNeedlessReject
<1> SUFFICES ASSUME TensorsOK, OperandsFit, SpadDest = 0,
                    NEW start \in 0 .. Smem - tileC, Free(start)
             PROVE  FALSE
  BY DEF NoNeedlessReject
<1>1. AfterAEven \/ AfterAOdd \/ AfterBOdd
  BY FreeIsInAGap
<1>2. Quarter \in Nat \ {0} /\ tileA \in Nat \ {0}
  BY GapsDoNotWrap
<1> QED BY <1>1, <1>2 DEF SpadDest, Smem

LEMMA SizesStay == LayoutSpec => []TensorsOK
<1>1. LayoutInit => TensorsOK
  BY DEF LayoutInit
<1>2. TensorsOK /\ [LayoutNext]_tensors => TensorsOK'
  BY DEF TensorsOK, LayoutNext, tensors
<1> QED BY <1>1, <1>2, PTL DEF LayoutSpec

(* Whatever the sizes are: a destination that mxgemm_lib.hpp accepts       *)
(* overlaps no operand buffer, if each operand stays in its quarter.       *)
THEOREM DestinationIsFree == LayoutSpec => []DestIsFree
  BY SizesStay, PlacedApart, PTL

(* Whatever the sizes are: mxgemm_lib.hpp rejects no GemmConfig for which  *)
(* some place in the scratchpad would have done.                           *)
THEOREM NothingRejectedInVain == LayoutSpec => []NoNeedlessReject
  BY SizesStay, RejectedNowhereFree, PTL

-----------------------------------------------------------------------------
(* Words with a simple mask                                                *)

LEMMA And2Facts ==
  ASSUME NEW x \in Nat, x < 4
  PROVE  /\ And2(x, 0) = 0
         /\ And2(0, x) = 0
         /\ And2(x, 1) = x % 2
         /\ And2(x, 2) = 2 * (x \div 2)
         /\ And2(x, 3) = x
BY DEF And1, And2

LEMMA And4Facts ==
  ASSUME NEW x \in Nat, x < 16
  PROVE  /\ And4(x, 0) = 0
         /\ And4(0, x) = 0
         /\ And4(x, 7) = x % 8
         /\ And4(x, 8) = 8 * (x \div 8)
         /\ And4(x, 15) = x
<1> DEFINE low == x % 4
           high == x \div 4
<1>1. low \in Nat /\ low < 4 /\ high \in Nat /\ high < 4 /\ x = low + 4 * high
  OBVIOUS
<1>2. /\ 0 % 4 = 0 /\ 0 \div 4 = 0
      /\ 7 % 4 = 3 /\ 7 \div 4 = 1
      /\ 8 % 4 = 0 /\ 8 \div 4 = 2
      /\ 15 % 4 = 3 /\ 15 \div 4 = 3
  OBVIOUS
<1>3. /\ And4(x, 0) = And2(low, 0) + 4 * And2(high, 0)
      /\ And4(x, 7) = And2(low, 3) + 4 * And2(high, 1)
      /\ And4(x, 8) = And2(low, 0) + 4 * And2(high, 2)
      /\ And4(x, 15) = And2(low, 3) + 4 * And2(high, 3)
      /\ And4(0, x) = And2(0, low) + 4 * And2(0, high)
  BY <1>2 DEF And4
<1>4. x % 8 = low + 4 * (high % 2) /\ x \div 8 = high \div 2
  BY <1>1
<1> HIDE DEF low, high
<1>5. /\ And2(low, 0) = 0 /\ And2(low, 3) = low
      /\ And2(high, 0) = 0 /\ And2(high, 1) = high % 2 /\ And2(high, 2) = 2 * (high \div 2)
      /\ And2(high, 3) = high /\ And2(0, low) = 0 /\ And2(0, high) = 0
  BY <1>1, And2Facts
<1>6. And4(x, 0) = 0
  BY <1>3, <1>5
<1>7. And4(0, x) = 0
  BY <1>3, <1>5
<1>8. And4(x, 15) = x
  <2>1. And4(x, 15) = low + 4 * high
    BY <1>3, <1>5
  <2>2. QED
    BY <1>1, <2>1
<1>9. And4(x, 7) = x % 8
  <2>1. And4(x, 7) = low + 4 * (high % 2)
    BY <1>3, <1>5
  <2>2. QED
    BY <1>4, <2>1
<1>10. And4(x, 8) = 8 * (x \div 8)
  <2>1. And4(x, 8) = 0 + 4 * (2 * (high \div 2))
    BY <1>3, <1>5
  <2>2. high \div 2 \in Nat
    BY <1>1
  <2>3. \A n \in Nat : 0 + 4 * (2 * n) = 8 * n
    OBVIOUS
  <2>4. And4(x, 8) = 8 * (high \div 2)
    BY <2>1, <2>2, <2>3
  <2>5. QED
    BY <1>4, <2>4
<1>11. QED
  BY <1>6, <1>7, <1>8, <1>9, <1>10

LEMMA And8Facts ==
  ASSUME NEW x \in Nat, x < 256
  PROVE  /\ And8(x, 0) = 0
         /\ And8(0, x) = 0
         /\ And8(x, 127) = x % 128
         /\ And8(x, 128) = 128 * (x \div 128)
         /\ And8(x, 255) = x
<1> DEFINE low == x % 16
           high == x \div 16
<1>1. low \in Nat /\ low < 16 /\ high \in Nat /\ high < 16 /\ x = low + 16 * high
  OBVIOUS
<1>2. /\ 0 % 16 = 0 /\ 0 \div 16 = 0
      /\ 127 % 16 = 15 /\ 127 \div 16 = 7
      /\ 128 % 16 = 0 /\ 128 \div 16 = 8
      /\ 255 % 16 = 15 /\ 255 \div 16 = 15
  OBVIOUS
<1>3. /\ And8(x, 0) = And4(low, 0) + 16 * And4(high, 0)
      /\ And8(x, 127) = And4(low, 15) + 16 * And4(high, 7)
      /\ And8(x, 128) = And4(low, 0) + 16 * And4(high, 8)
      /\ And8(x, 255) = And4(low, 15) + 16 * And4(high, 15)
      /\ And8(0, x) = And4(0, low) + 16 * And4(0, high)
  BY <1>2 DEF And8
<1>4. x % 128 = low + 16 * (high % 8) /\ x \div 128 = high \div 8
  BY <1>1
<1> HIDE DEF low, high
<1>5. /\ And4(low, 0) = 0 /\ And4(low, 15) = low
      /\ And4(high, 0) = 0 /\ And4(high, 7) = high % 8 /\ And4(high, 8) = 8 * (high \div 8)
      /\ And4(high, 15) = high /\ And4(0, low) = 0 /\ And4(0, high) = 0
  BY <1>1, And4Facts
<1>6. And8(x, 0) = 0
  BY <1>3, <1>5
<1>7. And8(0, x) = 0
  BY <1>3, <1>5
<1>8. And8(x, 255) = x
  <2>1. And8(x, 255) = low + 16 * high
    BY <1>3, <1>5
  <2>2. QED
    BY <1>1, <2>1
<1>9. And8(x, 127) = x % 128
  <2>1. And8(x, 127) = low + 16 * (high % 8)
    BY <1>3, <1>5
  <2>2. QED
    BY <1>4, <2>1
<1>10. And8(x, 128) = 128 * (x \div 128)
  <2>1. And8(x, 128) = 0 + 16 * (8 * (high \div 8))
    BY <1>3, <1>5
  <2>2. high \div 8 \in Nat
    BY <1>1
  <2>3. \A n \in Nat : 0 + 16 * (8 * n) = 128 * n
    OBVIOUS
  <2>4. And8(x, 128) = 128 * (high \div 8)
    BY <2>1, <2>2, <2>3
  <2>5. QED
    BY <1>4, <2>4
<1>11. QED
  BY <1>6, <1>7, <1>8, <1>9, <1>10

LEMMA And16Facts ==
  ASSUME NEW x \in Nat, x < 65536
  PROVE  /\ And16(x, 0) = 0
         /\ And16(x, 32767) = x % 32768
         /\ And16(x, 32768) = 32768 * (x \div 32768)
<1> DEFINE low == x % 256
           high == x \div 256
<1>1. low \in Nat /\ low < 256 /\ high \in Nat /\ high < 256 /\ x = low + 256 * high
  OBVIOUS
<1>2. /\ 0 % 256 = 0 /\ 0 \div 256 = 0
      /\ 32767 % 256 = 255 /\ 32767 \div 256 = 127
      /\ 32768 % 256 = 0 /\ 32768 \div 256 = 128
  OBVIOUS
<1>3. /\ And16(x, 0) = And8(low, 0) + 256 * And8(high, 0)
      /\ And16(x, 32767) = And8(low, 255) + 256 * And8(high, 127)
      /\ And16(x, 32768) = And8(low, 0) + 256 * And8(high, 128)
  BY <1>2 DEF And16
<1>4. x % 32768 = low + 256 * (high % 128) /\ x \div 32768 = high \div 128
  BY <1>1
<1> HIDE DEF low, high
<1>5. /\ And8(low, 0) = 0 /\ And8(low, 255) = low
      /\ And8(high, 0) = 0 /\ And8(high, 127) = high % 128 /\ And8(high, 128) = 128 * (high \div 128)
  BY <1>1, And8Facts
<1>6. And16(x, 0) = 0
  BY <1>3, <1>5
<1>7. And16(x, 32767) = x % 32768
  <2>1. And16(x, 32767) = low + 256 * (high % 128)
    BY <1>3, <1>5
  <2>2. QED
    BY <1>4, <2>1
<1>8. And16(x, 32768) = 32768 * (x \div 32768)
  <2>1. And16(x, 32768) = 0 + 256 * (128 * (high \div 128))
    BY <1>3, <1>5
  <2>2. high \div 128 \in Nat
    BY <1>1
  <2>3. \A n \in Nat : 0 + 256 * (128 * n) = 32768 * n
    OBVIOUS
  <2>4. And16(x, 32768) = 32768 * (high \div 128)
    BY <2>1, <2>2, <2>3
  <2>5. QED
    BY <1>4, <2>4
<1>9. QED
  BY <1>6, <1>7, <1>8

(* Two codes do not share a bit.                                           *)
LEMMA OrOfCodes ==
  ASSUME NEW x \in Nat, NEW y \in Nat, x < 256, y < 256
  PROVE  Or16(x, 256 * y) = x + 256 * y
<1>1. x % 256 = x /\ x \div 256 = 0 /\ (256 * y) % 256 = 0 /\ (256 * y) \div 256 = y
  OBVIOUS
<1>2. And16(x, 256 * y) = And8(x, 0) + 256 * And8(0, y)
  BY <1>1 DEF And16
<1>3. And16(x, 256 * y) = 0
  BY <1>2, And8Facts
<1>4. QED
  BY <1>3 DEF Or16

-----------------------------------------------------------------------------
(* The encoders of P                                                       *)

(* One field of the packed encoder: the code, and no carry to the next.    *)
Field(u, k8) == IF u < k8 THEN 0 ELSE u - k8 + 8

(* The scale that is stored is the largest exponent of the block, clamped. *)
LEMMA ClampFacts ==
  ASSUME NEW em \in Nat, em < 255
  PROVE  \E s \in Nat : 7 <= s /\ s < 255 /\ em <= s /\ K8(em) = 8 * s - 48 /\ ScaleOf(em) = s
<1>1. CASE em >= 7
  <2>1. K8(em) = 8 * em - 48
    BY <1>1 DEF K8, ClampK8
  <2>2. K8(em) - 8 = 8 * (em - 7) /\ (8 * (em - 7)) \div 8 = em - 7
    BY <1>1, <2>1
  <2>3. ScaleOf(em) = em
    BY <1>1, <2>2 DEF ScaleOf
  <2>4. QED
    BY <1>1, <2>1, <2>3
<1>2. CASE em < 7
  <2>1. K8(em) = 8 /\ (8 - 8) \div 8 = 0
    BY <1>2 DEF K8, ClampK8
  <2>2. ScaleOf(em) = 7
    BY <1>2, <2>1 DEF ScaleOf
  <2>3. QED
    BY <1>2, <2>1, <2>2
<1>3. QED
  BY <1>1, <1>2

LEMMA FieldStandsFor ==
  ASSUME NEW s \in Nat, NEW u \in Nat, 7 <= s, s < 255, u <= 8 * s + 7
  PROVE  StandsFor(Field(u, 8 * s - 48), s, u) /\ Field(u, 8 * s - 48) \in Nat /\ Field(u, 8 * s - 48) < 64
<1> DEFINE e == u \div 8
           m == u % 8
<1>1. e \in Nat /\ e < 255 /\ m \in 0 .. 7 /\ u = 8 * e + m /\ e <= s
  OBVIOUS
<1> HIDE DEF e, m
<1>2. CASE e < s - 6
  BY <1>1, <1>2 DEF Field, StandsFor, e
<1>3. CASE e >= s - 6
  <2>1. Field(u, 8 * s - 48) = 8 * (e - s + 7) + m
    BY <1>1, <1>3 DEF Field
  <2>2. (8 * (e - s + 7) + m) % 8 = m /\ (8 * (e - s + 7) + m) \div 8 = e - s + 7
    BY <1>1, <1>3
  <2>3. u >= 8 /\ 8 * (e - s + 7) + m \in 8 .. 126 /\ 8 * (e - s + 7) + m < 64
    BY <1>1, <1>3
  <2>4. QED
    BY <1>1, <1>3, <2>1, <2>2, <2>3 DEF StandsFor, e, m
<1>4. QED
  BY <1>1, <1>2, <1>3

LEMMA ScaledStandsFor ==
  ASSUME NEW em \in Nat, NEW u \in Nat, em < 255, u <= em * 8 + 7
  PROVE  StandsFor(Scaled(u, em), em, u)
BY DEF Scaled, StandsFor

(* What becomes of one field of a word: the addition sets its top bit if   *)
(* the number is large enough, and the mask leaves the difference or zero. *)
Valid(u, k8) == IF u < k8 THEN 0 ELSE 1

LEMMA TopBit ==
  ASSUME NEW u \in Nat, NEW k8 \in Nat, u < 2040, 8 <= k8, k8 < 1985, u - k8 <= 55
  PROVE  /\ u + (32768 - k8) \in Nat /\ u + (32768 - k8) < 65536
         /\ And16(u + (32768 - k8), 32768) = 32768 * Valid(u, k8)
         /\ Valid(u, k8) \in {0, 1}
<1> DEFINE x == u + (32768 - k8)
<1>1. x \in Nat /\ x < 65536
  OBVIOUS
<1>2. x < 32768 <=> u < k8
  OBVIOUS
<1> HIDE DEF x
<1>3. And16(x, 32768) = 32768 * (x \div 32768)
  BY <1>1, And16Facts
<1>4. x \div 32768 = IF x < 32768 THEN 0 ELSE 1
  BY <1>1
<1>5. x \div 32768 = Valid(u, k8)
  BY <1>2, <1>4 DEF Valid
<1>6. QED
  BY <1>1, <1>3, <1>5 DEF x, Valid

LEMMA MaskedField ==
  ASSUME NEW u \in Nat, NEW k8 \in Nat, u < 2040, 8 <= k8, k8 < 1985, u - k8 <= 55
  PROVE  /\ And16(u + (32768 - k8), 32767 * Valid(u, k8)) + 8 * Valid(u, k8) = Field(u, k8)
         /\ Field(u, k8) \in Nat /\ Field(u, k8) < 64
<1> DEFINE x == u + (32768 - k8)
<1>1. x \in Nat /\ x < 65536 /\ x - 32768 = u - k8
  OBVIOUS
<1> HIDE DEF x
<1>2. CASE u < k8
  <2>1. Valid(u, k8) = 0 /\ Field(u, k8) = 0
    BY <1>2 DEF Valid, Field
  <2>2. And16(x, 0) = 0
    BY <1>1, And16Facts
  <2>3. QED
    BY <2>1, <2>2 DEF x
<1>3. CASE ~ (u < k8)
  <2>1. Valid(u, k8) = 1 /\ Field(u, k8) = u - k8 + 8 /\ u - k8 \in Nat /\ u - k8 < 56
    BY <1>3 DEF Valid, Field
  <2>2. And16(x, 32767) = x % 32768
    BY <1>1, And16Facts
  <2>3. x % 32768 = x - 32768
    BY <1>1, <2>1
  <2>4. And16(x, 32767) = u - k8
    BY <1>1, <2>2, <2>3
  <2>5. And16(x, 32767 * 1) + 8 * 1 = u - k8 + 8
    BY <2>4
  <2>6. QED
    BY <2>1, <2>5 DEF x
<1>4. QED
  BY <1>2, <1>3

LEMMA SwarIsFields ==
  ASSUME NEW lo \in Nat, NEW hi \in Nat, NEW k8 \in Nat, lo < 2040, hi < 2040, 8 <= k8, k8 < 1985,
         lo - k8 <= 55, hi - k8 <= 55
  PROVE  Swar(lo, hi, k8) = Field(lo, k8) + 256 * Field(hi, k8)
<1> DEFINE bias == 32760 - (k8 - 8)
           y == AddWord(<<lo, hi>>, <<bias, bias>>)
           g == AndWord(y, <<32768, 32768>>)
           m == SubWord(g, ShiftFields(g, 15))
           r == AddWord(AndWord(y, m), ShiftFields(g, 12))
           x == lo + (32768 - k8)
           z == hi + (32768 - k8)
           a == Valid(lo, k8)
           b == Valid(hi, k8)
           f == Field(lo, k8)
           h == Field(hi, k8)
<1>1. Swar(lo, hi, k8) = Or16(r[1], r[1] \div 256 + (r[2] % 256) * 256)
  BY DEF Swar
<1>2. bias = 32768 - k8
  OBVIOUS
<1>3. x \in Nat /\ x < 65536 /\ And16(x, 32768) = 32768 * a /\ a \in {0, 1}
  BY TopBit
<1>4. z \in Nat /\ z < 65536 /\ And16(z, 32768) = 32768 * b /\ b \in {0, 1}
  BY TopBit
<1>5. And16(x, 32767 * a) + 8 * a = f /\ f \in Nat /\ f < 64
  BY MaskedField
<1>6. And16(z, 32767 * b) + 8 * b = h /\ h \in Nat /\ h < 64
  BY MaskedField
<1>7. y = <<x, z>>
  <2>1. y = AddWord(<<lo, hi>>, <<32768 - k8, 32768 - k8>>)
    BY <1>2
  <2>2. \A n \in Nat : n < 65536 => n % 65536 = n /\ n \div 65536 = 0 /\ n + 0 = n
    OBVIOUS
  <2>3. AddWord(<<lo, hi>>, <<32768 - k8, 32768 - k8>>)
          = <<x % 65536, (z + x \div 65536) % 65536>>
    BY DEF AddWord, HalfSpan
  <2> HIDE DEF x, z, y
  <2>4. QED
    BY <1>3, <1>4, <2>1, <2>2, <2>3
<1> HIDE DEF y, x, z, a, b, f, h
<1>8. g = <<32768 * a, 32768 * b>>
  BY <1>3, <1>4, <1>7 DEF AndWord
<1> HIDE DEF g
<1>9. ShiftFields(g, 15) = <<a, b>>
  <2>1. 2^15 = 32768
    BY SMT
  <2>2. \A n \in {0, 1} : (32768 * n) \div 32768 = n
    OBVIOUS
  <2>3. QED
    BY <1>3, <1>4, <1>8, <2>1, <2>2 DEF ShiftFields
<1>10. ShiftFields(g, 12) = <<8 * a, 8 * b>>
  <2>1. 2^12 = 4096
    BY SMT
  <2>2. \A n \in {0, 1} : (32768 * n) \div 4096 = 8 * n
    OBVIOUS
  <2>3. QED
    BY <1>3, <1>4, <1>8, <2>1, <2>2 DEF ShiftFields
<1>11. m = <<32767 * a, 32767 * b>>
  <2>1. \A n \in {0, 1} : (32768 * n - n) % 65536 = 32767 * n /\ (32768 * n - n) \div 65536 = 0
    OBVIOUS
  <2>2. \A n \in {0, 1} : (32768 * n - n + 0) % 65536 = 32767 * n
    OBVIOUS
  <2>3. m = <<(32768 * a - a) % 65536, (32768 * b - b + (32768 * a - a) \div 65536) % 65536>>
    BY <1>8, <1>9 DEF SubWord, HalfSpan
  <2>4. QED
    BY <1>3, <1>4, <2>1, <2>2, <2>3
<1> HIDE DEF m
<1>12. AndWord(y, m) = <<And16(x, 32767 * a), And16(z, 32767 * b)>>
  BY <1>7, <1>11 DEF AndWord
<1>13. r = <<f, h>>
  <2>1. \A n \in Nat : n < 64 => n % 65536 = n /\ n \div 65536 = 0 /\ n + 0 = n
    OBVIOUS
  <2>2. r = <<f % 65536, (h + f \div 65536) % 65536>>
    BY <1>5, <1>6, <1>10, <1>12 DEF AddWord, HalfSpan
  <2>3. QED
    BY <1>5, <1>6, <2>1, <2>2
<1> HIDE DEF r
<1>14. f \div 256 + (h % 256) * 256 = 256 * h
  BY <1>5, <1>6
<1>15. Or16(f, 256 * h) = f + 256 * h
  BY <1>5, <1>6, OrOfCodes
<1>16. QED
  BY <1>1, <1>13, <1>14, <1>15 DEF f, h

(* The three encoders of P agree with the number, for every pair of        *)
(* numbers of a block and every exponent that a block can have.            *)
THEOREM EveryPairIsExact ==
  ASSUME NEW em \in Nat, NEW lo \in Nat, NEW hi \in Nat,
         em < 255, lo <= em * 8 + 7, hi <= em * 8 + 7,
         input = [of |-> "P", em |-> em, lo |-> lo, hi |-> hi]
  PROVE  PackedIsExact
<1>1. PICK s \in Nat : 7 <= s /\ s < 255 /\ em <= s /\ K8(em) = 8 * s - 48 /\ ScaleOf(em) = s
  BY ClampFacts
<1>2. lo <= 8 * s + 7 /\ hi <= 8 * s + 7
  BY <1>1
<1> DEFINE k8 == 8 * s - 48
           f == Field(lo, k8)
           h == Field(hi, k8)
<1>3. StandsFor(f, s, lo) /\ StandsFor(h, s, hi) /\ f \in Nat /\ f < 64 /\ h \in Nat /\ h < 64
  <2>1. StandsFor(f, s, lo) /\ f \in Nat /\ f < 64
    BY <1>1, <1>2, FieldStandsFor
  <2>2. StandsFor(h, s, hi) /\ h \in Nat /\ h < 64
    BY <1>1, <1>2, FieldStandsFor
  <2>3. QED
    BY <2>1, <2>2
<1>4. /\ k8 \in Nat /\ 8 <= k8 /\ k8 < 1985 /\ lo < 2040 /\ hi < 2040
      /\ lo - k8 <= 55 /\ hi - k8 <= 55
  BY <1>1, <1>2
<1>5. Masked(lo, k8) = f
  BY <1>4 DEF Masked, Field
<1> HIDE DEF k8
<1>6. Swar(lo, hi, k8) = f + 256 * h
  BY <1>4, SwarIsFields
<1> HIDE DEF f, h
<1>7. (f + 256 * h) % 256 = f /\ (f + 256 * h) \div 256 = h
  BY <1>3
<1>8. StandsFor(Scaled(lo, em), em, lo)
  BY ScaledStandsFor
<1>9. QED
  BY <1>1, <1>3, <1>5, <1>6, <1>7, <1>8 DEF PackedIsExact, k8

-----------------------------------------------------------------------------
(* simt_quant                                                              *)

Power(n) == 2^n

(* RoundShift divides by 2^sh, to the nearest and a tie to the even.       *)
RoundsTo(v, d, r) ==
  /\ 2 * v <= d * (2 * r + 1) /\ d * (2 * r - 1) <= 2 * v
  /\ 2 * v = d * (2 * r + 1) \/ 2 * v = d * (2 * r - 1) => r % 2 = 0

LEMMA RoundShiftFacts ==
  ASSUME NEW v \in Nat, NEW sh \in Nat, NEW half \in Nat, sh < 32, half > 0,
         Power(sh) = 2 * half, Power(sh - 1) = half
  PROVE  RoundShift(v, sh) \in Nat /\ RoundsTo(v, 2 * half, RoundShift(v, sh))
<1> DEFINE q == v \div (2 * half)
           rest == v % (2 * half)
           r == RoundShift(v, sh)
<1>1. q \in Nat /\ rest \in Nat /\ rest < 2 * half /\ v = (2 * half) * q + rest
  OBVIOUS
<1>2. r = IF rest > half \/ (rest = half /\ q % 2 = 1) THEN q + 1 ELSE q
  BY DEF RoundShift, Power
<1> HIDE DEF q, rest, r
<1>3. (2 * half) * (2 * q + 1) = 2 * ((2 * half) * q) + 2 * half
  BY <1>1
<1>4. CASE rest > half \/ (rest = half /\ q % 2 = 1)
  <2>1. r = q + 1
    BY <1>2, <1>4
  <2>2. (2 * half) * (2 * r - 1) = 2 * ((2 * half) * q) + 2 * half
    BY <1>1, <1>3, <2>1
  <2>3. (2 * half) * (2 * r + 1) = 2 * ((2 * half) * q) + 6 * half
    BY <1>1, <2>1
  <2>4. 2 * v = 2 * ((2 * half) * q) + 2 * rest
    BY <1>1
  <2>5. q % 2 = 1 => r % 2 = 0
    BY <1>1, <2>1
  <2>6. QED
    BY <1>1, <1>4, <2>1, <2>2, <2>3, <2>4, <2>5 DEF RoundsTo, r
<1>5. CASE ~ (rest > half \/ (rest = half /\ q % 2 = 1))
  <2>1. r = q
    BY <1>2, <1>5
  <2>2. (2 * half) * (2 * r - 1) = 2 * ((2 * half) * q) - 2 * half
    BY <1>1, <2>1
  <2>3. (2 * half) * (2 * r + 1) = 2 * ((2 * half) * q) + 2 * half
    BY <1>3, <2>1
  <2>4. 2 * v = 2 * ((2 * half) * q) + 2 * rest
    BY <1>1
  <2>5. q % 2 \in {0, 1}
    BY <1>1
  <2>6. QED
    BY <1>1, <1>5, <2>1, <2>2, <2>3, <2>4, <2>5 DEF RoundsTo, r
<1>6. QED
  BY <1>4, <1>5

LEMMA PowerTable ==
  /\ Power(0) = 1 /\ Power(1) = 2 /\ Power(2) = 4 /\ Power(3) = 8 /\ Power(4) = 16
  /\ Power(5) = 32 /\ Power(6) = 64 /\ Power(7) = 128 /\ Power(8) = 256
  /\ Power(9) = 512 /\ Power(10) = 1024 /\ Power(11) = 2048 /\ Power(12) = 4096
  /\ Power(13) = 8192 /\ Power(14) = 16384 /\ Power(15) = 32768 /\ Power(16) = 65536
  /\ Power(17) = 131072 /\ Power(18) = 262144 /\ Power(19) = 524288 /\ Power(20) = 1048576
BY SMT DEF Power

LEMMA PowerPositive ==
  ASSUME NEW n \in 0 .. 14
  PROVE  Power(n) \in Nat /\ Power(n) > 0
BY PowerTable

LEMMA PowerScaled ==
  ASSUME NEW n \in 0 .. 14
  PROVE  Power(n + 6) = 64 * Power(n)
BY PowerTable

LEMMA PowerNext ==
  ASSUME NEW n \in 0 .. 13
  PROVE  Power(n + 1) = 2 * Power(n)
BY PowerTable

LEMMA PowerMonotone ==
  ASSUME NEW i \in 0 .. 14, NEW j \in 0 .. 14, i <= j
  PROVE  Power(i) <= Power(j)
BY PowerTable

(* The values of the codes.                                                *)
LEMMA ValueFacts ==
  /\ \A c \in 0 .. 15 : ValueOf(c) = 1024 * c
  /\ \A n \in 0 .. 14 : \A r \in 8 .. 15 : ValueOf(8 * n + r) = (1024 * r) * Power(n)
  /\ \A n \in 0 .. 13 : ValueOf(8 * n + 16) = 16384 * Power(n)
<1>1. ASSUME NEW c \in 0 .. 7 PROVE ValueOf(c) = 1024 * c
  <2>1. ValueOf(c) = c * Power(10)
    BY DEF ValueOf, Power
  <2>2. QED
    BY <2>1, PowerTable
<1>2. ASSUME NEW n \in 0 .. 14, NEW r \in 8 .. 15
      PROVE  ValueOf(8 * n + r) = (1024 * r) * Power(n)
  <2>1. (8 * n + r) \div 8 - 1 = n /\ (8 * n + r) % 8 = r - 8 /\ ~ (8 * n + r < 8)
    OBVIOUS
  <2>2. ValueOf(8 * n + r) = ((8 + (r - 8)) * Power(n)) * Power(10)
    BY <2>1 DEF ValueOf, Power
  <2>3. 8 + (r - 8) = r
    OBVIOUS
  <2>4. Power(n) \in Nat /\ Power(10) = 1024
    BY PowerPositive, PowerTable
  <2>5. ValueOf(8 * n + r) = (r * Power(n)) * 1024
    BY <2>2, <2>3, <2>4
  <2>6. QED
    BY <2>4, <2>5
<1>3. ASSUME NEW c \in 8 .. 15 PROVE ValueOf(c) = 1024 * c
  <2>1. ValueOf(8 * 0 + c) = (1024 * c) * Power(0)
    BY <1>2
  <2>2. QED
    BY <2>1, PowerTable
<1>4. ASSUME NEW n \in 0 .. 13 PROVE ValueOf(8 * n + 16) = 16384 * Power(n)
  <2>1. n + 1 \in 0 .. 14 /\ 8 \in 8 .. 15
    OBVIOUS
  <2>2. ValueOf(8 * (n + 1) + 8) = (1024 * 8) * Power(n + 1)
    BY <1>2, <2>1
  <2>3. 8 * (n + 1) + 8 = 8 * n + 16
    OBVIOUS
  <2>4. Power(n + 1) = 2 * Power(n)
    BY PowerNext
  <2>5. n \in 0 .. 14
    OBVIOUS
  <2>6. Power(n) \in Nat
    BY <2>5, PowerPositive
  <2>7. QED
    BY <2>2, <2>3, <2>4, <2>6
<1>5. QED
  BY <1>1, <1>2, <1>3, <1>4

LEMMA Times ==
  ASSUME NEW x \in Int, NEW y \in Int, NEW p \in Nat, p > 0
  PROVE  x * p \in Int /\ (x <= y <=> x * p <= y * p) /\ (x < y <=> x * p < y * p)
OBVIOUS

(* The place of a code of a normal number in the table.                    *)
LEMMA ValueAt ==
  ASSUME NEW c \in 0 .. 126, c >= 8
  PROVE  \E n \in 0 .. 14, r \in 8 .. 15 :
           c = 8 * n + r /\ ValueOf(c) = (1024 * r) * Power(n)
<1> DEFINE n == c \div 8 - 1
           r == (c % 8) + 8
<1>1. n \in 0 .. 14 /\ r \in 8 .. 15 /\ c = 8 * n + r
  OBVIOUS
<1> HIDE DEF n, r
<1>2. ValueOf(8 * n + r) = (1024 * r) * Power(n)
  BY <1>1, ValueFacts
<1>3. QED
  BY <1>1, <1>2

(* A larger code stands for a larger number.                               *)
LEMMA ValueMonotone ==
  ASSUME NEW a \in 0 .. 126, NEW b \in 0 .. 126, a < b
  PROVE  ValueOf(a) < ValueOf(b) /\ ValueOf(a) \in Nat /\ ValueOf(b) \in Nat
<1>1. CASE b < 16
  BY <1>1, ValueFacts
<1>2. CASE b >= 16
  <2>1. PICK n \in 0 .. 14, r \in 8 .. 15 : b = 8 * n + r /\ ValueOf(b) = (1024 * r) * Power(n)
    BY <1>2, ValueAt
  <2>2. Power(n) \in Nat /\ Power(n) > 0
    BY PowerPositive
  <2>3. 8192 * Power(n) <= (1024 * r) * Power(n) /\ ValueOf(b) \in Nat
    BY <2>1, <2>2, Times
  <2>4. CASE a < 8
    <3>1. ValueOf(a) = 1024 * a
      BY <2>4, ValueFacts
    <3>2. QED
      BY <2>1, <2>2, <2>3, <2>4, <3>1
  <2>5. CASE a >= 8
    <3>1. PICK m \in 0 .. 14, s \in 8 .. 15 : a = 8 * m + s /\ ValueOf(a) = (1024 * s) * Power(m)
      BY <2>5, ValueAt
    <3>2. Power(m) \in Nat /\ Power(m) > 0
      BY PowerPositive
    <3>3. ValueOf(a) \in Nat
      BY <3>1, <3>2
    <3>4. CASE m = n
      <4>1. 1024 * s < 1024 * r
        BY <2>1, <3>1, <3>4
      <4>2. (1024 * s) * Power(n) < (1024 * r) * Power(n)
        BY <2>2, <4>1, Times
      <4>3. QED
        BY <2>1, <2>3, <3>1, <3>3, <3>4, <4>2
    <3>5. CASE m < n
      <4>1. (1024 * s) * Power(m) < 16384 * Power(m)
        BY <3>2, Times
      <4>2. m \in 0 .. 13 /\ m + 1 \in 0 .. 14 /\ m + 1 <= n
        BY <3>5
      <4>3. Power(m + 1) = 2 * Power(m)
        BY <4>2, PowerNext
      <4>4. Power(m + 1) <= Power(n)
        BY <4>2, PowerMonotone
      <4>5. 16384 * Power(m) <= 8192 * Power(n)
        BY <2>2, <3>2, <4>3, <4>4
      <4>6. QED
        BY <2>1, <2>2, <2>3, <3>1, <3>2, <3>3, <4>1, <4>5
    <3>6. m <= n
      BY <2>1, <3>1
    <3>7. QED
      BY <3>4, <3>5, <3>6
  <2>6. QED
    BY <2>4, <2>5
<1>3. QED
  BY <1>1, <1>2

(* A code is nearest when it is nearer than its two neighbours.            *)
Nearest(code, x) ==
  \A other \in 0 .. 126 :
    \/ Distance(code, x) < Distance(other, x)
    \/ Distance(code, x) = Distance(other, x) /\ (other = code \/ code % 2 = 0)

LEMMA NearestByNeighbours ==
  ASSUME NEW c \in 0 .. 126, NEW x \in Nat,
         c < 126 => /\ 2 * x <= ValueOf(c) + ValueOf(c + 1)
                    /\ 2 * x = ValueOf(c) + ValueOf(c + 1) => c % 2 = 0,
         c > 0 => /\ ValueOf(c - 1) + ValueOf(c) <= 2 * x
                  /\ ValueOf(c - 1) + ValueOf(c) = 2 * x => c % 2 = 0
  PROVE  Nearest(c, x)
<1> SUFFICES ASSUME NEW other \in 0 .. 126
             PROVE  \/ Distance(c, x) < Distance(other, x)
                    \/ Distance(c, x) = Distance(other, x) /\ (other = c \/ c % 2 = 0)
  BY DEF Nearest
<1>1. CASE other = c
  BY <1>1
<1>2. CASE c < other
  <2>1. ValueOf(c) < ValueOf(other) /\ ValueOf(c) \in Nat /\ ValueOf(other) \in Nat
    BY <1>2, ValueMonotone
  <2>2. c + 1 \in 0 .. 126
    BY <1>2
  <2>3. ValueOf(c + 1) <= ValueOf(other) /\ ValueOf(c + 1) \in Nat
    <3>1. CASE c + 1 = other
      BY <2>1, <3>1
    <3>2. CASE c + 1 < other
      <4>1. ValueOf(c + 1) < ValueOf(other) /\ ValueOf(c + 1) \in Nat /\ ValueOf(other) \in Nat
        BY <2>2, <3>2, ValueMonotone, Zenon
      <4>2. QED
        BY <4>1
    <3>3. QED
      BY <1>2, <3>1, <3>2
  <2> DEFINE v == ValueOf(c)
             w == ValueOf(other)
             u == ValueOf(c + 1)
  <2>4. c < 126
    BY <1>2
  <2>5. v \in Nat /\ w \in Nat /\ u \in Nat /\ v < w /\ u <= w /\ 2 * x <= v + u
        /\ (2 * x = v + u => c % 2 = 0)
    BY <2>1, <2>3, <2>4
  <2>6. /\ Distance(c, x) = IF v > x THEN v - x ELSE x - v
        /\ Distance(other, x) = IF w > x THEN w - x ELSE x - w
    BY DEF Distance
  <2> HIDE DEF v, w, u
  <2>7. QED
    BY <2>5, <2>6
<1>3. CASE other < c
  <2>1. ValueOf(other) < ValueOf(c) /\ ValueOf(c) \in Nat /\ ValueOf(other) \in Nat
    BY <1>3, ValueMonotone
  <2>2. c - 1 \in 0 .. 126
    BY <1>3
  <2>3. ValueOf(other) <= ValueOf(c - 1) /\ ValueOf(c - 1) \in Nat
    <3>1. CASE c - 1 = other
      BY <2>1, <3>1
    <3>2. CASE other < c - 1
      <4>1. ValueOf(other) < ValueOf(c - 1) /\ ValueOf(other) \in Nat /\ ValueOf(c - 1) \in Nat
        BY <2>2, <3>2, ValueMonotone, Zenon
      <4>2. QED
        BY <4>1
    <3>3. QED
      BY <1>3, <3>1, <3>2
  <2> DEFINE v == ValueOf(c)
             w == ValueOf(other)
             u == ValueOf(c - 1)
  <2>4. c > 0
    BY <1>3
  <2>5. v \in Nat /\ w \in Nat /\ u \in Nat /\ w < v /\ w <= u /\ u + v <= 2 * x
        /\ (u + v = 2 * x => c % 2 = 0)
    BY <2>1, <2>3, <2>4
  <2>6. /\ Distance(c, x) = IF v > x THEN v - x ELSE x - v
        /\ Distance(other, x) = IF w > x THEN w - x ELSE x - w
    BY DEF Distance
  <2> HIDE DEF v, w, u
  <2>7. QED
    BY <2>5, <2>6
<1>4. QED
  BY <1>1, <1>2, <1>3

(* Above the subnormal codes: r sixteenths of a power of two.              *)
LEMMA NormalIsNearest ==
  ASSUME NEW n \in 0 .. 14, NEW r \in 8 .. 16, NEW sig \in Nat, 128 <= sig, sig < 256,
         8 * n + r <= 126, RoundsTo(sig, 16, r)
  PROVE  Nearest(8 * n + r, sig * Power(n + 6))
<1> DEFINE p == Power(n)
           c == 8 * n + r
           x == sig * Power(n + 6)
<1>1. p \in Nat /\ p > 0 /\ Power(n + 6) = 64 * p
  BY PowerPositive, PowerScaled
<1> HIDE DEF p
<1>2. c \in 0 .. 126 /\ c > 0
  OBVIOUS
<1>3. x = (64 * sig) * p /\ x \in Nat
  BY <1>1
<1> HIDE DEF x
<1>4. ValueOf(c) = (1024 * r) * p
  <2>1. CASE r = 16
    <3>1. n \in 0 .. 13
      BY <2>1
    <3>2. ValueOf(8 * n + 16) = 16384 * p
      BY <3>1, ValueFacts DEF p
    <3>3. QED
      BY <2>1, <3>2
  <2>2. CASE r # 16
    <3>1. r \in 8 .. 15
      BY <2>2
    <3>2. QED
      BY <3>1, ValueFacts DEF p
  <2>3. QED
    BY <2>1, <2>2
<1>5. ASSUME c < 126
      PROVE  /\ 2 * x <= ValueOf(c) + ValueOf(c + 1)
             /\ 2 * x = ValueOf(c) + ValueOf(c + 1) => c % 2 = 0
  <2>1. CASE r = 16
    <3>1. ValueOf(c) < ValueOf(c + 1) /\ ValueOf(c) \in Nat /\ ValueOf(c + 1) \in Nat
      <4>1. c \in 0 .. 126 /\ c + 1 \in 0 .. 126 /\ c < c + 1
        BY <1>2, <1>5
      <4> HIDE DEF c
      <4>2. QED
        BY <4>1, ValueMonotone, Zenon
    <3>2. (64 * sig) * p < (1024 * r) * p
      BY <1>1, <2>1, Times
    <3>3. QED
      BY <1>3, <1>4, <3>1, <3>2
  <2>2. CASE r # 16
    <3>1. r + 1 \in 8 .. 15 \/ r + 1 = 16
      BY <2>2
    <3>2. ValueOf(8 * n + (r + 1)) = (1024 * (r + 1)) * p
      <4>1. CASE r + 1 = 16
        <5>1. n \in 0 .. 13
          BY <1>5, <4>1
        <5>2. ValueOf(8 * n + 16) = 16384 * p
          BY <5>1, ValueFacts DEF p
        <5>3. QED
          BY <4>1, <5>2
      <4>2. CASE r + 1 \in 8 .. 15
        BY <4>2, ValueFacts DEF p
      <4>3. QED
        BY <3>1, <4>1, <4>2
    <3>3. c + 1 = 8 * n + (r + 1)
      OBVIOUS
    <3>4. ValueOf(c) + ValueOf(c + 1) = (1024 * (2 * r + 1)) * p
      BY <1>1, <1>4, <3>2, <3>3
    <3>5. 2 * x = (128 * sig) * p
      BY <1>1, <1>3
    <3>6. 128 * sig <= 1024 * (2 * r + 1) /\ (128 * sig = 1024 * (2 * r + 1) => r % 2 = 0)
      BY DEF RoundsTo
    <3>7. (128 * sig) * p <= (1024 * (2 * r + 1)) * p
      BY <1>1, <3>6, Times
    <3>8. 128 * sig < 1024 * (2 * r + 1) => (128 * sig) * p < (1024 * (2 * r + 1)) * p
      BY <1>1, Times
    <3>9. r % 2 = 0 => c % 2 = 0
      OBVIOUS
    <3> DEFINE k == 1024 * (2 * r + 1)
               y == k * p
               z == (128 * sig) * p
    <3>10. k \in Int /\ 128 * sig \in Int /\ y \in Int /\ z \in Int
      BY <1>1
    <3> HIDE DEF y, z
    <3>11. /\ 2 * x = z /\ ValueOf(c) + ValueOf(c + 1) = y
           /\ z <= y /\ (128 * sig < k => z < y)
      BY <3>4, <3>5, <3>7, <3>8 DEF y, z
    <3> HIDE DEF k
    <3>12. z = y => 128 * sig = k
      BY <3>6, <3>10, <3>11 DEF k
    <3>13. QED
      BY <3>6, <3>9, <3>11, <3>12 DEF k
  <2>3. QED
    BY <2>1, <2>2
<1>6. /\ ValueOf(c - 1) + ValueOf(c) <= 2 * x
      /\ ValueOf(c - 1) + ValueOf(c) = 2 * x => c % 2 = 0
  <2>1. CASE r = 8
    <3>1. ValueOf(c - 1) < ValueOf(c) /\ ValueOf(c) \in Nat /\ ValueOf(c - 1) \in Nat
      <4>1. c \in 0 .. 126 /\ c - 1 \in 0 .. 126 /\ c - 1 < c
        BY <1>2
      <4> HIDE DEF c
      <4>2. QED
        BY <4>1, ValueMonotone, Zenon
    <3>2. (1024 * r) * p <= (64 * sig) * p
      BY <1>1, <2>1, Times
    <3>3. QED
      BY <1>3, <1>4, <3>1, <3>2
  <2>2. CASE r # 8
    <3>1. r - 1 \in 8 .. 15
      BY <2>2
    <3>2. ValueOf(8 * n + (r - 1)) = (1024 * (r - 1)) * p
      BY <3>1, ValueFacts DEF p
    <3>3. c - 1 = 8 * n + (r - 1)
      OBVIOUS
    <3>4. ValueOf(c - 1) + ValueOf(c) = (1024 * (2 * r - 1)) * p
      BY <1>1, <1>4, <3>2, <3>3
    <3>5. 2 * x = (128 * sig) * p
      BY <1>1, <1>3
    <3>6. 1024 * (2 * r - 1) <= 128 * sig /\ (128 * sig = 1024 * (2 * r - 1) => r % 2 = 0)
      BY DEF RoundsTo
    <3>7. (1024 * (2 * r - 1)) * p <= (128 * sig) * p
      BY <1>1, <3>6, Times
    <3>8. 1024 * (2 * r - 1) < 128 * sig => (1024 * (2 * r - 1)) * p < (128 * sig) * p
      BY <1>1, Times
    <3>9. r % 2 = 0 => c % 2 = 0
      OBVIOUS
    <3> DEFINE k == 1024 * (2 * r - 1)
               y == k * p
               z == (128 * sig) * p
    <3>10. k \in Int /\ 128 * sig \in Int /\ y \in Int /\ z \in Int
      BY <1>1
    <3> HIDE DEF y, z
    <3>11. /\ 2 * x = z /\ ValueOf(c - 1) + ValueOf(c) = y
           /\ y <= z /\ (k < 128 * sig => y < z)
      BY <3>4, <3>5, <3>7, <3>8 DEF y, z
    <3> HIDE DEF k
    <3>12. y = z => 128 * sig = k
      BY <3>6, <3>10, <3>11 DEF k
    <3>13. QED
      BY <3>6, <3>9, <3>11, <3>12 DEF k
  <2>3. QED
    BY <2>1, <2>2
<1>7. QED
  BY <1>2, <1>3, <1>5, <1>6, NearestByNeighbours DEF x

(* Below them: thousands of the unit.                                      *)
LEMMA SubnormalIsNearest ==
  ASSUME NEW c \in 0 .. 8, NEW x \in Nat, RoundsTo(x, 1024, c)
  PROVE  Nearest(c, x)
<1>1. ValueOf(c) = 1024 * c /\ ValueOf(c + 1) = 1024 * (c + 1)
  BY ValueFacts
<1>2. c > 0 => ValueOf(c - 1) = 1024 * (c - 1)
  BY ValueFacts
<1>3. /\ 2 * x <= ValueOf(c) + ValueOf(c + 1)
      /\ 2 * x = ValueOf(c) + ValueOf(c + 1) => c % 2 = 0
  BY <1>1 DEF RoundsTo
<1>4. ASSUME c > 0
      PROVE  /\ ValueOf(c - 1) + ValueOf(c) <= 2 * x
             /\ ValueOf(c - 1) + ValueOf(c) = 2 * x => c % 2 = 0
  BY <1>1, <1>2, <1>4 DEF RoundsTo
<1>5. c \in 0 .. 126
  OBVIOUS
<1>6. QED
  BY <1>3, <1>4, <1>5, NearestByNeighbours, Zenon

(* The code of simt_quant, above and below.                                *)
LEMMA QuantNormal ==
  ASSUME NEW sig \in Nat, 128 <= sig, sig < 256, NEW e \in Int, -6 <= e, e <= 8,
         e = 8 => sig <= 224
  PROVE  \E r \in 8 .. 16 :
           /\ RoundsTo(sig, 16, r) /\ 8 * (e + 6) + r <= 126
           /\ F32ToE4m3(sig, e) = 8 * (e + 6) + r
<1> DEFINE v == sig * 65536
           r == RoundShift(v, 20)
<1>1. Power(20) = 2 * 524288 /\ Power(20 - 1) = 524288
  BY SMT DEF Power
<1>2. 2^16 = 65536
  BY SMT
<1> HIDE DEF v
<1>3. r \in Nat /\ RoundsTo(v, 2 * 524288, r)
  <2>1. v \in Nat
    BY DEF v
  <2>2. 524288 \in Nat /\ 20 \in Nat /\ 20 < 32 /\ 524288 > 0
    OBVIOUS
  <2>3. QED
    BY <1>1, <2>1, <2>2, RoundShiftFacts, SMT
<1> HIDE DEF r
<1>4. RoundsTo(sig, 16, r)
  BY <1>3 DEF RoundsTo, v
<1>5. r \in 8 .. 16 /\ (sig <= 224 => r <= 14)
  BY <1>3, <1>4 DEF RoundsTo
<1>6. CASE e = 8 /\ sig >= 224
  <2>1. F32ToE4m3(sig, e) = 126
    BY <1>6 DEF F32ToE4m3
  <2>2. r = 14
    BY <1>5, <1>4, <1>6 DEF RoundsTo
  <2>3. QED
    BY <1>4, <1>5, <1>6, <2>1, <2>2
<1>7. CASE ~ (e = 8 /\ sig >= 224)
  <2> DEFINE mant == IF r = 16 THEN 0 ELSE r - 8
             expf == e + 7 + (IF r = 16 THEN 1 ELSE 0)
  <2>1. F32ToE4m3(sig, e) =
          IF expf > 15 \/ (expf = 15 /\ mant = 7) THEN 126 ELSE expf * 8 + mant
    BY <1>2, <1>7 DEF F32ToE4m3, r, v
  <2>2. ~ (expf > 15 \/ (expf = 15 /\ mant = 7))
    BY <1>5
  <2>3. expf * 8 + mant = 8 * (e + 6) + r /\ 8 * (e + 6) + r <= 126
    BY <1>5
  <2>4. QED
    BY <1>4, <1>5, <2>1, <2>2, <2>3
<1>8. QED
  BY <1>6, <1>7

LEMMA QuantSubnormal ==
  ASSUME NEW sig \in Nat, 128 <= sig, sig < 256, NEW e \in Int, -12 <= e, e < -6
  PROVE  /\ F32ToE4m3(sig, e) \in 0 .. 8
         /\ sig * Power(e + 12) \in Nat
         /\ RoundsTo(sig * Power(e + 12), 1024, F32ToE4m3(sig, e))
<1> DEFINE v == sig * 65536
           q == RoundShift(v, 14 - e)
<1>1. F32ToE4m3(sig, e) = q
  <2>1. 2^16 = 65536
    BY SMT
  <2>2. QED
    BY <2>1 DEF F32ToE4m3
<1>2. ASSUME NEW half \in Nat, NEW w \in Nat, half > 0, w > 0, w * half = 33554432,
             Power(14 - e) = 2 * half, Power(14 - e - 1) = half, Power(e + 12) = w
      PROVE  q \in Nat /\ RoundsTo(sig * w, 1024, q)
  <2>1. v \in Nat /\ 14 - e \in Nat /\ 14 - e < 32
    OBVIOUS
  <2>2. half > 0 /\ Power(14 - e) = 2 * half /\ Power(14 - e - 1) = half
    BY <1>2, SMT
  <2> HIDE DEF v
  <2>3. q \in Nat /\ RoundsTo(v, 2 * half, q)
    BY <2>1, <2>2, RoundShiftFacts, SMT
  <2> HIDE DEF q
  <2>4. w * half = 33554432 /\ w > 0
    BY <1>2, SMT
  <2>5. /\ w * (2 * v) = 131072 * (sig * w)
        /\ w * ((2 * half) * (2 * q + 1)) = 131072 * (512 * (2 * q + 1))
        /\ w * ((2 * half) * (2 * q - 1)) = 131072 * (512 * (2 * q - 1))
    <3>1. w * (2 * v) = 131072 * (sig * w)
      BY SMT DEF v
    <3>2. \A k \in Int : w * ((2 * half) * k) = 2 * ((w * half) * k)
      BY SMT
    <3>3. \A k \in Int : w * ((2 * half) * k) = 131072 * (512 * k)
      BY <2>4, <3>2, SMT
    <3> DEFINE a == 2 * q + 1
               b == 2 * q - 1
    <3>4. a \in Int /\ b \in Int
      BY <2>3, SMT
    <3> HIDE DEF a, b
    <3>5. w * ((2 * half) * a) = 131072 * (512 * a) /\ w * ((2 * half) * b) = 131072 * (512 * b)
      BY <3>3, <3>4, SMT
    <3>6. QED
      BY <3>1, <3>5, SMT DEF a, b
  <2>6. QED
    BY <2>1, <2>3, <2>4, <2>5, SMT DEF RoundsTo
<1> HIDE DEF q
<1>3. /\ Power(0) = 1 /\ Power(1) = 2 /\ Power(2) = 4 /\ Power(3) = 8 /\ Power(4) = 16
      /\ Power(5) = 32
  BY SMT DEF Power
<1>4. /\ Power(20) = 1048576 /\ Power(21) = 2097152 /\ Power(22) = 4194304
      /\ Power(23) = 8388608 /\ Power(24) = 16777216 /\ Power(25) = 33554432
      /\ Power(26) = 67108864
  BY SMT DEF Power
<1>5. \E w, half \in Nat :
        /\ half > 0 /\ w > 0 /\ w <= 32 /\ w * half = 33554432
        /\ Power(14 - e) = 2 * half /\ Power(14 - e - 1) = half /\ Power(e + 12) = w
  <2>1. CASE e = -12
    <3>1. 14 - e = 26 /\ 14 - e - 1 = 25 /\ e + 12 = 0
      BY <2>1, SMT
    <3>2. QED
      BY <1>3, <1>4, <3>1, SMT
  <2>2. CASE e = -11
    <3>1. 14 - e = 25 /\ 14 - e - 1 = 24 /\ e + 12 = 1
      BY <2>2, SMT
    <3>2. QED
      BY <1>3, <1>4, <3>1, SMT
  <2>3. CASE e = -10
    <3>1. 14 - e = 24 /\ 14 - e - 1 = 23 /\ e + 12 = 2
      BY <2>3, SMT
    <3>2. QED
      BY <1>3, <1>4, <3>1, SMT
  <2>4. CASE e = -9
    <3>1. 14 - e = 23 /\ 14 - e - 1 = 22 /\ e + 12 = 3
      BY <2>4, SMT
    <3>2. QED
      BY <1>3, <1>4, <3>1, SMT
  <2>5. CASE e = -8
    <3>1. 14 - e = 22 /\ 14 - e - 1 = 21 /\ e + 12 = 4
      BY <2>5, SMT
    <3>2. QED
      BY <1>3, <1>4, <3>1, SMT
  <2>6. CASE e = -7
    <3>1. 14 - e = 21 /\ 14 - e - 1 = 20 /\ e + 12 = 5
      BY <2>6, SMT
    <3>2. QED
      BY <1>3, <1>4, <3>1, SMT
  <2>7. QED
    BY <2>1, <2>2, <2>3, <2>4, <2>5, <2>6
<1>6. PICK w, half \in Nat :
        /\ half > 0 /\ w > 0 /\ w <= 32 /\ w * half = 33554432
        /\ Power(14 - e) = 2 * half /\ Power(14 - e - 1) = half /\ Power(e + 12) = w
  BY <1>5, SMT
<1>7. q \in Nat /\ RoundsTo(sig * w, 1024, q)
  BY <1>2, <1>6, SMT
<1>8. QED
  <2>1. sig * w <= 8160
    BY <1>6, SMT
  <2>2. q <= 8
    BY <1>7, <2>1, SMT DEF RoundsTo
  <2>3. QED
    BY <1>1, <1>6, <1>7, <2>2, SMT

(* f32_to_e4m3 and the scale that goes with it, for every number of 8      *)
(* significant bits and every largest number of a block at most 19 binades *)
(* above.                                                                  *)
THEOREM EveryNumberIsNearest ==
  ASSUME NEW top \in Nat, NEW sig \in Nat, NEW below \in Nat,
         128 <= top, top < 256, 128 <= sig, sig < 256, below < 20, below = 0 => sig <= top,
         input = [of |-> "X", top |-> top, sig |-> sig, below |-> below]
  PROVE  QuantizeIsNearest
<1> DEFINE e == ScaledExponent(input)
           x == sig * 2^(e + 12)
           code == F32ToE4m3(sig, e)
<1>1. e = 8 - (IF top > 224 THEN 1 ELSE 0) - below
  BY DEF ScaledExponent
<1>2. e \in Int /\ -12 <= e /\ e <= 8 /\ (e = 8 => sig <= 224)
  BY <1>1
<1> HIDE DEF e
<1>3. x = sig * Power(e + 12)
  BY DEF Power
<1> HIDE DEF x
<1>4. Nearest(code, x)
  <2>1. CASE e < -6
    <3>1. code \in 0 .. 8 /\ x \in Nat /\ RoundsTo(x, 1024, code)
      BY <1>2, <1>3, <2>1, QuantSubnormal
    <3>2. QED
      BY <3>1, SubnormalIsNearest
  <2>2. CASE e >= -6
    <3>1. PICK r \in 8 .. 16 : RoundsTo(sig, 16, r) /\ 8 * (e + 6) + r <= 126 /\ code = 8 * (e + 6) + r
      BY <1>2, <2>2, QuantNormal
    <3>2. e + 6 \in 0 .. 14 /\ e + 6 + 6 = e + 12
      BY <1>2, <2>2
    <3>3. Nearest(8 * (e + 6) + r, sig * Power(e + 6 + 6))
      BY <3>1, <3>2, NormalIsNearest
    <3>4. QED
      BY <1>3, <3>1, <3>2, <3>3
  <2>3. QED
    BY <1>2, <2>1, <2>2
<1>5. ASSUME below = 0, sig = top PROVE ValueOf(126) \div 2 < x /\ x <= ValueOf(126)
  <2>1. ValueOf(126) = 234881024
    <3>1. ValueOf(8 * 14 + 14) = (1024 * 14) * Power(14)
      BY ValueFacts
    <3>2. Power(14) = 16384
      BY SMT DEF Power
    <3>3. QED
      BY <3>1, <3>2, SMT
  <2>2. CASE top > 224
    <3>1. e = 7 /\ e + 12 = 19
      BY <1>1, <1>5, <2>2
    <3>2. Power(19) = 524288
      BY SMT DEF Power
    <3>3. QED
      BY <1>3, <1>5, <2>1, <2>2, <3>1, <3>2, SMT
  <2>3. CASE ~ (top > 224)
    <3>1. e = 8 /\ e + 12 = 20
      BY <1>1, <1>5, <2>3
    <3>2. Power(20) = 1048576
      BY SMT DEF Power
    <3>3. QED
      BY <1>3, <1>5, <2>1, <2>3, <3>1, <3>2, SMT
  <2>4. QED
    BY <2>2, <2>3
<1>6. QED
  BY <1>4, <1>5 DEF QuantizeIsNearest, Nearest, x, e
=============================================================================
