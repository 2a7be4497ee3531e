--------------------------- MODULE StableShifted ---------------------------
(***************************************************************************)
(* The two bodies of fa_stable_fpga whose loop is shifted by one tile, so  *)
(* that the products of one tile run under the passes of the next, and the *)
(* choice between the bodies.                                              *)
(***************************************************************************)
EXTENDS StablePrograms

(* The buffers that a tile of odd and of even number have for themselves.  *)
C(t) == <<"C0", "C1">>[(t % 2) + 1]
P8(t) == <<"P80", "P81">>[(t % 2) + 1]
OOverP8(t) == P8(t) \* Mutant: the result takes the place of the P8 it was made from
O(t) == <<"O0", "O1">>[(t % 2) + 1]
LSingle(t) == "l0" \* Mutant: one denominator for both tiles
L(t) == <<"l0", "l1">>[(t % 2) + 1]
M(t) == <<"m0", "m1">>[(t % 2) + 1]

-----------------------------------------------------------------------------
(* OPV: the loop is shifted by one tile, so that the product of tile t - 1 *)
(* runs under the softmax of tile t; its result is moved out on top of the *)
(* P8 that it has consumed.  l has a buffer for each parity.               *)

Tile(t) == t \in 0 .. NumTiles - 1

OpvStart(b) == FirstScores(b) \o DrainToSpad("S", "C", 0) \o FapBar(2)

NextScores(b, t) == Gf \o Cfg(b) \o MmAcc(QkOperands(t + 1), "S", t + 1)

OpvA(b, t) ==
  When(Tile(t - 1), Cfg(b) \o MmAcc(PvOperands({"P8"}, {"sfA0"}, t - 1), "PV", t - 1))
  \o When("OPVQ" \notin b, LoadQ(t + 1))
  \o When(Tile(t), <<OnlineSoftmax(IF "OPVQ" \in b THEN Warps ELSE Workers,
                                   "C", "m", L(t), t)>>)
  \o FapBar(3)

OpvB(t) == When(Tile(t - 1), DrainToSpad("PV", "P8", t - 1)) \o FapBar(4)

OpvC1(b, t) ==
  When("OPVQ" \notin b /\ Tile(t + 1), NextScores(b, t))
  \o When(Tile(t), <<RequantMax(IF "OPVQ" \in b THEN Warps ELSE Workers, "C", t)>>)
  \o FapBar(5)

OpvC2(b, t) ==
  When("HSF" \in b /\ Tile(t), <<Post(Agent, "PACKREQ", t + 1)>>)
  \o When("OPVQ" \in b /\ Tile(t + 1),
          <<MoveInQ(t + 1)>> \o Gf \o When("HSF" \notin b, <<SclQ(t + 1)>>))
  \o When(Tile(t - 1), <<FinalizeO(IF "HSF" \in b THEN Warps ELSE Workers,
                                   "P8", L(t - 1), t - 1)>>)
  \o FapBar(6)

OpvD(b, t) ==
  When("HSF" \in b /\ Tile(t), HostPacks(t) \o <<Await(Agent, "PACKED", t + 1)>>)
  \o When("OPVQ" \in b /\ Tile(t + 1), NextScores(b, t))
  \o When("HSF" \notin b /\ Tile(t), <<PackScales(Agent, "scale", "sfA0", t)>>)
  \o When(Tile(t), <<RequantCvt(IF "HSF" \in b THEN Warps ELSE Workers, "C", "P8", t)>>)
  \o FapBar(7)

OpvE(t) == When(Tile(t + 1), DrainToSpad("S", "C", t + 1)) \o FapBar(8)

OpvTile(b, t) ==
  OpvA(b, t) \o OpvB(t) \o OpvC1(b, t) \o OpvC2(b, t) \o OpvD(b, t) \o OpvE(t)

-----------------------------------------------------------------------------
(* SQ32: tiles of half the rows, with two buffers for scores and for P8.   *)

NumHalves == 2 * NumTiles
Half(t) == t \in 0 .. NumHalves - 1

LoadHalf(t) == <<MoveInQ(t)>> \o Gf \o <<SclQ(t)>>

Sq32Stages(b, t) ==
  \* S1
  When(Half(t), DrainToSpad("S", C(t), t)) \o FapBar(3)
  \* S2
  \o When(Half(t - 1), <<PackScales(Agent, "scale", "sfA0", t - 1)>>)
  \o When("SQ32_QEARLY" \in b /\ Half(t + 1), LoadHalf(t + 1))
  \o When(Half(t), <<OnlineSoftmax(Workers, C(t), M(t), L(t), t)>>)
  \o FapBar(4)
  \* S3
  \o When(Half(t - 1),
          Cfg(b) \o MmAcc(PvOperands({P8(t - 1)}, {"sfA0"}, t - 1), "PV", t - 1))
  \o When(Half(t), <<RequantMax(Workers, C(t), t)>>) \o FapBar(5)
  \* S4
  \o When(Half(t), <<RequantCvt(Warps, C(t), P8(t), t)>>) \o FapBar(6)
  \* S5
  \o When(Half(t - 1), DrainToSpad("PV", O(t - 1), t - 1)) \o FapBar(7)
  \* S6
  \o When(Half(t + 1),
          When("SQ32_QEARLY" \notin b, LoadHalf(t + 1)) \o NextScores(b, t))
  \o When(Half(t - 1), <<FinalizeO(Workers, O(t - 1), L(t - 1), t - 1)>>)
  \o FapBar(8)

-----------------------------------------------------------------------------
(* The kernel that a build makes                                           *)

StableStart(b) ==
  Prologue(b)
  \o (IF "OPV" \in b THEN OpvStart(b)
      ELSE When({"QKACC", "SQ32"} \cap b # {}, FirstScores(b)) \o FapBar(2))

(* Mutant: a shifted loop ends with the last tile in its pipeline.         *)
StableTilesUnshifted(b) ==
  CASE "SQ32" \in b -> Loop(NumHalves, LAMBDA t : Sq32Stages(b, t))
    [] "OPV" \in b -> Loop(NumTiles, LAMBDA t : OpvTile(b, t))
    [] OTHER -> Loop(NumTiles, LAMBDA t : StableTile(b, t))

StableTiles(b) ==
  CASE "SQ32" \in b -> Loop(NumHalves + 1, LAMBDA t : Sq32Stages(b, t))
    [] "OPV" \in b -> Loop(NumTiles + 1, LAMBDA t : OpvTile(b, t))
    [] OTHER -> Loop(NumTiles, LAMBDA t : StableTile(b, t))

-----------------------------------------------------------------------------
(* Bytes of the scratchpad: FA_SP_BANKA gives the scores a bank and puts   *)
(* P8 in the next one.                                                     *)

Scratch ==
  [scale |-> <<81920, 83968>>, m |-> <<83968, 84224>>, l |-> <<84480, 84736>>,
   m0 |-> <<83968, 84224>>, m1 |-> <<84224, 84480>>, l0 |-> <<84480, 84736>>,
   l1 |-> <<84736, 84992>>,
   corr |-> <<84992, 85120>>, packed |-> <<85504, 86016>>, redbuf |-> <<86016, 86784>>,
   lpart |-> <<87040, 89088>>, pb |-> <<87680, 89856>>, bb |-> <<88064, 89600>>,
   Q |-> <<90112, 98304>>, K |-> <<98304, 131072>>, V |-> <<0, 32768>>]

StableLayout(b) ==
  (CASE "SQ32" \in b ->
        [C0 |-> <<32768, 49152>>, O0 |-> <<32768, 40960>>, C1 |-> <<49152, 65536>>,
         O1 |-> <<49152, 57344>>, P80 |-> <<65536, 73728>>, P81 |-> <<73728, 81920>>]
     [] "BANKA" \in b -> [C |-> <<32768, 65536>>, O |-> <<32768, 49152>>, P8 |-> <<65536, 81920>>]
     [] OTHER -> [P8 |-> <<32768, 49152>>, C |-> <<49152, 81920>>, O |-> <<49152, 65536>>])
  @@ Scratch

(* The places whose reads count for the rule of the banks: the tiles and   *)
(* the buffers of the reductions.  m, l, scale and lpart, a word for a row *)
(* or an item, are read too seldom to matter.  OPV breaks the rule in each *)
(* of its builds, also with BANKA, where the softmax reduces in the bank   *)
(* out of which the mesh reads P8; it was given up for that, and the rule  *)
(* is not asked of it.                                                     *)
Tiles == {"Q", "K", "V", "C", "O", "P8", "C0", "C1", "O0", "O1", "P80", "P81"}
Reductions == {"redbuf", "pb", "bb"}
BankRuled(b) == IF "OPV" \in b THEN {} ELSE Tiles \cup Reductions

Stable(b) ==
  LET start == StableStart(b)
      script == start \o StableTiles(b)
  IN [script |-> script, layout |-> StableLayout(b), lateBusy |-> TRUE, inOrder |-> FALSE,
      alone |-> IF "NOOVL" \in b THEN Len(start) + 1 .. Len(script) ELSE {},
      banked |-> BankRuled(b),
      output |-> {Result(t) : t \in {u \in 0 .. NumHalves - 1 : "SQ32" \in b \/ Tile(u)}}]
=============================================================================
