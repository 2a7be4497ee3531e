---------------------------- MODULE StablePasses ----------------------------
(***************************************************************************)
(* The passes of fa_stable_fpga over a tile of 64 queries and its primitive*)
(* commands.  The harness gives every tile the same operands and rows of   *)
(* the result; the model numbers them, so that a stale tile shows.         *)
(***************************************************************************)
EXTENDS TileOps

-----------------------------------------------------------------------------
(* Scores in place c become probabilities in c, with the row maximum, the  *)
(* denominator l and, where the build has it, the scale of every block.    *)

(* The lanes of a warp reduce a row through a buffer of the warp in the    *)
(* scratchpad: REDBUF, or pb under FA_SM_2P, and bb for maxima of blocks.  *)
Reduction(buffer, t) == In(buffer, "partials", t)

OnlineSoftmax(who, c, m, l, t) ==
  Simt(who, "row", {In(c, "S", t)},
       {In(c, "P", t), In(m, "m", t), In(l, "l", t), Own("corr", t),
        Reduction("redbuf", t), Reduction("pb", t)})

SoftmaxCoop(who, t, scales) ==
  Simt(who, "row", {In("C", "S", t)},
       {In("C", "P", t), Own("m", t), Own("l", t), Reduction("redbuf", t)}
         \cup (IF scales THEN {Own("scale", t), Reduction("bb", t)} ELSE {}))

SoftmaxTpr(who, t, scales) ==
  Simt(who, "thread", {In("C", "S", t)},
       {In("C", "P", t), Own("m", t), Own("l", t)} \cup (IF scales THEN {Own("scale", t)} ELSE {}))

RowMax(who, t) ==
  Simt(who, "row", {In("C", "S", t)}, {Own("m", t), Reduction("redbuf", t)})
RowMaxBatch(who, t) ==
  Simt(who, "thread", {In("C", "S", t)}, {Own("m", t), Reduction("redbuf", t)})

ExpItem(who, t) ==
  Simt(who, "item", {In("C", "S", t), Own("m", t)},
       {In("C", "P", t), Own("scale", t), Own("lpart", t)})

RowSum(who, parts, t) ==
  Simt(who, "thread", {In(p, "lpart", t) : p \in parts}, {Own("l", t)})

SoftmaxItem(who, t) ==
  <<RowMax(who, t), Fence(who), Barrier(who, 12), ExpItem(who, t), Fence(who), Barrier(who, 13),
    RowSum(who, {"lpart"}, t)>>

(* One half of the blocks of every row, to fp8 at once.                    *)
ExpReq(who, p8, scale, lpart, t) ==
  Simt(who, "item", {In("C", "S", t), Own("m", t)},
       {In(p8, "P8", t), In(scale, "scale", t), In(lpart, "lpart", t)})

-----------------------------------------------------------------------------
(* Probabilities in c become fp8 in p8, with a scale per block; the scales *)
(* go to the scale memory of the A operand.                                *)

RequantMax(who, c, t) == Simt(who, "item", {In(c, "P", t)}, {Own("scale", t)})
RequantCvt(who, c, p8, t) == Simt(who, "item", {In(c, "P", t), Own("scale", t)}, {In(p8, "P8", t)})
RequantTiled(who, t) == Simt(who, "item", {In("C", "P", t)}, {In("P8", "P8", t), Own("scale", t)})

PackScales(who, scale, sf, t) == Simt(who, "whole", {In(scale, "scale", t)}, {In(sf, "P8", t)})
Prepack(t) == Simt(Warps, "thread", {Own("scale", t)}, {Own("packed", t)})
CopyScales(t) == Simt(Agent, "whole", {Own("packed", t)}, {In("sfA0", "P8", t)})

-----------------------------------------------------------------------------
(* The output of tile t, in place o, is divided by l and written out.      *)

Result(t) == <<Out(t), <<"O", t>>>>
FinalizeO(who, o, l, t) == Simt(who, "row", {In(o, "PV", t), In(l, "l", t)}, {Result(t)})
InvL(who, t) == Simt(who, "thread", {Own("l", t)}, {In("packed", "invl", t)})
FinalizeFlat(who, t) == Simt(who, "item", {In("O", "PV", t), In("packed", "invl", t)}, {Result(t)})
FinalizeInvL(who, t) ==
  <<InvL(who, t), Fence(who), Barrier(who, 10), FinalizeFlat(who, t)>>

-----------------------------------------------------------------------------
(* Commands and the stores of thread 0                                     *)

(* Mutant: the warps meet without waiting for their stores.                *)
FapBarUnfenced(id) == <<Barrier(Warps, id)>>
FapBar(id) == <<Fence(Warps), Barrier(Warps, id)>>

Cfg(b) == When("LEANCFG" \notin b, <<ConfigScaleMem, Drain>>)
MoveInQ(t) == MoveIn("Q", <<"Q", t>>)
Scl(who, place, name, t) == Simt(who, "whole", {}, {In(place, name, t)})
SclQ(t) == Scl(Agent, "sfA1", "Q", t)
Gf == <<Drain>>
GflByBusy == Gf \* Mutant: BUSY is polled alone, before the loop has set it
Gfl == <<DrainLoops, Drain>>

QkOperands(t) ==
  {Own("Q", t), In("sfA1", "Q", t), Own("K", 0), In("sfB0", "K", 0)}
PvOperands(p8s, sfs, t) ==
  {In(p, "P8", t) : p \in p8s \cup sfs} \cup {Own("V", 0), In("sfB1", "V", 0)}

Mm(operands, result) == <<ConfigScaleMem, MatMul(operands, {result})>>
MmAcc(operands, name, t) == Mm(operands, In("acc", name, t))
StoreAcc(name, place, t) == <<MoveOut({In("acc", name, t)}, {In(place, name, t)})>>
DrainToSpad(name, place, t) == Gfl \o StoreAcc(name, place, t) \o Gfl
=============================================================================
