---------------------------- MODULE GemmPrograms ----------------------------
(***************************************************************************)
(* The matrix products outside the MX library: with the SIMT threads       *)
(* (gemm_simt, sgemm_wg), with tensor cores fed by the DMA (sgemm_tcore),  *)
(* with the mesh of Virgo (sgemm_gemmini_dma) and with the weights         *)
(* streamed again for every block of rows (gemm_mxgemmini_ws_restream);    *)
(* and the softmax of the SIMT threads.                                    *)
(*                                                                         *)
(* The product of output tile t has the steps s = t * NumSteps + k; the    *)
(* operands of a step carry its number.  Accumulators in registers are     *)
(* private and not modelled.                                               *)
(***************************************************************************)
EXTENDS TileOps

CONSTANTS NumTiles, \* the output tiles of the threadblock
          NumSteps  \* the blocks of the inner dimension

Steps(Body(_)) == Loop(NumTiles * NumSteps, Body)
StepOf(s) == s % NumSteps
TileOf(s) == s \div NumSteps
FirstStep(s) == StepOf(s) = 0
LastStep(s) == StepOf(s) = NumSteps - 1
Result(t) == <<Out(t), <<"C", t>>>>

Kernel(script, layout, late) ==
  [script |-> script, layout |-> layout, lateBusy |-> late, inOrder |-> FALSE,
   alone |-> {}, banked |-> {}, output |-> {Result(t) : t \in 0 .. NumTiles - 1}]

-----------------------------------------------------------------------------
(* SIMT: every thread copies its part of the operands, all of them meet,   *)
(* every thread reads what it needs, and all of them meet again.           *)

StoreResult(t) == Simt(Warps, "row", {}, {Result(t)})

GemmSimtStep(s) ==
  <<Simt(Warps, "thread", {}, {Own("A", s), Own("B", s)}),
    Fence(Warps), Barrier(Warps, 0),
    Simt(Warps, "whole", {Own("A", s), Own("B", s)}, {}),
    Barrier(Warps, 0)>>
  \o When(LastStep(s), <<StoreResult(TileOf(s))>>)

GemmSimt == Kernel(Steps(GemmSimtStep), <<>>, FALSE)

(* threadblock_barrier of the Vortex kernels: vx_fence and vx_barrier.     *)
ThreadblockBarrier(id) == <<Fence(Warps), Barrier(Warps, id)>>

SgemmWgStep(s) ==
  <<Simt(Warps, "thread", {}, {Own("A", s), Own("B", s)})>> \o ThreadblockBarrier(0)
  \o <<Simt(Warps, "whole", {Own("A", s), Own("B", s)}, {})>> \o ThreadblockBarrier(0)
  \o When(LastStep(s), <<StoreResult(TileOf(s))>>)

SgemmWg == Kernel(Steps(SgemmWgStep), <<>>, FALSE)

-----------------------------------------------------------------------------
(* Operands in two buffers, by the parity of the step within the tile.     *)

A(k) == <<"A0", "A1">>[(k % 2) + 1]
B(k) == <<"B0", "B1">>[(k % 2) + 1]
Operands(s) == {In(A(StepOf(s)), "A", s), In(B(StepOf(s)), "B", s)}
Load(k, s) == <<MoveIn(A(k), <<"A", s>>), MoveIn(B(k), <<"B", s>>)>>

(* The hexadeciles 0 and 4 for A, 11 and 15 for B.                         *)
HexadecileLayout ==
  [A0 |-> <<0, 8192>>, A1 |-> <<32768, 40960>>, B0 |-> <<90112, 98304>>, B1 |-> <<122880, 131072>>]

(* sgemm_tcore: thread 0 starts the DMA of the next step, which the last   *)
(* step of a tile does for the first of the next tile, into the buffers    *)
(* that the tensor cores do not read now.                                  *)
NextStep(s) == IF s + 1 = NumTiles * NumSteps THEN 0 ELSE s + 1

SgemmTcoreStep(s) ==
  Load(StepOf(s) + 1, NextStep(s)) \o ThreadblockBarrier(0)
  \o <<Simt(Warps, "whole", Operands(s), {}), Drain>> \o ThreadblockBarrier(0)
  \o When(LastStep(s), <<StoreResult(TileOf(s))>>)

SgemmTcore ==
  Kernel(<<Drain>> \o Load(0, 0) \o <<Drain>> \o ThreadblockBarrier(0) \o Steps(SgemmTcoreStep),
         HexadecileLayout, FALSE)

(* sgemm_gemmini_dma: thread 0 alone; the load of a step runs under the    *)
(* product of the step before it.                                          *)
TileCompute(s) ==
  MatMul(Operands(s) \cup (IF FirstStep(s) THEN {} ELSE {In("accum", "C", s - 1)}),
         {In("accum", "C", s)})

SgemmDmaStep(s) ==
  Load(StepOf(s), s) \o <<Drain, TileCompute(s)>>
  \o When(LastStep(s), <<Drain, MoveOut({In("accum", "C", s)}, {Result(TileOf(s))})>>)

SgemmDma == Kernel(Steps(SgemmDmaStep), HexadecileLayout, FALSE)

-----------------------------------------------------------------------------
(* gemm_mxgemmini_ws_restream: a block of rows is a tile of its own, whose *)
(* operands and scales come from the memory again.                         *)

RestreamLayout ==
  [A0 |-> <<0, 4096>>, C |-> <<4096, 12288>>, A1 |-> <<32768, 36864>>,
   B1 |-> <<94208, 98304>>, B0 |-> <<126976, 131072>>]

SfA(k) == <<"sfA0", "sfA1">>[(k % 2) + 1]
SfB(k) == <<"sfB0", "sfB1">>[(k % 2) + 1]
LoadScales(k, s) ==
  <<Simt(Agent, "whole", {}, {In(SfA(k), "A", s)}), Simt(Agent, "whole", {}, {In(SfB(k), "B", s)})>>

(* The scales of the step after the last are loaded too, and not used.     *)
RestreamStep(s) ==
  When(FirstStep(s), Load(0, s) \o LoadScales(0, s) \o <<Fence(Agent), Drain>>)
  \o <<ConfigScaleMem>> \o When(~LastStep(s), Load(StepOf(s) + 1, s + 1))
  \o <<MatMul(Operands(s) \cup {In(SfA(StepOf(s)), "A", s), In(SfB(StepOf(s)), "B", s)}
                \cup (IF FirstStep(s) THEN {} ELSE {In("accum", "C", s - 1)}),
              {In("accum", "C", s)} \cup (IF LastStep(s) THEN {Own("C", TileOf(s))} ELSE {}))>>
  \o LoadScales(StepOf(s) + 1, s + 1) \o <<Fence(Agent), Drain>>
  \o When(LastStep(s),
          <<Drain, Barrier(Warps, 1),
            Simt(Warps, "row", {Own("C", TileOf(s))}, {Result(TileOf(s))}), Barrier(Warps, 2)>>)

Restream == Kernel(<<ConfigScaleMem, Drain>> \o Steps(RestreamStep), RestreamLayout, FALSE)

-----------------------------------------------------------------------------
(* softmax: one row after the other.  The cell of warp 0 at `buf' holds in *)
(* turn what each thread found, what each warp found, and what all found.  *)

Combine(ofThread, ofWarp, ofAll, t) ==
  <<Simt(Warps, "thread", {In("buf", ofThread, t)}, {In("buf", ofThread, t)}),
    Simt(Warps, "lead", {}, {In("buf", ofWarp, t)}), Fence(Warps), Barrier(Warps, 0),
    Simt(Agent, "leads", {In("buf", ofWarp, t)}, {}),
    Simt(Agent, "first", {}, {In("buf", ofAll, t)}), Fence(Warps), Barrier(Warps, 0),
    Simt(Warps, "first", {In("buf", ofAll, t)}, {})>>

SoftmaxRow(t) ==
  <<Simt(Warps, "thread", {}, {Own("x", t), In("buf", "thread max", t)}), Fence(Warps)>>
  \o Combine("thread max", "warp max", "max", t)
  \o <<Simt(Warps, "thread", {Own("x", t)}, {In("buf", "thread denom", t)}), Fence(Warps)>>
  \o Combine("thread denom", "warp denom", "inv_denom", t)
  \o <<Simt(Warps, "thread", {Own("x", t)}, {Result(t)}), Barrier(Warps, 0)>>

Softmax == Kernel(Loop(NumTiles, SoftmaxRow), <<>>, FALSE)
=============================================================================
