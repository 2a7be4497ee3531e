---------------------------- MODULE VirgoPrograms ----------------------------
(***************************************************************************)
(* The flash attention of Virgo and the warp-specialised product: the      *)
(* kernels whose warps form groups with parts of their own.                *)
(*                                                                         *)
(* flash_attention_virgo/kernel.cpp computes with the tensor cores, in one *)
(* group or in two that play ping-pong; kernel.gemmini.cpp, the one that   *)
(* the Makefile builds, computes with the mesh, which works two tiles      *)
(* behind the scores while the warps do the softmax of the tile between.   *)
(***************************************************************************)
EXTENDS GemmPrograms

CONSTANT NumBlocks \* the tiles of K and V

(* The buffer of group g, or of the parity g: hexadeciles that do not      *)
(* overlap.                                                                *)
Place(name, g) ==
  [Q |-> <<"Q0", "Q1">>, K |-> <<"K0", "K1">>, V |-> <<"V0", "V1">>, S |-> <<"S0", "S1">>,
   P |-> <<"P0", "P1">>, O |-> <<"O0", "O1">>][name][g + 1]

(* An operation of one warp, given to others.                              *)
By(who, op) == [op EXCEPT !.who = who]

LoadTwo(x, y) == Command("dma", {}, {x, y})

(* vx_fence and vx_barrier between the warps of a group.                   *)
GroupBarrier(group) == <<Fence(group.who), Barrier(group.who, group.id)>>
SixBarriers(group) ==
  GroupBarrier(group) \o GroupBarrier(group) \o GroupBarrier(group)
  \o GroupBarrier(group) \o GroupBarrier(group) \o GroupBarrier(group)
GlobalBarrier == <<Fence(Warps), Barrier(Warps, 7)>>

(* A warp does whole rows, its reductions in a part of the buffer of its   *)
(* own.  The barriers are there for every row, also for the warps that     *)
(* have no row left.                                                       *)
OnlineSoftmax(group, scores, result) ==
  <<Simt(group.who, "row", {scores}, {result})>> \o SixBarriers(group)
ORescale(group, old, new) ==
  <<Simt(group.who, "row", {old}, {new})>> \o GroupBarrier(group)

-----------------------------------------------------------------------------
(* kernel.cpp, with GEMMINI_DMA.  P takes the place of S.                  *)

Leader(group) == {Min(group.who)}
Of(group, name, contents, k) == <<Place(name, group.id), <<contents, k>>>>

InitSharedmem(group) == <<Simt(group.who, "row", {}, {Of(group, "O", "O", -1)})>>

Dma(group, x, y) == <<By(Leader(group), LoadTwo(x, y)), By(Leader(group), Drain)>>

MoveQK(group) ==
  <<By(Leader(group), Drain)>>
  \o Dma(group, Of(group, "Q", "Q", 0), Of(group, "K", "K", 0))
  \o <<By(Leader(group), Drain)>> \o GroupBarrier(group)

(* thread_block_gemm_single_tile: the operands into the registers, the     *)
(* product, and only behind a barrier its fragments, which are not rows,   *)
(* into the shared memory.  Two groups do it for the upper half of the     *)
(* rows and then for the lower one, which is one pass here.                *)
SingleTile(group, operands, accum, result) ==
  <<Simt(group.who, "whole", operands, {})>>
  \o When(accum # {}, <<Simt(group.who, "thread", accum, {})>>)
  \o GroupBarrier(group) \o <<Simt(group.who, "thread", {}, {result})>> \o GroupBarrier(group)

GemmQK(group, k) ==
  SingleTile(group, {Of(group, "Q", "Q", 0), Of(group, "K", "K", k)}, {}, Of(group, "S", "S", k))

SoftmaxAndMove(group, k) ==
  OnlineSoftmax(group, Of(group, "S", "S", k), Of(group, "S", "P", k)) \o GroupBarrier(group)
  \o Dma(group, Of(group, "K", "K", k + 1), Of(group, "V", "V", k)) \o GroupBarrier(group)

GemmPV(group, k) ==
  ORescale(group, Of(group, "O", "O", k - 1), Of(group, "O", "rescaled", k))
  \o GroupBarrier(group)
  \o SingleTile(group, {Of(group, "S", "P", k), Of(group, "V", "V", k)},
                {Of(group, "O", "rescaled", k)}, Of(group, "O", "O", k))

(* What a group does between two of the barriers of all groups.            *)
Stage(group, j) ==
  CASE j = 0 -> MoveQK(group) \o GemmQK(group, 0)
    [] j % 2 = 1 -> SoftmaxAndMove(group, j \div 2)
    [] OTHER -> LET k == j \div 2 - 1
                IN GemmPV(group, k) \o When(k + 1 < NumBlocks, GemmQK(group, k + 1))

VirgoKernel(script, output, inOrder) ==
  [script |-> script, layout |-> <<>>, lateBusy |-> FALSE, inOrder |-> inOrder, alone |-> {},
   banked |-> {}, output |-> output]
LastO(group) == Of(group, "O", "O", NumBlocks - 1)

(* One group: the barriers of all groups are barriers of this one.         *)
Everyone == [who |-> Warps, id |-> 0]
TensorFlash ==
  LET Round(j) == Stage(Everyone, j) \o GlobalBarrier
  IN VirgoKernel(InitSharedmem(Everyone) \o Loop(2 * NumBlocks + 1, Round),
                 {LastO(Everyone)}, FALSE)

(* Two groups: the second comes to the first barrier before it has loaded  *)
(* anything, the first one to a last barrier after its loop, so that one   *)
(* multiplies in the round in which the other does its softmax.            *)
Group0 == [who |-> Agent, id |-> 0]
Group1 == [who |-> Workers, id |-> 1]
PingPong ==
  LET Round(j) == Stage(Group0, j) \o When(j > 0, Stage(Group1, j - 1)) \o GlobalBarrier
  IN VirgoKernel(InitSharedmem(Group0) \o InitSharedmem(Group1)
                   \o Loop(2 * NumBlocks + 1, Round) \o Stage(Group1, 2 * NumBlocks),
                 {LastO(Group0), LastO(Group1)}, FALSE)

-----------------------------------------------------------------------------
(* kernel.gemmini.cpp: iteration i starts the product P * V of tile i-2,   *)
(* the scores of tile i and the move of K of tile i+1 and V of tile i-1,   *)
(* and does the softmax of tile i-1 under them.  A command is one loop of  *)
(* the matrix unit; the loops end in the order in which they began.        *)

(* virgo_fence(n) polls the number of loops that have not ended.           *)
VirgoFence(n) == [kind |-> "occupancy", who |-> Warps, left |-> n]

Consumed(name, contents, i, lag) == <<Place(name, i % 2), <<contents, i - lag>>>>
Produced(name, contents, i, lag) == <<Place(name, (i + 1) % 2), <<contents, i - lag>>>>

Kickoffs(i) ==
  When(i >= 2, <<MatMul({Consumed("P", "P", i, 2), Consumed("V", "V", i, 2)},
                        {<<"O0", <<"PV", i - 2>>>>})>>)
  \o <<MatMul({<<"Q0", <<"Q", 0>>>>, <<Place("K", i % 2), <<"K", i>>>>},
              {Produced("S", "S", i, 0)})>>
  \o When(i >= 1, <<LoadTwo(Produced("K", "K", i, -1), Produced("V", "V", i, 1))>>)

SoftmaxAndRescale(i) ==
  OnlineSoftmax(Everyone, Consumed("S", "S", i, 1), Produced("P", "P", i, 1))
  \o GroupBarrier(Everyone) \o <<VirgoFence(2)>>
  \o ORescale(Everyone, <<"O0", IF i = 1 THEN <<"zero", 0>> ELSE <<"PV", i - 2>>>>,
              <<"O0", <<"O", i - 2>>>>)
  \o GroupBarrier(Everyone)

MeshIteration(i) ==
  GlobalBarrier \o <<By(Warps, Drain)>> \o Kickoffs(i) \o GroupBarrier(Everyone)
  \o When(i >= 1, SoftmaxAndRescale(i)) \o GroupBarrier(Everyone)

(* Iteration 0 moves no K: iteration 1 finds the tile that the second of   *)
(* the move-ins before the loop has loaded.  With GEMMINI_NEW_CISC, as it  *)
(* is built, that is tile 0; in the other branch, and in the comments, it  *)
(* is tile 1.                                                              *)
MeshFlash(second) ==
  VirgoKernel(
    <<Simt(Warps, "row", {}, {<<"O0", <<"zero", 0>>>>})>> \o GlobalBarrier
    \o <<Drain, LoadTwo(<<"Q0", <<"Q", 0>>>>, <<"K0", <<"K", 0>>>>), Drain,
         LoadTwo(<<"Q1", <<"Q", 0>>>>, <<"K1", <<"K", second>>>>), Drain, Drain>>
    \o GlobalBarrier \o Loop(NumBlocks + 2, MeshIteration),
    {<<"O0", <<"O", NumBlocks - 1>>>>}, TRUE)

-----------------------------------------------------------------------------
(* sgemm_tcore/kernel.warpspecial.cpp: a warp loads the operands of the    *)
(* step after the one that the other warps multiply.                       *)

Produce(s) == Simt(Agent, "whole", {}, Operands(s))
Consume(s) == Simt(Workers, "whole", Operands(s), {})

WarpspecialStep(s) ==
  When(FirstStep(s), <<Produce(s)>> \o ThreadblockBarrier(0))
  \o When(~LastStep(s), <<Produce(s + 1)>>) \o <<Consume(s)>> \o ThreadblockBarrier(0)
  \o When(LastStep(s), <<Simt(Workers, "row", {}, {Result(TileOf(s))})>>)

Warpspecial ==
  VirgoKernel(Steps(WarpspecialStep), {Result(t) : t \in 0 .. NumTiles - 1}, FALSE)
=============================================================================
