--------------------------- MODULE HostsfPrograms ---------------------------
(***************************************************************************)
(* The kernel fa_mx_hostsf in the builds that are complete: streaming over *)
(* key blocks, FULL_ATTN2 and FULL_ATTN3 with FA_SYNCFIX (all keys in one  *)
(* tile), and the software pipeline FA_PIPE over tiles.                    *)
(***************************************************************************)
EXTENDS FlashPrograms

CONSTANT NumTiles \* FA_PTILES

(* The queries and fp8 probabilities share the A scratchpad, the keys and  *)
(* values the B scratchpad, scores and product the place of the result;    *)
(* the output so far has the place of the bf16 probabilities.              *)
HostsfLayout ==
  [Q |-> <<0, 8192>>, P8 |-> <<0, 16384>>, C |-> <<16384, 49152>>, acc |-> <<49152, 65536>>,
   pb |-> <<49152, 81920>>, scale |-> <<81920, 83968>>, m |-> <<83968, 84480>>,
   l |-> <<84480, 84992>>, corr |-> <<84992, 85504>>, packed |-> <<85504, 86016>>,
   KV |-> <<98304, 131072>>]

-----------------------------------------------------------------------------
(* Streaming: one place for scores and product, one head.                  *)

StreamingBlock(j) ==
  LET first == j = 0
  IN PrefetchTile(<<Own("Q", 0)>>, In("KV", "K", j))
     \o ComputeTile(Own("Q", 0), <<"Q", 0>>, In("KV", "K", j), In("C", "S", j))
     \o <<Barrier(Warps, 2)>>
     \o PrefetchTile(<<>>, In("KV", "V", j))
     \o <<SoftmaxBlock("row", "C", "P8", j, first), Fence(Warps), Barrier(Warps, 3),
          PackScales(j), Fence(Warps), Barrier(Warps, 4)>>
     \o ComputeTile(In("P8", "P", j), <<"P", j>>, In("KV", "V", j), In("C", "PV", j))
     \o <<Barrier(Warps, 5), Rescale("C", j, first), Fence(Warps), Barrier(Warps, 6)>>

Streaming ==
  Attention(Loop(NumBlocks, StreamingBlock) \o <<Finalize(0, NumBlocks - 1)>>, HostsfLayout, 1)

-----------------------------------------------------------------------------
(* All keys in one tile                                                    *)

OnlineSoftmax(who, t) ==
  Simt(who, "row", {In("C", "S", t)}, {In("pb", "P", t), Own("m", t), Own("l", t), Own("corr", t)})
RequantTiled(t) ==
  Simt(Warps, "item", {In("pb", "P", t)}, {In("P8", "P", t), Own("scale", t)})
FinalizeO(who, t) ==
  Simt(who, "row", {In("C", "PV", t), Own("l", t)}, {<<Out(t), <<"O", t>>>>})

(* With FA_SYNCFIX requant and pack begin with a barrier of all threads.   *)
SyncedPasses(prefetch) ==
  PrefetchTile(<<Own("Q", 0)>>, In("KV", "K", 0))
  \o ComputeTile(Own("Q", 0), <<"Q", 0>>, In("KV", "K", 0), In("C", "S", 0))
  \o <<Fence(Warps), Barrier(Warps, 2), OnlineSoftmax(Warps, 0), Fence(Warps)>>
  \o prefetch
  \o <<Barrier(Warps, 6), RequantTiled(0), Fence(Warps),
       Barrier(Warps, 7), PackScales(0), Fence(Warps), Barrier(Warps, 3)>>

PvTile == ComputeTile(In("P8", "P", 0), <<"P", 0>>, In("KV", "V", 0), In("C", "PV", 0))

FullAttn2 ==
  Attention(
    SyncedPasses(PrefetchTile(<<>>, In("KV", "V", 0)))
    \o PvTile \o <<Fence(Warps), Barrier(Warps, 4), FinalizeO(Warps, 0)>>,
    HostsfLayout, 1)

(* The requantizer of the matrix unit makes the fp8 once more, out of what *)
(* warp 0 streams to it, and writes it over the fp8 of the threads.        *)
CopyToRequant(t) == MoveOut({In("pb", "P", t)}, {In("P8", "P", t)})

FullAttn3 ==
  Attention(
    SyncedPasses(<<>>)
    \o <<ConfigScaleMem, Drain, Fence(Warps), Barrier(Warps, 4),
         CopyToRequant(0), Fence(Warps), Drain, Fence(Warps), Barrier(Warps, 5)>>
    \o PrefetchTile(<<>>, In("KV", "V", 0))
    \o PvTile \o <<Fence(Warps), Barrier(Warps, 6), FinalizeO(Warps, 0)>>,
    HostsfLayout, 1)

-----------------------------------------------------------------------------
(* FA_PIPE: thread 0 loads and multiplies for one tile under the passes of *)
(* the warps over another.  The scales of scores and product have halves.  *)

FapCfgMvin(tiles) ==
  <<ConfigScaleMem, Drain>> \o [x \in 1 .. Len(tiles) |-> MoveIn(tiles[x][1], tiles[x][2])]
FapScales(t) == <<ScaleStores("sfA0", <<"Q", t>>), ScaleStores("sfB0", <<"K", t>>)>>
FapMmIssue(reads, name, t) == <<ConfigScaleMem, MatMul(reads, {In("C", name, t)})>>
FapBar(id) == <<Fence(Warps), Barrier(Warps, id)>>

Prepack(t) == Simt(Warps, "thread", {Own("scale", t)}, {Own("packed", t)})
CopyScales(t) == Simt(Agent, "whole", {Own("packed", t)}, {In("sfA1", "P", t)})

PipeTile(t) ==
  \* S0: operands of this tile, output of the one before
  FapCfgMvin(<<Own("Q", t), In("KV", "K", t)>>)
  \o When(t # 0, <<FinalizeO(Workers, t - 1)>>) \o FapBar(3)
  \* S1: scores
  \o <<Drain>>
  \o FapMmIssue({Own("Q", t), In("sfA0", "Q", t), In("KV", "K", t), In("sfB0", "K", t)}, "S", t)
  \o <<ScaleStores("sfB1", <<"V", t>>), Drain>> \o FapBar(4)
  \* S2: softmax, over the loads
  \o FapCfgMvin(<<In("KV", "V", t)>>) \o When(t + 1 < NumTiles, FapScales(t + 1))
  \o <<OnlineSoftmax(Workers, t)>> \o FapBar(5)
  \* S3, S4: to fp8, and the scales to the scale memory
  \o <<RequantTiled(t)>> \o FapBar(6) \o <<Prepack(t)>> \o FapBar(7) \o <<CopyScales(t)>>
  \* S5: product
  \o <<Drain>>
  \o FapMmIssue({In("P8", "P", t), In("sfA1", "P", t), In("KV", "V", t), In("sfB1", "V", t)}, "PV", t)
  \o <<Drain>> \o FapBar(8)

Pipe ==
  Attention(FapScales(0) \o FapBar(2) \o Loop(NumTiles, PipeTile) \o <<FinalizeO(Warps, NumTiles - 1)>>,
            HostsfLayout, NumTiles)
=============================================================================
