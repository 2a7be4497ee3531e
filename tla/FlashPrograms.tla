--------------------------- MODULE FlashPrograms ---------------------------
(***************************************************************************)
(* The streaming flash attention kernels: the key blocks of one query      *)
(* block (of one head) pass through the scratchpad one after the other,    *)
(* with the running row maximum, denominator and output between them.      *)
(***************************************************************************)
EXTENDS TileOps

CONSTANTS NumHeads, \* FA_NQ
          NumBlocks \* FA_NBLK_USED, the key blocks of a head

(***************************************************************************)
(* flash_attention_mx_gqa and flash_attention_mx_gemma.  Tags are numbered *)
(* by the block t = h * NumBlocks + j of head h.                           *)
(***************************************************************************)
ScaleStores(place, tag) == Simt(Agent, "whole", {}, {<<place, tag>>})

(* mxgemm_prefetch_tile: configure (it ends with a fence), the move-ins    *)
(* and the scales; the move-ins stay in flight.                            *)
PrefetchTile(a, b) ==
  <<ConfigScaleMem, Drain>> \o [x \in 1 .. Len(a) |-> MoveIn(a[x][1], a[x][2])]
  \o <<MoveIn(b[1], b[2])>>
  \o [x \in 1 .. Len(a) |-> ScaleStores("sfA", a[x][2])]
  \o <<ScaleStores("sfB", b[2]), Fence(Agent)>>

(* mxgemm_compute_tile: wait for the operands, multiply, wait.             *)
ComputeTile(a, scales, b, c) ==
  <<Drain, ConfigScaleMem, MatMul({a, <<"sfA", scales>>, b, <<"sfB", b[2]>>}, {c}), Drain>>

(* The passes over a block: its scores become fp8 probabilities, scales    *)
(* and the running state; the output so far is rescaled and the product of *)
(* the block added; the output is divided and written out.  In the softmax *)
(* of gqa a thread has a row (fused_softmax_requant_tpr), in that of gemma *)
(* a warp has.                                                             *)
Running(place, t, first) == IF first THEN {} ELSE {<<place, <<place, t - 1>>>>}

SoftmaxBlock(split, s, p, t, first) ==
  Simt(Warps, split, {<<s, <<"S", t>>>>} \cup Running("m", t, first) \cup Running("l", t, first),
       {<<p, <<"P", t>>>>, <<"scale", <<"scale", t>>>>}
         \cup {<<x, <<x, t>>>> : x \in {"m", "l", "corr"}})

PackScales(t) ==
  Simt(Agent, "whole", {<<"scale", <<"scale", t>>>>}, {<<"sfA", <<"P", t>>>>})

Rescale(pv, t, first) ==
  Simt(Warps, "row", {<<pv, <<"PV", t>>>>, <<"corr", <<"corr", t>>>>} \cup Running("acc", t, first),
       {<<"acc", <<"acc", t>>>>})

Finalize(h, t) ==
  Simt(Warps, "row", {<<"acc", <<"acc", t>>>>, <<"l", <<"l", t>>>>}, {<<Out(h), <<"O", h>>>>})

S(t) == <<"S0", "S1">>[(t % 2) + 1]
P(t) == <<"P0", "P1">>[(t % 2) + 1]

QkBlock(h, j) ==
  LET t == h * NumBlocks + j
  IN PrefetchTile(<<<<"Q", <<"Q", h>>>>>>, <<"KV", <<"K", t>>>>)
     \o ComputeTile(<<"Q", <<"Q", h>>>>, <<"Q", h>>, <<"KV", <<"K", t>>>>, <<S(j), <<"S", t>>>>)

GqaBlock(split, h, j) ==
  LET t == h * NumBlocks + j
      first == j = 0
      p == <<P(j), <<"P", t>>>>
  IN When(j + 1 < NumBlocks, QkBlock(h, j + 1))
     \o <<Barrier(Warps, 1), SoftmaxBlock(split, S(j), P(j), t, first), Fence(Warps), Barrier(Warps, 2),
          PackScales(t), Fence(Agent), Barrier(Warps, 3)>>
     \o PrefetchTile(<<>>, <<"KV", <<"V", t>>>>)
     \o ComputeTile(p, <<"P", t>>, <<"KV", <<"V", t>>>>, <<"PV", <<"PV", t>>>>)
     \o <<Barrier(Warps, 4), Rescale("PV", t, first), Fence(Warps), Barrier(Warps, 5)>>

GqaHead(split, h) ==
  QkBlock(h, 0) \o <<Barrier(Warps, 1)>>
  \o Loop(NumBlocks, LAMBDA j : GqaBlock(split, h, j))
  \o <<Finalize(h, h * NumBlocks + NumBlocks - 1), Barrier(Warps, 6)>>

Attention(script, layout, outputs) ==
  [script |-> script, layout |-> layout, lateBusy |-> FALSE, inOrder |-> FALSE, alone |-> {}, banked |-> {},
   output |-> {<<Out(h), <<"O", h>>>> : h \in 0 .. outputs - 1}]

(* Bytes of the scratchpad, for 64 rows, blocks of 64 keys, heads of 128   *)
(* and of 256.                                                             *)
GqaLayout ==
  [Q |-> <<0, 8192>>, S0 |-> <<16384, 24576>>, P0 |-> <<40960, 45056>>,
   acc |-> <<45056, 61440>>, S1 |-> <<65536, 73728>>, P1 |-> <<73728, 77824>>,
   scale |-> <<81920, 82432>>, m |-> <<83968, 84096>>, l |-> <<84480, 84608>>,
   corr |-> <<84992, 85120>>, PV |-> <<106496, 122880>>, KV |-> <<122880, 131072>>]

GemmaLayout ==
  [Q |-> <<0, 16384>>, PV |-> <<16384, 49152>>, S0 |-> <<49152, 57344>>,
   P0 |-> <<57344, 61440>>, scale |-> <<61440, 61952>>, m |-> <<62464, 62592>>,
   l |-> <<62976, 63104>>, corr |-> <<63488, 63616>>, acc |-> <<65536, 98304>>,
   S1 |-> <<98304, 106496>>, P1 |-> <<106496, 110592>>, KV |-> <<114688, 131072>>]

Gqa ==
  Attention(Loop(NumHeads, LAMBDA h : GqaHead("thread", h)), GqaLayout, NumHeads)
Gemma ==
  Attention(Loop(NumHeads, LAMBDA h : GqaHead("row", h)), GemmaLayout, NumHeads)
=============================================================================
