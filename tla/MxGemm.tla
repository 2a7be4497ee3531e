------------------------------- MODULE MxGemm -------------------------------
(***************************************************************************)
(* The software-pipelined K loop of the MX GEMM library                    *)
(* (src/lib/mxgemm/mxgemm_lib.hpp, mxgemm and mxgemm_single_output_tile).  *)
(* One thread drives Gemmini: it queues a DMA move-in of tile k + 1 and    *)
(* the matmul of tile k, stores the scale factors of tile k + 1 meanwhile, *)
(* and waits for the fence of the scratchpad and for Gemmini to be idle.   *)
(* Operands and scales are double buffered by the parity of k.  After the  *)
(* last tile every warp of the block copies its share of C to memory.      *)
(*                                                                         *)
(* Commands are executed in the order in which they are queued, but the    *)
(* DMA and the mesh work at the same time; stores of the warps and of the  *)
(* mesh into shared memory land some time after they were issued.  A tile  *)
(* is known by its number; a product is the sequence of tiles added up.    *)
(***************************************************************************)
EXTENDS Integers, Sequences

CONSTANTS NumTiles,   \* dim_k / TILE_K
          NumWarps,   \* warps_per_threadblock
          FenceC      \* TRUE: mu_fence_smem() precedes the move-out

ASSUME SizeAssumption == NumTiles \in Nat \ {0} /\ NumWarps \in Nat \ {0}
ASSUME FenceAssumption == FenceC \in BOOLEAN

Warps == 0 .. NumWarps - 1
Tiles == 0 .. NumTiles \* the scales of one tile too many are loaded
Nothing == -1          \* an idle engine, a buffer without a whole tile
Operands == {"A", "B"}

VARIABLES
  accToGmem, \* C.ACC_TO_GMEM: a behaviour is the run of one GemmConfig
  pc,      \* where each warp is; thread 0 of warp 0 drives Gemmini
  k,       \* tile_k
  queue,   \* commands that Gemmini has not begun
  dma,     \* the tile that is being moved in
  mesh,    \* the tile that is being multiplied
  spad,    \* spad[p]: the tile in the operand buffers of parity p
  scale,   \* scale[x][p]: the tile whose scales are in half p
  toggle,  \* the half of the scale memory that the mesh reads
  posted,  \* stores of scales that have not landed
  acc,     \* the product in the accumulator
  stored,  \* the product on its way from the mesh to the scratchpad
  result,  \* the product at SPAD_DEST, or at C_gmem under ACC_TO_GMEM
  out      \* what each warp has copied

vars == <<accToGmem, pc, k, queue, dma, mesh, spad, scale, toggle, posted, acc, stored,
          result, out>>
engine == <<queue, dma, mesh, spad, toggle, acc, stored, result>>

Setup == {"start", "scaleA0", "scaleB0"}
Loop == {"fenceScales", "fenceGemmini", "config", "mvin", "compute", "scaleA", "scaleB"}
Stages == Setup \cup Loop \cup
          {"end", "barrier1", "fenceC", "mvout", "drain", "barrier2", "copy", "done"}
Command == [op : {"config", "mvin", "compute", "mvout"}, arg : Tiles]
None == <<Nothing>>
Products == {None} \cup UNION {[1 .. n -> Tiles \cup {Nothing}] : n \in 0 .. NumTiles}
Whole == [i \in 1 .. NumTiles |-> i - 1] \* every tile once, in order

TypeOK ==
  /\ accToGmem \in BOOLEAN
  /\ pc \in [Warps -> Stages]
  /\ k \in 0 .. NumTiles
  /\ queue \in Seq(Command)
  /\ dma \in Tiles \cup {Nothing}
  /\ mesh \in Tiles \cup {Nothing}
  /\ spad \in [0 .. 1 -> Tiles \cup {Nothing}]
  /\ scale \in [Operands -> [0 .. 1 -> Tiles \cup {Nothing}]]
  /\ toggle \in 0 .. 1
  /\ posted \subseteq (Operands \X Tiles)
  /\ acc \in Products /\ stored \in Products /\ result \in Products
  /\ out \in [Warps -> Products]

Init ==
  /\ accToGmem \in BOOLEAN
  /\ pc = [w \in Warps |-> IF w = 0 THEN "start" ELSE "barrier1"]
  /\ k = 0
  /\ queue = <<>>
  /\ dma = Nothing /\ mesh = Nothing
  /\ spad = [p \in 0 .. 1 |-> Nothing]
  /\ scale = [x \in Operands |-> [p \in 0 .. 1 |-> Nothing]]
  /\ toggle = 0
  /\ posted = {}
  /\ acc = None /\ stored = None /\ result = None
  /\ out = [w \in Warps |-> None]

(* Mutant: one buffer for all tiles.                                       *)
HalfSingle(tile) == 0

(* Mutant: the product is stored one tile early.                           *)
LastTileEarly(tile) == tile + 2 >= NumTiles

(* calculate_spad_addr, calculate_scale_factor_smem_addr: odd_k.           *)
Half(tile) == tile % 2
LastTile(tile) == tile + 1 >= NumTiles

-----------------------------------------------------------------------------
(* Gemmini and the shared memory, as mxgemm_lib.hpp uses them              *)

Pending == queue # <<>> \/ dma # Nothing \/ mesh # Nothing \* GEMMINI_BUSY

Begin(op) == queue # <<>> /\ Head(queue).op = op /\ queue' = Tail(queue)

(* gemmini_mxquant_config_mvout: the double-buffer toggles.                *)
BeginConfig ==
  /\ Begin("config")
  /\ toggle' = Head(queue).arg
  /\ UNCHANGED <<pc, k, dma, mesh, spad, scale, posted, acc, stored, result, out>>

BeginMoveIn ==
  /\ dma = Nothing /\ Begin("mvin")
  /\ dma' = Head(queue).arg
  /\ spad' = [spad EXCEPT ![Half(Head(queue).arg)] = Nothing]
  /\ UNCHANGED <<pc, k, mesh, scale, toggle, posted, acc, stored, result, out>>

EndMoveIn ==
  /\ dma # Nothing
  /\ spad' = [spad EXCEPT ![Half(dma)] = dma]
  /\ dma' = Nothing
  /\ UNCHANGED <<pc, k, queue, mesh, scale, toggle, posted, acc, stored, result, out>>

BeginCompute ==
  /\ mesh = Nothing /\ Begin("compute")
  /\ mesh' = Head(queue).arg
  /\ UNCHANGED <<pc, k, dma, spad, scale, toggle, posted, acc, stored, result, out>>

InPlace(tile) ==
  spad[Half(tile)] = tile /\ \A x \in Operands : scale[x][toggle] = tile

(* ex_accumulate = !first_k; skip_stc unless it is the last tile.          *)
EndCompute ==
  LET term == IF InPlace(mesh) THEN mesh ELSE Nothing
      sum == IF mesh = 0 THEN <<term>> ELSE Append(acc, term)
  IN /\ mesh # Nothing
     /\ mesh' = Nothing
     /\ acc' = sum
     /\ stored' = IF LastTile(mesh) /\ ~accToGmem THEN sum ELSE stored
     /\ UNCHANGED <<pc, k, queue, dma, spad, scale, toggle, posted, result, out>>

(* A product stored by the mesh becomes visible to the warps.              *)
LandProduct ==
  /\ stored # None
  /\ result' = stored
  /\ stored' = None
  /\ UNCHANGED <<pc, k, queue, dma, mesh, spad, scale, toggle, posted, acc, out>>

(* gemmini_mvout of the accumulator.                                       *)
MoveOut ==
  /\ mesh = Nothing /\ Begin("mvout")
  /\ result' = acc
  /\ UNCHANGED <<pc, k, dma, mesh, spad, scale, toggle, posted, acc, stored, out>>

LandScale ==
  \E s \in posted :
    /\ scale' = [scale EXCEPT ![s[1]][Half(s[2])] = s[2]]
    /\ posted' = posted \ {s}
    /\ UNCHANGED <<pc, k, out, engine>>

Gemmini ==
  /\ BeginConfig \/ BeginMoveIn \/ EndMoveIn \/ BeginCompute \/ EndCompute \/ MoveOut
  /\ UNCHANGED accToGmem

Memory == (LandProduct \/ LandScale) /\ UNCHANGED accToGmem

-----------------------------------------------------------------------------
(* mxgemm_single_output_tile, in thread 0                                  *)

Goto(w, stage) == pc' = [pc EXCEPT ![w] = stage]
Issue(op, arg) == queue' = Append(queue, [op |-> op, arg |-> arg])

(* A step of thread 0 that only queues a command.                          *)
Drive(stage, next, op, arg) ==
  /\ pc[0] = stage
  /\ Issue(op, arg)
  /\ Goto(0, next)
  /\ UNCHANGED <<k, dma, mesh, spad, scale, toggle, posted, acc, stored, result, out>>

(* configure_mxgemmini leaves Gemmini idle; then the first move-in.        *)
Start == Drive("start", "scaleA0", "mvin", 0)

(* load_scale_factors (and load_lut, which is stored once and not kept).   *)
LoadScales(stage, next, x, tile) ==
  /\ pc[0] = stage
  /\ posted' = posted \cup {<<x, tile>>}
  /\ Goto(0, next)
  /\ UNCHANGED <<k, scale, out, engine>>

FirstScales ==
  \/ LoadScales("scaleA0", "scaleB0", "A", 0)
  \/ LoadScales("scaleB0", "fenceScales", "B", 0)

(* Mutant: no mu_fence_smem() before the next matmul.                      *)
FenceScalesSkipped ==
  /\ pc[0] = "fenceScales"
  /\ Goto(0, "fenceGemmini")
  /\ UNCHANGED <<k, scale, posted, out, engine>>

(* mu_fence_smem().                                                        *)
FenceScales ==
  /\ pc[0] = "fenceScales"
  /\ posted = {}
  /\ Goto(0, "fenceGemmini")
  /\ UNCHANGED <<k, scale, posted, out, engine>>

(* Mutant: the fence waits for BUSY instead of for its end.                *)
FenceGemminiInverted ==
  /\ pc[0] = "fenceGemmini"
  /\ Pending
  /\ Goto(0, IF k < NumTiles THEN "config" ELSE "end")
  /\ UNCHANGED <<k, scale, posted, out, engine>>

(* gemmini_fence(), before the loop and at the end of each round.          *)
FenceGemmini ==
  /\ pc[0] = "fenceGemmini"
  /\ ~Pending
  /\ Goto(0, IF k < NumTiles THEN "config" ELSE "end")
  /\ UNCHANGED <<k, scale, posted, out, engine>>

Config == Drive("config", IF LastTile(k) THEN "compute" ELSE "mvin", "config", Half(k))
MoveIn == Drive("mvin", "compute", "mvin", k + 1)
Compute == Drive("compute", "scaleA", "compute", k)

(* Mutant: the loop makes one round too many.                              *)
NextScalesTwice ==
  \/ LoadScales("scaleA", "scaleB", "A", k + 1)
  \/ /\ pc[0] = "scaleB"
     /\ posted' = posted \cup {<<"B", k + 2>>}
     /\ k' = k + 2
     /\ Goto(0, "fenceScales")
     /\ UNCHANGED <<scale, out, engine>>

(* The scales of tile k + 1 are loaded after the last tile, too.           *)
NextScales ==
  \/ LoadScales("scaleA", "scaleB", "A", k + 1)
  \/ /\ pc[0] = "scaleB"
     /\ posted' = posted \cup {<<"B", k + 1>>}
     /\ k' = k + 1
     /\ Goto(0, "fenceScales")
     /\ UNCHANGED <<scale, out, engine>>

EndLoop ==
  /\ pc[0] = "end"
  /\ ~Pending
  /\ Goto(0, "barrier1")
  /\ UNCHANGED <<k, scale, posted, out, engine>>

-----------------------------------------------------------------------------
(* The rest of mxgemm, in every warp                                       *)

(* Mutant: the warps that do not drive Gemmini run on.                     *)
LeaveBarrier1Early(w) ==
  /\ pc[w] = "barrier1"
  /\ Goto(w, "fenceC")
  /\ UNCHANGED <<k, scale, posted, out, engine>>

(* mu_barrier(1, warps_per_threadblock).                                   *)
LeaveBarrier1(w) ==
  /\ pc[w] = "barrier1"
  /\ \A v \in Warps : pc[v] \notin Setup \cup Loop \cup {"end"}
  /\ Goto(w, "fenceC")
  /\ UNCHANGED <<k, scale, posted, out, engine>>

MoveOutStage(w) == IF accToGmem THEN IF w = 0 THEN "mvout" ELSE "barrier2" ELSE "copy"

Visible(w) ==
  /\ pc[w] = "fenceC"
  /\ FenceC => stored = None
  /\ Goto(w, MoveOutStage(w))
  /\ UNCHANGED <<k, scale, posted, out, engine>>

(* copy_accmem_to_gmem_dma_sync, which ends in a gemmini_fence.            *)
IssueMoveOut == Drive("mvout", "drain", "mvout", 0)

Drain ==
  /\ pc[0] = "drain"
  /\ ~Pending
  /\ Goto(0, "barrier2")
  /\ UNCHANGED <<k, scale, posted, out, engine>>

(* Mutant: no barrier between the DMA's move-out and the warps.            *)
LeaveBarrier2Early(w) ==
  /\ pc[w] = "barrier2"
  /\ Goto(w, "copy")
  /\ UNCHANGED <<k, scale, posted, out, engine>>

(* mu_barrier(2, warps_per_threadblock).                                   *)
LeaveBarrier2(w) ==
  /\ pc[w] = "barrier2"
  /\ \A v \in Warps : pc[v] \in {"barrier2", "copy", "done"}
  /\ Goto(w, "copy")
  /\ UNCHANGED <<k, scale, posted, out, engine>>

(* copy_smem_to_gmem_simt, or copy_gmem_to_gmem_simt of C_gmem.            *)
Copy(w) ==
  /\ pc[w] = "copy"
  /\ out' = [out EXCEPT ![w] = result]
  /\ Goto(w, "done")
  /\ UNCHANGED <<k, scale, posted, engine>>

Thread0 ==
  /\ \/ Start \/ FirstScales \/ FenceScales \/ FenceGemmini
     \/ Config \/ MoveIn \/ Compute \/ NextScales \/ EndLoop
     \/ IssueMoveOut \/ Drain
  /\ UNCHANGED accToGmem

Warp(w) ==
  /\ LeaveBarrier1(w) \/ Visible(w) \/ LeaveBarrier2(w) \/ Copy(w)
  /\ UNCHANGED accToGmem

AllDone == \A w \in Warps : pc[w] = "done"
Ended == AllDone /\ posted = {} /\ stored = None /\ UNCHANGED vars

Next == Gemmini \/ Memory \/ Thread0 \/ (\E w \in Warps : Warp(w)) \/ Ended

Spec == Init /\ [][Next]_vars

(* Engines and memory make progress, and every warp is issued.             *)
FairSpec ==
  /\ Spec
  /\ WF_vars(Gemmini) /\ WF_vars(Memory) /\ WF_vars(Thread0)
  /\ \A w \in Warps : WF_vars(Warp(w))

-----------------------------------------------------------------------------
(* While the mesh multiplies tile k its operands and both its scale halves *)
(* hold tile k, whole, although the move-in and the scales of tile k + 1   *)
(* are under way (mxgemm_lib.hpp:736-781).                                 *)
MeshReadsItsTile == mesh # Nothing => InPlace(mesh)

(* What a warp copies out is the whole product: each tile added once, in   *)
(* order, and stored where and when the warp reads it                      *)
(* (mxgemm_lib.hpp:811-834).                                               *)
MoveOutSeesC == \A w \in Warps : out[w] # None \/ pc[w] = "done" => out[w] = Whole

(* The guards of the steps of Gemmini and the memory, of thread 0 and of   *)
(* the rest of warp w.                                                     *)
HardwareMayStep ==
  \/ queue # <<>> /\ Head(queue).op = "config"
  \/ queue # <<>> /\ Head(queue).op = "mvin" /\ dma = Nothing
  \/ queue # <<>> /\ Head(queue).op \in {"compute", "mvout"} /\ mesh = Nothing
  \/ dma # Nothing \/ mesh # Nothing \/ stored # None \/ posted # {}

Thread0MayStep ==
  \/ pc[0] \in Setup \cup {"config", "mvin", "compute", "scaleA", "scaleB", "mvout"}
  \/ pc[0] = "fenceScales" /\ posted = {}
  \/ pc[0] \in {"fenceGemmini", "end", "drain"} /\ ~Pending

WarpMayStep(w) ==
  \/ pc[w] = "barrier1" /\ \A v \in Warps : pc[v] \notin Setup \cup Loop \cup {"end"}
  \/ pc[w] = "fenceC" /\ (FenceC => stored = None)
  \/ pc[w] = "barrier2" /\ \A v \in Warps : pc[v] \in {"barrier2", "copy", "done"}
  \/ pc[w] = "copy"

(* mxgemm is never stuck: as long as a warp has not got to its end, a warp *)
(* can go on, or there is a command or a store to wait for                 *)
(* (mxgemm_lib.hpp:696-834).                                               *)
NeverStuck ==
  \/ AllDone /\ stored = None /\ posted = {}
  \/ HardwareMayStep \/ Thread0MayStep \/ \E w \in Warps : WarpMayStep(w)

(* How far a warp has come; in the loop it is k that counts.               *)
Along(stage) ==
  CASE stage = "start"        -> 0
    [] stage = "scaleA0"      -> 1
    [] stage = "scaleB0"      -> 2
    [] stage = "fenceScales"  -> 3
    [] stage = "fenceGemmini" -> 4
    [] stage = "config"       -> 5
    [] stage = "mvin"         -> 6
    [] stage = "compute"      -> 7
    [] stage = "scaleA"       -> 8
    [] stage = "scaleB"       -> 9
    [] stage = "end"          -> 10
    [] stage = "barrier1"     -> 11
    [] stage = "fenceC"       -> 12
    [] stage = "mvout"        -> 13
    [] stage = "drain"        -> 14
    [] stage = "barrier2"     -> 15
    [] stage = "copy"         -> 16
    [] stage = "done"         -> 17

(* One warp goes on, by a tile or within its round.                        *)
AWarpGoesOn ==
  \E w \in Warps :
    /\ \A v \in Warps \ {w} : pc'[v] = pc[v]
    /\ \/ k' = k /\ Along(pc[w]) < Along(pc'[w])
       \/ k' = k + 1 /\ w = 0

(* What the queue, the engines and the stores of the mesh still have to    *)
(* do, counted in steps.                                                   *)
Outstanding ==
  3 * Len(queue) + (IF dma # Nothing THEN 1 ELSE 0)
                 + (IF mesh # Nothing THEN 2 ELSE 0)
                 + (IF stored # None THEN 1 ELSE 0)

HardwareGetsDone ==
  /\ UNCHANGED <<pc, k>>
  /\ \/ Outstanding' < Outstanding
     \/ Outstanding' = Outstanding /\ posted' \subseteq posted /\ posted' # posted

(* A warp goes on, or the warps stay where they are and less is            *)
(* outstanding: mxgemm makes a bounded number of steps                     *)
(* (mxgemm_lib.hpp:696-834).                                               *)
EveryStepCounts == [][AWarpGoesOn \/ HardwareGetsDone]_vars

(* Every warp gets to the end of mxgemm.                                   *)
Completes == <>AllDone

=============================================================================
