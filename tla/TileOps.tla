------------------------------ MODULE TileOps ------------------------------
(***************************************************************************)
(* The operations that the kernels with scratchpad stages are written in.  *)
(* A kernel is one script in the order of its source; `who' says which of  *)
(* its warps execute an operation, and an operation of thread 0 is one of  *)
(* warp 0.  An operation names the places it reads and writes and what is  *)
(* in them: a pair <<place, tag>>, where the tag <<"S", 2>> stands for the *)
(* scores of tile 2.                                                       *)
(***************************************************************************)
EXTENDS Integers, Sequences, FiniteSets, SequencesExt

CONSTANT NumWarps \* the warps of the threadblock
ASSUME WarpsAssumption == NumWarps \in Nat \ {0}

Warps == 0 .. NumWarps - 1

Agent == {0} \* warp 0, with the thread 0 that drives the matrix unit
Workers == Warps \ Agent
Host == NumWarps \* the host, where it takes part
Actors == Warps \cup {Host}

(* A pass of the SIMT threads of `who' over a tile, divided between the    *)
(* warps by `split': "row" gives a warp every nth row, "thread" gives every*)
(* thread a row, "item" deals out the blocks of a row, "whole" gives all   *)
(* of it to each of them; and of a word for every thread, "lead" gives     *)
(* each warp the one at its number, "leads" all those to each warp, and    *)
(* "first" the first one.                                                  *)
Simt(who, split, reads, writes) ==
  [kind |-> "simt", who |-> who, split |-> split, reads |-> reads, writes |-> writes]

(* A command that thread 0 gives to the matrix unit, which executes it in  *)
(* its own time: a DMA into the scratchpad, a loop of the mesh, or the     *)
(* move of its accumulator to the scratchpad.                              *)
Command(unit, reads, writes) ==
  [kind |-> "command", who |-> Agent, unit |-> unit, reads |-> reads, writes |-> writes]
MoveIn(place, tag) == Command("dma", {}, {<<place, tag>>})
MatMul(reads, writes) == Command("mesh", reads, writes)
MoveOut(reads, writes) == Command("store", reads, writes)

(* CONFIG_SCALE_MEM sets the bounds of the sweeps over the scale memory.   *)
ConfigScaleMem == [kind |-> "config", who |-> Agent]

(* gemmini_fence polls BUSY; gemmini_fence_waitcount(0) polls the number   *)
(* of loops that have been issued and have not ended.                      *)
Drain == [kind |-> "drain", who |-> Agent]
DrainLoops == [kind |-> "drainloops", who |-> Agent]

(* mu_fence_smem, the fence of the host, mu_barrier(id, |who|), and a word *)
(* of the shared memory that only grows.                                   *)
Fence(who) == [kind |-> "fence", who |-> who]
HostFence == [kind |-> "hostfence", who |-> {Host}]
Barrier(who, id) == [kind |-> "barrier", who |-> who, id |-> id]
Post(who, flag, value) == [kind |-> "post", who |-> who, flag |-> flag, value |-> value]
Await(who, flag, value) == [kind |-> "await", who |-> who, flag |-> flag, value |-> value]

(* The scale memory is the matrix unit's: stores to it go to its port.     *)
ScaleSram == {"sfA", "sfB", "sfA0", "sfA0lo", "sfA0hi", "sfA1", "sfB0", "sfB1"}

(* The contents `name' of tile t in a place, and in the place of its name. *)
In(place, name, t) == <<place, <<name, t>>>>
Own(name, t) == In(name, name, t)

(* The rows of the result of tile t in the global memory.                  *)
Out(t) == <<"out0", "out1", "out2", "out3", "out4", "out5">>[t + 1]

(* The script of a loop over tiles 0 .. n-1, and a conditional part.       *)
Loop(n, Body(_)) ==
  LET upTo[t \in 0 .. n] == IF t = 0 THEN <<>> ELSE upTo[t - 1] \o Body(t - 1) IN upTo[n]
When(condition, part) == IF condition THEN part ELSE <<>>
=============================================================================
