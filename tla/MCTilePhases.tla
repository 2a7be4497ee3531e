---------------------------- MODULE MCTilePhases ----------------------------
(* The kernels with scratchpad stages, for TLC.                            *)
EXTENDS TilePhases, MCTileOrder

SoftmaxAlone == {"softmax"}
MeshFlashAlone == {"meshflash"}

AtStart == \A w \in Actors : pc[w] = Following(w, 0) /\ mode[w] = "ready"

(* The accesses of a kernel that are in conflict are ordered by its        *)
(* barriers, flags, fences and polls, for any schedule of the warps and of *)
(* the matrix unit; every tile that is read was stored before and nothing  *)
(* took its place, the rows of the result come in order, and the sweeps,   *)
(* the stages that nothing overlaps and the banks are kept apart; and a    *)
(* post comes before every await it lets through.  These are the           *)
(* hypotheses of the theorems of TilePhasesProofs.                         *)
ScriptIsOrdered ==
  AtStart =>
    \A programs \in {AllPrograms}, clocks \in {Clocks} :
         /\ Order(kernel, programs, clocks)!Ordered
         /\ Order(kernel, programs, clocks)!Apart
         /\ Order(kernel, programs, clocks)!Fed
         /\ Order(kernel, programs, clocks)!Streamed
         /\ Order(kernel, programs, clocks)!SweepsApart
         /\ Order(kernel, programs, clocks)!KeptAlone
         /\ Order(kernel, programs, clocks)!Banked
         /\ Order(kernel, programs, clocks)!Executable
         /\ Order(kernel, programs, clocks)!Answered
=============================================================================
