----------------------------- MODULE MCVxSpawn -----------------------------
(* VxSpawn for TLC: the calls of the runs.                                 *)
EXTENDS VxSpawn

Linear(api, counts) == {[api |-> api, groups |-> <<n, 1, 1>>] : n \in counts}
Grids == {[api |-> "kernel", groups |-> g] : g \in (1 .. 4) \X (1 .. 3) \X (1 .. 2)}

AllCalls == Linear("tasks", 0 .. 27) \cup Linear("contiguous", 0 .. 27)
            \cup Linear("cluster", 0 .. 12) \cup Grids

(* The lemma LogsAreExact of VxSpawnProofs, for the grids of the runs.     *)
ASSUME LogsExactHere == LogsExact

(* Two clusters of two cores, the second one partly filled.                *)
PartlyFilled == Linear("cluster", 9 .. 15)
=============================================================================
