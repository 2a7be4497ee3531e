----------------------------- MODULE MCEpilogue -----------------------------
(* Epilogue for TLC: the lines of the warps of one core share a cache set  *)
(* as soon as there are more warps than sets.                              *)
EXTENDS Epilogue

MCSetOf == [w \in Warps |-> (w \div NumCores) % NumSets]
=============================================================================
