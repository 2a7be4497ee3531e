------------------------------ MODULE Postbox ------------------------------
(***************************************************************************)
(* The words of the printBuf postbox through which the GPU and the host    *)
(* talk (src/lib/include/rad_tapeout.h).  printBuf is uncached and keeps   *)
(* its contents across runs, reprograms and resets, so every slot may hold *)
(* anything when a run begins.                                             *)
(*                                                                         *)
(* A START slot holds a generation: eight tag bits and a counter of 24     *)
(* bits, scaled here to the modulus GenMod.  "junk" is any other tag.      *)
(***************************************************************************)
EXTENDS Integers

CONSTANTS NumCores, \* MU_NUM_CORES = RAD_HOST_NUM_CORES
          GenMod    \* 2^24 in the code

ASSUME CoresAssumption == NumCores \in Nat \ {0}
ASSUME GenAssumption == GenMod \in Nat /\ GenMod >= 2

Cores == 0 .. NumCores - 1

Word == {"gen", "junk"} \X (0 .. GenMod - 1)

(* RAD_EPI_NEXT_GEN: increment, mask the counter, force the tag.  The tag  *)
(* that was there is dropped whatever it was.                              *)
NextGen(g) == <<"gen", (g[2] + 1) % GenMod>>
=============================================================================
