--------------------------- MODULE MCMuSchedule ---------------------------
(* MuSchedule for TLC: the launches of a kernel of one launch, of two, of  *)
(* rope_qkv_fused and of rmsnorm_qkv_fused.                                *)
EXTENDS MuSchedule

Phase(n, barrier) == [occupancy |-> n, endsInBarrier |-> barrier]
Main(evicted, phases) == [launches |-> phases, evictions |-> evicted]

Single == Main(TRUE, <<Phase(3, TRUE)>>)
Twice == Main(TRUE, <<Phase(2, TRUE), Phase(2, FALSE)>>)
Rope == Main(FALSE, <<Phase(2, TRUE), Phase(2, FALSE), Phase(1, FALSE)>>)
RmsNorm == Main(FALSE, <<Phase(3, FALSE), Phase(2, TRUE)>>)

SingleAndRope == {Single, Rope}
JustTwice == {Twice}
JustRmsNorm == {RmsNorm}
=============================================================================
