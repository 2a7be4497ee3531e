--------------------------- MODULE KernelPrograms ---------------------------
(* The kernels with scratchpad stages, and the builds of the bring-up      *)
(* kernel, which differ in the macros that its makefile sets.              *)
EXTENDS TileOps

CONSTANTS NumHeads, NumBlocks, NumTiles, NumSteps
Flash == INSTANCE HostsfPrograms
Sp == INSTANCE StableShifted
Gemm == INSTANCE VirgoPrograms

Overlapped == {"WCNT", "PKOVL", "QOVL", "QKACC"}
Pipelined == {"WCNT", "PKOVL", "QOVL"}
Builds ==
  "base" :> {} @@ "pkovl" :> {"PKOVL"} @@ "qovl" :> {"PKOVL", "QOVL", "SM1F"}
  @@ "qkacc" :> Overlapped \cup {"SMTPR", "FZFLAT"}
  @@ "qovl3" :> Overlapped \cup {"QOVL3", "SMTPR", "SMBMAX", "FZROW"}
  @@ "qovl4" :> Overlapped \cup {"QOVL4", "QGF"}
  @@ "qsplit" :> Overlapped \cup {"QSPLIT", "LEANCFG", "QDRAIN", "PREPK"}
  @@ "qearly" :> Overlapped \cup {"QSPLIT", "LEANCFG", "QDRAIN", "QEARLY", "FZ6", "CBMAX"}
  @@ "noovl" :> Overlapped \cup {"QSPLIT", "NOOVL", "LEANCFG", "QDRAIN"}
  @@ "item" :> Overlapped \cup {"QSPLIT", "ITEM", "FZROW"}
  @@ "fuse" :> (Overlapped \ {"QKACC"}) \cup {"FUSE", "FZFLAT"}
  @@ "fusebatch" :> Overlapped \cup {"FUSE", "RMBATCH", "FZFLAT", "BANKA"}
  @@ "hsf" :> Overlapped \cup {"QSPLIT", "LEANCFG", "HSF"}
  @@ "opv" :> Pipelined \cup {"OPV"} @@ "opvq" :> Pipelined \cup {"OPV", "OPVQ", "BANKA"}
  @@ "opvhsf" :> Pipelined \cup {"OPV", "OPVQ", "BANKA", "LEANCFG", "HSF"}
  @@ "sq32" :> Pipelined \cup {"SQ32"} @@ "sq32early" :> Pipelined \cup {"SQ32", "SQ32_QEARLY"}

Programs ==
  "gqa" :> Flash!Gqa @@ "gemma" :> Flash!Gemma
  @@ "streaming" :> Flash!Streaming @@ "fullattn2" :> Flash!FullAttn2
  @@ "fullattn3" :> Flash!FullAttn3 @@ "pipe" :> Flash!Pipe
  @@ "gemm_simt" :> Gemm!GemmSimt @@ "sgemm_wg" :> Gemm!SgemmWg
  @@ "sgemm_tcore" :> Gemm!SgemmTcore @@ "sgemm_gemmini_dma" :> Gemm!SgemmDma
  @@ "restream" :> Gemm!Restream @@ "softmax" :> Gemm!Softmax
  @@ "tensorflash" :> Gemm!TensorFlash @@ "pingpong" :> Gemm!PingPong
  @@ "meshflash" :> Gemm!MeshFlash(0) @@ "meshflash_tile1" :> Gemm!MeshFlash(1)
  @@ "warpspecial" :> Gemm!Warpspecial
  @@ [n \in DOMAIN Builds |-> Sp!Stable(Builds[n])]
\* A value of its own, which TLC computes once.
AllPrograms == LET programs == Programs IN programs

(* Two kernels have a run of their own, which shows what goes wrong.       *)
AllKernels == DOMAIN Programs \ {"softmax", "meshflash"}
=============================================================================
