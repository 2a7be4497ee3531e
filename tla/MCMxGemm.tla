------------------------------ MODULE MCMxGemm ------------------------------
(* The MX library for TLC: the pipeline of mxgemm, where its tensors lie,  *)
(* and how one thread encodes a block.  A behaviour is a run of the        *)
(* pipeline, one GemmConfig, or one input of an encoder; what it is not    *)
(* about keeps its first value.                                            *)
EXTENDS MxGemm, SpadLayout, Encoders

Subject(of) == [of |-> of]
OneLayout == tileA = 1 /\ tileB = 1 /\ tileC = 1
OnePipeline == Init /\ ~accToGmem

PipelineInit == Init /\ OneLayout /\ input = Subject("pipeline")
ConfigInit == OnePipeline /\ LayoutInit /\ input = Subject("layout")
BlockInit == OnePipeline /\ OneLayout /\ EncoderInit

MxInit == PipelineInit \/ ConfigInit \/ BlockInit
MxVars == <<vars, tensors, input>>

InPipeline(Step) == input = Subject("pipeline") /\ Step /\ UNCHANGED <<tensors, input>>
Given == input # Subject("pipeline") /\ UNCHANGED MxVars

MxSpec ==
  /\ MxInit /\ [][InPipeline(Next) \/ Given]_MxVars
  /\ WF_MxVars(InPipeline(Gemmini)) /\ WF_MxVars(InPipeline(Memory))
  /\ WF_MxVars(InPipeline(Thread0))
  /\ \A w \in Warps : WF_MxVars(InPipeline(Warp(w)))

(* Every warp gets to the end of mxgemm.                                   *)
PipelineCompletes == input = Subject("pipeline") => Completes

BlockExponents == {0, 1, 3, 6, 7, 8, 13, 120, 126, 127, 254}
TopSignificands == {128, 200, 224, 225, 255}
=============================================================================
