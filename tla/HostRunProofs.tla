--------------------------- MODULE HostRunProofs ---------------------------
(* The launch protocol is correct for any number of cores, any generation  *)
(* width and any bounds on the host's waits, provided main() holds the GPU *)
(* in reset first: IInv of module HostRun is inductive.                    *)
EXTENDS HostRun, TLAPS

(* The generation a host waits for is never the one it read: the mask      *)
(* cannot bring RAD_EPI_NEXT_GEN(g) back to g.                             *)
LEMMA NextGenMoves ==
  ASSUME NEW g \in Word
  PROVE  NextGen(g) \in Word /\ NextGen(g) # g
<1>1. g[2] \in 0 .. GenMod - 1
  BY DEF Word
<1>2. GenMod \in Nat /\ GenMod >= 2
  BY GenAssumption
<1>3. CASE g[2] + 1 < GenMod
  <2>1. (g[2] + 1) % GenMod = g[2] + 1
    BY <1>1, <1>2, <1>3
  <2>2. QED
    BY <2>1, <1>1, <1>2, <1>3 DEF Word, NextGen
<1>4. CASE g[2] + 1 = GenMod
  <2>1. (g[2] + 1) % GenMod = 0
    BY <1>1, <1>2, <1>4
  <2>2. QED
    BY <2>1, <1>1, <1>2, <1>4 DEF Word, NextGen
<1>5. QED
  BY <1>1, <1>2, <1>3, <1>4

LEMMA InitIInv == Init => IInv
<1> SUFFICES ASSUME Init PROVE IInv
  OBVIOUS
<1>1. TypeOK
  <2>1. 0 \in Cores
    BY CoresAssumption DEF Cores
  <2>2. <<"junk", 0>> \in Word
    BY GenAssumption DEF Word
  <2>3. QED
    BY <2>1, <2>2 DEF Init, TypeOK, DevStates, HostStates
<1>2. QED
  BY <1>1 DEF Init, IInv, Held, Expecting, Progress, Counted, Waiting,
              NoLeftoverDone, StartProvesThisRun

(* Every step of a core preserves the invariant.                           *)
LEMMA GpuKeepsIInv ==
  ASSUME IInv, Gpu
  PROVE  IInv'
<1> PICK c \in Cores : GpuClear(c) \/ GpuStart(c) \/ GpuWork(c) \/ GpuDone(c)
  BY DEF Gpu
<1> USE DEF IInv, host, box, seenNow
<1>1. CASE GpuClear(c)
  <2>1. TypeOK'
    BY <1>1 DEF GpuClear, ClearSlots, TypeOK, DevStates
  <2>2. Held'
    BY <1>1 DEF GpuClear, ClearSlots, Held, TypeOK
  <2>3. Expecting'
    BY <1>1 DEF GpuClear, ClearSlots, Expecting, Waiting, TypeOK, Held
  <2>4. Progress'
    BY <1>1 DEF GpuClear, ClearSlots, Progress, Waiting, TypeOK, NoLeftoverDone, Held
  <2>5. Counted'
    BY <1>1 DEF GpuClear, ClearSlots, Counted, Waiting, TypeOK
  <2>6. NoLeftoverDone'
    BY <1>1 DEF GpuClear, ClearSlots, NoLeftoverDone, TypeOK, Progress
  <2>7. StartProvesThisRun'
    BY <1>1 DEF GpuClear, ClearSlots, StartProvesThisRun, TypeOK
  <2>8. QED
    BY <2>1, <2>2, <2>3, <2>4, <2>5, <2>6, <2>7
<1>2. CASE GpuStart(c)
  <2>1. TypeOK'
    BY <1>2, NextGenMoves DEF GpuStart, PostStart, TypeOK, DevStates
  <2>2. Held'
    BY <1>2 DEF GpuStart, PostStart, Held, TypeOK
  <2>3. Expecting'
    BY <1>2 DEF GpuStart, PostStart, Expecting, Waiting, TypeOK, Held
  <2>4. Progress'
    BY <1>2 DEF GpuStart, PostStart, Progress, Waiting, TypeOK, NoLeftoverDone, Held
  <2>5. Counted'
    BY <1>2 DEF GpuStart, PostStart, Counted, Waiting, TypeOK
  <2>6. NoLeftoverDone'
    BY <1>2 DEF GpuStart, PostStart, NoLeftoverDone, TypeOK, Progress
  <2>7. StartProvesThisRun'
    BY <1>2 DEF GpuStart, PostStart, StartProvesThisRun, TypeOK
  <2>8. QED
    BY <2>1, <2>2, <2>3, <2>4, <2>5, <2>6, <2>7
<1>3. CASE GpuWork(c)
  <2>1. TypeOK'
    BY <1>3 DEF GpuWork, Work, TypeOK, DevStates
  <2>2. Held'
    BY <1>3 DEF GpuWork, Work, Held, TypeOK
  <2>3. Expecting'
    BY <1>3 DEF GpuWork, Work, Expecting, Waiting, TypeOK, Held
  <2>4. Progress'
    BY <1>3 DEF GpuWork, Work, Progress, Waiting, TypeOK, NoLeftoverDone, Held
  <2>5. Counted'
    BY <1>3 DEF GpuWork, Work, Counted, Waiting, TypeOK
  <2>6. NoLeftoverDone'
    BY <1>3 DEF GpuWork, Work, NoLeftoverDone, TypeOK, Progress
  <2>7. StartProvesThisRun'
    BY <1>3 DEF GpuWork, Work, StartProvesThisRun, TypeOK
  <2>8. QED
    BY <2>1, <2>2, <2>3, <2>4, <2>5, <2>6, <2>7
<1>4. CASE GpuDone(c)
  <2>1. TypeOK'
    BY <1>4 DEF GpuDone, PostDone, TypeOK, DevStates
  <2>2. Held'
    BY <1>4 DEF GpuDone, PostDone, Held, TypeOK
  <2>3. Expecting'
    BY <1>4 DEF GpuDone, PostDone, Expecting, Waiting, TypeOK, Held
  <2>4. Progress'
    BY <1>4 DEF GpuDone, PostDone, Progress, Waiting, TypeOK, NoLeftoverDone, Held
  <2>5. Counted'
    BY <1>4 DEF GpuDone, PostDone, Counted, Waiting, TypeOK
  <2>6. NoLeftoverDone'
    BY <1>4 DEF GpuDone, PostDone, NoLeftoverDone, TypeOK, Progress
  <2>7. StartProvesThisRun'
    BY <1>4 DEF GpuDone, PostDone, StartProvesThisRun, TypeOK
  <2>8. QED
    BY <2>1, <2>2, <2>3, <2>4, <2>5, <2>6, <2>7
<1>5. QED
  BY <1>1, <1>2, <1>3, <1>4

(* Every step of the host preserves it; this is where HoldFirst matters.   *)
LEMMA HostKeepsIInv ==
  ASSUME HoldFirst, IInv, Host
  PROVE  IInv'
<1> USE DEF IInv, host, box, seenNow
<1>0. 0 \in Cores /\ Cores = 0 .. NumCores - 1 /\ NumCores \in Nat \ {0}
  BY CoresAssumption DEF Cores
<1>1. CASE Hold
  <2>1. TypeOK'
    BY <1>0, <1>1, HoldFirst DEF Hold, StopGpu, TypeOK, DevStates, HostStates
  <2>2. Held'
    BY <1>0, <1>1, HoldFirst DEF Hold, StopGpu, Held, TypeOK
  <2>3. Expecting'
    BY <1>0, <1>1, HoldFirst DEF Hold, StopGpu, Expecting, Waiting, TypeOK
  <2>4. Progress'
    BY <1>0, <1>1, HoldFirst DEF Hold, StopGpu, Progress, Waiting, TypeOK, Held
  <2>5. Counted'
    BY <1>0, <1>1, HoldFirst DEF Hold, StopGpu, Counted, Waiting, TypeOK
  <2>6. NoLeftoverDone'
    BY <1>0, <1>1, HoldFirst DEF Hold, StopGpu, NoLeftoverDone, TypeOK
  <2>7. StartProvesThisRun'
    BY <1>0, <1>1, HoldFirst DEF Hold, StopGpu, StartProvesThisRun, TypeOK
  <2>8. QED
    BY <2>1, <2>2, <2>3, <2>4, <2>5, <2>6, <2>7
<1>2. CASE WriteInputs
  <2>1. TypeOK'
    BY <1>0, <1>2 DEF WriteInputs, TypeOK, DevStates, HostStates
  <2>2. Held'
    BY <1>0, <1>2 DEF WriteInputs, Held, TypeOK
  <2>3. Expecting'
    BY <1>0, <1>2 DEF WriteInputs, Expecting, Waiting, TypeOK
  <2>4. Progress'
    BY <1>0, <1>2 DEF WriteInputs, Progress, Waiting, TypeOK, Held
  <2>5. Counted'
    BY <1>0, <1>2 DEF WriteInputs, Counted, Waiting, TypeOK
  <2>6. NoLeftoverDone'
    BY <1>0, <1>2 DEF WriteInputs, NoLeftoverDone, TypeOK
  <2>7. StartProvesThisRun'
    BY <1>0, <1>2 DEF WriteInputs, StartProvesThisRun, TypeOK
  <2>8. QED
    BY <2>1, <2>2, <2>3, <2>4, <2>5, <2>6, <2>7
<1>3. CASE ReadGen
  <2>1. TypeOK'
    BY <1>0, <1>3, NextGenMoves DEF ReadGen, Advance, TypeOK, DevStates, HostStates
  <2>2. Held'
    BY <1>0, <1>3 DEF ReadGen, Advance, Held, TypeOK
  <2>3. Expecting'
    BY <1>0, <1>3 DEF ReadGen, Advance, Expecting, Waiting, TypeOK
  <2>4. Progress'
    BY <1>0, <1>3 DEF ReadGen, Advance, Progress, Waiting, TypeOK, Held
  <2>5. Counted'
    BY <1>0, <1>3 DEF ReadGen, Advance, Counted, Waiting, TypeOK
  <2>6. NoLeftoverDone'
    BY <1>0, <1>3 DEF ReadGen, Advance, NoLeftoverDone, TypeOK
  <2>7. StartProvesThisRun'
    BY <1>0, <1>3 DEF ReadGen, Advance, StartProvesThisRun, TypeOK
  <2>8. QED
    BY <2>1, <2>2, <2>3, <2>4, <2>5, <2>6, <2>7
<1>4. CASE AssertReset
  <2>1. TypeOK'
    BY <1>0, <1>4 DEF AssertReset, StopGpu, TypeOK, DevStates, HostStates
  <2>2. Held'
    BY <1>0, <1>4 DEF AssertReset, StopGpu, Held, TypeOK
  <2>3. Expecting'
    BY <1>0, <1>4 DEF AssertReset, StopGpu, Expecting, Waiting, TypeOK
  <2>4. Progress'
    BY <1>0, <1>4 DEF AssertReset, StopGpu, Progress, Waiting, TypeOK, Held
  <2>5. Counted'
    BY <1>0, <1>4 DEF AssertReset, StopGpu, Counted, Waiting, TypeOK
  <2>6. NoLeftoverDone'
    BY <1>0, <1>4 DEF AssertReset, StopGpu, NoLeftoverDone, TypeOK
  <2>7. StartProvesThisRun'
    BY <1>0, <1>4 DEF AssertReset, StopGpu, StartProvesThisRun, TypeOK
  <2>8. QED
    BY <2>1, <2>2, <2>3, <2>4, <2>5, <2>6, <2>7
<1>5. CASE ReleaseReset
  <2>1. TypeOK'
    <3>1. dev' \in [Cores -> DevStates]
      BY <1>5 DEF ReleaseReset, DevStates
    <3>2. hpc' \in HostStates /\ runs' \in Nat /\ spins' \in Nat
      BY <1>5 DEF ReleaseReset, HostStates, TypeOK
    <3>3. /\ started' \in SUBSET Cores
          /\ finished' \in SUBSET Cores
          /\ startedNow' \in [Cores -> BOOLEAN]
          /\ doneNow' \in [Cores -> BOOLEAN]
      BY <1>5 DEF ReleaseReset
    <3>4. QED
      BY <1>5, <3>1, <3>2, <3>3 DEF ReleaseReset, TypeOK
  <2>2. Held'
    BY <1>0, <1>5 DEF ReleaseReset, Held, TypeOK
  <2>3. Expecting'
    BY <1>0, <1>5 DEF ReleaseReset, Expecting, Waiting, TypeOK
  <2>4. Progress'
    BY <1>0, <1>5 DEF ReleaseReset, Progress, Waiting, TypeOK, Held
  <2>5. Counted'
    BY <1>0, <1>5 DEF ReleaseReset, Counted, Waiting, TypeOK
  <2>6. NoLeftoverDone'
    BY <1>0, <1>5 DEF ReleaseReset, NoLeftoverDone, TypeOK
  <2>7. StartProvesThisRun'
    BY <1>0, <1>5 DEF ReleaseReset, StartProvesThisRun, TypeOK
  <2>8. QED
    BY <2>1, <2>2, <2>3, <2>4, <2>5, <2>6, <2>7
<1>6. CASE PollStart
  <2>1. TypeOK'
    <3>1. started' \in SUBSET Cores
      BY <1>6 DEF PollStart, Count, TypeOK
    <3>2. at' \in Cores
      BY <1>0, <1>6 DEF PollStart, Pass, TypeOK
    <3>3. spins' \in Nat
      BY <1>6 DEF PollStart, Pass, TypeOK
    <3>4. hpc' \in HostStates
      BY <1>6 DEF PollStart, Pass, HostStates
    <3>5. QED
      BY <1>6, <3>1, <3>2, <3>3, <3>4 DEF PollStart, TypeOK
  <2>2. Held'
    BY <1>0, <1>6 DEF PollStart, Pass, Count, Held, TypeOK
  <2>3. Expecting'
    BY <1>0, <1>6 DEF PollStart, Pass, Count, Expecting, Waiting, TypeOK
  <2>4. Progress'
    BY <1>0, <1>6 DEF PollStart, Pass, Count, Progress, Waiting, TypeOK, Held
  <2>5. Counted'
    BY <1>0, <1>6, NextGenMoves DEF PollStart, Pass, Count, Counted, Expecting, StartProvesThisRun, Waiting, TypeOK
  <2>6. NoLeftoverDone'
    BY <1>0, <1>6 DEF PollStart, Pass, Count, NoLeftoverDone, TypeOK
  <2>7. StartProvesThisRun'
    BY <1>0, <1>6, NextGenMoves DEF PollStart, Pass, Count, Counted, Expecting, StartProvesThisRun, Waiting, TypeOK
  <2>8. QED
    BY <2>1, <2>2, <2>3, <2>4, <2>5, <2>6, <2>7
<1>7. CASE PollDone
  <2>1. TypeOK'
    <3>1. finished' \in SUBSET Cores
      BY <1>7 DEF PollDone, Count, TypeOK
    <3>2. at' \in Cores
      BY <1>0, <1>7 DEF PollDone, Pass, TypeOK
    <3>3. spins' \in Nat
      BY <1>7 DEF PollDone, Pass, TypeOK
    <3>4. hpc' \in HostStates
      BY <1>7 DEF PollDone, Pass, HostStates
    <3>5. QED
      BY <1>7, <3>1, <3>2, <3>3, <3>4 DEF PollDone, TypeOK
  <2>2. Held'
    BY <1>0, <1>7 DEF PollDone, Pass, Count, Held, TypeOK
  <2>3. Expecting'
    BY <1>0, <1>7 DEF PollDone, Pass, Count, Expecting, Waiting, TypeOK
  <2>4. Progress'
    BY <1>0, <1>7 DEF PollDone, Pass, Count, Progress, Waiting, TypeOK, Held
  <2>5. Counted'
    BY <1>0, <1>7 DEF PollDone, Pass, Count, Counted, Waiting, TypeOK, NoLeftoverDone, StartProvesThisRun
  <2>6. NoLeftoverDone'
    BY <1>0, <1>7 DEF PollDone, Pass, Count, NoLeftoverDone, TypeOK
  <2>7. StartProvesThisRun'
    BY <1>0, <1>7 DEF PollDone, Pass, Count, StartProvesThisRun, TypeOK
  <2>8. QED
    BY <2>1, <2>2, <2>3, <2>4, <2>5, <2>6, <2>7
<1>8. CASE Stop
  <2>1. TypeOK'
    BY <1>0, <1>8 DEF Stop, StopGpu, TypeOK, DevStates, HostStates
  <2>2. Held'
    BY <1>0, <1>8 DEF Stop, StopGpu, Held, TypeOK
  <2>3. Expecting'
    BY <1>0, <1>8 DEF Stop, StopGpu, Expecting, Waiting, TypeOK
  <2>4. Progress'
    BY <1>0, <1>8 DEF Stop, StopGpu, Progress, Waiting, TypeOK, Held
  <2>5. Counted'
    BY <1>0, <1>8 DEF Stop, StopGpu, Counted, Waiting, TypeOK
  <2>6. NoLeftoverDone'
    BY <1>0, <1>8 DEF Stop, StopGpu, NoLeftoverDone, TypeOK
  <2>7. StartProvesThisRun'
    BY <1>0, <1>8 DEF Stop, StopGpu, StartProvesThisRun, TypeOK
  <2>8. QED
    BY <2>1, <2>2, <2>3, <2>4, <2>5, <2>6, <2>7
<1>9. CASE NextProgram
  <2>1. TypeOK'
    BY <1>0, <1>9 DEF NextProgram, TypeOK, DevStates, HostStates
  <2>2. Held'
    BY <1>0, <1>9 DEF NextProgram, Held, TypeOK
  <2>3. Expecting'
    BY <1>0, <1>9 DEF NextProgram, Expecting, Waiting, TypeOK
  <2>4. Progress'
    BY <1>0, <1>9 DEF NextProgram, Progress, Waiting, TypeOK, Held
  <2>5. Counted'
    BY <1>0, <1>9 DEF NextProgram, Counted, Waiting, TypeOK
  <2>6. NoLeftoverDone'
    BY <1>0, <1>9 DEF NextProgram, NoLeftoverDone, TypeOK
  <2>7. StartProvesThisRun'
    BY <1>0, <1>9 DEF NextProgram, StartProvesThisRun, TypeOK
  <2>8. QED
    BY <2>1, <2>2, <2>3, <2>4, <2>5, <2>6, <2>7
<1>10. QED
  BY <1>1, <1>2, <1>3, <1>4, <1>5, <1>6, <1>7, <1>8, <1>9 DEF Host

(* Under HoldFirst, IInv holds in every reachable state.                   *)
LEMMA InvariantHolds == HoldFirst => (Spec => []IInv)
<1> SUFFICES ASSUME HoldFirst PROVE Spec => []IInv
  OBVIOUS
<1>1. Init => IInv
  BY InitIInv
<1>2. IInv /\ [Next]_vars => IInv'
  <2> SUFFICES ASSUME IInv, [Next]_vars PROVE IInv'
    OBVIOUS
  <2>1. CASE Gpu
    BY <2>1, GpuKeepsIInv
  <2>2. CASE Host
    BY <2>2, HostKeepsIInv
  <2>3. CASE UNCHANGED vars
    BY <2>3 DEF vars, IInv, TypeOK, Held, Expecting, Progress, Counted, Waiting,
                NoLeftoverDone, StartProvesThisRun
  <2>4. QED
    BY <2>1, <2>2, <2>3 DEF Next
<1>3. QED
  BY <1>1, <1>2, PTL DEF Spec

-----------------------------------------------------------------------------
(* Every variable keeps its type in every reachable state.                 *)
THEOREM TypeCorrect == HoldFirst => (Spec => []TypeOK)
<1>1. IInv => TypeOK
  BY DEF IInv
<1>2. QED
  BY <1>1, InvariantHolds, PTL

(* A successful rad_host_run means this launch's DONE from every core and  *)
(* this launch's result in C.                                              *)
THEOREM SuccessIsGenuine == HoldFirst => (Spec => []SuccessIsThisRun)
<1>1. IInv => SuccessIsThisRun
  BY DEF IInv, SuccessIsThisRun, Ran, Counted, Progress
<1>2. QED
  BY <1>1, InvariantHolds, PTL

(* The generation handshake tells this launch from every other: the host   *)
(* reaches the DONE wait only after every core began under this launch.    *)
THEOREM StartIsGenuine == HoldFirst => (Spec => []StartProvesThisRun)
<1>1. IInv => StartProvesThisRun
  BY DEF IInv
<1>2. QED
  BY <1>1, InvariantHolds, PTL

(* rad_tapeout_begin() leaves no DONE of an earlier run behind the         *)
(* generation it advances.                                                 *)
THEOREM DoneIsFresh == HoldFirst => (Spec => []NoLeftoverDone)
<1>1. IInv => NoLeftoverDone
  BY DEF IInv
<1>2. QED
  BY <1>1, InvariantHolds, PTL

(* Between the set-up of the buffers and the launch nothing writes them.   *)
THEOREM BuffersAreUndisturbed == HoldFirst => (Spec => BuffersUndisturbed)
<1>1. IInv /\ [Next]_vars
        => [(hpc \in {"gens", "assert", "release"}) => UNCHANGED out]_vars
  <2> SUFFICES ASSUME IInv, Next, hpc \in {"gens", "assert", "release"}
               PROVE  UNCHANGED out
    OBVIOUS
  <2>1. ~Gpu
    BY DEF IInv, Held, Gpu, GpuClear, GpuStart, GpuWork, GpuDone,
           ClearSlots, PostStart, Work, PostDone
  <2>2. Host
    BY <2>1 DEF Next
  <2>3. QED
    BY <2>2 DEF Host, Hold, WriteInputs, ReadGen, AssertReset, ReleaseReset,
                PollStart, PollDone, Stop, NextProgram
<1>2. QED
  BY <1>1, InvariantHolds, PTL DEF Spec, BuffersUndisturbed
-----------------------------------------------------------------------------
(* The host returns                                                        *)

LEMMA HostAlongTable ==
  /\ HostAlong("boot") = 0 /\ HostAlong("write") = 1 /\ HostAlong("gens") = 2
  /\ HostAlong("assert") = 3 /\ HostAlong("release") = 4 /\ HostAlong("waitStart") = 5
  /\ HostAlong("waitDone") = 6 /\ HostAlong("stop") = 7 /\ HostAlong("check") = 8
BY DEF HostAlong

HostInv == hpc \in HostStates /\ spins \in Nat /\ WaitsAreBounded

LEMMA InitHostInv == Init => HostInv
BY CoresAssumption DEF Init, HostInv, WaitsAreBounded, HostStates, Cores

LEMMA GpuLeavesHost ==
  ASSUME Gpu
  PROVE  host' = host
BY DEF Gpu, GpuClear, GpuStart, GpuWork, GpuDone, host

(* A turn of the loop over the cores.                                      *)
LEMMA AdvanceGoesOn ==
  ASSUME HostInv, hpc = "gens", Advance("gens", "assert"), spins' = spins
  PROVE  HostGoesOn /\ HostInv'
<1>1. NumCores \in Nat \ {0} /\ at \in 0 .. NumCores - 1
  BY CoresAssumption DEF HostInv, WaitsAreBounded, Cores
<1>2. QED
  BY <1>1, HostAlongTable
     DEF Advance, HostGoesOn, HostInv, WaitsAreBounded, HostStates, Cores

(* A turn of a loop of passes, which leaves it for a later state.          *)
LEMMA PassGoesOn ==
  ASSUME HostInv, NEW counted, NEW limit \in Nat, spins < limit, NEW success \in HostStates,
         hpc \in {"waitStart", "waitDone"}, HostAlong(hpc) < HostAlong(success),
         success = "waitDone" => hpc = "waitStart",
         success # "waitStart", limit = IF hpc = "waitStart" THEN StartSpins ELSE DoneSpins,
         Pass(counted, limit, hpc, success, "stop")
  PROVE  HostGoesOn /\ HostInv'
<1>1. /\ NumCores \in Nat \ {0} /\ at \in 0 .. NumCores - 1 /\ spins \in Nat
      /\ StartSpins \in Nat \ {0} /\ DoneSpins \in Nat \ {0}
  BY CoresAssumption, SpinsAssumption DEF HostInv, WaitsAreBounded, Cores
<1>2. CASE at < NumCores - 1
  <2>1. at' = at + 1 /\ hpc' = hpc /\ spins' = spins
    BY <1>2 DEF Pass
  <2>2. QED
    BY <1>1, <1>2, <2>1 DEF HostGoesOn, HostInv, WaitsAreBounded, Cores
<1>3. CASE ~(at < NumCores - 1)
  <2>1. at' = 0 /\ 0 \in Cores
    BY <1>1, <1>3 DEF Pass, Cores
  <2>2. CASE hpc' = success /\ spins' = 0
    BY <1>1, <2>1, <2>2 DEF HostGoesOn, HostInv, WaitsAreBounded
  <2>3. CASE hpc' = hpc /\ spins' = spins + 1 /\ spins + 1 < limit
    BY <1>1, <2>1, <2>3 DEF HostGoesOn, HostInv, WaitsAreBounded
  <2>4. CASE hpc' = "stop" /\ spins' = spins + 1
    BY <1>1, <2>1, <2>4, HostAlongTable DEF HostGoesOn, HostInv, WaitsAreBounded, HostStates
  <2>5. QED
    BY <1>3, <2>2, <2>3, <2>4 DEF Pass
<1>4. QED
  BY <1>2, <1>3

LEMMA HostStepCounts ==
  ASSUME HostInv, Host
  PROVE  HostInv' /\ (hpc # "check" => HostGoesOn)
<1>0. StartSpins \in Nat \ {0} /\ DoneSpins \in Nat \ {0}
  BY SpinsAssumption
<1>1. CASE Hold
  BY <1>1, HostAlongTable DEF Hold, HostGoesOn, HostInv, WaitsAreBounded, HostStates
<1>2. CASE WriteInputs
  <2>1. 0 \in Cores
    BY CoresAssumption DEF Cores
  <2>2. QED
    BY <1>2, <2>1, HostAlongTable
       DEF WriteInputs, HostGoesOn, HostInv, WaitsAreBounded, HostStates
<1>3. CASE ReadGen
  BY <1>3, AdvanceGoesOn DEF ReadGen
<1>4. CASE AssertReset
  BY <1>4, HostAlongTable DEF AssertReset, HostGoesOn, HostInv, WaitsAreBounded, HostStates
<1>5. CASE ReleaseReset
  BY <1>0, <1>5, HostAlongTable
     DEF ReleaseReset, HostGoesOn, HostInv, WaitsAreBounded, HostStates
<1>6. CASE PollStart
  BY <1>0, <1>6, PassGoesOn, HostAlongTable DEF PollStart, HostInv, WaitsAreBounded, HostStates
<1>7. CASE PollDone
  BY <1>0, <1>7, PassGoesOn, HostAlongTable DEF PollDone, HostInv, WaitsAreBounded, HostStates
<1>8. CASE Stop
  BY <1>8, HostAlongTable DEF Stop, HostGoesOn, HostInv, WaitsAreBounded, HostStates
<1>9. CASE NextProgram
  BY <1>9 DEF NextProgram, HostInv, WaitsAreBounded, HostStates
<1>10. QED
  BY <1>1, <1>2, <1>3, <1>4, <1>5, <1>6, <1>7, <1>8, <1>9 DEF Host

LEMMA HostInvStep ==
  ASSUME HostInv, [Next]_vars
  PROVE  HostInv' /\ (hpc # "check" => UNCHANGED host \/ HostGoesOn)
<1>1. CASE UNCHANGED host
  BY <1>1 DEF host, HostInv, WaitsAreBounded
<1>2. CASE Host
  BY <1>2, HostStepCounts
<1>3. UNCHANGED vars => UNCHANGED host
  BY DEF vars, host
<1>4. QED
  BY <1>1, <1>2, <1>3, GpuLeavesHost DEF Next

(* rad_host_run makes a bounded number of steps whatever the GPU does, for *)
(* any number of cores and any bounds on the waits, and whether or not     *)
(* main() held the GPU (rad_host.h:89-121): a broken epilogue cannot hang *)
(* the host.                                                               *)
THEOREM HostIsBounded == Spec => []WaitsAreBounded /\ EveryHostStepCounts
<1>1. HostInv /\ [Next]_vars
        => HostInv' /\ [hpc # "check" => UNCHANGED host \/ HostGoesOn]_vars
  BY HostInvStep
<1>2. HostInv => WaitsAreBounded
  BY DEF HostInv
<1>3. QED
  BY <1>1, <1>2, InitHostInv, PTL DEF Spec, EveryHostStepCounts
=============================================================================
