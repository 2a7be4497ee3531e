------------------------------ MODULE HostRun ------------------------------
(***************************************************************************)
(* A host program and the GPU it launches, as they meet in the postbox:    *)
(*   host  src/kernels/tapeout_template/host.cpp (main) and                *)
(*         src/lib/include/rad_host.h (rad_host_run);                      *)
(*   GPU   module Device: rad_tapeout_begin() and the promise of           *)
(*         rad_tapeout_epilogue().                                         *)
(*                                                                         *)
(* printBuf survives everything.  The GPU may stall at any point (there is *)
(* no fairness on it), the host may reset it at any point of its life, and *)
(* at SoC reset it starts to execute the image that is still in DRAM,      *)
(* before any host program runs.                                           *)
(***************************************************************************)
EXTENDS Device

CONSTANTS HoldFirst,  \* TRUE: main() soft-resets the GPU before anything else
          StartSpins, \* passes of rad_host_run's wait for START
          DoneSpins,  \* passes of rad_host_wait_epilogue
          MaxRuns     \* bound on the number of launches, for TLC

ASSUME HoldAssumption == HoldFirst \in BOOLEAN
ASSUME SpinsAssumption == StartSpins \in Nat \ {0} /\ DoneSpins \in Nat \ {0}
ASSUME MaxRunsAssumption == MaxRuns \in Nat

VARIABLES
  hpc,        \* where the host is
  at,         \* the core whose slot the host's loop reads next
  expect,     \* rad_host_run: expect[c]
  started,    \* the cores counted by the current pass of the START wait
  finished,   \* the cores counted by the current pass of the DONE wait
  spins,      \* passes made by the current wait
  runs,       \* launches so far
  startedNow, \* history: the core posted START since ReleaseReset
  doneNow     \* history: the core posted DONE since ReleaseReset

host == <<hpc, at, expect, started, finished, spins, runs>>
box == <<start, done>>
seenNow == <<startedNow, doneNow>>
vars == <<start, done, dev, hpc, at, expect, started, finished, spins,
          out, runs, startedNow, doneNow>>

HostStates == {"boot", "write", "gens", "assert", "release",
               "waitStart", "waitDone", "stop", "check"}

TypeOK ==
  /\ start \in [Cores -> Word]
  /\ done \in [Cores -> BOOLEAN]
  /\ dev \in [Cores -> DevStates]
  /\ hpc \in HostStates
  /\ at \in Cores
  /\ expect \in [Cores -> Word]
  /\ started \in SUBSET Cores
  /\ finished \in SUBSET Cores
  /\ spins \in Nat
  /\ out \in [Cores -> {"poison", "old", "result"}]
  /\ runs \in Nat
  /\ startedNow \in [Cores -> BOOLEAN]
  /\ doneNow \in [Cores -> BOOLEAN]

(* SoC reset: nothing is known of the postbox or of C, and the cores are   *)
(* released into whatever image DRAM holds.                                *)
Init ==
  /\ start \in [Cores -> Word]
  /\ done \in [Cores -> BOOLEAN]
  /\ dev = [c \in Cores |-> "clear"]
  /\ hpc = "boot"
  /\ at = 0
  /\ expect = [c \in Cores |-> <<"junk", 0>>]
  /\ started = {}
  /\ finished = {}
  /\ spins = 0
  /\ out = [c \in Cores |-> "old"]
  /\ runs = 0
  /\ startedNow = [c \in Cores |-> FALSE]
  /\ doneNow = [c \in Cores |-> FALSE]

-----------------------------------------------------------------------------
(* The GPU.  Every image is a tapeout image: main() calls                  *)
(* rad_tapeout_begin() and then runs a kernel that ends in the epilogue.   *)

GpuClear(c) ==
  /\ ClearSlots(c)
  /\ UNCHANGED <<host, seenNow>>

GpuStart(c) ==
  /\ PostStart(c)
  /\ startedNow' = [startedNow EXCEPT ![c] = TRUE]
  /\ UNCHANGED <<host, doneNow>>

(* An image that works while the host waits is the one the host launched.  *)
GpuWork(c) ==
  /\ Work(c, IF hpc \in {"waitStart", "waitDone", "stop"} THEN "result" ELSE "old")
  /\ UNCHANGED <<host, seenNow>>

GpuDone(c) ==
  /\ PostDone(c)
  /\ doneNow' = [doneNow EXCEPT ![c] = TRUE]
  /\ UNCHANGED <<host, startedNow>>

Gpu == \E c \in Cores : GpuClear(c) \/ GpuStart(c) \/ GpuWork(c) \/ GpuDone(c)

-----------------------------------------------------------------------------
(* The host.                                                               *)

(* rad_host_gpu_soft_reset and the first half of the launch edge: any      *)
(* non-zero write latches reset on every core, and holds it there.         *)
StopGpu == dev' = [c \in Cores |-> "off"]

(* Mutant: main() writes its buffers under a running GPU.                  *)
HoldSkipped ==
  /\ hpc = "boot"
  /\ hpc' = "write"
  /\ UNCHANGED <<box, dev, at, expect, started, finished, spins, out,
                 runs, seenNow>>

Hold ==
  /\ hpc = "boot"
  /\ IF HoldFirst THEN StopGpu ELSE UNCHANGED dev
  /\ hpc' = "write"
  /\ UNCHANGED <<box, at, expect, started, finished, spins, out, runs, seenNow>>

(* write_inputs: A, B, the arguments and the poison in C.                  *)
WriteInputs ==
  /\ hpc = "write"
  /\ out' = [c \in Cores |-> "poison"]
  /\ hpc' = "gens"
  /\ at' = 0
  /\ UNCHANGED <<box, dev, expect, started, finished, spins, runs, seenNow>>

(* Mutant: the loop runs one core too far.                                 *)
AdvanceTooFar(here, beyond) ==
  IF at < NumCores THEN at' = at + 1 /\ hpc' = here
                   ELSE at' = 0 /\ hpc' = beyond

(* One turn of a loop over the cores: go on to the next core, or leave.    *)
Advance(here, beyond) ==
  IF at < NumCores - 1 THEN at' = at + 1 /\ hpc' = here
                       ELSE at' = 0 /\ hpc' = beyond

(* Mutant: the host waits for the generation that is already there.        *)
ReadGenUnadvanced ==
  /\ hpc = "gens"
  /\ expect' = [expect EXCEPT ![at] = start[at]]
  /\ Advance("gens", "assert")
  /\ UNCHANGED <<box, dev, started, finished, spins, out, runs, seenNow>>

ReadGen ==
  /\ hpc = "gens"
  /\ expect' = [expect EXCEPT ![at] = NextGen(start[at])]
  /\ Advance("gens", "assert")
  /\ UNCHANGED <<box, dev, started, finished, spins, out, runs, seenNow>>

AssertReset ==
  /\ hpc = "assert"
  /\ StopGpu
  /\ hpc' = "release"
  /\ UNCHANGED <<box, at, expect, started, finished, spins, out, runs, seenNow>>

ReleaseReset ==
  /\ hpc = "release"
  /\ dev' = [c \in Cores |-> "clear"]
  /\ hpc' = "waitStart"
  /\ runs' = runs + 1
  /\ started' = {}
  /\ finished' = {}
  /\ spins' = 0
  /\ startedNow' = [c \in Cores |-> FALSE]
  /\ doneNow' = [c \in Cores |-> FALSE]
  /\ UNCHANGED <<box, at, expect, out>>

(* The count of a pass after reading the slot of core at.                  *)
Count(counted, hit) == (IF at = 0 THEN {} ELSE counted) \cup (IF hit THEN {at} ELSE {})

(* Mutant: a wait with no bound.                                           *)
PassUnbounded(counted, limit, here, success, failure) ==
  IF at < NumCores - 1
  THEN /\ at' = at + 1
       /\ hpc' = here
       /\ spins' = spins
  ELSE /\ at' = 0
       /\ hpc' = IF counted = Cores THEN success ELSE here
       /\ spins' = spins

(* Both waits are a bounded loop over passes, each pass a loop over the    *)
(* cores that counts from zero; the exit condition is read between passes. *)
Pass(counted, limit, here, success, failure) ==
  IF at < NumCores - 1
  THEN /\ at' = at + 1
       /\ hpc' = here
       /\ spins' = spins
  ELSE /\ at' = 0
       /\ \/ /\ counted = Cores
             /\ hpc' = success
             /\ spins' = 0
          \/ /\ counted # Cores
             /\ spins' = spins + 1
             /\ hpc' = IF spins + 1 < limit THEN here ELSE failure

(* Mutant: the start handshake is skipped.                                 *)
PollStartSkipped ==
  /\ hpc = "waitStart"
  /\ started' = Count(started, TRUE)
  /\ Pass(started', StartSpins, "waitStart", "waitDone", "stop")
  /\ UNCHANGED <<box, dev, expect, finished, out, runs, seenNow>>

PollStart ==
  /\ hpc = "waitStart"
  /\ started' = Count(started, start[at] = expect[at])
  /\ Pass(started', StartSpins, "waitStart", "waitDone", "stop")
  /\ UNCHANGED <<box, dev, expect, finished, out, runs, seenNow>>

PollDone ==
  /\ hpc = "waitDone"
  /\ finished' = Count(finished, done[at])
  /\ Pass(finished', DoneSpins, "waitDone", "stop", "stop")
  /\ UNCHANGED <<box, dev, expect, started, out, runs, seenNow>>

(* The unconditional soft reset before rad_host_run returns.               *)
Stop ==
  /\ hpc = "stop"
  /\ StopGpu
  /\ hpc' = "check"
  /\ UNCHANGED <<box, at, expect, started, finished, spins, out, runs, seenNow>>

(* What rad_host_run returns: done == NCORES.                              *)
Ran == finished = Cores

(* main() ends; the next program runs after a SoC reset, or main() calls   *)
(* rad_host_run again with fresh inputs and the GPU still held.            *)
NextProgram ==
  /\ hpc = "check"
  /\ runs < MaxRuns
  /\ \/ /\ dev' = [c \in Cores |-> "clear"]
        /\ hpc' = "boot"
     \/ /\ UNCHANGED dev
        /\ hpc' = "write"
  /\ UNCHANGED <<box, at, expect, started, finished, spins, out, runs, seenNow>>

Host == \/ Hold \/ WriteInputs \/ ReadGen \/ AssertReset \/ ReleaseReset
        \/ PollStart \/ PollDone \/ Stop \/ NextProgram

Next == Gpu \/ Host

Spec == Init /\ [][Next]_vars

(* The host is a running program; the GPU owes nothing.                    *)
FairSpec == Spec /\ WF_vars(Host)

-----------------------------------------------------------------------------
(* Properties                                                              *)

(* rad_host_run returns 1 only if every core posted DONE in this launch    *)
(* and this launch's result is all over C: a DONE left in the postbox by   *)
(* any earlier run, and a core that never started, cannot pass.            *)
SuccessIsThisRun ==
  hpc = "check" /\ Ran => \A c \in Cores : doneNow[c] /\ out[c] = "result"

(* The host leaves the start wait for the DONE wait only when every core   *)
(* has run rad_tapeout_begin() since the host released the GPU.            *)
StartProvesThisRun ==
  hpc = "waitDone" => \A c \in Cores : startedNow[c]

(* Once a core has acknowledged the launch, a DONE in its slot is its own: *)
(* the two slots never tell the host different runs.                       *)
NoLeftoverDone ==
  \A c \in Cores : startedNow[c] /\ done[c] => doneNow[c]

(* No image writes into the buffers between main()'s set-up of them and    *)
(* the launch.                                                             *)
BuffersUndisturbed ==
  [][(hpc \in {"gens", "assert", "release"}) => UNCHANGED out]_vars

(* Both waits are bounded, and every step of the host before main() checks *)
(* the result leads on: to a later part of the launch, to another pass, or *)
(* to the next core.  The steps of the GPU do not throw it back.           *)
WaitsAreBounded ==
  /\ at \in Cores
  /\ hpc = "waitStart" => spins < StartSpins
  /\ hpc = "waitDone" => spins < DoneSpins

HostAlong(state) ==
  CASE state = "boot" -> 0 [] state = "write" -> 1 [] state = "gens" -> 2
    [] state = "assert" -> 3 [] state = "release" -> 4 [] state = "waitStart" -> 5
    [] state = "waitDone" -> 6 [] state = "stop" -> 7 [] OTHER -> 8

HostGoesOn ==
  \/ HostAlong(hpc) < HostAlong(hpc')
  \/ hpc' = hpc /\ (spins < spins' \/ (spins' = spins /\ at < at'))

EveryHostStepCounts == [][hpc # "check" => UNCHANGED host \/ HostGoesOn]_vars

(* rad_host_run always returns, whatever the GPU does: a broken epilogue   *)
(* degrades to a reported timeout, never to a host hang.                   *)
HostReturns == hpc = "gens" ~> hpc = "check"

-----------------------------------------------------------------------------
(* The inductive invariant behind SuccessIsThisRun, when main() holds the  *)
(* GPU first.                                                              *)

Waiting == hpc \in {"waitStart", "waitDone", "stop"}

(* From set-up to launch, and after the final soft reset, no core runs.    *)
Held ==
  hpc \in {"write", "gens", "assert", "release", "check"} =>
    \A c \in Cores : dev[c] = "off"

(* A generation read stays the one before the one expected until the core  *)
(* acknowledges the launch.                                                *)
Expecting ==
  \A c \in Cores :
    \/ hpc = "gens" /\ c < at
    \/ hpc \in {"assert", "release"}
    \/ Waiting /\ ~startedNow[c]
    => expect[c] = NextGen(start[c])

Progress ==
  \A c \in Cores :
    /\ dev[c] = "ack" => ~done[c]
    /\ Waiting /\ dev[c] \in {"clear", "ack"} => ~startedNow[c] /\ ~doneNow[c]
    /\ Waiting /\ dev[c] \in {"work", "drained"} => ~doneNow[c]
    /\ Waiting /\ dev[c] \in {"drained", "parked"} => out[c] = "result"
    /\ (Waiting \/ hpc = "check") /\ doneNow[c] => out[c] = "result"
    /\ Waiting => dev[c] # "off"

(* The host has counted only what this launch posted.                      *)
Counted ==
  /\ hpc = "waitStart" => \A c \in started : startedNow[c]
  /\ Waiting \/ hpc = "check" => \A c \in finished : doneNow[c]

IInv == /\ TypeOK /\ Held /\ Expecting /\ Progress /\ Counted
        /\ NoLeftoverDone /\ StartProvesThisRun
=============================================================================
