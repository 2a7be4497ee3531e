----------------------------- MODULE MuSchedule -----------------------------
(***************************************************************************)
(* mu_schedule() (src/lib/src/mu_schedule.cpp) under a main() that calls   *)
(* it several times, as the fused kernels do (for instance                 *)
(* src/kernels/rope_qkv_fused/kernel.cpp).                                 *)
(*                                                                         *)
(* vx_wspawn() enters a function without arguments, so the callback, its   *)
(* argument and the occupancy go through schedule_context, one line of     *)
(* .bss.  The L0d that caches the line is private to a core, writes back   *)
(* and is not coherent: every core therefore writes its own copy, and its  *)
(* warps read it back when they start.  A core's warp 0 is its manager: it *)
(* runs main(), mu_schedule() and its own share of the kernel; the workers *)
(* only run their share, and nothing waits for a worker to retire.         *)
(*                                                                         *)
(* A word of the context is the number of the launch that wrote it, or 0.  *)
(***************************************************************************)
EXTENDS Integers, FiniteSets, Sequences

CONSTANTS NumCores,     \* MU_NUM_CORES
          WarpsPerCore, \* MU_NUM_WARPS
          NumItems,     \* elements that the grid-stride loop of a body covers
          Programs      \* the programs of which one runs

Cores == 0 .. NumCores - 1
Warps == Cores \X (0 .. WarpsPerCore - 1) \* <<core, warp_id_in_core>>
Words == {"callback", "arg", "occupancy"}

ASSUME SizeAssumption ==
  NumCores \in Nat \ {0} /\ WarpsPerCore \in Nat \ {0} /\ NumItems \in Nat
ASSUME ProgramsAssumption ==
  /\ Programs \subseteq
     [launches : Seq([occupancy : 1 .. WarpsPerCore, \* third argument of mu_schedule()
                      endsInBarrier : BOOLEAN]),     \* the body ends in mu_barrier(1, nw)
      evictions : BOOLEAN] \* other accesses may evict the context's line
  /\ \A p \in Programs : p.launches # <<>>

VARIABLES
  program, \* the program that runs
  launch,  \* the launch that each core's manager is in
  pc,      \* where each warp is
  line,    \* schedule_context in the L0d of each core
  mem,     \* schedule_context in the memory that the cores share
  reg,     \* the words that each warp has read
  born,    \* history: the launch that last started each warp
  arrived, \* the warps that wait at each of the barriers 0 and 1
  done     \* done[l]: who ran the body of launch l, with which occupancy

vars == <<program, launch, pc, line, mem, reg, born, arrived, done>>

Program == program.launches \* of main(), in order
Launches == 1 .. Len(Program)
Manager(c) == <<c, 0>>
Stages == {"idle", "callback", "arg", "occupancy", "rendezvous", "spawn",
           "readOccupancy", "readCallback", "readArg", "body", "atEnd", "return",
           "main", "exit"}
Context == [Words -> 0 .. Len(Program)]
Unwritten == [x \in Words |-> 0]
OccupancyOf(l) == IF l \in Launches THEN Program[l].occupancy ELSE 0
LaunchWarps(l) == {w \in Warps : w[2] < OccupancyOf(l)}

TypeOK ==
  /\ program \in Programs
  /\ launch \in [Cores -> Launches]
  /\ pc \in [Warps -> Stages]
  /\ line \in [Cores -> [state : {"invalid", "clean", "dirty"}, val : Context]]
  /\ mem \in Context
  /\ reg \in [Warps -> Context]
  /\ born \in [Warps -> 0 .. Len(Program)]
  /\ arrived \in [0 .. 1 -> SUBSET Warps]
  /\ done \in [Launches -> SUBSET (Warps \X (0 .. WarpsPerCore))]

Init ==
  /\ program \in Programs
  /\ launch = [c \in Cores |-> 1]
  /\ pc = [w \in Warps |-> IF w[2] = 0 THEN "callback" ELSE "idle"]
  /\ line = [c \in Cores |-> [state |-> "invalid", val |-> Unwritten]]
  /\ mem = Unwritten
  /\ reg = [w \in Warps |-> Unwritten]
  /\ born = [w \in Warps |-> IF w[2] = 0 THEN 1 ELSE 0]
  /\ arrived = [b \in 0 .. 1 |-> {}]
  /\ done = [l \in Launches |-> {}]

-----------------------------------------------------------------------------
(* What the code uses of the machine                                       *)

(* What an access of core c finds: a miss fetches the line.                *)
Seen(c) == IF line[c].state = "invalid" THEN mem ELSE line[c].val

Load(c) ==
  line' = [line EXCEPT ![c].state = IF @ = "invalid" THEN "clean" ELSE @,
                       ![c].val = Seen(c)]

Store(c, word, l) ==
  line' = [line EXCEPT ![c] = [state |-> "dirty",
                               val |-> [Seen(c) EXCEPT ![word] = l]]]

(* An access of another line in the same set by warp w of the core.  The   *)
(* manager makes none while it writes the context: the three stores, the   *)
(* fence and the barrier follow one another.                               *)
Evict(w) ==
  /\ program.evictions
  /\ pc[w] \in {"spawn", "body", "return", "main"}
  /\ line[w[1]].state # "invalid"
  /\ mem' = IF line[w[1]].state = "dirty" THEN line[w[1]].val ELSE mem
  /\ line' = [line EXCEPT ![w[1]] = [state |-> "invalid", val |-> Unwritten]]
  /\ UNCHANGED <<program, launch, pc, reg, born, arrived, done>>

(* mu_barrier(b, n): the n-th warp to arrive lets all of them pass.        *)
Arrive(w, b, n) ==
  LET all == arrived[b] \cup {w}
  IN arrived' = [arrived EXCEPT ![b] = IF Cardinality(all) = n THEN {} ELSE all]

Passed(w, b) == w \notin arrived[b]

Goto(w, stage) == pc' = [pc EXCEPT ![w] = stage]

-----------------------------------------------------------------------------
(* mu_schedule()                                                           *)

(* Mutant: only core 0 writes the context, once for the cluster.           *)
WriteCallbackOnce(c) ==
  /\ pc[Manager(c)] = "callback"
  /\ IF c = 0 THEN Store(c, "callback", launch[c]) ELSE UNCHANGED line
  /\ Goto(Manager(c), "arg")
  /\ UNCHANGED <<launch, mem, reg, born, arrived, done>>

WriteCallback(c) ==
  /\ pc[Manager(c)] = "callback"
  /\ Store(c, "callback", launch[c])
  /\ Goto(Manager(c), "arg")
  /\ UNCHANGED <<launch, mem, reg, born, arrived, done>>

WriteArg(c) ==
  /\ pc[Manager(c)] = "arg"
  /\ Store(c, "arg", launch[c])
  /\ Goto(Manager(c), "occupancy")
  /\ UNCHANGED <<launch, mem, reg, born, arrived, done>>

(* Mutant: the barrier counts the warps of the launch, not its managers.   *)
WriteOccupancyCountsWarps(c) ==
  /\ pc[Manager(c)] = "occupancy"
  /\ Store(c, "occupancy", launch[c])
  /\ Goto(Manager(c), "rendezvous")
  /\ Arrive(Manager(c), 0, NumCores * OccupancyOf(launch[c]))
  /\ UNCHANGED <<launch, mem, reg, born, done>>

(* ... mu_fence() moves nothing; then mu_barrier(0, MU_NUM_CORES).         *)
WriteOccupancy(c) ==
  /\ pc[Manager(c)] = "occupancy"
  /\ Store(c, "occupancy", launch[c])
  /\ Goto(Manager(c), "rendezvous")
  /\ Arrive(Manager(c), 0, NumCores)
  /\ UNCHANGED <<launch, mem, reg, born, done>>

Meet(c) ==
  /\ pc[Manager(c)] = "rendezvous" /\ Passed(Manager(c), 0)
  /\ Goto(Manager(c), "spawn")
  /\ UNCHANGED <<launch, line, mem, reg, born, arrived, done>>

(* vx_wspawn(occupancy, mu_schedule_workers), then the manager's own part. *)
(* What the machine does with a worker that still runs is not defined: it  *)
(* starts over or goes on with what it was doing.                          *)
Spawn(c) ==
  LET named == {w \in LaunchWarps(launch[c]) : w[1] = c}
      busy == {w \in named : w[2] # 0 /\ pc[w] # "idle"}
  IN /\ pc[Manager(c)] = "spawn"
     /\ \E kept \in SUBSET busy :
          /\ pc' = [w \in Warps |-> IF w \in named \ kept THEN "readOccupancy" ELSE pc[w]]
          /\ born' = [w \in Warps |-> IF w \in named \ kept THEN launch[c] ELSE born[w]]
     /\ UNCHANGED <<launch, line, mem, reg, arrived, done>>

-----------------------------------------------------------------------------
(* mu_schedule_standalone(), in the manager and the workers                *)

Read(w, stage, word, next) ==
  /\ pc[w] = stage
  /\ Load(w[1])
  /\ reg' = [reg EXCEPT ![w][word] = Seen(w[1])[word]]
  /\ Goto(w, next)
  /\ UNCHANGED <<launch, mem, born, arrived, done>>

ReadOccupancy(w) == Read(w, "readOccupancy", "occupancy", "readCallback")
ReadCallback(w) == Read(w, "readCallback", "callback", "readArg")
ReadArg(w) == Read(w, "readArg", "arg", "body")

(* Mutant: warps are ranked core by core, whatever the occupancy is.       *)
RankByCore(w) == w[1] * NumCores + w[2]

(* warp_id_rr_in_cluster: the rank of a warp among the warps of the block. *)
Rank(w) == w[2] * NumCores + w[1]

(* for (i = tid; i < n; i += threads_per_threadblock), a warp at a time.   *)
ItemsOf(w, occupancy) ==
  {i \in 0 .. NumItems - 1 : i % (NumCores * occupancy) = Rank(w)}

(* Mutant: the barrier waits for the warps of one core.                    *)
EndBarrierOneCore(w) == OccupancyOf(reg[w].occupancy)

(* callback(arg, ...).  A body that ends in a barrier waits for nw warps,  *)
(* nw = threads_per_threadblock / MU_NUM_THREADS.                          *)
EndBarrierWarps(w) == NumCores * OccupancyOf(reg[w].occupancy)

Body(w) ==
  LET l == reg[w].callback
  IN /\ pc[w] = "body"
     /\ l \in Launches
     /\ done' = [done EXCEPT ![l] = @ \cup {<<w, OccupancyOf(reg[w].occupancy)>>}]
     /\ IF Program[l].endsInBarrier
        THEN Goto(w, "atEnd") /\ Arrive(w, 1, EndBarrierWarps(w))
        ELSE Goto(w, "return") /\ UNCHANGED arrived
     /\ UNCHANGED <<launch, line, mem, reg, born>>

LeaveBody(w) ==
  /\ pc[w] = "atEnd" /\ Passed(w, 1)
  /\ Goto(w, "return")
  /\ UNCHANGED <<launch, line, mem, reg, born, arrived, done>>

(* mu_schedule_workers: vx_tmc_zero().                                     *)
Retire(w) ==
  /\ pc[w] = "return" /\ w[2] # 0
  /\ Goto(w, "idle")
  /\ UNCHANGED <<launch, line, mem, reg, born, arrived, done>>

(* mu_schedule_manager returns to main(), which calls                      *)
(* mu_barrier(0, MU_NUM_CORES) before its next launch.                     *)
Return(c) ==
  /\ pc[Manager(c)] = "return"
  /\ Goto(Manager(c), "main")
  /\ Arrive(Manager(c), 0, NumCores)
  /\ UNCHANGED <<launch, line, mem, reg, born, done>>

(* Mutant: main() makes one launch too many.                               *)
NextLaunchUnbounded(c) ==
  /\ pc[Manager(c)] = "main" /\ Passed(Manager(c), 0)
  /\ launch[c] <= Len(Program)
  /\ launch' = [launch EXCEPT ![c] = @ + 1]
  /\ Goto(Manager(c), "callback")
  /\ UNCHANGED <<line, mem, reg, born, arrived, done>>

NextLaunch(c) ==
  /\ pc[Manager(c)] = "main" /\ Passed(Manager(c), 0)
  /\ launch[c] < Len(Program)
  /\ launch' = [launch EXCEPT ![c] = @ + 1]
  /\ Goto(Manager(c), "callback")
  /\ UNCHANGED <<line, mem, reg, born, arrived, done>>

Finish(c) ==
  /\ pc[Manager(c)] = "main" /\ Passed(Manager(c), 0)
  /\ launch[c] = Len(Program)
  /\ Goto(Manager(c), "exit")
  /\ UNCHANGED <<launch, line, mem, reg, born, arrived, done>>

ManagerStep(c) ==
  /\ UNCHANGED program
  /\ \/ WriteCallback(c) \/ WriteArg(c) \/ WriteOccupancy(c) \/ Meet(c) \/ Spawn(c)
     \/ Return(c) \/ NextLaunch(c) \/ Finish(c)

WarpStep(w) ==
  /\ UNCHANGED program
  /\ \/ ReadOccupancy(w) \/ ReadCallback(w) \/ ReadArg(w)
     \/ Body(w) \/ LeaveBody(w) \/ Retire(w)

Quiet == \A w \in Warps : pc[w] \in {"idle", "exit"}
Ended == Quiet /\ UNCHANGED vars \* main() has reported; nothing runs any more

Next ==
  \/ \E c \in Cores : ManagerStep(c)
  \/ \E w \in Warps : WarpStep(w) \/ Evict(w)
  \/ Ended

Spec == Init /\ [][Next]_vars

(* Each warp is issued as long as it is not at a barrier.                  *)
FairSpec ==
  /\ Spec
  /\ \A c \in Cores : WF_vars(ManagerStep(c))
  /\ \A w \in Warps : WF_vars(WarpStep(w))

-----------------------------------------------------------------------------
(* A launch that all its warps have entered before main() goes on, since   *)
(* its body ends in a barrier of them all, or after which main() makes no  *)
(* other.  Otherwise a slow worker finds the context of the next launch.   *)
Sealed(l) == l = Len(Program) \/ Program[l].endsInBarrier

(* A warp enters a body with the callback, the argument and the occupancy  *)
(* of the launch that started it, wherever its core's copy of the line has *)
(* been meanwhile: mu_schedule.cpp:101-111, which replaced a version where *)
(* only one core wrote the context.                                        *)
ContextIsMine ==
  \A w \in Warps :
    pc[w] = "body" /\ Sealed(born[w]) => \A x \in Words : reg[w][x] = born[w]

(* The warps of a launch divide the elements among themselves: none is     *)
(* covered twice, and when all has come to rest none is left out           *)
(* (the thread mapping of mu_schedule.cpp:42-55 under the loops of the     *)
(* bodies, which start at tid and advance by threads_per_threadblock).     *)
WorkIsDivided ==
  \A l \in Launches : (\A k \in 1 .. l : Sealed(k)) =>
    /\ \A u, v \in done[l] : u # v => ItemsOf(u[1], u[2]) \cap ItemsOf(v[1], v[2]) = {}
    /\ Quiet => UNION {ItemsOf(u[1], u[2]) : u \in done[l]} = 0 .. NumItems - 1

Complete(l) == \A w \in LaunchWarps(l) : \E u \in done[l] : u[1] = w

(* Where the body of a launch ends in a barrier of all its warps, no later *)
(* launch begins before each of them has done its part: what               *)
(* rope_qkv_fused (kernel.cpp:62-71) relies on to read C in shared memory. *)
PhaseOrder ==
  \A w \in Warps :
    pc[w] = "body" =>
      \A l \in 1 .. reg[w].callback - 1 : Program[l].endsInBarrier => Complete(l)

(* The guards of the steps, spelled out.                                   *)
ManagerMayStep(c) ==
  \/ pc[Manager(c)] \in {"callback", "arg", "occupancy", "spawn", "return"}
  \/ pc[Manager(c)] \in {"rendezvous", "main"} /\ Passed(Manager(c), 0)

WarpMayStep(w) ==
  \/ pc[w] \in {"readOccupancy", "readCallback", "readArg"}
  \/ pc[w] = "body" /\ reg[w].callback \in Launches
  \/ pc[w] = "atEnd" /\ Passed(w, 1)
  \/ pc[w] = "return" /\ w[2] # 0

(* Before a kernel has come to rest some warp can go on: neither barrier   *)
(* waits for a warp that does not come.                                    *)
NeverStuck == Quiet \/ (\E c \in Cores : ManagerMayStep(c)) \/ (\E w \in Warps : WarpMayStep(w))

(* How far a warp is: in which launch, and where in it.                    *)
LaunchOf(w) == IF w[2] = 0 THEN launch[w[1]] ELSE born[w]

Along(stage) ==
  CASE stage = "callback" -> 1 [] stage = "arg" -> 2 [] stage = "occupancy" -> 3
    [] stage = "rendezvous" -> 4 [] stage = "spawn" -> 5 [] stage = "readOccupancy" -> 6
    [] stage = "readCallback" -> 7 [] stage = "readArg" -> 8 [] stage = "body" -> 9
    [] stage = "atEnd" -> 10 [] stage = "return" -> 11 [] stage = "main" -> 12
    [] OTHER -> 13

GoesOn(w) ==
  \/ LaunchOf(w) < LaunchOf(w)'
  \/ LaunchOf(w) = LaunchOf(w)' /\ Along(pc[w]) < Along(pc'[w])

AWarpGoesOn ==
  /\ \A w \in Warps : GoesOn(w) \/ (LaunchOf(w)' = LaunchOf(w) /\ pc'[w] = pc[w])
  /\ \E w \in Warps : GoesOn(w)

(* A core loses its copy of the line, and gets another by a step of a warp *)
(* only.                                                                   *)
ALineGoes ==
  /\ UNCHANGED <<launch, pc, born>>
  /\ \E c \in Cores :
       /\ line[c].state # "invalid" /\ line'[c].state = "invalid"
       /\ \A d \in Cores \ {c} : line'[d] = line[d]

(* Every step brings a warp on, or takes a core its copy of the context.   *)
(* Launches and stages are finite in number: a kernel makes a bounded      *)
(* number of steps.                                                        *)
EveryStepCounts == [][AWarpGoesOn \/ ALineGoes]_vars

(* A kernel comes to rest (mu_schedule returns in every      *)
(* manager and every worker retires).                                      *)
ComesToRest == <>Quiet

(* rmsnorm_qkv_fused/kernel.cpp:153: "Drain the prologue's GMEM stores to  *)
(* A_store before the Gemmini DMA reads it".  The prologue does not end in *)
(* a barrier, and main() waits for the other manager only.                 *)
PrologueStored ==
  \A w \in Warps : pc[w] = "body" /\ reg[w].callback = 2 => Complete(1)

=============================================================================
