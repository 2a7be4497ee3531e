------------------------------ MODULE VxSpawn ------------------------------
(***************************************************************************)
(* How the run-time library spreads tasks over cores, warps and threads    *)
(* (src/lib/src/vx_spawn.c).  Every core calls the same function with its  *)
(* warp 0, computes its share, leaves the arguments of the stubs in a      *)
(* record on its own stack, spawns its other warps, works with them, waits *)
(* until they are gone and runs what is left with some of its threads.     *)
(*                                                                         *)
(* A behaviour is one call.  A call of vx_spawn_kernel is a grid of work   *)
(* groups; the other functions have a number of tasks, written as a grid   *)
(* of one row.                                                             *)
(***************************************************************************)
EXTENDS Integers, FiniteSets

CONSTANTS NumCores,        \* vx_num_cores()
          NumWarps,        \* vx_num_warps(), of a core
          NumThreads,      \* vx_num_threads(), of a warp
          CoresPerCluster, \* CORES_PER_CLUSTER
          Calls            \* [api, groups]

ASSUME DeviceAssumption ==
  /\ NumCores \in 1 .. 1024 \* NUM_CORES_MAX, the size of g_wspawn_args
  /\ NumWarps \in Nat \ {0} /\ NumThreads \in Nat \ {0}
  /\ CoresPerCluster \in Nat \ {0}
ASSUME CallsAssumption ==
  Calls \subseteq [api : {"tasks", "contiguous", "cluster", "kernel"},
                   groups : Nat \X Nat \X Nat]

Cores == 0 .. NumCores - 1
Warps == Cores \X (0 .. NumWarps - 1)
Threads == 0 .. NumThreads - 1
Manager(c) == <<c, 0>>
Workers(c) == {c} \X (1 .. NumWarps - 1)

VARIABLES
  call, \* the call that all cores make
  pc,   \* where each warp is
  args, \* g_wspawn_args of each core: offset, NWs and RWs
  ran   \* the tasks that have run: [task, by]

vars == <<call, pc, args, ran>>

Stages == {"idle", "entry", "spawn", "share", "wait", "rest", "returned"}

-----------------------------------------------------------------------------
(* The share of a core                                                     *)

NumTasks == call.groups[1] * call.groups[2] * call.groups[3]
CeilDiv(n, m) == (n + m - 1) \div m
Smaller(m, n) == IF m < n THEN m ELSE n

(* vx_spawn_tasks, vx_spawn_tasks_contiguous, vx_spawn_kernel: equal parts *)
(* for as many cores as can be filled, the remainder for the last of them. *)
CoreThreads == NumWarps * NumThreads
ActiveCores ==
  Smaller(IF NumTasks > CoreThreads THEN NumTasks \div CoreThreads ELSE 1, NumCores)
PerCore == NumTasks \div ActiveCores

EqualTasks(c) ==
  PerCore + IF c = ActiveCores - 1 THEN NumTasks - ActiveCores * PerCore ELSE 0

EqualShare(c) ==
  LET tasks == EqualTasks(c)
      warps == tasks \div NumThreads \* TW
      rest == tasks % NumThreads     \* rT
      full == IF warps >= NumWarps THEN warps \div NumWarps ELSE 1
  IN [active |-> c < ActiveCores,
      warps |-> warps,
      args |-> [offset |-> c * PerCore,
                NWs |-> full,
                RWs |-> IF warps >= NumWarps THEN warps - full * NumWarps ELSE 0],
      rest |-> rest,
      skip |-> tasks - rest]

(* vx_spawn_tasks_cluster: whole clusters first, warps in turn over the    *)
(* cores of a cluster, the threads left over on its first core.            *)
ClusterThreads == CoresPerCluster * CoreThreads
ClusterOf(c) == c \div CoresPerCluster
InCluster(c) == c % CoresPerCluster

ClusterTasks(c) ==
  IF ClusterOf(c) < NumTasks \div ClusterThreads THEN ClusterThreads
                                                 ELSE NumTasks % ClusterThreads

ClusterShare(c) ==
  LET tasks == ClusterTasks(c)
      rows == tasks \div NumThreads \* full warps of the cluster
      rest == tasks % NumThreads
      warps == rows \div CoresPerCluster
               + IF InCluster(c) < rows % CoresPerCluster THEN 1 ELSE 0
  IN [active |-> /\ ClusterOf(c) < CeilDiv(NumTasks, ClusterThreads)
                 /\ c < CeilDiv(NumTasks, NumThreads),
      warps |-> warps,
      args |-> [offset |-> ClusterOf(c) * tasks,
                NWs |-> warps \div NumWarps,
                RWs |-> warps % NumWarps],
      rest |-> IF InCluster(c) = 0 THEN rest ELSE 0,
      skip |-> tasks - rest]

Share(c) == IF call.api = "cluster" THEN ClusterShare(c) ELSE EqualShare(c)

-----------------------------------------------------------------------------
(* The tasks of a thread                                                   *)

(* Mutant: warps below RWs do more, the others begin as if none did.       *)
FirstRowUnshifted(a, wid) == a.NWs * wid

(* wK and tK of spawn_tasks_all_stub and spawn_kernel_all_stub.            *)
FirstRow(a, wid) == a.NWs * wid + Smaller(a.RWs, wid)
Turns(a, wid) == a.NWs + IF wid < a.RWs THEN 1 ELSE 0

(* The task numbers of thread tid of a warp in the stub for all threads,   *)
(* whose core's record is a.                                               *)
StubTasks(a, w, tid) ==
  LET wid == w[2]
      rank == CoresPerCluster * wid + InCluster(w[1]) \* wid_in_cluster
      turns == 0 .. Turns(a, wid) - 1
  IN CASE call.api = "contiguous" ->
            {a.offset + NumThreads * wid + tid + i * CoreThreads : i \in turns}
       [] call.api = "cluster" ->
            {a.offset + NumThreads * rank + tid + i * ClusterThreads : i \in turns}
       [] OTHER ->
            {a.offset + FirstRow(a, wid) * NumThreads + tid * Turns(a, wid) + i : i \in turns}

(* 1 << n; is_log2, log2_fast.                                             *)
Power[n \in Nat] == IF n = 0 THEN 1 ELSE 2 * Power[n - 1]
IsLog2(n) == \E e \in 0 .. n : Power[e] = n
Log2(n) == CHOOSE e \in 0 .. n : Power[e] <= n /\ n < Power[e + 1]

(* What the shifts below rely on: if X * Y is a power of two then so is X, *)
(* and log2_fast is exact for both.                                        *)
LogsExact ==
  \A k \in Calls :
    LET X == k.groups[1]
        XY == k.groups[1] * k.groups[2]
    IN k.api = "kernel" /\ IsLog2(XY) => Power[Log2(XY)] = XY /\ Power[Log2(X)] = X

(* The work group of a number: two shifts if X * Y is a power of two, two  *)
(* divisions if not.                                                       *)
Group(id) ==
  LET X == call.groups[1]
      XY == call.groups[1] * call.groups[2]
      k == IF IsLog2(XY) THEN id \div Power[Log2(XY)] ELSE id \div XY
      flat == id - k * XY
      j == IF IsLog2(XY) THEN flat \div Power[Log2(X)] ELSE flat \div X
  IN <<flat - j * X, j, k>>

TaskOf(id) == IF call.api = "kernel" THEN Group(id) ELSE id

Runs(ids, by) == {[task |-> TaskOf(id), by |-> by] : id \in ids}

-----------------------------------------------------------------------------
TypeOK ==
  /\ call \in Calls
  /\ pc \in [Warps -> Stages]
  /\ args \in [Cores -> [offset : Nat, NWs : Nat, RWs : Nat]]
  /\ \A r \in ran : r.by[1] \in Warps /\ r.by[2] \in Threads

Init ==
  /\ call \in Calls
  /\ pc = [w \in Warps |-> IF w[2] = 0 THEN "entry" ELSE "idle"]
  /\ args = [c \in Cores |-> [offset |-> 0, NWs |-> 0, RWs |-> 0]]
  /\ ran = {}

Goto(w, stage) == pc' = [pc EXCEPT ![w] = stage]

(* A core beyond those that are needed returns at once.                    *)
Terminate(c) ==
  /\ pc[Manager(c)] = "entry"
  /\ ~Share(c).active
  /\ Goto(Manager(c), "returned")
  /\ UNCHANGED <<call, args, ran>>

Enter(c) ==
  /\ pc[Manager(c)] = "entry"
  /\ Share(c).active
  /\ args' = [args EXCEPT ![c] = Share(c).args]
  /\ Goto(Manager(c), IF Share(c).warps > 0 THEN "spawn" ELSE "rest")
  /\ UNCHANGED <<call, ran>>

(* vx_wspawn(min(warps, NW), stub); warp 0 calls the stub itself.          *)
Spawn(c) ==
  /\ pc[Manager(c)] = "spawn"
  /\ pc' = [w \in Warps |->
              IF w[1] = c /\ w[2] < Smaller(Share(c).warps, NumWarps) THEN "share" ELSE pc[w]]
  /\ UNCHANGED <<call, args, ran>>

(* The stub for all threads; then a worker disables itself.                *)
RunShare(w) ==
  /\ pc[w] = "share"
  /\ ran' = ran \cup UNION {Runs(StubTasks(args[w[1]], w, tid), <<w, tid, "share">>)
                              : tid \in Threads}
  /\ Goto(w, IF w[2] = 0 THEN "wait" ELSE "idle")
  /\ UNCHANGED <<call, args>>

(* Mutant: the warp mask is awaited to become empty.                       *)
WaitForNone(c) ==
  /\ pc[Manager(c)] = "wait"
  /\ \A w \in Warps : w[1] = c => pc[w] = "idle"
  /\ Goto(Manager(c), "rest")
  /\ UNCHANGED <<call, args, ran>>

(* Mutant: no vx_wspawn_wait().                                            *)
WaitSkipped(c) ==
  /\ pc[Manager(c)] = "wait"
  /\ Goto(Manager(c), "rest")
  /\ UNCHANGED <<call, args, ran>>

(* vx_wspawn_wait: until warp 0 is the only one.                           *)
Wait(c) ==
  /\ pc[Manager(c)] = "wait"
  /\ \A w \in Workers(c) : pc[w] = "idle"
  /\ Goto(Manager(c), "rest")
  /\ UNCHANGED <<call, args, ran>>

(* Mutant: the offset of the record is moved back.                         *)
RunRestBackwards(c) ==
  /\ pc[Manager(c)] = "rest"
  /\ Share(c).rest > 0
  /\ args' = [args EXCEPT ![c].offset = @ - Share(c).skip]
  /\ ran' = ran \cup UNION {Runs({args'[c].offset + tid}, <<Manager(c), tid, "rest">>)
                              : tid \in 0 .. Share(c).rest - 1}
  /\ Goto(Manager(c), "returned")
  /\ UNCHANGED call

(* The remaining threads, with the offset of the record moved on.          *)
RunRest(c) ==
  /\ pc[Manager(c)] = "rest"
  /\ Share(c).rest > 0
  /\ args' = [args EXCEPT ![c].offset = @ + Share(c).skip]
  /\ ran' = ran \cup UNION {Runs({args'[c].offset + tid}, <<Manager(c), tid, "rest">>)
                              : tid \in 0 .. Share(c).rest - 1}
  /\ Goto(Manager(c), "returned")
  /\ UNCHANGED call

NoRest(c) ==
  /\ pc[Manager(c)] = "rest"
  /\ Share(c).rest = 0
  /\ Goto(Manager(c), "returned")
  /\ UNCHANGED <<call, args, ran>>

CoreStep(c) ==
  Terminate(c) \/ Enter(c) \/ Spawn(c) \/ Wait(c) \/ RunRest(c) \/ NoRest(c)

Returned == \A c \in Cores : pc[Manager(c)] = "returned"
Ended == Returned /\ UNCHANGED vars

Next == (\E c \in Cores : CoreStep(c)) \/ (\E w \in Warps : RunShare(w)) \/ Ended

Spec == Init /\ [][Next]_vars

(* Every core issues its warps.                                            *)
FairSpec ==
  /\ Spec
  /\ \A c \in Cores : WF_vars(CoreStep(c))
  /\ \A w \in Warps : WF_vars(RunShare(w))

-----------------------------------------------------------------------------
AllTasks ==
  IF call.api = "kernel"
  THEN (0 .. call.groups[1] - 1) \X (0 .. call.groups[2] - 1) \X (0 .. call.groups[3] - 1)
  ELSE 0 .. NumTasks - 1

(* No task runs twice or outside the grid, and when every core has         *)
(* returned none is left: the offsets, turns and remainders that cores,    *)
(* warps and threads compute apart from each other fit together.           *)
EachTaskOnce ==
  /\ \A r \in ran : r.task \in AllTasks
  /\ \A r, s \in ran : r.task = s.task => r = s
  /\ Returned => {r.task : r \in ran} = AllTasks

(* The invariant behind NoWorkerOutlivesCall: a worker is awake only while *)
(* warp 0 of its core works beside it or waits for it.                     *)
WorkersAwaited ==
  \A c \in Cores : \A w \in Workers(c) :
    /\ pc[w] \in {"idle", "share"}
    /\ pc[w] = "share" => pc[Manager(c)] \in {"share", "wait"}

(* The record of the stubs' arguments lives on the stack of warp 0: no     *)
(* warp of the core is still to read it when warp 0 changes its offset or  *)
(* returns.                                                                *)
NoWorkerOutlivesCall ==
  \A c \in Cores :
    pc[Manager(c)] \in {"rest", "returned"} => \A w \in Workers(c) : pc[w] = "idle"

(* The guards of the steps of core c.                                      *)
CoreMayStep(c) ==
  \/ pc[Manager(c)] \in {"entry", "spawn"}
  \/ pc[Manager(c)] = "wait" /\ \A w \in Workers(c) : pc[w] = "idle"
  \/ pc[Manager(c)] = "rest" /\ (Share(c).rest > 0 \/ Share(c).rest = 0)
  \/ \E w \in Warps : w[1] = c /\ pc[w] = "share"

(* No core is ever stuck: until it has returned warp 0, or a warp that it  *)
(* has spawned, has a step to take, whatever the other cores do            *)
(* (vx_spawn.c:266, 342, 414, 576).                                        *)
NoCoreIsStuck == \A c \in Cores : pc[Manager(c)] = "returned" \/ CoreMayStep(c)

(* How far a warp has come in the call; a worker that is idle again is     *)
(* further than one that is idle still.                                    *)
Progress(w) ==
  IF w[2] = 0
  THEN CASE pc[w] = "idle" -> 0
         [] pc[w] = "entry" -> 1
         [] pc[w] = "spawn" -> 2
         [] pc[w] = "share" -> 3
         [] pc[w] = "wait" -> 4
         [] pc[w] = "rest" -> 5
         [] pc[w] = "returned" -> 6
  ELSE CASE pc[w] = "share" -> 1
         [] pc[w] # "share" /\ pc[Manager(w[1])] \in {"entry", "spawn"} -> 0
         [] pc[w] # "share" /\ pc[Manager(w[1])] \notin {"entry", "spawn"} -> 2

(* Every step brings a warp further and none back, so that a call is over  *)
(* after at most five steps of each core's warp 0 and two of every other:  *)
(* no warp spins, and none is spawned twice (vx_spawn.c).                  *)
EveryStepCounts ==
  [][/\ \A w \in Warps : Progress(w) <= Progress(w)'
     /\ \E w \in Warps : Progress(w) < Progress(w)']_vars

(* Every core returns from the call.                                       *)
CallReturns == <>Returned
=============================================================================
