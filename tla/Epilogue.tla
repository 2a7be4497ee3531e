------------------------------ MODULE Epilogue ------------------------------
(***************************************************************************)
(* One launch of a tapeout kernel, warp by warp: rad_tapeout_begin(),      *)
(* mu_schedule()'s rendezvous and spawn, a kernel body in which every warp *)
(* stores one line of output, and rad_tapeout_epilogue()                   *)
(* (src/lib/include/rad_tapeout.h).                                        *)
(*                                                                         *)
(* The point of the epilogue is to carry the output to DRAM without a      *)
(* flush unit.  A line waits in its warp's store queue, lands in the L0d   *)
(* of its core (private, direct mapped), is evicted to the L1 of the       *)
(* cluster and from there to DRAM.  Stores and evictions move on their own *)
(* at any time; a drain forces the eviction of one cache set after the     *)
(* other.  mu_fence() retires at the head of the warp's queue and does not *)
(* wait for the L0d to accept the store, so it moves nothing: what the     *)
(* code relies on is that stores land during its pauses, and LandBy says   *)
(* during which.                                                           *)
(***************************************************************************)
EXTENDS Postbox

CONSTANTS Occupancy,   \* warps per core
          StopSlots,   \* STOP slots that rad_tapeout_begin() clears: 8
          NumSets,     \* sets of the L0d and of the L1
          SetOf,       \* SetOf[w]: the set of the line that warp w stores
          LandBy,      \* the pauses by whose end earlier stores have landed
          PollExpires  \* TRUE: the 2000000 polls for a STOP may run out

NumWarps == NumCores * Occupancy \* warps_per_block
Warps == 0 .. NumWarps - 1       \* warp_rr = warp_in_core * NumCores + core

ASSUME OccupancyAssumption == Occupancy \in Nat \ {0}
ASSUME StopSlotsAssumption == StopSlots \in Nat
ASSUME SetsAssumption == NumSets \in Nat \ {0} /\ SetOf \in [Warps -> 0 .. NumSets - 1]
ASSUME LandByAssumption == LandBy \subseteq {"pause", "settle"}
ASSUME PollAssumption == PollExpires \in BOOLEAN

VARIABLES
  start, \* START slot of each core
  done,  \* TRUE: the DONE slot of the core holds RAD_EPI_DONE_MAGIC
  stop,  \* TRUE: the STOP slot of the warp holds RAD_EPI_STOP_MAGIC
  trace, \* TRACE slot of each core
  pc,    \* where each warp is
  line,  \* where the line that each warp stores is
  walk,  \* the next set of the drain that each core's warp 0 is in
  polled \* warp 0 of each core: k of the loop over the STOP slots

vars == <<start, done, stop, trace, pc, line, walk, polled>>
box == <<start, done, stop, trace>>

(* warp_rr % NumCores; warp 0 of each core are the first NumCores warps.   *)
CoreOf(w) == w % NumCores
WarpsOf(c) == {w \in Warps : CoreOf(w) = c}

Drains == {"l0d1", "l1d1", "l0d2", "l1d2"}
Stages == {"idle", "begin", "ack", "sched", "rendezvous", "body", "atA", "pause",
           "settle", "atB", "tmc", "stopped", "poll", "parked"} \cup Drains
Traces == {"other", "none", "BARA", "DRAIN", "BARB", "POLLED"}

TypeOK ==
  /\ start \in [Cores -> Word]
  /\ done \in [Cores -> BOOLEAN]
  /\ stop \in [Warps -> BOOLEAN]
  /\ trace \in [Cores -> Traces]
  /\ pc \in [Warps -> Stages]
  /\ line \in [Warps -> {"unwritten", "queue", "l0d", "l1", "dram"}]
  /\ walk \in [Cores -> 0 .. NumSets - 1]
  /\ polled \in [Cores -> 1 .. Occupancy]

Init ==
  /\ start \in [Cores -> {<<"junk", 0>>}]
  /\ done \in [Cores -> BOOLEAN]
  /\ \E leftover \in BOOLEAN : stop = [w \in Warps |-> leftover]
  /\ trace = [c \in Cores |-> "other"]
  /\ pc = [w \in Warps |-> IF w \in Cores THEN "begin" ELSE "idle"]
  /\ line = [w \in Warps |-> "unwritten"]
  /\ walk = [c \in Cores |-> 0]
  /\ polled = [c \in Cores |-> 1]

Goto(w, stage) == pc' = [pc EXCEPT ![w] = stage]

-----------------------------------------------------------------------------
(* rad_tapeout_begin and mu_schedule, in warp 0 of each core               *)

(* Mutant: the STOP slots keep what an earlier run posted.                 *)
BeginClearKeepsStops(c) ==
  /\ pc[c] = "begin"
  /\ done' = [done EXCEPT ![c] = FALSE]
  /\ trace' = [trace EXCEPT ![c] = "none"]
  /\ Goto(c, "ack")
  /\ UNCHANGED <<start, stop, line, walk, polled>>

BeginClear(c) ==
  /\ pc[c] = "begin"
  /\ done' = [done EXCEPT ![c] = FALSE]
  /\ trace' = [trace EXCEPT ![c] = "none"]
  /\ stop' = [w \in Warps |-> stop[w] /\ ~(CoreOf(w) = c /\ w < StopSlots)]
  /\ Goto(c, "ack")
  /\ UNCHANGED <<start, line, walk, polled>>

BeginAck(c) ==
  /\ pc[c] = "ack"
  /\ start' = [start EXCEPT ![c] = NextGen(start[c])]
  /\ Goto(c, "sched")
  /\ UNCHANGED <<done, stop, trace, line, walk, polled>>

(* mu_barrier(0, MU_NUM_CORES): no core passes before all have arrived.    *)
Schedule(c) ==
  /\ pc[c] = "sched"
  /\ Goto(c, "rendezvous")
  /\ UNCHANGED <<box, line, walk, polled>>

(* vx_wspawn(occupancy, ...) and the manager's own entry.                  *)
Spawn(c) ==
  /\ pc[c] = "rendezvous"
  /\ \A d \in Cores : pc[d] \notin {"begin", "ack", "sched"}
  /\ pc' = [w \in Warps |-> IF CoreOf(w) = c THEN "body" ELSE pc[w]]
  /\ UNCHANGED <<box, line, walk, polled>>

-----------------------------------------------------------------------------
(* The memory system (outside src/; as rad_tapeout.h describes it)         *)

(* A store leaves the queue; the line it displaces goes to the L1.         *)
Land(w) ==
  /\ line[w] = "queue"
  /\ line' = [v \in Warps |->
               IF v = w THEN "l0d"
               ELSE IF line[v] = "l0d" /\ CoreOf(v) = CoreOf(w) /\ SetOf[v] = SetOf[w]
                    THEN "l1" ELSE line[v]]
  /\ UNCHANGED <<box, pc, walk, polled>>

(* Other traffic of the kernel evicts a line.                              *)
Evict(w) ==
  /\ line[w] \in {"l0d", "l1"}
  /\ line' = [line EXCEPT ![w] = IF @ = "l0d" THEN "l1" ELSE "dram"]
  /\ UNCHANGED <<box, pc, walk, polled>>

-----------------------------------------------------------------------------
(* The kernel body and rad_tapeout_epilogue                                *)

(* The body ends; the warp arrives at barrier A.                           *)
Body(w) ==
  /\ pc[w] = "body"
  /\ line' = [line EXCEPT ![w] = "queue"]
  /\ Goto(w, "atA")
  /\ UNCHANGED <<box, walk, polled>>

Arrived(before) == \A w \in Warps : pc[w] \notin before
BeforeA == {"idle", "begin", "ack", "sched", "rendezvous", "body"}
BeforeB == BeforeA \cup {"atA", "pause", "settle"} \cup Drains

(* Mutant: no barrier A.                                                   *)
LeaveAEarly(w) ==
  /\ pc[w] = "atA"
  /\ IF w \in Cores
     THEN /\ trace' = [trace EXCEPT ![w] = "BARA"]
          /\ Goto(w, "pause")
     ELSE /\ UNCHANGED trace
          /\ Goto(w, "atB")
  /\ UNCHANGED <<start, done, stop, line, walk, polled>>

LeaveA(w) ==
  /\ pc[w] = "atA"
  /\ Arrived(BeforeA)
  /\ IF w \in Cores
     THEN /\ trace' = [trace EXCEPT ![w] = "BARA"]
          /\ Goto(w, "pause")
     ELSE /\ UNCHANGED trace
          /\ Goto(w, "atB")
  /\ UNCHANGED <<start, done, stop, line, walk, polled>>

(* Mutant: one drain pass instead of two.                                  *)
PauseSinglePass(c) ==
  /\ pc[c] \in {"pause", "settle"}
  /\ pc[c] \in LandBy => \A w \in WarpsOf(c) : line[w] # "queue"
  /\ Goto(c, IF pc[c] = "pause" THEN "l0d1" ELSE "atB")
  /\ UNCHANGED <<box, line, walk, polled>>

(* RAD_EPI_QUEUE_SPIN and the fence, RAD_EPI_SETTLE: every store issued    *)
(* before has landed by the end of the pause, if LandBy says so.           *)
Pause(c) ==
  /\ pc[c] \in {"pause", "settle"}
  /\ pc[c] \in LandBy => \A w \in WarpsOf(c) : line[w] # "queue"
  /\ Goto(c, IF pc[c] = "pause" THEN "l0d1" ELSE "l0d2")
  /\ UNCHANGED <<box, line, walk, polled>>

(* Mutant: the walk runs one set too far.                                  *)
WalkTooFar(c, beyond) ==
  IF walk[c] < NumSets
  THEN /\ walk' = [walk EXCEPT ![c] = @ + 1]
       /\ UNCHANGED <<pc, trace>>
  ELSE /\ walk' = [walk EXCEPT ![c] = 0]
       /\ Goto(c, beyond)
       /\ trace' = IF beyond = "atB" THEN [trace EXCEPT ![c] = "DRAIN"] ELSE trace

(* Go on to the next set, or end the drain.                                *)
Walk(c, beyond) ==
  IF walk[c] < NumSets - 1
  THEN /\ walk' = [walk EXCEPT ![c] = @ + 1]
       /\ UNCHANGED <<pc, trace>>
  ELSE /\ walk' = [walk EXCEPT ![c] = 0]
       /\ Goto(c, beyond)
       /\ trace' = IF beyond = "atB" THEN [trace EXCEPT ![c] = "DRAIN"] ELSE trace

(* rad_l0d_drain: a scratch store evicts what the set of this core holds.  *)
DrainL0d(c) ==
  /\ pc[c] \in {"l0d1", "l0d2"}
  /\ line' = [w \in Warps |->
               IF CoreOf(w) = c /\ line[w] = "l0d" /\ SetOf[w] = walk[c]
               THEN "l1" ELSE line[w]]
  /\ Walk(c, IF pc[c] = "l0d1" THEN "l1d1" ELSE "l1d2")
  /\ UNCHANGED <<start, done, stop, polled>>

(* rad_l1_drain: the L1 belongs to both cores.                             *)
DrainL1(c) ==
  /\ pc[c] \in {"l1d1", "l1d2"}
  /\ line' = [w \in Warps |->
               IF line[w] = "l1" /\ SetOf[w] = walk[c] THEN "dram" ELSE line[w]]
  /\ Walk(c, IF pc[c] = "l1d1" THEN "settle" ELSE "atB")
  /\ UNCHANGED <<start, done, stop, polled>>

(* Mutant: the guard of the worker branch is w > MU_NUM_CORES.             *)
PostStopSkipsOne(w) ==
  /\ pc[w] = "atB"
  /\ w > NumCores
  /\ Arrived(BeforeB)
  /\ stop' = [stop EXCEPT ![w] = TRUE]
  /\ Goto(w, "tmc")
  /\ UNCHANGED <<start, done, trace, line, walk, polled>>

(* Beyond barrier B every warp but its core's warp 0 posts STOP ...        *)
PostStop(w) ==
  /\ pc[w] = "atB"
  /\ w \notin Cores
  /\ Arrived(BeforeB)
  /\ stop' = [stop EXCEPT ![w] = TRUE]
  /\ Goto(w, "tmc")
  /\ UNCHANGED <<start, done, trace, line, walk, polled>>

(* ... and retires for good: vx_tmc_zero.                                  *)
Retire(w) ==
  /\ pc[w] = "tmc"
  /\ Goto(w, "stopped")
  /\ UNCHANGED <<box, line, walk, polled>>

LeaveB(c) ==
  /\ pc[c] = "atB"
  /\ Arrived(BeforeB)
  /\ trace' = [trace EXCEPT ![c] = "BARB"]
  /\ Goto(c, "poll")
  /\ UNCHANGED <<start, done, stop, line, walk, polled>>

(* Warp 0 waits for the STOP of warps NumCores * k + c, k = 1, 2, ...      *)
Awaited(c) == NumCores * polled[c] + c

PollStop(c) ==
  /\ pc[c] = "poll"
  /\ Awaited(c) < NumWarps
  /\ stop[Awaited(c)] \/ PollExpires
  /\ polled' = [polled EXCEPT ![c] = @ + 1]
  /\ UNCHANGED <<box, pc, line, walk>>

(* The trace, DONE, and the spin that only a reset ends.                   *)
PostDone(c) ==
  /\ pc[c] = "poll"
  /\ Awaited(c) >= NumWarps
  /\ trace' = [trace EXCEPT ![c] = "POLLED"]
  /\ done' = [done EXCEPT ![c] = TRUE]
  /\ Goto(c, "parked")
  /\ UNCHANGED <<start, stop, line, walk, polled>>

Warp0(c) ==
  \/ BeginClear(c) \/ BeginAck(c) \/ Schedule(c) \/ Spawn(c)
  \/ Pause(c) \/ DrainL0d(c) \/ DrainL1(c) \/ LeaveB(c) \/ PollStop(c) \/ PostDone(c)

AnyWarp(w) == Body(w) \/ LeaveA(w) \/ PostStop(w) \/ Retire(w)

Memory == \E w \in Warps : Land(w) \/ Evict(w)

Next == (\E c \in Cores : Warp0(c)) \/ (\E w \in Warps : AnyWarp(w)) \/ Memory

Spec == Init /\ [][Next]_vars

(* The warp scheduler of a core is fair, and a store does leave its queue. *)
FairSpec ==
  /\ Spec
  /\ \A c \in Cores : WF_vars(Warp0(c))
  /\ \A w \in Warps : WF_vars(AnyWarp(w)) /\ WF_vars(Land(w))

-----------------------------------------------------------------------------
(* Properties                                                              *)

Begun(c) == pc[c] # "begin"

(* When a core shows DONE, the output of every warp of the cluster, of the *)
(* other cores too, is in DRAM: the host may read it and reset the GPU.    *)
(* TRACE, which the host prints to explain a timeout, is honest as well: a *)
(* core that claims to have drained has its own output in DRAM, and one    *)
(* that claims to be beyond barrier B speaks for every core.               *)
DoneMeansDurable ==
  \A c \in Cores : Begun(c) =>
    /\ done[c] \/ trace[c] \in {"BARB", "POLLED"} => \A w \in Warps : line[w] = "dram"
    /\ trace[c] = "DRAIN" => \A w \in WarpsOf(c) : line[w] = "dram"

(* When a core shows DONE, its other warps are past their last shared      *)
(* memory access but STOP itself: the core is quiesced.                    *)
DoneMeansQuiesced ==
  \A c \in Cores :
    Begun(c) /\ done[c] => \A w \in WarpsOf(c) \ {c} : pc[w] \in {"tmc", "stopped"}

(* The guards of the steps of warp 0 of core c, and of warp w.             *)
Warp0MayStep(c) ==
  \/ pc[c] \in {"begin", "ack", "sched"} \cup Drains
  \/ pc[c] = "rendezvous" /\ \A d \in Cores : pc[d] \notin {"begin", "ack", "sched"}
  \/ pc[c] \in {"pause", "settle"} /\ (pc[c] \in LandBy => \A w \in WarpsOf(c) : line[w] # "queue")
  \/ pc[c] = "atB" /\ Arrived(BeforeB)
  \/ pc[c] = "poll" /\ (Awaited(c) < NumWarps => stop[Awaited(c)] \/ PollExpires)

WarpMayStep(w) ==
  \/ pc[w] \in {"body", "tmc"}
  \/ pc[w] = "atA" /\ Arrived(BeforeA)
  \/ pc[w] = "atB" /\ w \notin Cores /\ Arrived(BeforeB)

(* The launch is never stuck: until every core shows DONE a warp has a     *)
(* step to take, or a store is still to leave its queue; no warp is left   *)
(* at a barrier that others have passed, and no core polls a slot that     *)
(* nobody is going to set (rad_tapeout.h).                                 *)
NeverStuck ==
  \/ \A c \in Cores : pc[c] = "parked" /\ done[c]
  \/ \E c \in Cores : Warp0MayStep(c)
  \/ \E w \in Warps : WarpMayStep(w) \/ line[w] = "queue"

(* How far a warp has come, and the line that it stores.                   *)
Along(stage) ==
  CASE stage = "idle"       -> 0
    [] stage = "begin"      -> 1
    [] stage = "ack"        -> 2
    [] stage = "sched"      -> 3
    [] stage = "rendezvous" -> 4
    [] stage = "body"       -> 5
    [] stage = "atA"        -> 6
    [] stage = "pause"      -> 7
    [] stage = "l0d1"       -> 8
    [] stage = "l1d1"       -> 9
    [] stage = "settle"     -> 10
    [] stage = "l0d2"       -> 11
    [] stage = "l1d2"       -> 12
    [] stage = "atB"        -> 13
    [] stage \in {"tmc", "poll"}       -> 14
    [] stage \in {"stopped", "parked"} -> 15

Down(place) ==
  CASE place = "unwritten" -> 0
    [] place = "queue"     -> 1
    [] place = "l0d"       -> 2
    [] place = "l1"        -> 3
    [] place = "dram"      -> 4

(* No step takes a warp or a line back; the walk over the sets of a cache  *)
(* begins anew only when warp 0 goes on, and the loop over the STOP slots  *)
(* never does.                                                             *)
NothingGoesBack ==
  /\ \A w \in Warps : Along(pc[w]) <= Along(pc'[w]) /\ Down(line[w]) <= Down(line'[w])
  /\ \A c \in Cores : Along(pc[c]) < Along(pc'[c]) \/ walk[c] <= walk'[c]
  /\ \A c \in Cores : polled[c] <= polled'[c]

SomethingGoesOn ==
  \/ \E w \in Warps : Along(pc[w]) < Along(pc'[w]) \/ Down(line[w]) < Down(line'[w])
  \/ \E c \in Cores : walk[c] < walk'[c] \/ polled[c] < polled'[c]

(* Nothing goes back and something goes on: a launch is a bounded number   *)
(* of steps (rad_tapeout.h).                                               *)
EveryStepCounts ==
  [][NothingGoesBack /\ SomethingGoesOn]_vars

(* Every core posts DONE in the end: no warp is left at a barrier.         *)
EpilogueCompletes == <>(\A c \in Cores : pc[c] = "parked" /\ done[c])

-----------------------------------------------------------------------------
(* The launch as the host sees it                                          *)

HasDrained(c) == pc[c] \in {"atB", "poll"}

DevOf(c) ==
  CASE pc[c] = "begin"  -> "clear"
    [] pc[c] = "ack"    -> "ack"
    [] pc[c] = "parked" -> "parked"
    [] HasDrained(c) /\ (\A w \in WarpsOf(c) : line[w] = "dram") -> "drained"
    [] OTHER -> "work"

OutOf(c) == IF DevOf(c) \in {"drained", "parked"} THEN "result" ELSE "poison"

Promise == INSTANCE Device WITH dev <- [c \in Cores |-> DevOf(c)],
                                out <- [c \in Cores |-> OutOf(c)]

(* The warps, caches and barriers of a launch keep the promise of module   *)
(* Device.                                                                 *)
KeepsPromise == Promise!DeviceSpec
=============================================================================
