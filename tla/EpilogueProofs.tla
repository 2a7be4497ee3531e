--------------------------- MODULE EpilogueProofs ---------------------------
(* What a launch guarantees for any number of cores, warps and cache sets. *)
EXTENDS Epilogue, TLAPS

-----------------------------------------------------------------------------
(* Warps and cores: warp_rr = warp_in_core * NumCores + core               *)

LEMMA NumWarpsNat == NumCores \in Nat \ {0} /\ Occupancy \in Nat \ {0} /\ NumWarps \in Nat
BY CoresAssumption, OccupancyAssumption DEF NumWarps

(* Warp 0 of a core has the number of the core.                            *)
LEMMA CoresAreWarps ==
  ASSUME NEW c \in Cores
  PROVE  c \in Warps /\ CoreOf(c) = c /\ c \in WarpsOf(c)
<1>1. c \in Nat /\ c < NumCores
  BY NumWarpsNat DEF Cores
<1>2. NumCores <= NumCores * Occupancy
  BY NumWarpsNat
<1>3. c \in Warps
  BY <1>1, <1>2, NumWarpsNat DEF Warps, NumWarps
<1>4. c % NumCores = c
  BY <1>1, NumWarpsNat
<1>5. QED
  BY <1>3, <1>4 DEF CoreOf, WarpsOf

LEMMA CoreOfInCores ==
  ASSUME NEW w \in Warps
  PROVE  CoreOf(w) \in Cores /\ w \in WarpsOf(CoreOf(w))
<1>1. w \in Int
  BY NumWarpsNat DEF Warps
<1>2. w % NumCores \in 0 .. NumCores - 1
  BY <1>1, NumWarpsNat
<1>3. QED
  BY <1>2 DEF CoreOf, Cores, WarpsOf

(* The loop over the STOP slots visits every warp of the core but warp 0.  *)
LEMMA AwaitedCoversCore ==
  ASSUME NEW c \in Cores, NEW w \in WarpsOf(c) \ {c}
  PROVE  \E k \in 1 .. Occupancy - 1 : w = NumCores * k + c
<1> DEFINE k == w \div NumCores
<1>1. w \in Nat /\ w < NumCores * Occupancy /\ w % NumCores = c
  BY NumWarpsNat DEF WarpsOf, Warps, NumWarps, CoreOf
<1>2. k \in Int /\ w = NumCores * k + c
  BY <1>1, NumWarpsNat
<1>3. c \in Nat /\ c < NumCores
  BY NumWarpsNat DEF Cores
<1>4. k >= 1
  <2>1. CASE k <= 0
    <3>1. NumCores * k <= 0
      BY <1>2, <2>1, NumWarpsNat
    <3>2. CASE k = 0
      <4>1. w = c
        BY <1>2, <1>3, <3>2, NumWarpsNat
      <4>2. QED
        BY <4>1
    <3>3. CASE k < 0
      <4>1. NumCores * k <= -NumCores
        BY <1>2, <3>3, NumWarpsNat
      <4>2. QED
        BY <4>1, <1>1, <1>2, <1>3, NumWarpsNat
    <3>4. QED
      BY <2>1, <3>2, <3>3, <1>2
  <2>2. QED
    BY <2>1, <1>2
<1>5. k <= Occupancy - 1
  <2>1. CASE k >= Occupancy
    <3>1. NumCores * k >= NumCores * Occupancy
      BY <1>2, <2>1, NumWarpsNat
    <3>2. QED
      BY <3>1, <1>1, <1>2, <1>3, NumWarpsNat
  <2>2. QED
    BY <2>1, <1>2, NumWarpsNat
<1>6. QED
  BY <1>2, <1>4, <1>5, NumWarpsNat, SMTT(30)

(* Every slot that the loop reads is one of the core's own.                *)
LEMMA AwaitedIsOfCore ==
  ASSUME NEW c \in Cores, NEW k \in Nat \ {0}, NumCores * k + c < NumWarps
  PROVE  /\ NumCores * k + c \in Warps \ Cores
         /\ CoreOf(NumCores * k + c) = c
         /\ k <= Occupancy - 1
<1>1. c \in Nat /\ c < NumCores
  BY NumWarpsNat DEF Cores
<1>2. NumCores * k >= NumCores /\ NumCores * k \in Nat
  BY NumWarpsNat
<1>3. NumCores * k + c \in Warps \ Cores
  BY <1>1, <1>2, NumWarpsNat DEF Warps, Cores
<1>4. (NumCores * k + c) % NumCores = c
  BY <1>1, NumWarpsNat
<1>5. k <= Occupancy - 1
  <2>1. CASE k >= Occupancy
    <3>1. NumCores * k >= NumCores * Occupancy
      BY <2>1, NumWarpsNat
    <3>2. QED
      BY <3>1, <1>1, <1>2, NumWarpsNat DEF NumWarps
  <2>2. QED
    BY <2>1, NumWarpsNat
<1>6. QED
  BY <1>3, <1>4, <1>5 DEF CoreOf

(* ... and every worker of the core has one of these numbers.              *)
LEMMA WorkerOfCore ==
  ASSUME NEW c \in Cores, NEW k \in 1 .. Occupancy - 1
  PROVE  NumCores * k + c \in Warps \ Cores /\ CoreOf(NumCores * k + c) = c
<1>1. c \in Nat /\ c < NumCores /\ k \in Nat \ {0} /\ k <= Occupancy - 1
  BY NumWarpsNat DEF Cores
<1>2. NumCores * k <= NumCores * (Occupancy - 1)
  BY <1>1, NumWarpsNat
<1>3. NumCores * (Occupancy - 1) = NumCores * Occupancy - NumCores
  BY NumWarpsNat
<1>4. NumCores * k + c < NumWarps
  BY <1>1, <1>2, <1>3, NumWarpsNat DEF NumWarps
<1>5. QED
  BY <1>1, <1>4, AwaitedIsOfCore

-----------------------------------------------------------------------------
(* The barriers                                                            *)

AfterA == {"pause", "settle", "atB", "tmc", "stopped", "poll", "parked"} \cup Drains
AfterB == {"tmc", "stopped", "poll", "parked"}
Starting == {"begin", "ack", "sched", "rendezvous"}

(* A worker is idle until warp 0 of its core spawns it.                    *)
Roles ==
  \A w \in Warps :
    IF w \in Cores THEN pc[w] \notin {"idle", "tmc", "stopped"}
    ELSE /\ pc[w] \in {"idle", "body", "atA", "atB", "tmc", "stopped"}
         /\ pc[CoreOf(w)] \in Starting => pc[w] = "idle"

Barriers ==
  \A w \in Warps :
    /\ pc[w] \in AfterA => Arrived(BeforeA)
    /\ pc[w] \in AfterB => Arrived(BeforeB)

(* What a core has posted since rad_tapeout_begin() says where it is.      *)
Posted ==
  \A c \in Cores : Begun(c) =>
    /\ done[c] => pc[c] = "parked"
    /\ trace[c] \in {"BARB", "POLLED"} => pc[c] \in {"poll", "parked"}
    /\ trace[c] = "DRAIN" => pc[c] = "atB"

WalksFromZero == \A c \in Cores : pc[c] \notin Drains => walk[c] = 0

Base == TypeOK /\ Roles /\ Barriers /\ Posted /\ WalksFromZero

(* The counter of a generation wraps within its width.                     *)
LEMMA NextGenInWord ==
  ASSUME NEW g \in Word
  PROVE  NextGen(g) \in Word
<1>1. g[2] \in 0 .. GenMod - 1
  BY DEF Word
<1>2. (g[2] + 1) % GenMod \in 0 .. GenMod - 1
  BY <1>1, GenAssumption
<1>3. QED
  BY <1>2 DEF Word, NextGen

LEMMA InitBase == Init => Base
<1> SUFFICES ASSUME Init PROVE Base
  OBVIOUS
<1>1. TypeOK
  <2>1. <<"junk", 0>> \in Word
    BY GenAssumption DEF Word
  <2>2. 0 \in 0 .. NumSets - 1 /\ 1 \in 1 .. Occupancy
    BY SetsAssumption, NumWarpsNat
  <2>3. QED
    BY <2>1, <2>2 DEF Init, TypeOK, Stages, Traces
<1>2. Roles
  BY CoreOfInCores, CoresAreWarps DEF Init, Roles, Starting
<1>3. Barriers
  BY DEF Init, Barriers, AfterA, AfterB, Drains
<1>4. Posted
  BY CoresAreWarps DEF Init, Posted, Begun
<1>5. WalksFromZero
  BY DEF Init, WalksFromZero
<1>6. QED
  BY <1>1, <1>2, <1>3, <1>4, <1>5 DEF Base

(* Every step of warp 0 of a core preserves it.                            *)
LEMMA Warp0KeepsBase ==
  ASSUME Base, NEW c \in Cores, Warp0(c)
  PROVE  Base'
<1> USE DEF Base, box, Goto
<1>0. c \in Warps
  BY CoresAreWarps
<1>1. CASE BeginClear(c)
  <2>1. TypeOK'
    BY <1>0, <1>1 DEF BeginClear, TypeOK, Stages, Traces, Drains
  <2>2. Roles'
    BY <1>0, <1>1, CoresAreWarps, CoreOfInCores DEF BeginClear, Roles, TypeOK, Starting, Drains
  <2>3. Barriers'
    BY <1>0, <1>1, CoresAreWarps DEF BeginClear, Barriers, Arrived, TypeOK, Roles, AfterA, AfterB, BeforeA, BeforeB, Drains
  <2>4. Posted'
    BY <1>0, <1>1, CoresAreWarps DEF BeginClear, Posted, Begun, TypeOK, Roles, Drains
  <2>5. WalksFromZero'
    BY <1>0, <1>1, CoresAreWarps DEF BeginClear, WalksFromZero, TypeOK, Roles, Drains
  <2>6. QED
    BY <2>1, <2>2, <2>3, <2>4, <2>5
<1>2. CASE BeginAck(c)
  <2>1. TypeOK'
    BY <1>0, <1>2, NextGenInWord DEF BeginAck, TypeOK, Stages, Traces, Drains
  <2>2. Roles'
    BY <1>0, <1>2, CoresAreWarps, CoreOfInCores DEF BeginAck, Roles, TypeOK, Starting, Drains
  <2>3. Barriers'
    BY <1>0, <1>2, CoresAreWarps DEF BeginAck, Barriers, Arrived, TypeOK, Roles, AfterA, AfterB, BeforeA, BeforeB, Drains
  <2>4. Posted'
    BY <1>0, <1>2, CoresAreWarps DEF BeginAck, Posted, Begun, TypeOK, Roles, Drains
  <2>5. WalksFromZero'
    BY <1>0, <1>2, CoresAreWarps DEF BeginAck, WalksFromZero, TypeOK, Roles, Drains
  <2>6. QED
    BY <2>1, <2>2, <2>3, <2>4, <2>5
<1>3. CASE Schedule(c)
  <2>1. TypeOK'
    BY <1>0, <1>3 DEF Schedule, TypeOK, Stages, Traces, Drains
  <2>2. Roles'
    BY <1>0, <1>3, CoresAreWarps, CoreOfInCores DEF Schedule, Roles, TypeOK, Starting, Drains
  <2>3. Barriers'
    BY <1>0, <1>3, CoresAreWarps DEF Schedule, Barriers, Arrived, TypeOK, Roles, AfterA, AfterB, BeforeA, BeforeB, Drains
  <2>4. Posted'
    BY <1>0, <1>3, CoresAreWarps DEF Schedule, Posted, Begun, TypeOK, Roles, Drains
  <2>5. WalksFromZero'
    BY <1>0, <1>3, CoresAreWarps DEF Schedule, WalksFromZero, TypeOK, Roles, Drains
  <2>6. QED
    BY <2>1, <2>2, <2>3, <2>4, <2>5
<1>4. CASE Spawn(c)
  <2>1. TypeOK'
    BY <1>0, <1>4 DEF Spawn, TypeOK, Stages, Traces, Drains
  <2>2. Roles'
    BY <1>0, <1>4, CoresAreWarps, CoreOfInCores DEF Spawn, Roles, TypeOK, Starting, Drains
  <2>3. Barriers'
    BY <1>0, <1>4, CoresAreWarps DEF Spawn, Barriers, Arrived, TypeOK, Roles, AfterA, AfterB, BeforeA, BeforeB, Drains
  <2>4. Posted'
    BY <1>0, <1>4, CoresAreWarps DEF Spawn, Posted, Begun, TypeOK, Roles, Drains
  <2>5. WalksFromZero'
    BY <1>0, <1>4, CoresAreWarps DEF Spawn, WalksFromZero, TypeOK, Roles, Drains
  <2>6. QED
    BY <2>1, <2>2, <2>3, <2>4, <2>5
<1>5. CASE Pause(c)
  <2>1. TypeOK'
    BY <1>0, <1>5 DEF Pause, TypeOK, Stages, Traces, Drains
  <2>2. Roles'
    BY <1>0, <1>5, CoresAreWarps, CoreOfInCores DEF Pause, Roles, TypeOK, Starting, Drains
  <2>3. Barriers'
    BY <1>0, <1>5, CoresAreWarps DEF Pause, Barriers, Arrived, TypeOK, Roles, AfterA, AfterB, BeforeA, BeforeB, Drains
  <2>4. Posted'
    BY <1>0, <1>5, CoresAreWarps DEF Pause, Posted, Begun, TypeOK, Roles, Drains
  <2>5. WalksFromZero'
    BY <1>0, <1>5, CoresAreWarps DEF Pause, WalksFromZero, TypeOK, Roles, Drains
  <2>6. QED
    BY <2>1, <2>2, <2>3, <2>4, <2>5
<1>6. CASE DrainL0d(c)
  <2>1. TypeOK'
    BY <1>0, <1>6, SetsAssumption DEF DrainL0d, Walk, TypeOK, Stages, Traces, Drains
  <2>2. Roles'
    BY <1>0, <1>6, CoresAreWarps, CoreOfInCores DEF DrainL0d, Walk, Roles, TypeOK, Starting, Drains
  <2>3. Barriers'
    BY <1>0, <1>6, CoresAreWarps DEF DrainL0d, Walk, Barriers, Arrived, TypeOK, Roles, AfterA, AfterB, BeforeA, BeforeB, Drains
  <2>4. Posted'
    BY <1>0, <1>6, CoresAreWarps DEF DrainL0d, Walk, Posted, Begun, TypeOK, Roles, Drains
  <2>5. WalksFromZero'
    BY <1>0, <1>6, CoresAreWarps DEF DrainL0d, Walk, WalksFromZero, TypeOK, Roles, Drains
  <2>6. QED
    BY <2>1, <2>2, <2>3, <2>4, <2>5
<1>7. CASE DrainL1(c)
  <2>1. TypeOK'
    BY <1>0, <1>7, SetsAssumption DEF DrainL1, Walk, TypeOK, Stages, Traces, Drains
  <2>2. Roles'
    BY <1>0, <1>7, CoresAreWarps, CoreOfInCores DEF DrainL1, Walk, Roles, TypeOK, Starting, Drains
  <2>3. Barriers'
    BY <1>0, <1>7, CoresAreWarps DEF DrainL1, Walk, Barriers, Arrived, TypeOK, Roles, AfterA, AfterB, BeforeA, BeforeB, Drains
  <2>4. Posted'
    BY <1>0, <1>7, CoresAreWarps DEF DrainL1, Walk, Posted, Begun, TypeOK, Roles, Drains
  <2>5. WalksFromZero'
    BY <1>0, <1>7, CoresAreWarps DEF DrainL1, Walk, WalksFromZero, TypeOK, Roles, Drains
  <2>6. QED
    BY <2>1, <2>2, <2>3, <2>4, <2>5
<1>8. CASE LeaveB(c)
  <2>1. TypeOK'
    BY <1>0, <1>8 DEF LeaveB, TypeOK, Stages, Traces, Drains
  <2>2. Roles'
    BY <1>0, <1>8, CoresAreWarps, CoreOfInCores DEF LeaveB, Roles, TypeOK, Starting, Drains
  <2>3. Barriers'
    BY <1>0, <1>8, CoresAreWarps DEF LeaveB, Barriers, Arrived, TypeOK, Roles, AfterA, AfterB, BeforeA, BeforeB, Drains
  <2>4. Posted'
    BY <1>0, <1>8, CoresAreWarps DEF LeaveB, Posted, Begun, TypeOK, Roles, Drains
  <2>5. WalksFromZero'
    BY <1>0, <1>8, CoresAreWarps DEF LeaveB, WalksFromZero, TypeOK, Roles, Drains
  <2>6. QED
    BY <2>1, <2>2, <2>3, <2>4, <2>5
<1>9. CASE PollStop(c)
  <2>1. TypeOK'
    <3>1. polled[c] \in 1 .. Occupancy
      BY DEF TypeOK
    <3>2. polled[c] \in Nat \ {0}
      BY <3>1, NumWarpsNat
    <3>3. polled[c] + 1 \in 1 .. Occupancy
      <4>1. NumCores * polled[c] + c < NumWarps
        BY <1>9 DEF PollStop, Awaited
      <4>2. polled[c] <= Occupancy - 1
        BY <3>2, <4>1, AwaitedIsOfCore
      <4>3. QED
        BY <3>2, <4>2, NumWarpsNat
    <3>4. QED
      BY <1>9, <3>3 DEF PollStop, TypeOK
  <2>2. Roles'
    BY <1>0, <1>9, CoresAreWarps, CoreOfInCores DEF PollStop, Awaited, Roles, TypeOK, Starting, Drains
  <2>3. Barriers'
    BY <1>0, <1>9, CoresAreWarps DEF PollStop, Awaited, Barriers, Arrived, TypeOK, Roles, AfterA, AfterB, BeforeA, BeforeB, Drains
  <2>4. Posted'
    BY <1>0, <1>9, CoresAreWarps DEF PollStop, Awaited, Posted, Begun, TypeOK, Roles, Drains
  <2>5. WalksFromZero'
    BY <1>0, <1>9, CoresAreWarps DEF PollStop, Awaited, WalksFromZero, TypeOK, Roles, Drains
  <2>6. QED
    BY <2>1, <2>2, <2>3, <2>4, <2>5
<1>10. CASE PostDone(c)
  <2>1. TypeOK'
    BY <1>0, <1>10 DEF PostDone, Awaited, TypeOK, Stages, Traces, Drains
  <2>2. Roles'
    BY <1>0, <1>10, CoresAreWarps, CoreOfInCores DEF PostDone, Awaited, Roles, TypeOK, Starting, Drains
  <2>3. Barriers'
    BY <1>0, <1>10, CoresAreWarps DEF PostDone, Awaited, Barriers, Arrived, TypeOK, Roles, AfterA, AfterB, BeforeA, BeforeB, Drains
  <2>4. Posted'
    BY <1>0, <1>10, CoresAreWarps DEF PostDone, Awaited, Posted, Begun, TypeOK, Roles, Drains
  <2>5. WalksFromZero'
    BY <1>0, <1>10, CoresAreWarps DEF PostDone, Awaited, WalksFromZero, TypeOK, Roles, Drains
  <2>6. QED
    BY <2>1, <2>2, <2>3, <2>4, <2>5
<1>11. QED
  BY <1>1, <1>2, <1>3, <1>4, <1>5, <1>6, <1>7, <1>8, <1>9, <1>10 DEF Warp0

(* So does every step that any warp takes.                                 *)
LEMMA AnyWarpKeepsBase ==
  ASSUME Base, NEW w \in Warps, AnyWarp(w)
  PROVE  Base'
<1> USE DEF Base, box, Goto
<1>0. w \in Warps
  OBVIOUS
<1>1. CASE Body(w)
  <2>1. TypeOK'
    BY <1>0, <1>1 DEF Body, TypeOK, Stages, Traces, Drains
  <2>2. Roles'
    BY <1>0, <1>1, CoresAreWarps, CoreOfInCores DEF Body, Roles, TypeOK, Starting, Drains
  <2>3. Barriers'
    BY <1>0, <1>1, CoresAreWarps DEF Body, Barriers, Arrived, TypeOK, Roles, AfterA, AfterB, BeforeA, BeforeB, Drains
  <2>4. Posted'
    BY <1>0, <1>1, CoresAreWarps DEF Body, Posted, Begun, TypeOK, Roles, Drains
  <2>5. WalksFromZero'
    BY <1>0, <1>1, CoresAreWarps DEF Body, WalksFromZero, TypeOK, Roles, Drains
  <2>6. QED
    BY <2>1, <2>2, <2>3, <2>4, <2>5
<1>2. CASE LeaveA(w)
  <2>1. TypeOK'
    BY <1>0, <1>2 DEF LeaveA, TypeOK, Stages, Traces, Drains
  <2>2. Roles'
    BY <1>0, <1>2, CoresAreWarps, CoreOfInCores DEF LeaveA, Roles, TypeOK, Starting, Drains
  <2>3. Barriers'
    BY <1>0, <1>2, CoresAreWarps DEF LeaveA, Barriers, Arrived, TypeOK, Roles, AfterA, AfterB, BeforeA, BeforeB, Drains
  <2>4. Posted'
    BY <1>0, <1>2, CoresAreWarps DEF LeaveA, Posted, Begun, TypeOK, Roles, Drains
  <2>5. WalksFromZero'
    BY <1>0, <1>2, CoresAreWarps DEF LeaveA, WalksFromZero, TypeOK, Roles, Drains
  <2>6. QED
    BY <2>1, <2>2, <2>3, <2>4, <2>5
<1>3. CASE PostStop(w)
  <2>1. TypeOK'
    BY <1>0, <1>3 DEF PostStop, TypeOK, Stages, Traces, Drains
  <2>2. Roles'
    BY <1>0, <1>3, CoresAreWarps, CoreOfInCores DEF PostStop, Roles, TypeOK, Starting, Drains
  <2>3. Barriers'
    BY <1>0, <1>3, CoresAreWarps DEF PostStop, Barriers, Arrived, TypeOK, Roles, AfterA, AfterB, BeforeA, BeforeB, Drains
  <2>4. Posted'
    BY <1>0, <1>3, CoresAreWarps DEF PostStop, Posted, Begun, TypeOK, Roles, Drains
  <2>5. WalksFromZero'
    BY <1>0, <1>3, CoresAreWarps DEF PostStop, WalksFromZero, TypeOK, Roles, Drains
  <2>6. QED
    BY <2>1, <2>2, <2>3, <2>4, <2>5
<1>4. CASE Retire(w)
  <2>1. TypeOK'
    BY <1>0, <1>4 DEF Retire, TypeOK, Stages, Traces, Drains
  <2>2. Roles'
    BY <1>0, <1>4, CoresAreWarps, CoreOfInCores DEF Retire, Roles, TypeOK, Starting, Drains
  <2>3. Barriers'
    BY <1>0, <1>4, CoresAreWarps DEF Retire, Barriers, Arrived, TypeOK, Roles, AfterA, AfterB, BeforeA, BeforeB, Drains
  <2>4. Posted'
    BY <1>0, <1>4, CoresAreWarps DEF Retire, Posted, Begun, TypeOK, Roles, Drains
  <2>5. WalksFromZero'
    BY <1>0, <1>4, CoresAreWarps DEF Retire, WalksFromZero, TypeOK, Roles, Drains
  <2>6. QED
    BY <2>1, <2>2, <2>3, <2>4, <2>5
<1>5. QED
  BY <1>1, <1>2, <1>3, <1>4 DEF AnyWarp

(* The memory system moves lines only.                                     *)
LEMMA MemoryKeepsBase ==
  ASSUME Base, Memory
  PROVE  Base'
<1> PICK w \in Warps : Land(w) \/ Evict(w)
  BY DEF Memory
<1>1. UNCHANGED <<start, done, stop, trace, pc, walk, polled>>
  BY DEF Land, Evict, box
<1>2. line' \in [Warps -> {"unwritten", "queue", "l0d", "l1", "dram"}]
  BY DEF Base, TypeOK, Land, Evict
<1>3. QED
  BY <1>1, <1>2 DEF Base, TypeOK, Roles, Barriers, Arrived, Posted, Begun, WalksFromZero

LEMMA StepKeepsBase == Base /\ [Next]_vars => Base'
<1>1. Base /\ UNCHANGED vars => Base'
  BY DEF vars, Base, TypeOK, Roles, Barriers, Arrived, Posted, Begun, WalksFromZero
<1>2. QED
  BY <1>1, Warp0KeepsBase, AnyWarpKeepsBase, MemoryKeepsBase DEF Next

(* Every variable keeps the range that the code gives it.                  *)
THEOREM TypeCorrect == Spec => []TypeOK
<1>1. Spec => []Base
  BY InitBase, StepKeepsBase, PTL DEF Spec
<1>2. Base => TypeOK
  BY DEF Base
<1>3. QED
  BY <1>1, <1>2, PTL

-----------------------------------------------------------------------------
(* DONE and the workers of a core                                          *)

(* A STOP slot that is set was set in this run.                            *)
StopsAreFresh ==
  \A w \in Warps \ Cores :
    Begun(CoreOf(w)) /\ stop[w] => pc[w] \in {"tmc", "stopped"}

(* The slots that the loop has passed were set.                            *)
PolledSoFar ==
  \A c \in Cores :
    /\ pc[c] \notin {"poll", "parked"} => polled[c] = 1
    /\ \A k \in 1 .. polled[c] - 1 : stop[NumCores * k + c]
    /\ pc[c] = "parked" => Awaited(c) >= NumWarps

QuiescedInv == Base /\ StopsAreFresh /\ PolledSoFar

(* The loop waits for STOP, and rad_tapeout_begin() cleared every slot.    *)
StopsCount == ~PollExpires /\ StopSlots >= NumWarps

LEMMA InitQuiescedInv == Init => QuiescedInv
<1> SUFFICES ASSUME Init PROVE QuiescedInv
  OBVIOUS
<1>1. StopsAreFresh
  BY CoreOfInCores, CoresAreWarps DEF Init, StopsAreFresh, Begun
<1>2. PolledSoFar
  BY CoresAreWarps DEF Init, PolledSoFar
<1>3. QED
  BY <1>1, <1>2, InitBase DEF QuiescedInv

LEMMA Warp0KeepsQuiescedInv ==
  ASSUME StopsCount, QuiescedInv, NEW c \in Cores, Warp0(c)
  PROVE  StopsAreFresh' /\ PolledSoFar'
<1> USE NumWarpsNat DEF QuiescedInv, Base, StopsCount, box, Goto
<1>0. c \in Warps
  BY CoresAreWarps
<1>1. CASE BeginClear(c)
  <2>1. StopsAreFresh'
    <3>1. SUFFICES ASSUME NEW w \in Warps \ Cores, pc'[CoreOf(w)] # "begin", stop'[w]
                   PROVE  pc'[w] \in {"tmc", "stopped"}
      BY DEF StopsAreFresh, Begun
    <3>2. stop[w] /\ ~(CoreOf(w) = c /\ w < StopSlots)
      BY <1>1, <3>1 DEF BeginClear
    <3>3. w < StopSlots
      BY StopSlotsAssumption DEF Warps
    <3>4. pc'[w] = pc[w] /\ pc'[CoreOf(w)] = pc[CoreOf(w)]
      BY <1>0, <1>1, <3>2, <3>3, CoresAreWarps DEF BeginClear, TypeOK
    <3>5. QED
      BY <3>1, <3>2, <3>4 DEF StopsAreFresh, Begun
  <2>2. PolledSoFar'
    <3>1. polled' = polled /\ pc' = [pc EXCEPT ![c] = "ack"] /\ pc[c] = "begin"
      BY <1>1 DEF BeginClear
    <3>2. ASSUME NEW d \in Cores, NEW k \in 1 .. polled[d] - 1
          PROVE  stop'[NumCores * k + d]
      <4>1. stop[NumCores * k + d] /\ d # c
        BY <3>1 DEF PolledSoFar
      <4>2. k \in 1 .. Occupancy - 1
        BY DEF TypeOK
      <4>3. QED
        BY <1>1, <4>1, <4>2, WorkerOfCore DEF BeginClear
    <3>3. QED
      BY <1>0, <3>1, <3>2, CoresAreWarps DEF PolledSoFar, Awaited, TypeOK
  <2>3. QED
    BY <2>1, <2>2
<1>2. CASE BeginAck(c)
  <2>1. StopsAreFresh'
    BY <1>0, <1>2, CoresAreWarps, CoreOfInCores DEF BeginAck, StopsAreFresh, Begun, TypeOK, Roles, Starting, Drains
  <2>2. PolledSoFar'
    BY <1>0, <1>2, CoresAreWarps DEF BeginAck, PolledSoFar, Awaited, TypeOK, Roles, Drains
  <2>3. QED
    BY <2>1, <2>2
<1>3. CASE Schedule(c)
  <2>1. StopsAreFresh'
    BY <1>0, <1>3, CoresAreWarps, CoreOfInCores DEF Schedule, StopsAreFresh, Begun, TypeOK, Roles, Starting, Drains
  <2>2. PolledSoFar'
    BY <1>0, <1>3, CoresAreWarps DEF Schedule, PolledSoFar, Awaited, TypeOK, Roles, Drains
  <2>3. QED
    BY <2>1, <2>2
<1>4. CASE Spawn(c)
  <2>1. StopsAreFresh'
    BY <1>0, <1>4, CoresAreWarps, CoreOfInCores DEF Spawn, StopsAreFresh, Begun, TypeOK, Roles, Starting, Drains
  <2>2. PolledSoFar'
    BY <1>0, <1>4, CoresAreWarps DEF Spawn, PolledSoFar, Awaited, TypeOK, Roles, Drains
  <2>3. QED
    BY <2>1, <2>2
<1>5. CASE Pause(c)
  <2>1. StopsAreFresh'
    BY <1>0, <1>5, CoresAreWarps, CoreOfInCores DEF Pause, StopsAreFresh, Begun, TypeOK, Roles, Starting, Drains
  <2>2. PolledSoFar'
    BY <1>0, <1>5, CoresAreWarps DEF Pause, PolledSoFar, Awaited, TypeOK, Roles, Drains
  <2>3. QED
    BY <2>1, <2>2
<1>6. CASE DrainL0d(c)
  <2>1. StopsAreFresh'
    BY <1>0, <1>6, CoresAreWarps, CoreOfInCores DEF DrainL0d, Walk, StopsAreFresh, Begun, TypeOK, Roles, Starting, Drains
  <2>2. PolledSoFar'
    BY <1>0, <1>6, CoresAreWarps DEF DrainL0d, Walk, PolledSoFar, Awaited, TypeOK, Roles, Drains
  <2>3. QED
    BY <2>1, <2>2
<1>7. CASE DrainL1(c)
  <2>1. StopsAreFresh'
    BY <1>0, <1>7, CoresAreWarps, CoreOfInCores DEF DrainL1, Walk, StopsAreFresh, Begun, TypeOK, Roles, Starting, Drains
  <2>2. PolledSoFar'
    BY <1>0, <1>7, CoresAreWarps DEF DrainL1, Walk, PolledSoFar, Awaited, TypeOK, Roles, Drains
  <2>3. QED
    BY <2>1, <2>2
<1>8. CASE LeaveB(c)
  <2>1. StopsAreFresh'
    BY <1>0, <1>8, CoresAreWarps, CoreOfInCores DEF LeaveB, StopsAreFresh, Begun, TypeOK, Roles, Starting, Drains
  <2>2. PolledSoFar'
    BY <1>0, <1>8, CoresAreWarps DEF LeaveB, PolledSoFar, Awaited, TypeOK, Roles, Drains
  <2>3. QED
    BY <2>1, <2>2
<1>9. CASE PollStop(c)
  <2>1. StopsAreFresh'
    BY <1>0, <1>9, CoresAreWarps, CoreOfInCores DEF PollStop, Awaited, StopsAreFresh, Begun, TypeOK, Roles, Starting, Drains
  <2>2. PolledSoFar'
    <3>1. stop' = stop /\ pc' = pc /\ pc[c] = "poll" /\ stop[NumCores * polled[c] + c]
      BY <1>9 DEF PollStop, Awaited
    <3>2. ASSUME NEW d \in Cores
          PROVE  polled[d] \in Nat /\ polled'[d] = IF d = c THEN polled[d] + 1 ELSE polled[d]
      BY <1>9 DEF PollStop, TypeOK
    <3>3. ASSUME NEW d \in Cores, NEW k \in 1 .. polled'[d] - 1
          PROVE  stop'[NumCores * k + d]
      <4>1. CASE d = c /\ k = polled[d]
        BY <3>1, <4>1
      <4>2. CASE ~(d = c /\ k = polled[d])
        <5>1. k \in 1 .. polled[d] - 1
          BY <3>2, <4>2
        <5>2. QED
          BY <3>1, <5>1 DEF PolledSoFar
      <4>3. QED
        BY <4>1, <4>2
    <3>4. QED
      BY <3>1, <3>2, <3>3 DEF PolledSoFar, Awaited
  <2>3. QED
    BY <2>1, <2>2
<1>10. CASE PostDone(c)
  <2>1. StopsAreFresh'
    BY <1>0, <1>10, CoresAreWarps, CoreOfInCores DEF PostDone, Awaited, StopsAreFresh, Begun, TypeOK, Roles, Starting, Drains
  <2>2. PolledSoFar'
    BY <1>0, <1>10, CoresAreWarps DEF PostDone, Awaited, PolledSoFar, Awaited, TypeOK, Roles, Drains
  <2>3. QED
    BY <2>1, <2>2
<1>11. QED
  BY <1>1, <1>2, <1>3, <1>4, <1>5, <1>6, <1>7, <1>8, <1>9, <1>10 DEF Warp0

LEMMA AnyWarpKeepsQuiescedInv ==
  ASSUME QuiescedInv, NEW w \in Warps, AnyWarp(w)
  PROVE  StopsAreFresh' /\ PolledSoFar'
<1> USE NumWarpsNat DEF QuiescedInv, Base, box, Goto
<1>0. w \in Warps
  OBVIOUS
<1>1. CASE Body(w)
  <2>1. StopsAreFresh'
    BY <1>0, <1>1, CoresAreWarps, CoreOfInCores DEF Body, StopsAreFresh, Begun, TypeOK, Roles, Starting, Drains
  <2>2. PolledSoFar'
    BY <1>0, <1>1, CoresAreWarps DEF Body, PolledSoFar, Awaited, TypeOK, Roles, Drains
  <2>3. QED
    BY <2>1, <2>2
<1>2. CASE LeaveA(w)
  <2>1. StopsAreFresh'
    BY <1>0, <1>2, CoresAreWarps, CoreOfInCores DEF LeaveA, StopsAreFresh, Begun, TypeOK, Roles, Starting, Drains
  <2>2. PolledSoFar'
    BY <1>0, <1>2, CoresAreWarps DEF LeaveA, PolledSoFar, Awaited, TypeOK, Roles, Drains
  <2>3. QED
    BY <2>1, <2>2
<1>3. CASE PostStop(w)
  <2>1. StopsAreFresh'
    BY <1>0, <1>3, CoresAreWarps, CoreOfInCores DEF PostStop, StopsAreFresh, Begun, TypeOK, Roles, Starting, Drains
  <2>2. PolledSoFar'
    BY <1>0, <1>3, CoresAreWarps DEF PostStop, PolledSoFar, Awaited, TypeOK, Roles, Drains
  <2>3. QED
    BY <2>1, <2>2
<1>4. CASE Retire(w)
  <2>1. StopsAreFresh'
    BY <1>0, <1>4, CoresAreWarps, CoreOfInCores DEF Retire, StopsAreFresh, Begun, TypeOK, Roles, Starting, Drains
  <2>2. PolledSoFar'
    BY <1>0, <1>4, CoresAreWarps DEF Retire, PolledSoFar, Awaited, TypeOK, Roles, Drains
  <2>3. QED
    BY <2>1, <2>2
<1>5. QED
  BY <1>1, <1>2, <1>3, <1>4 DEF AnyWarp

LEMMA StepKeepsQuiescedInv ==
  ASSUME StopsCount
  PROVE  QuiescedInv /\ [Next]_vars => QuiescedInv'
<1> SUFFICES ASSUME QuiescedInv, [Next]_vars PROVE QuiescedInv'
  OBVIOUS
<1>1. Base'
  BY StepKeepsBase DEF QuiescedInv
<1>2. ASSUME UNCHANGED <<stop, pc, polled>>
      PROVE  StopsAreFresh' /\ PolledSoFar'
  BY <1>2 DEF QuiescedInv, StopsAreFresh, PolledSoFar, Begun, Awaited
<1>3. StopsAreFresh' /\ PolledSoFar'
  <2>1. CASE UNCHANGED vars
    BY <1>2, <2>1 DEF vars
  <2>2. CASE Memory
    BY <1>2, <2>2 DEF Memory, Land, Evict, box
  <2>3. QED
    BY <2>1, <2>2, Warp0KeepsQuiescedInv, AnyWarpKeepsQuiescedInv DEF Next
<1>4. QED
  BY <1>1, <1>3 DEF QuiescedInv

(* A core that is parked has seen the STOP of each of its workers.         *)
LEMMA QuiescedInvImplies == QuiescedInv => DoneMeansQuiesced
<1> SUFFICES ASSUME QuiescedInv,
                    NEW c \in Cores, Begun(c), done[c], NEW w \in WarpsOf(c) \ {c}
             PROVE  pc[w] \in {"tmc", "stopped"}
  BY DEF DoneMeansQuiesced
<1>1. pc[c] = "parked"
  BY DEF QuiescedInv, Base, Posted
<1>2. PICK k \in 1 .. Occupancy - 1 : w = NumCores * k + c
  BY AwaitedCoversCore
<1>3. w \in Warps /\ CoreOf(w) = c /\ w \notin Cores
  BY CoresAreWarps DEF WarpsOf
<1>4. k <= polled[c] - 1
  <2>1. NumCores * polled[c] + c >= NumWarps /\ polled[c] \in Nat
    BY <1>1, NumWarpsNat DEF QuiescedInv, Base, TypeOK, PolledSoFar, Awaited
  <2>2. NumCores * k + c < NumWarps
    BY <1>2, <1>3, NumWarpsNat DEF Warps
  <2>3. k \in Nat /\ c \in Nat
    BY NumWarpsNat DEF Cores
  <2>4. CASE k >= polled[c]
    <3>1. NumCores * k >= NumCores * polled[c]
      BY <2>1, <2>3, <2>4, NumWarpsNat
    <3>2. QED
      BY <3>1, <2>1, <2>2, <2>3, NumWarpsNat
  <2>5. QED
    BY <2>1, <2>3, <2>4
<1>5. stop[w]
  BY <1>2, <1>4, NumWarpsNat DEF QuiescedInv, Base, TypeOK, PolledSoFar
<1>6. QED
  BY <1>3, <1>5 DEF QuiescedInv, StopsAreFresh

(* When a core shows DONE its other warps are past their last shared       *)
(* memory access, whatever an earlier run left in the STOP slots: provided *)
(* the poll does not run out and rad_tapeout_begin() clears a slot for     *)
(* every warp.                                                             *)
THEOREM DoneQuiesces == StopsCount => (Spec => []DoneMeansQuiesced)
<1> SUFFICES ASSUME StopsCount PROVE Spec => []DoneMeansQuiesced
  OBVIOUS
<1>1. Spec => []QuiescedInv
  BY InitQuiescedInv, StepKeepsQuiescedInv, PTL DEF Spec
<1>2. QED
  BY <1>1, QuiescedInvImplies, PTL

-----------------------------------------------------------------------------
(* DONE and the output                                                     *)

Written == \A w \in Warps : pc[w] \notin BeforeA => line[w] # "unwritten"

(* How far the second pass has brought the lines of a core.                *)
SecondPass ==
  \A c \in Cores : \A w \in WarpsOf(c) :
    /\ pc[c] = "l0d2" => /\ line[w] \in {"l0d", "l1", "dram"}
                         /\ SetOf[w] < walk[c] => line[w] # "l0d"
    /\ pc[c] = "l1d2" => /\ line[w] \in {"l1", "dram"}
                         /\ SetOf[w] < walk[c] => line[w] = "dram"
    /\ pc[c] \in {"atB", "poll", "parked"} => line[w] = "dram"

DurableInv == Base /\ Written /\ SecondPass

(* Every store of the body has landed by the end of RAD_EPI_SETTLE.        *)
SettleLands == "settle" \in LandBy

LEMMA InitDurableInv == Init => DurableInv
BY InitBase, CoresAreWarps DEF Init, DurableInv, Written, SecondPass, BeforeA

LEMMA Warp0KeepsDurableInv ==
  ASSUME SettleLands, DurableInv, NEW c \in Cores, Warp0(c)
  PROVE  Written' /\ SecondPass'
<1> USE SetsAssumption DEF DurableInv, Base, SettleLands, box, Goto
<1>0. c \in Warps
  BY CoresAreWarps
<1>1. CASE BeginClear(c)
  <2>1. Written'
    BY <1>0, <1>1 DEF BeginClear, Written, TypeOK, BeforeA, Drains
  <2>2. SecondPass'
    BY <1>0, <1>1, CoresAreWarps DEF BeginClear, SecondPass, TypeOK, WarpsOf
  <2>3. QED
    BY <2>1, <2>2
<1>2. CASE BeginAck(c)
  <2>1. Written'
    BY <1>0, <1>2 DEF BeginAck, Written, TypeOK, BeforeA, Drains
  <2>2. SecondPass'
    BY <1>0, <1>2, CoresAreWarps DEF BeginAck, SecondPass, TypeOK, WarpsOf
  <2>3. QED
    BY <2>1, <2>2
<1>3. CASE Schedule(c)
  <2>1. Written'
    BY <1>0, <1>3 DEF Schedule, Written, TypeOK, BeforeA, Drains
  <2>2. SecondPass'
    BY <1>0, <1>3, CoresAreWarps DEF Schedule, SecondPass, TypeOK, WarpsOf
  <2>3. QED
    BY <2>1, <2>2
<1>4. CASE Spawn(c)
  <2>1. Written'
    BY <1>0, <1>4 DEF Spawn, Written, TypeOK, BeforeA, Drains
  <2>2. SecondPass'
    BY <1>0, <1>4, CoresAreWarps DEF Spawn, SecondPass, TypeOK, WarpsOf
  <2>3. QED
    BY <2>1, <2>2
<1>5. CASE Pause(c)
  <2>1. Written'
    BY <1>0, <1>5 DEF Pause, Written, TypeOK, BeforeA, Drains
  <2>2. SecondPass'
    <3>1. \A w \in Warps : line[w] # "unwritten"
      <4>1. Arrived(BeforeA)
        BY <1>0, <1>5 DEF Pause, Barriers, AfterA
      <4>2. QED
        BY <4>1 DEF Arrived, Written
    <3>2. CASE pc[c] = "settle"
      <4>1. walk[c] = 0
        BY <3>2 DEF WalksFromZero, Drains
      <4>2. \A w \in WarpsOf(c) : line[w] \in {"l0d", "l1", "dram"} /\ ~(SetOf[w] < 0)
        BY <1>5, <3>1, <3>2 DEF Pause, TypeOK, WarpsOf
      <4>3. QED
        BY <1>0, <1>5, <3>2, <4>1, <4>2, CoresAreWarps DEF Pause, SecondPass, TypeOK
    <3>3. CASE pc[c] = "pause"
      BY <1>0, <1>5, <3>3, CoresAreWarps DEF Pause, SecondPass, TypeOK
    <3>4. QED
      BY <1>5, <3>2, <3>3 DEF Pause
  <2>3. QED
    BY <2>1, <2>2
<1>6. CASE DrainL0d(c)
  <2>1. Written'
    BY <1>0, <1>6 DEF DrainL0d, Walk, Written, TypeOK, BeforeA, Drains
  <2>2. SecondPass'
    BY <1>0, <1>6, CoresAreWarps DEF DrainL0d, Walk, SecondPass, TypeOK, WarpsOf
  <2>3. QED
    BY <2>1, <2>2
<1>7. CASE DrainL1(c)
  <2>1. Written'
    BY <1>0, <1>7 DEF DrainL1, Walk, Written, TypeOK, BeforeA, Drains
  <2>2. SecondPass'
    BY <1>0, <1>7, CoresAreWarps DEF DrainL1, Walk, SecondPass, TypeOK, WarpsOf
  <2>3. QED
    BY <2>1, <2>2
<1>8. CASE LeaveB(c)
  <2>1. Written'
    BY <1>0, <1>8 DEF LeaveB, Written, TypeOK, BeforeA, Drains
  <2>2. SecondPass'
    BY <1>0, <1>8, CoresAreWarps DEF LeaveB, SecondPass, TypeOK, WarpsOf
  <2>3. QED
    BY <2>1, <2>2
<1>9. CASE PollStop(c)
  <2>1. Written'
    BY <1>0, <1>9 DEF PollStop, Awaited, Written, TypeOK, BeforeA, Drains
  <2>2. SecondPass'
    BY <1>0, <1>9, CoresAreWarps DEF PollStop, Awaited, SecondPass, TypeOK, WarpsOf
  <2>3. QED
    BY <2>1, <2>2
<1>10. CASE PostDone(c)
  <2>1. Written'
    BY <1>0, <1>10 DEF PostDone, Awaited, Written, TypeOK, BeforeA, Drains
  <2>2. SecondPass'
    BY <1>0, <1>10, CoresAreWarps DEF PostDone, Awaited, SecondPass, TypeOK, WarpsOf
  <2>3. QED
    BY <2>1, <2>2
<1>11. QED
  BY <1>1, <1>2, <1>3, <1>4, <1>5, <1>6, <1>7, <1>8, <1>9, <1>10 DEF Warp0

LEMMA AnyWarpKeepsDurableInv ==
  ASSUME DurableInv, NEW w \in Warps, AnyWarp(w)
  PROVE  Written' /\ SecondPass'
<1> USE DEF DurableInv, Base, box, Goto
<1>0. w \in Warps
  OBVIOUS
<1>1. CASE Body(w)
  <2>1. Written'
    BY <1>0, <1>1 DEF Body, Written, TypeOK, BeforeA, Drains
  <2>2. SecondPass'
    <3>1. ~Arrived(BeforeA)
      BY <1>1 DEF Body, Arrived, BeforeA
    <3>2. \A c \in Cores : pc[c] \notin AfterA
      BY <3>1, CoresAreWarps DEF Barriers
    <3>3. \A c \in Cores : pc'[c] \notin {"l0d2", "l1d2", "atB", "poll", "parked"}
      BY <1>1, <3>2, CoresAreWarps DEF Body, AfterA, Drains, TypeOK
    <3>4. QED
      BY <3>3 DEF SecondPass
  <2>3. QED
    BY <2>1, <2>2
<1>2. CASE LeaveA(w)
  <2>1. Written'
    BY <1>0, <1>2 DEF LeaveA, Written, TypeOK, BeforeA, Drains
  <2>2. SecondPass'
    BY <1>0, <1>2, CoresAreWarps DEF LeaveA, SecondPass, TypeOK, WarpsOf
  <2>3. QED
    BY <2>1, <2>2
<1>3. CASE PostStop(w)
  <2>1. Written'
    BY <1>0, <1>3 DEF PostStop, Written, TypeOK, BeforeA, Drains
  <2>2. SecondPass'
    BY <1>0, <1>3, CoresAreWarps DEF PostStop, SecondPass, TypeOK, WarpsOf
  <2>3. QED
    BY <2>1, <2>2
<1>4. CASE Retire(w)
  <2>1. Written'
    BY <1>0, <1>4 DEF Retire, Written, TypeOK, BeforeA, Drains
  <2>2. SecondPass'
    BY <1>0, <1>4, CoresAreWarps DEF Retire, SecondPass, TypeOK, WarpsOf
  <2>3. QED
    BY <2>1, <2>2
<1>5. QED
  BY <1>1, <1>2, <1>3, <1>4 DEF AnyWarp

(* What lands or is evicted at any time never moves a line back.           *)
LEMMA MemoryKeepsDurableInv ==
  ASSUME DurableInv, Memory
  PROVE  Written' /\ SecondPass'
<1> PICK w \in Warps : Land(w) \/ Evict(w)
  BY DEF Memory
<1> USE DEF DurableInv, Base, box
<1>1. CASE Land(w)
  <2>1. Written'
    BY <1>1 DEF Land, Written, TypeOK
  <2>2. SecondPass'
    BY <1>1 DEF Land, SecondPass, TypeOK, WarpsOf
  <2>3. QED
    BY <2>1, <2>2
<1>2. CASE Evict(w)
  <2>1. Written'
    BY <1>2 DEF Evict, Written, TypeOK
  <2>2. SecondPass'
    BY <1>2 DEF Evict, SecondPass, TypeOK, WarpsOf
  <2>3. QED
    BY <2>1, <2>2
<1>3. QED
  BY <1>1, <1>2

LEMMA StepKeepsDurableInv ==
  ASSUME SettleLands
  PROVE  DurableInv /\ [Next]_vars => DurableInv'
<1> SUFFICES ASSUME DurableInv, [Next]_vars PROVE DurableInv'
  OBVIOUS
<1>1. Base'
  BY StepKeepsBase DEF DurableInv
<1>2. Written' /\ SecondPass'
  <2>1. CASE UNCHANGED vars
    BY <2>1 DEF vars, DurableInv, Written, SecondPass
  <2>2. QED
    BY <2>1, Warp0KeepsDurableInv, AnyWarpKeepsDurableInv, MemoryKeepsDurableInv DEF Next
<1>3. QED
  BY <1>1, <1>2 DEF DurableInv

(* Beyond barrier B every core, hence every warp, has been drained.        *)
LEMMA BeyondBAllIsDurable ==
  ASSUME DurableInv, NEW c \in Cores, pc[c] \in {"poll", "parked"}, NEW w \in Warps
  PROVE  line[w] = "dram"
<1>1. Arrived(BeforeB)
  BY CoresAreWarps DEF DurableInv, Base, Barriers, AfterB
<1>2. CoreOf(w) \in Cores /\ w \in WarpsOf(CoreOf(w)) /\ CoreOf(w) \in Warps
  BY CoreOfInCores, CoresAreWarps
<1>3. pc[CoreOf(w)] \in {"atB", "poll", "parked"}
  BY <1>1, <1>2 DEF DurableInv, Base, TypeOK, Roles, Arrived, BeforeB, BeforeA, Stages
<1>4. QED
  BY <1>2, <1>3 DEF DurableInv, SecondPass

LEMMA DurableInvImplies == DurableInv => DoneMeansDurable
<1> SUFFICES ASSUME DurableInv, NEW c \in Cores, Begun(c)
             PROVE  /\ done[c] \/ trace[c] \in {"BARB", "POLLED"} =>
                         \A w \in Warps : line[w] = "dram"
                    /\ trace[c] = "DRAIN" => \A w \in WarpsOf(c) : line[w] = "dram"
  BY DEF DoneMeansDurable
<1>1. done[c] \/ trace[c] \in {"BARB", "POLLED"} => pc[c] \in {"poll", "parked"}
  BY DEF DurableInv, Base, Posted
<1>2. trace[c] = "DRAIN" => pc[c] = "atB"
  BY DEF DurableInv, Base, Posted
<1>3. QED
  BY <1>1, <1>2, BeyondBAllIsDurable DEF DurableInv, SecondPass

(* When a core shows DONE, or TRACE claims that it is beyond barrier B,    *)
(* the output of every warp is in DRAM; when TRACE claims that it has      *)
(* drained, its own output is.  That takes the barriers, the two passes    *)
(* and the walk of the sets, and that stores land during the second pause. *)
THEOREM DoneIsDurable == SettleLands => (Spec => []DoneMeansDurable)
<1> SUFFICES ASSUME SettleLands PROVE Spec => []DoneMeansDurable
  OBVIOUS
<1>1. Spec => []DurableInv
  BY InitDurableInv, StepKeepsDurableInv, PTL DEF Spec
<1>2. QED
  BY <1>1, DurableInvImplies, PTL

-----------------------------------------------------------------------------
(* The launch as the host sees it                                          *)

(* The stage of warp 0 alone says where its core is: the lines are in DRAM *)
(* as soon as it has left the second drain.                                *)
DevAt(stage) ==
  CASE stage = "begin"          -> "clear"
    [] stage = "ack"            -> "ack"
    [] stage = "parked"         -> "parked"
    [] stage \in {"atB", "poll"} -> "drained"
    [] OTHER                    -> "work"

OutAt(stage) == IF stage \in {"atB", "poll", "parked"} THEN "result" ELSE "poison"

StageTellsDev ==
  \A c \in Cores : DevOf(c) = DevAt(pc[c]) /\ OutOf(c) = OutAt(pc[c])

LEMMA StageTells == DurableInv => StageTellsDev
<1> SUFFICES ASSUME DurableInv, NEW c \in Cores
             PROVE  DevOf(c) = DevAt(pc[c]) /\ OutOf(c) = OutAt(pc[c])
  BY DEF StageTellsDev
<1>1. pc[c] \in {"atB", "poll", "parked"} => \A w \in WarpsOf(c) : line[w] = "dram"
  BY DEF DurableInv, SecondPass
<1>2. DevOf(c) = DevAt(pc[c])
  BY <1>1 DEF DevOf, DevAt, HasDrained
<1>3. OutOf(c) = OutAt(pc[c])
  BY <1>2 DEF OutOf, OutAt, DevAt
<1>4. QED
  BY <1>2, <1>3

LEMMA StageTellsNext == DurableInv' => StageTellsDev'
BY StageTells, PTL

HostView == <<start, done, [c \in Cores |-> DevOf(c)], [c \in Cores |-> OutOf(c)]>>

LEMMA InitPromise == Init => Promise!DeviceInit
<1> SUFFICES ASSUME Init PROVE Promise!DeviceInit
  OBVIOUS
<1>1. \A c \in Cores : pc[c] = "begin"
  BY CoresAreWarps DEF Init
<1>2. \A c \in Cores : DevOf(c) = "clear"
  BY <1>1 DEF DevOf, HasDrained
<1>3. \A c \in Cores : OutOf(c) = "poison"
  BY <1>2 DEF OutOf
<1>4. <<"junk", 0>> \in Word
  BY GenAssumption DEF Word
<1>5. start \in [Cores -> Word] /\ done \in [Cores -> BOOLEAN]
  BY <1>4 DEF Init
<1>6. QED
  BY <1>2, <1>3, <1>5 DEF Promise!DeviceInit, Promise!Cores, Promise!Word, Cores, Word

(* Steps that the host does not see.                                       *)
LEMMA Unseen ==
  ASSUME DurableInv, DurableInv', UNCHANGED <<start, done>>,
         \A c \in Cores : DevAt(pc'[c]) = DevAt(pc[c]) /\ OutAt(pc'[c]) = OutAt(pc[c])
  PROVE  UNCHANGED HostView
<1>1. \A c \in Cores : DevOf(c)' = DevAt(pc'[c]) /\ OutOf(c)' = OutAt(pc'[c])
  BY StageTellsNext DEF StageTellsDev
<1>2. \A c \in Cores : DevOf(c)' = DevOf(c) /\ OutOf(c)' = OutOf(c)
  BY <1>1, StageTells DEF StageTellsDev
<1>3. [c \in Cores |-> DevOf(c)]' = [c \in Cores |-> DevOf(c)]
  BY <1>2
<1>4. [c \in Cores |-> OutOf(c)]' = [c \in Cores |-> OutOf(c)]
  BY <1>2
<1>5. QED
  BY <1>3, <1>4 DEF HostView

(* A step that moves warp 0 of c, and no other core, to stage.             *)
LEMMA Seen ==
  ASSUME DurableInv, DurableInv', NEW c \in Cores, NEW stage, pc' = [pc EXCEPT ![c] = stage]
  PROVE  /\ [d \in Cores |-> DevOf(d)]' = [[d \in Cores |-> DevOf(d)] EXCEPT ![c] = DevAt(stage)]
         /\ [d \in Cores |-> OutOf(d)]' = [[d \in Cores |-> OutOf(d)] EXCEPT ![c] = OutAt(stage)]
<1>1. \A d \in Cores : pc'[d] = IF d = c THEN stage ELSE pc[d]
  BY CoresAreWarps DEF DurableInv, Base, TypeOK
<1>2. \A d \in Cores : DevOf(d)' = DevAt(pc'[d]) /\ OutOf(d)' = OutAt(pc'[d])
  BY StageTellsNext DEF StageTellsDev
<1>3. \A d \in Cores : /\ DevOf(d)' = IF d = c THEN DevAt(stage) ELSE DevOf(d)
                       /\ OutOf(d)' = IF d = c THEN OutAt(stage) ELSE OutOf(d)
  BY <1>1, <1>2, StageTells DEF StageTellsDev
<1>4. QED
  BY <1>3

LEMMA Warp0KeepsPromise ==
  ASSUME DurableInv, DurableInv', NEW c \in Cores, Warp0(c)
  PROVE  Promise!DeviceNext \/ UNCHANGED HostView
<1> USE DEF box, Goto
<1>0. /\ c \in Warps /\ pc \in [Warps -> Stages] /\ Cores \subseteq Warps
      /\ c \in Promise!Cores /\ Promise!Cores = Cores
  BY CoresAreWarps DEF DurableInv, Base, TypeOK, Promise!Cores, Cores
<1>1. CASE BeginClear(c)
  <2>1. DevOf(c) = "clear" /\ DevAt("ack") = "ack" /\ OutAt("ack") = OutOf(c)
    BY <1>1, StageTells DEF StageTellsDev, BeginClear, DevAt, OutAt
  <2>2. Promise!ClearSlots(c)
    BY <1>1, <2>1, Seen, ZenonT(60) DEF BeginClear, Promise!ClearSlots
  <2>3. QED
    BY <1>0, <2>2 DEF Promise!DeviceNext
<1>2. CASE BeginAck(c)
  <2>1. DevOf(c) = "ack" /\ DevAt("sched") = "work" /\ OutAt("sched") = OutOf(c)
    BY <1>2, StageTells DEF StageTellsDev, BeginAck, DevAt, OutAt
  <2>2. Promise!PostStart(c)
    BY <1>2, <2>1, Seen, ZenonT(60) DEF BeginAck, Promise!PostStart, Promise!NextGen, NextGen
  <2>3. QED
    BY <1>0, <2>2 DEF Promise!DeviceNext
<1>3. CASE Schedule(c)
  BY <1>0, <1>3, Unseen DEF Schedule, DevAt, OutAt
<1>4. CASE Spawn(c)
  <2>1. \A d \in Cores : pc'[d] = IF d = c THEN "body" ELSE pc[d]
    BY <1>0, <1>4, CoresAreWarps DEF Spawn
  <2>2. pc[c] = "rendezvous"
    BY <1>4 DEF Spawn
  <2>3. QED
    BY <1>4, <2>1, <2>2, Unseen DEF Spawn, DevAt, OutAt
<1>5. CASE Pause(c)
  <2>1. \E s \in {"l0d1", "l0d2"} : pc' = [pc EXCEPT ![c] = s]
    BY <1>5 DEF Pause
  <2>2. QED
    BY <1>0, <1>5, <2>1, Unseen DEF Pause, DevAt, OutAt
<1>6. CASE DrainL0d(c)
  <2>1. pc' = pc \/ \E s \in {"l1d1", "l1d2"} : pc' = [pc EXCEPT ![c] = s]
    BY <1>6 DEF DrainL0d, Walk
  <2>2. QED
    BY <1>0, <1>6, <2>1, Unseen DEF DrainL0d, DevAt, OutAt
<1>7. CASE DrainL1(c)
  <2>1. CASE pc' = pc
    BY <1>7, <2>1, Unseen DEF DrainL1
  <2>2. CASE pc[c] = "l1d1" /\ pc' = [pc EXCEPT ![c] = "settle"]
    BY <1>0, <1>7, <2>2, Unseen DEF DrainL1, DevAt, OutAt
  <2>3. CASE pc[c] = "l1d2" /\ pc' = [pc EXCEPT ![c] = "atB"]
    <3>1. Arrived(BeforeA) /\ ~Arrived(BeforeB)
      BY <1>0, <2>3 DEF DurableInv, Base, Barriers, AfterA, Drains, Arrived, BeforeB
    <3>2. \A d \in Cores : pc[d] \notin {"begin", "ack", "parked"}
      BY <1>0, <3>1 DEF DurableInv, Base, Barriers, AfterB, Arrived, BeforeA
    <3>3. \A d \in Cores : DevOf(d) \in {"work", "drained"}
      BY <3>2, StageTells DEF StageTellsDev, DevAt
    <3>4. DevOf(c) = "work" /\ DevAt("atB") = "drained" /\ OutAt("atB") = "result"
      BY <2>3, StageTells DEF StageTellsDev, DevAt, OutAt
    <3>5. /\ [d \in Cores |-> DevOf(d)]' = [[d \in Cores |-> DevOf(d)] EXCEPT ![c] = "drained"]
          /\ [d \in Cores |-> OutOf(d)]' = [[d \in Cores |-> OutOf(d)] EXCEPT ![c] = "result"]
      <4>1. pc' = [pc EXCEPT ![c] = "atB"]
        BY <2>3
      <4>2. DevAt("atB") = "drained" /\ OutAt("atB") = "result"
        BY <3>4
      <4>3. QED
        BY ONLY DurableInv, DurableInv', c \in Cores, <4>1, <4>2, Seen
    <3>6. UNCHANGED <<start, done>>
      BY <1>7 DEF DrainL1
    <3>7. Promise!Work(c, "result")
      BY <1>0, <3>3, <3>4, <3>5, <3>6 DEF Promise!Work
    <3>8. QED
      BY <1>0, <3>7 DEF Promise!DeviceNext
  <2>4. QED
    BY <1>7, <2>1, <2>2, <2>3 DEF DrainL1, Walk
<1>8. CASE LeaveB(c)
  BY <1>0, <1>8, Unseen DEF LeaveB, DevAt, OutAt
<1>9. CASE PollStop(c)
  BY <1>9, Unseen DEF PollStop
<1>10. CASE PostDone(c)
  <2>1. Arrived(BeforeB)
    BY <1>0, <1>10 DEF PostDone, DurableInv, Base, Barriers, AfterB
  <2>2. \A d \in Cores : pc[d] \in {"atB", "poll", "parked"}
    BY <1>0, <2>1 DEF DurableInv, Base, Roles, Arrived, BeforeB, BeforeA, Stages
  <2>3. \A d \in Cores : DevOf(d) \in {"drained", "parked"}
    BY <2>2, StageTells DEF StageTellsDev, DevAt
  <2>4. DevOf(c) = "drained" /\ DevAt("parked") = "parked" /\ OutAt("parked") = OutOf(c)
    BY <1>10, StageTells DEF StageTellsDev, PostDone, DevAt, OutAt
  <2>5. /\ [d \in Cores |-> DevOf(d)]' = [[d \in Cores |-> DevOf(d)] EXCEPT ![c] = "parked"]
        /\ [d \in Cores |-> OutOf(d)]' = [[d \in Cores |-> OutOf(d)] EXCEPT ![c] = OutOf(c)]
    BY <1>10, <2>4, Seen, ZenonT(60) DEF PostDone
  <2>6. UNCHANGED start /\ done' = [done EXCEPT ![c] = TRUE]
    BY <1>10 DEF PostDone
  <2>7. Promise!PostDone(c)
    BY <1>0, <2>3, <2>4, <2>5, <2>6 DEF Promise!PostDone
  <2>8. QED
    BY <1>0, <2>7 DEF Promise!DeviceNext
<1>11. QED
  BY <1>1, <1>2, <1>3, <1>4, <1>5, <1>6, <1>7, <1>8, <1>9, <1>10 DEF Warp0

LEMMA AnyWarpIsUnseen ==
  ASSUME DurableInv, DurableInv', NEW w \in Warps, AnyWarp(w)
  PROVE  UNCHANGED HostView
<1>0. pc \in [Warps -> Stages] /\ Cores \subseteq Warps
  BY CoresAreWarps DEF DurableInv, Base, TypeOK
<1>1. UNCHANGED <<start, done>>
  BY DEF AnyWarp, Body, LeaveA, PostStop, Retire, box
<1>2. ASSUME NEW c \in Cores
      PROVE  DevAt(pc'[c]) = DevAt(pc[c]) /\ OutAt(pc'[c]) = OutAt(pc[c])
  <2>1. CASE pc'[c] = pc[c]
    BY <2>1
  <2>2. CASE c = w /\ pc[c] = "body" /\ pc'[c] = "atA"
    BY <2>2 DEF DevAt, OutAt
  <2>3. CASE c = w /\ pc[c] = "atA" /\ pc'[c] = "pause"
    BY <2>3 DEF DevAt, OutAt
  <2>4. pc[c] # "tmc"
    BY <1>0 DEF DurableInv, Base, Roles
  <2>5. QED
    BY <1>0, <2>1, <2>2, <2>3, <2>4 DEF AnyWarp, Body, LeaveA, PostStop, Retire, Goto
<1>3. QED
  BY <1>1, <1>2, Unseen

(* The warps, caches and barriers of a launch implement module Device:     *)
(* the host may rely on the promise it is composed with in HostRun.  The   *)
(* Work step of the promise is the last step of the second L1 drain.       *)
THEOREM EpilogueImplementsDevice == SettleLands => (Spec => KeepsPromise)
<1> SUFFICES ASSUME SettleLands PROVE Spec => KeepsPromise
  OBVIOUS
<1>1. Spec => []DurableInv
  BY InitDurableInv, StepKeepsDurableInv, PTL DEF Spec
<1>2. DurableInv /\ DurableInv' /\ [Next]_vars => [Promise!DeviceNext]_HostView
  <2> SUFFICES ASSUME DurableInv, DurableInv', [Next]_vars
               PROVE  Promise!DeviceNext \/ UNCHANGED HostView
    OBVIOUS
  <2>1. CASE UNCHANGED vars
    BY <2>1, Unseen DEF vars
  <2>2. CASE Memory
    <3>1. UNCHANGED <<start, done, pc>>
      BY <2>2 DEF Memory, Land, Evict, box
    <3>2. QED
      BY <3>1, Unseen
  <2>3. QED
    BY <2>1, <2>2, Warp0KeepsPromise, AnyWarpIsUnseen DEF Next
<1>3. QED
  BY <1>1, <1>2, InitPromise, PTL DEF Spec, KeepsPromise, Promise!DeviceSpec, HostView

-----------------------------------------------------------------------------
(* Every launch ends                                                       *)

Lines == {"unwritten", "queue", "l0d", "l1", "dram"}

LEMMA AlongTable ==
  /\ Along("idle") = 0 /\ Along("begin") = 1 /\ Along("ack") = 2 /\ Along("sched") = 3
  /\ Along("rendezvous") = 4 /\ Along("body") = 5 /\ Along("atA") = 6 /\ Along("pause") = 7
  /\ Along("l0d1") = 8 /\ Along("l1d1") = 9 /\ Along("settle") = 10 /\ Along("l0d2") = 11
  /\ Along("l1d2") = 12 /\ Along("atB") = 13 /\ Along("tmc") = 14 /\ Along("poll") = 14
  /\ Along("stopped") = 15 /\ Along("parked") = 15
BY DEF Along

LEMMA AlongIsNumber == \A s \in Stages : Along(s) \in Nat
BY AlongTable DEF Stages, Drains

LEMMA DownTable ==
  /\ Down("unwritten") = 0 /\ Down("queue") = 1 /\ Down("l0d") = 2 /\ Down("l1") = 3
  /\ Down("dram") = 4 /\ \A l \in Lines : Down(l) \in Nat
BY DEF Down, Lines

Unwritten == \A w \in Warps : pc[w] \in BeforeA => line[w] = "unwritten"
StopPosted == \A w \in Warps \ Cores : pc[w] \in {"tmc", "stopped"} => stop[w]
ParkedShowsDone == \A c \in Cores : pc[c] = "parked" => done[c]

IdleUntilSpawned == \A w \in Warps : pc[w] = "idle" => pc[CoreOf(w)] \in Starting

EndInv == Base /\ Unwritten /\ StopPosted /\ ParkedShowsDone /\ IdleUntilSpawned

Onward == NothingGoesBack /\ SomethingGoesOn

LEMMA InitEndInv == Init => EndInv
BY InitBase, CoresAreWarps, CoreOfInCores
DEF Init, EndInv, Unwritten, StopPosted, ParkedShowsDone, IdleUntilSpawned, Starting

(* A step of one warp that leaves the caches and the loops alone.          *)
LEMMA WarpOnward ==
  ASSUME Base, NEW w \in Warps, NEW stage \in Stages, Goto(w, stage),
         Along(pc[w]) < Along(stage), UNCHANGED <<walk, polled>>,
         \A v \in Warps : Down(line[v]) <= Down(line'[v])
  PROVE  Onward
<1>1. /\ pc \in [Warps -> Stages] /\ walk \in [Cores -> 0 .. NumSets - 1]
      /\ polled \in [Cores -> 1 .. Occupancy] /\ pc' = [pc EXCEPT ![w] = stage]
  BY DEF Base, TypeOK, Goto
<1>2. \A v \in Warps : Along(pc[v]) \in Nat /\ Along(pc[v]) <= Along(pc'[v])
  BY <1>1, AlongIsNumber
<1>3. Along(pc[w]) < Along(pc'[w])
  BY <1>1
<1>4. /\ \A c \in Cores : walk[c] \in Int /\ polled[c] \in Int
      /\ \A c \in Cores : walk[c] <= walk'[c] /\ polled[c] <= polled'[c]
  BY <1>1, SetsAssumption, NumWarpsNat
<1>5. NothingGoesBack
  BY <1>2, <1>4 DEF NothingGoesBack
<1>6. SomethingGoesOn
  BY <1>3 DEF SomethingGoesOn
<1>7. QED
  BY <1>5, <1>6 DEF Onward

LEMMA LinesStay ==
  ASSUME Base, UNCHANGED line
  PROVE  \A v \in Warps : Down(line[v]) <= Down(line'[v])
BY DownTable DEF Base, TypeOK, Lines

(* A step of a drain.                                                      *)
LEMMA WalkOnward ==
  ASSUME EndInv, NEW c \in Cores, NEW beyond \in Stages, Walk(c, beyond),
         pc[c] \in Drains, Along(pc[c]) < Along(beyond), UNCHANGED <<stop, done, polled>>,
         beyond \notin {"tmc", "stopped", "parked"} \cup BeforeA,
         \A w \in Warps : Down(line[w]) <= Down(line'[w]),
         \A w \in Warps : line[w] = "unwritten" => line'[w] = "unwritten"
  PROVE  Onward /\ Unwritten' /\ StopPosted' /\ ParkedShowsDone' /\ IdleUntilSpawned'
<1>0. c \in Warps /\ TypeOK /\ Base
  BY CoresAreWarps DEF EndInv, Base
<1>1. CASE walk[c] < NumSets - 1
  <2>1. UNCHANGED pc /\ walk' = [walk EXCEPT ![c] = @ + 1]
    BY <1>1 DEF Walk
  <2>2. /\ \A d \in Cores : walk[d] <= walk'[d] /\ polled[d] <= polled'[d]
        /\ walk[c] < walk'[c]
    BY <1>0, <2>1, SetsAssumption, NumWarpsNat DEF TypeOK
  <2>3. \A w \in Warps : Along(pc[w]) <= Along(pc'[w])
    BY <1>0, <2>1, AlongIsNumber DEF TypeOK
  <2>4. Onward
    BY <2>2, <2>3 DEF Onward, NothingGoesBack, SomethingGoesOn
  <2>5. QED
    BY <2>1, <2>4 DEF EndInv, Unwritten, StopPosted, ParkedShowsDone, IdleUntilSpawned
<1>2. CASE ~(walk[c] < NumSets - 1)
  <2>1. pc' = [pc EXCEPT ![c] = beyond] /\ walk' = [walk EXCEPT ![c] = 0]
    BY <1>2 DEF Walk, Goto
  <2>2. /\ \A w \in Warps : pc'[w] = IF w = c THEN beyond ELSE pc[w]
        /\ \A d \in Cores \ {c} : walk[d] <= walk'[d]
        /\ \A d \in Cores : polled[d] <= polled'[d]
    BY <1>0, <2>1, SetsAssumption, NumWarpsNat DEF TypeOK
  <2>3. \A w \in Warps : Along(pc[w]) <= Along(pc'[w])
    BY <1>0, <2>2, AlongIsNumber DEF TypeOK
  <2>4. Along(pc[c]) < Along(pc'[c])
    BY <1>0, <2>2
  <2>5. Onward
    BY <1>0, <2>2, <2>3, <2>4 DEF Onward, NothingGoesBack, SomethingGoesOn
  <2>6. Unwritten' /\ StopPosted' /\ ParkedShowsDone'
    BY <2>2, CoresAreWarps DEF EndInv, Unwritten, StopPosted, ParkedShowsDone
  <2>7. IdleUntilSpawned'
    BY <2>2, CoresAreWarps, CoreOfInCores
    DEF EndInv, IdleUntilSpawned, Starting, Drains, BeforeA
  <2>8. QED
    BY <2>5, <2>6, <2>7
<1>3. QED
  BY <1>1, <1>2

(* What each step of warp 0 does for the end of the launch.                *)
LEMMA Warp0Onward ==
  ASSUME EndInv, NEW c \in Cores, Warp0(c)
  PROVE  Onward /\ Unwritten' /\ StopPosted' /\ ParkedShowsDone' /\ IdleUntilSpawned'
<1> USE DEF box
<1>0. /\ c \in Warps /\ CoreOf(c) = c /\ Base /\ TypeOK
  BY CoresAreWarps DEF EndInv, Base
<1>1. CASE BeginClear(c)
  <2>1. Onward
    BY <1>0, <1>1, AlongTable, LinesStay, WarpOnward DEF BeginClear, Stages
  <2>2. Unwritten'
    BY <1>0, <1>1 DEF BeginClear, EndInv, Unwritten, TypeOK, BeforeA, Goto
  <2>3. StopPosted'
    BY <1>0, <1>1, CoreOfInCores DEF BeginClear, EndInv, StopPosted, Base, Roles, Starting, TypeOK, Goto
  <2>4. ParkedShowsDone'
    BY <1>0, <1>1, CoresAreWarps DEF BeginClear, EndInv, ParkedShowsDone, TypeOK, Goto
  <2>5. IdleUntilSpawned'
    BY <1>0, <1>1, CoreOfInCores DEF BeginClear, EndInv, IdleUntilSpawned, Starting, TypeOK, Goto
  <2>6. QED
    BY <2>1, <2>2, <2>3, <2>4, <2>5
<1>2. CASE BeginAck(c)
  <2>1. Onward
    BY <1>0, <1>2, AlongTable, LinesStay, WarpOnward DEF BeginAck, Stages
  <2>2. Unwritten' /\ StopPosted' /\ ParkedShowsDone' /\ IdleUntilSpawned'
    BY <1>0, <1>2, CoresAreWarps, CoreOfInCores
    DEF BeginAck, EndInv, Unwritten, StopPosted, ParkedShowsDone, IdleUntilSpawned, TypeOK, BeforeA, Goto,
        Starting, Drains
  <2>3. QED
    BY <2>1, <2>2
<1>3. CASE Schedule(c)
  <2>1. Onward
    BY <1>0, <1>3, AlongTable, LinesStay, WarpOnward DEF Schedule, Stages
  <2>2. Unwritten' /\ StopPosted' /\ ParkedShowsDone' /\ IdleUntilSpawned'
    BY <1>0, <1>3, CoresAreWarps, CoreOfInCores
    DEF Schedule, EndInv, Unwritten, StopPosted, ParkedShowsDone, IdleUntilSpawned, TypeOK, BeforeA, Goto,
        Starting, Drains
  <2>3. QED
    BY <2>1, <2>2
<1>4. CASE Spawn(c)
  <2>1. /\ pc[c] = "rendezvous"
        /\ \A w \in Warps : pc'[w] = IF CoreOf(w) = c THEN "body" ELSE pc[w]
        /\ UNCHANGED <<walk, polled, line, stop, done>>
    BY <1>4 DEF Spawn
  <2>2. ASSUME NEW w \in Warps, CoreOf(w) = c
        PROVE  pc[w] \in {"idle", "rendezvous"}
    BY <1>0, <2>1, <2>2, CoresAreWarps DEF Base, Roles, Starting
  <2>3. \A w \in Warps : pc[w] \in Stages
    BY <1>0 DEF TypeOK
  <2>4. /\ \A w \in Warps : Along(pc[w]) <= Along(pc'[w])
        /\ Along(pc[c]) < Along(pc'[c])
    BY <1>0, <2>1, <2>2, <2>3, AlongTable, AlongIsNumber
  <2>5. \A d \in Cores : walk[d] <= walk'[d] /\ polled[d] <= polled'[d]
    BY <1>0, <2>1, SetsAssumption, NumWarpsNat DEF TypeOK
  <2>6. Onward
    BY <1>0, <2>1, <2>4, <2>5, LinesStay DEF Onward, NothingGoesBack, SomethingGoesOn
  <2>7. Unwritten'
    BY <2>1, <2>2 DEF EndInv, Unwritten, BeforeA
  <2>8. StopPosted' /\ ParkedShowsDone'
    BY <2>1, CoresAreWarps DEF EndInv, StopPosted, ParkedShowsDone
  <2>9. IdleUntilSpawned'
    BY <2>1, CoreOfInCores, CoresAreWarps DEF EndInv, IdleUntilSpawned
  <2>10. QED
    BY <2>6, <2>7, <2>8, <2>9
<1>5. CASE Pause(c)
  <2>1. Onward
    BY <1>0, <1>5, AlongTable, LinesStay, WarpOnward DEF Pause, Stages, Drains
  <2>2. Unwritten' /\ StopPosted' /\ ParkedShowsDone' /\ IdleUntilSpawned'
    BY <1>0, <1>5, CoresAreWarps, CoreOfInCores
    DEF Pause, EndInv, Unwritten, StopPosted, ParkedShowsDone, IdleUntilSpawned, TypeOK, BeforeA, Goto,
        Starting, Drains
  <2>3. QED
    BY <2>1, <2>2
<1>8. CASE LeaveB(c)
  <2>1. Onward
    BY <1>0, <1>8, AlongTable, LinesStay, WarpOnward DEF LeaveB, Stages
  <2>2. Unwritten' /\ StopPosted' /\ ParkedShowsDone' /\ IdleUntilSpawned'
    BY <1>0, <1>8, CoresAreWarps, CoreOfInCores
    DEF LeaveB, EndInv, Unwritten, StopPosted, ParkedShowsDone, IdleUntilSpawned, TypeOK, BeforeA, Goto,
        Starting, Drains
  <2>3. QED
    BY <2>1, <2>2
<1>10. CASE PostDone(c)
  <2>1. Onward
    BY <1>0, <1>10, AlongTable, LinesStay, WarpOnward DEF PostDone, Stages
  <2>2. Unwritten' /\ StopPosted' /\ IdleUntilSpawned'
    BY <1>0, <1>10, CoresAreWarps, CoreOfInCores
    DEF PostDone, EndInv, Unwritten, StopPosted, IdleUntilSpawned, TypeOK, BeforeA, Goto,
        Starting, Drains
  <2>3. ParkedShowsDone'
    BY <1>0, <1>10, CoresAreWarps DEF PostDone, EndInv, ParkedShowsDone, TypeOK, Goto
  <2>4. QED
    BY <2>1, <2>2, <2>3
<1>6. CASE DrainL0d(c)
  <2>1. /\ \A w \in Warps : Down(line[w]) <= Down(line'[w])
        /\ \A w \in Warps : line[w] = "unwritten" => line'[w] = "unwritten"
        /\ UNCHANGED <<stop, done, polled>>
    BY <1>0, <1>6, DownTable DEF DrainL0d, TypeOK, Lines
  <2>2. PICK beyond \in Stages : /\ Walk(c, beyond)
                               /\ Along(pc[c]) < Along(beyond)
                               /\ beyond \notin {"tmc", "stopped", "parked"} \cup BeforeA
    BY <1>6, AlongTable DEF DrainL0d, Stages, Drains, BeforeA
  <2>3. pc[c] \in Drains
    BY <1>6 DEF DrainL0d, Drains
  <2>4. QED
    BY <2>1, <2>2, <2>3, WalkOnward
<1>7. CASE DrainL1(c)
  <2>1. /\ \A w \in Warps : Down(line[w]) <= Down(line'[w])
        /\ \A w \in Warps : line[w] = "unwritten" => line'[w] = "unwritten"
        /\ UNCHANGED <<stop, done, polled>>
    BY <1>0, <1>7, DownTable DEF DrainL1, TypeOK, Lines
  <2>2. PICK beyond \in Stages : /\ Walk(c, beyond)
                               /\ Along(pc[c]) < Along(beyond)
                               /\ beyond \notin {"tmc", "stopped", "parked"} \cup BeforeA
    BY <1>7, AlongTable DEF DrainL1, Stages, Drains, BeforeA
  <2>3. pc[c] \in Drains
    BY <1>7 DEF DrainL1, Drains
  <2>4. QED
    BY <2>1, <2>2, <2>3, WalkOnward
<1>9. CASE PollStop(c)
  <2>1. /\ UNCHANGED <<pc, line, walk, stop, done>>
        /\ polled' = [polled EXCEPT ![c] = @ + 1]
    BY <1>9 DEF PollStop
  <2>2. /\ polled[c] < polled'[c]
        /\ \A d \in Cores : polled[d] <= polled'[d] /\ walk[d] <= walk'[d]
    BY <1>0, <2>1, SetsAssumption, NumWarpsNat DEF TypeOK
  <2>3. \A w \in Warps : Along(pc[w]) <= Along(pc'[w])
    BY <1>0, <2>1, AlongIsNumber DEF TypeOK
  <2>4. Onward
    BY <1>0, <2>1, <2>2, <2>3, LinesStay DEF Onward, NothingGoesBack, SomethingGoesOn
  <2>5. QED
    BY <2>1, <2>4 DEF EndInv, Unwritten, StopPosted, ParkedShowsDone, IdleUntilSpawned
<1>11. QED
  BY <1>1, <1>2, <1>3, <1>4, <1>5, <1>6, <1>7, <1>8, <1>9, <1>10 DEF Warp0

LEMMA AnyWarpOnward ==
  ASSUME EndInv, NEW w \in Warps, AnyWarp(w)
  PROVE  Onward /\ Unwritten' /\ StopPosted' /\ ParkedShowsDone' /\ IdleUntilSpawned'
<1> USE DEF box
<1>0. Base /\ TypeOK
  BY DEF EndInv, Base
<1>1. CASE Body(w)
  <2>1. line[w] = "unwritten"
    BY <1>1 DEF Body, EndInv, Unwritten, BeforeA
  <2>2. \A v \in Warps : Down(line[v]) <= Down(line'[v])
    BY <1>0, <1>1, <2>1, DownTable DEF Body, TypeOK, Lines
  <2>3. Onward
    BY <1>0, <1>1, <2>2, AlongTable, WarpOnward DEF Body, Stages
  <2>4. Unwritten' /\ StopPosted' /\ ParkedShowsDone' /\ IdleUntilSpawned'
    BY <1>0, <1>1, CoresAreWarps, CoreOfInCores
    DEF Body, EndInv, Unwritten, StopPosted, ParkedShowsDone, IdleUntilSpawned, TypeOK, BeforeA, Goto,
        Starting, Drains
  <2>5. QED
    BY <2>3, <2>4
<1>2. CASE LeaveA(w)
  <2>1. Onward
    BY <1>0, <1>2, AlongTable, LinesStay, WarpOnward DEF LeaveA, Stages
  <2>2. Unwritten' /\ StopPosted' /\ ParkedShowsDone' /\ IdleUntilSpawned'
    BY <1>0, <1>2, CoresAreWarps, CoreOfInCores
    DEF LeaveA, EndInv, Unwritten, StopPosted, ParkedShowsDone, IdleUntilSpawned, TypeOK, BeforeA, Goto,
        Starting, Drains
  <2>3. QED
    BY <2>1, <2>2
<1>3. CASE PostStop(w)
  <2>1. Onward
    BY <1>0, <1>3, AlongTable, LinesStay, WarpOnward DEF PostStop, Stages
  <2>2. Unwritten' /\ ParkedShowsDone' /\ IdleUntilSpawned'
    BY <1>0, <1>3, CoresAreWarps, CoreOfInCores
    DEF PostStop, EndInv, Unwritten, ParkedShowsDone, IdleUntilSpawned, TypeOK, BeforeA, Goto,
        Starting, Drains
  <2>3. StopPosted'
    BY <1>0, <1>3, CoresAreWarps DEF PostStop, EndInv, StopPosted, TypeOK, Goto
  <2>4. QED
    BY <2>1, <2>2, <2>3
<1>4. CASE Retire(w)
  <2>1. Onward
    BY <1>0, <1>4, AlongTable, LinesStay, WarpOnward DEF Retire, Stages
  <2>2. Unwritten' /\ ParkedShowsDone' /\ IdleUntilSpawned'
    BY <1>0, <1>4, CoresAreWarps, CoreOfInCores
    DEF Retire, EndInv, Unwritten, ParkedShowsDone, IdleUntilSpawned, TypeOK, BeforeA, Goto,
        Starting, Drains
  <2>3. StopPosted'
    BY <1>0, <1>4, CoresAreWarps DEF Retire, EndInv, StopPosted, TypeOK, Goto
  <2>4. QED
    BY <2>1, <2>2, <2>3
<1>5. QED
  BY <1>1, <1>2, <1>3, <1>4 DEF AnyWarp

LEMMA MemoryOnward ==
  ASSUME EndInv, Memory
  PROVE  Onward /\ Unwritten' /\ StopPosted' /\ ParkedShowsDone' /\ IdleUntilSpawned'
<1>1. PICK w \in Warps : Land(w) \/ Evict(w)
  BY DEF Memory
<1>2. /\ TypeOK /\ Base
      /\ UNCHANGED <<start, done, stop, trace, pc, walk, polled>>
      /\ line[w] \in {"queue", "l0d", "l1"}
  BY <1>1 DEF Land, Evict, box, EndInv, Base
<1>3. /\ \A v \in Warps : Down(line[v]) <= Down(line'[v])
      /\ Down(line[w]) < Down(line'[w])
      /\ \A v \in Warps : line[v] = "unwritten" => line'[v] = "unwritten"
  BY <1>1, <1>2, DownTable DEF Land, Evict, TypeOK, Lines
<1>4. /\ \A v \in Warps : Along(pc[v]) <= Along(pc'[v])
      /\ \A d \in Cores : polled[d] <= polled'[d] /\ walk[d] <= walk'[d]
  BY <1>2, AlongIsNumber, SetsAssumption, NumWarpsNat DEF TypeOK
<1>5. Onward
  BY <1>3, <1>4 DEF Onward, NothingGoesBack, SomethingGoesOn
<1>6. QED
  BY <1>2, <1>3, <1>5 DEF EndInv, Unwritten, StopPosted, ParkedShowsDone, IdleUntilSpawned

LEMMA EndInvAlways == Spec => []EndInv
<1>1. EndInv /\ [Next]_vars => EndInv'
  <2> SUFFICES ASSUME EndInv, [Next]_vars PROVE EndInv'
    OBVIOUS
  <2>1. Base'
    BY StepKeepsBase DEF EndInv
  <2>2. CASE UNCHANGED vars
    BY <2>1, <2>2 DEF vars, EndInv, Unwritten, StopPosted, ParkedShowsDone, IdleUntilSpawned
  <2>3. QED
    BY <2>1, <2>2, Warp0Onward, AnyWarpOnward, MemoryOnward DEF Next, EndInv
<1>2. QED
  BY <1>1, InitEndInv, PTL DEF Spec

(* For any number of cores, warps and cache sets, whatever lands or is     *)
(* evicted when, and whether or not the poll runs out, a launch makes a    *)
(* bounded number of steps (rad_tapeout.h).                                *)
THEOREM LaunchIsBounded == Spec => EveryStepCounts
<1>1. EndInv /\ [Next]_vars => [NothingGoesBack /\ SomethingGoesOn]_vars
  BY Warp0Onward, AnyWarpOnward, MemoryOnward DEF Next, Onward
<1>2. QED
  BY <1>1, EndInvAlways, PTL DEF Spec, EveryStepCounts

(* A core polls only slots that their warps have set or are about to set.  *)
LEMMA AwaitedStops ==
  ASSUME EndInv, NEW c \in Cores, pc[c] = "poll", Awaited(c) < NumWarps,
         ~stop[Awaited(c)]
  PROVE  \E w \in Warps : WarpMayStep(w)
<1> DEFINE w == Awaited(c)
<1>1. /\ TypeOK /\ Roles /\ Barriers /\ c \in Warps
  BY CoresAreWarps DEF EndInv, Base
<1>2. polled[c] \in Nat \ {0}
  BY <1>1, NumWarpsNat DEF TypeOK
<1>3. w \in Warps \ Cores
  BY <1>2, AwaitedIsOfCore DEF Awaited
<1> HIDE DEF w
<1>4. Arrived(BeforeB)
  BY <1>1 DEF Barriers, AfterB
<1>5. pc[w] \in {"atB", "tmc", "stopped"}
  BY <1>1, <1>3, <1>4 DEF Arrived, Roles, BeforeB, BeforeA
<1>6. pc[w] # "stopped"
  BY <1>3 DEF EndInv, StopPosted, w
<1>7. QED
  BY <1>3, <1>4, <1>5, <1>6 DEF WarpMayStep

(* For any number of cores, warps and cache sets a launch is never stuck   *)
(* before every core shows DONE (rad_tapeout.h).                           *)
THEOREM LaunchIsNeverStuck == Spec => []NeverStuck
<1>1. EndInv => NeverStuck
  <2> SUFFICES ASSUME EndInv,
                      NEW b \in Cores, ~(pc[b] = "parked" /\ done[b]),
                      \A c \in Cores : ~Warp0MayStep(c),
                      \A w \in Warps : ~WarpMayStep(w) /\ line[w] # "queue"
               PROVE  FALSE
    BY DEF NeverStuck
  <2>1. /\ TypeOK /\ Roles /\ Barriers /\ b \in Warps
        /\ \A c \in Cores : c \in Warps /\ CoreOf(c) = c
        /\ \A w \in Warps : pc[w] \in Stages /\ CoreOf(w) \in Cores
    BY CoresAreWarps, CoreOfInCores DEF EndInv, Base, TypeOK
  <2>2. ASSUME NEW c \in Cores
        PROVE  pc[c] \in {"atA", "atB", "poll", "parked"}
    <3>1. pc[c] \notin {"begin", "ack", "sched", "body"} \cup Drains
      BY <2>1 DEF Warp0MayStep, WarpMayStep
    <3>2. pc[c] # "rendezvous"
      BY <2>1 DEF Warp0MayStep
    <3>3. pc[c] \notin {"pause", "settle"}
      BY DEF Warp0MayStep, WarpsOf
    <3>4. QED
      BY <2>1, <3>1, <3>2, <3>3 DEF Roles, Stages
  <2>3. Arrived(BeforeA)
    <3> SUFFICES ASSUME NEW w \in Warps, pc[w] \in BeforeA PROVE FALSE
      BY DEF Arrived
    <3>1. pc[w] # "body"
      BY DEF WarpMayStep
    <3>2. w \notin Cores
      BY <2>2, <3>1 DEF BeforeA
    <3>3. pc[w] = "idle"
      BY <2>1, <3>1, <3>2 DEF Roles, BeforeA
    <3>4. pc[CoreOf(w)] \in Starting
      BY <3>3 DEF EndInv, IdleUntilSpawned
    <3>5. QED
      BY <2>1, <2>2, <3>4 DEF Starting
  <2>4. ASSUME NEW w \in Warps
        PROVE  pc[w] \notin {"atA", "body", "tmc"}
    BY <2>3 DEF WarpMayStep
  <2>5. Arrived(BeforeB)
    <3> SUFFICES ASSUME NEW w \in Warps, pc[w] \in BeforeB PROVE FALSE
      BY DEF Arrived
    <3>1. pc[w] \in {"pause", "settle"} \cup Drains
      BY <2>3, <2>4 DEF Arrived, BeforeB
    <3>2. w \in Cores
      BY <2>1, <3>1 DEF Roles, Drains
    <3>3. QED
      BY <2>2, <3>1, <3>2 DEF Drains
  <2>6. ASSUME NEW c \in Cores
        PROVE  pc[c] = "parked"
    <3>1. pc[c] \in {"poll", "parked"}
      BY <2>1, <2>2, <2>4, <2>5 DEF Warp0MayStep
    <3>2. pc[c] # "poll"
      BY AwaitedStops DEF Warp0MayStep
    <3>3. QED
      BY <3>1, <3>2
  <2>7. QED
    BY <2>6 DEF EndInv, ParkedShowsDone
<1>2. QED
  BY <1>1, EndInvAlways, PTL
=============================================================================
