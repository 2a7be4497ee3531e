-------------------------- MODULE TilePhasesProofs --------------------------
(* A script that keeps the conditions of TileOrder, run by any number of   *)
(* warps, keeps the promises of TilePhases.                                *)
EXTENDS TileOrder, FiniteSetTheorems, WellFoundedInduction, TLAPS

-----------------------------------------------------------------------------
(* Operations in order                                                     *)

LEMMA MinIsLeast ==
  ASSUME NEW T \in SUBSET Nat, T # {}
  PROVE  Min(T) \in T /\ \A y \in T : Min(T) <= y
<1>1. \E x \in T : \A y \in T : ~ (<<y, x>> \in OpToRel(<, Nat))
  BY NatLessThanWellFounded, WFMin
<1>2. PICK x \in T : \A y \in T : ~ (y < x)
  BY <1>1 DEF OpToRel
<1>3. \A y \in T : x <= y
  BY <1>2
<1>4. QED
  BY <1>3 DEF Min

LEMMA ActorsAreFinite == IsFiniteSet(Actors)
<1>1. IsFiniteSet(0 .. NumWarps - 1)
  BY WarpsAssumption, FS_Interval
<1>2. QED
  BY <1>1, FS_AddElement DEF Actors, Warps, Host

(* Where the operation after i lies.                                       *)
LEMMA NextOperation ==
  ASSUME WellFormed, NEW w, NEW i \in Nat, i < End
  PROVE  /\ Following(w, i) \in i + 1 .. End
         /\ Following(w, i) < End => w \in Script[Following(w, i)].who
         /\ \A j \in Steps : i < j /\ w \in Script[j].who => Following(w, i) <= j
<1> DEFINE T == {j \in i + 1 .. Len(Script) : w \in Script[j].who} \cup {End}
<1>1. Len(Script) \in Nat /\ End = Len(Script) + 1
  BY DEF WellFormed, End
<1>2. T \in SUBSET Nat /\ T # {}
  BY <1>1
<1>3. Min(T) \in T /\ \A y \in T : Min(T) <= y
  BY <1>2, MinIsLeast
<1>4. QED
  BY <1>1, <1>3 DEF Following, Steps

(* What depends on the script only.                                        *)
LEMMA Static ==
  ASSUME kernel' = kernel
  PROVE  /\ Script' = Script /\ Layout' = Layout /\ End' = End /\ Steps' = Steps
         /\ Commands' = Commands
         /\ \A kind : Indices(kind)' = Indices(kind)
         /\ \A w, i : Following(w, i)' = Following(w, i)
         /\ \A c : Issuer(c)' = Issuer(c)
         /\ \A i : AtPort(i)' = AtPort(i)
         /\ WellFormed' = WellFormed
<1>1. Script' = Script /\ Layout' = Layout
  BY DEF Script, Layout
<1>2. End' = End /\ Steps' = Steps
  BY <1>1 DEF End, Steps
<1>3. \A kind : Indices(kind)' = Indices(kind)
  BY <1>1 DEF Indices
<1>4. Commands' = Commands
  BY <1>3 DEF Commands
<1>5. \A w, i : Following(w, i)' = Following(w, i)
  BY <1>1, <1>2 DEF Following
<1>6. \A c : Issuer(c)' = Issuer(c)
  BY <1>1 DEF Issuer
<1>7. \A i : AtPort(i)' = AtPort(i)
  BY <1>1 DEF AtPort
<1>8. WellFormed' = WellFormed
  BY <1>1, <1>2, <1>3, <1>4 DEF WellFormed
<1>9. QED
  BY <1>1, <1>2, <1>3, <1>4, <1>5, <1>6, <1>7, <1>8

LEMMA TheIssuer ==
  ASSUME WellFormed, NEW c \in Commands
  PROVE  Issuer(c) \in Actors /\ Script[c].who = {Issuer(c)}
BY DEF WellFormed, Issuer

-----------------------------------------------------------------------------
(* Where the actors are, and what is under way                             *)

Ranges ==
  /\ kernel \in Kernels
  /\ pc \in [Actors -> 1 .. End]
  /\ mode \in [Actors -> {"ready", "busy", "waiting"}]
  /\ unfenced \in [Actors -> SUBSET Indices("simt")]
  /\ queue \subseteq Commands /\ busy \subseteq queue
  /\ DOMAIN flags = FlagsOf(kernel)

(* An actor stands at operations of its own.                               *)
AtWork ==
  \A w \in Actors :
    /\ pc[w] < End => w \in Script[pc[w]].who
    /\ mode[w] = "busy" => pc[w] \in Indices("simt")
    /\ mode[w] = "waiting" => pc[w] \in Indices("barrier")

(* What has not ended was begun.                                           *)
Behind ==
  /\ \A w \in Actors : \A i \in unfenced[w] : i < pc[w] /\ w \in Script[i].who
  /\ \A c \in queue : c < pc[Issuer(c)]

(* BUSY shows every command but a loop that has not reached the station.   *)
Shown == \A c \in queue \ busy : Program[kernel].lateBusy /\ Script[c].unit # "dma"

(* Commands that end in order leave the last ones in the queue.            *)
LastOnes ==
  Program[kernel].inOrder =>
    \A c \in queue, d \in Commands : c <= d /\ d < pc[Issuer(d)] => d \in queue

Shape == Ranges /\ AtWork /\ Behind /\ Shown /\ LastOnes

LEMMA InitShape == WellFormed /\ Init => Shape
<1> SUFFICES ASSUME WellFormed, Init PROVE Shape
  OBVIOUS
<1>1. Len(Script) \in Nat /\ End = Len(Script) + 1
  BY DEF WellFormed, End
<1>2. \A w \in Actors : Following(w, 0) \in 1 .. End
                        /\ (Following(w, 0) < End => w \in Script[Following(w, 0)].who)
  BY <1>1, NextOperation
<1>3. Ranges
  BY <1>2 DEF Init, Ranges
<1>4. AtWork
  BY <1>2 DEF Init, AtWork
<1>5. QED
  BY <1>3, <1>4 DEF Init, Shape, Behind, Shown, LastOnes

-----------------------------------------------------------------------------
(* What a step does                                                        *)

Leaves(v) == pc'[v] # pc[v]

(* A step of w alone that takes it past an operation of this kind.         *)
Walks(w, kind) ==
  /\ w \in Actors /\ pc[w] \in Indices(kind) /\ w \in Script[pc[w]].who
  /\ pc' = [pc EXCEPT ![w] = Following(w, pc[w])]

Kinds == {"simt", "fence", "config", "command", "hostfence", "drain", "drainloops",
          "occupancy", "post", "await"}

LEMMA Walking ==
  ASSUME WellFormed, Shape, NEW w \in Actors, NEW kind, pc[w] < End, Op(w).kind = kind, Advance(w)
  PROVE  Walks(w, kind)
<1>1. pc[w] \in Steps
  BY DEF WellFormed, Shape, Ranges, End, Steps
<1>2. QED
  BY <1>1 DEF Walks, Advance, Op, Indices, Steps, Shape, AtWork

(* Those who go on together from a barrier.                                *)
Arrived(w) == InBarrier(Op(w).id) \cup {w}
Meets(w) ==
  /\ w \in Actors /\ At(w, "barrier") /\ pc[w] \in Indices("barrier")
  /\ w \in Script[pc[w]].who
  /\ ~ (Cardinality(Arrived(w)) < Cardinality(Op(w).who))
  /\ Arrived(w) \subseteq Actors
  /\ mode' = [v \in Actors |-> IF v \in Arrived(w) THEN "ready" ELSE mode[v]]
  /\ pc' = [v \in Actors |-> IF v \in Arrived(w) THEN Following(v, pc[v]) ELSE pc[v]]

LEMMA Meeting ==
  ASSUME WellFormed, Shape, NEW w \in Actors, Arrive(w)
  PROVE  \/ pc' = pc /\ mode' = [mode EXCEPT ![w] = "waiting"]
         \/ Meets(w)
<1>1. pc[w] \in Steps
  BY DEF WellFormed, Shape, Ranges, End, Steps, Arrive, At
<1>2. pc[w] \in Indices("barrier") /\ w \in Script[pc[w]].who
  BY <1>1 DEF Arrive, At, Op, Indices, Steps, Shape, AtWork
<1>3. Arrived(w) \subseteq Actors
  BY DEF Arrived, InBarrier
<1>4. QED
  BY <1>2, <1>3 DEF Arrive, Meets, Arrived

LEMMA Together1 ==
  ASSUME WellFormed, Shape, NEW w \in Actors, Meets(w), NEW v \in Arrived(w)
  PROVE  /\ pc[v] \in Indices("barrier") /\ Script[pc[v]].id = Script[pc[w]].id
         /\ v \in Script[pc[v]].who
<1>1. CASE v = w
  BY <1>1 DEF Meets
<1>2. CASE v # w
  <2>1. v \in Actors /\ mode[v] = "waiting" /\ Op(v).id = Op(w).id
    BY <1>2 DEF Arrived, InBarrier
  <2>2. pc[v] \in Indices("barrier")
    BY <2>1 DEF Shape, AtWork
  <2>3. pc[v] < End
    BY <2>2 DEF WellFormed, Indices, End
  <2>4. QED
    BY <2>1, <2>2, <2>3 DEF Op, Shape, AtWork
<1>3. QED
  BY <1>1, <1>2

(* Every step leaves the script, and takes an actor to its next operation  *)
(* or nowhere.                                                             *)
LEMMA Moves ==
  ASSUME WellFormed, Shape, [Next]_vars
  PROVE  /\ kernel' = kernel
         /\ \/ pc' = pc
            \/ \E w \in Actors, kind \in Kinds : Walks(w, kind)
            \/ \E w \in Actors : Meets(w)
         /\ DOMAIN flags' = DOMAIN flags
<1>0. DOMAIN flags = FlagsOf(kernel)
  BY DEF Shape, Ranges
<1>1. ASSUME NEW w \in Actors, BeginPass(w)
      PROVE  kernel' = kernel /\ pc' = pc /\ flags' = flags
  BY <1>1 DEF BeginPass
<1>2. ASSUME NEW w \in Actors, EndPass(w)
      PROVE  kernel' = kernel /\ Walks(w, "simt") /\ flags' = flags
  <2>1. pc[w] \in Indices("simt")
    BY <1>2 DEF EndPass, Shape, AtWork
  <2>2. pc[w] < End /\ Op(w).kind = "simt"
    BY <2>1 DEF WellFormed, Indices, End, Op
  <2>3. QED
    BY <1>2, <2>2, Walking DEF EndPass
<1>3. ASSUME NEW w \in Actors, FenceSmem(w)
      PROVE  kernel' = kernel /\ Walks(w, "fence") /\ flags' = flags
  BY <1>3, Walking DEF FenceSmem, At
<1>4. ASSUME NEW w \in Actors, Configure(w)
      PROVE  kernel' = kernel /\ Walks(w, "config") /\ flags' = flags
  BY <1>4, Walking DEF Configure, At
<1>5. ASSUME NEW w \in Actors, Issue(w)
      PROVE  kernel' = kernel /\ Walks(w, "command") /\ flags' = flags
  BY <1>5, Walking DEF Issue, At
<1>6. ASSUME NEW w \in Actors, FenceHost(w)
      PROVE  kernel' = kernel /\ Walks(w, "hostfence") /\ flags' = flags
  BY <1>6, Walking DEF FenceHost, At
<1>7. ASSUME NEW w \in Actors, GemminiFence(w)
      PROVE  kernel' = kernel /\ Walks(w, "drain") /\ flags' = flags
  BY <1>7, Walking DEF GemminiFence, At
<1>8. ASSUME NEW w \in Actors, WaitCount(w)
      PROVE  kernel' = kernel /\ Walks(w, "drainloops") /\ flags' = flags
  BY <1>8, Walking DEF WaitCount, At
<1>9. ASSUME NEW w \in Actors, Occupancy(w)
      PROVE  kernel' = kernel /\ Walks(w, "occupancy") /\ flags' = flags
  BY <1>9, Walking DEF Occupancy, At
<1>10. ASSUME NEW w \in Actors, SetFlag(w)
       PROVE  kernel' = kernel /\ Walks(w, "post") /\ DOMAIN flags' = DOMAIN flags
  BY <1>10, Walking DEF SetFlag, At
<1>11. ASSUME NEW w \in Actors, AwaitFlag(w)
       PROVE  kernel' = kernel /\ Walks(w, "await") /\ flags' = flags
  BY <1>11, Walking DEF AwaitFlag, At
<1>12. ASSUME NEW w \in Actors, Arrive(w)
       PROVE  kernel' = kernel /\ (pc' = pc \/ Meets(w)) /\ flags' = flags
  BY <1>12, Meeting DEF Arrive
<1>13. ASSUME NEW i \in queue, RaiseBusy(i) \/ Complete(i)
       PROVE  kernel' = kernel /\ pc' = pc /\ flags' = flags
  BY <1>13 DEF RaiseBusy, Complete
<1>14. CASE UNCHANGED vars
  BY <1>14 DEF vars
<1>15. QED
  BY <1>1, <1>2, <1>3, <1>4, <1>5, <1>6, <1>7, <1>8, <1>9, <1>10, <1>11, <1>12, <1>13, <1>14
     DEF Next, Run, Unit, AtRest, Kinds

LEMMA Goes ==
  ASSUME WellFormed, Shape, [Next]_vars, NEW v \in Actors
  PROVE  \/ pc'[v] = pc[v]
         \/ pc[v] \in Steps /\ v \in Script[pc[v]].who /\ pc'[v] = Following(v, pc[v])
<1>1. CASE pc' = pc
  BY <1>1
<1>2. CASE \E w \in Actors, kind \in Kinds : Walks(w, kind)
  BY <1>2 DEF Walks, Shape, Ranges, Indices, Steps
<1>3. ASSUME NEW w \in Actors, Meets(w)
      PROVE  pc'[v] = pc[v] \/ (pc[v] \in Steps /\ v \in Script[pc[v]].who /\ pc'[v] = Following(v, pc[v]))
  BY <1>3, Together1 DEF Meets, Indices, Steps
<1>4. QED
  BY <1>1, <1>2, <1>3, Moves

(* An actor goes past its own operations one by one.                       *)
LEMMA Passing ==
  ASSUME WellFormed, Shape, [Next]_vars, NEW v \in Actors, NEW j \in Steps, v \in Script[j].who
  PROVE  /\ pc[v] \in Nat /\ pc'[v] \in Nat /\ pc'[v] >= pc[v]
         /\ pc'[v] > j => pc[v] > j \/ (pc[v] = j /\ Leaves(v))
         /\ pc[v] = j /\ Leaves(v) => pc'[v] > j
<1>1. pc[v] \in 1 .. End /\ End = Len(Script) + 1 /\ Len(Script) \in Nat
  BY DEF Shape, Ranges, WellFormed, End
<1>2. CASE pc'[v] = pc[v]
  BY <1>1, <1>2 DEF Leaves, Steps
<1>3. CASE pc[v] \in Steps /\ pc'[v] = Following(v, pc[v])
  <2>1. pc[v] \in Nat /\ pc[v] < End
    BY <1>1, <1>3 DEF Steps
  <2>2. /\ Following(v, pc[v]) \in pc[v] + 1 .. End
        /\ (pc[v] < j => Following(v, pc[v]) <= j)
    BY <2>1, NextOperation
  <2>3. QED
    BY <1>1, <1>3, <2>2 DEF Leaves, Steps
<1>4. QED
  BY <1>2, <1>3, Goes

LEMMA StepModes ==
  ASSUME WellFormed, Shape, [Next]_vars
  PROVE  /\ mode' \in [Actors -> {"ready", "busy", "waiting"}]
         /\ \A v \in Actors :
              /\ mode'[v] = "busy" => pc'[v] = pc[v] /\ pc[v] \in Indices("simt")
              /\ mode'[v] = "waiting" => pc'[v] = pc[v] /\ pc[v] \in Indices("barrier")
<1> DEFINE Good == /\ mode' \in [Actors -> {"ready", "busy", "waiting"}]
                   /\ \A v \in Actors :
                        /\ mode'[v] = "busy" => pc'[v] = pc[v] /\ pc[v] \in Indices("simt")
                        /\ mode'[v] = "waiting" => pc'[v] = pc[v] /\ pc[v] \in Indices("barrier")
<1>1. /\ mode \in [Actors -> {"ready", "busy", "waiting"}] /\ pc \in [Actors -> 1 .. End]
      /\ \A v \in Actors : /\ mode[v] = "busy" => pc[v] \in Indices("simt")
                           /\ mode[v] = "waiting" => pc[v] \in Indices("barrier")
  BY DEF Shape, Ranges, AtWork
<1>2. ASSUME NEW w \in Actors, BeginPass(w)
      PROVE  Good
  <2>1. pc[w] \in Indices("simt")
    BY <1>1, <1>2 DEF BeginPass, At, Op, Indices, WellFormed, End
  <2>2. QED
    BY <1>1, <1>2, <2>1 DEF BeginPass
<1>3. ASSUME NEW w \in Actors, EndPass(w)
      PROVE  Good
  BY <1>1, <1>3 DEF EndPass, Advance
<1>4. ASSUME NEW w \in Actors,
             FenceSmem(w) \/ Configure(w) \/ Issue(w) \/ FenceHost(w) \/ GemminiFence(w)
               \/ WaitCount(w) \/ Occupancy(w) \/ SetFlag(w) \/ AwaitFlag(w)
      PROVE  Good
  <2>1. mode[w] = "ready" /\ mode' = mode /\ Advance(w)
    BY <1>4 DEF FenceSmem, Configure, Issue, FenceHost, GemminiFence, WaitCount, Occupancy,
                SetFlag, AwaitFlag, At
  <2>2. QED
    BY <1>1, <2>1 DEF Advance
<1>5. ASSUME NEW w \in Actors, Arrive(w)
      PROVE  Good
  <2>1. CASE pc' = pc /\ mode' = [mode EXCEPT ![w] = "waiting"]
    <3>1. pc[w] \in Indices("barrier")
      BY <1>1, <1>5 DEF Arrive, At, Op, Indices, WellFormed, End
    <3>2. QED
      BY <1>1, <2>1, <3>1
  <2>2. CASE Meets(w)
    BY <1>1, <2>2 DEF Meets
  <2>3. QED
    BY <1>5, <2>1, <2>2, Meeting
<1>6. ASSUME NEW i \in queue, RaiseBusy(i) \/ Complete(i)
      PROVE  Good
  BY <1>1, <1>6 DEF RaiseBusy, Complete
<1>7. ASSUME UNCHANGED vars PROVE Good
  BY <1>1, <1>7 DEF vars
<1>8. QED
  <2> HIDE DEF Good
  <2>1. ASSUME NEW w \in Actors, Run(w)
        PROVE  Good
    BY <1>2, <1>3, <1>4, <1>5, <2>1 DEF Run
  <2>2. ASSUME Unit PROVE Good
    BY <1>6, <2>2 DEF Unit
  <2>3. ASSUME UNCHANGED vars PROVE Good
    BY <1>7, <2>3
  <2>4. Good
    BY <2>1, <2>2, <2>3 DEF Next, AtRest
  <2>5. QED
    BY <2>4 DEF Good

(* What a step does to the stores that are not visible.                    *)
Cleaned(v) ==
  LET kind == Script[pc[v]].kind
  IN /\ kind = "fence" => \A i \in unfenced'[v] : AtPort(i)
     /\ kind = "hostfence" => unfenced'[v] = {}
     /\ kind \in {"drain", "drainloops"} => \A i \in unfenced'[v] : ~AtPort(i)

LEMMA StepStores ==
  ASSUME WellFormed, Shape, [Next]_vars
  PROVE  /\ unfenced' \in [Actors -> SUBSET Indices("simt")]
         /\ \A v \in Actors : \A i \in unfenced'[v] :
              i \in unfenced[v] \/ (i = pc[v] /\ i \in Indices("simt") /\ Leaves(v))
         /\ \A v \in Actors : Leaves(v) => Cleaned(v)
<1> DEFINE Good(v) ==
             /\ unfenced'[v] \subseteq Indices("simt")
             /\ \A i \in unfenced'[v] :
                  i \in unfenced[v] \/ (i = pc[v] /\ i \in Indices("simt") /\ Leaves(v))
             /\ Leaves(v) => Cleaned(v)
           Goodly == unfenced' \in [Actors -> SUBSET Indices("simt")] /\ \A v \in Actors : Good(v)
<1>1. /\ unfenced \in [Actors -> SUBSET Indices("simt")] /\ pc \in [Actors -> 1 .. End]
      /\ \A v \in Actors : unfenced[v] \subseteq Indices("simt")
  BY DEF Shape, Ranges
<1>2. ASSUME NEW w \in Actors, EndPass(w)
      PROVE  Goodly
  <2>1. pc[w] \in Indices("simt") /\ Script[pc[w]].kind = "simt"
    BY <1>2 DEF EndPass, Shape, AtWork, Indices
  <2>2. unfenced' = [unfenced EXCEPT ![w] = @ \cup {pc[w]}] /\ Walks(w, "simt")
    <3>1. pc[w] < End /\ Op(w).kind = "simt"
      BY <2>1 DEF Indices, WellFormed, End, Op
    <3>2. QED
      BY <1>2, <3>1, Walking DEF EndPass
  <2>3. pc'[w] # pc[w]
    <3>1. pc[w] \in Nat /\ pc[w] < End
      BY <2>1 DEF Indices, WellFormed, End
    <3>2. QED
      BY <1>1, <2>2, <3>1, NextOperation DEF Walks
  <2>4. QED
    BY <1>1, <2>1, <2>2, <2>3 DEF Walks, Leaves, Cleaned
<1>3. ASSUME NEW w \in Actors, FenceSmem(w)
      PROVE  Goodly
  BY <1>1, <1>3 DEF FenceSmem, Advance, Leaves, Cleaned, At, Op
<1>4. ASSUME NEW w \in Actors, FenceHost(w)
      PROVE  Goodly
  BY <1>1, <1>4 DEF FenceHost, Advance, Leaves, Cleaned, At, Op
<1>5. ASSUME NEW w \in Actors, GemminiFence(w) \/ WaitCount(w)
      PROVE  Goodly
  BY <1>1, <1>5 DEF GemminiFence, WaitCount, PortOrdered, Advance, Leaves, Cleaned, At, Op
<1>6. ASSUME NEW w \in Actors,
             Configure(w) \/ Issue(w) \/ Occupancy(w) \/ SetFlag(w) \/ AwaitFlag(w)
      PROVE  Goodly
  BY <1>1, <1>6 DEF Configure, Issue, Occupancy, SetFlag, AwaitFlag, Advance, Leaves, Cleaned, At, Op
<1>7. ASSUME NEW w \in Actors, BeginPass(w)
      PROVE  Goodly
  BY <1>1, <1>7 DEF BeginPass, Leaves
<1>8. ASSUME NEW w \in Actors, Arrive(w)
      PROVE  Goodly
  <2>1. unfenced' = unfenced
    BY <1>8 DEF Arrive
  <2>2. CASE pc' = pc
    BY <1>1, <2>1, <2>2 DEF Leaves
  <2>3. CASE Meets(w)
    BY <1>1, <2>1, <2>3, Together1 DEF Meets, Leaves, Cleaned, Indices
  <2>4. QED
    BY <1>8, <2>2, <2>3, Meeting
<1>9. ASSUME NEW i \in queue, RaiseBusy(i) \/ Complete(i)
      PROVE  Goodly
  BY <1>1, <1>9 DEF RaiseBusy, Complete, Leaves
<1>10. ASSUME UNCHANGED vars PROVE Goodly
  BY <1>1, <1>10 DEF vars, Leaves
<1>11. QED
  <2> HIDE DEF Goodly
  <2>1. ASSUME NEW w \in Actors, Run(w)
        PROVE  Goodly
    BY <1>2, <1>3, <1>4, <1>5, <1>6, <1>7, <1>8, <2>1 DEF Run
  <2>2. ASSUME Unit PROVE Goodly
    BY <1>9, <2>2 DEF Unit
  <2>3. ASSUME UNCHANGED vars PROVE Goodly
    BY <1>10, <2>3
  <2>4. Goodly
    BY <2>1, <2>2, <2>3 DEF Next, AtRest
  <2>5. QED
    BY <2>4 DEF Goodly

(* What a step does to the queue, and what it finds in it.                 *)
Polled(v) ==
  LET op == Script[pc[v]]
  IN /\ op.kind \in {"drain", "drainloops", "occupancy"} => queue' = queue
     /\ op.kind = "drain" => busy = {}
     /\ op.kind = "drainloops" => \A i \in queue : Script[i].unit = "dma"
     /\ op.kind = "occupancy" => Cardinality(queue) <= op.left
     /\ op.kind = "await" => flags[op.flag] >= op.value

Queued ==
  /\ queue' \subseteq Commands /\ busy' \subseteq queue'
  /\ \A c \in queue' \ busy' : Program[kernel].lateBusy /\ Script[c].unit # "dma"
  /\ \A c \in queue' : c \in queue \/ (c = pc[Issuer(c)] /\ Leaves(Issuer(c)))
  /\ \A d \in Commands : d = pc[Issuer(d)] /\ Leaves(Issuer(d)) => d \in queue'
  /\ \A d \in queue \ queue' :
       queue' \subseteq queue /\ (Program[kernel].inOrder => \A j \in queue : d <= j)
  /\ \A v \in Actors : Leaves(v) => Polled(v)

LEMMA StepQueue ==
  ASSUME WellFormed, Shape, [Next]_vars
  PROVE  Queued
<1>1. /\ queue \subseteq Commands /\ busy \subseteq queue
      /\ \A c \in queue \ busy : Program[kernel].lateBusy /\ Script[c].unit # "dma"
      /\ pc \in [Actors -> 1 .. End]
      /\ \A d \in Commands : Issuer(d) \in Actors /\ Script[d].who = {Issuer(d)}
      /\ \A d \in Commands : Script[d].kind = "command"
  BY TheIssuer DEF Shape, Ranges, Shown, Commands, Indices
<1>2. ASSUME NEW w \in Actors, NEW kind \in Kinds \ {"command"}, Walks(w, kind), queue' = queue, busy' = busy,
             Polled(w)
      PROVE  Queued
  <2>1. \A v \in Actors : Leaves(v) => v = w
    BY <1>1, <1>2 DEF Walks, Leaves
  <2>2. Script[pc[w]].kind # "command"
    BY <1>2 DEF Walks, Indices
  <2>3. QED
    BY <1>1, <1>2, <2>1, <2>2 DEF Queued
<1>3. ASSUME NEW w \in Actors, EndPass(w)
      PROVE  Queued
  <2>1. pc[w] \in Indices("simt")
    BY <1>3 DEF EndPass, Shape, AtWork
  <2>2. pc[w] < End /\ Op(w).kind = "simt" /\ Script[pc[w]].kind = "simt"
    BY <2>1 DEF WellFormed, Indices, End, Op
  <2>3. Walks(w, "simt") /\ queue' = queue /\ busy' = busy /\ Polled(w)
    BY <1>3, <2>2, Walking DEF EndPass, Polled
  <2>4. QED
    BY <1>2, <2>3 DEF Kinds
<1>4. ASSUME NEW w \in Actors, NEW kind \in Kinds \ {"command"},
             Advance(w), At(w, kind), queue' = queue, busy' = busy, Polled(w)
      PROVE  Queued
  BY <1>2, <1>4, Walking DEF At
<1>5. ASSUME NEW w \in Actors, FenceSmem(w)
      PROVE  Queued
  <2>1. Advance(w) /\ At(w, "fence") /\ queue' = queue /\ busy' = busy
    BY <1>5 DEF FenceSmem
  <2>2. QED
    BY <1>4, <2>1 DEF Kinds, Polled, At, Op
<1>6. ASSUME NEW w \in Actors, Configure(w)
      PROVE  Queued
  <2>1. Advance(w) /\ At(w, "config") /\ queue' = queue /\ busy' = busy
    BY <1>6 DEF Configure
  <2>2. QED
    BY <1>4, <2>1 DEF Kinds, Polled, At, Op
<1>7. ASSUME NEW w \in Actors, FenceHost(w)
      PROVE  Queued
  <2>1. Advance(w) /\ At(w, "hostfence") /\ queue' = queue /\ busy' = busy
    BY <1>7 DEF FenceHost
  <2>2. QED
    BY <1>4, <2>1 DEF Kinds, Polled, At, Op
<1>8. ASSUME NEW w \in Actors, GemminiFence(w)
      PROVE  Queued
  <2>1. Advance(w) /\ At(w, "drain") /\ queue' = queue /\ busy' = busy /\ busy = {}
    BY <1>8 DEF GemminiFence
  <2>2. QED
    BY <1>4, <2>1 DEF Kinds, Polled, At, Op
<1>9. ASSUME NEW w \in Actors, WaitCount(w)
      PROVE  Queued
  <2>1. Advance(w) /\ At(w, "drainloops") /\ queue' = queue /\ busy' = busy
        /\ \A i \in queue : Script[i].unit = "dma"
    BY <1>9 DEF WaitCount
  <2>2. QED
    BY <1>4, <2>1 DEF Kinds, Polled, At, Op
<1>10. ASSUME NEW w \in Actors, Occupancy(w)
       PROVE  Queued
  <2>1. Advance(w) /\ At(w, "occupancy") /\ queue' = queue /\ busy' = busy
        /\ Cardinality(queue) <= Script[pc[w]].left
    BY <1>10 DEF Occupancy, Op
  <2>2. QED
    BY <1>4, <2>1 DEF Kinds, Polled, At, Op
<1>11. ASSUME NEW w \in Actors, SetFlag(w)
       PROVE  Queued
  <2>1. Advance(w) /\ At(w, "post") /\ queue' = queue /\ busy' = busy
    BY <1>11 DEF SetFlag
  <2>2. QED
    BY <1>4, <2>1 DEF Kinds, Polled, At, Op
<1>12. ASSUME NEW w \in Actors, AwaitFlag(w)
       PROVE  Queued
  <2>1. Advance(w) /\ At(w, "await") /\ queue' = queue /\ busy' = busy
        /\ flags[Script[pc[w]].flag] >= Script[pc[w]].value
    BY <1>12 DEF AwaitFlag, Op
  <2>2. QED
    BY <1>4, <2>1 DEF Kinds, Polled, At, Op
<1>13. ASSUME NEW w \in Actors, Issue(w)
       PROVE  Queued
  <2>1. Walks(w, "command")
    BY <1>13, Walking DEF Issue, At
  <2>2. pc[w] \in Commands /\ Issuer(pc[w]) = w
    BY <1>1, <2>1 DEF Walks, Commands
  <2>3. \A v \in Actors : Leaves(v) => v = w
    BY <1>1, <2>1 DEF Walks, Leaves
  <2>4. Leaves(w)
    <3>1. pc[w] \in Nat /\ pc[w] < End
      BY <1>13, <1>1 DEF Issue, At, WellFormed, End
    <3>2. QED
      BY <1>1, <2>1, <3>1, NextOperation DEF Walks, Leaves
  <2>5. queue' = queue \cup {pc[w]}
        /\ busy' = IF Program[kernel].lateBusy /\ Script[pc[w]].unit # "dma" THEN busy ELSE busy \cup {pc[w]}
    BY <1>13 DEF Issue, Op
  <2>6. Polled(w)
    BY <1>1, <2>2 DEF Polled
  <2>7. QED
    BY <1>1, <2>2, <2>3, <2>4, <2>5, <2>6 DEF Queued
<1>14. ASSUME NEW w \in Actors, BeginPass(w)
       PROVE  Queued
  <2>1. queue' = queue /\ busy' = busy /\ pc' = pc
    BY <1>14 DEF BeginPass
  <2>2. QED
    BY <1>1, <2>1 DEF Queued, Leaves
<1>15. ASSUME NEW w \in Actors, Arrive(w)
       PROVE  Queued
  <2>1. queue' = queue /\ busy' = busy
    BY <1>15 DEF Arrive
  <2>2. \A v \in Actors : Leaves(v) => pc[v] \in Indices("barrier")
    <3>1. CASE pc' = pc
      BY <3>1 DEF Leaves
    <3>2. CASE Meets(w)
      BY <3>2, Together1 DEF Meets, Leaves
    <3>3. QED
      BY <1>15, <3>1, <3>2, Meeting
  <2>3. \A v \in Actors : Leaves(v) => Script[pc[v]].kind = "barrier"
    BY <2>2 DEF Indices
  <2>4. QED
    BY <1>1, <2>1, <2>3 DEF Queued, Polled
<1>16. ASSUME NEW i \in queue, RaiseBusy(i)
       PROVE  Queued
  <2>1. queue' = queue /\ busy' = busy \cup {i} /\ pc' = pc
    BY <1>16 DEF RaiseBusy
  <2>2. QED
    BY <1>1, <1>16, <2>1 DEF Queued, Leaves
<1>17. ASSUME NEW i \in queue, Complete(i)
       PROVE  Queued
  <2>1. /\ queue' = queue \ {i} /\ busy' = busy \ {i} /\ pc' = pc
        /\ Program[kernel].inOrder => \A j \in queue : i <= j
    BY <1>17 DEF Complete
  <2>2. QED
    BY <1>1, <2>1 DEF Queued, Leaves
<1>18. ASSUME UNCHANGED vars PROVE Queued
  BY <1>1, <1>18 DEF vars, Queued, Leaves
<1>19. ASSUME NEW w \in Actors, Run(w)
       PROVE  Queued
  BY <1>3, <1>5, <1>6, <1>7, <1>8, <1>9, <1>10, <1>11, <1>12, <1>13, <1>14, <1>15, <1>19 DEF Run
<1>20. ASSUME Unit PROVE Queued
  BY <1>16, <1>17, <1>20 DEF Unit
<1>21. QED
  BY <1>18, <1>19, <1>20 DEF Next, AtRest

LEMMA StepShape == WellFormed /\ Shape /\ [Next]_vars => Shape'
<1> SUFFICES ASSUME WellFormed, Shape, [Next]_vars PROVE Shape'
  OBVIOUS
<1>1. /\ kernel' = kernel /\ Script' = Script /\ End' = End /\ Commands' = Commands
      /\ \A kind : Indices(kind)' = Indices(kind)
      /\ \A c : Issuer(c)' = Issuer(c)
      /\ DOMAIN flags' = DOMAIN flags
  BY Moves, Static
<1>2. Queued
  BY StepQueue
<1>3. pc' \in [Actors -> 1 .. End]
  <2>1. Len(Script) \in Nat /\ End = Len(Script) + 1 /\ pc \in [Actors -> 1 .. End]
    BY DEF WellFormed, End, Shape, Ranges
  <2>2. \A v \in Actors : pc'[v] \in 1 .. End
    <3> TAKE v \in Actors
    <3>1. CASE pc'[v] = pc[v]
      BY <2>1, <3>1
    <3>2. CASE pc[v] \in Steps /\ pc'[v] = Following(v, pc[v])
      <4>1. Following(v, pc[v]) \in pc[v] + 1 .. End
        BY <2>1, <3>2, NextOperation DEF Steps
      <4>2. QED
        BY <2>1, <3>2, <4>1
    <3>3. QED
      BY <3>1, <3>2, Goes
  <2>3. CASE pc' = pc
    BY <2>1, <2>3
  <2>4. CASE \E w \in Actors, kind \in Kinds : Walks(w, kind)
    BY <2>1, <2>2, <2>4 DEF Walks
  <2>5. CASE \E w \in Actors : Meets(w)
    BY <2>1, <2>2, <2>5 DEF Meets
  <2>6. QED
    BY <2>3, <2>4, <2>5, Moves
<1>4. Ranges'
  <2>1. FlagsOf(kernel)' = FlagsOf(kernel)
    BY <1>1 DEF FlagsOf
  <2>2. DOMAIN flags' = FlagsOf(kernel)
    BY <1>1 DEF Shape, Ranges
  <2>3. kernel' \in Kernels
    BY <1>1 DEF Shape, Ranges
  <2>4. QED
    BY <1>1, <1>2, <1>3, <2>1, <2>2, <2>3, StepModes, StepStores DEF Ranges, Queued
<1>5. AtWork'
  <2>1. \A w \in Actors : pc'[w] < End => w \in Script[pc'[w]].who
    <3> TAKE w \in Actors
    <3>1. CASE pc'[w] = pc[w]
      BY <3>1 DEF Shape, AtWork
    <3>2. CASE pc[w] \in Steps /\ pc'[w] = Following(w, pc[w])
      BY <3>2, NextOperation DEF WellFormed, Steps, End
    <3>3. QED
      BY <3>1, <3>2, Goes
  <2>2. QED
    BY <1>1, <2>1, StepModes DEF AtWork
<1>6. Behind'
  <2>1. ASSUME NEW w \in Actors, NEW i \in unfenced'[w]
        PROVE  i < pc'[w] /\ w \in Script[i].who
    <3>1. CASE i \in unfenced[w]
      <4>1. i < pc[w] /\ w \in Script[i].who /\ i \in Indices("simt")
        BY <3>1 DEF Shape, Behind, Ranges
      <4>2. pc'[w] >= pc[w] /\ pc[w] \in Nat /\ pc'[w] \in Nat /\ i \in Nat
        BY <4>1, Passing DEF Indices, WellFormed, Steps
      <4>3. QED
        BY <4>1, <4>2
    <3>2. CASE i = pc[w] /\ i \in Indices("simt") /\ Leaves(w)
      <4>1. i \in Steps /\ w \in Script[i].who
        BY <3>2, Goes DEF Leaves
      <4>2. QED
        BY <3>2, <4>1, Passing
    <3>3. QED
      BY <3>1, <3>2, StepStores
  <2>2. ASSUME NEW c \in queue'
        PROVE  c < pc'[Issuer(c)]
    <3>1. c \in Commands /\ c \in Steps /\ Issuer(c) \in Actors /\ Issuer(c) \in Script[c].who
      BY <1>2, TheIssuer DEF Queued, Commands, Indices, Steps
    <3>2. CASE c \in queue
      <4>1. c < pc[Issuer(c)]
        BY <3>2 DEF Shape, Behind
      <4>2. pc'[Issuer(c)] >= pc[Issuer(c)] /\ pc[Issuer(c)] \in Nat /\ pc'[Issuer(c)] \in Nat /\ c \in Nat
        BY <3>1, Passing DEF Steps
      <4>3. QED
        BY <4>1, <4>2
    <3>3. CASE c = pc[Issuer(c)] /\ Leaves(Issuer(c))
      BY <3>1, <3>3, Passing
    <3>4. QED
      BY <1>2, <3>2, <3>3 DEF Queued
  <2>3. QED
    BY <1>1, <2>1, <2>2 DEF Behind
<1>7. Shown'
  BY <1>1, <1>2 DEF Shown, Queued
<1>8. LastOnes'
  <2>1. SUFFICES ASSUME Program[kernel].inOrder, NEW c \in queue', NEW d \in Commands,
                        c <= d, d < pc'[Issuer(d)]
                 PROVE  d \in queue'
    BY <1>1 DEF LastOnes
  <2>2. /\ c \in Commands /\ c \in Nat /\ d \in Nat /\ d \in Steps /\ Issuer(d) \in Actors
        /\ Issuer(d) \in Script[d].who /\ Issuer(c) = Issuer(d)
    <3>1. c \in Commands
      BY <1>2 DEF Queued
    <3>2. Script[c].who = Script[d].who
      BY <2>1, <3>1 DEF WellFormed
    <3>3. QED
      BY <3>1, <3>2, TheIssuer DEF Commands, Indices, Steps, Issuer
  <2>3. CASE d = pc[Issuer(d)] /\ Leaves(Issuer(d))
    BY <1>2, <2>3 DEF Queued
  <2>4. CASE d < pc[Issuer(d)]
    <3>1. c \in queue
      BY <1>2, <2>1, <2>2, <2>4 DEF Queued
    <3>2. d \in queue
      BY <2>1, <2>4, <3>1 DEF Shape, LastOnes
    <3>3. ~ (d \in queue \ queue')
      <4> SUFFICES ASSUME d \in queue \ queue' PROVE FALSE
        OBVIOUS
      <4>1. d <= c
        BY <1>2, <2>1, <3>1 DEF Queued
      <4>2. QED
        BY <2>1, <2>2, <4>1
    <3>4. QED
      BY <3>2, <3>3
  <2>5. QED
    BY <2>1, <2>2, <2>3, <2>4, Passing
<1>9. QED
  BY <1>4, <1>5, <1>6, <1>7, <1>8 DEF Shape

(* No step changes the kernel.                                             *)
LEMMA KernelStays == [Next]_vars => kernel' = kernel
<1> SUFFICES ASSUME [Next]_vars PROVE kernel' = kernel
  OBVIOUS
<1>1. ASSUME NEW w \in Actors, Run(w) PROVE kernel' = kernel
  BY <1>1 DEF Run, BeginPass, EndPass, FenceSmem, FenceHost, Configure, Issue,
              GemminiFence, WaitCount, Occupancy, Arrive, SetFlag, AwaitFlag
<1>2. ASSUME Unit PROVE kernel' = kernel
  BY <1>2 DEF Unit, RaiseBusy, Complete
<1>3. QED
  BY <1>1, <1>2 DEF Next, AtRest, vars

LEMMA AlwaysShape == Spec => [](WellFormed => Shape)
<1>1. Init => (WellFormed => Shape)
  BY InitShape
<1>2. (WellFormed => Shape) /\ [Next]_vars => (WellFormed => Shape)'
  BY KernelStays, Static, StepShape
<1>3. QED
  BY <1>1, <1>2, PTL DEF Spec

-----------------------------------------------------------------------------
(* The memory                                                              *)

(* An access ends, and its stores are made.                                *)
PassEnds(v) == v \in Actors /\ pc[v] \in Indices("simt") /\ v \in Script[pc[v]].who /\ Leaves(v)
CommandEnds(c) == c \in queue /\ c \notin queue'

LEMMA StepMemory ==
  ASSUME WellFormed, Shape, [Next]_vars
  PROVE  \/ /\ memory' = memory
            /\ \A v : ~PassEnds(v)
            /\ \A c : ~CommandEnds(c)
         \/ \E v \in Actors : /\ PassEnds(v) /\ memory' = Stored([op |-> pc[v], by |-> v])
                              /\ \A u : PassEnds(u) => u = v
                              /\ \A c : ~CommandEnds(c)
         \/ \E c \in Commands : /\ CommandEnds(c) /\ memory' = Stored(Access(c))
                                /\ \A u : ~PassEnds(u)
                                /\ \A d : CommandEnds(d) => d = c
<1> DEFINE Quiet == memory' = memory /\ (\A v : ~PassEnds(v)) /\ (\A c : ~CommandEnds(c))
<1>1. pc \in [Actors -> 1 .. End] /\ queue \subseteq Commands
  BY DEF Shape, Ranges
<1>2. ASSUME NEW w \in Actors, EndPass(w)
      PROVE  /\ PassEnds(w) /\ memory' = Stored([op |-> pc[w], by |-> w])
             /\ \A u : PassEnds(u) => u = w
             /\ \A c : ~CommandEnds(c)
  <2>1. pc[w] \in Indices("simt")
    BY <1>2 DEF EndPass, Shape, AtWork
  <2>2. pc[w] < End /\ pc[w] \in Nat
    BY <2>1 DEF WellFormed, Indices, End
  <2>3. Leaves(w) /\ w \in Script[pc[w]].who
    BY <1>1, <1>2, <2>2, NextOperation DEF EndPass, Advance, Leaves, Shape, AtWork
  <2>4. \A u \in Actors : Leaves(u) => u = w
    BY <1>1, <1>2 DEF EndPass, Advance, Leaves
  <2>5. QED
    BY <1>2, <2>1, <2>3, <2>4 DEF EndPass, PassEnds, CommandEnds
<1>3. ASSUME NEW w \in Actors,
             FenceSmem(w) \/ Configure(w) \/ Issue(w) \/ FenceHost(w) \/ GemminiFence(w)
               \/ WaitCount(w) \/ Occupancy(w) \/ SetFlag(w) \/ AwaitFlag(w)
      PROVE  Quiet
  <2>1. /\ Op(w).kind # "simt" /\ Advance(w) /\ memory' = memory /\ queue \subseteq queue'
    BY <1>3 DEF FenceSmem, Configure, Issue, FenceHost, GemminiFence, WaitCount, Occupancy,
                SetFlag, AwaitFlag, At
  <2>2. \A u \in Actors : Leaves(u) => u = w
    BY <1>1, <2>1 DEF Advance, Leaves
  <2>3. QED
    BY <2>1, <2>2 DEF PassEnds, CommandEnds, Op, Indices
<1>4. ASSUME NEW w \in Actors, BeginPass(w)
      PROVE  Quiet
  BY <1>4 DEF BeginPass, PassEnds, CommandEnds, Leaves
<1>5. ASSUME NEW w \in Actors, Arrive(w)
      PROVE  Quiet
  <2>1. memory' = memory /\ queue' = queue
    BY <1>5 DEF Arrive
  <2>2. CASE pc' = pc
    BY <2>1, <2>2 DEF PassEnds, CommandEnds, Leaves
  <2>3. CASE Meets(w)
    <3>1. \A u \in Actors : Leaves(u) => pc[u] \in Indices("barrier")
      BY <2>3, Together1 DEF Meets, Leaves
    <3>2. QED
      BY <2>1, <3>1 DEF PassEnds, CommandEnds, Indices
  <2>4. QED
    BY <1>5, <2>2, <2>3, Meeting
<1>6. ASSUME NEW i \in queue, RaiseBusy(i)
      PROVE  Quiet
  BY <1>6 DEF RaiseBusy, PassEnds, CommandEnds, Leaves
<1>7. ASSUME NEW i \in queue, Complete(i)
      PROVE  /\ i \in Commands /\ CommandEnds(i) /\ memory' = Stored(Access(i))
             /\ \A u : ~PassEnds(u)
             /\ \A d : CommandEnds(d) => d = i
  BY <1>1, <1>7 DEF Complete, PassEnds, CommandEnds, Leaves, Access
<1>8. ASSUME UNCHANGED vars PROVE Quiet
  BY <1>8 DEF vars, PassEnds, CommandEnds, Leaves
<1> HIDE DEF Quiet
<1>9. ASSUME NEW w \in Actors, Run(w)
      PROVE  EndPass(w) \/ Quiet
  BY <1>3, <1>4, <1>5, <1>9 DEF Run
<1>10. ASSUME Unit
       PROVE  Quiet \/ \E i \in queue : Complete(i)
  BY <1>6, <1>10 DEF Unit
<1>11. Quiet \/ (\E w \in Actors : EndPass(w)) \/ \E i \in queue : Complete(i)
  BY <1>8, <1>9, <1>10 DEF Next, AtRest
<1>12. CASE Quiet
  BY <1>12 DEF Quiet
<1>13. CASE \E w \in Actors : EndPass(w)
  BY <1>2, <1>13
<1>14. CASE \E i \in queue : Complete(i)
  BY <1>7, <1>14
<1>15. QED
  BY <1>11, <1>12, <1>13, <1>14

Contents == memory \in [PlacesOf(kernel) -> [Parts -> TagsOf(kernel)]]

LEMMA StoredContents ==
  ASSUME WellFormed, Contents, NEW a, a.op \in Indices("simt") \cup Commands
  PROVE  Stored(a) \in [PlacesOf(kernel) -> [Parts -> TagsOf(kernel)]]
<1>1. \A x \in Writes(a) : x[2] \in TagsOf(kernel)
  <2>1. Script[a.op] \in {o \in Range(Script) : o.kind \in {"simt", "command"}}
    BY DEF WellFormed, Range, Indices, Commands
  <2>2. QED
    BY <2>1 DEF TagsOf, Writes, Script
<1>2. DOMAIN memory = PlacesOf(kernel)
  BY DEF Contents
<1>3. ASSUME NEW p \in PlacesOf(kernel), NEW i \in Parts
      PROVE  Stored(a)[p][i] \in TagsOf(kernel)
  <2> DEFINE here == {x \in Writes(a) : x[1] = p}
             spoilt == \E x \in Writes(a) : Overlap(x[1], p)
  <2>1. here # {} => (CHOOSE x \in here : TRUE)[2] \in TagsOf(kernel)
    BY <1>1
  <2>2. <<"spoilt", 0>> \in TagsOf(kernel)
    BY DEF TagsOf
  <2>3. memory[p][i] \in TagsOf(kernel)
    BY DEF Contents
  <2>4. Stored(a)[p][i] = IF here # {} /\ i \in Cells(a) THEN (CHOOSE x \in here : TRUE)[2]
                          ELSE IF spoilt THEN <<"spoilt", 0>> ELSE memory[p][i]
    BY <1>2 DEF Stored
  <2> HIDE DEF here, spoilt
  <2>5. QED
    BY <2>1, <2>2, <2>3, <2>4
<1>4. /\ Stored(a) = [p \in PlacesOf(kernel) |-> Stored(a)[p]]
      /\ \A p \in PlacesOf(kernel) : Stored(a)[p] = [i \in Parts |-> Stored(a)[p][i]]
  BY <1>2 DEF Stored
<1>5. \A p \in PlacesOf(kernel) : Stored(a)[p] \in [Parts -> TagsOf(kernel)]
  BY <1>3, <1>4
<1>6. QED
  BY <1>4, <1>5

LEMMA InitContents == Init => Contents
<1> SUFFICES ASSUME Init PROVE Contents
  OBVIOUS
<1>1. <<"empty", 0>> \in TagsOf(kernel)
  BY DEF TagsOf
<1>2. QED
  BY <1>1 DEF Init, Contents

LEMMA AlwaysTyped == Spec => [](WellFormed => Shape /\ Contents)
<1>1. Init => Contents
  BY InitContents
<1>2. ASSUME WellFormed, Shape, Contents, [Next]_vars PROVE Contents'
  <2>1. PlacesOf(kernel)' = PlacesOf(kernel) /\ TagsOf(kernel)' = TagsOf(kernel)
    BY <1>2, Moves DEF PlacesOf, TagsOf
  <2>2. CASE memory' = memory
    BY <1>2, <2>1, <2>2 DEF Contents
  <2>3. ASSUME NEW v \in Actors, PassEnds(v), memory' = Stored([op |-> pc[v], by |-> v]) PROVE Contents'
    <3>1. pc[v] \in Indices("simt")
      BY <2>3 DEF PassEnds
    <3>2. Stored([op |-> pc[v], by |-> v]) \in [PlacesOf(kernel) -> [Parts -> TagsOf(kernel)]]
      BY <1>2, <3>1, StoredContents
    <3>3. Contents' <=> memory' \in [PlacesOf(kernel) -> [Parts -> TagsOf(kernel)]]
      BY <2>1 DEF Contents, Parts
    <3>4. QED
      BY <2>3, <3>2, <3>3
  <2>4. ASSUME NEW c \in Commands, memory' = Stored(Access(c)) PROVE Contents'
    <3>1. Stored(Access(c)) \in [PlacesOf(kernel) -> [Parts -> TagsOf(kernel)]]
      BY <1>2, <2>4, StoredContents DEF Access
    <3>2. Contents' <=> memory' \in [PlacesOf(kernel) -> [Parts -> TagsOf(kernel)]]
      BY <2>1 DEF Contents, Parts
    <3>3. QED
      BY <2>4, <3>1, <3>2
  <2>5. QED
    BY <1>2, <2>2, <2>3, <2>4, StepMemory
<1>3. Init => (WellFormed => Shape /\ Contents)
  BY <1>1, InitShape
<1>4. (WellFormed => Shape) /\ (WellFormed => Shape /\ Contents) /\ [Next]_vars
        => (WellFormed => Shape /\ Contents)'
  <2>1. ASSUME WellFormed', [Next]_vars, WellFormed => Shape, WellFormed => Shape /\ Contents
        PROVE  Shape' /\ Contents'
    <3>1. kernel' = kernel
      BY <2>1, KernelStays
    <3>2. WellFormed
      BY <2>1, <3>1, Static
    <3>3. QED
      BY <1>2, <2>1, <3>2, StepShape
  <2>2. QED
    BY <2>1
<1>5. QED
  BY <1>3, <1>4, AlwaysShape, PTL DEF Spec

(* The type invariant.                                                     *)
THEOREM TypeCorrect == Spec => [](WellFormed => TypeOK)
<1>1. Shape /\ Contents => TypeOK
  BY DEF Shape, Ranges, Contents, TypeOK, Commands
<1>2. QED
  BY <1>1, AlwaysTyped, PTL

-----------------------------------------------------------------------------
(* The order of the operations                                             *)

(* Nobody is beyond a barrier before all have come to it.                  *)
Together ==
  \A i \in Indices("barrier") : \A v, w \in Script[i].who : pc[v] > i => pc[w] > i

(* The value of a flag was posted.                                         *)
Posted ==
  \A f \in DOMAIN flags :
    flags[f] = 0 \/ \E p \in Indices("post") : \E v \in Script[p].who :
                      pc[v] > p /\ Script[p].flag = f /\ Script[p].value = flags[f]

(* Who has seen a flag knows who posted it.                                *)
Told ==
  \A g \in Indices("await") : \A w \in Script[g].who : \A v \in Actors : \A m \in Steps :
    pc[w] > g /\ Releases(g, v, m) => pc[v] > m

(* The clock tells how far the others have come.                           *)
Known ==
  \A j \in Steps : \A w \in Script[j].who : \A u \in Actors \ {w} :
    pc[w] >= j => pc[u] > Clock[kernel][j][w][u]

(* A store is visible when its warp is beyond a fence for it.              *)
Cleared ==
  \A v \in Actors : \A i \in unfenced[v] : \A f \in Steps :
    i < f /\ v \in Script[f].who /\ Clears(f, i) => pc[v] <= f

(* A command has ended when an actor is beyond a wait for it.              *)
Drained ==
  \A d \in Steps : \A x \in Script[d].who : \A c \in Commands :
    Waits(d, x, c) /\ Knows(x, d, Issuer(c), c) /\ pc[x] > d => c \notin queue

LEMMA AllArrive ==
  ASSUME WellFormed, Shape, Together, NEW w \in Actors, Meets(w)
  PROVE  /\ Arrived(w) = Script[pc[w]].who
         /\ \A u \in Arrived(w) : pc[u] = pc[w]
<1>1. /\ pc[w] \in Indices("barrier") /\ w \in Script[pc[w]].who
      /\ ~ (Cardinality(Arrived(w)) < Cardinality(Script[pc[w]].who))
  BY DEF Meets, Op
<1>2. \A u \in Arrived(w) : /\ pc[u] \in Indices("barrier") /\ u \in Script[pc[u]].who
                            /\ Script[pc[u]].who = Script[pc[w]].who
  BY <1>1, Together1 DEF WellFormed
<1>3. Arrived(w) \in SUBSET Script[pc[w]].who
  BY <1>2
<1>4. IsFiniteSet(Script[pc[w]].who)
  <2>1. Script[pc[w]].who \in SUBSET Actors
    BY <1>1 DEF WellFormed, Indices, Steps
  <2>2. QED
    BY <2>1, ActorsAreFinite, FS_Subset
<1>5. Arrived(w) = Script[pc[w]].who
  <2>1. Cardinality(Arrived(w)) \in Nat /\ Cardinality(Script[pc[w]].who) \in Nat
    BY <1>3, <1>4, FS_Subset, FS_CardinalityType
  <2>2. Cardinality(Arrived(w)) <= Cardinality(Script[pc[w]].who)
        /\ (Cardinality(Script[pc[w]].who) = Cardinality(Arrived(w)) => Script[pc[w]].who = Arrived(w))
    BY <1>3, <1>4, FS_Subset
  <2>3. QED
    BY <1>1, <2>1, <2>2
<1>6. ASSUME NEW u \in Arrived(w) PROVE pc[u] = pc[w]
  <2>1. /\ pc[u] \in Indices("barrier") /\ pc[w] \in Indices("barrier")
        /\ u \in Script[pc[u]].who /\ u \in Script[pc[w]].who
        /\ w \in Script[pc[u]].who /\ w \in Script[pc[w]].who
    BY <1>1, <1>2
  <2>2. ~ (pc[w] > pc[u]) /\ ~ (pc[u] > pc[w])
    <3>1. pc[w] > pc[u] => pc[u] > pc[u]
      BY <2>1 DEF Together
    <3>2. pc[u] > pc[w] => pc[w] > pc[w]
      BY <2>1 DEF Together
    <3>3. pc[u] \in Nat /\ pc[w] \in Nat
      BY <2>1 DEF Indices, WellFormed
    <3>4. QED
      BY <3>1, <3>2, <3>3
  <2>3. pc[u] \in Nat /\ pc[w] \in Nat
    BY <2>1 DEF Indices, WellFormed
  <2>4. QED
    BY <2>2, <2>3
<1>7. QED
  BY <1>5, <1>6

LEMMA StepTogether ==
  ASSUME WellFormed, Shape, Together, [Next]_vars
  PROVE  Together'
<1>1. Script' = Script /\ \A kind : Indices(kind)' = Indices(kind)
  BY Moves, Static
<1>2. SUFFICES ASSUME NEW i \in Indices("barrier"), NEW v \in Script[i].who, NEW w \in Script[i].who,
                      pc'[v] > i
               PROVE  pc'[w] > i
  BY <1>1 DEF Together
<1>3. i \in Steps /\ i \in Nat /\ v \in Actors /\ w \in Actors /\ Script[i].kind = "barrier"
  BY DEF WellFormed, Indices, Steps
<1>4. CASE pc[v] > i
  <2>1. pc[w] > i
    BY <1>4 DEF Together
  <2>2. QED
    BY <1>3, <2>1, Passing
<1>5. CASE pc[v] = i /\ Leaves(v)
  <2>1. ~ (pc' = pc)
    BY <1>5 DEF Leaves
  <2>2. ~ (\E u \in Actors, kind \in Kinds : Walks(u, kind))
    <3> SUFFICES ASSUME NEW u \in Actors, NEW kind \in Kinds, Walks(u, kind) PROVE FALSE
      OBVIOUS
    <3>1. u = v
      BY <1>3, <1>5 DEF Walks, Leaves, Shape, Ranges
    <3>2. QED
      BY <1>3, <1>5, <3>1 DEF Walks, Indices, Kinds
  <2>3. PICK u \in Actors : Meets(u)
    BY <2>1, <2>2, Moves
  <2>4. v \in Arrived(u)
    BY <1>3, <1>5, <2>3 DEF Meets, Leaves
  <2>5. pc[u] = i /\ w \in Arrived(u) /\ pc[w] = i
    BY <1>5, <2>3, <2>4, AllArrive
  <2>6. pc'[w] = Following(w, i)
    BY <1>3, <2>3, <2>5 DEF Meets
  <2>7. Following(w, i) \in i + 1 .. End
    BY <1>3, NextOperation DEF Steps, End, WellFormed
  <2>8. QED
    BY <1>3, <2>6, <2>7 DEF WellFormed, End
<1>6. QED
  BY <1>2, <1>3, <1>4, <1>5, Passing

LEMMA StepFlags ==
  ASSUME WellFormed, Shape, [Next]_vars
  PROVE  \/ flags' = flags
         \/ \E w \in Actors : /\ Walks(w, "post")
                              /\ flags' = [flags EXCEPT ![Script[pc[w]].flag] = Script[pc[w]].value]
<1>1. ASSUME NEW w \in Actors, SetFlag(w)
      PROVE  Walks(w, "post") /\ flags' = [flags EXCEPT ![Script[pc[w]].flag] = Script[pc[w]].value]
  BY <1>1, Walking DEF SetFlag, At, Op
<1>2. ASSUME NEW w \in Actors, Run(w)
      PROVE  flags' = flags \/ SetFlag(w)
  BY <1>2 DEF Run, BeginPass, EndPass, FenceSmem, FenceHost, Configure, Issue,
              GemminiFence, WaitCount, Occupancy, Arrive, AwaitFlag
<1>3. ASSUME Unit PROVE flags' = flags
  BY <1>3 DEF Unit, RaiseBusy, Complete
<1>4. QED
  BY <1>1, <1>2, <1>3 DEF Next, AtRest, vars

LEMMA StepPosted ==
  ASSUME WellFormed, Shape, Posted, [Next]_vars
  PROVE  Posted'
<1>1. Script' = Script /\ (\A kind : Indices(kind)' = Indices(kind)) /\ DOMAIN flags' = DOMAIN flags
  BY Moves, Static
<1>2. SUFFICES ASSUME NEW f \in DOMAIN flags
               PROVE  flags'[f] = 0 \/ \E p \in Indices("post") : \E v \in Script[p].who :
                        pc'[v] > p /\ Script[p].flag = f /\ Script[p].value = flags'[f]
  BY <1>1 DEF Posted
<1>3. CASE flags'[f] = flags[f]
  <2>1. CASE flags[f] = 0
    BY <1>3, <2>1
  <2>2. ASSUME NEW p \in Indices("post"), NEW v \in Script[p].who,
               pc[v] > p, Script[p].flag = f, Script[p].value = flags[f]
        PROVE  pc'[v] > p
    <3>1. p \in Steps /\ p \in Nat /\ v \in Actors
      BY DEF WellFormed, Indices, Steps
    <3>2. QED
      BY <2>2, <3>1, Passing
  <2>3. QED
    BY <1>3, <2>1, <2>2 DEF Posted
<1>4. ASSUME NEW w \in Actors, Walks(w, "post"),
             flags' = [flags EXCEPT ![Script[pc[w]].flag] = Script[pc[w]].value], flags'[f] # flags[f]
      PROVE  \E p \in Indices("post") : \E v \in Script[p].who :
               pc'[v] > p /\ Script[p].flag = f /\ Script[p].value = flags'[f]
  <2>1. Script[pc[w]].flag = f /\ flags'[f] = Script[pc[w]].value
    BY <1>4
  <2>2. pc[w] \in Indices("post") /\ w \in Script[pc[w]].who /\ pc'[w] = Following(w, pc[w])
    BY <1>4 DEF Walks, Shape, Ranges
  <2>3. pc'[w] > pc[w]
    <3>1. pc[w] \in Nat /\ pc[w] < End /\ End \in Nat
      BY <2>2 DEF WellFormed, Indices, End
    <3>2. QED
      BY <2>2, <3>1, NextOperation
  <2>4. QED
    BY <2>1, <2>2, <2>3
<1>5. QED
  BY <1>3, <1>4, StepFlags

LEMMA Onward ==
  ASSUME WellFormed, Shape, [Next]_vars, NEW v \in Actors
  PROVE  pc[v] \in Nat /\ pc'[v] \in Nat /\ pc'[v] >= pc[v]
<1>1. pc[v] \in 1 .. End /\ End = Len(Script) + 1 /\ Len(Script) \in Nat
  BY DEF Shape, Ranges, WellFormed, End
<1>2. CASE pc'[v] = pc[v]
  BY <1>1, <1>2
<1>3. CASE pc[v] \in Steps /\ v \in Script[pc[v]].who
  BY <1>3, Passing
<1>4. QED
  BY <1>2, <1>3, Goes

LEMMA StaticOrder ==
  ASSUME kernel' = kernel
  PROVE  /\ \A g, v, m : Releases(g, v, m)' = Releases(g, v, m)
         /\ \A g, w, v, m : Tells(g, w, v, m)' = Tells(g, w, v, m)
         /\ \A w, j, v, i : Knows(w, j, v, i)' = Knows(w, j, v, i)
         /\ \A f, i : Clears(f, i)' = Clears(f, i)
         /\ \A d, x, c : Waits(d, x, c)' = Waits(d, x, c)
         /\ Clocked' = Clocked /\ Ordered' = Ordered
<1>1. /\ Script' = Script /\ Steps' = Steps /\ Commands' = Commands
      /\ \A kind : Indices(kind)' = Indices(kind)
      /\ \A c : Issuer(c)' = Issuer(c)
      /\ \A i : AtPort(i)' = AtPort(i)
      /\ WellFormed' = WellFormed
  BY Static
<1>2. \A g, v, m : Releases(g, v, m)' = Releases(g, v, m)
  BY <1>1 DEF Releases
<1>3. \A g, w, v, m : Tells(g, w, v, m)' = Tells(g, w, v, m)
  BY <1>1, <1>2 DEF Tells
<1>4. \A w, j, v, i : Knows(w, j, v, i)' = Knows(w, j, v, i)
  BY DEF Knows
<1>5. \A f, i : Clears(f, i)' = Clears(f, i)
  BY <1>1 DEF Clears
<1>6. \A d, x, c : Waits(d, x, c)' = Waits(d, x, c)
  BY <1>1, <1>4 DEF Waits
<1>7. Clocked' = Clocked
  BY <1>1, <1>3, SMTT(20) DEF Clocked, Before
<1>8. QED
  BY <1>1, <1>2, <1>3, <1>4, <1>5, <1>6, <1>7 DEF Ordered

LEMMA StepTold ==
  ASSUME WellFormed, Shape, Posted, Told, [Next]_vars
  PROVE  Told'
<1>1. /\ Script' = Script /\ Steps' = Steps /\ \A kind : Indices(kind)' = Indices(kind)
      /\ \A g, v, m : Releases(g, v, m)' = Releases(g, v, m)
  BY Moves, Static, StaticOrder
<1>2. SUFFICES ASSUME NEW g \in Indices("await"), NEW w \in Script[g].who, NEW v \in Actors,
                      NEW m \in Steps, pc'[w] > g, Releases(g, v, m)
               PROVE  pc'[v] > m
  BY <1>1 DEF Told
<1>3. g \in Steps /\ g \in Nat /\ m \in Nat /\ w \in Actors /\ Script[g].kind = "await"
  BY DEF WellFormed, Indices, Steps
<1>4. pc[v] > m
  <2>1. CASE pc[w] > g
    BY <1>2, <2>1 DEF Told
  <2>2. CASE pc[w] = g /\ Leaves(w)
    <3> DEFINE f == Script[g].flag
    <3>1. flags[f] >= Script[g].value
      BY <1>3, <2>2, StepQueue DEF Queued, Polled
    <3>2. f \in DOMAIN flags
      <4>1. Script[g] \in {q \in Range(Script) : q.kind \in {"post", "await"}}
        BY <1>3 DEF Range, WellFormed
      <4>2. f \in FlagsOf(kernel)
        BY <4>1 DEF FlagsOf, Script
      <4>3. QED
        BY <4>2 DEF Shape, Ranges
    <3>3. Script[g].value \in Nat \ {0}
      BY DEF WellFormed
    <3>4. flags[f] # 0
      BY <3>1, <3>3
    <3>5. PICK p \in Indices("post") : \E u \in Script[p].who :
                 pc[u] > p /\ Script[p].flag = f /\ Script[p].value = flags[f]
      BY <3>2, <3>4 DEF Posted
    <3>6. Script[p].who = {v} /\ m <= p
      BY <1>2, <3>1, <3>5 DEF Releases
    <3>7. pc[v] > p
      BY <3>5, <3>6
    <3>8. p \in Nat /\ pc[v] \in Nat
      BY Onward DEF WellFormed, Indices
    <3>9. QED
      BY <1>3, <3>6, <3>7, <3>8
  <2>3. QED
    BY <1>2, <1>3, <2>1, <2>2, Passing
<1>5. QED
  BY <1>3, <1>4, Onward

(* One source of the clock of w at j: beyond g it knows that v is beyond m.*)
LEMMA StepKnown ==
  ASSUME Ordered, Shape, Together', Told', Known, [Next]_vars
  PROVE  Known'
<1>0. WellFormed /\ Clocked
  BY DEF Ordered
<1>1. /\ kernel' = kernel /\ Script' = Script /\ Steps' = Steps
      /\ \A kind : Indices(kind)' = Indices(kind)
      /\ \A g, v, m : Releases(g, v, m)' = Releases(g, v, m)
  BY <1>0, Moves, Static, StaticOrder
<1>2. SUFFICES ASSUME NEW j \in Steps, NEW w \in Script[j].who, NEW u \in Actors \ {w}, pc'[w] >= j
               PROVE  pc'[u] > Clock[kernel][j][w][u]
  BY <1>1 DEF Known
<1> DEFINE c == Clock[kernel][j][w][u]
<1>3. j \in Nat /\ w \in Actors
  BY <1>0 DEF WellFormed, Steps
<1>4. c \in Nat /\ pc[u] \in 1 .. End /\ pc[u] \in Nat /\ pc'[u] \in Nat /\ pc'[u] >= pc[u]
  BY <1>0, <1>3, Onward DEF Clocked, Shape, Ranges
<1>5. CASE c = 0
  BY <1>4, <1>5
<1>6. ASSUME NEW g \in Before(w, j),
             NEW m \in {g} \cup Indices("post"), NEW v \in Script[m].who,
             Tells(g, w, v, m), c <= IF u = v THEN m ELSE Clock[kernel][m][v][u]
      PROVE  pc'[u] > c
  <2>1. g \in Steps /\ g \in Nat /\ w \in Script[g].who /\ m \in Steps /\ m \in Nat
    BY <1>0, <1>3 DEF Before, WellFormed, Steps, Indices
  <2>2. v \in Actors /\ pc[v] \in Nat /\ pc'[v] \in Nat
    BY <1>0, <2>1, Onward DEF WellFormed
  <2>3. pc'[w] > g
    BY <1>0, <1>2, <1>3, <2>1, Onward DEF Before
  <2>4. pc'[v] > m
    <3>1. CASE v = w /\ m = g
      BY <2>3, <3>1
    <3>2. CASE Script[g].kind = "barrier" /\ v \in Script[g].who /\ m = g
      <4>1. g \in Indices("barrier")
        BY <2>1, <3>2 DEF Indices, Steps
      <4>2. QED
        BY <1>1, <2>1, <2>3, <3>2, <4>1 DEF Together
    <3>3. CASE Script[g].kind = "await" /\ Releases(g, v, m)
      <4>1. g \in Indices("await")
        BY <2>1, <3>3 DEF Indices, Steps
      <4>2. QED
        BY <1>1, <2>1, <2>2, <2>3, <3>3, <4>1 DEF Told
    <3>4. QED
      BY <1>6, <3>1, <3>2, <3>3 DEF Tells
  <2>5. CASE u = v
    BY <1>4, <1>6, <2>1, <2>2, <2>4, <2>5
  <2>6. CASE u # v
    <3>1. pc[v] >= m
      BY <1>0, <2>1, <2>2, <2>4, Passing
    <3>2. pc[u] > Clock[kernel][m][v][u]
      BY <2>1, <2>6, <3>1 DEF Known
    <3>3. Clock[kernel][m][v][u] \in Nat
      BY <1>0, <2>1, <2>6 DEF Clocked
    <3>4. QED
      BY <1>4, <1>6, <2>6, <3>2, <3>3
  <2>7. QED
    BY <2>5, <2>6
<1>7. c = 0 \/ \E g \in Before(w, j) :
                 \E m \in {g} \cup Indices("post") : \E v \in Script[m].who :
                   Tells(g, w, v, m) /\ c <= IF u = v THEN m ELSE Clock[kernel][m][v][u]
  BY <1>0 DEF Clocked
<1> HIDE DEF c
<1>8. QED
  BY <1>5, <1>6, <1>7 DEF c

LEMMA IsBeyond ==
  ASSUME Ordered, Shape, Known, NEW j \in Steps, NEW w \in Script[j].who, NEW v \in Actors,
         NEW i \in Nat, Knows(w, j, v, i), pc[w] >= j
  PROVE  pc[v] > i
<1>1. j \in Nat /\ w \in Actors /\ WellFormed /\ Clocked
  BY DEF Ordered, WellFormed, Steps
<1>2. pc[v] \in Nat /\ pc[w] \in Nat
  BY <1>1 DEF Shape, Ranges, WellFormed, End
<1>3. CASE v = w
  BY <1>1, <1>2, <1>3 DEF Knows
<1>4. CASE v # w
  <2>1. i <= Clock[kernel][j][w][v] /\ Clock[kernel][j][w][v] \in Nat
    BY <1>1, <1>4 DEF Knows, Clocked
  <2>2. pc[v] > Clock[kernel][j][w][v]
    BY <1>4 DEF Known
  <2>3. QED
    BY <1>2, <2>1, <2>2
<1>5. QED
  BY <1>3, <1>4

LEMMA StepCleared ==
  ASSUME WellFormed, Shape, Cleared, [Next]_vars
  PROVE  Cleared'
<1>1. Script' = Script /\ Steps' = Steps /\ \A f, i : Clears(f, i)' = Clears(f, i)
  BY Moves, Static, StaticOrder
<1>2. SUFFICES ASSUME NEW v \in Actors, NEW i \in unfenced'[v], NEW f \in Steps,
                      i < f, v \in Script[f].who, Clears(f, i), ~ (pc'[v] <= f)
               PROVE  FALSE
  BY <1>1 DEF Cleared
<1>3. f \in Nat /\ i \in Nat /\ pc[v] \in Nat /\ pc'[v] \in Nat
  <2>1. i \in Indices("simt")
    BY StepStores
  <2>2. f \in Nat /\ i \in Nat
    BY <2>1 DEF WellFormed, Steps, Indices
  <2>3. QED
    BY <2>2, Onward
<1>4. pc[v] > f \/ (pc[v] = f /\ Leaves(v))
  BY <1>2, <1>3, Passing
<1>5. CASE i \in unfenced[v]
  <2>1. pc[v] = f /\ Leaves(v)
    BY <1>2, <1>3, <1>4, <1>5 DEF Cleared
  <2>2. Cleaned(v)
    BY <2>1, StepStores
  <2>3. QED
    BY <1>2, <2>1, <2>2 DEF Cleaned, Clears
<1>6. CASE i = pc[v]
  BY <1>2, <1>3, <1>4, <1>6
<1>7. QED
  BY <1>5, <1>6, StepStores

LEMMA StepDrained ==
  ASSUME Ordered, Shape, Known, Drained, [Next]_vars
  PROVE  Drained'
<1>0. WellFormed
  BY DEF Ordered
<1>1. /\ Script' = Script /\ Steps' = Steps /\ Commands' = Commands
      /\ \A c : Issuer(c)' = Issuer(c)
      /\ \A d, x, c : Waits(d, x, c)' = Waits(d, x, c)
      /\ \A w, j, v, i : Knows(w, j, v, i)' = Knows(w, j, v, i)
  BY <1>0, Moves, Static, StaticOrder
<1>2. SUFFICES ASSUME NEW d \in Steps, NEW x \in Script[d].who, NEW c \in Commands,
                      Waits(d, x, c), Knows(x, d, Issuer(c), c), pc'[x] > d, c \in queue'
               PROVE  FALSE
  BY <1>1 DEF Drained
<1>3. /\ d \in Nat /\ x \in Actors /\ c \in Nat /\ Issuer(c) \in Actors
      /\ pc[x] \in Nat /\ pc'[x] \in Nat
  BY <1>0, TheIssuer, Onward DEF WellFormed, Steps, Commands, Indices
<1>4. pc[x] > d \/ (pc[x] = d /\ Leaves(x))
  BY <1>0, <1>2, <1>3, Passing
<1>5. \A e \in Commands : Knows(x, d, Issuer(e), e) => pc[Issuer(e)] > e
  <2> TAKE e \in Commands
  <2>1. e \in Nat /\ Issuer(e) \in Actors /\ pc[x] >= d
    BY <1>0, <1>3, <1>4, TheIssuer DEF Commands, Indices, WellFormed
  <2>2. QED
    BY <2>1, IsBeyond
<1>6. c \in queue
  <2>1. pc[Issuer(c)] > c
    BY <1>2, <1>5
  <2>2. pc[Issuer(c)] \in Nat
    BY <1>0, <1>3, Onward
  <2>3. QED
    BY <1>0, <1>2, <1>3, <2>1, <2>2, StepQueue DEF Queued
<1>7. pc[x] = d /\ Leaves(x)
  BY <1>2, <1>4, <1>6 DEF Drained
<1>8. Polled(x)
  BY <1>0, <1>3, <1>7, StepQueue DEF Queued
<1>9. CASE Script[d].kind = "drain" /\ (Program[kernel].lateBusy => Script[c].unit = "dma")
  BY <1>6, <1>7, <1>8, <1>9 DEF Polled, Shape, Shown
<1>10. CASE Script[d].kind = "drainloops" /\ Script[c].unit # "dma"
  BY <1>6, <1>7, <1>8, <1>10 DEF Polled
<1>11. CASE /\ Script[d].kind = "occupancy" /\ Program[kernel].inOrder
            /\ Script[d].left < Cardinality({e \in Commands : c <= e /\ Knows(x, d, Issuer(e), e)})
  <2> DEFINE E == {e \in Commands : c <= e /\ Knows(x, d, Issuer(e), e)}
  <2>1. E \subseteq queue
    <3> SUFFICES ASSUME NEW e \in E PROVE e \in queue
      OBVIOUS
    <3>1. e \in Commands /\ c <= e /\ pc[Issuer(e)] > e
      BY <1>5
    <3>2. e < pc[Issuer(e)]
      <4>1. e \in Nat /\ pc[Issuer(e)] \in Nat
        BY <1>0, <3>1, TheIssuer, Onward DEF Commands, Indices, WellFormed
      <4>2. QED
        BY <3>1, <4>1
    <3>3. QED
      BY <1>6, <1>11, <3>1, <3>2 DEF Shape, LastOnes
  <2>2. IsFiniteSet(queue)
    <3>1. queue \in SUBSET (1 .. Len(Script)) /\ Len(Script) \in Nat
      BY <1>0 DEF Shape, Ranges, Commands, Indices, WellFormed
    <3> DEFINE last == Len(Script)
    <3>2. IsFiniteSet(1 .. last)
      <4> last \in Int /\ 1 \in Int
        BY <3>1
      <4> HIDE DEF last
      <4> QED
        BY FS_Interval
    <3>3. QED
      BY <3>1, <3>2, FS_Subset
  <2> HIDE DEF E
  <2>3. Cardinality(E) <= Cardinality(queue) /\ Cardinality(E) \in Nat /\ Cardinality(queue) \in Nat
    BY <2>1, <2>2, FS_Subset, FS_CardinalityType
  <2>4. Script[d].left \in Nat
    <3>1. d \in Indices("occupancy")
      BY <1>11 DEF Indices, Steps
    <3>2. QED
      BY <1>0, <3>1 DEF WellFormed
  <2>5. Cardinality(queue) <= Script[d].left
    BY <1>7, <1>8, <1>11 DEF Polled
  <2>6. Script[d].left < Cardinality(E)
    BY <1>11 DEF E
  <2>7. QED
    BY <2>3, <2>4, <2>5, <2>6
<1>12. QED
  BY <1>2, <1>9, <1>10, <1>11 DEF Waits

Flow == Shape /\ Together /\ Posted /\ Told /\ Known /\ Cleared /\ Drained

(* At the start nobody has done anything, and no clock says otherwise.     *)
LEMMA InitFlow == Ordered /\ Init => Flow
<1> SUFFICES ASSUME Ordered, Init PROVE Flow
  OBVIOUS
<1>1. WellFormed /\ Clocked /\ Len(Script) \in Nat /\ End = Len(Script) + 1
  BY DEF Ordered, WellFormed, End
<1>2. Shape
  BY <1>1, InitShape
<1>3. \A j \in Steps : \A w \in Script[j].who : w \in Actors /\ pc[w] \in Nat /\ pc[w] <= j /\ j \in Nat
  <2> TAKE j \in Steps
  <2> TAKE w \in Script[j].who
  <2>1. w \in Actors
    BY <1>1 DEF WellFormed
  <2>2. pc[w] = Following(w, 0)
    BY <2>1 DEF Init
  <2>3. QED
    BY <1>1, <2>1, <2>2, NextOperation DEF Steps
<1>4. \A j \in Steps : \A w \in Script[j].who : ~ (pc[w] > j)
  BY <1>3
<1>5. Together /\ Told /\ Drained
  BY <1>4 DEF Together, Told, Drained, Indices, Steps
<1>6. Posted /\ Cleared
  BY DEF Init, Posted, Cleared
<1>7. Known
  <2> SUFFICES ASSUME NEW j \in Steps, NEW w \in Script[j].who, NEW u \in Actors \ {w}, pc[w] >= j
               PROVE  pc[u] > Clock[kernel][j][w][u]
    BY DEF Known
  <2>1. pc[w] = j
    BY <1>3
  <2>2. \A i \in 1 .. j - 1 : w \notin Script[i].who
    BY <1>3, <2>1 DEF Steps
  <2>3. Clock[kernel][j][w][u] = 0
    BY <1>1, <2>2 DEF Clocked, Before
  <2>4. pc[u] \in 1 .. End
    BY <1>2 DEF Shape, Ranges
  <2>5. QED
    BY <1>1, <2>3, <2>4
<1>8. QED
  BY <1>2, <1>5, <1>6, <1>7 DEF Flow

LEMMA StepFlow == Ordered /\ Flow /\ [Next]_vars => Flow'
<1> SUFFICES ASSUME Ordered, Flow, [Next]_vars PROVE Flow'
  OBVIOUS
<1>1. WellFormed /\ Shape /\ Together /\ Posted /\ Told /\ Known /\ Cleared /\ Drained
  BY DEF Flow, Ordered
<1>2. Shape' /\ Together' /\ Posted' /\ Told' /\ Cleared' /\ Drained'
  BY <1>1, StepShape, StepTogether, StepPosted, StepTold, StepCleared, StepDrained
<1>3. Known'
  BY <1>1, <1>2, StepKnown
<1>4. QED
  BY <1>2, <1>3 DEF Flow

LEMMA AlwaysFlow == Spec => [](Ordered => Flow)
<1>1. Init => (Ordered => Flow)
  BY InitFlow
<1>2. (Ordered => Flow) /\ [Next]_vars => (Ordered => Flow)'
  BY KernelStays, StaticOrder, StepFlow
<1>3. QED
  BY <1>1, <1>2, PTL DEF Spec

-----------------------------------------------------------------------------
(* No data races                                                           *)

LEMMA StillHidden ==
  ASSUME Ordered, Flow, NEW v \in Actors, NEW i \in unfenced[v],
         NEW j \in Steps, NEW w \in Script[j].who, pc[w] >= j
  PROVE  ~FencedBefore([op |-> i, by |-> v], w, j)
<1> SUFFICES ASSUME NEW f \in i + 1 .. Len(Script), v \in Script[f].who, Clears(f, i), Knows(w, j, v, f)
             PROVE  FALSE
  BY DEF FencedBefore
<1>1. WellFormed /\ Shape /\ Known /\ Cleared
  BY DEF Ordered, Flow
<1>2. i \in Nat
  BY <1>1 DEF Shape, Ranges, Indices, WellFormed
<1>3. f \in Steps /\ f \in Nat /\ i < f
  BY <1>1, <1>2 DEF WellFormed, Steps
<1>4. pc[v] <= f
  BY <1>1, <1>3 DEF Cleared
<1>5. pc[v] > f
  BY <1>1, <1>3, IsBeyond
<1>6. pc[v] \in Nat
  BY <1>1 DEF Shape, Ranges, WellFormed, End
<1>7. QED
  BY <1>3, <1>4, <1>5, <1>6

LEMMA DrainedOnce ==
  ASSUME WellFormed, NEW c \in Commands, NEW w, NEW j, DrainedBefore(c, w, j)
  PROVE  \E d \in Steps : \E x \in Script[d].who :
           Waits(d, x, c) /\ Knows(x, d, Issuer(c), c) /\ Knows(w, j, x, d)
<1>1. c \in Nat /\ c >= 1 /\ Len(Script) \in Nat
  BY DEF WellFormed, Commands, Indices
<1>2. c + 1 .. Len(Script) \subseteq Steps
  BY <1>1 DEF Steps
<1>3. QED
  BY <1>2 DEF DrainedBefore

LEMMA StillRunning ==
  ASSUME Ordered, Flow, NEW c \in queue, NEW j \in Steps, NEW w \in Script[j].who, pc[w] >= j
  PROVE  ~DrainedBefore(c, w, j)
<1> SUFFICES ASSUME NEW d \in Steps, NEW x \in Script[d].who,
                    Waits(d, x, c), Knows(x, d, Issuer(c), c), Knows(w, j, x, d)
             PROVE  FALSE
  BY DrainedOnce DEF Ordered, Flow, Shape, Ranges
<1>1. WellFormed /\ Shape /\ Known /\ Drained
  BY DEF Ordered, Flow
<1>2. c \in Commands /\ d \in Nat /\ x \in Actors
  BY <1>1 DEF Shape, Ranges, WellFormed, Steps
<1>3. pc[x] > d
  BY <1>1, <1>2, IsBeyond
<1>4. QED
  BY <1>1, <1>2, <1>3 DEF Drained

(* Where a pass that runs, a store that is not visible, and a command that *)
(* has not ended have come.                                                *)
LEMMA Running ==
  ASSUME WellFormed, Shape, NEW v \in Actors, mode[v] = "busy"
  PROVE  pc[v] \in Indices("simt") /\ pc[v] \in Steps /\ pc[v] \in Nat /\ v \in Script[pc[v]].who
                                   /\ pc[v] >= pc[v]
BY DEF Shape, AtWork, Indices, Steps, WellFormed, End

LEMMA Hidden ==
  ASSUME WellFormed, Shape, NEW v \in Actors, NEW i \in unfenced[v]
  PROVE  /\ i \in Indices("simt") /\ i \in Steps /\ i \in Nat /\ v \in Script[i].who
         /\ pc[v] > i /\ pc[v] >= i /\ pc[v] \in Nat
BY DEF Shape, Ranges, Behind, Indices, Steps, WellFormed, End

LEMMA Issued ==
  ASSUME WellFormed, Shape, NEW c \in queue
  PROVE  /\ c \in Commands /\ c \in Steps /\ c \in Nat
         /\ Issuer(c) \in Actors /\ Issuer(c) \in Script[c].who
         /\ pc[Issuer(c)] > c /\ pc[Issuer(c)] >= c /\ pc[Issuer(c)] \in Nat
<1>1. c \in Commands /\ c \in Steps /\ c \in Nat /\ c < pc[Issuer(c)]
  BY DEF Shape, Ranges, Behind, Commands, Indices, Steps, WellFormed
<1>2. Issuer(c) \in Actors /\ Issuer(c) \in Script[c].who
  BY <1>1, TheIssuer
<1>3. pc[Issuer(c)] \in Nat
  BY <1>2 DEF Shape, Ranges, WellFormed, End
<1>4. QED
  BY <1>1, <1>2, <1>3

LEMMA NotPassed ==
  ASSUME Ordered, Flow, NEW j \in Steps, NEW w \in Script[j].who, pc[w] >= j,
         NEW v \in Actors, NEW i \in Nat, ~ (pc[v] > i)
  PROVE  ~Knows(w, j, v, i)
BY IsBeyond DEF Flow

LEMMA InConflict ==
  ASSUME NEW a, NEW b, Conflict(a, b) \/ Conflict(b, a)
  PROVE  Near(a.op, b.op) /\ Near(b.op, a.op)
BY DEF Conflict, Near, Place, Writes, Reads, Overlap

LEMMA PassesKeepApart ==
  ASSUME Ordered, Apart, Flow, NEW v \in Actors, NEW w \in Actors, v # w, mode[v] = "busy"
  PROVE  /\ \A b \in Unfenced(w) : ~Conflict(b, [op |-> pc[v], by |-> v])
         /\ mode[w] = "busy" => ~Conflict([op |-> pc[v], by |-> v], [op |-> pc[w], by |-> w])
<1> DEFINE a == [op |-> pc[v], by |-> v]
<1>0. WellFormed /\ Shape /\ PassesApart
  BY DEF Ordered, Flow, Apart
<1>1. /\ pc[v] \in Indices("simt") /\ pc[v] \in Steps /\ pc[v] \in Nat /\ v \in Script[pc[v]].who
      /\ pc[v] >= pc[v]
  BY <1>0, Running
<1>2. ASSUME NEW i \in unfenced[w], Conflict([op |-> i, by |-> w], a)
      PROVE  FALSE
  <2>1. /\ i \in Indices("simt") /\ i \in Steps /\ i \in Nat /\ w \in Script[i].who
        /\ pc[w] > i /\ pc[w] >= i
    BY <1>0, Hidden
  <2>2. Near(i, pc[v])
    BY <1>2, InConflict
  <2>3. FencedBefore([op |-> i, by |-> w], v, pc[v]) \/ PassedBefore(a, w, i)
    BY <1>0, <1>1, <1>2, <2>1, <2>2 DEF PassesApart
  <2>4. ~FencedBefore([op |-> i, by |-> w], v, pc[v])
    BY <1>1, StillHidden
  <2>5. ~Knows(w, i, v, pc[v])
    BY <1>1, <2>1, NotPassed
  <2>6. QED
    BY <2>3, <2>4, <2>5 DEF PassedBefore
<1>3. ASSUME mode[w] = "busy", Conflict(a, [op |-> pc[w], by |-> w])
      PROVE  FALSE
  <2>1. /\ pc[w] \in Indices("simt") /\ pc[w] \in Steps /\ pc[w] \in Nat /\ w \in Script[pc[w]].who
        /\ pc[w] >= pc[w]
    BY <1>0, <1>3, Running
  <2>2. Near(pc[v], pc[w])
    BY <1>3, InConflict
  <2>3. FencedBefore(a, w, pc[w]) \/ PassedBefore([op |-> pc[w], by |-> w], v, pc[v])
    BY <1>0, <1>1, <1>3, <2>1, <2>2 DEF PassesApart
  <2>4. ~PassedBefore([op |-> pc[w], by |-> w], v, pc[v])
    BY <1>1, <2>1, NotPassed DEF PassedBefore
  <2>5. ~FencedBefore(a, w, pc[w])
    <3> SUFFICES ASSUME NEW f \in pc[v] + 1 .. Len(Script), Knows(w, pc[w], v, f) PROVE FALSE
      BY DEF FencedBefore
    <3>1. f \in Nat /\ ~ (pc[v] > f)
      BY <1>0, <1>1 DEF WellFormed
    <3>2. QED
      BY <2>1, <3>1, NotPassed
  <2>6. QED
    BY <2>3, <2>4, <2>5
<1>4. QED
  BY <1>2, <1>3 DEF Unfenced

LEMMA CommandsKeepApart ==
  ASSUME Ordered, Apart, Flow, NEW c \in queue
  PROVE  /\ \A a \in InPass : ~Conflict(a, Access(c)) /\ ~Conflict(Access(c), a)
         /\ \A w \in Actors : \A b \in Unfenced(w) : ~Conflict(b, Access(c))
         /\ \A d \in InQueue : Access(c) # d => ~Conflict(Access(c), d)
<1>0. WellFormed /\ Shape /\ CommandsApart /\ QueueApart
  BY DEF Ordered, Flow, Apart
<1>1. /\ c \in Commands /\ c \in Steps /\ c \in Nat
      /\ Issuer(c) \in Actors /\ Issuer(c) \in Script[c].who
      /\ pc[Issuer(c)] > c /\ pc[Issuer(c)] >= c /\ pc[Issuer(c)] \in Nat
  BY <1>0, Issued
<1>2. ASSUME NEW v \in Actors, mode[v] = "busy",
             \/ Conflict([op |-> pc[v], by |-> v], Access(c))
             \/ Conflict(Access(c), [op |-> pc[v], by |-> v])
      PROVE  FALSE
  <2> DEFINE a == [op |-> pc[v], by |-> v]
  <2>1. /\ pc[v] \in Indices("simt") /\ pc[v] \in Steps /\ pc[v] \in Nat /\ v \in Script[pc[v]].who
        /\ pc[v] >= pc[v]
    BY <1>0, <1>2, Running
  <2>2. Near(pc[v], c)
    BY <1>2, InConflict DEF Access
  <2>3. ~DrainedBefore(c, v, pc[v])
    BY <2>1, StillRunning
  <2>4. /\ Conflict(a, Access(c)) => FencedBefore(a, Issuer(c), c)
        /\ Conflict(Access(c), a) => PassedBefore(a, Issuer(c), c)
    BY <1>0, <1>1, <2>1, <2>2, <2>3 DEF CommandsApart
  <2>5. ~PassedBefore(a, Issuer(c), c)
    BY <1>1, <2>1, NotPassed DEF PassedBefore
  <2>6. ~FencedBefore(a, Issuer(c), c)
    <3> SUFFICES ASSUME NEW f \in pc[v] + 1 .. Len(Script), Knows(Issuer(c), c, v, f) PROVE FALSE
      BY DEF FencedBefore
    <3>1. f \in Nat /\ ~ (pc[v] > f)
      BY <1>0, <2>1 DEF WellFormed
    <3>2. QED
      BY <1>1, <3>1, NotPassed
  <2>7. QED
    BY <1>2, <2>4, <2>5, <2>6
<1>3. ASSUME NEW w \in Actors, NEW i \in unfenced[w], Conflict([op |-> i, by |-> w], Access(c))
      PROVE  FALSE
  <2> DEFINE b == [op |-> i, by |-> w]
  <2>1. /\ i \in Indices("simt") /\ i \in Steps /\ i \in Nat /\ w \in Script[i].who
        /\ pc[w] > i /\ pc[w] >= i
    BY <1>0, Hidden
  <2>2. Near(i, c)
    BY <1>3, InConflict DEF Access
  <2>3. ~DrainedBefore(c, w, i)
    BY <2>1, StillRunning
  <2>4. FencedBefore(b, Issuer(c), c)
    BY <1>0, <1>1, <1>3, <2>1, <2>2, <2>3 DEF CommandsApart
  <2>5. ~FencedBefore(b, Issuer(c), c)
    BY <1>1, StillHidden
  <2>6. QED
    BY <2>4, <2>5
<1>4. ASSUME NEW d \in queue, c # d, Conflict(Access(c), Access(d))
      PROVE  FALSE
  <2>1. /\ d \in Commands /\ d \in Steps /\ d \in Nat
        /\ Issuer(d) \in Actors /\ Issuer(d) \in Script[d].who
        /\ pc[Issuer(d)] > d /\ pc[Issuer(d)] >= d
    BY <1>0, Issued
  <2>2. DrainedBefore(c, Issuer(d), d) \/ DrainedBefore(d, Issuer(c), c)
    BY <1>0, <1>1, <1>4, <2>1 DEF QueueApart
  <2>3. QED
    BY <1>1, <2>1, <2>2, StillRunning
<1>5. QED
  BY <1>2, <1>3, <1>4 DEF InPass, Unfenced, InQueue, Access

(* In a kernel whose accesses are ordered by its barriers, flags, fences   *)
(* and polls nothing touches a place while something else may be storing   *)
(* to it.                                                                  *)
THEOREM RaceFree == Spec => [](Ordered /\ Apart => NoDataRace)
<1>1. Ordered /\ Flow /\ Apart => NoDataRace
  <2> SUFFICES ASSUME Ordered, Flow, Apart PROVE NoDataRace
    OBVIOUS
  <2>1. \A c \in InQueue : c.op \in queue /\ c = Access(c.op)
    BY DEF InQueue, Access
  <2>2. QED
    BY <2>1, PassesKeepApart, CommandsKeepApart DEF NoDataRace
<1>2. QED
  BY <1>1, AlwaysFlow, PTL

-----------------------------------------------------------------------------
(* The sweeps, the stages and the banks                                    *)

LEMMA IsDuring ==
  ASSUME Ordered, Flow, NEW c \in queue, NEW j \in Steps, NEW w \in Script[j].who, pc[w] = j
  PROVE  ~NotDuring(c, w, j)
<1>1. WellFormed /\ Shape
  BY DEF Ordered, Flow
<1>2. /\ c \in Commands /\ c \in Steps /\ c \in Nat
      /\ Issuer(c) \in Actors /\ Issuer(c) \in Script[c].who /\ Script[c].who = {Issuer(c)}
      /\ pc[Issuer(c)] > c /\ pc[Issuer(c)] >= c
  BY <1>1, Issued, TheIssuer
<1>3. j \in Nat /\ w \in Actors /\ pc[w] >= j
  BY <1>1 DEF WellFormed, Steps
<1>4. c # j
  BY <1>2, <1>3
<1>5. ~Knows(Issuer(c), c, w, j)
  BY <1>2, <1>3, NotPassed
<1>6. ~DrainedBefore(c, w, j)
  BY <1>3, StillRunning
<1>7. QED
  BY <1>4, <1>5, <1>6 DEF NotDuring

(* The bounds of a sweep are set, and a sweep is started, when no loop is  *)
(* left.                                                                   *)
THEOREM SweepsAreWhole == Spec => [](Ordered /\ SweepsApart => OneSweep)
<1>1. Ordered /\ Flow /\ SweepsApart => OneSweep
  <2> SUFFICES ASSUME Ordered, Flow, SweepsApart, Indices("config") # {},
                      At(0, "config") \/ (At(0, "command") /\ Op(0).unit = "mesh"),
                      NEW c \in queue, Script[c].unit = "mesh"
               PROVE  FALSE
    BY DEF OneSweep
  <2>1. WellFormed /\ Shape /\ 0 \in Actors
    BY WarpsAssumption DEF Ordered, Flow, Actors, Warps, Host
  <2>2. pc[0] \in Steps /\ 0 \in Script[pc[0]].who /\ pc[0] \in Indices("config") \cup Commands
        /\ (Script[pc[0]].kind = "config" \/ Script[pc[0]].unit = "mesh")
    <3>1. pc[0] < End /\ pc[0] \in 1 .. End /\ End = Len(Script) + 1 /\ Len(Script) \in Nat
      BY <2>1 DEF At, Shape, Ranges, WellFormed, End
    <3>2. pc[0] \in Steps
      BY <3>1 DEF Steps
    <3>3. QED
      BY <2>1, <3>1, <3>2 DEF At, Op, Indices, Commands, Steps, Shape, AtWork
  <2>3. c \in Commands
    BY <2>1, Issued
  <2>4. NotDuring(c, 0, pc[0])
    BY <2>2, <2>3 DEF SweepsApart
  <2>5. QED
    BY <2>1, <2>2, <2>4, IsDuring
<1>2. QED
  BY <1>1, AlwaysFlow, PTL

(* In a build with nothing overlapped no pass runs while thread 0 is at an *)
(* operation of a stage of the matrix unit.                                *)
THEOREM StagesKeepAlone == Spec => [](Ordered /\ KeptAlone => StagesAlone)
<1>1. Ordered /\ Flow /\ KeptAlone => StagesAlone
  <2> SUFFICES ASSUME Ordered, Flow, KeptAlone, pc[0] \in Program[kernel].alone,
                      NEW c \in queue, NEW v \in Actors, mode[v] = "busy"
               PROVE  FALSE
    BY DEF StagesAlone, InPass
  <2>1. WellFormed /\ Shape /\ 0 \in Actors
    BY WarpsAssumption DEF Ordered, Flow, Actors, Warps, Host
  <2>2. pc[0] \in Steps
    BY DEF KeptAlone
  <2>3. pc[0] < End /\ pc[0] \in Nat /\ pc[0] >= pc[0] /\ 0 \in Script[pc[0]].who
    BY <2>1, <2>2 DEF WellFormed, Steps, End, Shape, AtWork
  <2>4. c \in Commands
    BY <2>1, Issued
  <2>5. ~NotDuring(c, 0, pc[0])
    BY <2>2, <2>3, IsDuring
  <2>6. /\ pc[v] \in Indices("simt") /\ pc[v] \in Steps /\ pc[v] \in Nat /\ v \in Script[pc[v]].who
        /\ pc[v] >= pc[v]
    BY <2>1, Running
  <2> DEFINE a == [op |-> pc[v], by |-> v]
  <2>7. a \in Passes
    BY <2>6 DEF Passes
  <2>8. /\ a.op # pc[0]
        /\ a.by # 0 => PassedBefore(a, 0, pc[0]) \/ Knows(a.by, a.op, 0, pc[0])
    BY <2>2, <2>3, <2>4, <2>5, <2>7 DEF KeptAlone
  <2>9. v # 0
    BY <2>8
  <2>10. ~Knows(0, pc[0], v, pc[v]) /\ ~Knows(v, pc[v], 0, pc[0])
    BY <2>1, <2>2, <2>3, <2>6, NotPassed
  <2>11. QED
    BY <2>8, <2>9, <2>10 DEF PassedBefore
<1>2. QED
  BY <1>1, AlwaysFlow, PTL

(* The mesh and the passes keep out of each other's banks.                 *)
THEOREM BanksKeepApart == Spec => [](Ordered /\ Banked => BanksApart)
<1>1. Ordered /\ Flow /\ Banked => BanksApart
  <2> SUFFICES ASSUME Ordered, Flow, Banked, NEW v \in Actors, mode[v] = "busy", NEW c \in queue
               PROVE  KeepToBanks([op |-> pc[v], by |-> v], Access(c))
    BY DEF BanksApart, InPass, InQueue, Access
  <2>1. WellFormed /\ Shape
    BY DEF Ordered, Flow
  <2>2. /\ pc[v] \in Indices("simt") /\ pc[v] \in Steps /\ pc[v] \in Nat /\ v \in Script[pc[v]].who
        /\ pc[v] >= pc[v]
    BY <2>1, Running
  <2>3. /\ c \in Commands /\ c \in Steps /\ c \in Nat
        /\ Issuer(c) \in Actors /\ Issuer(c) \in Script[c].who /\ pc[Issuer(c)] >= c
    BY <2>1, Issued
  <2> DEFINE a == [op |-> pc[v], by |-> v]
  <2>4. a \in Passes
    BY <2>2 DEF Passes
  <2>5. ~DrainedBefore(c, v, pc[v])
    BY <2>2, StillRunning
  <2>6. ~Knows(Issuer(c), c, v, pc[v])
    BY <2>2, <2>3, NotPassed
  <2>7. QED
    BY <2>3, <2>4, <2>5, <2>6 DEF Banked, PassedBefore
<1>2. QED
  BY <1>1, AlwaysFlow, PTL

-----------------------------------------------------------------------------
(* What is read                                                            *)

(* An access has been made.                                                *)
Over(a) ==
  IF a.op \in Commands THEN pc[Issuer(a.op)] > a.op /\ a.op \notin queue ELSE pc[a.by] > a.op

(* The accesses that store to one cell.                                    *)
StoresAt(p, i) == {o \in StoresTo(p) : Touches(o, p, i)}

(* What feeds an access stays in its place until the access is over.       *)
Written ==
  \A a \in Accesses : \A x \in Reads(a) : \A i \in Cells(a) : \A w \in Accesses :
    Feeds(w, a, x, i, StoresAt(x[1], i)) /\ Over(w) /\ ~Over(a) => memory[x[1]][i] = x[2]

LEMMA OfCommands == \A a : OfCommand(a) <=> a.op \in Commands
BY DEF OfCommand, Commands, Indices, Steps

LEMMA AccessFacts ==
  ASSUME WellFormed, NEW a \in Accesses
  PROVE  /\ a.op \in Steps /\ a.op \in Nat /\ Actor(a) \in Actors /\ Actor(a) \in Script[a.op].who
         /\ a.op \in Commands => Actor(a) = Issuer(a.op) /\ a = Access(a.op)
         /\ a.op \notin Commands => /\ a.op \in Indices("simt") /\ a.by \in Actors
                                    /\ a.by \in Script[a.op].who /\ Actor(a) = a.by
                                    /\ a = [op |-> a.op, by |-> a.by]
<1>1. CASE \E i \in Indices("simt") : \E v \in Script[i].who : a = [op |-> i, by |-> v]
  <2>1. PICK i \in Indices("simt") : \E v \in Script[i].who : a = [op |-> i, by |-> v]
    BY <1>1
  <2>2. PICK v \in Script[i].who : a = [op |-> i, by |-> v]
    BY <2>1
  <2>3. i \in Steps /\ i \in Nat /\ i \notin Commands /\ v \in Actors
    BY DEF Indices, Steps, Commands, WellFormed
  <2>4. QED
    BY <2>2, <2>3, OfCommands DEF Actor
<1>2. CASE \E c \in Commands : a = Access(c)
  <2>1. PICK c \in Commands : a = Access(c)
    BY <1>2
  <2>2. c \in Steps /\ c \in Nat /\ Issuer(c) \in Actors /\ Issuer(c) \in Script[c].who
    BY TheIssuer DEF Indices, Steps, Commands, WellFormed
  <2>3. a.op = c
    BY <2>1 DEF Access
  <2>4. QED
    BY <2>1, <2>2, <2>3, OfCommands DEF Actor
<1>3. QED
  BY <1>1, <1>2 DEF Accesses, Passes

LEMMA StaticAccesses ==
  ASSUME kernel' = kernel
  PROVE  /\ Accesses' = Accesses
         /\ \A a : Reads(a)' = Reads(a) /\ Writes(a)' = Writes(a) /\ Cells(a)' = Cells(a)
         /\ \A w, a, x, i : Feeds(w, a, x, i, StoresAt(x[1], i))' = Feeds(w, a, x, i, StoresAt(x[1], i))
<1>1. /\ Script' = Script /\ Layout' = Layout /\ Steps' = Steps /\ Commands' = Commands
      /\ \A kind : Indices(kind)' = Indices(kind)
      /\ \A c : Issuer(c)' = Issuer(c)
      /\ \A d, x, c : Waits(d, x, c)' = Waits(d, x, c)
      /\ \A w, j, v, i : Knows(w, j, v, i)' = Knows(w, j, v, i)
  BY Static, StaticOrder
<1>2. Accesses' = Accesses
  <2>1. Passes' = Passes
    BY <1>1 DEF Passes
  <2>2. QED
    BY <1>1, <2>1 DEF Accesses, Access
<1>3. \A a : Reads(a)' = Reads(a) /\ Writes(a)' = Writes(a) /\ Cells(a)' = Cells(a)
  BY <1>1 DEF Reads, Writes, Cells
<1>4. \A p, q : Overlap(p, q)' = Overlap(p, q)
  BY <1>1 DEF Overlap
<1>5. \A p : StoresTo(p)' = StoresTo(p)
  BY <1>2, <1>3, <1>4 DEF StoresTo
<1>6. \A a, p, i : Touches(a, p, i)' = Touches(a, p, i)
  BY <1>3, <1>4 DEF Touches
<1>7. \A a, b : DoneBefore(a, b)' = DoneBefore(a, b)
  <2>1. \A a : OfCommand(a)' = OfCommand(a) /\ Actor(a)' = Actor(a)
    BY <1>1 DEF OfCommand, Actor
  <2>2. \A c, w, j : DrainedBefore(c, w, j)' = DrainedBefore(c, w, j)
    BY <1>1 DEF DrainedBefore
  <2>3. \A a, w, j : PassedBefore(a, w, j)' = PassedBefore(a, w, j)
    BY <1>1 DEF PassedBefore
  <2>4. QED
    BY <1>1, <2>1, <2>2, <2>3 DEF DoneBefore
<1>8. \A w, a, x, i : Feeds(w, a, x, i, StoresAt(x[1], i))' = Feeds(w, a, x, i, StoresAt(x[1], i))
  <2>1. \A p, i : StoresAt(p, i)' = StoresAt(p, i)
    BY <1>5, <1>6 DEF StoresAt
  <2>2. QED
    BY <1>3, <1>7, <2>1 DEF Feeds
<1>9. QED
  BY <1>2, <1>3, <1>8

LEMMA CellsAreParts == \A a : Cells(a) \subseteq Parts
<1>1. NumWarps \in Nat /\ NumWarps >= 1 /\ NumWarps * NumWarps \in Nat
  BY WarpsAssumption
<1>2. NumWarps * NumWarps >= NumWarps
  BY <1>1
<1>3. Warps \subseteq Parts /\ 0 \in Parts
  BY <1>1, <1>2 DEF Warps, Parts
<1>4. QED
  BY <1>3 DEF Cells, Share

LEMMA DoneIsOver ==
  ASSUME Ordered, Flow, NEW a \in Accesses, NEW b \in Accesses, DoneBefore(a, b), pc[Actor(b)] >= b.op
  PROVE  Over(a)
<1>1. WellFormed /\ Shape /\ Known /\ Drained
  BY DEF Ordered, Flow
<1>2. b.op \in Steps /\ Actor(b) \in Script[b.op].who
  BY <1>1, AccessFacts
<1>3. CASE a.op \in Commands
  <2>1. a.op \in Nat /\ Issuer(a.op) \in Actors
    BY <1>1, <1>3, AccessFacts
  <2>2. DrainedBefore(a.op, Actor(b), b.op)
    BY <1>3, OfCommands DEF DoneBefore
  <2>3. PICK d \in Steps : \E x \in Script[d].who :
               Waits(d, x, a.op) /\ Knows(x, d, Issuer(a.op), a.op) /\ Knows(Actor(b), b.op, x, d)
    BY <1>1, <1>3, <2>2, DrainedOnce
  <2>4. PICK x \in Script[d].who :
               Waits(d, x, a.op) /\ Knows(x, d, Issuer(a.op), a.op) /\ Knows(Actor(b), b.op, x, d)
    BY <2>3
  <2>5. d \in Nat /\ x \in Actors /\ pc[x] \in Nat
    BY <1>1 DEF WellFormed, Steps, Shape, Ranges, End
  <2>6. pc[x] > d
    BY <1>1, <1>2, <2>4, <2>5, IsBeyond
  <2>7. a.op \notin queue
    BY <1>1, <1>3, <2>4, <2>6 DEF Drained
  <2>8. pc[Issuer(a.op)] > a.op
    BY <1>1, <2>1, <2>4, <2>5, <2>6, IsBeyond
  <2>9. QED
    BY <1>3, <2>7, <2>8 DEF Over
<1>4. CASE a.op \notin Commands
  <2>1. a.op \in Nat /\ a.by \in Actors
    BY <1>1, <1>4, AccessFacts
  <2>2. Knows(Actor(b), b.op, a.by, a.op)
    BY <1>4, OfCommands DEF DoneBefore, PassedBefore
  <2>3. pc[a.by] > a.op
    BY <1>1, <1>2, <2>1, <2>2, IsBeyond
  <2>4. QED
    BY <1>4, <2>3 DEF Over
<1>5. QED
  BY <1>3, <1>4

(* An access is over for good, and a step that ends one makes its stores.  *)
Ends(a) == IF a.op \in Commands THEN CommandEnds(a.op) ELSE PassEnds(a.by) /\ pc[a.by] = a.op

LEMMA StepOver ==
  ASSUME WellFormed, Shape, [Next]_vars, NEW a \in Accesses
  PROVE  /\ Over(a) => Over(a)'
         /\ ~Over(a) /\ Over(a)' => Ends(a)
         /\ Ends(a) => Over(a)' /\ ~Over(a) /\ pc[Actor(a)] >= a.op
<1>1. Script' = Script /\ Commands' = Commands /\ Issuer(a.op)' = Issuer(a.op)
  BY Moves, Static
<1>2. Queued
  BY StepQueue
<1>3. CASE a.op \in Commands
  <2> DEFINE c == a.op
             v == Issuer(c)
  <2>1. c \in Steps /\ c \in Nat /\ v \in Actors /\ v \in Script[c].who /\ Actor(a) = v
    BY <1>3, AccessFacts
  <2>2. pc[v] \in Nat /\ pc'[v] \in Nat /\ pc'[v] >= pc[v]
    BY <2>1, Onward
  <2>3. /\ Over(a) <=> pc[v] > c /\ c \notin queue
        /\ Over(a)' <=> pc'[v] > c /\ c \notin queue'
        /\ Ends(a) <=> c \in queue /\ c \notin queue'
    BY <1>1, <1>3 DEF Over, Ends, CommandEnds
  <2>4. c \in queue' => c \in queue \/ (c = pc[v] /\ Leaves(v))
    BY <1>2 DEF Queued
  <2>5. c = pc[v] /\ Leaves(v) => c \in queue'
    BY <1>2, <1>3 DEF Queued
  <2>6. pc'[v] > c => pc[v] > c \/ (pc[v] = c /\ Leaves(v))
    BY <2>1, Passing
  <2>7. c \in queue => pc[v] > c
    BY Issued
  <2> HIDE DEF c, v
  <2>8. QED
    BY <2>1, <2>2, <2>3, <2>4, <2>5, <2>6, <2>7 DEF c
<1>4. CASE a.op \notin Commands
  <2>1. /\ a.op \in Steps /\ a.op \in Nat /\ a.op \in Indices("simt") /\ a.by \in Actors
        /\ a.by \in Script[a.op].who /\ Actor(a) = a.by
    BY <1>4, AccessFacts
  <2>2. pc[a.by] \in Nat /\ pc'[a.by] \in Nat /\ pc'[a.by] >= pc[a.by]
    BY <2>1, Onward
  <2>3. (Over(a) <=> pc[a.by] > a.op) /\ (Over(a)' <=> pc'[a.by] > a.op)
    BY <1>1, <1>4 DEF Over
  <2>4. /\ pc'[a.by] > a.op => pc[a.by] > a.op \/ (pc[a.by] = a.op /\ Leaves(a.by))
        /\ pc[a.by] = a.op /\ Leaves(a.by) => pc'[a.by] > a.op
    BY <2>1, Passing
  <2>5. Ends(a) <=> pc[a.by] = a.op /\ Leaves(a.by)
    BY <1>4, <2>1 DEF Ends, PassEnds
  <2>6. QED
    BY <2>1, <2>2, <2>3, <2>4, <2>5
<1>5. QED
  BY <1>3, <1>4

(* What an access stores, and what it leaves.                              *)
LEMMA StoresItsTile ==
  ASSUME NEW w, NEW x \in Writes(w), \A y \in Writes(w) : y[1] = x[1] => y = x,
         NEW i \in Cells(w), x[1] \in DOMAIN memory
  PROVE  Stored(w)[x[1]][i] = x[2]
<1> DEFINE here == {y \in Writes(w) : y[1] = x[1]}
<1>1. here = {x}
  OBVIOUS
<1>2. (CHOOSE y \in here : TRUE) = x
  BY <1>1
<1>3. i \in Parts
  BY CellsAreParts
<1>4. Stored(w)[x[1]][i] = (CHOOSE y \in here : TRUE)[2]
  BY <1>1, <1>3 DEF Stored
<1>5. QED
  BY <1>2, <1>4

LEMMA LeavesOthers ==
  ASSUME NEW o, NEW p \in DOMAIN memory, NEW i \in Parts, ~Touches(o, p, i)
  PROVE  Stored(o)[p][i] = memory[p][i]
BY DEF Stored, Touches

LEMMA PlaceOfAccess ==
  ASSUME WellFormed, NEW a \in Accesses, NEW x \in Reads(a) \cup Writes(a)
  PROVE  x[1] \in PlacesOf(kernel)
<1>1. Script[a.op] \in {o \in Range(Script) : o.kind \in {"simt", "command"}}
  <2>1. a.op \in Steps /\ a.op \in Indices("simt") \cup Commands
    BY AccessFacts
  <2>2. QED
    BY <2>1 DEF WellFormed, Range, Indices, Commands
<1>2. QED
  BY <1>1 DEF PlacesOf, Reads, Writes, Script

LEMMA PlaceOfRead ==
  ASSUME WellFormed, Contents, NEW a \in Accesses, NEW x \in Reads(a) \cup Writes(a)
  PROVE  x[1] \in DOMAIN memory
BY PlaceOfAccess DEF Contents

(* Every step makes the stores of at most one access.                      *)
LEMMA StepStored ==
  ASSUME WellFormed, Shape, [Next]_vars
  PROVE  \/ memory' = memory /\ \A a \in Accesses : ~Ends(a)
         \/ \E o \in Accesses : /\ memory' = Stored(o) /\ Ends(o)
                                /\ \A a \in Accesses : Ends(a) => a = o
<1>1. CASE memory' = memory /\ (\A v : ~PassEnds(v)) /\ (\A c : ~CommandEnds(c))
  BY <1>1 DEF Ends
<1>2. ASSUME NEW v \in Actors, PassEnds(v), memory' = Stored([op |-> pc[v], by |-> v]),
             \A u : PassEnds(u) => u = v, \A c : ~CommandEnds(c)
      PROVE  \E o \in Accesses : /\ memory' = Stored(o) /\ Ends(o)
                                 /\ \A a \in Accesses : Ends(a) => a = o
  <2> DEFINE o == [op |-> pc[v], by |-> v]
  <2>1. o \in Accesses /\ o.op \notin Commands
    BY <1>2 DEF PassEnds, Accesses, Passes, Indices, Commands
  <2>2. Ends(o)
    BY <1>2, <2>1 DEF Ends
  <2>3. ASSUME NEW a \in Accesses, Ends(a) PROVE a = o
    <3>1. a.op \notin Commands /\ a.by = v /\ a.op = pc[v]
      BY <1>2, <2>3 DEF Ends
    <3>2. a = [op |-> a.op, by |-> a.by]
      BY <3>1, AccessFacts
    <3>3. QED
      BY <3>1, <3>2
  <2>4. QED
    BY <1>2, <2>1, <2>2, <2>3
<1>3. ASSUME NEW c \in Commands, CommandEnds(c), memory' = Stored(Access(c)),
             \A u : ~PassEnds(u), \A d : CommandEnds(d) => d = c
      PROVE  \E o \in Accesses : /\ memory' = Stored(o) /\ Ends(o)
                                 /\ \A a \in Accesses : Ends(a) => a = o
  <2>1. Access(c) \in Accesses /\ Ends(Access(c))
    BY <1>3 DEF Accesses, Access, Ends
  <2>2. ASSUME NEW a \in Accesses, Ends(a) PROVE a = Access(c)
    <3>1. a.op \in Commands /\ a.op = c
      BY <1>3, <2>2 DEF Ends
    <3>2. QED
      BY <3>1, AccessFacts
  <2>3. QED
    BY <1>3, <2>1, <2>2
<1>4. QED
  BY <1>1, <1>2, <1>3, StepMemory

LEMMA OverIsBegun ==
  ASSUME WellFormed, Shape, NEW a \in Accesses, Over(a)
  PROVE  pc[Actor(a)] >= a.op
<1>1. a.op \in Nat /\ Actor(a) \in Actors
  BY AccessFacts
<1>2. pc[Actor(a)] > a.op
  <2>1. (a.op \in Commands => Actor(a) = Issuer(a.op)) /\ (a.op \notin Commands => Actor(a) = a.by)
    BY AccessFacts
  <2>2. QED
    BY <2>1 DEF Over
<1>3. pc[Actor(a)] \in Nat
  BY <1>1 DEF Shape, Ranges, WellFormed, End
<1>4. QED
  BY <1>1, <1>2, <1>3

LEMMA NothingIsOver ==
  ASSUME WellFormed, Init, NEW w \in Accesses
  PROVE  ~Over(w)
<1> SUFFICES ASSUME Over(w) PROVE FALSE
  OBVIOUS
<1>1. Shape /\ w.op \in Steps /\ Actor(w) \in Actors /\ Actor(w) \in Script[w.op].who
  BY InitShape, AccessFacts
<1>2. pc[Actor(w)] > w.op
  <2>1. (w.op \in Commands => Actor(w) = Issuer(w.op)) /\ (w.op \notin Commands => Actor(w) = w.by)
    BY AccessFacts
  <2>2. QED
    BY <2>1 DEF Over
<1>3. Following(Actor(w), 0) <= w.op
  BY <1>1, NextOperation DEF Steps, WellFormed, End
<1>4. pc[Actor(w)] = Following(Actor(w), 0)
  BY <1>1 DEF Init
<1>5. w.op \in Nat /\ pc[Actor(w)] \in Nat
  BY <1>1 DEF Steps, WellFormed, Shape, Ranges, End
<1>6. QED
  BY <1>2, <1>3, <1>4, <1>5

LEMMA StepWritten ==
  ASSUME Ordered, Flow, Contents, Written, [Next]_vars
  PROVE  Written'
<1>0. WellFormed /\ Shape
  BY DEF Ordered, Flow
<1>1. /\ Accesses' = Accesses
      /\ \A a : Reads(a)' = Reads(a) /\ Writes(a)' = Writes(a) /\ Cells(a)' = Cells(a)
      /\ \A w, a, x, i : Feeds(w, a, x, i, StoresAt(x[1], i))' = Feeds(w, a, x, i, StoresAt(x[1], i))
  BY <1>0, Moves, StaticAccesses
<1>2. SUFFICES ASSUME NEW a \in Accesses, NEW x \in Reads(a), NEW i \in Cells(a), NEW w \in Accesses,
                      Feeds(w, a, x, i, StoresAt(x[1], i)), Over(w)', ~Over(a)'
               PROVE  memory'[x[1]][i] = x[2]
  BY <1>1 DEF Written
<1>3. ~Over(a)
  BY <1>0, <1>2, StepOver
<1>4. x[1] \in DOMAIN memory /\ i \in Parts
  BY <1>0, PlaceOfRead, CellsAreParts
<1>5. Over(w) => memory[x[1]][i] = x[2]
  BY <1>2, <1>3 DEF Written
<1>6. CASE memory' = memory /\ \A b \in Accesses : ~Ends(b)
  BY <1>0, <1>2, <1>5, <1>6, StepOver
<1>7. ASSUME NEW o \in Accesses, memory' = Stored(o), Ends(o), \A b \in Accesses : Ends(b) => b = o
      PROVE  memory'[x[1]][i] = x[2]
  <2>1. CASE w = o
    <3>1. i \in Cells(w) /\ x \in Writes(w) /\ \A y \in Writes(w) : y[1] = x[1] => y = x
      BY <1>2 DEF Feeds
    <3>2. QED
      BY <1>4, <1>7, <2>1, <3>1, StoresItsTile
  <2>2. CASE w # o
    <3>1. Over(w)
      BY <1>0, <1>2, <1>7, <2>2, StepOver
    <3>2. Over(o)' /\ ~Over(o) /\ pc[Actor(o)] >= o.op
      BY <1>0, <1>7, StepOver
    <3>3. o # a
      BY <1>2, <3>2
    <3>4. ~Touches(o, x[1], i)
      <4> SUFFICES ASSUME Touches(o, x[1], i) PROVE FALSE
        OBVIOUS
      <4>1. o \in StoresAt(x[1], i)
        BY DEF Touches, StoresTo, StoresAt
      <4>2. DoneBefore(o, w) \/ DoneBefore(a, o)
        BY <1>2, <2>2, <3>3, <4>1 DEF Feeds
      <4>3. ~DoneBefore(a, o)
        BY <1>3, <3>2, DoneIsOver
      <4>4. pc[Actor(w)] >= w.op
        BY <1>0, <3>1, OverIsBegun
      <4>5. ~DoneBefore(o, w)
        BY <3>2, <4>4, DoneIsOver
      <4>6. QED
        BY <4>2, <4>3, <4>5
    <3>5. QED
      BY <1>4, <1>5, <1>7, <3>1, <3>4, LeavesOthers
  <2>3. QED
    BY <2>1, <2>2
<1>8. QED
  BY <1>0, <1>6, <1>7, StepStored

(* What runs has begun and is not over.                                    *)
LEMMA Unended ==
  ASSUME WellFormed, Shape, NEW a \in InPass \cup InQueue
  PROVE  a \in Accesses /\ ~Over(a) /\ pc[Actor(a)] >= a.op
<1>1. ASSUME NEW v \in Actors, mode[v] = "busy", a = [op |-> pc[v], by |-> v]
      PROVE  a \in Accesses /\ ~Over(a) /\ pc[Actor(a)] >= a.op
  <2>1. /\ pc[v] \in Indices("simt") /\ pc[v] \in Steps /\ pc[v] \in Nat /\ v \in Script[pc[v]].who
        /\ pc[v] >= pc[v]
    BY <1>1, Running
  <2>2. a \in Accesses /\ a.op \notin Commands
    BY <1>1, <2>1 DEF Accesses, Passes, Indices, Commands
  <2>3. QED
    BY <1>1, <2>1, <2>2, OfCommands DEF Over, Actor
<1>2. ASSUME NEW c \in queue, a = Access(c)
      PROVE  a \in Accesses /\ ~Over(a) /\ pc[Actor(a)] >= a.op
  <2>1. /\ c \in Commands /\ c \in Steps /\ c \in Nat
        /\ Issuer(c) \in Actors /\ Issuer(c) \in Script[c].who /\ pc[Issuer(c)] >= c
    BY Issued
  <2>2. a \in Accesses /\ a.op = c
    BY <1>2, <2>1 DEF Accesses, Access
  <2>3. QED
    BY <1>2, <2>1, <2>2, OfCommands DEF Over, Actor
<1>3. QED
  BY <1>1, <1>2 DEF InPass, InQueue, Access

(* In a kernel that writes each tile in time, and nothing else over it     *)
(* before it has been read, what a pass, the DMA or the mesh reads is the  *)
(* tile it means.                                                          *)
THEOREM TilesAreRead == Spec => [](Ordered /\ Fed => ReadsItsTile)
<1>1. Init => (Ordered => Written)
  BY NothingIsOver DEF Written, Ordered
<1>2. /\ (Ordered => Flow) /\ (WellFormed => Shape /\ Contents) /\ (Ordered => Written) /\ [Next]_vars
      => (Ordered => Written)'
  <2> SUFFICES ASSUME Ordered => Flow, WellFormed => Shape /\ Contents, Ordered => Written,
                      [Next]_vars, Ordered'
               PROVE  Written'
    OBVIOUS
  <2>1. Ordered
    BY KernelStays, StaticOrder
  <2>2. QED
    BY <2>1, StepWritten DEF Ordered
<1>3. Ordered /\ Flow /\ Written /\ Fed => ReadsItsTile
  <2> SUFFICES ASSUME Ordered, Flow, Written, Fed, NEW a \in InPass \cup InQueue,
                      NEW x \in Reads(a), NEW i \in Cells(a)
               PROVE  memory[x[1]][i] = x[2]
    BY DEF ReadsItsTile
  <2>1. WellFormed /\ Shape
    BY DEF Ordered, Flow
  <2>2. a \in Accesses /\ ~Over(a) /\ pc[Actor(a)] >= a.op
    BY <2>1, Unended
  <2>3. a.op \in Indices("simt") \cup Commands
    BY <2>1, <2>2, AccessFacts
  <2>4. PICK w \in StoresAt(x[1], i) : Feeds(w, a, x, i, StoresAt(x[1], i))
    <3>1. x[1] \in PlacesOf(kernel) /\ i \in Parts
      BY <2>1, <2>2, PlaceOfAccess, CellsAreParts
    <3>2. QED
      BY <2>2, <3>1 DEF Fed, StoresAt
  <2>5. w \in Accesses /\ DoneBefore(w, a)
    BY <2>4 DEF StoresTo, StoresAt, Feeds
  <2>6. Over(w)
    BY <2>2, <2>5, DoneIsOver
  <2>7. QED
    BY <2>2, <2>4, <2>5, <2>6 DEF Written
<1>4. QED
  BY <1>1, <1>2, <1>3, AlwaysFlow, AlwaysTyped, PTL DEF Spec

-----------------------------------------------------------------------------
(* The rows of the result                                                  *)

RowIs(r) == memory[r[1][1]][r[2]] = r[1][2]

(* A row of the result is there if and only if it was stored.              *)
Stands == \A r \in Outputs : RowIs(r) <=> \E w \in Accesses : Makes(w, r) /\ Over(w)

LEMMA OutputFacts ==
  ASSUME Contents, NEW r \in Outputs
  PROVE  r[1][1] \in DOMAIN memory /\ r[2] \in Parts
BY DEF Contents, PlacesOf, Outputs

LEMMA MakerTouches ==
  ASSUME NEW r, NEW w, Makes(w, r)
  PROVE  Touches(w, r[1][1], r[2])
BY DEF Makes, Touches

LEMMA TouchingStore ==
  ASSUME NEW p, NEW i, NEW o \in Accesses, Touches(o, p, i)
  PROVE  o \in StoresTo(p)
BY DEF Touches, StoresTo

LEMMA StoresRow ==
  ASSUME Contents, Streamed, NEW r \in Outputs, NEW o \in Accesses
  PROVE  /\ Makes(o, r) => Stored(o)[r[1][1]][r[2]] = r[1][2]
         /\ Touches(o, r[1][1], r[2]) /\ ~Makes(o, r) => Stored(o)[r[1][1]][r[2]] # r[1][2]
         /\ ~Touches(o, r[1][1], r[2]) => Stored(o)[r[1][1]][r[2]] = memory[r[1][1]][r[2]]
<1> DEFINE x == r[1]
           i == r[2]
<1>1. x[1] \in DOMAIN memory /\ i \in Parts
  BY OutputFacts
<1>2. ASSUME Makes(o, r) PROVE Stored(o)[x[1]][i] = x[2]
  <2>1. o \in StoresTo(x[1]) /\ Touches(o, x[1], i)
    BY <1>2, MakerTouches, TouchingStore
  <2>2. x \in Writes(o) /\ i \in Cells(o) /\ \A y \in Writes(o) : y[1] = x[1] => y = x
    BY <1>2, <2>1 DEF Streamed, Makes, PutsAlone
  <2>3. QED
    BY <1>1, <2>2, StoresItsTile
<1>3. ASSUME Touches(o, x[1], i), ~Makes(o, r) PROVE Stored(o)[x[1]][i] # x[2]
  <2> DEFINE here == {y \in Writes(o) : y[1] = x[1]}
  <2>1. (\A y \in here : y[2] # x[2]) /\ x[2] # <<"spoilt", 0>>
    <3>1. o \in StoresTo(x[1])
      BY <1>3, TouchingStore
    <3>2. PrecedesRow(o, r) /\ x[2] # <<"spoilt", 0>>
      BY <1>3, <3>1 DEF Streamed
    <3>3. QED
      BY <3>2 DEF PrecedesRow
  <2>2. CASE here # {} /\ i \in Cells(o)
    <3>1. (CHOOSE y \in here : TRUE) \in here
      BY <2>2
    <3>2. Stored(o)[x[1]][i] = (CHOOSE y \in here : TRUE)[2]
      BY <1>1, <2>2 DEF Stored
    <3> HIDE DEF here
    <3>3. QED
      BY <2>1, <3>1, <3>2
  <2>3. CASE ~(here # {} /\ i \in Cells(o))
    <3>1. \E y \in Writes(o) : Overlap(y[1], x[1])
      BY <1>3, <2>3 DEF Touches
    <3>2. Stored(o)[x[1]][i] = <<"spoilt", 0>>
      BY <1>1, <2>3, <3>1 DEF Stored
    <3>3. QED
      BY <2>1, <3>2
  <2>4. QED
    BY <2>2, <2>3
<1>4. ~Touches(o, x[1], i) => Stored(o)[x[1]][i] = memory[x[1]][i]
  BY <1>1, LeavesOthers
<1>5. QED
  BY <1>2, <1>3, <1>4

LEMMA StaticOutputs ==
  ASSUME kernel' = kernel
  PROVE  Outputs' = Outputs /\ Accesses' = Accesses /\ \A w, r : Makes(w, r)' = Makes(w, r)
BY StaticAccesses DEF Outputs, Parts, Makes

LEMMA StepStands ==
  ASSUME Ordered, Flow, Contents, Streamed, Stands, [Next]_vars
  PROVE  Stands'
<1>0. WellFormed /\ Shape
  BY DEF Ordered, Flow
<1>1. Outputs' = Outputs /\ Accesses' = Accesses /\ \A w, r : Makes(w, r)' = Makes(w, r)
  BY <1>0, Moves, StaticOutputs
<1>2. SUFFICES ASSUME NEW r \in Outputs
               PROVE  RowIs(r)' <=> \E w \in Accesses : Makes(w, r) /\ Over(w)'
  BY <1>1 DEF Stands
<1>3. RowIs(r) <=> \E w \in Accesses : Makes(w, r) /\ Over(w)
  BY DEF Stands
<1>4. CASE memory' = memory /\ \A a \in Accesses : ~Ends(a)
  <2>1. \A w \in Accesses : Over(w)' <=> Over(w)
    BY <1>0, <1>4, StepOver
  <2>2. RowIs(r)' <=> RowIs(r)
    BY <1>4 DEF RowIs
  <2>3. QED
    BY <1>3, <2>1, <2>2
<1>5. ASSUME NEW o \in Accesses, memory' = Stored(o), Ends(o), \A a \in Accesses : Ends(a) => a = o
      PROVE  RowIs(r)' <=> \E w \in Accesses : Makes(w, r) /\ Over(w)'
  <2>1. \A w \in Accesses : Over(w)' <=> Over(w) \/ w = o
    BY <1>0, <1>5, StepOver
  <2>2. RowIs(r)' <=> Stored(o)[r[1][1]][r[2]] = r[1][2]
    BY <1>5 DEF RowIs
  <2>3. CASE Makes(o, r)
    BY <2>1, <2>2, <2>3, StoresRow
  <2>4. CASE ~Touches(o, r[1][1], r[2])
    <3>1. ~Makes(o, r)
      BY <2>4, MakerTouches
    <3>2. RowIs(r)' <=> RowIs(r)
      BY <2>2, <2>4, StoresRow DEF RowIs
    <3>3. QED
      BY <1>3, <2>1, <3>1, <3>2
  <2>5. CASE Touches(o, r[1][1], r[2]) /\ ~Makes(o, r)
    <3>1. ~RowIs(r)'
      BY <2>2, <2>5, StoresRow
    <3>2. ASSUME NEW w \in Accesses, Makes(w, r), Over(w) PROVE FALSE
      <4>1. o \in StoresTo(r[1][1]) /\ w \in StoresTo(r[1][1])
        BY <2>5, <3>2, MakerTouches, TouchingStore
      <4>2. DoneBefore(o, w)
        BY <2>5, <3>2, <4>1 DEF Streamed, PrecedesRow
      <4>3. Over(o)
        BY <1>0, <3>2, <4>2, OverIsBegun, DoneIsOver
      <4>4. QED
        BY <1>0, <1>5, <4>3, StepOver
    <3>3. QED
      BY <2>1, <2>5, <3>1, <3>2
  <2>6. QED
    BY <2>3, <2>4, <2>5
<1>6. QED
  BY <1>0, <1>4, <1>5, StepStored

LEMMA StepEmits ==
  ASSUME Ordered, Flow, Contents, Streamed, Stands, Stands', [Next]_vars
  PROVE  Abstract!Emit
<1>0. WellFormed /\ Shape
  BY DEF Ordered, Flow
<1>1. Outputs' = Outputs /\ Accesses' = Accesses /\ \A w, r : Makes(w, r)' = Makes(w, r)
  BY <1>0, Moves, StaticOutputs
<1>2. \A r \in Outputs : /\ r \in OutputSoFar <=> \E w \in Accesses : Makes(w, r) /\ Over(w)
                         /\ r \in OutputSoFar' <=> \E w \in Accesses : Makes(w, r) /\ Over(w)'
  <2>1. \A r \in Outputs : (r \in OutputSoFar <=> RowIs(r)) /\ (r \in OutputSoFar' <=> RowIs(r)')
    BY <1>1 DEF OutputSoFar, RowIs
  <2>2. QED
    BY <1>1, <2>1 DEF Stands
<1>3. OutputSoFar \subseteq OutputSoFar'
  <2>1. OutputSoFar \subseteq Outputs
    BY DEF OutputSoFar
  <2>2. QED
    BY <1>0, <1>2, <2>1, StepOver
<1>4. OutputSoFar' \subseteq Outputs
  BY <1>1 DEF OutputSoFar
<1>5. ASSUME NEW r \in OutputSoFar' \ OutputSoFar, NEW s \in Outputs,
             Abstract!TileOf(s) < Abstract!TileOf(r)
      PROVE  s \in OutputSoFar
  <2>1. PICK o \in Accesses : Makes(o, r) /\ Over(o)' /\ ~Over(o)
    BY <1>2, <1>4, <1>5
  <2>2. pc[Actor(o)] >= o.op
    BY <1>0, <2>1, StepOver
  <2>3. Touches(o, r[1][1], r[2]) /\ o \in StoresTo(r[1][1])
    BY <2>1, MakerTouches, TouchingStore
  <2>4. PICK w \in StoresTo(s[1][1]) : Makes(w, s) /\ DoneBefore(w, o)
    BY <1>4, <1>5, <2>1, <2>3 DEF Streamed, FollowsRows
  <2>5. w \in Accesses
    BY DEF StoresTo
  <2>6. Over(w)
    BY <2>2, <2>4, <2>5, DoneIsOver
  <2>7. QED
    BY <1>2, <2>4, <2>5, <2>6
<1>6. QED
  BY <1>3, <1>4, <1>5 DEF Abstract!Emit

(* A kernel that stores the rows of a tile after those of the tiles before *)
(* delivers its result as TileStream says: nothing is there at first, the  *)
(* rows appear tile after tile, and they stay.                             *)
THEOREM RowsAppearInOrder ==
  Spec /\ [](Ordered /\ Streamed) => Abstract!Init /\ [][Abstract!Emit]_OutputSoFar
<1>1. Init /\ Ordered /\ Streamed => Abstract!Init /\ Stands
  <2> SUFFICES ASSUME Init, Ordered, Streamed PROVE Abstract!Init /\ Stands
    OBVIOUS
  <2>1. WellFormed /\ Contents
    BY InitContents DEF Ordered
  <2>2. \A r \in Outputs : ~RowIs(r)
    <3> TAKE r \in Outputs
    <3>1. r[1][1] \in DOMAIN memory /\ r[2] \in Parts
      BY <2>1, OutputFacts
    <3>2. memory[r[1][1]][r[2]] = <<"empty", 0>>
      BY <3>1 DEF Init
    <3>3. QED
      BY <3>2 DEF RowIs, Streamed
  <2>3. Stands
    BY <2>1, <2>2, NothingIsOver DEF Stands
  <2>4. OutputSoFar = {}
    BY <2>2 DEF OutputSoFar, RowIs
  <2>5. QED
    BY <2>3, <2>4 DEF Abstract!Init
<1>2. /\ (Ordered => Flow) /\ (WellFormed => Shape /\ Contents) /\ Ordered /\ Streamed /\ Stands
      /\ [Next]_vars
      => Stands' /\ [Abstract!Emit]_OutputSoFar
  BY StepStands, StepEmits DEF Ordered
<1>3. QED
  BY <1>1, <1>2, AlwaysFlow, AlwaysTyped, PTL DEF Spec

-----------------------------------------------------------------------------
(* Going on                                                                *)

(* Somebody is still to come to a barrier at which others wait.            *)
Short ==
  \A i \in Indices("barrier") : Script[i].who # {} =>
    \E v \in Script[i].who : ~ (pc[v] = i /\ mode[v] = "waiting")

(* A flag that was posted has the value of this post or of another one,    *)
(* but not of one that its poster made before.                             *)
Older(q, p) == q < p /\ \E v \in Actors : Script[q].who = {v} /\ Script[p].who = {v}
Latest ==
  \A p \in Indices("post") : \A v \in Script[p].who : pc[v] > p =>
    \E q \in Indices("post") :
      /\ Script[q].flag = Script[p].flag /\ Script[q].value = flags[Script[p].flag]
      /\ ~ Older(q, p)

LEMMA InitGoing == WellFormed /\ Init => Together /\ Short /\ Latest
<1> SUFFICES ASSUME WellFormed, Init PROVE Together /\ Short /\ Latest
  OBVIOUS
<1>1. \A j \in Steps : \A w \in Script[j].who : w \in Actors /\ ~ (pc[w] > j)
  <2> TAKE j \in Steps
  <2> TAKE w \in Script[j].who
  <2>1. w \in Actors /\ pc[w] = Following(w, 0)
    BY DEF WellFormed, Init
  <2>2. Following(w, 0) <= j /\ Following(w, 0) \in Nat /\ j \in Nat
    BY NextOperation DEF WellFormed, Steps, End
  <2>3. QED
    BY <2>1, <2>2
<1>2. Together /\ Latest
  BY <1>1 DEF Together, Latest, Indices, Steps
<1>3. Short
  BY <1>1 DEF Init, Short, Indices, Steps
<1>4. QED
  BY <1>2, <1>3

(* Only an arrival that does not complete the barrier makes a warp wait.   *)
LEMMA StepWaits ==
  ASSUME WellFormed, Shape, [Next]_vars, NEW v \in Actors, mode[v] # "waiting", mode'[v] = "waiting"
  PROVE  /\ mode' = [mode EXCEPT ![v] = "waiting"] /\ pc' = pc
         /\ Cardinality(Arrived(v)) < Cardinality(Op(v).who)
<1>0. mode \in [Actors -> {"ready", "busy", "waiting"}]
  BY DEF Shape, Ranges
<1>1. ASSUME NEW w \in Actors, Run(w) PROVE Arrive(w)
  <2>1. CASE mode' = mode \/ mode' = [mode EXCEPT ![w] = "busy"] \/ mode' = [mode EXCEPT ![w] = "ready"]
    BY <1>0, <2>1
  <2>2. QED
    BY <1>1, <2>1 DEF Run, BeginPass, EndPass, FenceSmem, FenceHost, Configure, Issue,
                      GemminiFence, WaitCount, Occupancy, SetFlag, AwaitFlag
<1>2. ~ Unit /\ ~ UNCHANGED vars
  BY DEF Unit, RaiseBusy, Complete, vars
<1>3. PICK w \in Actors : Arrive(w)
  BY <1>1, <1>2 DEF Next, AtRest
<1>4. CASE Cardinality(Arrived(w)) < Cardinality(Op(w).who)
  <2>1. mode' = [mode EXCEPT ![w] = "waiting"] /\ pc' = pc
    BY <1>3, <1>4 DEF Arrive, Arrived
  <2>2. w = v
    BY <1>0, <2>1
  <2>3. QED
    BY <1>4, <2>1, <2>2
<1>5. CASE ~ (Cardinality(Arrived(w)) < Cardinality(Op(w).who))
  BY <1>0, <1>3, <1>5 DEF Arrive, Arrived
<1>6. QED
  BY <1>4, <1>5

LEMMA StepShort ==
  ASSUME WellFormed, Shape, Short, [Next]_vars
  PROVE  Short'
<1>1. Script' = Script /\ \A kind : Indices(kind)' = Indices(kind)
  BY Moves, Static
<1>2. SUFFICES ASSUME NEW i \in Indices("barrier"), Script[i].who # {},
                      \A v \in Script[i].who : pc'[v] = i /\ mode'[v] = "waiting"
               PROVE  FALSE
  BY <1>1 DEF Short
<1>3. i \in Steps /\ i \in Nat /\ Script[i].who \in SUBSET Actors
  BY DEF WellFormed, Indices, Steps
<1>4. \A v \in Script[i].who : pc[v] = i
  BY <1>2, <1>3, StepModes
<1>5. PICK v \in Script[i].who : mode[v] # "waiting"
  BY <1>2, <1>4 DEF Short
<1>6. /\ mode' = [mode EXCEPT ![v] = "waiting"]
      /\ Cardinality(Arrived(v)) < Cardinality(Op(v).who)
  BY <1>2, <1>3, <1>5, StepWaits
<1>7. Script[i].who \subseteq Arrived(v)
  <2> SUFFICES ASSUME NEW u \in Script[i].who, u # v PROVE u \in InBarrier(Op(v).id)
    BY DEF Arrived
  <2>1. u \in Actors /\ mode'[u] = "waiting" /\ Op(u) = Op(v)
    BY <1>2, <1>3, <1>4 DEF Op
  <2>2. mode[u] = "waiting"
    BY <1>3, <1>6, <2>1 DEF Shape, Ranges
  <2>3. QED
    BY <2>1, <2>2 DEF InBarrier
<1>8. IsFiniteSet(Arrived(v))
  <2>1. Arrived(v) \in SUBSET Actors
    BY <1>3 DEF Arrived, InBarrier
  <2>2. QED
    BY <2>1, ActorsAreFinite, FS_Subset
<1>9. Cardinality(Script[i].who) <= Cardinality(Arrived(v)) /\ Op(v).who = Script[i].who
  BY <1>4, <1>7, <1>8, FS_Subset DEF Op
<1>10. Cardinality(Arrived(v)) \in Nat /\ Cardinality(Script[i].who) \in Nat
  BY <1>7, <1>8, FS_Subset, FS_CardinalityType
<1>11. QED
  BY <1>6, <1>9, <1>10

(* Only a SetFlag takes an actor past a post.                              *)
LEMMA PostingStep ==
  ASSUME WellFormed, Shape, [Next]_vars, NEW v \in Actors, pc[v] \in Indices("post"), Leaves(v)
  PROVE  Walks(v, "post") /\ flags' = [flags EXCEPT ![Script[pc[v]].flag] = Script[pc[v]].value]
<1>1. Op(v).kind = "post" /\ pc \in [Actors -> 1 .. End]
  BY DEF Op, Indices, Shape, Ranges
<1>2. ASSUME NEW w \in Actors, EndPass(w) PROVE FALSE
  <2>1. w # v
    BY <1>1, <1>2 DEF EndPass, Shape, AtWork, Indices, Op
  <2>2. QED
    BY <1>1, <1>2, <2>1 DEF EndPass, Advance, Leaves
<1>3. ASSUME NEW w \in Actors, NEW kind, At(w, kind), Advance(w) PROVE w = v /\ kind = "post"
  BY <1>1, <1>3 DEF At, Advance, Leaves
<1>4. ASSUME NEW w \in Actors, Arrive(w) PROVE FALSE
  <2>1. Meets(w)
    BY <1>4, Meeting DEF Leaves
  <2>2. v \in Arrived(w)
    BY <2>1 DEF Meets, Leaves
  <2>3. pc[v] \in Indices("barrier")
    BY <2>1, <2>2, Together1
  <2>4. QED
    BY <2>3 DEF Indices
<1>5. ASSUME NEW w \in Actors, Run(w) PROVE SetFlag(v)
  <2>1. ~ EndPass(w) /\ ~ Arrive(w) /\ ~ BeginPass(w)
    BY <1>2, <1>4 DEF BeginPass, Leaves
  <2>2. ~ (FenceSmem(w) \/ FenceHost(w) \/ Configure(w) \/ Issue(w) \/ GemminiFence(w))
    BY <1>3 DEF FenceSmem, FenceHost, Configure, Issue, GemminiFence
  <2>3. ~ (WaitCount(w) \/ Occupancy(w) \/ AwaitFlag(w))
    BY <1>3 DEF WaitCount, Occupancy, AwaitFlag
  <2>4. SetFlag(w)
    BY <1>5, <2>1, <2>2, <2>3 DEF Run
  <2>5. QED
    BY <1>3, <2>4 DEF SetFlag
<1>6. ~ Unit /\ ~ UNCHANGED vars
  BY DEF Unit, RaiseBusy, Complete, vars, Leaves
<1>7. SetFlag(v)
  BY <1>5, <1>6 DEF Next, AtRest
<1>8. QED
  BY <1>7, Walking DEF SetFlag, At, Op

LEMMA StepLatest ==
  ASSUME WellFormed, Shape, Latest, [Next]_vars
  PROVE  Latest'
<1>1. Script' = Script /\ \A kind : Indices(kind)' = Indices(kind)
  BY Moves, Static
<1>2. SUFFICES ASSUME NEW p \in Indices("post"), NEW v \in Script[p].who, pc'[v] > p
               PROVE  \E q \in Indices("post") :
                        /\ Script[q].flag = Script[p].flag /\ Script[q].value = flags'[Script[p].flag]
                        /\ ~ Older(q, p)
  BY <1>1 DEF Latest, Older
<1>3. p \in Steps /\ p \in Nat /\ v \in Actors
  BY DEF WellFormed, Indices, Steps
<1>4. Script[p].flag \in DOMAIN flags
  <2>1. Script[p] \in {q \in Range(Script) : q.kind \in {"post", "await"}}
    BY DEF Range, WellFormed, Indices, Steps
  <2>2. Script[p].flag \in FlagsOf(kernel)
    BY <2>1 DEF FlagsOf, Script
  <2>3. QED
    BY <2>2 DEF Shape, Ranges
<1>5. ~ Older(p, p)
  BY <1>3 DEF Older
<1>6. ASSUME NEW w \in Actors, Walks(w, "post"),
             flags' = [flags EXCEPT ![Script[pc[w]].flag] = Script[pc[w]].value],
             Script[pc[w]].flag = Script[p].flag
      PROVE  \E q \in Indices("post") :
               /\ Script[q].flag = Script[p].flag /\ Script[q].value = flags'[Script[p].flag]
               /\ ~ Older(q, p)
  <2>1. pc[w] \in Indices("post") /\ w \in Script[pc[w]].who /\ flags'[Script[p].flag] = Script[pc[w]].value
    BY <1>4, <1>6 DEF Walks
  <2>2. ~ Older(pc[w], p)
    <3> SUFFICES ASSUME Older(pc[w], p) PROVE FALSE
      OBVIOUS
    <3>1. w = v /\ pc[w] < p
      BY <1>2, <2>1 DEF Older
    <3>2. pc[v] > p \/ pc[v] = p
      BY <1>2, <1>3, Passing
    <3>3. QED
      BY <1>3, <3>1, <3>2, Passing
  <2>3. QED
    BY <1>6, <2>1, <2>2
<1>7. ASSUME flags'[Script[p].flag] = flags[Script[p].flag], pc[v] > p
      PROVE  \E q \in Indices("post") :
               /\ Script[q].flag = Script[p].flag /\ Script[q].value = flags'[Script[p].flag]
               /\ ~ Older(q, p)
  BY <1>2, <1>7 DEF Latest
<1>8. CASE pc[v] = p /\ Leaves(v)
  <2>1. Walks(v, "post") /\ flags' = [flags EXCEPT ![Script[pc[v]].flag] = Script[pc[v]].value]
    BY <1>3, <1>8, PostingStep
  <2>2. QED
    BY <1>3, <1>6, <1>8, <2>1
<1>9. CASE pc[v] > p
  BY <1>4, <1>6, <1>7, <1>9, StepFlags
<1>10. QED
  BY <1>2, <1>3, <1>8, <1>9, Passing

LEMMA Going ==
  ASSUME WellFormed, Executable, Answered, Shape, Together, Short, Latest
  PROVE  NeverStuck
<1> SUFFICES ASSUME ~ Finished, \A w \in Actors : ~ MayRun(w), \A i \in queue : ~ MayEnd(i)
             PROVE  FALSE
  BY DEF NeverStuck
<1>1. /\ Len(Script) \in Nat /\ End = Len(Script) + 1 /\ Steps = 1 .. Len(Script)
      /\ pc \in [Actors -> 1 .. End] /\ mode \in [Actors -> {"ready", "busy", "waiting"}]
  BY DEF WellFormed, End, Steps, Shape, Ranges
<1>2. queue = {} /\ busy = {}
  <2>1. queue \in SUBSET Nat /\ busy \subseteq queue
    BY <1>1 DEF Shape, Ranges, Commands, Indices
  <2>2. ASSUME queue # {} PROVE FALSE
    <3>1. Min(queue) \in queue /\ \A j \in queue : Min(queue) <= j
      BY <2>1, <2>2, MinIsLeast
    <3>2. QED
      BY <3>1 DEF MayEnd
  <2>3. QED
    BY <2>1, <2>2
<1>3. ASSUME NEW w \in Actors, pc[w] < End
      PROVE  \/ mode[w] = "waiting" /\ pc[w] \in Indices("barrier")
             \/ /\ mode[w] = "ready" /\ pc[w] \in Indices("await")
                /\ ~ (flags[Op(w).flag] >= Op(w).value)
  <2>1. pc[w] \in Steps /\ Op(w).kind \in Operations
    BY <1>1, <1>3 DEF Executable, Op
  <2>2. mode[w] = "waiting" => pc[w] \in Indices("barrier")
    BY DEF Shape, AtWork
  <2>3. Op(w).kind = "occupancy" => Cardinality(queue) <= Op(w).left
    <3>1. Cardinality(queue) = 0
      BY <1>2, FS_EmptySet
    <3>2. Op(w).kind = "occupancy" => Op(w).left \in Nat
      BY <2>1 DEF WellFormed, Op, Indices, Steps
    <3>3. QED
      BY <3>1, <3>2
  <2>4. mode[w] = "ready" => Op(w).kind = "await" /\ ~ (flags[Op(w).flag] >= Op(w).value)
    BY <1>2, <1>3, <2>1, <2>3 DEF MayRun
  <2>5. mode[w] # "busy"
    BY DEF MayRun
  <2>6. QED
    BY <1>1, <2>1, <2>2, <2>4, <2>5 DEF Op, Indices, Steps
<1>4. PICK w \in Actors : pc[w] < End /\ \A v \in Actors : pc[w] <= pc[v]
  <2> DEFINE T == {pc[v] : v \in Actors}
  <2>1. PICK u \in Actors : pc[u] # End
    BY <1>2 DEF Finished
  <2>2. T \in SUBSET Nat /\ T # {}
    BY <1>1
  <2>3. Min(T) \in T /\ \A y \in T : Min(T) <= y
    <3> HIDE DEF T
    <3>1. QED
      BY <2>2, MinIsLeast
  <2>4. PICK w \in Actors : pc[w] = Min(T)
    BY <2>3
  <2>5. \A v \in Actors : pc[w] <= pc[v]
    BY <2>3, <2>4
  <2>6. pc[w] < End
    BY <1>1, <2>1, <2>5
  <2>7. QED
    BY <2>5, <2>6
<1>5. w \in Script[pc[w]].who
  BY <1>4 DEF Shape, AtWork
<1>6. CASE pc[w] \in Indices("await") /\ ~ (flags[Op(w).flag] >= Op(w).value)
  <2>1. PICK p \in Indices("post") : Answers(p, pc[w])
    BY <1>6 DEF Answered
  <2>2. PICK v \in Script[p].who : v \in Actors
    BY <2>1 DEF Answers, WellFormed, Indices, Steps
  <2>3. pc[v] > p
    BY <1>1, <1>4, <2>1, <2>2 DEF Answers, Indices
  <2>4. PICK q \in Indices("post") :
          Script[q].flag = Script[p].flag /\ Script[q].value = flags[Script[p].flag] /\ ~ Older(q, p)
    BY <2>2, <2>3 DEF Latest
  <2>5. Script[q].value \in Nat /\ Op(w).value \in Nat
    BY <1>6 DEF WellFormed, Op
  <2>6. Script[p].flag = Op(w).flag /\ Script[q].value < Op(w).value
    BY <1>6, <2>1, <2>4, <2>5 DEF Answers, Op
  <2>7. QED
    BY <2>1, <2>4, <2>6 DEF Answers, Older, Op
<1>7. CASE mode[w] = "waiting" /\ pc[w] \in Indices("barrier")
  <2>1. PICK v \in Script[pc[w]].who : ~ (pc[v] = pc[w] /\ mode[v] = "waiting")
    BY <1>5, <1>7 DEF Short
  <2>2. v \in Actors /\ ~ (pc[v] > pc[w])
    BY <1>1, <1>5, <1>7, <2>1 DEF Together, WellFormed, Indices
  <2>3. pc[v] = pc[w] /\ mode[v] # "waiting"
    BY <1>1, <1>4, <2>1, <2>2
  <2>4. pc[w] \in Indices("await")
    BY <1>3, <1>4, <2>2, <2>3
  <2>5. QED
    BY <1>7, <2>4 DEF Indices
<1>8. QED
  BY <1>3, <1>4, <1>6, <1>7

(* In a script whose operations are all known, and where a post comes      *)
(* before every await it lets through, the threadblock and the matrix unit *)
(* are never all waiting for each other: there is an actor that may go on, *)
(* or a command that may end, until the kernel is finished.                *)
THEOREM NobodyIsStuck == Spec => [](WellFormed /\ Executable /\ Answered => NeverStuck)
<1>1. Init => (WellFormed => Together /\ Short /\ Latest)
  BY InitGoing
<1>2. /\ WellFormed => Shape
      /\ WellFormed => Together /\ Short /\ Latest
      /\ [Next]_vars
      => (WellFormed => Together /\ Short /\ Latest)'
  BY KernelStays, Static, StepTogether, StepShort, StepLatest
<1>3. /\ WellFormed => Shape
      /\ WellFormed => Together /\ Short /\ Latest
      => (WellFormed /\ Executable /\ Answered => NeverStuck)
  BY Going
<1>4. QED
  BY <1>1, <1>2, <1>3, AlwaysShape, PTL DEF Spec
-----------------------------------------------------------------------------
(* Every step counts                                                       *)

LEMMA WalkersGoOn ==
  ASSUME WellFormed, Shape, NEW w \in Actors, NEW kind, Walks(w, kind),
         mode' = mode \/ mode' = [mode EXCEPT ![w] = "ready"]
  PROVE  AnActorGoesOn
<1>1. pc[w] \in Nat /\ pc[w] < End
  BY DEF Walks, Indices, WellFormed, End
<1>2. Following(w, pc[w]) > pc[w]
  BY <1>1, NextOperation DEF WellFormed, End
<1>3. pc'[w] > pc[w] /\ \A v \in Actors \ {w} : pc'[v] = pc[v] /\ mode'[v] = mode[v]
  BY <1>2 DEF Walks, Shape, Ranges
<1>4. QED
  BY <1>1, <1>3 DEF AnActorGoesOn, GoesOn

LEMMA BarriersGoOn ==
  ASSUME WellFormed, Shape, NEW w \in Actors, Arrive(w)
  PROVE  AnActorGoesOn
<1>1. CASE pc' = pc /\ mode' = [mode EXCEPT ![w] = "waiting"]
  BY <1>1 DEF AnActorGoesOn, GoesOn, Arrive, At, Shape, Ranges
<1>2. CASE Meets(w)
  <2>1. /\ \A v \in Arrived(w) : pc'[v] = Following(v, pc[v])
        /\ \A v \in Actors \ Arrived(w) : pc'[v] = pc[v] /\ mode'[v] = mode[v]
        /\ w \in Arrived(w) /\ Arrived(w) \subseteq Actors
    BY <1>2 DEF Meets, Arrived
  <2>2. \A v \in Arrived(w) : pc[v] \in Nat /\ pc[v] < End
    BY <1>2, Together1 DEF Indices, WellFormed, End
  <2>3. \A v \in Arrived(w) : pc[v] < Following(v, pc[v])
    BY <2>2, NextOperation DEF WellFormed, End
  <2>4. QED
    BY <2>1, <2>3 DEF AnActorGoesOn, GoesOn
<1>3. QED
  BY <1>1, <1>2, Meeting

LEMMA ActorsGoOn ==
  ASSUME WellFormed, Shape, NEW w \in Actors, Run(w)
  PROVE  AnActorGoesOn
<1>1. CASE BeginPass(w)
  BY <1>1 DEF BeginPass, At, AnActorGoesOn, GoesOn, Shape, Ranges
<1>2. CASE EndPass(w)
  <2>1. pc[w] \in Indices("simt")
    BY <1>2 DEF EndPass, Shape, AtWork
  <2>2. pc[w] < End /\ Op(w).kind = "simt"
    BY <2>1 DEF WellFormed, Indices, End, Op
  <2>3. Walks(w, "simt") /\ mode' = [mode EXCEPT ![w] = "ready"]
    BY <1>2, <2>2, Walking DEF EndPass
  <2>4. QED
    BY <2>3, WalkersGoOn
<1>3. ASSUME NEW kind, pc[w] < End, Op(w).kind = kind, Advance(w), mode' = mode
      PROVE  AnActorGoesOn
  BY <1>3, Walking, WalkersGoOn
<1>4. CASE FenceSmem(w) \/ FenceHost(w) \/ Configure(w) \/ Issue(w)
  BY <1>3, <1>4 DEF FenceSmem, FenceHost, Configure, Issue, At
<1>5. CASE GemminiFence(w) \/ WaitCount(w) \/ Occupancy(w)
  BY <1>3, <1>5 DEF GemminiFence, WaitCount, Occupancy, At
<1>6. CASE SetFlag(w) \/ AwaitFlag(w)
  BY <1>3, <1>6 DEF SetFlag, AwaitFlag, At
<1>7. CASE Arrive(w)
  BY <1>7, BarriersGoOn
<1>8. QED
  BY <1>1, <1>2, <1>4, <1>5, <1>6, <1>7 DEF Run

LEMMA UnitGoesOn ==
  ASSUME Unit
  PROVE  TheUnitGoesOn
<1>1. PICK i \in queue : RaiseBusy(i) \/ Complete(i)
  BY DEF Unit
<1>2. CASE RaiseBusy(i)
  BY <1>2 DEF RaiseBusy, TheUnitGoesOn
<1>3. CASE Complete(i)
  BY <1>1, <1>3 DEF Complete, TheUnitGoesOn
<1>4. QED
  BY <1>1, <1>2, <1>3

(* Every well-formed script, on any number of warps, makes a bounded       *)
(* number of steps: with NobodyIsStuck, a kernel that keeps the conditions *)
(* of TileOrder gets to its end.                                           *)
THEOREM KernelIsBounded == Spec /\ []WellFormed => EveryStepCounts
<1>1. WellFormed /\ (WellFormed => Shape) /\ [Next]_vars => [AnActorGoesOn \/ TheUnitGoesOn]_vars
  BY ActorsGoOn, UnitGoesOn DEF Next, AtRest
<1>2. QED
  BY <1>1, AlwaysShape, PTL DEF Spec, EveryStepCounts
=============================================================================
