----------------------------- MODULE TilePhases -----------------------------
(***************************************************************************)
(* The threadblock of one cluster while it runs a kernel that keeps its    *)
(* tiles in the scratchpad: the warps, each at its own operation of the    *)
(* script, the DMA and the mesh, which execute what thread 0 gave them     *)
(* when they get to it, the contents of the scratchpad, and the stores     *)
(* that no fence has made visible yet.                                     *)
(*                                                                         *)
(* A place of the scratchpad is cut into Parts, so that two ways to divide *)
(* a tile between warps differ.  A cell of `memory' holds the tag of its   *)
(* contents.  A store to a place spoils every place whose bytes overlap.   *)
(***************************************************************************)
EXTENDS TileOps

CONSTANTS Kernels, \* the names of the kernels
          Program  \* [Kernels -> [script, layout, lateBusy, inOrder, alone, banked, output]]

Parts == 0 .. NumWarps * NumWarps - 1

VARIABLES
  kernel,   \* the kernel that was launched
  pc,       \* the operation each warp is at, an index of the script
  mode,     \* of each warp: at its operation, in it, or in a barrier
  unfenced, \* the passes of each warp whose stores may not be visible yet
  queue,    \* the commands the matrix unit has not completed
  busy,     \* those of them that BUSY shows
  memory,   \* place -> part -> tag
  flags     \* flag -> value

vars == <<kernel, pc, mode, unfenced, queue, busy, memory, flags>>

Script == Program[kernel].script
Layout == Program[kernel].layout
End == Len(Script) + 1
Op(w) == Script[pc[w]]
Indices(kind) == {i \in 1 .. Len(Script) : Script[i].kind = kind}

(* The operation after i that is for warp w.                               *)
Following(w, i) == Min({j \in i + 1 .. Len(Script) : w \in Script[j].who} \cup {End})

-----------------------------------------------------------------------------
(* What an operation touches                                               *)

Rank(who, w) == Cardinality({v \in who : v < w})

Owner(split, i, n) ==
  CASE split = "row" -> i % n
    [] split = "thread" -> (i \div NumWarps) % n
    [] split = "item" -> (i \div NumWarps + i) % n
    [] split = "lead" -> i

Share(op, w) ==
  CASE op.kind = "command" \/ op.split = "whole" -> Parts
    [] op.split = "leads" -> Warps
    [] op.split = "first" -> {0}
    [] OTHER -> LET n == Cardinality(op.who)
                    rank == Rank(op.who, w)
                IN {i \in Parts : Owner(op.split, i, n) = rank}

Overlap(p, q) ==
  /\ p # q
  /\ {p, q} \subseteq DOMAIN Layout
  /\ Layout[p][1] < Layout[q][2] /\ Layout[q][1] < Layout[p][2]

(* An access is an operation and the warp that makes it.  Two of them are  *)
(* in conflict when one writes where the other reads or writes.            *)
Writes(a) == Script[a.op].writes
Reads(a) == Script[a.op].reads
Cells(a) == Share(Script[a.op], a.by)
Conflict(a, b) ==
  \E x \in Writes(a), y \in Writes(b) \cup Reads(b) :
    \/ x[1] = y[1] /\ Cells(a) \cap Cells(b) # {}
    \/ Overlap(x[1], y[1])

InPass == {[op |-> pc[w], by |-> w] : w \in {v \in Actors : mode[v] = "busy"}}
InQueue == {[op |-> i, by |-> 0] : i \in queue}
Unfenced(w) == {[op |-> i, by |-> w] : i \in unfenced[w]}

Stored(a) ==
  [p \in DOMAIN memory |->
     LET here == {x \in Writes(a) : x[1] = p}
         spoilt == \E x \in Writes(a) : Overlap(x[1], p)
     IN [i \in Parts |->
           IF here # {} /\ i \in Cells(a) THEN (CHOOSE x \in here : TRUE)[2]
           ELSE IF spoilt THEN <<"spoilt", 0>> ELSE memory[p][i]]]

-----------------------------------------------------------------------------
PlacesOf(k) ==
  {x[1] : x \in Program[k].output} \cup UNION {{x[1] : x \in op.reads \cup op.writes} :
           op \in {o \in Range(Program[k].script) : o.kind \in {"simt", "command"}}}
TagsOf(k) ==
  {<<"empty", 0>>, <<"spoilt", 0>>} \cup
    UNION {{x[2] : x \in op.writes} :
             op \in {o \in Range(Program[k].script) : o.kind \in {"simt", "command"}}}
FlagsOf(k) ==
  {o.flag : o \in {p \in Range(Program[k].script) : p.kind \in {"post", "await"}}}

Init ==
  /\ kernel \in Kernels
  /\ pc = [w \in Actors |-> Following(w, 0)]
  /\ mode = [w \in Actors |-> "ready"]
  /\ unfenced = [w \in Actors |-> {}]
  /\ queue = {} /\ busy = {}
  /\ memory = [p \in PlacesOf(kernel) |-> [i \in Parts |-> <<"empty", 0>>]]
  /\ flags = [f \in FlagsOf(kernel) |-> 0]

At(w, kind) == mode[w] = "ready" /\ pc[w] < End /\ Op(w).kind = kind
Advance(w) == pc' = [pc EXCEPT ![w] = Following(w, pc[w])]

BeginPass(w) ==
  /\ At(w, "simt")
  /\ mode' = [mode EXCEPT ![w] = "busy"]
  /\ UNCHANGED <<kernel, pc, unfenced, queue, busy, memory, flags>>

EndPass(w) ==
  /\ mode[w] = "busy"
  /\ memory' = Stored([op |-> pc[w], by |-> w])
  /\ unfenced' = [unfenced EXCEPT ![w] = @ \cup {pc[w]}]
  /\ mode' = [mode EXCEPT ![w] = "ready"]
  /\ Advance(w)
  /\ UNCHANGED <<kernel, queue, busy, flags>>

(* mu_fence_smem waits for the stores of the warp to the shared memory, a  *)
(* load from the port of the matrix unit for those to the scale memory.    *)
AtPort(i) == \E x \in Script[i].writes : x[1] \in ScaleSram

FenceSmem(w) ==
  /\ At(w, "fence")
  /\ unfenced' = [unfenced EXCEPT ![w] = {i \in @ : AtPort(i)}]
  /\ Advance(w)
  /\ UNCHANGED <<kernel, mode, queue, busy, memory, flags>>

Configure(w) ==
  /\ At(w, "config")
  /\ Advance(w)
  /\ UNCHANGED <<kernel, mode, unfenced, queue, busy, memory, flags>>

(* The store of the command.  A loop sets BUSY only when it has reached    *)
(* the reservation station, a move-in of single commands at once.          *)
Issue(w) ==
  /\ At(w, "command")
  /\ queue' = queue \cup {pc[w]}
  /\ busy' = IF Program[kernel].lateBusy /\ Op(w).unit # "dma" THEN busy
             ELSE busy \cup {pc[w]}
  /\ Advance(w)
  /\ UNCHANGED <<kernel, mode, unfenced, memory, flags>>

FenceHost(w) ==
  /\ At(w, "hostfence")
  /\ unfenced' = [unfenced EXCEPT ![w] = {}]
  /\ Advance(w)
  /\ UNCHANGED <<kernel, mode, queue, busy, memory, flags>>

PortOrdered(w) == unfenced' = [unfenced EXCEPT ![w] = {i \in @ : ~AtPort(i)}]

GemminiFence(w) ==
  /\ At(w, "drain")
  /\ busy = {}
  /\ PortOrdered(w)
  /\ Advance(w)
  /\ UNCHANGED <<kernel, mode, queue, busy, memory, flags>>

WaitCount(w) ==
  /\ At(w, "drainloops")
  /\ \A i \in queue : Script[i].unit = "dma"
  /\ PortOrdered(w)
  /\ Advance(w)
  /\ UNCHANGED <<kernel, mode, queue, busy, memory, flags>>

Occupancy(w) ==
  /\ At(w, "occupancy")
  /\ Cardinality(queue) <= Op(w).left
  /\ Advance(w)
  /\ UNCHANGED <<kernel, mode, unfenced, queue, busy, memory, flags>>

(* vx_bar: the warps that have arrived at this identifier go on together   *)
(* when they are as many as the count.                                     *)
InBarrier(id) == {v \in Actors : mode[v] = "waiting" /\ Op(v).id = id}

Arrive(w) ==
  /\ At(w, "barrier")
  /\ LET arrived == InBarrier(Op(w).id) \cup {w}
     IN IF Cardinality(arrived) < Cardinality(Op(w).who)
        THEN mode' = [mode EXCEPT ![w] = "waiting"] /\ UNCHANGED pc
        ELSE /\ mode' = [v \in Actors |-> IF v \in arrived THEN "ready" ELSE mode[v]]
             /\ pc' = [v \in Actors |-> IF v \in arrived THEN Following(v, pc[v]) ELSE pc[v]]
  /\ UNCHANGED <<kernel, unfenced, queue, busy, memory, flags>>

SetFlag(w) ==
  /\ At(w, "post")
  /\ flags' = [flags EXCEPT ![Op(w).flag] = Op(w).value]
  /\ Advance(w)
  /\ UNCHANGED <<kernel, mode, unfenced, queue, busy, memory>>

AwaitFlag(w) ==
  /\ At(w, "await")
  /\ flags[Op(w).flag] >= Op(w).value
  /\ Advance(w)
  /\ UNCHANGED <<kernel, mode, unfenced, queue, busy, memory, flags>>

RaiseBusy(i) ==
  /\ i \in queue \ busy
  /\ busy' = busy \cup {i}
  /\ UNCHANGED <<kernel, pc, mode, unfenced, queue, memory, flags>>

(* The loops of Virgo end in order; of the others nothing is assumed.      *)
Complete(i) ==
  /\ i \in busy
  /\ Program[kernel].inOrder => \A j \in queue : i <= j
  /\ queue' = queue \ {i} /\ busy' = busy \ {i}
  /\ memory' = Stored([op |-> i, by |-> 0])
  /\ UNCHANGED <<kernel, pc, mode, unfenced, flags>>

Finished == queue = {} /\ \A w \in Actors : pc[w] = End
AtRest == Finished /\ UNCHANGED vars

Run(w) ==
  \/ BeginPass(w) \/ EndPass(w) \/ FenceSmem(w) \/ FenceHost(w)
  \/ Configure(w) \/ Issue(w) \/ GemminiFence(w) \/ WaitCount(w) \/ Occupancy(w)
  \/ Arrive(w) \/ SetFlag(w) \/ AwaitFlag(w)
Unit == \E i \in queue : RaiseBusy(i) \/ Complete(i)

Next == (\E w \in Actors : Run(w)) \/ Unit \/ AtRest

Spec == Init /\ [][Next]_vars
(* The warp schedulers and the matrix unit do not stop while one of them   *)
(* can go on; a script has no cycle, so nothing stronger is needed.        *)
FairSpec == Spec /\ WF_vars((\E w \in Actors : Run(w)) \/ Unit)

-----------------------------------------------------------------------------
(* Properties                                                              *)

TypeOK ==
  /\ kernel \in Kernels
  /\ pc \in [Actors -> 1 .. End]
  /\ mode \in [Actors -> {"ready", "busy", "waiting"}]
  /\ unfenced \in [Actors -> SUBSET Indices("simt")]
  /\ queue \subseteq Indices("command") /\ busy \subseteq queue
  /\ memory \in [PlacesOf(kernel) -> [Parts -> TagsOf(kernel)]]
  /\ DOMAIN flags = FlagsOf(kernel)

(* No thread and no engine touches a place of the scratchpad while another *)
(* one may be storing to it: a pass that runs, a store no fence has made   *)
(* visible, a DMA or a loop of the mesh that was started and is not known  *)
(* to have ended.                                                          *)
NoDataRace ==
  /\ \A v, w \in Actors :
       v # w /\ mode[v] = "busy" =>
         LET a == [op |-> pc[v], by |-> v]
         IN /\ \A b \in Unfenced(w) : ~Conflict(b, a)
            /\ mode[w] = "busy" => ~Conflict(a, [op |-> pc[w], by |-> w])
  /\ \A c \in InQueue :
       /\ \A a \in InPass : ~Conflict(a, c) /\ ~Conflict(c, a)
       /\ \A w \in Actors : \A b \in Unfenced(w) : ~Conflict(b, c)
       /\ \A d \in InQueue : c # d => ~Conflict(c, d)

(* What a pass, the DMA or the mesh reads is the tile that the kernel      *)
(* means, from the moment it starts until it ends.                         *)
ReadsItsTile ==
  \A a \in InPass \cup InQueue : \A x \in Reads(a) : \A i \in Cells(a) :
    memory[x[1]][i] = x[2]

(* The bounds of the sweep over the scale memory do not change while a     *)
(* loop sweeps it, and it can only be set right again by a whole sweep:    *)
(* in a kernel that sets them thread 0 does so, or starts a loop, only when *)
(* no loop is left.                                                        *)
OneSweep ==
  /\ Indices("config") # {}
  /\ At(0, "config") \/ (At(0, "command") /\ Op(0).unit = "mesh")
  => \A i \in queue : Script[i].unit # "mesh"

(* In a build with nothing overlapped no pass of any warp runs while the   *)
(* matrix unit has work, from the first tile on.                           *)
StagesAlone == pc[0] \in Program[kernel].alone /\ queue # {} => InPass = {}

(* The two rules for the banks of the scratchpad.  The mesh reads no       *)
(* operand out of a bank that a pass reads, tiles or the partial results   *)
(* that it stored for a reduction: its requests would overflow a queue of  *)
(* four.  And the accumulator goes to the scratchpad, by a writer that     *)
(* needs a grant from all the banks at once, only while no pass touches    *)
(* the scratchpad.                                                         *)
Banks(place) ==
  IF place \in DOMAIN Layout THEN Layout[place][1] \div 32768 .. (Layout[place][2] - 1) \div 32768
  ELSE {}
ReadBack(a) == {x \in Writes(a) : x[2][1] = "partials"}
BanksRead(a) ==
  UNION {Banks(p) : p \in {x[1] : x \in Reads(a) \cup ReadBack(a)} \cap Program[kernel].banked}
InScratchpad(accesses) == {x[1] : x \in accesses} \cap DOMAIN Layout
KeepToBanks(a, c) ==
  /\ Script[c.op].unit = "mesh" => BanksRead(a) \cap BanksRead(c) = {}
  /\ Script[c.op].unit # "dma" /\ InScratchpad(Writes(c)) # {} =>
       InScratchpad(Reads(a) \cup Writes(a)) = {}
BanksApart == \A a \in InPass, c \in InQueue : KeepToBanks(a, c)

(* A warp that reads the maximum of a row finds it: the denominators of    *)
(* the row do not take its place before.  The comment on softmax gives the *)
(* maximum and the denominator a buffer each.                              *)
MaxIsKept ==
  \A a \in InPass : \A x \in Reads(a) : x[2][1] = "max" =>
    \A i \in Cells(a) : memory[x[1]][i] = x[2]

(* The kernel as its caller sees it: the rows of tile after tile appear in *)
(* the global memory, are right when they appear, and stay.                *)
Outputs == Program[kernel].output \X Parts
OutputSoFar == {c \in Outputs : memory[c[1][1]][c[2]] = c[1][2]}
Abstract == INSTANCE TileStream WITH rows <- Outputs, done <- OutputSoFar
StreamsTiles == Abstract!Spec
=============================================================================
