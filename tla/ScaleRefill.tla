----------------------------- MODULE ScaleRefill -----------------------------
(***************************************************************************)
(* The per-tile refill of the MX scale SRAM by the host while the GPU runs *)
(* flash attention (build FA_STEADY FA_NOSCALES FA_HOSTHS):                *)
(*   host  src/kernels/fa_mx_hostsf/host.cpp (main);                       *)
(*   GPU   flash_attention_mx.cpp (the tile loop) and mxgemm_core.hpp      *)
(*         (mxgemm_prefetch_tile, mxgemm_compute_tile), same directory.    *)
(*                                                                         *)
(* Every cluster runs the same tiles on its own tensor core.  A tile is    *)
(*   QK prefetch, QK matmul, softmax, PV prefetch, requant, pack, PV.      *)
(* The scale SRAM has two halves for each operand and all four are live in *)
(* every tile; host and GPU hand them over through sequence numbers in a   *)
(* mailbox.  Besides, no write of the host may meet a write of the GPU at  *)
(* the port of the tensor core, which pairs 4-byte beats.                  *)
(*                                                                         *)
(* Thread 0 of a cluster stands for the cluster: the others only take part *)
(* in softmax, requant and finalize.                                       *)
(***************************************************************************)
EXTENDS Integers, Sequences

CONSTANTS
  NumClusters, \* NUM_CLUSTERS
  NumTiles,    \* FA_NTILES, of the GPU build
  HostTiles,   \* HOST_NTILES, of the host build
  Builds       \* the builds of host and GPU, and the circumstances, see below

ASSUME ClustersAssumption == NumClusters \in Nat \ {0}
ASSUME TilesAssumption == NumTiles \in Nat \ {0} /\ HostTiles \in Nat \ {0}
ASSUME BuildAssumption ==
  Builds \subseteq
    [hostCfg : BOOLEAN,     \* FA_HOSTCFG: from tile 1 on the host replays config and move-in
     hostPack : BOOLEAN,    \* FA_HOSTPACK with FA_NOPACK: the host packs the scales of P
     waitsExpire : BOOLEAN, \* a bounded wait may run out before its condition holds
     junk : Nat]            \* what the words of SMEM hold at reset

Clusters == 0 .. NumClusters - 1
HostSlots == {"qkReady", "vReady", "packed"}
GpuSlots == {"qkDone", "pvDone", "cfgRec", "packReq"}
Slots == HostSlots \cup GpuSlots

(* act1: Q, act0: P, w0: K, w1: V.                                         *)
Halves == {"act0", "act1", "w0", "w1"}
Tile == 0 .. NumTiles + HostTiles
NoTile == NumTiles + HostTiles

VARIABLES
  build,  \* the build that runs
  mbox,   \* mailbox of each cluster
  sf,     \* the tile whose scales each half of the scale SRAM holds
  spad,   \* operands in the scratchpad: <<name, tile>>
  gpc,    \* where each cluster is in its tile
  tile,   \* g_fa_tile
  scales, \* SCALE_SMEM: the tile whose P scales requant left there
  hpc,    \* where the host is, once it has made the writes of burst
  ht,     \* t of the host's loop
  burst,  \* writes the host is making: <<what, cluster, value>>
  expired \* history: some bounded wait ran out

gpu == <<gpc, tile, scales>>
hostState == <<hpc, ht, burst>>
vars == <<build, mbox, sf, spad, gpc, tile, scales, hpc, ht, burst, expired>>

GpuStates == {"qkIssue", "qkWait", "qkRun", "softmax", "pvIssue", "pvWait", "requant",
              "pack", "packReq", "packWait", "pvRun", "finalize", "end"}
HostStates == {"boot", "prefillV", "capture", "pack", "next", "pvDone", "qkDone", "end"}

Writes == (Halves \cup HostSlots \cup {"cfgQK", "cfgPV"}) \X Clusters \X Tile

HostCfg == build.hostCfg
HostPack == build.hostPack
WaitsExpire == build.waitsExpire

TypeOK ==
  /\ build \in Builds
  /\ mbox \in [Clusters -> [Slots -> Nat]]
  /\ sf \in [Clusters -> [Halves -> Tile]]
  /\ spad \in [Clusters -> [{"a", "b"} -> {"Q", "K", "P", "V"} \X Tile]]
  /\ gpc \in [Clusters -> GpuStates]
  /\ tile \in [Clusters -> 0 .. NumTiles]
  /\ scales \in [Clusters -> Tile]
  /\ hpc \in HostStates
  /\ ht \in 0 .. HostTiles
  /\ burst \in Seq(Writes)
  /\ expired \in BOOLEAN

Init ==
  /\ build \in Builds
  /\ mbox = [c \in Clusters |-> [s \in Slots |-> build.junk]]
  /\ sf = [c \in Clusters |-> [h \in Halves |-> NoTile]]
  /\ spad = [c \in Clusters |-> [o \in {"a", "b"} |-> <<"Q", NoTile>>]]
  /\ gpc = [c \in Clusters |-> "qkIssue"]
  /\ tile = [c \in Clusters |-> 0]
  /\ scales = [c \in Clusters |-> NoTile]
  /\ hpc = "boot"
  /\ ht = 0
  /\ burst = <<>>
  /\ expired = FALSE

(* A bounded wait ends when its condition holds, or runs out.              *)
AwaitOrExpire(condition) ==
  \/ condition /\ UNCHANGED expired
  \/ WaitsExpire /\ ~condition /\ expired' = TRUE

-----------------------------------------------------------------------------
(* The GPU                                                                 *)

Goto(c, state) == gpc' = [gpc EXCEPT ![c] = state]

Post(c, slot, value) == mbox' = [mbox EXCEPT ![c][slot] = value]

(* Does the prefetch of cluster c issue config and move-in itself?         *)
Issues(c) == ~HostCfg \/ tile[c] = 0

(* mxgemm_prefetch_tile, before the wait.  In tile 0 the commands are      *)
(* recorded for the host.  The GPU was measured to get here long after the *)
(* host has cleared the mailbox.                                           *)
QkIssue(c) ==
  /\ gpc[c] = "qkIssue"
  /\ hpc # "boot"
  /\ spad' = IF Issues(c)
             THEN [spad EXCEPT ![c] = [a |-> <<"Q", tile[c]>>, b |-> <<"K", tile[c]>>]]
             ELSE spad
  /\ IF HostCfg /\ tile[c] = 0 THEN Post(c, "cfgRec", 1) ELSE UNCHANGED mbox
  /\ Goto(c, "qkWait")
  /\ UNCHANGED <<sf, tile, scales, hostState, expired>>

PvIssue(c) ==
  /\ gpc[c] = "pvIssue"
  /\ spad' = IF Issues(c) THEN [spad EXCEPT ![c].b = <<"V", tile[c]>>] ELSE spad
  /\ IF HostCfg /\ tile[c] = 0 THEN Post(c, "cfgRec", 2) ELSE UNCHANGED mbox
  /\ Goto(c, "pvWait")
  /\ UNCHANGED <<sf, tile, scales, hostState, expired>>

(* Mutant: the prefetch waits for the number of the tile before.           *)
AwaitHostStale(c, from, slot, to) ==
  /\ gpc[c] = from
  /\ AwaitOrExpire(mbox[c][slot] >= tile[c])
  /\ Goto(c, to)
  /\ UNCHANGED <<mbox, sf, spad, tile, scales, hostState>>

(* The bounded spin on a flag of the host.                                 *)
AwaitHost(c, from, slot, to) ==
  /\ gpc[c] = from
  /\ AwaitOrExpire(mbox[c][slot] >= tile[c] + 1)
  /\ Goto(c, to)
  /\ UNCHANGED <<mbox, sf, spad, tile, scales, hostState>>

QkWait(c) == AwaitHost(c, "qkWait", "qkReady", "qkRun")
PvWait(c) == AwaitHost(c, "pvWait", "vReady", "requant")
PackWait(c) == AwaitHost(c, "packWait", "packed", "pvRun")

(* mxgemm_compute_tile beyond its trailing fence.                          *)
QkDone(c) ==
  /\ gpc[c] = "qkRun"
  /\ Post(c, "qkDone", tile[c] + 1)
  /\ Goto(c, "softmax")
  /\ UNCHANGED <<sf, spad, tile, scales, hostState, expired>>

(* Mutant: the tile is counted before its number is published.             *)
PvDoneLate(c) ==
  /\ gpc[c] = "pvRun"
  /\ Post(c, "pvDone", tile[c])
  /\ tile' = [tile EXCEPT ![c] = @ + 1]
  /\ Goto(c, "finalize")
  /\ UNCHANGED <<sf, spad, scales, hostState, expired>>

PvDone(c) ==
  /\ gpc[c] = "pvRun"
  /\ Post(c, "pvDone", tile[c] + 1)
  /\ tile' = [tile EXCEPT ![c] = @ + 1]
  /\ Goto(c, "finalize")
  /\ UNCHANGED <<sf, spad, scales, hostState, expired>>

Softmax(c) ==
  /\ gpc[c] = "softmax"
  /\ Goto(c, "pvIssue")
  /\ UNCHANGED <<mbox, sf, spad, tile, scales, hostState, expired>>

(* requant_P_to_spad_tiled: P over Q in the scratchpad, its scales in SMEM.*)
Requant(c) ==
  /\ gpc[c] = "requant"
  /\ spad' = [spad EXCEPT ![c].a = <<"P", tile[c]>>]
  /\ scales' = [scales EXCEPT ![c] = tile[c]]
  /\ Goto(c, IF HostPack THEN "packReq" ELSE "pack")
  /\ UNCHANGED <<mbox, sf, tile, hostState, expired>>

(* pack_scales_to_sfmem                                                    *)
Pack(c) ==
  /\ gpc[c] = "pack"
  /\ sf' = [sf EXCEPT ![c].act0 = scales[c]]
  /\ Goto(c, "pvRun")
  /\ UNCHANGED <<mbox, spad, tile, scales, hostState, expired>>

(* ... or the request to the host at the top of mxgemm_compute_tile.       *)
PackReq(c) ==
  /\ gpc[c] = "packReq"
  /\ Post(c, "packReq", tile[c] + 1)
  /\ Goto(c, "packWait")
  /\ UNCHANGED <<sf, spad, tile, scales, hostState, expired>>

(* Mutant: the tile loop runs once more.                                   *)
FinalizeOnceMore(c) ==
  /\ gpc[c] = "finalize"
  /\ Goto(c, IF tile[c] <= NumTiles THEN "qkIssue" ELSE "end")
  /\ UNCHANGED <<mbox, sf, spad, tile, scales, hostState, expired>>

(* Barrier 4, finalize_O and the head of the tile loop.                    *)
Finalize(c) ==
  /\ gpc[c] = "finalize"
  /\ Goto(c, IF tile[c] < NumTiles THEN "qkIssue" ELSE "end")
  /\ UNCHANGED <<mbox, sf, spad, tile, scales, hostState, expired>>

Gpu(c) ==
  /\ UNCHANGED build
  /\ \/ QkIssue(c) \/ QkWait(c) \/ QkDone(c) \/ Softmax(c) \/ PvIssue(c) \/ PvWait(c)
     \/ Requant(c) \/ Pack(c) \/ PackReq(c) \/ PackWait(c) \/ PvDone(c) \/ Finalize(c)

-----------------------------------------------------------------------------
(* The host                                                                *)

(* One kind of write, to one cluster after the other.                      *)
Each(what, value) == [i \in 1 .. NumClusters |-> <<what, i - 1, value>>]

Replay(what) == IF HostCfg THEN Each(what, ht) ELSE <<>>

QkScales == Each("act1", ht) \o Each("w0", ht)
VScales == Each("w1", ht)

(* The next write of the burst.                                            *)
Push ==
  /\ burst # <<>>
  /\ burst' = Tail(burst)
  /\ LET what == Head(burst)[1]
         c == Head(burst)[2]
         value == Head(burst)[3]
     IN \/ /\ what \in Halves
           /\ sf' = [sf EXCEPT ![c][what] = value]
           /\ UNCHANGED <<mbox, spad>>
        \/ /\ what \in HostSlots
           /\ Post(c, what, value)
           /\ UNCHANGED <<sf, spad>>
        \/ /\ what = "cfgQK"
           /\ spad' = [spad EXCEPT ![c] = [a |-> <<"Q", value>>, b |-> <<"K", value>>]]
           /\ UNCHANGED <<mbox, sf>>
        \/ /\ what = "cfgPV"
           /\ spad' = [spad EXCEPT ![c].b = <<"V", value>>]
           /\ UNCHANGED <<mbox, sf>>
  /\ UNCHANGED <<gpu, hpc, ht, expired>>

Serve == IF HostPack THEN "pack" ELSE "next"

(* The head of main(): the words it clears, and the scales of tile 0.      *)
Cleared == {"qkReady", "vReady", "qkDone", "pvDone"} \cup (IF HostCfg THEN {"cfgRec"} ELSE {})

Clear ==
  /\ hpc = "boot"
  /\ mbox' = [c \in Clusters |-> [s \in Slots |-> IF s \in Cleared THEN 0 ELSE mbox[c][s]]]
  /\ burst' = QkScales \o Each("qkReady", 1)
  /\ hpc' = "prefillV"
  /\ UNCHANGED <<sf, spad, gpu, ht, expired>>

PrefillV ==
  /\ hpc = "prefillV"
  /\ burst = <<>>
  /\ burst' = VScales \o Each("vReady", 1)
  /\ hpc' = IF HostCfg THEN "capture" ELSE Serve
  /\ UNCHANGED <<mbox, sf, spad, gpu, ht, expired>>

(* A wait for the slower cluster, then a burst.                            *)
AwaitGpu(state, slot, count, writes, next) ==
  /\ hpc = state
  /\ burst = <<>>
  /\ AwaitOrExpire(\A c \in Clusters : mbox[c][slot] >= count)
  /\ burst' = writes
  /\ hpc' = next
  /\ UNCHANGED <<mbox, sf, spad, gpu, ht>>

(* The capture of the recorded streams: cfg_capture.                       *)
Capture == AwaitGpu("capture", "cfgRec", 2, <<>>, Serve)

(* host_service_pack: the P scales of cluster 0 go to both.                *)
ServicePack ==
  AwaitGpu("pack", "packReq", ht + 1,
           Each("act0", scales[0]) \o Each("packed", ht + 1), "next")

NextTile ==
  /\ hpc = "next"
  /\ burst = <<>>
  /\ ht' = ht + 1
  /\ hpc' = IF ht + 1 < HostTiles THEN "pvDone" ELSE "end"
  /\ UNCHANGED <<mbox, sf, spad, gpu, burst, expired>>

(* Mutant: the schedule that the comment before the loop calls the old one.*)
Window1OnQkDone ==
  AwaitGpu("pvDone", "qkDone", ht,
           QkScales \o Replay("cfgQK") \o Each("qkReady", ht + 1), "qkDone")

(* Window 1: PVDONE >= t .. QK_READY = t + 1                               *)
Window1 ==
  AwaitGpu("pvDone", "pvDone", ht,
           QkScales \o Replay("cfgQK") \o Each("qkReady", ht + 1), "qkDone")

(* Mutant: the V scales and the move-in follow QK_READY at once.           *)
Window2AtOnce ==
  AwaitGpu("qkDone", "qkDone", ht,
           VScales \o Replay("cfgPV") \o Each("vReady", ht + 1), Serve)

(* Window 2: QKDONE >= t + 1 .. V_READY = t + 1                            *)
Window2 ==
  AwaitGpu("qkDone", "qkDone", ht + 1,
           VScales \o Replay("cfgPV") \o Each("vReady", ht + 1), Serve)

Host ==
  /\ UNCHANGED build
  /\ \/ Push \/ Clear \/ PrefillV \/ Capture \/ ServicePack
     \/ NextTile \/ Window1 \/ Window2

Next == Host \/ \E c \in Clusters : Gpu(c)

Spec == Init /\ [][Next]_vars

(* Host and clusters run in parallel and none of them ever stops.          *)
FairSpec == Spec /\ WF_vars(Host) /\ \A c \in Clusters : WF_vars(Gpu(c))

-----------------------------------------------------------------------------
(* Properties.  A wait that runs out is a run that is reported as broken.  *)

(* While the mesh of a cluster runs, its operands and all the scales it    *)
(* reads are those of the tile that the cluster is in.                     *)
MeshReadsItsTile ==
  ~expired => \A c \in Clusters :
    /\ gpc[c] = "qkRun" =>
         /\ sf[c].act1 = tile[c] /\ sf[c].w0 = tile[c]
         /\ spad[c] = [a |-> <<"Q", tile[c]>>, b |-> <<"K", tile[c]>>]
    /\ gpc[c] = "pvRun" =>
         /\ sf[c].act0 = tile[c] /\ sf[c].w1 = tile[c]
         /\ spad[c] = [a |-> <<"P", tile[c]>>, b |-> <<"V", tile[c]>>]

(* The host is about to write to the tensor core of cluster c.             *)
HostAtPort(c) ==
  /\ burst # <<>>
  /\ Head(burst)[1] \notin HostSlots
  /\ Head(burst)[2] = c

(* The GPU of cluster c issues commands or writes scales.                  *)
GpuAtPort(c) ==
  \/ gpc[c] \in {"qkRun", "pvRun", "pack"}
  \/ gpc[c] \in {"qkIssue", "pvIssue"} /\ Issues(c)

(* In the refill loop of an FA_HOSTCFG build the host writes to a tensor   *)
(* core only in windows in which the GPU does not: the two never meet at   *)
(* the port.                                                               *)
PortExclusive ==
  HostCfg /\ ~expired /\ ht > 0 => \A c \in Clusters : ~(HostAtPort(c) /\ GpuAtPort(c))

(* The host, which serves the slower cluster, holds the faster one back:   *)
(* no cluster gets a whole tile ahead.                                     *)
ClustersInStep ==
  ~expired => \A c, d \in Clusters :
    tile[c] > tile[d] => /\ tile[c] = tile[d] + 1
                         /\ gpc[c] \in {"finalize", "qkIssue", "qkWait", "qkRun", "end"}

(* The guards of the steps, spelled out.                                   *)
Ready(slot, c, count) == WaitsExpire \/ mbox[c][slot] >= count

HostMayStep ==
  \/ burst # <<>>
  \/ hpc \in {"boot", "prefillV", "next"}
  \/ hpc = "capture" /\ \A c \in Clusters : Ready("cfgRec", c, 2)
  \/ hpc = "pack" /\ \A c \in Clusters : Ready("packReq", c, ht + 1)
  \/ hpc = "pvDone" /\ \A c \in Clusters : Ready("pvDone", c, ht)
  \/ hpc = "qkDone" /\ \A c \in Clusters : Ready("qkDone", c, ht + 1)

ClusterMayStep(c) ==
  \/ gpc[c] \in {"qkRun", "softmax", "pvIssue", "requant", "pack", "packReq", "pvRun", "finalize"}
  \/ gpc[c] = "qkIssue" /\ hpc # "boot"
  \/ gpc[c] = "qkWait" /\ Ready("qkReady", c, tile[c] + 1)
  \/ gpc[c] = "pvWait" /\ Ready("vReady", c, tile[c] + 1)
  \/ gpc[c] = "packWait" /\ Ready("packed", c, tile[c] + 1)

Finished == hpc = "end" /\ \A c \in Clusters : gpc[c] = "end"

(* Until all is done the host or a cluster can go on, and where the waits  *)
(* do not run out because what it waits for has come: host and clusters    *)
(* never wait for each other in a circle.                                  *)
NeverStuck == Finished \/ HostMayStep \/ \E c \in Clusters : ClusterMayStep(c)

(* The order of the states within a tile, of a cluster and of the host.    *)
GpuAlong(state) ==
  CASE state = "finalize" -> 1 [] state = "qkIssue" -> 2 [] state = "qkWait" -> 3
    [] state = "qkRun" -> 4 [] state = "softmax" -> 5 [] state = "pvIssue" -> 6
    [] state = "pvWait" -> 7 [] state = "requant" -> 8 [] state = "packReq" -> 9
    [] state \in {"pack", "packWait"} -> 10 [] state = "pvRun" -> 11 [] OTHER -> 12

HostAlong(state) ==
  CASE state \in {"boot", "pvDone"} -> 1 [] state \in {"prefillV", "qkDone"} -> 2
    [] state = "capture" -> 3 [] state = "pack" -> 4 [] state = "next" -> 5 [] OTHER -> 6

ClusterGoesOn(c) ==
  /\ \/ tile[c] < tile'[c]
     \/ tile[c] = tile'[c] /\ GpuAlong(gpc[c]) < GpuAlong(gpc'[c])
  /\ \A d \in Clusters \ {c} : gpc'[d] = gpc[d] /\ tile'[d] = tile[d]
  /\ UNCHANGED hostState

HostGoesOn ==
  /\ \/ ht < ht'
     \/ ht = ht' /\ HostAlong(hpc) < HostAlong(hpc')
     \/ UNCHANGED <<ht, hpc>> /\ Len(burst') < Len(burst)
  /\ UNCHANGED <<gpc, tile>>

(* Every step brings a cluster on in its tiles, or the host in its own or  *)
(* in its burst: the run makes a bounded number of steps.                  *)
EveryStepCounts == [][HostGoesOn \/ \E c \in Clusters : ClusterGoesOn(c)]_vars

(* Every cluster finishes all its tiles, and the host its loop, and no     *)
(* wait has to run to its bound for that (checked with waits that do not). *)
EveryTileDone == <>Finished
=============================================================================
