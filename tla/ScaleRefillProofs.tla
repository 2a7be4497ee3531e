------------------------- MODULE ScaleRefillProofs -------------------------
(* The refill protocol for any number of clusters and of tiles.            *)
EXTENDS ScaleRefill, TLAPS

-----------------------------------------------------------------------------
(* The inductive invariant                                                 *)

(* The writes that the host has still to make.                             *)
Pending(b) == {b[i] : i \in 1 .. Len(b)}

(* No write occurs twice, and the flags come last.                         *)
Proper(b) ==
  /\ b \in Seq(Writes)
  /\ \A i, j \in 1 .. Len(b) :
       i < j => b[i] # b[j] /\ (b[i][1] \in HostSlots => b[j][1] \in HostSlots)

To(what, value) == {<<what, c, value>> : c \in Clusters}

QkHalves == {"act1", "w0"}
Serving == {"capture", "pack", "next"}
Settled == {"pvDone", "end"}

QkDue == To("act1", ht) \cup To("w0", ht) \cup To("cfgQK", ht) \cup To("qkReady", ht + 1)
VDue == To("w1", ht) \cup To("cfgPV", ht) \cup To("vReady", ht + 1)
PackDue == (UNION {To("act0", v) : v \in Tile}) \cup To("packed", ht + 1)

(* What may be pending in each phase of the host.                          *)
Due ==
  CASE hpc \in {"prefillV", "qkDone"} -> QkDue
    [] hpc = "next" /\ HostPack -> PackDue
    [] hpc \in Serving /\ ~(hpc = "next" /\ HostPack) -> VDue
    [] OTHER -> {}

(* The flag that ends the burst of the phase.                              *)
FlagDue(c) ==
  <<CASE hpc \in {"prefillV", "qkDone"} -> "qkReady"
      [] hpc = "next" /\ HostPack -> "packed"
      [] OTHER -> "vReady", c, ht + 1>>

Ranges ==
  /\ TypeOK
  /\ hpc # "end" => ht < HostTiles
  /\ \A c \in Clusters : gpc[c] \notin {"finalize", "end"} => tile[c] < NumTiles

Phases ==
  /\ hpc = "boot" => \A c \in Clusters : gpc[c] = "qkIssue" /\ tile[c] = 0
  /\ hpc \in {"boot", "prefillV", "capture"} => ht = 0
  /\ hpc \in {"pvDone", "qkDone", "end"} => ht >= 1
  /\ hpc = "capture" => HostCfg
  /\ hpc = "pack" => HostPack

Bursts ==
  /\ Proper(burst)
  /\ Pending(burst) \subseteq Due
  /\ \A c \in Clusters, w \in Pending(burst) :
       w[1] \notin HostSlots => FlagDue(c) \in Pending(burst)
  /\ \A c \in Clusters, v \in Tile :
       <<"cfgQK", c, v>> \in Pending(burst) \/ <<"cfgPV", c, v>> \in Pending(burst) =>
         HostCfg /\ ht >= 1

AfterQk == {"softmax", "pvIssue", "pvWait", "requant", "pack", "packReq", "packWait", "pvRun"}
AfterPv == {"requant", "pack", "packReq", "packWait", "pvRun"}
PackAsked == {"packWait", "pvRun"}

CleanPack == HostPack => build.junk = 0

(* What the clusters have published.                                       *)
GpuCounts ==
  \A c \in Clusters :
    /\ hpc # "boot" => /\ mbox[c].qkDone = IF gpc[c] \in AfterQk THEN tile[c] + 1 ELSE tile[c]
                       /\ mbox[c].pvDone = tile[c]
    /\ HostPack /\ CleanPack =>
         mbox[c].packReq = IF gpc[c] \in PackAsked THEN tile[c] + 1 ELSE tile[c]

(* What the host has.                                                      *)
QkPending(c) == hpc \in Settled \/ <<"qkReady", c, ht + 1>> \in Pending(burst)
VPending(c) ==
  hpc \in {"prefillV", "qkDone"} \cup Settled \/ <<"vReady", c, ht + 1>> \in Pending(burst)
PackPending(c) == hpc # "next" \/ <<"packed", c, ht + 1>> \in Pending(burst)

Flags ==
  \A c \in Clusters :
    /\ hpc # "boot" => /\ mbox[c].qkReady = IF QkPending(c) THEN ht ELSE ht + 1
                       /\ mbox[c].vReady = IF VPending(c) THEN ht ELSE ht + 1
    /\ HostPack /\ CleanPack => mbox[c].packed = IF PackPending(c) THEN ht ELSE ht + 1

(* The scales that belong to the flags.                                    *)
Refilled ==
  hpc # "boot" => \A c \in Clusters :
    /\ \A x \in QkHalves : IF hpc \in Settled THEN sf[c][x] = ht - 1
                           ELSE <<x, c, ht>> \in Pending(burst) \/ sf[c][x] = ht
    /\ hpc \in Settled => sf[c].w1 = ht - 1
    /\ hpc \in Serving => <<"w1", c, ht>> \in Pending(burst) \/ sf[c].w1 = ht

(* The clusters go no further than the flags let them ...                  *)
HeldBack ==
  ~expired /\ hpc # "boot" => \A c \in Clusters :
    /\ mbox[c].qkReady >= tile[c] /\ mbox[c].vReady >= tile[c]
    /\ gpc[c] \in AfterQk \cup {"qkRun"} => mbox[c].qkReady >= tile[c] + 1
    /\ gpc[c] \in AfterPv => mbox[c].vReady >= tile[c] + 1
    /\ HostPack /\ CleanPack => mbox[c].packed >= tile[c]
    /\ HostPack /\ CleanPack /\ gpc[c] = "pvRun" => mbox[c].packed >= tile[c] + 1

(* ... and the host goes no further than the slowest of them.              *)
Past(c, n, states) == tile[c] > n \/ (tile[c] = n /\ gpc[c] \in states)

Served ==
  ~expired => \A c \in Clusters :
    /\ hpc = "qkDone" => tile[c] >= ht
    /\ hpc \in Serving /\ ht >= 1 => Past(c, ht, AfterQk)
    /\ hpc \in Settled => tile[c] >= ht - 1 /\ (ht >= 2 => Past(c, ht - 1, AfterQk))
    /\ HostPack /\ CleanPack /\ hpc = "next" => Past(c, ht, PackAsked)
    /\ HostPack /\ CleanPack /\ hpc \in Settled => Past(c, ht - 1, PackAsked)

(* The scales of P, packed by the cluster or by the host.                  *)
PackedScales ==
  /\ \A c \in Clusters : gpc[c] \in {"pack", "packReq", "packWait", "pvRun"} => scales[c] = tile[c]
  /\ \A c \in Clusters : gpc[c] = "pack" => ~HostPack
  /\ \A c \in Clusters : gpc[c] \in {"packReq", "packWait"} => HostPack
  /\ \A c \in Clusters : ~HostPack /\ gpc[c] = "pvRun" => sf[c].act0 = tile[c]
  /\ ~expired /\ HostPack /\ CleanPack => \A c \in Clusters :
       /\ hpc = "next" => <<"act0", c, ht>> \in Pending(burst) \/ sf[c].act0 = ht
       /\ hpc = "next" => \A v \in Tile : <<"act0", c, v>> \in Pending(burst) => v = ht
       /\ hpc \in Settled => sf[c].act0 = ht - 1

HoldsQk(c, t) == spad[c].a = <<"Q", t>> /\ spad[c].b = <<"K", t>>

(* The operands, moved in by the cluster or by the host.                   *)
MovedIn ==
  ~expired => \A c \in Clusters :
    /\ Issues(c) /\ gpc[c] \in {"qkWait", "qkRun"} => HoldsQk(c, tile[c])
    /\ Issues(c) /\ gpc[c] \in {"pvWait"} \cup AfterPv => spad[c].b = <<"V", tile[c]>>
    /\ gpc[c] \in AfterPv \ {"requant"} => spad[c].a = <<"P", tile[c]>>
    /\ HostCfg /\ hpc = "qkDone" => <<"cfgQK", c, ht>> \in Pending(burst) \/ HoldsQk(c, ht)
    /\ HostCfg /\ hpc \in Serving /\ ht >= 1 /\ tile[c] = ht =>
         <<"cfgPV", c, ht>> \in Pending(burst) \/ spad[c].b = <<"V", ht>>
    /\ HostCfg /\ hpc \in Settled /\ ht >= 2 /\ tile[c] = ht - 1 => spad[c].b = <<"V", ht - 1>>

Refill == /\ Ranges /\ Phases /\ Bursts /\ GpuCounts /\ Flags /\ Refilled
          /\ HeldBack /\ Served /\ PackedScales /\ MovedIn

-----------------------------------------------------------------------------
(* Lemmas about bursts                                                     *)

LEMMA Sizes == /\ NumClusters \in Nat \ {0} /\ NumTiles \in Nat \ {0} /\ HostTiles \in Nat \ {0}
               /\ 0 \in Clusters
BY ClustersAssumption, TilesAssumption DEF Clusters

LEMMA EmptyBurst ==
  ASSUME NEW b, Proper(b)
  PROVE  b = <<>> <=> Pending(b) = {}
<1>1. CASE b = <<>>
  BY <1>1 DEF Pending
<1>2. CASE b # <<>>
  <2>1. 1 \in 1 .. Len(b)
    BY <1>2 DEF Proper
  <2>2. QED
    BY <2>1, <1>2 DEF Pending
<1>3. QED
  BY <1>1, <1>2

(* The host makes one write, the rest stays pending.                       *)
LEMMA Written ==
  ASSUME NEW b, Proper(b), b # <<>>
  PROVE  /\ Head(b) \in Pending(b) /\ Head(b) \in Writes
         /\ Proper(Tail(b)) /\ Pending(Tail(b)) = Pending(b) \ {Head(b)}
         /\ Head(b)[1] \in HostSlots => \A w \in Pending(b) : w[1] \in HostSlots
<1>1. b \in Seq(Writes) /\ 1 \in 1 .. Len(b) /\ Head(b) = b[1] /\ Len(b) \in Nat
  BY DEF Proper
<1>2. /\ Tail(b) \in Seq(Writes)
      /\ Len(Tail(b)) = Len(b) - 1
      /\ \A i \in 1 .. Len(b) - 1 : Tail(b)[i] = b[i + 1]
  BY <1>1
<1>3. \A i \in 1 .. Len(b) - 1 : i + 1 \in 1 .. Len(b)
  BY <1>1
<1>4. Proper(Tail(b))
  <2>1. ASSUME NEW i \in 1 .. Len(Tail(b)), NEW j \in 1 .. Len(Tail(b)), i < j
        PROVE  /\ Tail(b)[i] # Tail(b)[j]
               /\ Tail(b)[i][1] \in HostSlots => Tail(b)[j][1] \in HostSlots
    <3>1. i + 1 < j + 1 /\ i + 1 \in 1 .. Len(b) /\ j + 1 \in 1 .. Len(b)
      BY <2>1, <1>2, <1>3
    <3>2. QED
      BY <3>1, <1>2 DEF Proper
  <2>2. QED
    BY <1>2, <2>1 DEF Proper
<1>5. \A i \in 1 .. Len(b) : i # 1 => b[i] # b[1] /\ (b[1][1] \in HostSlots => b[i][1] \in HostSlots)
  BY <1>1 DEF Proper
<1>6. ASSUME NEW w \in Pending(b), w # b[1]
      PROVE  w \in Pending(Tail(b))
  <2>1. PICK i \in 1 .. Len(b) : b[i] = w
    BY DEF Pending
  <2>2. i - 1 \in 1 .. Len(Tail(b)) /\ Tail(b)[i - 1] = b[i]
    BY <1>1, <1>2, <1>6, <2>1
  <2>3. QED
    BY <2>1, <2>2 DEF Pending
<1>7. ASSUME NEW w \in Pending(Tail(b))
      PROVE  w \in Pending(b) /\ w # b[1]
  <2>1. PICK i \in 1 .. Len(b) - 1 : b[i + 1] = w
    BY <1>2 DEF Pending
  <2>2. i + 1 \in 1 .. Len(b) /\ i + 1 # 1
    BY <1>1, <2>1
  <2>3. QED
    BY <1>5, <2>1, <2>2 DEF Pending
<1>8. b[1] \in Pending(b) /\ b[1] \in Writes
  BY <1>1 DEF Pending
<1>9. b[1][1] \in HostSlots => \A w \in Pending(b) : w[1] \in HostSlots
  BY <1>5 DEF Pending
<1>10. QED
  BY <1>1, <1>4, <1>6, <1>7, <1>8, <1>9

(* One kind of write, to every cluster.                                    *)
LEMMA EachIsProper ==
  ASSUME NEW what \in Halves \cup HostSlots \cup {"cfgQK", "cfgPV"}, NEW value \in Tile
  PROVE  Proper(Each(what, value)) /\ Pending(Each(what, value)) = To(what, value)
<1> DEFINE e == Each(what, value)
<1>1. /\ Len(e) = NumClusters
      /\ \A i \in 1 .. NumClusters : e[i] = <<what, i - 1, value>> /\ i - 1 \in Clusters
      /\ e \in Seq(Writes)
  <2>1. \A i \in 1 .. NumClusters : i - 1 \in Clusters
    BY Sizes DEF Clusters
  <2>2. \A i \in 1 .. NumClusters : <<what, i - 1, value>> \in Writes
    BY <2>1 DEF Writes
  <2>3. QED
    BY <2>1, <2>2, Sizes DEF Each
<1> HIDE DEF e
<1>2. Proper(e)
  <2>1. ASSUME NEW i \in 1 .. Len(e), NEW j \in 1 .. Len(e), i < j
        PROVE  e[i] # e[j] /\ e[i][1] = e[j][1]
    BY <1>1, <2>1, Sizes
  <2>2. QED
    BY <1>1, <2>1 DEF Proper
<1>3. Pending(e) = To(what, value)
  <2>1. ASSUME NEW w \in Pending(e) PROVE w \in To(what, value)
    BY <1>1 DEF Pending, To
  <2>2. ASSUME NEW c \in Clusters PROVE <<what, c, value>> \in Pending(e)
    <3>1. c + 1 \in 1 .. NumClusters /\ (c + 1) - 1 = c
      BY Sizes DEF Clusters
    <3>2. e[c + 1] = <<what, c, value>>
      BY <1>1, <3>1
    <3>3. QED
      BY <1>1, <3>1, <3>2 DEF Pending
  <2>3. QED
    BY <2>1, <2>2 DEF To
<1>4. QED
  BY <1>2, <1>3 DEF e

LEMMA Joined ==
  ASSUME NEW x, NEW y, Proper(x), Proper(y), Pending(x) \cap Pending(y) = {},
         \A w \in Pending(x) : w[1] \notin HostSlots
  PROVE  Proper(x \o y) /\ Pending(x \o y) = Pending(x) \cup Pending(y)
<1> DEFINE z == x \o y
<1>1. x \in Seq(Writes) /\ y \in Seq(Writes) /\ Len(x) \in Nat /\ Len(y) \in Nat
  BY DEF Proper
<1>2. /\ z \in Seq(Writes) /\ Len(z) = Len(x) + Len(y)
      /\ \A i \in 1 .. Len(x) : z[i] = x[i]
      /\ \A i \in 1 .. Len(y) : z[Len(x) + i] = y[i]
  BY <1>1
<1> HIDE DEF z
<1>3. ASSUME NEW i \in 1 .. Len(z), ~(i \in 1 .. Len(x))
      PROVE  i - Len(x) \in 1 .. Len(y) /\ z[i] = y[i - Len(x)]
  BY <1>1, <1>2, <1>3
<1>4. ASSUME NEW i \in 1 .. Len(z), NEW j \in 1 .. Len(z), i < j
      PROVE  z[i] # z[j] /\ (z[i][1] \in HostSlots => z[j][1] \in HostSlots)
  <2>1. CASE j \in 1 .. Len(x)
    <3>1. i \in 1 .. Len(x)
      BY <1>1, <1>4, <2>1
    <3>2. QED
      BY <1>2, <1>4, <2>1, <3>1 DEF Proper
  <2>2. CASE i \in 1 .. Len(x) /\ ~(j \in 1 .. Len(x))
    <3>1. z[i] \in Pending(x) /\ z[j] \in Pending(y)
      BY <1>2, <1>3, <2>2 DEF Pending
    <3>2. QED
      BY <3>1
  <2>3. CASE ~(i \in 1 .. Len(x)) /\ ~(j \in 1 .. Len(x))
    <3>1. i - Len(x) < j - Len(x)
      BY <1>1, <1>4
    <3>2. QED
      BY <1>3, <2>3, <3>1, SMTT(30) DEF Proper
  <2>4. QED
    BY <2>1, <2>2, <2>3
<1>5. Proper(z)
  BY <1>2, <1>4 DEF Proper
<1>6. ASSUME NEW w \in Pending(z) PROVE w \in Pending(x) \cup Pending(y)
  BY <1>2, <1>3 DEF Pending
<1>7. ASSUME NEW w \in Pending(x) PROVE w \in Pending(z)
  <2>1. PICK i \in 1 .. Len(x) : x[i] = w
    BY DEF Pending
  <2>2. i \in 1 .. Len(z)
    BY <1>1, <1>2, <2>1
  <2>3. QED
    BY <1>2, <2>1, <2>2 DEF Pending
<1>8. ASSUME NEW w \in Pending(y) PROVE w \in Pending(z)
  <2>1. PICK i \in 1 .. Len(y) : y[i] = w
    BY DEF Pending
  <2>2. Len(x) + i \in 1 .. Len(z)
    BY <1>1, <1>2, <2>1
  <2>3. QED
    BY <1>2, <2>1, <2>2 DEF Pending
<1>9. QED
  BY <1>5, <1>6, <1>7, <1>8 DEF z

LEMMA NoBurst == Proper(<<>>) /\ Pending(<<>>) = {}
BY DEF Proper, Pending

(* The bursts of the two windows: data first, then the flag.               *)
LEMMA TwoKinds ==
  ASSUME NEW x \in Halves \cup {"cfgQK", "cfgPV"}, NEW f \in HostSlots,
         NEW v \in Tile, NEW n \in Tile
  PROVE  /\ Proper(Each(x, v) \o Each(f, n))
         /\ Pending(Each(x, v) \o Each(f, n)) = To(x, v) \cup To(f, n)
<1>1. x \notin HostSlots
  BY DEF Halves, HostSlots
<1>2. To(x, v) \cap To(f, n) = {} /\ \A w \in To(x, v) : w[1] \notin HostSlots
  BY <1>1 DEF To
<1>3. QED
  BY <1>2, EachIsProper, Joined

(* ... and with the replay of an FA_HOSTCFG build in between.              *)
LEMMA Bursting ==
  ASSUME NEW f \in HostSlots, NEW n \in Tile, ht \in Tile,
         NEW cfg \in {"cfgQK", "cfgPV"}
  PROVE  /\ Proper(QkScales \o Each(f, n))
         /\ Pending(QkScales \o Each(f, n)) = To("act1", ht) \cup To("w0", ht) \cup To(f, n)
         /\ Proper(QkScales \o Replay(cfg) \o Each(f, n))
         /\ Pending(QkScales \o Replay(cfg) \o Each(f, n)) =
              To("act1", ht) \cup To("w0", ht) \cup (IF HostCfg THEN To(cfg, ht) ELSE {}) \cup To(f, n)
         /\ Proper(VScales \o Replay(cfg) \o Each(f, n))
         /\ Pending(VScales \o Replay(cfg) \o Each(f, n)) =
              To("w1", ht) \cup (IF HostCfg THEN To(cfg, ht) ELSE {}) \cup To(f, n)
<1> DEFINE R == IF HostCfg THEN To(cfg, ht) ELSE {}
<1>0. /\ {"act1", "w0", "w1"} \subseteq Halves
      /\ \A x \in Halves \cup {"cfgQK", "cfgPV"} : x \notin HostSlots
      /\ "act1" # "w0" /\ cfg \notin Halves
  BY DEF Halves, HostSlots
<1>1. \A x, y, v, w : x # y => To(x, v) \cap To(y, w) = {}
  BY DEF To
<1>2. \A x \in Halves \cup {"cfgQK", "cfgPV"} : \A v : \A w \in To(x, v) : w[1] \notin HostSlots
  BY <1>0 DEF To
<1>3. Proper(Replay(cfg)) /\ Pending(Replay(cfg)) = R
  BY EachIsProper, NoBurst DEF Replay
<1>4. Proper(QkScales) /\ Pending(QkScales) = To("act1", ht) \cup To("w0", ht)
  <2>1. Proper(Each("act1", ht)) /\ Pending(Each("act1", ht)) = To("act1", ht)
    BY <1>0, EachIsProper
  <2>2. Proper(Each("w0", ht)) /\ Pending(Each("w0", ht)) = To("w0", ht)
    BY <1>0, EachIsProper
  <2>3. QED
    BY <2>1, <2>2, <1>0, <1>1, <1>2, Joined DEF QkScales
<1>5. Proper(VScales) /\ Pending(VScales) = To("w1", ht)
  BY <1>0, EachIsProper DEF VScales
<1>6. Proper(Each(f, n)) /\ Pending(Each(f, n)) = To(f, n)
  BY EachIsProper
<1>7. \A w \in Pending(QkScales) \cup R \cup Pending(VScales) : w[1] \notin HostSlots
  BY <1>0, <1>2, <1>4, <1>5
<1>8. /\ Pending(QkScales) \cap R = {} /\ Pending(VScales) \cap R = {}
      /\ Pending(QkScales) \cap To(f, n) = {} /\ Pending(VScales) \cap To(f, n) = {}
      /\ R \cap To(f, n) = {}
  BY <1>0, <1>1, <1>4, <1>5
<1> HIDE DEF R
<1>9. Proper(QkScales \o Each(f, n)) /\ Pending(QkScales \o Each(f, n)) = Pending(QkScales) \cup To(f, n)
  BY <1>4, <1>6, <1>7, <1>8, Joined
<1>10. /\ Proper(QkScales \o Replay(cfg))
       /\ Pending(QkScales \o Replay(cfg)) = Pending(QkScales) \cup R
  BY <1>3, <1>4, <1>7, <1>8, Joined
<1>11. /\ Proper(QkScales \o Replay(cfg) \o Each(f, n))
       /\ Pending(QkScales \o Replay(cfg) \o Each(f, n)) = Pending(QkScales) \cup R \cup To(f, n)
  BY <1>6, <1>7, <1>8, <1>10, Joined
<1>12. /\ Proper(VScales \o Replay(cfg))
       /\ Pending(VScales \o Replay(cfg)) = Pending(VScales) \cup R
  BY <1>3, <1>5, <1>7, <1>8, Joined
<1>13. /\ Proper(VScales \o Replay(cfg) \o Each(f, n))
       /\ Pending(VScales \o Replay(cfg) \o Each(f, n)) = Pending(VScales) \cup R \cup To(f, n)
  BY <1>6, <1>7, <1>8, <1>12, Joined
<1>14. QED
  BY <1>4, <1>5, <1>9, <1>11, <1>13 DEF R

-----------------------------------------------------------------------------
(* The steps                                                               *)

LEMMA InitRefill == Init => Refill
<1> SUFFICES ASSUME Init PROVE Refill
  OBVIOUS
<1>1. Ranges
  <2>1. build.junk \in Nat
    BY BuildAssumption DEF Init
  <2>2. NoTile \in Tile /\ 0 \in 0 .. NumTiles /\ 0 \in 0 .. HostTiles
    BY Sizes DEF NoTile, Tile
  <2>3. TypeOK
    <3>1. mbox \in [Clusters -> [Slots -> Nat]] /\ sf \in [Clusters -> [Halves -> Tile]]
      BY <2>1, <2>2 DEF Init
    <3>2. spad \in [Clusters -> [{"a", "b"} -> {"Q", "K", "P", "V"} \X Tile]]
      BY <2>2 DEF Init
    <3>3. burst \in Seq(Writes)
      BY DEF Init
    <3>4. QED
      BY <2>2, <3>1, <3>2, <3>3 DEF Init, TypeOK, GpuStates, HostStates
  <2>4. QED
    BY <2>3, Sizes DEF Init, Ranges
<1>2. Phases
  BY DEF Init, Phases
<1>3. Bursts
  BY NoBurst DEF Init, Bursts
<1>4. GpuCounts /\ Flags
  BY DEF Init, GpuCounts, Flags, CleanPack, Slots, HostSlots, GpuSlots, PackPending, PackAsked
<1>5. Refilled /\ HeldBack /\ Served /\ PackedScales /\ MovedIn
  BY DEF Init, Refilled, HeldBack, Served, PackedScales, MovedIn, Serving, Settled, AfterPv
<1>6. QED
  BY <1>1, <1>2, <1>3, <1>4, <1>5 DEF Refill

(* A word of the mailbox is written.                                       *)
LEMMA Posted ==
  ASSUME TypeOK, NEW c \in Clusters, NEW slot \in Slots, NEW value \in Nat, Post(c, slot, value)
  PROVE  /\ mbox' \in [Clusters -> [Slots -> Nat]]
         /\ \A d \in Clusters, s \in Slots :
              mbox'[d][s] = IF d = c /\ s = slot THEN value ELSE mbox[d][s]
BY DEF TypeOK, Post

(* The clusters change nothing that the host's own bookkeeping rests on.   *)
LEMMA GpuFrame ==
  ASSUME Refill, NEW c \in Clusters, Gpu(c)
  PROVE  /\ build' = build /\ hpc' = hpc /\ ht' = ht /\ burst' = burst /\ Due' = Due
         /\ expired \in BOOLEAN /\ expired' \in BOOLEAN /\ (~expired' => ~expired)
         /\ \A d \in Clusters, s \in HostSlots : mbox'[d][s] = mbox[d][s]
         /\ \A d \in Clusters, x \in {"act1", "w0", "w1"} : sf'[d][x] = sf[d][x]
         /\ Bursts' /\ Flags' /\ Refilled'
<1>1. build' = build /\ hpc' = hpc /\ ht' = ht /\ burst' = burst
  BY DEF Gpu, QkIssue, QkWait, QkDone, Softmax, PvIssue, PvWait, Requant, Pack, PackReq, PackWait,
     PvDone, Finalize, AwaitHost, hostState
<1>2. expired \in BOOLEAN /\ expired' \in BOOLEAN /\ (~expired' => ~expired)
  BY DEF Gpu, QkIssue, QkWait, QkDone, Softmax, PvIssue, PvWait, Requant, Pack, PackReq, PackWait,
     PvDone, Finalize, AwaitHost, AwaitOrExpire, Refill, Ranges, TypeOK
<1>3. mbox' = mbox \/ \E s \in GpuSlots, v \in Nat : Post(c, s, v)
  <2>1. \/ mbox' = mbox
        \/ Post(c, "cfgRec", 1) \/ Post(c, "cfgRec", 2)
        \/ Post(c, "qkDone", tile[c] + 1) \/ Post(c, "pvDone", tile[c] + 1)
        \/ Post(c, "packReq", tile[c] + 1)
    BY DEF Gpu, QkIssue, QkWait, QkDone, Softmax, PvIssue, PvWait, Requant, Pack, PackReq,
       PackWait, PvDone, Finalize, AwaitHost
  <2>2. tile[c] + 1 \in Nat /\ GpuSlots = {"qkDone", "pvDone", "cfgRec", "packReq"}
    BY DEF Refill, Ranges, TypeOK, GpuSlots
  <2>3. QED
    BY <2>1, <2>2
<1>4. \A d \in Clusters, s \in HostSlots : mbox'[d][s] = mbox[d][s]
  BY <1>3, Posted DEF Refill, Ranges, Slots, HostSlots, GpuSlots
<1>5. \A d \in Clusters, x \in {"act1", "w0", "w1"} : sf'[d][x] = sf[d][x]
  <2>1. sf' = sf \/ sf' = [sf EXCEPT ![c].act0 = scales[c]]
    BY DEF Gpu, QkIssue, QkWait, QkDone, Softmax, PvIssue, PvWait, Requant, Pack, PackReq,
       PackWait, PvDone, Finalize, AwaitHost
  <2>2. sf \in [Clusters -> [Halves -> Tile]]
    BY DEF Refill, Ranges, TypeOK
  <2>3. {"act1", "w0", "w1"} \subseteq Halves \ {"act0"}
    BY DEF Halves
  <2>4. QED
    BY <2>1, <2>2, <2>3
<1>6. Due' = Due /\ \A d \in Clusters : FlagDue(d)' = FlagDue(d)
  BY <1>1 DEF Due, QkDue, VDue, PackDue, FlagDue, HostPack
<1>7. Bursts'
  BY <1>1, <1>6 DEF Refill, Bursts, HostCfg
<1>8. Flags'
  BY <1>1, <1>4 DEF Refill, Flags, QkPending, VPending, PackPending, HostSlots, HostPack, CleanPack
<1>9. Refilled'
  BY <1>1, <1>5 DEF Refill, Refilled, QkHalves
<1>10. QED
  BY <1>1, <1>2, <1>4, <1>5, <1>6, <1>7, <1>8, <1>9

LEMMA GpuKeepsRefill ==
  ASSUME Refill, NEW c \in Clusters, Gpu(c)
  PROVE  Refill'
<1> USE DEF Refill
<1>0. /\ build' = build /\ hpc' = hpc /\ ht' = ht /\ burst' = burst
      /\ (HostCfg' <=> HostCfg) /\ (HostPack' <=> HostPack) /\ (CleanPack' <=> CleanPack)
      /\ expired \in BOOLEAN /\ expired' \in BOOLEAN /\ (~expired' => ~expired)
      /\ \A d \in Clusters, s \in HostSlots : mbox'[d][s] = mbox[d][s]
      /\ gpc \in [Clusters -> GpuStates] /\ tile \in [Clusters -> 0 .. NumTiles] /\ ht \in Nat
      /\ sf \in [Clusters -> [Halves -> Tile]] /\ scales \in [Clusters -> Tile]
      /\ spad \in [Clusters -> [{"a", "b"} -> {"Q", "K", "P", "V"} \X Tile]]
      /\ NumTiles \in Nat \ {0}
      /\ HostSlots = {"qkReady", "vReady", "packed"}
      /\ AfterQk = {"softmax", "pvIssue", "pvWait", "requant", "pack", "packReq", "packWait", "pvRun"}
      /\ AfterPv = {"requant", "pack", "packReq", "packWait", "pvRun"}
      /\ PackAsked = {"packWait", "pvRun"}
  BY GpuFrame, Sizes DEF HostCfg, HostPack, CleanPack, Ranges, TypeOK, HostSlots, AfterQk, AfterPv,
     PackAsked
<1>00. Bursts' /\ Flags' /\ Refilled'
  BY GpuFrame
<1>1. CASE QkIssue(c)
  <2>1. /\ gpc[c] = "qkIssue" /\ gpc' = [gpc EXCEPT ![c] = "qkWait"]
        /\ tile' = tile /\ scales' = scales /\ sf' = sf
    BY <1>1 DEF QkIssue, Goto
  <2>2. /\ mbox' \in [Clusters -> [Slots -> Nat]]
        /\ \A d \in Clusters : /\ mbox'[d].qkDone = mbox[d].qkDone
                               /\ mbox'[d].pvDone = mbox[d].pvDone
                               /\ mbox'[d].packReq = mbox[d].packReq
    <3>1. mbox' = mbox \/ Post(c, "cfgRec", 1)
      BY <1>1 DEF QkIssue
    <3>2. {"cfgRec", "qkDone", "pvDone", "packReq"} \subseteq Slots /\ 1 \in Nat /\ TypeOK
      BY DEF Slots, GpuSlots, Ranges
    <3>3. CASE mbox' = mbox
      BY <3>3 DEF Ranges, TypeOK
    <3>4. CASE Post(c, "cfgRec", 1)
      BY <3>2, <3>4, Posted
    <3>5. QED
      BY <3>1, <3>3, <3>4
  <2>3. /\ spad' \in [Clusters -> [{"a", "b"} -> {"Q", "K", "P", "V"} \X Tile]]
        /\ \A d \in Clusters : d # c \/ ~Issues(c) => spad'[d] = spad[d]
        /\ Issues(c) => spad'[c].a = <<"Q", tile[c]>> /\ spad'[c].b = <<"K", tile[c]>>
    <3>1. tile[c] \in Tile
      BY <1>0, Sizes DEF Tile
    <3>2. [a |-> <<"Q", tile[c]>>, b |-> <<"K", tile[c]>>] \in [{"a", "b"} -> {"Q", "K", "P", "V"} \X Tile]
      BY <3>1
    <3>3. QED
      BY <1>0, <1>1, <3>2 DEF QkIssue
  <2>4. Ranges'
    BY <1>0, <2>1, <2>2, <2>3, GpuFrame DEF Ranges, TypeOK, GpuStates
  <2>5. Phases'
    BY <1>0, <2>1, <2>2, <2>3, <1>1 DEF Phases, QkIssue
  <2>6. GpuCounts'
    BY <1>0, <2>1, <2>2, <2>3, ZenonT(60) DEF GpuCounts
  <2>7. HeldBack'
    BY <1>0, <2>1, <2>2, <2>3 DEF HeldBack
  <2>8. Served'
    BY <1>0, <2>1, <2>2, <2>3 DEF Served, Past
  <2>9. PackedScales'
    BY <1>0, <2>1, <2>2, <2>3 DEF PackedScales, Halves, Settled
  <2>10. MovedIn'
    BY <1>0, <2>1, <2>2, <2>3 DEF MovedIn, Issues, HoldsQk, Served, Past, Serving, Settled, Phases, HeldBack, Flags, VPending
  <2>11. QED
    BY <1>00, <2>4, <2>5, <2>6, <2>7, <2>8, <2>9, <2>10
<1>2. CASE QkWait(c)
  <2>1. /\ gpc[c] = "qkWait" /\ gpc' = [gpc EXCEPT ![c] = "qkRun"]
        /\ tile' = tile /\ scales' = scales /\ sf' = sf /\ spad' = spad
    BY <1>2 DEF QkWait, AwaitHost, AwaitOrExpire, Goto
  <2>2. mbox' = mbox
    BY <1>2 DEF QkWait, AwaitHost, AwaitOrExpire
  <2>3. ~expired' => mbox[c].qkReady >= tile[c] + 1
    BY <1>2, <1>0 DEF QkWait, AwaitHost, AwaitOrExpire
  <2>4. Ranges'
    BY <1>0, <2>1, <2>2, <2>3, GpuFrame DEF Ranges, TypeOK, GpuStates
  <2>5. Phases'
    BY <1>0, <2>1, <2>2, <2>3 DEF Phases
  <2>6. GpuCounts'
    BY <1>0, <2>1, <2>2, <2>3 DEF GpuCounts
  <2>7. HeldBack'
    BY <1>0, <2>1, <2>2, <2>3 DEF HeldBack
  <2>8. Served'
    BY <1>0, <2>1, <2>2, <2>3 DEF Served, Past
  <2>9. PackedScales'
    BY <1>0, <2>1, <2>2, <2>3 DEF PackedScales, Halves, Settled
  <2>10. MovedIn'
    BY <1>0, <2>1, <2>2, <2>3 DEF MovedIn, Issues, HoldsQk, Served, Past, Serving, Settled, Phases, HeldBack, Flags, VPending
  <2>11. QED
    BY <1>00, <2>4, <2>5, <2>6, <2>7, <2>8, <2>9, <2>10
<1>3. CASE QkDone(c)
  <2>1. /\ gpc[c] = "qkRun" /\ gpc' = [gpc EXCEPT ![c] = "softmax"]
        /\ tile' = tile /\ scales' = scales /\ sf' = sf /\ spad' = spad
    BY <1>3 DEF QkDone, Goto
  <2>2. /\ mbox' \in [Clusters -> [Slots -> Nat]]
        /\ \A d \in Clusters : /\ mbox'[d].qkDone = IF d = c THEN tile[c] + 1 ELSE mbox[d].qkDone
                               /\ mbox'[d].pvDone = mbox[d].pvDone
                               /\ mbox'[d].packReq = mbox[d].packReq
    <3>1. {"qkDone", "pvDone", "packReq"} \subseteq Slots /\ tile[c] + 1 \in Nat /\ TypeOK
      BY <1>0 DEF Slots, GpuSlots, Ranges
    <3>2. Post(c, "qkDone", tile[c] + 1)
      BY <1>3 DEF QkDone
    <3>3. \A d \in Clusters, s \in Slots :
            mbox'[d][s] = IF d = c /\ s = "qkDone" THEN tile[c] + 1 ELSE mbox[d][s]
      BY <3>1, <3>2, Posted
    <3>4. mbox' \in [Clusters -> [Slots -> Nat]]
      BY <3>1, <3>2, Posted
    <3>5. QED
      BY <3>1, <3>3, <3>4
  <2>3. Ranges'
    BY <1>0, <2>1, <2>2, GpuFrame DEF Ranges, TypeOK, GpuStates
  <2>4. Phases'
    BY <1>0, <2>1, <2>2 DEF Phases
  <2>5. GpuCounts'
    BY <1>0, <2>1, <2>2, ZenonT(60) DEF GpuCounts
  <2>6. HeldBack'
    BY <1>0, <2>1, <2>2 DEF HeldBack
  <2>7. Served'
    BY <1>0, <2>1, <2>2 DEF Served, Past
  <2>8. PackedScales'
    BY <1>0, <2>1, <2>2 DEF PackedScales, Halves, Settled
  <2>9. MovedIn'
    BY <1>0, <2>1, <2>2 DEF MovedIn, Issues, HoldsQk, Served, Past, Serving, Settled, Phases, HeldBack, Flags, VPending
  <2>10. QED
    BY <1>00, <2>3, <2>4, <2>5, <2>6, <2>7, <2>8, <2>9
<1>4. CASE Softmax(c)
  <2>1. /\ gpc[c] = "softmax" /\ gpc' = [gpc EXCEPT ![c] = "pvIssue"]
        /\ tile' = tile /\ scales' = scales /\ sf' = sf /\ spad' = spad
    BY <1>4 DEF Softmax, Goto
  <2>2. mbox' = mbox
    BY <1>4 DEF Softmax
  <2>3. Ranges'
    BY <1>0, <2>1, <2>2, GpuFrame DEF Ranges, TypeOK, GpuStates
  <2>4. Phases'
    BY <1>0, <2>1, <2>2 DEF Phases
  <2>5. GpuCounts'
    BY <1>0, <2>1, <2>2 DEF GpuCounts
  <2>6. HeldBack'
    BY <1>0, <2>1, <2>2 DEF HeldBack
  <2>7. Served'
    BY <1>0, <2>1, <2>2 DEF Served, Past
  <2>8. PackedScales'
    BY <1>0, <2>1, <2>2 DEF PackedScales, Halves, Settled
  <2>9. MovedIn'
    BY <1>0, <2>1, <2>2 DEF MovedIn, Issues, HoldsQk, Served, Past, Serving, Settled, Phases, HeldBack, Flags, VPending
  <2>10. QED
    BY <1>00, <2>3, <2>4, <2>5, <2>6, <2>7, <2>8, <2>9
<1>5. CASE PvIssue(c)
  <2>1. /\ gpc[c] = "pvIssue" /\ gpc' = [gpc EXCEPT ![c] = "pvWait"]
        /\ tile' = tile /\ scales' = scales /\ sf' = sf
    BY <1>5 DEF PvIssue, Goto
  <2>2. /\ mbox' \in [Clusters -> [Slots -> Nat]]
        /\ \A d \in Clusters : /\ mbox'[d].qkDone = mbox[d].qkDone
                               /\ mbox'[d].pvDone = mbox[d].pvDone
                               /\ mbox'[d].packReq = mbox[d].packReq
    <3>1. mbox' = mbox \/ Post(c, "cfgRec", 2)
      BY <1>5 DEF PvIssue
    <3>2. {"cfgRec", "qkDone", "pvDone", "packReq"} \subseteq Slots /\ 2 \in Nat /\ TypeOK
      BY DEF Slots, GpuSlots, Ranges
    <3>3. CASE mbox' = mbox
      BY <3>3 DEF Ranges, TypeOK
    <3>4. CASE Post(c, "cfgRec", 2)
      BY <3>2, <3>4, Posted
    <3>5. QED
      BY <3>1, <3>3, <3>4
  <2>3. /\ spad' \in [Clusters -> [{"a", "b"} -> {"Q", "K", "P", "V"} \X Tile]]
        /\ \A d \in Clusters : d # c \/ ~Issues(c) => spad'[d] = spad[d]
        /\ Issues(c) => spad'[c].a = spad[c].a /\ spad'[c].b = <<"V", tile[c]>>
    <3>1. tile[c] \in Tile
      BY <1>0, Sizes DEF Tile
    <3>2. QED
      BY <1>0, <1>5, <3>1 DEF PvIssue
  <2>4. Ranges'
    BY <1>0, <2>1, <2>2, <2>3, GpuFrame DEF Ranges, TypeOK, GpuStates
  <2>5. Phases'
    BY <1>0, <2>1, <2>2, <2>3 DEF Phases
  <2>6. GpuCounts'
    BY <1>0, <2>1, <2>2, <2>3, ZenonT(60) DEF GpuCounts
  <2>7. HeldBack'
    BY <1>0, <2>1, <2>2, <2>3 DEF HeldBack
  <2>8. Served'
    BY <1>0, <2>1, <2>2, <2>3 DEF Served, Past
  <2>9. PackedScales'
    BY <1>0, <2>1, <2>2, <2>3 DEF PackedScales, Halves, Settled
  <2>10. MovedIn'
    BY <1>0, <2>1, <2>2, <2>3 DEF MovedIn, Issues, HoldsQk, Served, Past, Serving, Settled, Phases, HeldBack, Flags, VPending
  <2>11. QED
    BY <1>00, <2>4, <2>5, <2>6, <2>7, <2>8, <2>9, <2>10
<1>6. CASE PvWait(c)
  <2>1. /\ gpc[c] = "pvWait" /\ gpc' = [gpc EXCEPT ![c] = "requant"]
        /\ tile' = tile /\ scales' = scales /\ sf' = sf /\ spad' = spad
    BY <1>6 DEF PvWait, AwaitHost, AwaitOrExpire, Goto
  <2>2. mbox' = mbox
    BY <1>6 DEF PvWait, AwaitHost, AwaitOrExpire
  <2>3. ~expired' => mbox[c].vReady >= tile[c] + 1
    BY <1>6, <1>0 DEF PvWait, AwaitHost, AwaitOrExpire
  <2>4. Ranges'
    BY <1>0, <2>1, <2>2, <2>3, GpuFrame DEF Ranges, TypeOK, GpuStates
  <2>5. Phases'
    BY <1>0, <2>1, <2>2, <2>3 DEF Phases
  <2>6. GpuCounts'
    BY <1>0, <2>1, <2>2, <2>3 DEF GpuCounts
  <2>7. HeldBack'
    BY <1>0, <2>1, <2>2, <2>3 DEF HeldBack
  <2>8. Served'
    BY <1>0, <2>1, <2>2, <2>3 DEF Served, Past
  <2>9. PackedScales'
    BY <1>0, <2>1, <2>2, <2>3 DEF PackedScales, Halves, Settled
  <2>10. MovedIn'
    BY <1>0, <2>1, <2>2, <2>3 DEF MovedIn, Issues, HoldsQk, Served, Past, Serving, Settled, Phases, HeldBack, Flags, VPending
  <2>11. QED
    BY <1>00, <2>4, <2>5, <2>6, <2>7, <2>8, <2>9, <2>10
<1>7. CASE Requant(c)
  <2>1. /\ gpc[c] = "requant" /\ gpc' = [gpc EXCEPT ![c] = IF HostPack THEN "packReq" ELSE "pack"]
        /\ tile' = tile /\ scales' = [scales EXCEPT ![c] = tile[c]] /\ sf' = sf
    BY <1>7 DEF Requant, Goto
  <2>2. mbox' = mbox
    BY <1>7 DEF Requant
  <2>3. /\ spad' \in [Clusters -> [{"a", "b"} -> {"Q", "K", "P", "V"} \X Tile]]
        /\ \A d \in Clusters : d # c => spad'[d] = spad[d]
        /\ spad'[c].a = <<"P", tile[c]>> /\ spad'[c].b = spad[c].b
    <3>1. tile[c] \in Tile
      BY <1>0, Sizes DEF Tile
    <3>2. QED
      BY <1>0, <1>7, <3>1 DEF Requant
  <2>4. scales' \in [Clusters -> Tile] /\ \A d \in Clusters : gpc'[d] = IF d = c THEN IF HostPack THEN "packReq" ELSE "pack" ELSE gpc[d]
    <3>1. tile[c] \in Tile
      BY <1>0, Sizes DEF Tile
    <3>2. QED
      BY <1>0, <2>1, <3>1
  <2>5. ~expired => ~(hpc = "qkDone")
    <3>1. SUFFICES ASSUME ~expired, hpc = "qkDone" PROVE FALSE
      OBVIOUS
    <3>2. tile[c] >= ht
      BY <3>1 DEF Served
    <3>3. mbox[c].vReady = ht
      BY <3>1 DEF Flags, VPending
    <3>4. mbox[c].vReady >= tile[c] + 1
      BY <1>0, <2>1, <3>1 DEF HeldBack
    <3>5. tile[c] \in Int /\ ht \in Int
      BY <1>0
    <3>6. QED
      BY <3>2, <3>3, <3>4, <3>5
  <2>6. Ranges'
    BY <1>0, <2>1, <2>2, <2>3, <2>4, <2>5, GpuFrame DEF Ranges, TypeOK, GpuStates
  <2>7. Phases'
    BY <1>0, <2>1, <2>2, <2>3, <2>4, <2>5 DEF Phases
  <2>8. GpuCounts'
    BY <1>0, <2>1, <2>2, <2>3, <2>4, <2>5 DEF GpuCounts
  <2>9. HeldBack'
    BY <1>0, <2>1, <2>2, <2>3, <2>4, <2>5 DEF HeldBack
  <2>10. Served'
    BY <1>0, <2>1, <2>2, <2>3, <2>4, <2>5 DEF Served, Past
  <2>11. PackedScales'
    BY <1>0, <2>1, <2>2, <2>3, <2>4, <2>5 DEF PackedScales, Halves, Settled
  <2>12. MovedIn'
    BY <1>0, <2>1, <2>2, <2>3, <2>4, <2>5 DEF MovedIn, Issues, HoldsQk, Served, Past, Serving, Settled, Phases, HeldBack, Flags, VPending
  <2>13. QED
    BY <1>00, <2>6, <2>7, <2>8, <2>9, <2>10, <2>11, <2>12
<1>8. CASE Pack(c)
  <2>1. /\ gpc[c] = "pack" /\ gpc' = [gpc EXCEPT ![c] = "pvRun"]
        /\ tile' = tile /\ scales' = scales /\ sf' = [sf EXCEPT ![c].act0 = scales[c]] /\ spad' = spad
    BY <1>8 DEF Pack, Goto
  <2>2. mbox' = mbox
    BY <1>8 DEF Pack
  <2>3. Ranges'
    BY <1>0, <2>1, <2>2, GpuFrame DEF Ranges, TypeOK, GpuStates, Tile, Halves
  <2>4. Phases'
    BY <1>0, <2>1, <2>2 DEF Phases
  <2>5. GpuCounts'
    BY <1>0, <2>1, <2>2 DEF GpuCounts, PackedScales
  <2>6. HeldBack'
    BY <1>0, <2>1, <2>2 DEF HeldBack, PackedScales
  <2>7. Served'
    BY <1>0, <2>1, <2>2 DEF Served, Past
  <2>8. PackedScales'
    BY <1>0, <2>1, <2>2 DEF PackedScales, Halves, Settled
  <2>9. MovedIn'
    BY <1>0, <2>1, <2>2 DEF MovedIn, Issues, HoldsQk, Served, Past, Serving, Settled, Phases, HeldBack, Flags, VPending
  <2>10. QED
    BY <1>00, <2>3, <2>4, <2>5, <2>6, <2>7, <2>8, <2>9
<1>9. CASE PackReq(c)
  <2>1. /\ gpc[c] = "packReq" /\ gpc' = [gpc EXCEPT ![c] = "packWait"]
        /\ tile' = tile /\ scales' = scales /\ sf' = sf /\ spad' = spad
    BY <1>9 DEF PackReq, Goto
  <2>2. /\ mbox' \in [Clusters -> [Slots -> Nat]]
        /\ \A d \in Clusters : /\ mbox'[d].qkDone = mbox[d].qkDone
                               /\ mbox'[d].pvDone = mbox[d].pvDone
                               /\ mbox'[d].packReq = IF d = c THEN tile[c] + 1 ELSE mbox[d].packReq
    <3>1. {"qkDone", "pvDone", "packReq"} \subseteq Slots /\ tile[c] + 1 \in Nat /\ TypeOK
      BY <1>0 DEF Slots, GpuSlots, Ranges
    <3>2. Post(c, "packReq", tile[c] + 1)
      BY <1>9 DEF PackReq
    <3>3. \A d \in Clusters, s \in Slots :
            mbox'[d][s] = IF d = c /\ s = "packReq" THEN tile[c] + 1 ELSE mbox[d][s]
      BY <3>1, <3>2, Posted
    <3>4. mbox' \in [Clusters -> [Slots -> Nat]]
      BY <3>1, <3>2, Posted
    <3>5. QED
      BY <3>1, <3>3, <3>4
  <2>3. Ranges'
    BY <1>0, <2>1, <2>2, GpuFrame DEF Ranges, TypeOK, GpuStates
  <2>4. Phases'
    BY <1>0, <2>1, <2>2 DEF Phases
  <2>5. GpuCounts'
    BY <1>0, <2>1, <2>2, ZenonT(60) DEF GpuCounts
  <2>6. HeldBack'
    BY <1>0, <2>1, <2>2, ZenonT(60) DEF HeldBack
  <2>7. Served'
    BY <1>0, <2>1, <2>2 DEF Served, Past
  <2>8. PackedScales'
    BY <1>0, <2>1, <2>2 DEF PackedScales, Halves, Settled
  <2>9. MovedIn'
    BY <1>0, <2>1, <2>2 DEF MovedIn, Issues, HoldsQk, Served, Past, Serving, Settled, Phases, HeldBack, Flags, VPending
  <2>10. QED
    BY <1>00, <2>3, <2>4, <2>5, <2>6, <2>7, <2>8, <2>9
<1>10. CASE PackWait(c)
  <2>1. /\ gpc[c] = "packWait" /\ gpc' = [gpc EXCEPT ![c] = "pvRun"]
        /\ tile' = tile /\ scales' = scales /\ sf' = sf /\ spad' = spad
    BY <1>10 DEF PackWait, AwaitHost, AwaitOrExpire, Goto
  <2>2. mbox' = mbox
    BY <1>10 DEF PackWait, AwaitHost, AwaitOrExpire
  <2>3. ~expired' => mbox[c].packed >= tile[c] + 1
    BY <1>10, <1>0 DEF PackWait, AwaitHost, AwaitOrExpire
  <2>4. Ranges'
    BY <1>0, <2>1, <2>2, <2>3, GpuFrame DEF Ranges, TypeOK, GpuStates
  <2>5. Phases'
    BY <1>0, <2>1, <2>2, <2>3 DEF Phases
  <2>6. GpuCounts'
    BY <1>0, <2>1, <2>2, <2>3 DEF GpuCounts
  <2>7. HeldBack'
    BY <1>0, <2>1, <2>2, <2>3 DEF HeldBack
  <2>8. Served'
    BY <1>0, <2>1, <2>2, <2>3 DEF Served, Past
  <2>9. PackedScales'
    BY <1>0, <2>1, <2>2, <2>3 DEF PackedScales, Halves, Settled
  <2>10. MovedIn'
    BY <1>0, <2>1, <2>2, <2>3 DEF MovedIn, Issues, HoldsQk, Served, Past, Serving, Settled, Phases, HeldBack, Flags, VPending
  <2>11. QED
    BY <1>00, <2>4, <2>5, <2>6, <2>7, <2>8, <2>9, <2>10
<1>11. CASE PvDone(c)
  <2>1. /\ gpc[c] = "pvRun" /\ gpc' = [gpc EXCEPT ![c] = "finalize"]
        /\ tile' = [tile EXCEPT ![c] = @ + 1] /\ scales' = scales /\ sf' = sf /\ spad' = spad
    BY <1>11 DEF PvDone, Goto
  <2>2. /\ mbox' \in [Clusters -> [Slots -> Nat]]
        /\ \A d \in Clusters : /\ mbox'[d].qkDone = mbox[d].qkDone
                               /\ mbox'[d].pvDone = IF d = c THEN tile[c] + 1 ELSE mbox[d].pvDone
                               /\ mbox'[d].packReq = mbox[d].packReq
    <3>1. {"qkDone", "pvDone", "packReq"} \subseteq Slots /\ tile[c] + 1 \in Nat /\ TypeOK
      BY <1>0 DEF Slots, GpuSlots, Ranges
    <3>2. Post(c, "pvDone", tile[c] + 1)
      BY <1>11 DEF PvDone
    <3>3. \A d \in Clusters, s \in Slots :
            mbox'[d][s] = IF d = c /\ s = "pvDone" THEN tile[c] + 1 ELSE mbox[d][s]
      BY <3>1, <3>2, Posted
    <3>4. mbox' \in [Clusters -> [Slots -> Nat]]
      BY <3>1, <3>2, Posted
    <3>5. \A d \in Clusters : /\ mbox'[d].qkDone = mbox[d].qkDone
                              /\ mbox'[d].packReq = mbox[d].packReq
      BY <3>1, <3>3
    <3>6. \A d \in Clusters : mbox'[d].pvDone = IF d = c THEN tile[c] + 1 ELSE mbox[d].pvDone
      BY <3>1, <3>3
    <3>7. QED
      BY <3>4, <3>5, <3>6
  <2>3. /\ tile[c] < NumTiles /\ tile' \in [Clusters -> 0 .. NumTiles]
        /\ \A d \in Clusters : tile'[d] = IF d = c THEN tile[c] + 1 ELSE tile[d]
    <3>1. tile[c] < NumTiles
      BY <2>1 DEF Ranges
    <3>2. tile[c] + 1 \in 0 .. NumTiles
      BY <1>0, <3>1
    <3>3. QED
      BY <1>0, <2>1, <3>1, <3>2
  <2>4. Ranges'
    BY <1>0, <2>1, <2>2, <2>3, GpuFrame DEF Ranges, TypeOK, GpuStates
  <2>5. Phases'
    BY <1>0, <2>1, <2>2, <2>3 DEF Phases
  <2>6. GpuCounts'
    BY <1>0, <2>1, <2>2, <2>3, ZenonT(60) DEF GpuCounts
  <2>7. HeldBack'
    BY <1>0, <2>1, <2>2, <2>3 DEF HeldBack
  <2>8. Served'
    BY <1>0, <2>1, <2>2, <2>3 DEF Served, Past
  <2>9. PackedScales'
    BY <1>0, <2>1, <2>2, <2>3 DEF PackedScales, Halves, Settled
  <2>10. MovedIn'
    BY <1>0, <2>1, <2>2, <2>3 DEF MovedIn, Issues, HoldsQk, Served, Past, Serving, Settled, Phases, HeldBack, Flags, VPending
  <2>11. QED
    BY <1>00, <2>4, <2>5, <2>6, <2>7, <2>8, <2>9, <2>10
<1>12. CASE Finalize(c)
  <2>1. /\ gpc[c] = "finalize" /\ gpc' = [gpc EXCEPT ![c] = IF tile[c] < NumTiles THEN "qkIssue" ELSE "end"]
        /\ tile' = tile /\ scales' = scales /\ sf' = sf /\ spad' = spad
    BY <1>12 DEF Finalize, Goto
  <2>2. mbox' = mbox
    BY <1>12 DEF Finalize
  <2>3. Ranges'
    BY <1>0, <2>1, <2>2, GpuFrame DEF Ranges, TypeOK, GpuStates
  <2>4. Phases'
    BY <1>0, <2>1, <2>2 DEF Phases
  <2>5. GpuCounts'
    BY <1>0, <2>1, <2>2 DEF GpuCounts
  <2>6. HeldBack'
    BY <1>0, <2>1, <2>2 DEF HeldBack
  <2>7. Served'
    BY <1>0, <2>1, <2>2 DEF Served, Past
  <2>8. PackedScales'
    BY <1>0, <2>1, <2>2 DEF PackedScales, Halves, Settled
  <2>9. MovedIn'
    BY <1>0, <2>1, <2>2 DEF MovedIn, Issues, HoldsQk, Served, Past, Serving, Settled, Phases, HeldBack, Flags, VPending
  <2>10. QED
    BY <1>00, <2>3, <2>4, <2>5, <2>6, <2>7, <2>8, <2>9
<1>13. QED
  BY <1>1, <1>2, <1>3, <1>4, <1>5, <1>6, <1>7, <1>8, <1>9, <1>10, <1>11, <1>12 DEF Gpu
(* The host's steps leave the clusters where they are.                     *)
LEMMA HostFrame ==
  ASSUME Refill, Host
  PROVE  /\ build' = build /\ gpc' = gpc /\ tile' = tile /\ scales' = scales
         /\ (HostCfg' <=> HostCfg) /\ (HostPack' <=> HostPack) /\ (CleanPack' <=> CleanPack)
         /\ \A c \in Clusters : Issues(c)' <=> Issues(c)
         /\ expired \in BOOLEAN /\ expired' \in BOOLEAN /\ (~expired' => ~expired)
<1>1. build' = build /\ gpc' = gpc /\ tile' = tile /\ scales' = scales
  BY DEF Host, Push, Clear, PrefillV, Capture, ServicePack, NextTile, Window1, Window2, AwaitGpu, gpu
<1>2. expired \in BOOLEAN /\ expired' \in BOOLEAN /\ (~expired' => ~expired)
  BY DEF Host, Push, Clear, PrefillV, Capture, ServicePack, NextTile, Window1, Window2, AwaitGpu,
     AwaitOrExpire, Refill, Ranges, TypeOK
<1>3. QED
  BY <1>1, <1>2 DEF HostCfg, HostPack, CleanPack, Issues

(* One write of a burst.                                                   *)
LEMMA PushKeepsRefill ==
  ASSUME Refill, Host, Push
  PROVE  Refill'
<1> USE DEF Refill
<1> DEFINE w == Head(burst)
           P == Pending(burst)
<1>0. /\ build' = build /\ gpc' = gpc /\ tile' = tile /\ scales' = scales
      /\ (HostCfg' <=> HostCfg) /\ (HostPack' <=> HostPack) /\ (CleanPack' <=> CleanPack)
      /\ \A c \in Clusters : Issues(c)' <=> Issues(c)
      /\ expired' = expired /\ hpc' = hpc /\ ht' = ht /\ burst' = Tail(burst) /\ burst # <<>>
  BY HostFrame DEF Push
<1>1. /\ w \in P /\ w \in Writes
      /\ Proper(Tail(burst)) /\ Pending(burst') = P \ {w}
      /\ w[1] \in HostSlots => \A u \in P : u[1] \in HostSlots
  BY <1>0, Written DEF Bursts
<1>2. PICK what \in Halves \cup HostSlots \cup {"cfgQK", "cfgPV"}, e \in Clusters, value \in Tile :
        w = <<what, e, value>>
  BY <1>1 DEF Writes
<1>3. \/ what \in QkHalves \cup {"cfgQK"} /\ value = ht /\ hpc \in {"prefillV", "qkDone"}
      \/ what = "qkReady" /\ value = ht + 1 /\ hpc \in {"prefillV", "qkDone"}
      \/ what \in {"w1", "cfgPV"} /\ value = ht /\ hpc \in Serving
      \/ what = "vReady" /\ value = ht + 1 /\ hpc \in Serving
      \/ what = "act0" /\ HostPack /\ hpc = "next"
      \/ what = "packed" /\ value = ht + 1 /\ hpc = "next"
  <2>1. <<what, e, value>> \in Due
    BY <1>1, <1>2 DEF Bursts
  <2>2. \A x, v : <<what, e, value>> \in To(x, v) => what = x /\ value = v
    BY DEF To
  <2>3. CASE hpc \in {"prefillV", "qkDone"}
    <3>1. <<what, e, value>> \in QkDue
      BY <2>1, <2>3 DEF Due, Serving
    <3>2. QED
      BY <2>2, <2>3, <3>1 DEF QkDue, QkHalves
  <2>4. CASE hpc = "next" /\ HostPack
    <3>1. <<what, e, value>> \in PackDue
      BY <2>1, <2>4 DEF Due
    <3>2. CASE <<what, e, value>> \in To("packed", ht + 1)
      BY <2>2, <2>4, <3>2
    <3>3. CASE \E v \in Tile : <<what, e, value>> \in To("act0", v)
      BY <2>2, <2>4, <3>3
    <3>4. CASE <<what, e, value>> \in UNION {To("act0", v) : v \in Tile}
      <4>1. PICK S \in {To("act0", v) : v \in Tile} : <<what, e, value>> \in S
        BY <3>4
      <4>2. QED
        BY <3>3, <4>1
    <3>5. \/ <<what, e, value>> \in UNION {To("act0", v) : v \in Tile}
          \/ <<what, e, value>> \in To("packed", ht + 1)
      BY <3>1 DEF PackDue
    <3>6. QED
      BY <3>2, <3>4, <3>5
  <2>5. CASE hpc \in Serving /\ ~(hpc = "next" /\ HostPack)
    <3>1. hpc \notin {"prefillV", "qkDone"}
      BY <2>5 DEF Serving
    <3>2. <<what, e, value>> \in VDue
      BY <2>1, <2>5, <3>1 DEF Due
    <3>3. QED
      BY <2>2, <2>5, <3>2 DEF VDue
  <2>6. CASE hpc \notin {"prefillV", "qkDone"} \cup Serving
    <3>1. Due = {}
      BY <2>6 DEF Due, Serving
    <3>2. QED
      BY <2>1, <3>1
  <2>7. QED
    BY <2>3, <2>4, <2>5, <2>6
<1>4. /\ gpc \in [Clusters -> GpuStates] /\ tile \in [Clusters -> 0 .. NumTiles] /\ ht \in Nat
      /\ mbox \in [Clusters -> [Slots -> Nat]] /\ sf \in [Clusters -> [Halves -> Tile]]
      /\ spad \in [Clusters -> [{"a", "b"} -> {"Q", "K", "P", "V"} \X Tile]]
      /\ burst \in Seq(Writes) /\ hpc \in HostStates
  BY Sizes DEF Ranges, TypeOK
<1>5. /\ HostSlots = {"qkReady", "vReady", "packed"}
      /\ Slots = {"qkReady", "vReady", "packed", "qkDone", "pvDone", "cfgRec", "packReq"}
      /\ Halves = {"act0", "act1", "w0", "w1"}
  BY DEF HostSlots, Slots, GpuSlots, Halves
<1>6. hpc \in {"prefillV", "qkDone"} \cup Serving
  BY <1>3 DEF Serving
<1>7. Bursts'
  <2>1. Due' = Due /\ \A c \in Clusters : FlagDue(c)' = FlagDue(c)
    BY <1>0 DEF Due, QkDue, VDue, PackDue, FlagDue
  <2>2. Proper(burst') /\ Pending(burst') \subseteq Due'
    BY <1>0, <1>1, <2>1 DEF Bursts
  <2>3. ASSUME NEW c \in Clusters, NEW u \in Pending(burst'), u[1] \notin HostSlots
        PROVE  FlagDue(c)' \in Pending(burst')
    <3>1. u \in P /\ w[1] \notin HostSlots
      BY <1>1, <2>3
    <3>2. FlagDue(c) \in P
      BY <2>3, <3>1 DEF Bursts
    <3>3. FlagDue(c)[1] \in HostSlots
      BY <1>5 DEF FlagDue
    <3>4. QED
      BY <1>1, <2>1, <3>1, <3>2, <3>3
  <2>4. QED
    BY <1>0, <1>1, <2>2, <2>3 DEF Bursts
<1>8. Phases'
  BY <1>0 DEF Phases
<1> HIDE DEF w, P
<1>9. CASE what \in Halves
  <2>1. sf' = [sf EXCEPT ![e][what] = value] /\ mbox' = mbox /\ spad' = spad
    BY <1>2, <1>5, <1>9 DEF Push, w
  <2>2. \A c \in Clusters, x \in Halves :
          sf'[c][x] = IF c = e /\ x = what THEN value ELSE sf[c][x]
    BY <1>4, <1>9, <2>1
  <2>3. \/ what \in QkHalves /\ value = ht /\ hpc \in {"prefillV", "qkDone"}
        \/ what = "w1" /\ value = ht /\ hpc \in Serving
        \/ what = "act0" /\ HostPack /\ hpc = "next"
    BY <1>3, <1>5, <1>9
  <2>4. \A u : u[1] # what => (u \in Pending(burst') <=> u \in Pending(burst))
    BY <1>1, <1>2 DEF P
  <2>5. \A c \in Clusters : \A v : <<what, c, v>> \in Pending(burst) =>
                                 (c = e /\ v = value) \/ <<what, c, v>> \in Pending(burst')
    BY <1>1, <1>2 DEF P
  <2>6. Pending(burst') \subseteq Pending(burst) /\ <<what, e, value>> \in Pending(burst)
    BY <1>1, <1>2 DEF P
  <2>7. Ranges'
    BY <1>0, <1>1, <1>4, <1>9, <2>1 DEF Ranges, TypeOK, Proper
  <2>8. GpuCounts' /\ HeldBack' /\ Served'
    BY <1>0, <2>1 DEF GpuCounts, HeldBack, Served, Past
  <2>9. Flags'
    <3>1. \A c \in Clusters : QkPending(c)' = QkPending(c) /\ VPending(c)' = VPending(c)
                              /\ PackPending(c)' = PackPending(c)
      BY <1>0, <1>5, <1>9, <2>4 DEF QkPending, VPending, PackPending
    <3>2. QED
      BY <1>0, <2>1, <3>1 DEF Flags
  <2>10. Refilled'
    <3>1. hpc \notin Settled
      BY <1>6 DEF Settled, Serving
    <3>2. \A c \in Clusters, x \in QkHalves : <<x, c, ht>> \in Pending(burst') \/ sf'[c][x] = ht
      BY <1>5, <2>2, <2>3, <2>4, <2>5, <3>1 DEF Refilled, QkHalves, Serving
    <3>3. \A c \in Clusters : hpc \in Serving => <<"w1", c, ht>> \in Pending(burst') \/ sf'[c].w1 = ht
      BY <1>5, <2>2, <2>3, <2>4, <2>5, <3>1 DEF Refilled, QkHalves, Serving
    <3>4. QED
      BY <1>0, <3>1, <3>2, <3>3 DEF Refilled
  <2>11. PackedScales'
    <3>1. hpc \notin Settled
      BY <1>6 DEF Settled, Serving
    <3>2. ~HostPack => \A c \in Clusters : sf'[c].act0 = sf[c].act0
      BY <1>5, <2>2, <2>3 DEF QkHalves
    <3>3. \A c \in Clusters : ~expired /\ HostPack /\ CleanPack /\ hpc = "next" =>
            <<"act0", c, ht>> \in Pending(burst') \/ sf'[c].act0 = ht
      <4>1. SUFFICES ASSUME NEW c \in Clusters, ~expired, HostPack, CleanPack, hpc = "next",
                            <<"act0", c, ht>> \notin Pending(burst')
                     PROVE  sf'[c].act0 = ht
        OBVIOUS
      <4>2. what = "act0" => value = ht
        BY <2>6, <4>1 DEF PackedScales
      <4>3. QED
        BY <1>5, <2>2, <2>4, <2>5, <4>1, <4>2 DEF PackedScales
    <3>4. QED
      BY <1>0, <2>6, <3>1, <3>2, <3>3 DEF PackedScales
  <2>12. MovedIn'
    BY <1>0, <1>5, <1>9, <2>1, <2>4 DEF MovedIn, HoldsQk
  <2>13. QED
    BY <1>7, <1>8, <2>7, <2>8, <2>9, <2>10, <2>11, <2>12
<1>10. CASE what \in HostSlots
  <2>1. Post(e, what, value) /\ sf' = sf /\ spad' = spad
    BY <1>2, <1>5, <1>10 DEF Push, w
  <2>2. /\ mbox' \in [Clusters -> [Slots -> Nat]]
        /\ \A c \in Clusters, s \in Slots :
             mbox'[c][s] = IF c = e /\ s = what THEN value ELSE mbox[c][s]
    <3>1. what \in Slots /\ value \in Nat /\ TypeOK
      BY <1>5, <1>10, Sizes DEF Tile, Ranges
    <3>2. QED
      BY <2>1, <3>1, Posted
  <2>3. /\ value = ht + 1
        /\ what = "qkReady" => hpc \in {"prefillV", "qkDone"}
        /\ what = "vReady" => hpc \in Serving
        /\ what = "packed" => hpc = "next"
    BY <1>3, <1>5, <1>10 DEF QkHalves, Serving
  <2>4. \A u : u # <<what, e, value>> => (u \in Pending(burst') <=> u \in Pending(burst))
    BY <1>1, <1>2 DEF P
  <2>5. <<what, e, value>> \in Pending(burst) /\ <<what, e, value>> \notin Pending(burst')
    BY <1>1, <1>2 DEF P
  <2>6. Ranges'
    BY <1>0, <1>1, <1>4, <2>1, <2>2 DEF Ranges, TypeOK, Proper
  <2>7. GpuCounts'
    BY <1>0, <1>5, <1>10, <2>2 DEF GpuCounts
  <2>8. Flags'
    <3>1. hpc \notin Settled /\ hpc # "boot"
      BY <1>6 DEF Settled, Serving
    <3>2. ASSUME NEW c \in Clusters
          PROVE  mbox'[c].qkReady = IF QkPending(c)' THEN ht ELSE ht + 1
      BY <1>0, <1>5, <2>2, <2>3, <2>4, <2>5, <3>1 DEF Flags, QkPending
    <3>3. ASSUME NEW c \in Clusters
          PROVE  mbox'[c].vReady = IF VPending(c)' THEN ht ELSE ht + 1
      BY <1>0, <1>5, <2>2, <2>3, <2>4, <2>5, <3>1 DEF Flags, VPending, Serving
    <3>4. ASSUME NEW c \in Clusters, HostPack, CleanPack
          PROVE  mbox'[c].packed = IF PackPending(c)' THEN ht ELSE ht + 1
      BY <1>0, <1>5, <2>2, <2>3, <2>4, <2>5, <3>4 DEF Flags, PackPending
    <3>5. QED
      BY <1>0, <3>2, <3>3, <3>4 DEF Flags
  <2>9. \A c \in Clusters : /\ mbox'[c].qkReady >= mbox[c].qkReady
                            /\ mbox'[c].vReady >= mbox[c].vReady
                            /\ HostPack /\ CleanPack => mbox'[c].packed >= mbox[c].packed
    <3>1. hpc # "boot"
      BY <1>6 DEF Serving
    <3>2. \A c \in Clusters : mbox[c].qkReady \in {ht, ht + 1} /\ mbox[c].vReady \in {ht, ht + 1}
                              /\ (HostPack /\ CleanPack => mbox[c].packed \in {ht, ht + 1})
      BY <3>1 DEF Flags
    <3>3. \A c \in Clusters, s \in HostSlots : mbox'[c][s] = IF c = e /\ s = what THEN ht + 1 ELSE mbox[c][s]
      BY <1>5, <2>2, <2>3
    <3>4. ASSUME NEW c \in Clusters, NEW s \in HostSlots, mbox[c][s] \in {ht, ht + 1}
          PROVE  mbox'[c][s] >= mbox[c][s]
      <4>1. mbox'[c][s] \in {ht + 1, mbox[c][s]} /\ ht \in Int
        BY <1>4, <3>3
      <4>2. QED
        BY <3>4, <4>1
    <3>5. QED
      BY <1>5, <3>2, <3>4
  <2>10. HeldBack'
    <3>1. \A c \in Clusters, s \in HostSlots : mbox[c][s] \in Int /\ mbox'[c][s] \in Int
      <4>1. HostSlots \subseteq Slots
        BY <1>5
      <4>2. QED
        BY <1>4, <2>2, <4>1
    <3>2. \A c \in Clusters : tile[c] \in Int
      BY <1>4
    <3>3. QED
      BY <1>0, <1>5, <2>9, <3>1, <3>2, SMTT(30) DEF HeldBack
  <2>11. Served'
    BY <1>0 DEF Served, Past
  <2>12. Refilled' /\ PackedScales' /\ MovedIn'
    <3>1. \A x, c, v : x \notin HostSlots =>
            (<<x, c, v>> \in Pending(burst') <=> <<x, c, v>> \in Pending(burst))
      BY <1>10, <2>4
    <3>2. \A x \in QkHalves \cup {"w1", "act0", "cfgQK", "cfgPV"} : x \notin HostSlots
      BY <1>5 DEF QkHalves
    <3>3. Refilled'
      BY <1>0, <2>1, <3>1, <3>2 DEF Refilled
    <3>4. PackedScales'
      BY <1>0, <2>1, <3>1, <3>2 DEF PackedScales
    <3>5. MovedIn'
      BY <1>0, <2>1, <3>1, <3>2 DEF MovedIn, HoldsQk
    <3>6. QED
      BY <3>3, <3>4, <3>5
  <2>13. QED
    BY <1>7, <1>8, <2>6, <2>7, <2>8, <2>10, <2>11, <2>12
<1>11. CASE what \in {"cfgQK", "cfgPV"}
  <2>1. /\ what = "cfgQK" => spad' = [spad EXCEPT ![e] = [a |-> <<"Q", value>>, b |-> <<"K", value>>]]
        /\ what = "cfgPV" => spad' = [spad EXCEPT ![e].b = <<"V", value>>]
        /\ mbox' = mbox /\ sf' = sf
    BY <1>2, <1>5, <1>11 DEF Push, w
  <2>2. /\ spad' \in [Clusters -> [{"a", "b"} -> {"Q", "K", "P", "V"} \X Tile]]
        /\ \A c \in Clusters : c # e => spad'[c] = spad[c]
        /\ what = "cfgQK" => spad'[e].a = <<"Q", value>> /\ spad'[e].b = <<"K", value>>
        /\ what = "cfgPV" => spad'[e].a = spad[e].a /\ spad'[e].b = <<"V", value>>
    <3>1. [a |-> <<"Q", value>>, b |-> <<"K", value>>] \in [{"a", "b"} -> {"Q", "K", "P", "V"} \X Tile]
      OBVIOUS
    <3>2. CASE what = "cfgQK"
      <4>1. spad' = [spad EXCEPT ![e] = [a |-> <<"Q", value>>, b |-> <<"K", value>>]]
        BY <2>1, <3>2
      <4>2. what # "cfgPV"
        BY <3>2
      <4>3. QED
        BY <1>4, <3>1, <4>1, <4>2
    <3>3. CASE what = "cfgPV"
      <4>1. spad' = [spad EXCEPT ![e].b = <<"V", value>>]
        BY <2>1, <3>3
      <4>2. what # "cfgQK" /\ <<"V", value>> \in {"Q", "K", "P", "V"} \X Tile
        BY <3>3
      <4>3. QED
        BY <1>4, <4>1, <4>2
    <3>4. QED
      BY <1>11, <3>2, <3>3
  <2>3. /\ value = ht /\ HostCfg /\ ht >= 1
        /\ what = "cfgQK" => hpc = "qkDone"
        /\ what = "cfgPV" => hpc \in Serving
    <3>1. HostCfg /\ ht >= 1
      BY <1>1, <1>2, <1>11 DEF Bursts, P
    <3>2. hpc # "prefillV"
      BY <1>4, <3>1 DEF Phases
    <3>3. QED
      BY <1>3, <1>5, <1>11, <3>1, <3>2 DEF QkHalves
  <2>4. \A u : u[1] # what => (u \in Pending(burst') <=> u \in Pending(burst))
    BY <1>1, <1>2 DEF P
  <2>5. \A c \in Clusters : \A v : <<what, c, v>> \in Pending(burst) =>
                                 (c = e /\ v = value) \/ <<what, c, v>> \in Pending(burst')
    BY <1>1, <1>2 DEF P
  <2>6. Ranges'
    BY <1>0, <1>1, <1>4, <2>1, <2>2 DEF Ranges, TypeOK, Proper
  <2>7. GpuCounts' /\ HeldBack' /\ Served'
    BY <1>0, <2>1 DEF GpuCounts, HeldBack, Served, Past
  <2>8. Flags'
    <3>1. \A c \in Clusters : QkPending(c)' = QkPending(c) /\ VPending(c)' = VPending(c)
                              /\ PackPending(c)' = PackPending(c)
      BY <1>0, <1>5, <1>11, <2>4 DEF QkPending, VPending, PackPending
    <3>2. QED
      BY <1>0, <2>1, <3>1 DEF Flags
  <2>9. Refilled'
    BY <1>0, <1>5, <1>11, <2>1, <2>4 DEF Refilled, QkHalves
  <2>10. PackedScales'
    BY <1>0, <1>5, <1>11, <2>1, <2>4 DEF PackedScales
  <2>11. ~expired => \A c \in Clusters : tile[c] >= ht
    <3>1. hpc # "prefillV"
      BY <1>4, <2>3 DEF Phases
    <3>2. ht \in Int /\ \A c \in Clusters : tile[c] \in Int
      BY <1>4
    <3>3. CASE hpc = "qkDone"
      BY <3>3 DEF Served
    <3>4. CASE hpc \in Serving
      <4>1. ~expired => \A c \in Clusters : tile[c] > ht \/ tile[c] = ht
        BY <2>3, <3>4 DEF Served, Past
      <4>2. QED
        BY <3>2, <4>1
    <3>5. QED
      BY <1>6, <3>1, <3>3, <3>4
  <2>12. ~expired /\ what = "cfgQK" => gpc[e] \notin AfterPv
    <3>1. SUFFICES ASSUME ~expired, what = "cfgQK", gpc[e] \in AfterPv
                   PROVE  FALSE
      OBVIOUS
    <3>2. mbox[e].vReady = ht
      BY <2>3, <3>1 DEF Flags, VPending
    <3>3. mbox[e].vReady >= tile[e] + 1
      BY <2>3, <3>1 DEF HeldBack
    <3>4. QED
      BY <1>4, <2>11, <3>1, <3>2, <3>3
  <2>13. MovedIn'
    <3>1. SUFFICES ASSUME ~expired, NEW c \in Clusters
                   PROVE
            /\ Issues(c) /\ gpc[c] \in {"qkWait", "qkRun"} => HoldsQk(c, tile[c])'
            /\ Issues(c) /\ gpc[c] \in {"pvWait"} \cup AfterPv => spad'[c].b = <<"V", tile[c]>>
            /\ gpc[c] \in AfterPv \ {"requant"} => spad'[c].a = <<"P", tile[c]>>
            /\ HostCfg /\ hpc = "qkDone" => <<"cfgQK", c, ht>> \in Pending(burst') \/ HoldsQk(c, ht)'
            /\ HostCfg /\ hpc \in Serving /\ ht >= 1 /\ tile[c] = ht =>
                 <<"cfgPV", c, ht>> \in Pending(burst') \/ spad'[c].b = <<"V", ht>>
            /\ HostCfg /\ hpc \in Settled /\ ht >= 2 /\ tile[c] = ht - 1 => spad'[c].b = <<"V", ht - 1>>
      BY <1>0 DEF MovedIn, HoldsQk
    <3>2. ~Issues(c)
      BY <1>4, <2>3, <2>11, <3>1 DEF Issues
    <3>3. gpc[c] \in AfterPv \ {"requant"} => spad'[c].a = <<"P", tile[c]>>
      BY <1>11, <2>2, <2>12, <3>1 DEF MovedIn
    <3>4. HostCfg /\ hpc = "qkDone" => <<"cfgQK", c, ht>> \in Pending(burst') \/ HoldsQk(c, ht)'
      <4>1. HostCfg /\ hpc = "qkDone" => what = "cfgQK"
        BY <1>11, <2>3 DEF Serving
      <4>2. QED
        BY <1>0, <2>2, <2>3, <2>5, <3>1, <4>1 DEF MovedIn, HoldsQk
    <3>5. HostCfg /\ hpc \in Serving /\ ht >= 1 /\ tile[c] = ht =>
                 <<"cfgPV", c, ht>> \in Pending(burst') \/ spad'[c].b = <<"V", ht>>
      <4>1. hpc \in Serving => what = "cfgPV"
        BY <1>11, <2>3 DEF Serving
      <4>2. QED
        BY <2>2, <2>3, <2>5, <3>1, <4>1 DEF MovedIn
    <3>6. hpc \notin Settled
      BY <1>6 DEF Settled, Serving
    <3>7. QED
      BY <3>2, <3>3, <3>4, <3>5, <3>6
  <2>14. QED
    BY <1>7, <1>8, <2>6, <2>7, <2>8, <2>9, <2>10, <2>13
<1>12. QED
  BY <1>5, <1>9, <1>10, <1>11
(* When the host is ready for its next move, all it had to write is there. *)
LEMMA MoveFrame ==
  ASSUME Refill, Host, PrefillV \/ Capture \/ ServicePack \/ NextTile \/ Window1 \/ Window2
  PROVE  /\ mbox' = mbox /\ sf' = sf /\ spad' = spad
         /\ Pending(burst) = {} /\ hpc # "boot" /\ hpc' # "boot"
         /\ GpuCounts' /\ HeldBack'
         /\ \A c \in Clusters :
              /\ mbox[c].qkReady = IF hpc \in Settled THEN ht ELSE ht + 1
              /\ mbox[c].vReady = IF hpc \in {"prefillV", "qkDone"} \cup Settled THEN ht ELSE ht + 1
              /\ HostPack /\ CleanPack => mbox[c].packed = IF hpc # "next" THEN ht ELSE ht + 1
<1> USE DEF Refill
<1>1. /\ mbox' = mbox /\ sf' = sf /\ spad' = spad /\ burst = <<>>
      /\ hpc # "boot" /\ hpc' # "boot"
  BY DEF PrefillV, Capture, ServicePack, NextTile, Window1, Window2, AwaitGpu, Serve
<1>2. Pending(burst) = {}
  BY <1>1, EmptyBurst DEF Bursts
<1>3. GpuCounts' /\ HeldBack'
  BY <1>1, HostFrame DEF GpuCounts, HeldBack
<1>4. \A c \in Clusters :
        /\ QkPending(c) <=> hpc \in Settled
        /\ VPending(c) <=> hpc \in {"prefillV", "qkDone"} \cup Settled
        /\ PackPending(c) <=> hpc # "next"
  BY <1>2 DEF QkPending, VPending, PackPending
<1>5. QED
  BY <1>1, <1>2, <1>3, <1>4 DEF Flags

(* The other steps of the host.                                            *)
LEMMA MoveKeepsRefill ==
  ASSUME Refill, Host, ~Push
  PROVE  Refill'
<1> USE DEF Refill
<1>1. /\ build' = build /\ gpc' = gpc /\ tile' = tile /\ scales' = scales
      /\ (HostCfg' <=> HostCfg) /\ (HostPack' <=> HostPack) /\ (CleanPack' <=> CleanPack)
      /\ \A c \in Clusters : Issues(c)' <=> Issues(c)
      /\ expired' \in BOOLEAN /\ (~expired' => ~expired)
  BY HostFrame
<1>2. /\ gpc \in [Clusters -> GpuStates] /\ tile \in [Clusters -> 0 .. NumTiles]
      /\ ht \in 0 .. HostTiles /\ hpc \in HostStates /\ NumTiles \in Nat /\ HostTiles \in Nat
      /\ mbox \in [Clusters -> [Slots -> Nat]]
      /\ TypeOK
  BY Sizes DEF Ranges, TypeOK
<1>3. /\ ht \in Nat /\ (\A c \in Clusters : tile[c] \in Nat)
      /\ ht \in Tile /\ (ht < HostTiles => ht + 1 \in Tile)
  BY <1>2 DEF Tile
<1>4. /\ Settled = {"pvDone", "end"} /\ Serving = {"capture", "pack", "next"}
      /\ QkHalves = {"act1", "w0"}
      /\ HostSlots = {"qkReady", "vReady", "packed"}
      /\ Slots = {"qkReady", "vReady", "packed", "qkDone", "pvDone", "cfgRec", "packReq"}
      /\ Halves = {"act0", "act1", "w0", "w1"}
  BY DEF Settled, Serving, QkHalves, HostSlots, Slots, GpuSlots, Halves
<1>5. \A x, v, y, c, u : <<y, c, u>> \in To(x, v) => y = x /\ u = v
  BY DEF To
<1>6. \A x, v : \A c \in Clusters : <<x, c, v>> \in To(x, v)
  BY DEF To
<1>7. \A x, v : \A w \in To(x, v) : w[1] = x
  BY DEF To
<1>8. CASE Clear
  <2>1. /\ hpc = "boot" /\ hpc' = "prefillV" /\ ht = 0 /\ ht' = 0 /\ expired' = expired
        /\ burst' = QkScales \o Each("qkReady", 1)
        /\ sf' = sf /\ spad' = spad
        /\ mbox' = [c \in Clusters |-> [s \in Slots |-> IF s \in Cleared THEN 0 ELSE mbox[c][s]]]
    BY <1>8 DEF Clear, Phases
  <2>2. \A c \in Clusters : gpc[c] = "qkIssue" /\ tile[c] = 0
    BY <2>1 DEF Phases
  <2>3. /\ Proper(burst')
        /\ Pending(burst') = To("act1", ht) \cup To("w0", ht) \cup To("qkReady", ht + 1)
    <3>1. "qkReady" \in HostSlots /\ 1 \in Tile /\ "cfgQK" \in {"cfgQK", "cfgPV"}
      BY <1>4, Sizes DEF Tile
    <3>2. QED
      BY <1>3, <2>1, <3>1, Bursting
  <2>4. /\ mbox' \in [Clusters -> [Slots -> Nat]]
        /\ \A c \in Clusters : /\ mbox'[c].qkReady = 0 /\ mbox'[c].vReady = 0
                               /\ mbox'[c].qkDone = 0 /\ mbox'[c].pvDone = 0
                               /\ mbox'[c].packed = mbox[c].packed
                               /\ mbox'[c].packReq = mbox[c].packReq
    BY <1>2, <1>4, <2>1 DEF Cleared
  <2>5. Ranges'
    BY <1>1, <1>2, <2>1, <2>2, <2>3, <2>4, Sizes DEF Ranges, TypeOK, HostStates, Proper
  <2>6. Phases'
    BY <2>1 DEF Phases
  <2>7. Bursts'
    <3>1. Pending(burst') \subseteq Due'
      <4>1. Due' = QkDue'
        BY <2>1 DEF Due, Serving
      <4>2. QkDue' = QkDue
        BY <2>1 DEF QkDue
      <4>3. QED
        BY <2>3, <4>1, <4>2 DEF QkDue
    <3>2. \A c \in Clusters : FlagDue(c)' \in Pending(burst')
      BY <1>6, <2>1, <2>3 DEF FlagDue
    <3>3. \A c, v : <<"cfgQK", c, v>> \notin Pending(burst') /\ <<"cfgPV", c, v>> \notin Pending(burst')
      BY <1>5, <2>3
    <3>4. QED
      BY <2>3, <3>1, <3>2, <3>3 DEF Bursts
  <2>8. GpuCounts'
    BY <1>1, <2>1, <2>2, <2>4 DEF GpuCounts, AfterQk, PackAsked
  <2>9. Flags'
    <3>1. \A c \in Clusters : QkPending(c)' /\ VPending(c)' /\ PackPending(c)' /\ PackPending(c)
      BY <1>6, <2>1, <2>3 DEF QkPending, VPending, PackPending
    <3>2. QED
      BY <1>1, <2>1, <2>4, <3>1 DEF Flags
  <2>10. Refilled'
    <3>1. \A c \in Clusters, x \in QkHalves : <<x, c, ht>> \in Pending(burst')
      BY <1>4, <1>6, <2>3
    <3>2. QED
      BY <1>4, <2>1, <3>1 DEF Refilled
  <2>11. HeldBack'
    <3>1. \A c \in Clusters : mbox[c].packed \in Nat
      BY <1>2, <1>4
    <3>2. QED
      BY <1>1, <2>1, <2>2, <2>4, <3>1 DEF HeldBack, AfterQk, AfterPv
  <2>12. Served'
    BY <1>4, <2>1 DEF Served
  <2>13. PackedScales'
    BY <1>1, <1>4, <2>1, <2>2 DEF PackedScales
  <2>14. MovedIn'
    BY <1>1, <1>4, <2>1, <2>2 DEF MovedIn, AfterPv
  <2>15. QED
    BY <2>5, <2>6, <2>7, <2>8, <2>9, <2>10, <2>11, <2>12, <2>13, <2>14
<1>9. CASE PrefillV
  <2>1. /\ hpc = "prefillV" /\ hpc' = (IF HostCfg THEN "capture" ELSE Serve)
        /\ ht = 0 /\ ht' = ht /\ expired' = expired
        /\ burst' = VScales \o Each("vReady", 1)
    BY <1>9 DEF PrefillV, Phases
  <2>2. /\ mbox' = mbox /\ sf' = sf /\ spad' = spad
        /\ Pending(burst) = {} /\ hpc # "boot" /\ hpc' # "boot"
        /\ GpuCounts' /\ HeldBack'
        /\ \A c \in Clusters :
             /\ mbox[c].qkReady = IF hpc \in Settled THEN ht ELSE ht + 1
             /\ mbox[c].vReady = IF hpc \in {"prefillV", "qkDone"} \cup Settled THEN ht ELSE ht + 1
             /\ HostPack /\ CleanPack => mbox[c].packed = IF hpc # "next" THEN ht ELSE ht + 1
    BY <1>9, MoveFrame
  <2>3. Proper(burst') /\ Pending(burst') = To("w1", ht) \cup To("vReady", ht + 1)
    <3>1. "w1" \in Halves \cup {"cfgQK", "cfgPV"} /\ "vReady" \in HostSlots /\ 1 \in Tile
      BY <1>4, Sizes DEF Tile
    <3>2. QED
      BY <1>3, <2>1, <3>1, TwoKinds DEF VScales
  <2>4. hpc' \in Serving /\ (hpc' = "next" => ~HostPack) /\ (hpc' = "pack" => HostPack)
        /\ (hpc' = "capture" => HostCfg)
    BY <1>4, <2>1 DEF Serve
  <2>5. Ranges'
    BY <1>1, <1>2, <1>3, <1>4, <2>1, <2>2, <2>3, <2>4, Sizes DEF Ranges, TypeOK, HostStates, Proper
  <2>6. Phases'
    BY <1>1, <1>3, <1>4, <2>1, <2>2, <2>3, <2>4 DEF Phases
  <2>7. Bursts'
    <3>1. Pending(burst') \subseteq Due'
      BY <1>1, <1>3, <1>4, <2>1, <2>2, <2>3, <2>4 DEF Due, QkDue, VDue, PackDue
    <3>2. \A c \in Clusters : FlagDue(c)' \in Pending(burst')
      BY <1>6, <1>1, <1>3, <1>4, <2>1, <2>2, <2>3, <2>4 DEF FlagDue
    <3>3. \A c, v : <<"cfgQK", c, v>> \in Pending(burst') \/ <<"cfgPV", c, v>> \in Pending(burst') => HostCfg /\ ht >= 1
      BY <1>5, <2>1, <2>3
    <3>4. QED
      BY <1>1, <2>1, <2>3, <3>1, <3>2, <3>3 DEF Bursts
  <2>8. Flags'
    <3>1. \A c \in Clusters : (QkPending(c)' <=> hpc' \in Settled)
      BY <1>5, <1>6, <1>1, <1>3, <1>4, <2>1, <2>2, <2>3, <2>4 DEF QkPending
    <3>2. \A c \in Clusters : VPending(c)'
      BY <1>5, <1>6, <1>1, <1>3, <1>4, <2>1, <2>2, <2>3, <2>4 DEF VPending
    <3>3. \A c \in Clusters : (PackPending(c)' <=> hpc' # "next")
      BY <1>5, <1>6, <1>1, <1>3, <1>4, <2>1, <2>2, <2>3, <2>4 DEF PackPending
    <3>4. QED
      BY <3>1, <3>2, <3>3, <1>1, <1>3, <1>4, <2>1, <2>2, <2>3, <2>4 DEF Flags
  <2>9. Refilled'
    BY <1>5, <1>6, <1>1, <1>3, <1>4, <2>1, <2>2, <2>3, <2>4 DEF Refilled
  <2>10. Served'
    BY <1>1, <1>3, <1>4, <2>1, <2>2, <2>3, <2>4 DEF Served, Past
  <2>11. PackedScales'
    BY <1>5, <1>6, <1>1, <1>3, <1>4, <2>1, <2>2, <2>3, <2>4 DEF PackedScales
  <2>12. MovedIn'
    BY <1>5, <1>6, <1>1, <1>3, <1>4, <2>1, <2>2, <2>3, <2>4 DEF MovedIn, HoldsQk, Served, Past
  <2>13. QED
    BY <2>2, <2>5, <2>6, <2>7, <2>8, <2>9, <2>10, <2>11, <2>12
<1>10. CASE Capture
  <2>1. /\ hpc = "capture" /\ hpc' = Serve /\ ht = 0 /\ ht' = ht
        /\ burst' = <<>>
    BY <1>10 DEF Capture, AwaitGpu, Phases
  <2>2. /\ mbox' = mbox /\ sf' = sf /\ spad' = spad
        /\ Pending(burst) = {} /\ hpc # "boot" /\ hpc' # "boot"
        /\ GpuCounts' /\ HeldBack'
        /\ \A c \in Clusters :
             /\ mbox[c].qkReady = IF hpc \in Settled THEN ht ELSE ht + 1
             /\ mbox[c].vReady = IF hpc \in {"prefillV", "qkDone"} \cup Settled THEN ht ELSE ht + 1
             /\ HostPack /\ CleanPack => mbox[c].packed = IF hpc # "next" THEN ht ELSE ht + 1
    BY <1>10, MoveFrame
  <2>3. Proper(burst') /\ Pending(burst') = {}
    BY <2>1, NoBurst
  <2>4. hpc' \in Serving /\ (hpc' = "next" => ~HostPack) /\ (hpc' = "pack" => HostPack)
        /\ (hpc' = "capture" => HostCfg)
    BY <1>4, <2>1 DEF Serve
  <2>5. Ranges'
    BY <1>1, <1>2, <1>3, <1>4, <2>1, <2>2, <2>3, <2>4, Sizes DEF Ranges, TypeOK, HostStates, Proper
  <2>6. Phases'
    BY <1>1, <1>3, <1>4, <2>1, <2>2, <2>3, <2>4 DEF Phases
  <2>7. Bursts'
    BY <1>1, <1>3, <1>4, <2>1, <2>2, <2>3, <2>4 DEF Bursts
  <2>8. Flags'
    <3>1. \A c \in Clusters : (QkPending(c)' <=> hpc' \in Settled)
      BY <1>5, <1>6, <1>1, <1>3, <1>4, <2>1, <2>2, <2>3, <2>4 DEF QkPending
    <3>2. \A c \in Clusters : (VPending(c)' <=> hpc' \in Settled)
      BY <1>5, <1>6, <1>1, <1>3, <1>4, <2>1, <2>2, <2>3, <2>4 DEF VPending
    <3>3. \A c \in Clusters : (PackPending(c)' <=> hpc' # "next")
      BY <1>5, <1>6, <1>1, <1>3, <1>4, <2>1, <2>2, <2>3, <2>4 DEF PackPending
    <3>4. QED
      BY <3>1, <3>2, <3>3, <1>1, <1>3, <1>4, <2>1, <2>2, <2>3, <2>4 DEF Flags
  <2>9. Refilled'
    BY <1>5, <1>6, <1>1, <1>3, <1>4, <2>1, <2>2, <2>3, <2>4 DEF Refilled
  <2>10. Served'
    BY <1>1, <1>3, <1>4, <2>1, <2>2, <2>3, <2>4 DEF Served, Past
  <2>11. PackedScales'
    BY <1>5, <1>6, <1>1, <1>3, <1>4, <2>1, <2>2, <2>3, <2>4 DEF PackedScales
  <2>12. MovedIn'
    BY <1>5, <1>6, <1>1, <1>3, <1>4, <2>1, <2>2, <2>3, <2>4 DEF MovedIn, HoldsQk, Served, Past
  <2>13. QED
    BY <2>2, <2>5, <2>6, <2>7, <2>8, <2>9, <2>10, <2>11, <2>12
<1>11. CASE ServicePack
  <2>1. /\ hpc = "pack" /\ hpc' = "next" /\ ht' = ht /\ HostPack
        /\ burst' = Each("act0", scales[0]) \o Each("packed", ht + 1)
    BY <1>11 DEF ServicePack, AwaitGpu, Phases
  <2>2. /\ mbox' = mbox /\ sf' = sf /\ spad' = spad
        /\ Pending(burst) = {} /\ hpc # "boot" /\ hpc' # "boot"
        /\ GpuCounts' /\ HeldBack'
        /\ \A c \in Clusters :
             /\ mbox[c].qkReady = IF hpc \in Settled THEN ht ELSE ht + 1
             /\ mbox[c].vReady = IF hpc \in {"prefillV", "qkDone"} \cup Settled THEN ht ELSE ht + 1
             /\ HostPack /\ CleanPack => mbox[c].packed = IF hpc # "next" THEN ht ELSE ht + 1
    BY <1>11, MoveFrame
  <2>3. Proper(burst') /\ Pending(burst') = To("act0", scales[0]) \cup To("packed", ht + 1)
    <3>1. "act0" \in Halves \cup {"cfgQK", "cfgPV"} /\ "packed" \in HostSlots
      BY <1>4
    <3>2. scales[0] \in Tile /\ ht + 1 \in Tile
      BY <1>2, <1>3, <2>1, Sizes DEF TypeOK, Ranges
    <3>3. QED
      BY <2>1, <3>1, <3>2, TwoKinds
  <2>4. ~expired' => \A c \in Clusters : mbox[c].packReq >= ht + 1
    BY <1>11 DEF ServicePack, AwaitGpu, AwaitOrExpire
  <2>5. ~expired' /\ CleanPack => \A c \in Clusters : Past(c, ht, PackAsked)
    BY <1>3, <2>1, <2>4 DEF GpuCounts, Past
  <2>6. ~expired' /\ CleanPack => scales[0] = ht
    <3>1. SUFFICES ASSUME ~expired', CleanPack PROVE scales[0] = ht
      OBVIOUS
    <3>2. 0 \in Clusters /\ ~expired
      BY <1>1, <3>1, Sizes
    <3>3. mbox[0].packed = ht /\ mbox[0].packed >= tile[0]
      BY <2>1, <2>2, <3>1, <3>2 DEF HeldBack
    <3>4. tile[0] = ht /\ gpc[0] \in PackAsked
      BY <1>3, <2>5, <3>1, <3>2, <3>3 DEF Past
    <3>5. QED
      BY <3>2, <3>4 DEF PackedScales, PackAsked
  <2>7. Ranges'
    BY <1>1, <1>2, <1>3, <1>4, <2>1, <2>2, <2>3, <2>5, <2>6, Sizes DEF Ranges, TypeOK, HostStates, Proper
  <2>8. Phases'
    BY <1>1, <1>3, <1>4, <2>1, <2>2, <2>3, <2>5, <2>6 DEF Phases
  <2>9. Bursts'
    <3>1. Pending(burst') \subseteq Due'
      <4>1. Due' = PackDue'
        BY <1>1, <2>1 DEF Due
      <4>2. PackDue' = PackDue
        BY <2>1 DEF PackDue
      <4>3. To("act0", scales[0]) \subseteq UNION {To("act0", v) : v \in Tile}
        BY <1>2, Sizes DEF TypeOK
      <4>4. QED
        BY <2>3, <4>1, <4>2, <4>3 DEF PackDue
    <3>2. \A c \in Clusters : FlagDue(c)' \in Pending(burst')
      BY <1>6, <1>1, <1>3, <1>4, <2>1, <2>2, <2>3, <2>5, <2>6 DEF FlagDue
    <3>3. \A c, v : <<"cfgQK", c, v>> \in Pending(burst') \/ <<"cfgPV", c, v>> \in Pending(burst') => HostCfg /\ ht >= 1
      BY <1>5, <2>1, <2>3
    <3>4. QED
      BY <1>1, <2>1, <2>3, <3>1, <3>2, <3>3 DEF Bursts
  <2>10. Flags'
    <3>1. \A c \in Clusters : (QkPending(c)' <=> hpc' \in Settled)
      <4>1. \A c, v : <<"qkReady", c, v>> \notin Pending(burst')
        BY <1>5, <2>3
      <4>2. QED
        BY <4>1 DEF QkPending
    <3>2. \A c \in Clusters : (VPending(c)' <=> hpc' \in Settled)
      <4>1. \A c, v : <<"vReady", c, v>> \notin Pending(burst')
        BY <1>5, <2>3
      <4>2. QED
        BY <2>1, <4>1 DEF VPending, Settled
    <3>3. \A c \in Clusters : PackPending(c)'
      <4>1. \A c \in Clusters : <<"packed", c, ht + 1>> \in Pending(burst')
        BY <2>3 DEF To
      <4>2. QED
        BY <2>1, <4>1 DEF PackPending
    <3>4. QED
      BY <3>1, <3>2, <3>3, <1>1, <1>3, <1>4, <2>1, <2>2, <2>3, <2>5, <2>6 DEF Flags
  <2>11. Refilled'
    BY <1>5, <1>6, <1>1, <1>3, <1>4, <2>1, <2>2, <2>3, <2>5, <2>6 DEF Refilled
  <2>12. Served'
    BY <1>1, <1>3, <1>4, <2>1, <2>2, <2>3, <2>5, <2>6 DEF Served, Past
  <2>13. PackedScales'
    BY <1>5, <1>6, <1>1, <1>3, <1>4, <2>1, <2>2, <2>3, <2>5, <2>6 DEF PackedScales
  <2>14. MovedIn'
    BY <1>5, <1>6, <1>1, <1>3, <1>4, <2>1, <2>2, <2>3, <2>5, <2>6 DEF MovedIn, HoldsQk, Served, Past
  <2>15. QED
    BY <2>2, <2>7, <2>8, <2>9, <2>10, <2>11, <2>12, <2>13, <2>14
<1>12. CASE NextTile
  <2>1. /\ hpc = "next" /\ hpc' = (IF ht + 1 < HostTiles THEN "pvDone" ELSE "end")
        /\ ht' = ht + 1 /\ expired' = expired /\ burst' = burst
    BY <1>12 DEF NextTile
  <2>2. /\ mbox' = mbox /\ sf' = sf /\ spad' = spad
        /\ Pending(burst) = {} /\ hpc # "boot" /\ hpc' # "boot"
        /\ GpuCounts' /\ HeldBack'
        /\ \A c \in Clusters :
             /\ mbox[c].qkReady = IF hpc \in Settled THEN ht ELSE ht + 1
             /\ mbox[c].vReady = IF hpc \in {"prefillV", "qkDone"} \cup Settled THEN ht ELSE ht + 1
             /\ HostPack /\ CleanPack => mbox[c].packed = IF hpc # "next" THEN ht ELSE ht + 1
    BY <1>12, MoveFrame
  <2>3. Proper(burst') /\ Pending(burst') = {}
    BY <2>1, <2>2 DEF Bursts
  <2>4. Ranges'
    BY <1>1, <1>2, <1>3, <1>4, <2>1, <2>2, <2>3, Sizes DEF Ranges, TypeOK, HostStates, Proper
  <2>5. Phases'
    BY <1>1, <1>3, <1>4, <2>1, <2>2, <2>3 DEF Phases
  <2>6. Bursts'
    BY <1>1, <1>3, <1>4, <2>1, <2>2, <2>3 DEF Bursts
  <2>7. Flags'
    <3>1. \A c \in Clusters : (QkPending(c)' <=> hpc' \in Settled)
      BY <1>5, <1>6, <1>1, <1>3, <1>4, <2>1, <2>2, <2>3 DEF QkPending
    <3>2. \A c \in Clusters : (VPending(c)' <=> hpc' \in Settled)
      BY <1>5, <1>6, <1>1, <1>3, <1>4, <2>1, <2>2, <2>3 DEF VPending
    <3>3. \A c \in Clusters : (PackPending(c)' <=> hpc' # "next")
      BY <1>5, <1>6, <1>1, <1>3, <1>4, <2>1, <2>2, <2>3 DEF PackPending
    <3>4. QED
      BY <3>1, <3>2, <3>3, <1>1, <1>3, <1>4, <2>1, <2>2, <2>3 DEF Flags
  <2>8. Refilled'
    BY <1>5, <1>6, <1>1, <1>3, <1>4, <2>1, <2>2, <2>3 DEF Refilled
  <2>9. Served'
    BY <1>1, <1>3, <1>4, <2>1, <2>2, <2>3 DEF Served, Past
  <2>10. PackedScales'
    BY <1>5, <1>6, <1>1, <1>3, <1>4, <2>1, <2>2, <2>3 DEF PackedScales
  <2>11. MovedIn'
    BY <1>5, <1>6, <1>1, <1>3, <1>4, <2>1, <2>2, <2>3 DEF MovedIn, HoldsQk, Served, Past
  <2>12. QED
    BY <2>2, <2>4, <2>5, <2>6, <2>7, <2>8, <2>9, <2>10, <2>11
<1>13. CASE Window1
  <2>1. /\ hpc = "pvDone" /\ hpc' = "qkDone" /\ ht' = ht /\ ht >= 1
        /\ burst' = QkScales \o Replay("cfgQK") \o Each("qkReady", ht + 1)
    BY <1>13 DEF Window1, AwaitGpu, Phases
  <2>2. /\ mbox' = mbox /\ sf' = sf /\ spad' = spad
        /\ Pending(burst) = {} /\ hpc # "boot" /\ hpc' # "boot"
        /\ GpuCounts' /\ HeldBack'
        /\ \A c \in Clusters :
             /\ mbox[c].qkReady = IF hpc \in Settled THEN ht ELSE ht + 1
             /\ mbox[c].vReady = IF hpc \in {"prefillV", "qkDone"} \cup Settled THEN ht ELSE ht + 1
             /\ HostPack /\ CleanPack => mbox[c].packed = IF hpc # "next" THEN ht ELSE ht + 1
    BY <1>13, MoveFrame
  <2>3. Proper(burst') /\ Pending(burst') = To("act1", ht) \cup To("w0", ht) \cup (IF HostCfg THEN To("cfgQK", ht) ELSE {}) \cup To("qkReady", ht + 1)
    <3>1. "qkReady" \in HostSlots /\ ht + 1 \in Tile /\ "cfgQK" \in {"cfgQK", "cfgPV"}
      BY <1>3, <1>4, <2>1 DEF Ranges
    <3>2. QED
      BY <1>3, <2>1, <3>1, Bursting
  <2>4. ~expired' => \A c \in Clusters : mbox[c].pvDone >= ht
    BY <1>13 DEF Window1, AwaitGpu, AwaitOrExpire
  <2>5. ~expired' => \A c \in Clusters : tile[c] >= ht
    BY <2>2, <2>4 DEF GpuCounts
  <2>6. Ranges'
    BY <1>1, <1>2, <1>3, <1>4, <2>1, <2>2, <2>3, <2>5, Sizes DEF Ranges, TypeOK, HostStates, Proper
  <2>7. Phases'
    BY <1>1, <1>3, <1>4, <2>1, <2>2, <2>3, <2>5 DEF Phases
  <2>8. Bursts'
    <3>1. Pending(burst') \subseteq Due'
      BY <1>1, <1>3, <1>4, <2>1, <2>2, <2>3, <2>5 DEF Due, QkDue, VDue, PackDue
    <3>2. \A c \in Clusters : FlagDue(c)' \in Pending(burst')
      BY <1>6, <1>1, <1>3, <1>4, <2>1, <2>2, <2>3, <2>5 DEF FlagDue
    <3>3. \A c, v : <<"cfgQK", c, v>> \in Pending(burst') \/ <<"cfgPV", c, v>> \in Pending(burst') => HostCfg /\ ht >= 1
      BY <1>5, <2>1, <2>3
    <3>4. QED
      BY <1>1, <2>1, <2>3, <3>1, <3>2, <3>3 DEF Bursts
  <2>9. Flags'
    <3>1. \A c \in Clusters : QkPending(c)'
      BY <1>5, <1>6, <1>1, <1>3, <1>4, <2>1, <2>2, <2>3, <2>5 DEF QkPending
    <3>2. \A c \in Clusters : VPending(c)'
      BY <1>5, <1>6, <1>1, <1>3, <1>4, <2>1, <2>2, <2>3, <2>5 DEF VPending
    <3>3. \A c \in Clusters : (PackPending(c)' <=> hpc' # "next")
      BY <1>5, <1>6, <1>1, <1>3, <1>4, <2>1, <2>2, <2>3, <2>5 DEF PackPending
    <3>4. QED
      BY <3>1, <3>2, <3>3, <1>1, <1>3, <1>4, <2>1, <2>2, <2>3, <2>5 DEF Flags
  <2>10. Refilled'
    BY <1>5, <1>6, <1>1, <1>3, <1>4, <2>1, <2>2, <2>3, <2>5 DEF Refilled
  <2>11. Served'
    BY <1>1, <1>3, <1>4, <2>1, <2>2, <2>3, <2>5 DEF Served, Past
  <2>12. PackedScales'
    BY <1>5, <1>6, <1>1, <1>3, <1>4, <2>1, <2>2, <2>3, <2>5 DEF PackedScales
  <2>13. MovedIn'
    BY <1>5, <1>6, <1>1, <1>3, <1>4, <2>1, <2>2, <2>3, <2>5 DEF MovedIn, HoldsQk, Served, Past
  <2>14. QED
    BY <2>2, <2>6, <2>7, <2>8, <2>9, <2>10, <2>11, <2>12, <2>13
<1>14. CASE Window2
  <2>1. /\ hpc = "qkDone" /\ hpc' = Serve /\ ht' = ht /\ ht >= 1
        /\ burst' = VScales \o Replay("cfgPV") \o Each("vReady", ht + 1)
    BY <1>14 DEF Window2, AwaitGpu, Phases
  <2>2. /\ mbox' = mbox /\ sf' = sf /\ spad' = spad
        /\ Pending(burst) = {} /\ hpc # "boot" /\ hpc' # "boot"
        /\ GpuCounts' /\ HeldBack'
        /\ \A c \in Clusters :
             /\ mbox[c].qkReady = IF hpc \in Settled THEN ht ELSE ht + 1
             /\ mbox[c].vReady = IF hpc \in {"prefillV", "qkDone"} \cup Settled THEN ht ELSE ht + 1
             /\ HostPack /\ CleanPack => mbox[c].packed = IF hpc # "next" THEN ht ELSE ht + 1
    BY <1>14, MoveFrame
  <2>3. Proper(burst') /\ Pending(burst') = To("w1", ht) \cup (IF HostCfg THEN To("cfgPV", ht) ELSE {}) \cup To("vReady", ht + 1)
    <3>1. "vReady" \in HostSlots /\ ht + 1 \in Tile /\ "cfgPV" \in {"cfgQK", "cfgPV"}
      BY <1>3, <1>4, <2>1 DEF Ranges
    <3>2. QED
      BY <1>3, <2>1, <3>1, Bursting
  <2>4. hpc' \in Serving /\ (hpc' = "next" => ~HostPack) /\ (hpc' = "pack" => HostPack)
        /\ (hpc' = "capture" => HostCfg)
    BY <1>4, <2>1 DEF Serve
  <2>5. ~expired' => \A c \in Clusters : mbox[c].qkDone >= ht + 1
    BY <1>14 DEF Window2, AwaitGpu, AwaitOrExpire
  <2>6. ~expired' => \A c \in Clusters : Past(c, ht, AfterQk)
    BY <1>3, <2>2, <2>5 DEF GpuCounts, Past
  <2>7. Ranges'
    BY <1>1, <1>2, <1>3, <1>4, <2>1, <2>2, <2>3, <2>4, <2>6, Sizes DEF Ranges, TypeOK, HostStates, Proper
  <2>8. Phases'
    BY <1>1, <1>3, <1>4, <2>1, <2>2, <2>3, <2>4, <2>6 DEF Phases, Serve
  <2>9. Bursts'
    <3>1. Pending(burst') \subseteq Due'
      BY <1>1, <1>3, <1>4, <2>1, <2>2, <2>3, <2>4, <2>6 DEF Due, QkDue, VDue, PackDue
    <3>2. \A c \in Clusters : FlagDue(c)' \in Pending(burst')
      BY <1>6, <1>1, <1>3, <1>4, <2>1, <2>2, <2>3, <2>4, <2>6 DEF FlagDue
    <3>3. \A c, v : <<"cfgQK", c, v>> \in Pending(burst') \/ <<"cfgPV", c, v>> \in Pending(burst') => HostCfg /\ ht >= 1
      BY <1>5, <2>1, <2>3
    <3>4. QED
      BY <1>1, <2>1, <2>3, <3>1, <3>2, <3>3 DEF Bursts
  <2>10. Flags'
    <3>1. \A c \in Clusters : (QkPending(c)' <=> hpc' \in Settled)
      BY <1>5, <1>6, <1>1, <1>3, <1>4, <2>1, <2>2, <2>3, <2>4, <2>6 DEF QkPending
    <3>2. \A c \in Clusters : VPending(c)'
      BY <1>5, <1>6, <1>1, <1>3, <1>4, <2>1, <2>2, <2>3, <2>4, <2>6 DEF VPending
    <3>3. \A c \in Clusters : (PackPending(c)' <=> hpc' # "next")
      BY <1>5, <1>6, <1>1, <1>3, <1>4, <2>1, <2>2, <2>3, <2>4, <2>6 DEF PackPending
    <3>4. QED
      BY <3>1, <3>2, <3>3, <1>1, <1>3, <1>4, <2>1, <2>2, <2>3, <2>4, <2>6 DEF Flags
  <2>11. Refilled'
    BY <1>5, <1>6, <1>1, <1>3, <1>4, <2>1, <2>2, <2>3, <2>4, <2>6 DEF Refilled
  <2>12. Served'
    BY <1>1, <1>3, <1>4, <2>1, <2>2, <2>3, <2>4, <2>6 DEF Served, Past
  <2>13. PackedScales'
    BY <1>5, <1>6, <1>1, <1>3, <1>4, <2>1, <2>2, <2>3, <2>4, <2>6 DEF PackedScales
  <2>14. MovedIn'
    BY <1>5, <1>6, <1>1, <1>3, <1>4, <2>1, <2>2, <2>3, <2>4, <2>6 DEF MovedIn, HoldsQk, Served, Past
  <2>15. QED
    BY <2>2, <2>7, <2>8, <2>9, <2>10, <2>11, <2>12, <2>13, <2>14
<1>15. QED
  BY <1>8, <1>9, <1>10, <1>11, <1>12, <1>13, <1>14 DEF Host
LEMMA StepKeepsRefill == Refill /\ [Next]_vars => Refill'
<1> SUFFICES ASSUME Refill, [Next]_vars PROVE Refill'
  OBVIOUS
<1>1. CASE Host
  BY <1>1, PushKeepsRefill, MoveKeepsRefill
<1>2. CASE \E c \in Clusters : Gpu(c)
  BY <1>2, GpuKeepsRefill
<1>3. CASE UNCHANGED vars
  <2>1. /\ build' = build /\ mbox' = mbox /\ sf' = sf /\ spad' = spad /\ gpc' = gpc /\ tile' = tile
        /\ scales' = scales /\ hpc' = hpc /\ ht' = ht /\ burst' = burst /\ expired' = expired
    BY <1>3 DEF vars
  <2>2. (HostCfg' <=> HostCfg) /\ (HostPack' <=> HostPack) /\ (CleanPack' <=> CleanPack)
    BY <2>1 DEF HostCfg, HostPack, CleanPack
  <2>3. Due' = Due /\ \A c \in Clusters : FlagDue(c)' = FlagDue(c)
    BY <2>1, <2>2 DEF Due, QkDue, VDue, PackDue, FlagDue
  <2>4. Ranges' /\ Phases'
    BY <2>1, <2>2 DEF Refill, Ranges, TypeOK, Phases
  <2>5. Bursts'
    BY <2>1, <2>2, <2>3 DEF Refill, Bursts
  <2>6. GpuCounts' /\ HeldBack' /\ Served'
    BY <2>1, <2>2 DEF Refill, GpuCounts, HeldBack, Served, Past
  <2>7. Flags'
    BY <2>1, <2>2 DEF Refill, Flags, QkPending, VPending, PackPending
  <2>8. Refilled' /\ PackedScales'
    BY <2>1, <2>2 DEF Refill, Refilled, PackedScales
  <2>9. MovedIn'
    BY <2>1, <2>2 DEF Refill, MovedIn, HoldsQk, Issues
  <2>10. QED
    BY <2>4, <2>5, <2>6, <2>7, <2>8, <2>9 DEF Refill
<1>4. QED
  BY <1>1, <1>2, <1>3 DEF Next

LEMMA RefillAlways == Spec => []Refill
<1>1. QED
  BY InitRefill, StepKeepsRefill, PTL DEF Spec

-----------------------------------------------------------------------------
(* What follows from the invariant                                         *)

(* A burst whose flag is out has nothing left for that cluster's core.     *)
LEMMA FlagLast ==
  ASSUME Refill, NEW c \in Clusters, FlagDue(c) \notin Pending(burst)
  PROVE  \A w \in Pending(burst) : w[1] \in HostSlots
BY DEF Refill, Bursts

(* Where the host can be when the mesh of a cluster runs Q times K ...     *)
LEMMA AtQkRun ==
  ASSUME Refill, ~expired, NEW c \in Clusters, gpc[c] = "qkRun"
  PROVE  \/ hpc \in {"prefillV", "qkDone"} /\ tile[c] = ht /\ FlagDue(c) \notin Pending(burst)
         \/ hpc \in Serving /\ ht = 0 /\ tile[c] = 0
         \/ hpc \in Settled /\ ht = 1 /\ tile[c] = 0
<1> USE DEF Refill
<1>1. hpc # "boot" /\ mbox[c].qkReady >= tile[c] + 1
  BY DEF Phases, HeldBack
<1>2. tile[c] \in Nat /\ ht \in Nat /\ hpc \in HostStates
  BY DEF Ranges, TypeOK
<1>3. mbox[c].qkReady = IF QkPending(c) THEN ht ELSE ht + 1
  BY <1>1 DEF Flags
<1>4. gpc[c] \notin AfterQk
  BY DEF AfterQk
<1>5. CASE hpc \in {"prefillV", "qkDone"}
  <2>1. tile[c] >= ht
    BY <1>2, <1>5 DEF Served, Phases
  <2>2. ~QkPending(c)
    BY <1>1, <1>2, <1>3, <2>1
  <2>3. tile[c] = ht
    BY <1>1, <1>2, <1>3, <2>1
  <2>4. QED
    BY <1>5, <2>2, <2>3 DEF QkPending, FlagDue
<1>6. CASE hpc \in Serving
  <2>1. tile[c] <= ht
    BY <1>1, <1>2, <1>3
  <2>2. ht = 0
    BY <1>2, <1>4, <1>6, <2>1 DEF Served, Past
  <2>3. QED
    BY <1>2, <1>6, <2>1, <2>2
<1>7. CASE hpc \in Settled
  <2>1. ht >= 1 /\ tile[c] >= ht - 1
    BY <1>7 DEF Served, Phases, Settled
  <2>2. tile[c] = ht - 1
    BY <1>1, <1>2, <1>3, <1>7, <2>1 DEF QkPending
  <2>3. ~(ht >= 2)
    BY <1>2, <1>4, <1>7, <2>2 DEF Served, Past
  <2>4. QED
    BY <1>2, <1>7, <2>1, <2>2, <2>3
<1>8. QED
  BY <1>1, <1>2, <1>5, <1>6, <1>7 DEF HostStates, Serving, Settled

(* ... and when it is past the wait for the V scales.                      *)
LEMMA AtPv ==
  ASSUME Refill, ~expired, NEW c \in Clusters, gpc[c] \in AfterPv
  PROVE  \/ hpc \in Serving /\ tile[c] = ht /\ <<"vReady", c, ht + 1>> \notin Pending(burst)
         \/ hpc \in Settled /\ ht >= 1 /\ tile[c] = ht - 1
<1> USE DEF Refill
<1>1. hpc # "boot" /\ mbox[c].vReady >= tile[c] + 1
  BY DEF Phases, HeldBack, AfterPv
<1>2. tile[c] \in Nat /\ ht \in Nat /\ hpc \in HostStates
  BY DEF Ranges, TypeOK
<1>3. mbox[c].vReady = IF VPending(c) THEN ht ELSE ht + 1
  BY <1>1 DEF Flags
<1>4. hpc \notin {"prefillV", "qkDone"}
  <2>1. SUFFICES ASSUME hpc \in {"prefillV", "qkDone"} PROVE FALSE
    OBVIOUS
  <2>2. tile[c] >= ht
    BY <1>2, <2>1 DEF Served, Phases
  <2>3. QED
    BY <1>1, <1>2, <1>3, <2>1, <2>2 DEF VPending
<1>5. CASE hpc \in Serving
  <2>1. tile[c] <= ht
    BY <1>1, <1>2, <1>3
  <2>2. tile[c] >= ht
    <3>1. CASE ht = 0
      BY <1>2, <3>1
    <3>2. CASE ht >= 1
      BY <1>2, <1>5, <3>2 DEF Served, Past
    <3>3. QED
      BY <1>2, <3>1, <3>2
  <2>3. ~VPending(c) /\ tile[c] = ht
    BY <1>1, <1>2, <1>3, <2>1, <2>2
  <2>4. QED
    BY <1>5, <2>3 DEF VPending
<1>6. CASE hpc \in Settled
  <2>1. ht >= 1 /\ tile[c] >= ht - 1
    BY <1>6 DEF Served, Phases, Settled
  <2>2. tile[c] = ht - 1
    BY <1>1, <1>2, <1>3, <1>6, <2>1 DEF VPending
  <2>3. QED
    BY <1>6, <2>1, <2>2
<1>7. QED
  BY <1>1, <1>2, <1>4, <1>5, <1>6 DEF HostStates, Serving, Settled

LEMMA QkRunReadsItsTile ==
  ASSUME Refill, ~expired, NEW c \in Clusters, gpc[c] = "qkRun"
  PROVE  sf[c].act1 = tile[c] /\ sf[c].w0 = tile[c] /\ HoldsQk(c, tile[c])
<1> USE DEF Refill
<1>1. hpc # "boot" /\ tile[c] \in Nat /\ ht \in Nat
  BY DEF Phases, Ranges, TypeOK
<1>2. {"act1", "w0"} \cap HostSlots = {} /\ "cfgQK" \notin HostSlots /\ QkHalves = {"act1", "w0"}
  BY DEF HostSlots, QkHalves
<1>3. Issues(c) => HoldsQk(c, tile[c])
  BY DEF MovedIn
<1>4. CASE hpc \in {"prefillV", "qkDone"} /\ tile[c] = ht /\ FlagDue(c) \notin Pending(burst)
  <2>1. \A x, v : x \notin HostSlots => <<x, c, v>> \notin Pending(burst)
    BY <1>4, FlagLast
  <2>2. hpc \notin Settled
    BY <1>4 DEF Settled
  <2>3. sf[c].act1 = ht /\ sf[c].w0 = ht
    BY <1>1, <1>2, <2>1, <2>2 DEF Refilled
  <2>4. ~Issues(c) => HoldsQk(c, ht)
    <3>1. SUFFICES ASSUME ~Issues(c) PROVE HoldsQk(c, ht)
      OBVIOUS
    <3>2. HostCfg /\ tile[c] # 0
      BY <3>1 DEF Issues
    <3>3. hpc = "qkDone"
      BY <1>4, <3>2 DEF Phases
    <3>4. QED
      BY <1>2, <2>1, <3>2, <3>3 DEF MovedIn
  <2>5. QED
    BY <1>3, <1>4, <2>3, <2>4
<1>5. CASE hpc \in Serving /\ ht = 0 /\ tile[c] = 0
  <2>1. \A x \in QkHalves : <<x, c, ht>> \notin Due
    BY <1>2, <1>5 DEF Due, VDue, PackDue, To, Serving
  <2>2. hpc \notin Settled
    BY <1>5 DEF Serving, Settled
  <2>3. sf[c].act1 = ht /\ sf[c].w0 = ht
    BY <1>1, <1>2, <2>1, <2>2 DEF Refilled, Bursts
  <2>4. QED
    BY <1>3, <1>5, <2>3 DEF Issues
<1>6. CASE hpc \in Settled /\ ht = 1 /\ tile[c] = 0
  <2>1. sf[c].act1 = ht - 1 /\ sf[c].w0 = ht - 1
    BY <1>1, <1>2, <1>6 DEF Refilled
  <2>2. QED
    BY <1>3, <1>6, <2>1 DEF Issues
<1>7. QED
  BY <1>4, <1>5, <1>6, AtQkRun

LEMMA PvRunReadsItsTile ==
  ASSUME Refill, CleanPack, ~expired, NEW c \in Clusters, gpc[c] = "pvRun"
  PROVE  /\ sf[c].act0 = tile[c] /\ sf[c].w1 = tile[c]
         /\ spad[c].a = <<"P", tile[c]>> /\ spad[c].b = <<"V", tile[c]>>
<1> USE DEF Refill
<1>1. hpc # "boot" /\ tile[c] \in Nat /\ ht \in Nat /\ gpc[c] \in AfterPv
  BY DEF Phases, Ranges, TypeOK, AfterPv
<1>2. {"w1", "act0", "cfgPV"} \cap HostSlots = {} /\ HostSlots = {"qkReady", "vReady", "packed"}
  BY DEF HostSlots
<1>3. (Issues(c) => spad[c].b = <<"V", tile[c]>>) /\ spad[c].a = <<"P", tile[c]>>
  BY <1>1 DEF MovedIn
<1>4. ~HostPack => sf[c].act0 = tile[c]
  BY DEF PackedScales
<1>5. HostPack => mbox[c].packed >= tile[c] + 1
  BY <1>1 DEF HeldBack
<1>6. HostPack => mbox[c].packed = IF PackPending(c) THEN ht ELSE ht + 1
  BY DEF Flags
<1>7. CASE hpc \in Serving /\ tile[c] = ht /\ <<"vReady", c, ht + 1>> \notin Pending(burst)
  <2>1. HostPack => hpc = "next" /\ <<"packed", c, ht + 1>> \notin Pending(burst)
    BY <1>1, <1>5, <1>6, <1>7 DEF PackPending
  <2>2. FlagDue(c) \notin Pending(burst)
    BY <1>7, <2>1 DEF FlagDue, Serving
  <2>3. \A x, v : x \notin HostSlots => <<x, c, v>> \notin Pending(burst)
    BY <2>2, FlagLast
  <2>4. sf[c].w1 = ht
    BY <1>1, <1>2, <1>7, <2>3 DEF Refilled
  <2>5. HostPack => sf[c].act0 = ht
    BY <1>2, <2>1, <2>3 DEF PackedScales
  <2>6. ~Issues(c) => spad[c].b = <<"V", ht>>
    <3>1. SUFFICES ASSUME ~Issues(c) PROVE spad[c].b = <<"V", ht>>
      OBVIOUS
    <3>2. HostCfg /\ tile[c] # 0
      BY <3>1 DEF Issues
    <3>3. ht >= 1
      BY <1>1, <1>7, <3>2
    <3>4. QED
      BY <1>2, <1>7, <2>3, <3>2, <3>3 DEF MovedIn
  <2>7. QED
    BY <1>3, <1>4, <1>7, <2>4, <2>5, <2>6
<1>8. CASE hpc \in Settled /\ ht >= 1 /\ tile[c] = ht - 1
  <2>1. sf[c].w1 = ht - 1
    BY <1>1, <1>8 DEF Refilled
  <2>2. HostPack => sf[c].act0 = ht - 1
    BY <1>8 DEF PackedScales
  <2>3. ~Issues(c) => spad[c].b = <<"V", ht - 1>>
    <3>1. SUFFICES ASSUME ~Issues(c) PROVE spad[c].b = <<"V", ht - 1>>
      OBVIOUS
    <3>2. HostCfg /\ tile[c] # 0
      BY <3>1 DEF Issues
    <3>3. ht >= 2
      BY <1>1, <1>8, <3>2
    <3>4. QED
      BY <1>8, <3>2, <3>3 DEF MovedIn
  <2>4. QED
    BY <1>3, <1>4, <1>8, <2>1, <2>2, <2>3
<1>9. QED
  BY <1>1, <1>7, <1>8, AtPv

LEMMA RefillIsRead == Refill /\ CleanPack => MeshReadsItsTile
<1> SUFFICES ASSUME Refill, CleanPack, ~expired, NEW c \in Clusters
             PROVE  /\ gpc[c] = "qkRun" =>
                         /\ sf[c].act1 = tile[c] /\ sf[c].w0 = tile[c]
                         /\ spad[c] = [a |-> <<"Q", tile[c]>>, b |-> <<"K", tile[c]>>]
                    /\ gpc[c] = "pvRun" =>
                         /\ sf[c].act0 = tile[c] /\ sf[c].w1 = tile[c]
                         /\ spad[c] = [a |-> <<"P", tile[c]>>, b |-> <<"V", tile[c]>>]
  BY DEF MeshReadsItsTile
<1>1. spad[c] \in [{"a", "b"} -> {"Q", "K", "P", "V"} \X Tile]
  BY DEF Refill, Ranges, TypeOK
<1>2. ASSUME NEW x, NEW y, spad[c].a = x, spad[c].b = y
      PROVE  spad[c] = [a |-> x, b |-> y]
  BY <1>1, <1>2
<1>3. CASE gpc[c] = "qkRun"
  BY <1>2, <1>3, QkRunReadsItsTile DEF HoldsQk
<1>4. CASE gpc[c] = "pvRun"
  BY <1>2, <1>4, PvRunReadsItsTile
<1>5. QED
  BY <1>3, <1>4

LEMMA PortIsExclusive == Refill /\ CleanPack => PortExclusive
<1> SUFFICES ASSUME Refill, CleanPack, HostCfg, ~expired, ht > 0, NEW c \in Clusters,
                    HostAtPort(c), GpuAtPort(c)
             PROVE  FALSE
  BY DEF PortExclusive
<1> USE DEF Refill
<1>1. /\ Proper(burst) /\ burst # <<>> /\ Head(burst) \in Pending(burst)
      /\ Head(burst)[1] \notin HostSlots /\ Head(burst)[2] = c
  BY Written DEF Bursts, HostAtPort
<1>2. FlagDue(c) \in Pending(burst)
  BY <1>1 DEF Bursts
<1>3. ht \in Nat /\ tile[c] \in Nat /\ ht >= 1
  BY DEF Ranges, TypeOK
<1>4. hpc \in {"qkDone"} \cup Serving
  <2>1. Due # {}
    BY <1>1 DEF Bursts
  <2>2. hpc # "prefillV"
    BY <1>3 DEF Phases
  <2>3. QED
    BY <2>1, <2>2 DEF Due, Serving
<1>5. tile[c] >= ht
  <2>1. CASE hpc = "qkDone"
    BY <2>1 DEF Served
  <2>2. CASE hpc \in Serving
    BY <1>3, <2>2 DEF Served, Past
  <2>3. QED
    BY <1>4, <2>1, <2>2
<1>6. ~Issues(c)
  BY <1>3, <1>5 DEF Issues
<1>7. CASE gpc[c] = "qkRun"
  BY <1>2, <1>3, <1>4, <1>7, AtQkRun DEF Serving, Settled
<1>8. CASE gpc[c] \in {"pvRun", "pack"}
  <2>1. gpc[c] \in AfterPv
    BY <1>8 DEF AfterPv
  <2>2. hpc \in Serving /\ tile[c] = ht /\ <<"vReady", c, ht + 1>> \notin Pending(burst)
    BY <1>4, <2>1, AtPv DEF Serving, Settled
  <2>3. HostPack /\ hpc = "next" /\ <<"packed", c, ht + 1>> \in Pending(burst)
    BY <1>2, <2>2 DEF FlagDue, Serving
  <2>4. gpc[c] = "pvRun"
    BY <1>8, <2>3 DEF PackedScales
  <2>5. mbox[c].packed = ht
    BY <2>3 DEF Flags, PackPending
  <2>6. mbox[c].packed >= tile[c] + 1
    BY <2>3, <2>4 DEF HeldBack
  <2>7. QED
    BY <1>3, <2>2, <2>5, <2>6
<1>9. QED
  BY <1>6, <1>7, <1>8 DEF GpuAtPort

LEMMA StepsTogether == Refill => ClustersInStep
<1> SUFFICES ASSUME Refill, ~expired, NEW c \in Clusters, NEW d \in Clusters, tile[c] > tile[d]
             PROVE  /\ tile[c] = tile[d] + 1
                    /\ gpc[c] \in {"finalize", "qkIssue", "qkWait", "qkRun", "end"}
  BY DEF ClustersInStep
<1> USE DEF Refill
<1>1. tile[c] \in Nat /\ tile[d] \in Nat /\ ht \in Nat /\ gpc[c] \in GpuStates /\ hpc \in HostStates
  BY DEF Ranges, TypeOK
<1>2. hpc # "boot"
  BY <1>1 DEF Phases
<1>3. /\ mbox[c].qkReady >= tile[c] /\ mbox[c].vReady >= tile[c]
      /\ gpc[c] \in AfterQk \cup {"qkRun"} => mbox[c].qkReady >= tile[c] + 1
  BY <1>2 DEF HeldBack
<1>4. /\ mbox[c].qkReady = IF QkPending(c) THEN ht ELSE ht + 1
      /\ mbox[c].vReady = IF VPending(c) THEN ht ELSE ht + 1
  BY <1>2 DEF Flags
<1>5. CASE hpc \in {"prefillV", "qkDone"}
  <2>1. mbox[c].vReady = ht
    BY <1>4, <1>5 DEF VPending
  <2>2. tile[d] >= ht
    BY <1>1, <1>5 DEF Served, Phases
  <2>3. QED
    BY <1>1, <1>3, <2>1, <2>2
<1>6. CASE hpc \in Serving \cup Settled
  <2>1. PICK n \in Nat : tile[d] >= n /\ mbox[c].qkReady <= n + 1
    <3>1. CASE hpc \in Serving
      <4>1. tile[d] >= ht
        <5>1. CASE ht = 0
          BY <1>1, <5>1
        <5>2. CASE ht >= 1
          BY <1>1, <3>1, <5>2 DEF Served, Past
        <5>3. QED
          BY <1>1, <5>1, <5>2
      <4>2. QED
        BY <1>1, <1>4, <4>1
    <3>2. CASE hpc \in Settled
      <4>1. ht >= 1 /\ tile[d] >= ht - 1
        BY <3>2 DEF Served, Phases, Settled
      <4>2. mbox[c].qkReady = ht /\ ht - 1 \in Nat
        BY <1>1, <1>4, <3>2, <4>1 DEF QkPending
      <4>3. mbox[c].qkReady <= (ht - 1) + 1
        BY <1>1, <4>2
      <4>4. QED
        BY <4>1, <4>2, <4>3
    <3>3. QED
      BY <1>6, <3>1, <3>2
  <2>2. mbox[c].qkReady \in Nat
    BY <1>1, <1>4
  <2>3. tile[c] = tile[d] + 1 /\ ~(mbox[c].qkReady >= tile[c] + 1)
    BY <1>1, <1>3, <2>1, <2>2
  <2>4. gpc[c] \notin AfterQk
    BY <1>3, <2>3
  <2>5. QED
    BY <1>1, <2>3, <2>4 DEF GpuStates, AfterQk
<1>7. QED
  BY <1>1, <1>2, <1>5, <1>6 DEF HostStates, Serving, Settled

-----------------------------------------------------------------------------
(* The theorems                                                            *)

(* Words, halves of the scale SRAM, operands and program counters stay in  *)
(* their ranges: no cluster counts a tile beyond NumTiles, the host none   *)
(* beyond HostTiles, whatever the tile counts of the two builds are.       *)
THEOREM TypeCorrect == Spec => []TypeOK
<1>1. Refill => TypeOK
  BY DEF Refill, Ranges
<1>2. QED
  BY <1>1, RefillAlways, PTL

(* The host, which serves the slower cluster, holds the faster one back    *)
(* for any number of clusters and whatever the mailbox held at reset.      *)
THEOREM NoneRunsAhead == Spec => []ClustersInStep
BY StepsTogether, RefillAlways, PTL

(* main() does not clear the word it packs by, so an FA_HOSTPACK build can *)
(* be right only on an SMEM that comes up as zero.                         *)
WordsClean == \A b \in Builds : b.hostPack => b.junk = 0

LEMMA CleanAlways == WordsClean /\ Spec => []CleanPack
<1>1. WordsClean /\ Init => CleanPack
  BY DEF WordsClean, Init, CleanPack, HostPack
<1>2. CleanPack /\ [Next]_vars => CleanPack'
  BY DEF Next, Host, Gpu, vars, CleanPack, HostPack
<1>3. QED
  BY <1>1, <1>2, PTL DEF Spec

(* The mesh of a cluster multiplies the operands of its own tile by the    *)
(* scales of that tile, in every build, as long as no wait ran out.        *)
THEOREM MeshReadsRight == WordsClean => (Spec => []MeshReadsItsTile)
BY RefillIsRead, RefillAlways, CleanAlways, PTL

(* The windows of the host are windows: no write of the refill loop meets  *)
(* a command or a write of the GPU at the port of the tensor core.         *)
THEOREM PortIsFree == WordsClean => (Spec => []PortExclusive)
BY PortIsExclusive, RefillAlways, CleanAlways, PTL
-----------------------------------------------------------------------------
(* Every step counts                                                       *)

LEMMA GpuAlongTable ==
  /\ GpuAlong("finalize") = 1 /\ GpuAlong("qkIssue") = 2 /\ GpuAlong("qkWait") = 3
  /\ GpuAlong("qkRun") = 4 /\ GpuAlong("softmax") = 5 /\ GpuAlong("pvIssue") = 6
  /\ GpuAlong("pvWait") = 7 /\ GpuAlong("requant") = 8 /\ GpuAlong("packReq") = 9
  /\ GpuAlong("pack") = 10 /\ GpuAlong("packWait") = 10 /\ GpuAlong("pvRun") = 11
  /\ GpuAlong("end") = 12
BY DEF GpuAlong

LEMMA HostAlongTable ==
  /\ HostAlong("boot") = 1 /\ HostAlong("pvDone") = 1 /\ HostAlong("prefillV") = 2
  /\ HostAlong("qkDone") = 2 /\ HostAlong("capture") = 3 /\ HostAlong("pack") = 4
  /\ HostAlong("next") = 5 /\ HostAlong("end") = 6
BY DEF HostAlong

LEMMA ClustersGoOn ==
  ASSUME TypeOK, NEW c \in Clusters, Gpu(c)
  PROVE  ClusterGoesOn(c)
<1>1. ASSUME NEW to \in GpuStates, Goto(c, to), GpuAlong(gpc[c]) < GpuAlong(to),
             tile' = tile, hostState' = hostState
      PROVE  ClusterGoesOn(c)
  BY <1>1 DEF ClusterGoesOn, Goto, TypeOK
<1> USE GpuAlongTable DEF GpuStates
<1>2. CASE QkIssue(c)
  BY <1>1, <1>2 DEF QkIssue
<1>3. CASE QkWait(c)
  BY <1>1, <1>3 DEF QkWait, AwaitHost
<1>4. CASE QkDone(c)
  BY <1>1, <1>4 DEF QkDone
<1>5. CASE Softmax(c)
  BY <1>1, <1>5 DEF Softmax
<1>6. CASE PvIssue(c)
  BY <1>1, <1>6 DEF PvIssue
<1>7. CASE PvWait(c)
  BY <1>1, <1>7 DEF PvWait, AwaitHost
<1>8. CASE Requant(c)
  BY <1>1, <1>8 DEF Requant
<1>9. CASE Pack(c)
  BY <1>1, <1>9 DEF Pack
<1>10. CASE PackReq(c)
  BY <1>1, <1>10 DEF PackReq
<1>11. CASE PackWait(c)
  BY <1>1, <1>11 DEF PackWait, AwaitHost
<1>12. CASE PvDone(c)
  <2>1. /\ tile' = [tile EXCEPT ![c] = @ + 1] /\ gpc' = [gpc EXCEPT ![c] = "finalize"]
        /\ hostState' = hostState
    BY <1>12 DEF PvDone, Goto
  <2>2. tile[c] < tile'[c]
    BY <2>1 DEF TypeOK
  <2>3. QED
    BY <2>1, <2>2 DEF ClusterGoesOn, TypeOK
<1>13. CASE Finalize(c)
  BY <1>1, <1>13 DEF Finalize
<1>14. QED
  BY <1>2, <1>3, <1>4, <1>5, <1>6, <1>7, <1>8, <1>9, <1>10, <1>11, <1>12, <1>13 DEF Gpu

LEMMA TheHostGoesOn ==
  ASSUME TypeOK, Host
  PROVE  HostGoesOn
<1> USE HostAlongTable
<1>1. CASE Push
  <2>1. Len(Tail(burst)) < Len(burst)
    BY <1>1 DEF Push, TypeOK
  <2>2. QED
    BY <1>1, <2>1 DEF Push, HostGoesOn, gpu
<1>2. CASE Clear
  BY <1>2 DEF Clear, HostGoesOn, gpu
<1>3. CASE PrefillV
  BY <1>3 DEF PrefillV, Serve, HostGoesOn, gpu
<1>4. CASE Capture
  BY <1>4 DEF Capture, AwaitGpu, Serve, HostGoesOn, gpu
<1>5. CASE ServicePack
  BY <1>5 DEF ServicePack, AwaitGpu, HostGoesOn, gpu
<1>6. CASE NextTile
  <2>1. ht < ht'
    BY <1>6 DEF NextTile, TypeOK
  <2>2. QED
    BY <1>6, <2>1 DEF NextTile, HostGoesOn, gpu
<1>7. CASE Window1
  BY <1>7 DEF Window1, AwaitGpu, HostGoesOn, gpu
<1>8. CASE Window2
  BY <1>8 DEF Window2, AwaitGpu, Serve, HostGoesOn, gpu
<1>9. QED
  BY <1>1, <1>2, <1>3, <1>4, <1>5, <1>6, <1>7, <1>8 DEF Host

(* For any number of clusters and of tiles, in every build and whatever    *)
(* the waits do, host and clusters make a bounded number of steps          *)
(* (fa_mx_hostsf/host.cpp, the tile loop of flash_attention_mx.cpp).       *)
THEOREM RunIsBounded == Spec => EveryStepCounts
<1>1. Refill /\ [Next]_vars => [HostGoesOn \/ \E c \in Clusters : ClusterGoesOn(c)]_vars
  BY ClustersGoOn, TheHostGoesOn DEF Next, Refill, Ranges
<1>2. QED
  BY <1>1, RefillAlways, PTL DEF Spec, EveryStepCounts

-----------------------------------------------------------------------------
(* Nobody is stuck                                                         *)

(* What the ends of the two loops mean, what an unbounded wait means, and  *)
(* that both recordings of tile 0 are there once PV has been issued.       *)
Ending ==
  /\ hpc = "end" => ht >= HostTiles
  /\ \A c \in Clusters : /\ gpc[c] = "finalize" => tile[c] >= 1
                         /\ gpc[c] = "end" => tile[c] >= NumTiles
  /\ ~WaitsExpire => ~expired

Recorded ==
  HostCfg /\ hpc # "boot" => \A c \in Clusters :
    tile[c] > 0 \/ gpc[c] \in {"pvWait"} \cup AfterPv => mbox[c].cfgRec >= 2

LEMMA InitEnding ==
  ASSUME Init
  PROVE  Ending /\ Recorded
BY Sizes DEF Init, Ending, Recorded

LEMMA GpuKeepsEnding ==
  ASSUME Refill, Ending, Recorded, NEW c \in Clusters, Gpu(c)
  PROVE  Ending' /\ Recorded'
<1>0. /\ TypeOK /\ build' = build /\ hpc' = hpc /\ ht' = ht
      /\ (WaitsExpire' <=> WaitsExpire) /\ (HostCfg' <=> HostCfg)
      /\ gpc \in [Clusters -> GpuStates] /\ tile \in [Clusters -> 0 .. NumTiles]
      /\ NumTiles \in Nat
  BY GpuFrame, Sizes DEF Refill, Ranges, TypeOK, WaitsExpire, HostCfg
<1>1. ~WaitsExpire => ~expired'
  BY DEF Ending, Gpu, QkIssue, QkWait, QkDone, Softmax, PvIssue, PvWait, Requant, Pack, PackReq,
         PackWait, PvDone, Finalize, AwaitHost, AwaitOrExpire
(* A step to a state other than the two ends, in the same tile.            *)
<1>2. ASSUME NEW to \in GpuStates \ {"finalize", "end"}, Goto(c, to), tile' = tile
      PROVE  Ending'
  BY <1>0, <1>1, <1>2 DEF Ending, Goto
<1>3. ASSUME NEW to \in GpuStates, Goto(c, to), tile' = tile,
             \A d \in Clusters : mbox'[d].cfgRec = mbox[d].cfgRec,
             to \in {"pvWait"} \cup AfterPv => gpc[c] \in {"pvWait"} \cup AfterPv
      PROVE  Recorded'
  BY <1>0, <1>3 DEF Recorded, Goto
<1>4. ASSUME NEW slot \in Slots \ {"cfgRec"}, NEW v \in Nat, Post(c, slot, v)
      PROVE  \A d \in Clusters : mbox'[d].cfgRec = mbox[d].cfgRec
  <2>1. slot \in Slots /\ slot # "cfgRec" /\ "cfgRec" \in Slots
    BY <1>4 DEF Slots, GpuSlots
  <2>2. \A d \in Clusters, s \in Slots :
          mbox'[d][s] = IF d = c /\ s = slot THEN v ELSE mbox[d][s]
    BY <1>0, <1>4, <2>1, Posted
  <2>3. QED
    BY <2>1, <2>2
<1>5. tile[c] + 1 \in Nat
  BY <1>0
<1>6. CASE QkIssue(c)
  <2>1. gpc[c] = "qkIssue" /\ Goto(c, "qkWait") /\ tile' = tile
    BY <1>6 DEF QkIssue
  <2>2. Ending'
    BY <1>2, <2>1 DEF GpuStates
  <2>3. CASE HostCfg /\ tile[c] = 0
    <3>1. \A d \in Clusters \ {c} : mbox'[d] = mbox[d]
      BY <1>0, <1>6, <2>3 DEF QkIssue, Post, TypeOK
    <3>2. gpc'[c] = "qkWait" /\ \A d \in Clusters \ {c} : gpc'[d] = gpc[d]
      BY <1>0, <2>1 DEF Goto
    <3>3. QED
      BY <1>0, <2>1, <2>2, <2>3, <3>1, <3>2 DEF Recorded, AfterPv
  <2>4. CASE ~(HostCfg /\ tile[c] = 0)
    <3>1. mbox' = mbox
      BY <1>6, <2>4 DEF QkIssue
    <3>2. QED
      BY <1>3, <2>1, <2>2, <3>1 DEF GpuStates, AfterPv
  <2>5. QED
    BY <2>3, <2>4
<1>7. CASE PvIssue(c)
  <2>1. gpc[c] = "pvIssue" /\ Goto(c, "pvWait") /\ tile' = tile
    BY <1>7 DEF PvIssue
  <2>2. Ending'
    BY <1>2, <2>1 DEF GpuStates
  <2>3. gpc'[c] = "pvWait" /\ \A d \in Clusters \ {c} : gpc'[d] = gpc[d]
    BY <1>0, <2>1 DEF Goto
  <2>4. CASE HostCfg /\ tile[c] = 0
    <3>1. Post(c, "cfgRec", 2)
      BY <1>7, <2>4 DEF PvIssue
    <3>2. mbox'[c].cfgRec = 2 /\ \A d \in Clusters \ {c} : mbox'[d].cfgRec = mbox[d].cfgRec
      BY <1>0, <3>1, Posted DEF Slots, GpuSlots
    <3>3. QED
      BY <1>0, <2>1, <2>2, <2>3, <3>2 DEF Recorded
  <2>5. CASE ~(HostCfg /\ tile[c] = 0)
    <3>1. mbox' = mbox
      BY <1>7, <2>5 DEF PvIssue
    <3>2. HostCfg => tile[c] > 0
      BY <1>0, <2>5
    <3>3. QED
      BY <1>0, <2>1, <2>2, <2>3, <3>1, <3>2 DEF Recorded
  <2>6. QED
    BY <2>4, <2>5
<1>8. CASE QkWait(c)
  <2>1. gpc[c] = "qkWait" /\ Goto(c, "qkRun") /\ tile' = tile /\ mbox' = mbox
    BY <1>8 DEF QkWait, AwaitHost
  <2>2. QED
    BY <1>2, <1>3, <2>1 DEF GpuStates, AfterPv
<1>9. CASE QkDone(c)
  <2>1. gpc[c] = "qkRun" /\ Goto(c, "softmax") /\ tile' = tile /\ Post(c, "qkDone", tile[c] + 1)
    BY <1>9 DEF QkDone
  <2>2. \A d \in Clusters : mbox'[d].cfgRec = mbox[d].cfgRec
    BY <1>4, <1>5, <2>1 DEF Slots, GpuSlots
  <2>3. QED
    BY <1>2, <1>3, <2>1, <2>2 DEF GpuStates, AfterPv
<1>10. CASE Softmax(c)
  <2>1. gpc[c] = "softmax" /\ Goto(c, "pvIssue") /\ tile' = tile /\ mbox' = mbox
    BY <1>10 DEF Softmax
  <2>2. QED
    BY <1>2, <1>3, <2>1 DEF GpuStates, AfterPv
<1>11. CASE PvWait(c)
  <2>1. gpc[c] = "pvWait" /\ Goto(c, "requant") /\ tile' = tile /\ mbox' = mbox
    BY <1>11 DEF PvWait, AwaitHost
  <2>2. QED
    BY <1>2, <1>3, <2>1 DEF GpuStates, AfterPv
<1>12. CASE Requant(c)
  <2>1. gpc[c] = "requant" /\ tile' = tile /\ mbox' = mbox /\ (Goto(c, "packReq") \/ Goto(c, "pack"))
    BY <1>12 DEF Requant
  <2>2. QED
    BY <1>2, <1>3, <2>1 DEF GpuStates, AfterPv
<1>13. CASE Pack(c)
  <2>1. gpc[c] = "pack" /\ Goto(c, "pvRun") /\ tile' = tile /\ mbox' = mbox
    BY <1>13 DEF Pack
  <2>2. QED
    BY <1>2, <1>3, <2>1 DEF GpuStates, AfterPv
<1>14. CASE PackReq(c)
  <2>1. gpc[c] = "packReq" /\ Goto(c, "packWait") /\ tile' = tile /\ Post(c, "packReq", tile[c] + 1)
    BY <1>14 DEF PackReq
  <2>2. \A d \in Clusters : mbox'[d].cfgRec = mbox[d].cfgRec
    BY <1>4, <1>5, <2>1 DEF Slots, GpuSlots
  <2>3. QED
    BY <1>2, <1>3, <2>1, <2>2 DEF GpuStates, AfterPv
<1>15. CASE PackWait(c)
  <2>1. gpc[c] = "packWait" /\ Goto(c, "pvRun") /\ tile' = tile /\ mbox' = mbox
    BY <1>15 DEF PackWait, AwaitHost
  <2>2. QED
    BY <1>2, <1>3, <2>1 DEF GpuStates, AfterPv
<1>16. CASE PvDone(c)
  <2>1. /\ gpc[c] = "pvRun" /\ Goto(c, "finalize") /\ tile' = [tile EXCEPT ![c] = @ + 1]
        /\ Post(c, "pvDone", tile[c] + 1)
    BY <1>16 DEF PvDone
  <2>2. \A d \in Clusters : mbox'[d].cfgRec = mbox[d].cfgRec
    BY <1>4, <1>5, <2>1 DEF Slots, GpuSlots
  <2>3. /\ gpc'[c] = "finalize" /\ tile'[c] = tile[c] + 1
        /\ \A d \in Clusters \ {c} : gpc'[d] = gpc[d] /\ tile'[d] = tile[d]
    BY <1>0, <2>1 DEF Goto
  <2>4. Ending'
    BY <1>0, <1>1, <2>3 DEF Ending
  <2>5. Recorded'
    BY <1>0, <2>1, <2>2, <2>3 DEF Recorded, AfterPv
  <2>6. QED
    BY <2>4, <2>5
<1>17. CASE Finalize(c)
  <2>1. /\ gpc[c] = "finalize" /\ tile' = tile /\ mbox' = mbox
        /\ \/ Goto(c, "qkIssue")
           \/ Goto(c, "end") /\ ~(tile[c] < NumTiles)
    BY <1>17 DEF Finalize
  <2>2. Recorded'
    BY <1>3, <2>1 DEF GpuStates, AfterPv
  <2>3. CASE Goto(c, "qkIssue")
    BY <1>2, <2>1, <2>2, <2>3 DEF GpuStates
  <2>4. CASE Goto(c, "end") /\ ~(tile[c] < NumTiles)
    <3>1. gpc'[c] = "end" /\ tile[c] >= NumTiles /\ \A d \in Clusters \ {c} : gpc'[d] = gpc[d]
      BY <1>0, <2>4 DEF Goto
    <3>2. QED
      BY <1>0, <1>1, <2>1, <2>2, <3>1 DEF Ending
  <2>5. QED
    BY <2>1, <2>3, <2>4
<1>18. QED
  BY <1>6, <1>7, <1>8, <1>9, <1>10, <1>11, <1>12, <1>13, <1>14, <1>15, <1>16, <1>17 DEF Gpu

LEMMA HostKeepsEnding ==
  ASSUME Refill, Ending, Recorded, Host
  PROVE  Ending' /\ Recorded'
<1>0. /\ TypeOK /\ build' = build /\ gpc' = gpc /\ tile' = tile
      /\ (WaitsExpire' <=> WaitsExpire) /\ (HostCfg' <=> HostCfg) /\ ht \in Nat
      /\ HostTiles \in Nat
  <2>1. TypeOK /\ ht \in Nat /\ HostTiles \in Nat
    BY Sizes DEF Refill, Ranges, TypeOK
  <2>2. build' = build
    BY DEF Host
  <2>3. gpc' = gpc /\ tile' = tile
    BY DEF Host, Push, Clear, PrefillV, Capture, ServicePack, NextTile, Window1, Window2, AwaitGpu, gpu
  <2>4. QED
    BY <2>1, <2>2, <2>3 DEF WaitsExpire, HostCfg
<1>1. ~WaitsExpire => ~expired'
  BY DEF Ending, Host, Push, Clear, PrefillV, Capture, ServicePack, NextTile, Window1, Window2,
         AwaitGpu, AwaitOrExpire
<1>2. hpc' = "end" => ht' >= HostTiles
  <2>1. \/ hpc' = hpc /\ ht' = ht
        \/ hpc' \in {"prefillV", "capture", "pack", "next", "qkDone"}
        \/ NextTile
    BY DEF Host, Push, Clear, PrefillV, Capture, ServicePack, Window1, Window2, AwaitGpu, Serve
  <2>2. QED
    BY <1>0, <2>1 DEF Ending, NextTile
<1>3. Ending'
  BY <1>0, <1>1, <1>2 DEF Ending
<1>4. CASE Clear
  <2>1. \A c \in Clusters : tile[c] = 0 /\ gpc[c] = "qkIssue"
    BY <1>4 DEF Clear, Refill, Phases
  <2>2. QED
    BY <1>0, <1>3, <2>1 DEF Recorded, AfterPv
<1>5. CASE Push
  <2>1. hpc' = hpc
    BY <1>5 DEF Push
  <2>2. \A c \in Clusters : mbox'[c].cfgRec = mbox[c].cfgRec
    <3>1. CASE mbox' = mbox
      BY <3>1
    <3>2. CASE mbox' # mbox
      <4>1. /\ Head(burst) \in Writes /\ Head(burst)[1] \in HostSlots
            /\ Post(Head(burst)[2], Head(burst)[1], Head(burst)[3])
        BY <1>5, <3>2 DEF Push, TypeOK, Refill, Ranges
      <4>2. "cfgRec" \notin HostSlots
        BY DEF HostSlots
      <4>3. QED
        BY <1>0, <4>1, <4>2 DEF Post, TypeOK, Slots, GpuSlots
    <3>3. QED
      BY <3>1, <3>2
  <2>3. QED
    BY <1>0, <1>3, <2>1, <2>2 DEF Recorded
<1>6. CASE ~Clear /\ ~Push
  <2>1. mbox' = mbox /\ hpc # "boot"
    BY <1>6 DEF Host, PrefillV, Capture, ServicePack, NextTile, Window1, Window2, AwaitGpu
  <2>2. QED
    BY <1>0, <1>3, <2>1 DEF Recorded
<1>7. QED
  BY <1>4, <1>5, <1>6

LEMMA StepKeepsEnding == Refill /\ Ending /\ Recorded /\ [Next]_vars => (Ending /\ Recorded)'
<1> SUFFICES ASSUME Refill, Ending, Recorded, [Next]_vars PROVE (Ending /\ Recorded)'
  OBVIOUS
<1>1. CASE UNCHANGED vars
  BY <1>1 DEF vars, Ending, Recorded, WaitsExpire, HostCfg
<1>2. QED
  BY <1>1, GpuKeepsEnding, HostKeepsEnding DEF Next

(* With waits that do not run out, whoever waits is not waited for.        *)
LEMMA SomebodyGoesOn ==
  ASSUME Refill, CleanPack, Ending, Recorded, HostTiles = NumTiles,
         ~HostMayStep, \A c \in Clusters : ~ClusterMayStep(c)
  PROVE  Finished
<1>1. /\ burst = <<>> /\ Pending(burst) = {} /\ hpc \in {"capture", "pack", "pvDone", "qkDone", "end"}
      /\ ht \in 0 .. NumTiles /\ NumTiles \in Nat \ {0} /\ hpc # "boot"
      /\ \A c \in Clusters : tile[c] \in 0 .. NumTiles
      /\ \A c \in Clusters, s \in Slots : mbox[c][s] \in Nat
      /\ (hpc # "end" => ht < NumTiles)
  BY NoBurst, Sizes DEF HostMayStep, Refill, Ranges, TypeOK, HostStates
<1>2. \A c \in Clusters :
        \/ gpc[c] = "qkWait" /\ tile[c] < NumTiles /\ ~Ready("qkReady", c, tile[c] + 1)
        \/ gpc[c] = "pvWait" /\ tile[c] < NumTiles /\ ~Ready("vReady", c, tile[c] + 1)
        \/ gpc[c] = "packWait" /\ tile[c] < NumTiles /\ ~Ready("packed", c, tile[c] + 1) /\ HostPack
        \/ gpc[c] = "end" /\ tile[c] = NumTiles
  <2>1. ASSUME NEW c \in Clusters
        PROVE  \/ gpc[c] = "qkWait" /\ tile[c] < NumTiles /\ ~Ready("qkReady", c, tile[c] + 1)
               \/ gpc[c] = "pvWait" /\ tile[c] < NumTiles /\ ~Ready("vReady", c, tile[c] + 1)
               \/ gpc[c] = "packWait" /\ tile[c] < NumTiles /\ ~Ready("packed", c, tile[c] + 1)
                                      /\ HostPack
               \/ gpc[c] = "end" /\ tile[c] = NumTiles
    <3>1. gpc[c] \in {"qkWait", "pvWait", "packWait", "end"}
      BY <1>1 DEF ClusterMayStep, Refill, Ranges, TypeOK, GpuStates
    <3>2. gpc[c] \notin {"finalize", "end"} => tile[c] < NumTiles
      BY DEF Refill, Ranges
    <3>3. gpc[c] = "packWait" => HostPack
      BY DEF Refill, PackedScales
    <3>4. gpc[c] = "end" => tile[c] = NumTiles
      BY <1>1 DEF Ending
    <3>5. QED
      BY <3>1, <3>2, <3>3, <3>4 DEF ClusterMayStep
  <2>2. QED
    BY <2>1
(* The flags of the host, as nothing is pending.                           *)
<1>3. \A c \in Clusters :
        /\ mbox[c].qkReady = IF hpc \in Settled THEN ht ELSE ht + 1
        /\ mbox[c].vReady = IF hpc \in {"qkDone"} \cup Settled THEN ht ELSE ht + 1
        /\ HostPack => mbox[c].packed = ht
  BY <1>1 DEF Refill, Flags, QkPending, VPending, PackPending, Settled
<1>4. \A c \in Clusters :
        /\ mbox[c].qkDone = IF gpc[c] \in AfterQk THEN tile[c] + 1 ELSE tile[c]
        /\ mbox[c].pvDone = tile[c]
        /\ HostPack => mbox[c].packReq = IF gpc[c] \in PackAsked THEN tile[c] + 1 ELSE tile[c]
  BY <1>1 DEF Refill, GpuCounts
<1>5. CASE hpc = "end"
  <2>1. ht = NumTiles
    BY <1>1, <1>5 DEF Ending
  <2>2. \A c \in Clusters : mbox[c].qkReady = NumTiles /\ mbox[c].vReady = NumTiles
                            /\ (HostPack => mbox[c].packed = NumTiles)
    BY <1>3, <1>5, <2>1 DEF Settled
  <2>3. \A c \in Clusters : tile[c] < NumTiles => NumTiles >= tile[c] + 1
    BY <1>1
  <2>4. \A c \in Clusters : gpc[c] = "end"
    BY <1>2, <2>2, <2>3 DEF Ready
  <2>5. QED
    BY <1>5, <2>4 DEF Finished
<1>6. CASE hpc # "end"
  <2>0. ~WaitsExpire /\ ~expired /\ ht < NumTiles
    BY <1>1, <1>6 DEF Ending, HostMayStep, Ready
  <2>1. CASE hpc = "capture"
    <3>1. PICK c \in Clusters : ~(mbox[c].cfgRec >= 2)
      BY <2>0, <2>1 DEF HostMayStep, Ready
    <3>2. ht = 0 /\ HostCfg
      BY <2>1 DEF Refill, Phases
    <3>3. ~(tile[c] > 0) /\ gpc[c] \notin {"pvWait"} \cup AfterPv
      BY <1>1, <3>1, <3>2 DEF Recorded
    <3>4. tile[c] = 0
      BY <1>1, <3>3
    <3>5. gpc[c] = "qkWait" /\ ~(mbox[c].qkReady >= 1)
      BY <1>1, <1>2, <3>3, <3>4 DEF Ready, AfterPv
    <3>6. QED
      BY <1>3, <2>1, <3>2, <3>5 DEF Settled
  <2>2. CASE hpc = "pack"
    <3>0. HostPack
      BY <2>2 DEF Refill, Phases
    <3>1. PICK c \in Clusters : ~(mbox[c].packReq >= ht + 1)
      BY <2>0, <2>2 DEF HostMayStep, Ready
    <3>2. tile[c] >= ht
      BY <1>1, <2>0, <2>2 DEF Refill, Served, Serving, Past
    <3>3. tile[c] = ht /\ gpc[c] \notin PackAsked
      BY <1>1, <1>4, <3>0, <3>1, <3>2
    <3>4. mbox[c].qkReady = ht + 1 /\ mbox[c].vReady = ht + 1
      BY <1>3, <2>2 DEF Settled
    <3>5. gpc[c] \in {"qkWait", "pvWait"}
      BY <1>1, <1>2, <2>0, <3>3 DEF PackAsked
    <3>6. QED
      BY <1>1, <1>2, <3>3, <3>4, <3>5 DEF Ready
  <2>3. CASE hpc = "pvDone"
    <3>1. PICK c \in Clusters : ~(mbox[c].pvDone >= ht)
      BY <2>0, <2>3 DEF HostMayStep, Ready
    <3>2. tile[c] >= ht - 1
      BY <2>0, <2>3 DEF Refill, Served, Settled
    <3>3. tile[c] = ht - 1
      BY <1>1, <1>4, <3>1, <3>2
    <3>4. mbox[c].qkReady = ht /\ mbox[c].vReady = ht /\ (HostPack => mbox[c].packed = ht)
      BY <1>3, <2>3 DEF Settled
    <3>5. gpc[c] # "end"
      BY <1>1, <1>2, <3>3
    <3>6. QED
      BY <1>1, <1>2, <3>3, <3>4, <3>5 DEF Ready
  <2>4. CASE hpc = "qkDone"
    <3>1. PICK c \in Clusters : ~(mbox[c].qkDone >= ht + 1)
      BY <2>0, <2>4 DEF HostMayStep, Ready
    <3>2. tile[c] >= ht
      BY <2>0, <2>4 DEF Refill, Served
    <3>3. tile[c] = ht /\ gpc[c] \notin AfterQk
      BY <1>1, <1>4, <3>1, <3>2
    <3>4. mbox[c].qkReady = ht + 1
      BY <1>3, <2>4 DEF Settled
    <3>5. gpc[c] = "qkWait"
      BY <1>1, <1>2, <2>0, <3>3 DEF AfterQk
    <3>6. QED
      BY <1>1, <1>2, <3>3, <3>4, <3>5 DEF Ready
  <2>5. QED
    BY <1>1, <1>6, <2>1, <2>2, <2>3, <2>4
<1>7. QED
  BY <1>5, <1>6

(* Host and clusters never wait for each other in a circle, for any number *)
(* of clusters and of tiles, in every build: neither of them needs a wait  *)
(* to run out (the windows of fa_mx_hostsf/host.cpp).  Both are built for  *)
(* the same number of tiles; otherwise one of them is left waiting.        *)
THEOREM NobodyIsStuck == WordsClean /\ HostTiles = NumTiles => (Spec => []NeverStuck)
<1> SUFFICES ASSUME WordsClean, HostTiles = NumTiles PROVE Spec => []NeverStuck
  OBVIOUS
<1>1. Refill /\ CleanPack /\ Ending /\ Recorded => NeverStuck
  BY SomebodyGoesOn DEF NeverStuck
<1>2. Init => Ending /\ Recorded
  BY InitEnding
<1>3. Refill /\ Ending /\ Recorded /\ [Next]_vars => (Ending /\ Recorded)'
  BY StepKeepsEnding
<1>4. WordsClean /\ Spec => []CleanPack
  BY CleanAlways
<1>5. QED
  BY <1>1, <1>2, <1>3, <1>4, RefillAlways, PTL DEF Spec
=============================================================================
