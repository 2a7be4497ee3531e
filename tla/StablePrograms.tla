--------------------------- MODULE StablePrograms ---------------------------
(***************************************************************************)
(* The scripts of fa_stable_fpga.  A build is the set of its -D options    *)
(* (without their prefix FA_SP_ or FA_ST_).                                *)
(***************************************************************************)
EXTENDS StablePasses

CONSTANT NumTiles \* FA_SPTILES

Final(t) == t + 1 = NumTiles
(* The Q that is in the scratchpad when the scores of tile t are computed: *)
(* after the last tile they are computed once more, and never used.        *)
QOf(t) == IF t < NumTiles THEN t ELSE NumTiles - 1

-----------------------------------------------------------------------------
(* Prologue: K, V and their scales, the first Q, the first scores.         *)

HostPrologue ==
  <<Scl({Host}, "sfB0", "K", 0), Scl({Host}, "sfB1", "V", 0), Scl({Host}, "sfA1", "Q", 0),
    HostFence, Post({Host}, "READY", 1)>>

LoadScales(b) ==
  IF "HSF" \in b THEN HostPrologue \o <<Await(Agent, "READY", 1)>>
  ELSE <<Scl(Agent, "sfB0", "K", 0), Scl(Agent, "sfB1", "V", 0)>>
       \o When("PROLOGF" \in b, <<Fence(Agent)>> \o Gf)

Prologue(b) ==
  When("LEANCFG" \in b, Gf)
  \o Cfg(b) \o <<MoveIn("K", <<"K", 0>>)>> \o Cfg(b) \o <<MoveIn("V", <<"V", 0>>)>> \o Gf
  \o LoadScales(b)
  \o When("QOVL" \in b, <<MoveInQ(0)>> \o When("HSF" \notin b, <<SclQ(0)>>))

FirstScores(b) == Cfg(b) \o Gf \o MmAcc(QkOperands(0), "S", 0)

-----------------------------------------------------------------------------
(* The body of QSPLIT, QOVL4, QOVL3, QOVL and of the builds without them   *)

LoadQ(t) == When(t < NumTiles, <<MoveInQ(t), SclQ(t)>>)

S0(b, t) == When("QOVL" \notin b, Cfg(b) \o LoadQ(t) \o FapBar(3))

S1(b, t) ==
  (IF "QKACC" \in b THEN DrainToSpad("S", "C", t)
   ELSE Gf \o When("QOVL" \in b, Cfg(b)) \o Mm(QkOperands(t), In("C", "S", t)) \o Gfl)
  \o FapBar(4)

Softmax(b, who, t) ==
  CASE {"FUSE", "RMBATCH"} \subseteq b -> <<RowMaxBatch(who, t)>>
    [] "FUSE" \in b -> <<RowMax(who, t)>>
    [] "ITEM" \in b -> SoftmaxItem(who, t)
    [] {"CBMAX", "SM1F"} \cap b # {} -> <<SoftmaxCoop(who, t, "CBMAX" \in b)>>
    [] "SMTPR" \in b -> <<SoftmaxTpr(who, t, "SMBMAX" \in b)>>
    [] OTHER -> <<OnlineSoftmax(who, "C", "m", "l", t)>>

S2(b, t) ==
  (IF "QOVL" \in b /\ b \cap {"QOVL3", "QOVL4", "QSPLIT"} = {}
   THEN LoadQ(t + 1) \o Softmax(b, Workers, t)
   ELSE When("QEARLY" \in b /\ ~Final(t), <<MoveInQ(t + 1)>>) \o Softmax(b, Warps, t))
  \o FapBar(5)

(* S3 and S4: probabilities to fp8, their scales to the scale memory.      *)
FusedRequant(t) ==
  <<ExpReq(Warps, "P8lo", "scalelo", "lpartlo", t)>> \o FapBar(6)
  \o <<PackScales(Agent, "scalelo", "sfA0lo", t), ExpReq(Workers, "P8hi", "scalehi", "lparthi", t)>>
  \o FapBar(11)
  \o <<PackScales(Agent, "scalehi", "sfA0hi", t), RowSum(Workers, {"lpartlo", "lparthi"}, t)>>
  \o FapBar(7)

HostPacks(t) ==
  <<Await({Host}, "PACKREQ", t + 1), PackScales({Host}, "scale", "sfA0", t),
    Scl({Host}, "sfA1", "Q", QOf(t + 1)), HostFence, Post({Host}, "PACKED", t + 1)>>

ToScaleMemory(b, t) ==
  CASE "HSF" \in b -> HostPacks(t)
    [] "PREPK" \in b -> <<CopyScales(t)>>
    [] OTHER -> <<PackScales(Agent, "scale", "sfA0", t)>>

OverlappedPack(b, t) ==
  When(b \cap {"SMBMAX", "CBMAX", "ITEM"} = {}, <<RequantMax(Warps, "C", t)>>) \o FapBar(6)
  \o When("PREPK" \in b, <<Prepack(t)>> \o FapBar(1))
  \o When("HSF" \in b, <<Post(Agent, "PACKREQ", t + 1)>>)
  \o When("QSPLIT" \in b /\ {"QEARLY", "NOOVL"} \cap b = {} /\ ~Final(t), <<MoveInQ(t + 1)>>)
  \o ToScaleMemory(b, t)
  \o <<RequantCvt(IF "HSF" \in b THEN Warps ELSE Workers, "C", "P8", t)>>
  \o FapBar(7)

S4(b, t) ==
  CASE "FUSE" \in b -> FusedRequant(t)
    [] "PKOVL" \in b -> OverlappedPack(b, t)
    [] OTHER -> <<RequantTiled(Warps, t)>> \o FapBar(6)
                \o <<PackScales(Agent, "scale", "sfA0", t)>> \o FapBar(7)

PvOf(b, t) ==
  IF "FUSE" \in b THEN PvOperands({"P8lo", "P8hi"}, {"sfA0lo", "sfA0hi"}, t)
  ELSE PvOperands({"P8"}, {"sfA0"}, t)

S5(b, t) ==
  When("HSF" \in b, <<Await(Agent, "PACKED", t + 1)>>) \o Cfg(b)
  \o When("QDRAIN" \in b, Gf)
  \o When("QOVL3" \in b /\ ~Final(t), <<MoveInQ(t + 1)>>)
  \o Mm(PvOf(b, t), In("O", "PV", t))
  \o When({"QSPLIT", "QOVL3"} \cap b # {} /\ {"HSF", "NOOVL"} \cap b = {} /\ ~Final(t), <<SclQ(t + 1)>>)
  \o Gfl \o FapBar(8)

Finalize(b, who, t) ==
  IF "FZFLAT" \in b THEN FinalizeInvL(who, t) ELSE <<FinalizeO(who, "O", "l", t)>>

(* Mutant: NOOVL leaves the next Q in flight.                              *)
LoadNextUndrained(b, t) ==
  When("NOOVL" \in b /\ ~Final(t), <<MoveInQ(t + 1), SclQ(t + 1), Fence(Agent)>>)
  \o When("QOVL4" \in b, When(~Final(t), LoadQ(t + 1) \o <<Fence(Agent)>>) \o When("QGF" \in b, Gf))

(* The operands of the next scores, where the build loads them here.       *)
LoadNext(b, t) ==
  When("NOOVL" \in b /\ ~Final(t), <<MoveInQ(t + 1)>> \o Gf \o <<SclQ(t + 1), Fence(Agent)>> \o Gf)
  \o When("QSPLIT" \in b /\ "NOOVL" \notin b, Gf)
  \o When("QOVL4" \in b, When(~Final(t), LoadQ(t + 1) \o <<Fence(Agent)>>) \o When("QGF" \in b, Gf))

S6(b, t) ==
  IF "QKACC" \notin b THEN Finalize(b, Warps, t) \o FapBar(9)
  ELSE LoadNext(b, t) \o Cfg(b) \o MmAcc(QkOperands(QOf(t + 1)), "S", t + 1)
       \o (IF "NOOVL" \in b THEN Gfl \o FapBar(3) \o Finalize(b, Warps, t)
           ELSE Finalize(b, IF "FZ6" \in b THEN Warps ELSE Workers, t))
       \o FapBar(9)

StableTile(b, t) == S0(b, t) \o S1(b, t) \o S2(b, t) \o S4(b, t) \o S5(b, t) \o S6(b, t)
=============================================================================
