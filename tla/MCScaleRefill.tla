--------------------------- MODULE MCScaleRefill ---------------------------
(* ScaleRefill for TLC: the build in which the host replays configuration  *)
(* and move-ins, with waits that run out and with waits that do not, and   *)
(* the one in which it packs the scales of P.                              *)
EXTENDS ScaleRefill

Build(cfg, pack, expire, junk) ==
  [hostCfg |-> cfg, hostPack |-> pack, waitsExpire |-> expire, junk |-> junk]

ReplayOrPack ==
  {Build(TRUE, FALSE, expire, junk) : expire \in BOOLEAN, junk \in {0, 9}}
    \cup {Build(FALSE, TRUE, FALSE, 0)}
PackOnStaleSmem == {Build(FALSE, TRUE, FALSE, junk) : junk \in {0, 9}}
=============================================================================
