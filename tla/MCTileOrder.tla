---------------------------- MODULE MCTileOrder -----------------------------
(* The conditions of TileOrder on the kernels, for TLC to evaluate: no     *)
(* state machine is run.                                                   *)
EXTENDS KernelPrograms

(* The clocks of a script, along the order of its operations.  `cur' is    *)
(* what each actor knows when it comes to its next operation, `posts' what *)
(* it knew when it posted a flag.                                          *)
NoClock == [u \in Actors |-> 0]
Join(clocks) == [u \in Actors |-> Max({c[u] : c \in clocks})]

Seen(s, op) ==
  (CHOOSE p \in s.posts : p.flag = op.flag /\ p.value = op.value).clock
After(s, op, w) ==
  LET own(v) == [s.cur[v] EXCEPT ![v] = Len(s.clocks) + 1]
  IN CASE op.kind = "barrier" -> Join({own(v) : v \in op.who})
       [] op.kind = "await" -> Join({own(w), Seen(s, op)})
       [] OTHER -> own(w)

Along(s, op) ==
  [clocks |-> Append(s.clocks, [w \in Actors |-> IF w \in op.who THEN s.cur[w] ELSE NoClock]),
   cur |-> [w \in Actors |-> IF w \in op.who THEN After(s, op, w) ELSE s.cur[w]],
   posts |-> s.posts \cup
     IF op.kind # "post" THEN {}
     ELSE {[flag |-> op.flag, value |-> op.value, clock |-> After(s, op, w)] : w \in op.who}]

(* By halves, and the first half before the second: TLC needs little stack.*)
RECURSIVE AlongAll(_, _)
AlongAll(s, script) ==
  IF Len(script) = 1 THEN Along(s, Head(script))
  ELSE LET half == Len(script) \div 2
       IN CHOOSE t \in {AlongAll(u, SubSeq(script, half + 1, Len(script))) :
                          u \in {AlongAll(s, SubSeq(script, 1, half))}} : TRUE

ClockOf(script) ==
  AlongAll([clocks |-> <<>>, cur |-> [w \in Actors |-> NoClock], posts |-> {}], script).clocks
Clocks == LET clocks == [k \in DOMAIN AllPrograms |-> ClockOf(AllPrograms[k].script)] IN clocks

(* AllPrograms and Clocks are taken as parameters: TLC then looks into     *)
(* their values, and does not evaluate them again wherever they are used.  *)
Order(k, programs, clocks) ==
  INSTANCE TileOrder
  WITH Kernels <- DOMAIN programs, Program <- programs, Clock <- clocks, kernel <- k,
       pc <- 0, mode <- 0, unfenced <- 0, queue <- 0, busy <- 0, memory <- 0, flags <- 0
=============================================================================
