---------------------------- MODULE MxGemmProofs ----------------------------
(* The software pipeline of mxgemm for any number of tiles and of warps.   *)
EXTENDS MxGemm, TLAPS

-----------------------------------------------------------------------------
(* The inductive invariant                                                 *)

InRound == {"config", "mvin", "compute", "scaleA", "scaleB"}
Fences == {"fenceScales", "fenceGemmini"}
Past == {"fenceC", "mvout", "drain", "barrier2", "copy", "done"}

(* The tile whose matmul thread 0 has queued or is about to queue: -1      *)
(* while only the move-in of tile 0 is under way.                          *)
Round == IF pc[0] \in InRound THEN k ELSE k - 1

Ops(q) == {q[i].op : i \in 1 .. Len(q)}

Rank == [op \in {"config", "mvin", "compute", "mvout"} |->
          CASE op = "config" -> 1 [] op = "mvin" -> 2 [] op = "compute" -> 3 [] OTHER -> 4]
ArgOf(op, r) ==
  CASE op = "config" -> Half(r) [] op = "mvin" -> r + 1 [] op = "compute" -> r [] OTHER -> 0

(* The queue holds commands of round r, each once, in the order of issue.  *)
InOrder(q, r) ==
  /\ q \in Seq(Command)
  /\ \A i \in 1 .. Len(q) : q[i].arg = ArgOf(q[i].op, r)
  /\ \A i, j \in 1 .. Len(q) : i < j => Rank[q[i].op] < Rank[q[j].op]

(* The tiles 0 .. n - 1, each added once.                                  *)
Sum(n) == [i \in 1 .. n |-> i - 1]

Ranges ==
  /\ accToGmem \in BOOLEAN
  /\ pc \in [Warps -> Stages]
  /\ k \in 0 .. NumTiles
  /\ dma \in Tiles \cup {Nothing}
  /\ mesh \in Tiles \cup {Nothing}
  /\ spad \in [0 .. 1 -> Tiles \cup {Nothing}]
  /\ scale \in [Operands -> [0 .. 1 -> Tiles \cup {Nothing}]]
  /\ toggle \in 0 .. 1
  /\ posted \subseteq (Operands \X Tiles)
  /\ acc \in {None} \cup {Sum(n) : n \in 1 .. NumTiles}
  /\ stored \in {None, Whole}
  /\ result \in {None, Whole}
  /\ out \in [Warps -> {None, Whole}]

(* Where the warps are, and what that says of k.                           *)
Places ==
  /\ pc[0] \in Setup => k = 0
  /\ pc[0] \in InRound => k < NumTiles
  /\ pc[0] = "mvin" => k + 1 < NumTiles
  /\ pc[0] \notin Setup \cup Loop => k = NumTiles
  /\ \A w \in Warps \ {0} : pc[w] \in {"barrier1", "fenceC", "barrier2", "copy", "done"}
  /\ \A w \in Warps : pc[w] \in Past => pc[0] \notin Setup \cup Loop \cup {"end"}
  /\ \A w \in Warps : pc[w] \in {"mvout", "drain", "barrier2"} => accToGmem
  /\ accToGmem => \A w \in Warps : pc[w] \in {"copy", "done"} =>
                    pc[0] \in {"barrier2", "copy", "done"}

MoveInIssued == {"scaleA0", "scaleB0", "compute", "scaleA", "scaleB"} \cup Fences
ConfigIssued == {"mvin", "compute", "scaleA", "scaleB"} \cup Fences
ComputeIssued == {"scaleA", "scaleB"} \cup Fences

(* What may still be queued or under way, and in which order.              *)
Queued ==
  /\ InOrder(queue, Round)
  /\ "config" \in Ops(queue) => Round >= 0 /\ pc[0] \in ConfigIssued
  /\ "mvin" \in Ops(queue) => Round + 1 < NumTiles /\ pc[0] \in MoveInIssued /\ dma = Nothing
  /\ "compute" \in Ops(queue) => Round >= 0 /\ pc[0] \in ComputeIssued /\ mesh = Nothing
  /\ "mvout" \in Ops(queue) => pc[0] = "drain"
  /\ dma # Nothing => /\ dma = Round + 1 /\ Round + 1 < NumTiles
                      /\ pc[0] \in MoveInIssued
                      /\ "config" \notin Ops(queue)
  /\ mesh # Nothing => /\ mesh = Round
                       /\ pc[0] \in ComputeIssued
                       /\ Ops(queue) = {}

(* The tile of the round is in its buffer, the next one on its way.        *)
OperandsAreThere ==
  /\ Round >= 0 => spad[Half(Round)] = Round
  /\ Round + 1 < NumTiles /\ pc[0] \in MoveInIssued =>
       "mvin" \in Ops(queue) \/ dma = Round + 1 \/ spad[Half(Round + 1)] = Round + 1

ToggleIsSet ==
  Round >= 0 /\ pc[0] \in ConfigIssued => "config" \in Ops(queue) \/ toggle = Half(Round)

ScaleIsThere(x, tile) == <<x, tile>> \in posted \/ scale[x][Half(tile)] = tile

(* So are the scales.                                                      *)
ScalesAreThere ==
  /\ Round >= 0 => \A x \in Operands : scale[x][Half(Round)] = Round
  /\ posted \subseteq (Operands \X {Round + 1})
  /\ posted # {} => pc[0] \in {"scaleB0", "scaleB", "fenceScales"}
  /\ pc[0] \in {"scaleB0", "scaleB"} \cup Fences => ScaleIsThere("A", Round + 1)
  /\ pc[0] \in Fences => ScaleIsThere("B", Round + 1)

(* The matmul of the round has not ended.                                  *)
Computing ==
  pc[0] \in {"config", "mvin", "compute"} \/ "compute" \in Ops(queue) \/ mesh # Nothing

Accumulated ==
  Round >= 0 => IF Computing THEN Round > 0 => acc = Sum(Round) ELSE acc = Sum(Round + 1)

(* The whole product is in the accumulator.                                *)
Finished == Round = NumTiles - 1 /\ ~Computing

Delivered ==
  /\ stored # None => ~accToGmem /\ Finished
  /\ Finished /\ ~accToGmem => stored = Whole \/ result = Whole
  /\ accToGmem /\ pc[0] \in {"barrier2", "copy", "done"} => result = Whole
  /\ pc[0] = "drain" => "mvout" \in Ops(queue) \/ result = Whole

Copied ==
  FenceC => \A w \in Warps :
    /\ pc[w] \in {"copy", "done"} => result = Whole
    /\ pc[w] = "done" => out[w] = Whole

Pipeline == Ranges /\ Places /\ Queued /\ OperandsAreThere /\ ToggleIsSet /\ ScalesAreThere
                   /\ Accumulated /\ Delivered

-----------------------------------------------------------------------------
(* Lemmas about the operators                                              *)

OpNames == {"config", "mvin", "compute", "mvout"}

(* The two buffers: neighbouring tiles never share one.                    *)
LEMMA Parity ==
  ASSUME NEW r \in Int
  PROVE  Half(r) \in 0 .. 1 /\ Half(r + 1) \in 0 .. 1 /\ Half(r + 1) # Half(r)
BY DEF Half

LEMMA RankOrder ==
  /\ Rank["config"] = 1 /\ Rank["mvin"] = 2 /\ Rank["compute"] = 3 /\ Rank["mvout"] = 4
BY DEF Rank

LEMMA OpsAreOps ==
  ASSUME NEW q, NEW r, InOrder(q, r)
  PROVE  Ops(q) \subseteq OpNames
<1>1. \A i \in 1 .. Len(q) : q[i] \in Command
  BY DEF InOrder
<1>2. \A i \in 1 .. Len(q) : q[i].op \in OpNames
  BY <1>1 DEF Command, OpNames
<1>3. QED
  BY <1>2 DEF Ops

LEMMA EmptyQueue ==
  ASSUME NEW q, NEW r, InOrder(q, r)
  PROVE  q = <<>> <=> Ops(q) = {}
<1>1. q \in Seq(Command)
  BY DEF InOrder
<1>2. CASE q = <<>>
  BY <1>2 DEF Ops
<1>3. CASE q # <<>>
  <2>1. 1 \in 1 .. Len(q)
    BY <1>1, <1>3
  <2>2. QED
    BY <2>1, <1>3 DEF Ops
<1>4. QED
  BY <1>2, <1>3

(* Gemmini takes the command that comes first in a round.                  *)
LEMMA Popped ==
  ASSUME NEW q, NEW r, InOrder(q, r), q # <<>>
  PROVE  /\ Head(q).op \in Ops(q) /\ Head(q).op \in OpNames
         /\ Head(q).arg = ArgOf(Head(q).op, r) /\ Head(q).arg \in Tiles
         /\ InOrder(Tail(q), r)
         /\ Ops(Tail(q)) = Ops(q) \ {Head(q).op}
         /\ \A op \in Ops(q) : op # Head(q).op => Rank[Head(q).op] < Rank[op]
<1>1. q \in Seq(Command) /\ 1 \in 1 .. Len(q) /\ Head(q) = q[1] /\ Len(q) \in Nat
  BY DEF InOrder
<1>2. q[1] \in Command
  BY <1>1
<1>3. q[1].op \in OpNames /\ q[1].arg \in Tiles
  BY <1>2 DEF Command, OpNames
<1>4. /\ Tail(q) \in Seq(Command)
      /\ Len(Tail(q)) = Len(q) - 1
      /\ \A i \in 1 .. Len(q) - 1 : Tail(q)[i] = q[i + 1]
  BY <1>1
<1>5. \A i \in 1 .. Len(q) - 1 : i + 1 \in 1 .. Len(q)
  BY <1>1
<1>6. InOrder(Tail(q), r)
  <2>1. \A i \in 1 .. Len(Tail(q)) : Tail(q)[i].arg = ArgOf(Tail(q)[i].op, r)
    BY <1>4, <1>5 DEF InOrder
  <2>2. ASSUME NEW i \in 1 .. Len(Tail(q)), NEW j \in 1 .. Len(Tail(q)), i < j
        PROVE  Rank[Tail(q)[i].op] < Rank[Tail(q)[j].op]
    <3>1. i + 1 < j + 1 /\ i + 1 \in 1 .. Len(q) /\ j + 1 \in 1 .. Len(q)
      BY <2>2, <1>4, <1>5
    <3>2. QED
      BY <3>1, <1>4 DEF InOrder
  <2>3. QED
    BY <1>4, <2>1, <2>2 DEF InOrder
<1>7. \A i \in 1 .. Len(q) : i # 1 => Rank[q[1].op] < Rank[q[i].op]
  BY <1>1 DEF InOrder
<1>8. \A op \in OpNames : Rank[op] \in Nat
  BY DEF Rank, OpNames
<1>9. \A i \in 1 .. Len(q) : i # 1 => q[i].op # q[1].op
  BY <1>3, <1>7, <1>8
<1>10. ASSUME NEW op \in Ops(q), op # q[1].op
       PROVE  op \in Ops(Tail(q)) /\ Rank[q[1].op] < Rank[op]
  <2>1. PICK i \in 1 .. Len(q) : q[i].op = op
    BY <1>10 DEF Ops
  <2>2. i - 1 \in 1 .. Len(Tail(q)) /\ Tail(q)[i - 1] = q[i]
    BY <1>1, <1>4, <1>10, <2>1
  <2>3. QED
    BY <1>7, <1>10, <2>1, <2>2 DEF Ops
<1>11. ASSUME NEW op \in Ops(Tail(q))
       PROVE  op \in Ops(q) /\ op # q[1].op
  <2>1. PICK i \in 1 .. Len(q) - 1 : q[i + 1].op = op
    BY <1>4, <1>11 DEF Ops
  <2>2. i + 1 \in 1 .. Len(q) /\ i + 1 # 1
    BY <1>1, <2>1
  <2>3. QED
    BY <1>9, <2>1, <2>2 DEF Ops
<1>12. Ops(Tail(q)) = Ops(q) \ {q[1].op}
  BY <1>10, <1>11
<1>13. q[1].op \in Ops(q) /\ q[1].arg = ArgOf(q[1].op, r)
  BY <1>1 DEF Ops, InOrder
<1>14. QED
  BY <1>1, <1>3, <1>6, <1>10, <1>12, <1>13

(* Thread 0 queues the commands of a round in their order.                 *)
LEMMA Pushed ==
  ASSUME NEW q, NEW r, NEW op \in OpNames, NEW arg \in Tiles,
         InOrder(q, r), arg = ArgOf(op, r), \A o \in Ops(q) : Rank[o] < Rank[op]
  PROVE  /\ InOrder(Append(q, [op |-> op, arg |-> arg]), r)
         /\ Ops(Append(q, [op |-> op, arg |-> arg])) = Ops(q) \cup {op}
<1> DEFINE e == [op |-> op, arg |-> arg]
           p == Append(q, e)
<1>1. q \in Seq(Command) /\ e \in Command
  BY DEF InOrder, Command, OpNames
<1>2. p \in Seq(Command) /\ Len(p) = Len(q) + 1 /\ Len(q) \in Nat
  BY <1>1
<1>3. p[Len(q) + 1] = e /\ \A i \in 1 .. Len(q) : p[i] = q[i]
  BY <1>1
<1>4. e.op = op /\ e.arg = arg
  OBVIOUS
<1> HIDE DEF e, p
<1>5. \A i \in 1 .. Len(p) : p[i].arg = ArgOf(p[i].op, r)
  BY <1>2, <1>3, <1>4 DEF InOrder
<1>6. ASSUME NEW i \in 1 .. Len(p), NEW j \in 1 .. Len(p), i < j
      PROVE  Rank[p[i].op] < Rank[p[j].op]
  <2>1. i \in 1 .. Len(q) /\ p[i] = q[i] /\ q[i].op \in Ops(q)
    BY <1>2, <1>3, <1>6 DEF Ops
  <2>2. CASE j = Len(q) + 1
    BY <2>1, <2>2, <1>3, <1>4
  <2>3. CASE j \in 1 .. Len(q)
    BY <2>1, <2>3, <1>3, <1>6 DEF InOrder
  <2>4. QED
    BY <1>2, <2>2, <2>3
<1>7. InOrder(p, r)
  BY <1>2, <1>5, <1>6 DEF InOrder
<1>8. Ops(p) = Ops(q) \cup {op}
  <2>1. ASSUME NEW o \in Ops(p) PROVE o \in Ops(q) \cup {op}
    <3>1. PICK i \in 1 .. Len(p) : p[i].op = o
      BY <2>1 DEF Ops
    <3>2. QED
      BY <3>1, <1>2, <1>3, <1>4 DEF Ops
  <2>2. ASSUME NEW o \in Ops(q) PROVE o \in Ops(p)
    <3>1. PICK i \in 1 .. Len(q) : q[i].op = o
      BY <2>2 DEF Ops
    <3>2. i \in 1 .. Len(p)
      BY <1>2, <3>1
    <3>3. QED
      BY <3>1, <3>2, <1>3 DEF Ops
  <2>3. op \in Ops(p)
    <3>1. Len(q) + 1 \in 1 .. Len(p)
      BY <1>2
    <3>2. QED
      BY <3>1, <1>3, <1>4 DEF Ops
  <2>4. QED
    BY <2>1, <2>2, <2>3
<1>9. QED
  BY <1>7, <1>8 DEF p, e

(* The accumulator adds tile n to the tiles before it.                     *)
LEMMA SumGrows ==
  /\ Sum(1) = <<0>>
  /\ \A n \in Nat \ {0} : Append(Sum(n), n) = Sum(n + 1)
<1>1. Sum(1) = <<0>>
  <2> DEFINE n == 1
  <2>1. n \in Nat /\ n = 1
    OBVIOUS
  <2> HIDE DEF n
  <2>2. Sum(n) \in Seq(Int) /\ Len(Sum(n)) = n /\ \A i \in 1 .. n : Sum(n)[i] = i - 1
    BY <2>1 DEF Sum
  <2>3. Sum(n) \in Seq(Int) /\ Len(Sum(n)) = 1 /\ Sum(n)[1] = 0
    BY <2>1, <2>2
  <2>4. Sum(n) = <<0>>
    BY <2>3
  <2>5. QED
    BY <2>1, <2>4
<1>2. ASSUME NEW n \in Nat \ {0} PROVE Append(Sum(n), n) = Sum(n + 1)
  <2>1. Sum(n) \in Seq(Int) /\ Len(Sum(n)) = n /\ \A i \in 1 .. n : Sum(n)[i] = i - 1
    BY DEF Sum
  <2>2. Sum(n + 1) \in Seq(Int) /\ Len(Sum(n + 1)) = n + 1 /\ \A i \in 1 .. n + 1 : Sum(n + 1)[i] = i - 1
    BY DEF Sum
  <2>3. /\ Append(Sum(n), n) \in Seq(Int) /\ Len(Append(Sum(n), n)) = n + 1
        /\ \A i \in 1 .. n + 1 : Append(Sum(n), n)[i] = i - 1
    BY <2>1
  <2>4. QED
    BY <2>2, <2>3
<1>3. QED
  BY <1>1, <1>2

LEMMA SumFacts ==
  /\ Whole = Sum(NumTiles) /\ Whole # None
  /\ None \in Products /\ \A n \in 1 .. NumTiles : Sum(n) \in Products
<1>1. Whole = Sum(NumTiles)
  BY DEF Whole, Sum
<1>2. Whole # None
  <2>1. Whole[1] = 0
    BY SizeAssumption DEF Whole
  <2>2. None[1] = -1
    BY DEF None, Nothing
  <2>3. QED
    BY <2>1, <2>2
<1>3. ASSUME NEW n \in 1 .. NumTiles PROVE Sum(n) \in Products
  <2>1. Sum(n) \in [1 .. n -> Tiles \cup {Nothing}]
    BY SizeAssumption DEF Sum, Tiles
  <2>2. n \in 0 .. NumTiles
    BY SizeAssumption
  <2>3. QED
    BY <2>1, <2>2 DEF Products
<1>4. QED
  BY <1>1, <1>2, <1>3 DEF Products

LEMMA ThereIsWarp0 == 0 \in Warps /\ NumTiles \in Nat \ {0}
BY SizeAssumption DEF Warps

-----------------------------------------------------------------------------
(* The pipeline                                                            *)

LEMMA InitPipeline == Init => Pipeline
<1> SUFFICES ASSUME Init PROVE Pipeline
  OBVIOUS
<1>0. 0 \in Warps /\ NumTiles \in Nat \ {0} /\ pc[0] = "start" /\ Round = -1
  BY ThereIsWarp0 DEF Init, Round, InRound
<1>1. Ranges
  BY <1>0 DEF Init, Ranges, Stages, Setup, Tiles
<1>2. Places
  BY <1>0 DEF Init, Places, Setup, Loop, InRound, Past
<1>3. queue = <<>> /\ InOrder(queue, Round) /\ Ops(queue) = {}
  BY DEF Init, InOrder, Ops
<1>4. Queued
  BY <1>3 DEF Init, Queued
<1>5. OperandsAreThere /\ ToggleIsSet /\ ScalesAreThere /\ Accumulated
  BY <1>0 DEF Init, OperandsAreThere, ToggleIsSet, ScalesAreThere, Accumulated,
              MoveInIssued, Fences
<1>6. Delivered
  BY <1>0, ThereIsWarp0 DEF Init, Delivered, Finished
<1>7. QED
  BY <1>1, <1>2, <1>4, <1>5, <1>6 DEF Pipeline

(* What the parts of the invariant say of the round.                       *)
LEMMA RoundFacts ==
  ASSUME Pipeline
  PROVE  /\ Round \in -1 .. NumTiles - 1
         /\ Half(Round) \in 0 .. 1 /\ Half(Round + 1) \in 0 .. 1
         /\ Half(Round + 1) # Half(Round)
         /\ Round + 1 \in Tiles
<1>1. Round \in -1 .. NumTiles - 1
  BY ThereIsWarp0 DEF Pipeline, Ranges, Places, Round
<1>2. QED
  BY <1>1, Parity, ThereIsWarp0 DEF Tiles

(* A command that Gemmini takes.                                           *)
LEMMA Taken ==
  ASSUME Pipeline, NEW op, Begin(op)
  PROVE  /\ op \in Ops(queue) /\ Head(queue).arg = ArgOf(op, Round) /\ Head(queue).arg \in Tiles
         /\ InOrder(queue', Round) /\ Ops(queue') = Ops(queue) \ {op}
         /\ \A o \in Ops(queue) : o # op => Rank[op] < Rank[o]
BY Popped DEF Begin, Pipeline, Queued

LEMMA GemminiKeepsPipeline ==
  ASSUME Pipeline, Gemmini
  PROVE  Pipeline'
<1> USE DEF Pipeline
<1>0. /\ 0 \in Warps /\ NumTiles \in Nat \ {0} /\ pc' = pc /\ k' = k /\ Round' = Round
      /\ accToGmem' = accToGmem /\ scale' = scale /\ posted' = posted /\ out' = out
      /\ Round \in -1 .. NumTiles - 1
      /\ Half(Round) \in 0 .. 1 /\ Half(Round + 1) \in 0 .. 1 /\ Half(Round + 1) # Half(Round)
  BY ThereIsWarp0, RoundFacts DEF Gemmini, BeginConfig, BeginMoveIn, EndMoveIn, BeginCompute,
     EndCompute, MoveOut, Round
<1>1. CASE BeginConfig
  <2>1. /\ "config" \in Ops(queue) /\ Head(queue).arg = Half(Round) /\ Head(queue).arg \in Tiles
        /\ InOrder(queue', Round) /\ Ops(queue') = Ops(queue) \ {"config"}
    BY <1>1, Taken DEF BeginConfig, ArgOf
  <2>2. Ranges'
    BY <1>0, <1>1, <2>1 DEF BeginConfig, Ranges, Stages, Setup, Loop, Fences, InRound, Past, MoveInIssued, ConfigIssued, ComputeIssued
  <2>3. Places'
    BY <1>0, <1>1, <2>1 DEF BeginConfig, Places, Ranges, Setup, Loop, Fences, InRound, Past, MoveInIssued, ConfigIssued, ComputeIssued
  <2>4. Queued'
    BY <1>0, <1>1, <2>1 DEF BeginConfig, Queued, Places, Setup, Loop, Fences, InRound, Past, MoveInIssued, ConfigIssued, ComputeIssued
  <2>5. OperandsAreThere'
    BY <1>0, <1>1, <2>1 DEF BeginConfig, OperandsAreThere, Queued, Places, Ranges, Setup, Loop, Fences, InRound, Past, MoveInIssued, ConfigIssued, ComputeIssued
  <2>6. ToggleIsSet'
    BY <1>0, <1>1, <2>1 DEF BeginConfig, ToggleIsSet, Queued, Places, Ranges, Setup, Loop, Fences, InRound, Past, MoveInIssued, ConfigIssued, ComputeIssued
  <2>7. ScalesAreThere'
    BY <1>0, <1>1, <2>1 DEF BeginConfig, ScalesAreThere, ScaleIsThere, Places, Ranges, Setup, Loop, Fences, InRound, Past, MoveInIssued, ConfigIssued, ComputeIssued
  <2>8. Accumulated'
    BY <1>0, <1>1, <2>1 DEF BeginConfig, Accumulated, Computing, Queued, Places, Ranges, Setup, Loop, Fences, InRound, Past, MoveInIssued, ConfigIssued, ComputeIssued
  <2>9. Delivered'
    BY <1>0, <1>1, <2>1 DEF BeginConfig, Delivered, Finished, Computing, Accumulated, Queued, Places, Ranges, Setup, Loop, Fences, InRound, Past, MoveInIssued, ConfigIssued, ComputeIssued
  <2>10. QED
    BY <2>2, <2>3, <2>4, <2>5, <2>6, <2>7, <2>8, <2>9
<1>2. CASE BeginMoveIn
  <2>1. /\ "mvin" \in Ops(queue) /\ Head(queue).arg = Round + 1 /\ Head(queue).arg \in Tiles
        /\ InOrder(queue', Round) /\ Ops(queue') = Ops(queue) \ {"mvin"}
    BY <1>2, Taken DEF BeginMoveIn, ArgOf
  <2>2. \A o \in Ops(queue) : o # "mvin" => Rank["mvin"] < Rank[o]
    BY <1>2, Taken DEF BeginMoveIn
  <2>3. "config" \notin Ops(queue)
    BY <2>2, RankOrder
  <2>4. Ranges'
    BY <1>0, <1>2, <2>1, <2>2, <2>3 DEF BeginMoveIn, Ranges, Stages, Setup, Loop, Fences, InRound, Past, MoveInIssued, ConfigIssued, ComputeIssued
  <2>5. Places'
    BY <1>0, <1>2, <2>1, <2>2, <2>3 DEF BeginMoveIn, Places, Ranges, Setup, Loop, Fences, InRound, Past, MoveInIssued, ConfigIssued, ComputeIssued
  <2>6. Queued'
    BY <1>0, <1>2, <2>1, <2>2, <2>3 DEF BeginMoveIn, Queued, Places, Setup, Loop, Fences, InRound, Past, MoveInIssued, ConfigIssued, ComputeIssued
  <2>7. OperandsAreThere'
    BY <1>0, <1>2, <2>1, <2>2, <2>3 DEF BeginMoveIn, OperandsAreThere, Queued, Places, Ranges, Setup, Loop, Fences, InRound, Past, MoveInIssued, ConfigIssued, ComputeIssued
  <2>8. ToggleIsSet'
    BY <1>0, <1>2, <2>1, <2>2, <2>3 DEF BeginMoveIn, ToggleIsSet, Queued, Places, Ranges, Setup, Loop, Fences, InRound, Past, MoveInIssued, ConfigIssued, ComputeIssued
  <2>9. ScalesAreThere'
    BY <1>0, <1>2, <2>1, <2>2, <2>3 DEF BeginMoveIn, ScalesAreThere, ScaleIsThere, Places, Ranges, Setup, Loop, Fences, InRound, Past, MoveInIssued, ConfigIssued, ComputeIssued
  <2>10. Accumulated'
    BY <1>0, <1>2, <2>1, <2>2, <2>3 DEF BeginMoveIn, Accumulated, Computing, Queued, Places, Ranges, Setup, Loop, Fences, InRound, Past, MoveInIssued, ConfigIssued, ComputeIssued
  <2>11. Delivered'
    BY <1>0, <1>2, <2>1, <2>2, <2>3 DEF BeginMoveIn, Delivered, Finished, Computing, Accumulated, Queued, Places, Ranges, Setup, Loop, Fences, InRound, Past, MoveInIssued, ConfigIssued, ComputeIssued
  <2>12. QED
    BY <2>4, <2>5, <2>6, <2>7, <2>8, <2>9, <2>10, <2>11
<1>3. CASE EndMoveIn
  <2>1. Ranges'
    BY <1>0, <1>3 DEF EndMoveIn, Ranges, Stages, Setup, Loop, Fences, InRound, Past, MoveInIssued, ConfigIssued, ComputeIssued
  <2>2. Places'
    BY <1>0, <1>3 DEF EndMoveIn, Places, Ranges, Setup, Loop, Fences, InRound, Past, MoveInIssued, ConfigIssued, ComputeIssued
  <2>3. Queued'
    BY <1>0, <1>3 DEF EndMoveIn, Queued, Places, Setup, Loop, Fences, InRound, Past, MoveInIssued, ConfigIssued, ComputeIssued
  <2>4. OperandsAreThere'
    BY <1>0, <1>3 DEF EndMoveIn, OperandsAreThere, Queued, Places, Ranges, Setup, Loop, Fences, InRound, Past, MoveInIssued, ConfigIssued, ComputeIssued
  <2>5. ToggleIsSet'
    BY <1>0, <1>3 DEF EndMoveIn, ToggleIsSet, Queued, Places, Ranges, Setup, Loop, Fences, InRound, Past, MoveInIssued, ConfigIssued, ComputeIssued
  <2>6. ScalesAreThere'
    BY <1>0, <1>3 DEF EndMoveIn, ScalesAreThere, ScaleIsThere, Places, Ranges, Setup, Loop, Fences, InRound, Past, MoveInIssued, ConfigIssued, ComputeIssued
  <2>7. Accumulated'
    BY <1>0, <1>3 DEF EndMoveIn, Accumulated, Computing, Queued, Places, Ranges, Setup, Loop, Fences, InRound, Past, MoveInIssued, ConfigIssued, ComputeIssued
  <2>8. Delivered'
    BY <1>0, <1>3 DEF EndMoveIn, Delivered, Finished, Computing, Accumulated, Queued, Places, Ranges, Setup, Loop, Fences, InRound, Past, MoveInIssued, ConfigIssued, ComputeIssued
  <2>9. QED
    BY <2>1, <2>2, <2>3, <2>4, <2>5, <2>6, <2>7, <2>8
<1>4. CASE BeginCompute
  <2>1. /\ "compute" \in Ops(queue) /\ Head(queue).arg = Round /\ Head(queue).arg \in Tiles
        /\ InOrder(queue', Round) /\ Ops(queue') = Ops(queue) \ {"compute"}
    BY <1>4, Taken DEF BeginCompute, ArgOf
  <2>2. \A o \in Ops(queue) : o # "compute" => Rank["compute"] < Rank[o]
    BY <1>4, Taken DEF BeginCompute
  <2>3. pc[0] \in ComputeIssued /\ Round >= 0
    BY <2>1 DEF Queued
  <2>4. Ops(queue') = {}
    BY <2>1, <2>2, <2>3, RankOrder, OpsAreOps DEF Queued, ComputeIssued, Fences, OpNames
  <2>5. mesh' = Round /\ Round # Nothing
    BY <1>4, <2>1, <2>3 DEF BeginCompute, Nothing
  <2>6. Computing /\ Computing'
    BY <2>1, <2>5 DEF Computing
  <2>7. Ranges'
    BY <1>0, <1>4, <2>1, <2>2, <2>3, <2>4, <2>5, <2>6 DEF BeginCompute, Ranges, Stages, Setup, Loop, Fences, InRound, Past, MoveInIssued, ConfigIssued, ComputeIssued
  <2>8. Places'
    BY <1>0, <1>4, <2>1, <2>2, <2>3, <2>4, <2>5, <2>6 DEF BeginCompute, Places, Ranges, Setup, Loop, Fences, InRound, Past, MoveInIssued, ConfigIssued, ComputeIssued
  <2>9. Queued'
    BY <1>0, <1>4, <2>1, <2>2, <2>3, <2>4, <2>5, <2>6 DEF BeginCompute, Queued, Places, Setup, Loop, Fences, InRound, Past, MoveInIssued, ConfigIssued, ComputeIssued
  <2>10. OperandsAreThere'
    BY <1>0, <1>4, <2>1, <2>2, <2>3, <2>4, <2>5, <2>6 DEF BeginCompute, OperandsAreThere, Queued, Places, Ranges, Setup, Loop, Fences, InRound, Past, MoveInIssued, ConfigIssued, ComputeIssued
  <2>11. ToggleIsSet'
    BY <1>0, <1>4, <2>1, <2>2, <2>3, <2>4, <2>5, <2>6 DEF BeginCompute, ToggleIsSet, Queued, Places, Ranges, Setup, Loop, Fences, InRound, Past, MoveInIssued, ConfigIssued, ComputeIssued
  <2>12. ScalesAreThere'
    BY <1>0, <1>4, <2>1, <2>2, <2>3, <2>4, <2>5, <2>6 DEF BeginCompute, ScalesAreThere, ScaleIsThere, Places, Ranges, Setup, Loop, Fences, InRound, Past, MoveInIssued, ConfigIssued, ComputeIssued
  <2>13. Accumulated'
    BY <1>0, <1>4, <2>1, <2>2, <2>3, <2>4, <2>5, <2>6 DEF BeginCompute, Accumulated
  <2>14. Delivered'
    BY <1>0, <1>4, <2>1, <2>2, <2>3, <2>4, <2>5, <2>6 DEF BeginCompute, Delivered, Finished
  <2>15. QED
    BY <2>7, <2>8, <2>9, <2>10, <2>11, <2>12, <2>13, <2>14
<1>5. CASE EndCompute
  <2>1. mesh = Round /\ Round >= 0 /\ pc[0] \in ComputeIssued /\ Ops(queue) = {}
    BY <1>0, <1>5 DEF EndCompute, Queued, Ranges, Tiles, Nothing
  <2>2. InPlace(mesh)
    BY <1>0, <2>1 DEF InPlace, OperandsAreThere, ToggleIsSet, ScalesAreThere, ComputeIssued, ConfigIssued
  <2>3. acc' = Sum(Round + 1)
    <3>1. mesh # Nothing /\ acc' = IF Round = 0 THEN <<Round>> ELSE Append(acc, Round)
      BY <1>5, <2>1, <2>2 DEF EndCompute
    <3>2. Round > 0 => acc = Sum(Round)
      BY <2>1, <3>1 DEF Accumulated, Computing
    <3>3. CASE Round = 0
      BY <3>1, <3>3, SumGrows
    <3>4. CASE Round > 0
      <4>1. Round \in Nat \ {0}
        BY <1>0, <3>4
      <4>2. Append(Sum(Round), Round) = Sum(Round + 1)
        BY <4>1, SumGrows
      <4>3. QED
        BY <3>1, <3>2, <3>4, <4>1, <4>2
    <3>5. QED
      BY <1>0, <2>1, <3>3, <3>4
  <2>4. Round + 1 \in 1 .. NumTiles /\ (LastTile(mesh) <=> Round = NumTiles - 1)
    BY <1>0, <2>1 DEF LastTile
  <2>5. stored' = IF Round = NumTiles - 1 /\ ~accToGmem THEN Whole ELSE stored
    <3>1. acc' = IF mesh = 0 THEN <<mesh>> ELSE Append(acc, mesh)
      BY <1>5, <2>2 DEF EndCompute
    <3>2. stored' = IF LastTile(mesh) /\ ~accToGmem THEN acc' ELSE stored
      BY <1>5, <2>2, <3>1 DEF EndCompute
    <3>3. Round = NumTiles - 1 => acc' = Whole
      BY <1>0, <2>3, SumFacts
    <3>4. QED
      BY <2>4, <3>2, <3>3
  <2>6. mesh' = Nothing /\ queue' = queue /\ dma' = dma /\ spad' = spad /\ toggle' = toggle /\ result' = result
    BY <1>5 DEF EndCompute
  <2>7. Ranges'
    BY <1>0, <1>5, <2>1, <2>2, <2>3, <2>4, <2>5, <2>6 DEF EndCompute, Ranges, Stages, Setup, Loop, Fences, InRound, Past, MoveInIssued, ConfigIssued, ComputeIssued
  <2>8. Places'
    BY <1>0, <1>5, <2>1, <2>2, <2>3, <2>4, <2>5, <2>6 DEF EndCompute, Places, Ranges, Setup, Loop, Fences, InRound, Past, MoveInIssued, ConfigIssued, ComputeIssued
  <2>9. Queued'
    BY <1>0, <1>5, <2>1, <2>2, <2>3, <2>4, <2>5, <2>6 DEF EndCompute, Queued, Places, Setup, Loop, Fences, InRound, Past, MoveInIssued, ConfigIssued, ComputeIssued
  <2>10. OperandsAreThere'
    BY <1>0, <1>5, <2>1, <2>2, <2>3, <2>4, <2>5, <2>6 DEF EndCompute, OperandsAreThere, Queued, Places, Ranges, Setup, Loop, Fences, InRound, Past, MoveInIssued, ConfigIssued, ComputeIssued
  <2>11. ToggleIsSet'
    BY <1>0, <1>5, <2>1, <2>2, <2>3, <2>4, <2>5, <2>6 DEF EndCompute, ToggleIsSet, Queued, Places, Ranges, Setup, Loop, Fences, InRound, Past, MoveInIssued, ConfigIssued, ComputeIssued
  <2>12. ScalesAreThere'
    BY <1>0, <1>5, <2>1, <2>2, <2>3, <2>4, <2>5, <2>6 DEF EndCompute, ScalesAreThere, ScaleIsThere, Places, Ranges, Setup, Loop, Fences, InRound, Past, MoveInIssued, ConfigIssued, ComputeIssued
  <2>13. Accumulated'
    BY <1>0, <1>5, <2>1, <2>2, <2>3, <2>4, <2>5, <2>6 DEF EndCompute, Accumulated, Computing, Queued, Places, Ranges, Setup, Loop, Fences, InRound, Past, MoveInIssued, ConfigIssued, ComputeIssued
  <2>14. Delivered'
    BY <1>0, <1>5, <2>1, <2>2, <2>3, <2>4, <2>5, <2>6 DEF EndCompute, Delivered, Finished, Computing, Accumulated, Queued, Places, Ranges, Setup, Loop, Fences, InRound, Past, MoveInIssued, ConfigIssued, ComputeIssued
  <2>15. QED
    BY <2>7, <2>8, <2>9, <2>10, <2>11, <2>12, <2>13, <2>14
<1>6. CASE MoveOut
  <2>1. /\ "mvout" \in Ops(queue) /\ Head(queue).arg = 0 /\ Head(queue).arg \in Tiles
        /\ InOrder(queue', Round) /\ Ops(queue') = Ops(queue) \ {"mvout"}
    BY <1>6, Taken DEF MoveOut, ArgOf
  <2>2. pc[0] = "drain" /\ k = NumTiles /\ Round = NumTiles - 1
    BY <1>0, <2>1 DEF Queued, Places, Setup, Loop, Fences, InRound, Round
  <2>3. ~Computing
    BY <1>0, <1>6, <2>2 DEF MoveOut, Computing, Queued, ComputeIssued, Fences
  <2>4. acc = Whole
    BY <1>0, <2>2, <2>3, SumFacts DEF Accumulated
  <2>5. Ranges'
    BY <1>0, <1>6, <2>1, <2>2, <2>3, <2>4 DEF MoveOut, Ranges, Stages, Setup, Loop, Fences, InRound, Past, MoveInIssued, ConfigIssued, ComputeIssued
  <2>6. Places'
    BY <1>0, <1>6, <2>1, <2>2, <2>3, <2>4 DEF MoveOut, Places, Ranges, Setup, Loop, Fences, InRound, Past, MoveInIssued, ConfigIssued, ComputeIssued
  <2>7. Queued'
    BY <1>0, <1>6, <2>1, <2>2, <2>3, <2>4 DEF MoveOut, Queued, Places, Setup, Loop, Fences, InRound, Past, MoveInIssued, ConfigIssued, ComputeIssued
  <2>8. OperandsAreThere'
    BY <1>0, <1>6, <2>1, <2>2, <2>3, <2>4 DEF MoveOut, OperandsAreThere, Queued, Places, Ranges, Setup, Loop, Fences, InRound, Past, MoveInIssued, ConfigIssued, ComputeIssued
  <2>9. ToggleIsSet'
    BY <1>0, <1>6, <2>1, <2>2, <2>3, <2>4 DEF MoveOut, ToggleIsSet, Queued, Places, Ranges, Setup, Loop, Fences, InRound, Past, MoveInIssued, ConfigIssued, ComputeIssued
  <2>10. ScalesAreThere'
    BY <1>0, <1>6, <2>1, <2>2, <2>3, <2>4 DEF MoveOut, ScalesAreThere, ScaleIsThere, Places, Ranges, Setup, Loop, Fences, InRound, Past, MoveInIssued, ConfigIssued, ComputeIssued
  <2>11. Accumulated'
    BY <1>0, <1>6, <2>1, <2>2, <2>3, <2>4 DEF MoveOut, Accumulated, Computing, Queued, Places, Ranges, Setup, Loop, Fences, InRound, Past, MoveInIssued, ConfigIssued, ComputeIssued
  <2>12. Delivered'
    BY <1>0, <1>6, <2>1, <2>2, <2>3, <2>4 DEF MoveOut, Delivered, Finished, Computing, Accumulated, Queued, Places, Ranges, Setup, Loop, Fences, InRound, Past, MoveInIssued, ConfigIssued, ComputeIssued
  <2>13. QED
    BY <2>5, <2>6, <2>7, <2>8, <2>9, <2>10, <2>11, <2>12
<1>7. QED
  BY <1>1, <1>2, <1>3, <1>4, <1>5, <1>6 DEF Gemmini

(* A product or a scale factor lands.                                      *)
LEMMA MemoryKeepsPipeline ==
  ASSUME Pipeline, Memory
  PROVE  Pipeline'
<1> USE DEF Pipeline
<1>0. /\ 0 \in Warps /\ NumTiles \in Nat \ {0} /\ pc' = pc /\ k' = k /\ Round' = Round
      /\ accToGmem' = accToGmem /\ queue' = queue /\ dma' = dma /\ mesh' = mesh /\ spad' = spad
      /\ toggle' = toggle /\ acc' = acc /\ out' = out
      /\ Round \in -1 .. NumTiles - 1 /\ Round + 1 \in Tiles
      /\ Half(Round) \in 0 .. 1 /\ Half(Round + 1) \in 0 .. 1 /\ Half(Round + 1) # Half(Round)
  BY ThereIsWarp0, RoundFacts DEF Memory, LandProduct, LandScale, engine, Round
<1>1. CASE LandProduct
  <2>1. Ranges'
    BY <1>0, <1>1, SumFacts DEF LandProduct, Ranges
  <2>2. (Finished <=> Finished') /\ Queued' /\ Accumulated' /\ Places'
    BY <1>0 DEF Finished, Computing, Queued, Accumulated, Places
  <2>3. OperandsAreThere' /\ ToggleIsSet' /\ ScalesAreThere'
    BY <1>0, <1>1 DEF LandProduct, OperandsAreThere, ToggleIsSet, ScalesAreThere, ScaleIsThere
  <2>4. Delivered'
    BY <1>0, <1>1, <2>2 DEF LandProduct, Delivered, Ranges
  <2>5. QED
    BY <2>1, <2>2, <2>3, <2>4
<1>2. CASE LandScale
  <2>1. PICK x \in Operands : /\ <<x, Round + 1>> \in posted
                              /\ scale' = [scale EXCEPT ![x][Half(Round + 1)] = Round + 1]
                              /\ posted' = posted \ {<<x, Round + 1>>}
    <3>1. PICK s \in posted : /\ scale' = [scale EXCEPT ![s[1]][Half(s[2])] = s[2]]
                              /\ posted' = posted \ {s}
      BY <1>2 DEF LandScale
    <3>2. PICK x \in Operands : s = <<x, Round + 1>>
      BY DEF ScalesAreThere
    <3>3. s[1] = x /\ s[2] = Round + 1
      BY <3>2
    <3>4. QED
      BY <3>1, <3>2, <3>3
  <2>2. stored' = stored /\ result' = result
    BY <1>2 DEF LandScale, engine
  <2>3. Ranges'
    BY <1>0, <2>1, <2>2 DEF Ranges
  <2>4. Queued' /\ Accumulated' /\ Places' /\ OperandsAreThere' /\ ToggleIsSet' /\ Delivered'
    BY <1>0, <2>2 DEF Queued, Accumulated, Computing, Finished, Places, OperandsAreThere,
       ToggleIsSet, Delivered
  <2>5. /\ \A y \in Operands : scale'[y][Half(Round)] = scale[y][Half(Round)]
        /\ \A y \in Operands : scale'[y][Half(Round + 1)] =
                                 IF y = x THEN Round + 1 ELSE scale[y][Half(Round + 1)]
    BY <1>0, <2>1 DEF Ranges
  <2>6. ScalesAreThere'
    <3>1. ASSUME NEW y \in Operands, ScaleIsThere(y, Round + 1)
          PROVE  ScaleIsThere(y, Round + 1)'
      BY <1>0, <2>1, <2>5, <3>1 DEF ScaleIsThere
    <3>2. "A" \in Operands /\ "B" \in Operands
      BY DEF Operands
    <3>3. Round' + 1 = Round + 1
      BY <1>0
    <3>4. QED
      BY <1>0, <2>1, <2>5, <3>1, <3>2, <3>3 DEF ScalesAreThere
  <2>7. QED
    BY <2>3, <2>4, <2>6
<1>3. QED
  BY <1>1, <1>2 DEF Memory

(* A command that thread 0 queues.                                         *)
LEMMA Issued ==
  ASSUME Pipeline, NEW op \in OpNames, NEW arg \in Tiles, Issue(op, arg),
         arg = ArgOf(op, Round), \A o \in Ops(queue) : Rank[o] < Rank[op]
  PROVE  InOrder(queue', Round) /\ Ops(queue') = Ops(queue) \cup {op}
BY Pushed DEF Pipeline, Queued, Issue

LEMMA Thread0KeepsPipeline ==
  ASSUME Pipeline, Thread0
  PROVE  Pipeline'
<1> USE DEF Pipeline
<1>0. /\ 0 \in Warps /\ NumTiles \in Nat \ {0} /\ accToGmem' = accToGmem
      /\ pc \in [Warps -> Stages] /\ k \in 0 .. NumTiles
      /\ Round \in -1 .. NumTiles - 1 /\ Round + 1 \in Tiles
      /\ Half(Round) \in 0 .. 1 /\ Half(Round + 1) \in 0 .. 1 /\ Half(Round + 1) # Half(Round)
      /\ Ops(queue) \subseteq OpNames /\ InOrder(queue, Round)
  BY ThereIsWarp0, RoundFacts, OpsAreOps DEF Thread0, Ranges, Queued
<1>1. CASE Start
  <2>1. /\ pc[0] = "start" /\ pc' = [pc EXCEPT ![0] = "scaleA0"] /\ pc'[0] = "scaleA0" /\ Round' = Round
        /\ k' = k /\ Issue("mvin", 0) /\ Round = -1
        /\ dma' = dma /\ mesh' = mesh /\ spad' = spad /\ scale' = scale /\ toggle' = toggle
        /\ posted' = posted /\ acc' = acc /\ stored' = stored /\ result' = result /\ out' = out
    BY <1>0, <1>1 DEF Start, Drive, Places, Setup, Goto, Round, InRound
  <2>2. Ops(queue) = {}
    BY <1>0, <2>1 DEF Queued, Places, Setup, Loop, Fences, MoveInIssued, ConfigIssued, ComputeIssued, OpNames
  <2>3. InOrder(queue', Round) /\ Ops(queue') = {"mvin"}
    BY <1>0, <2>1, <2>2, Issued DEF ArgOf, OpNames, Tiles
  <2>4. Ranges'
    BY <1>0, <1>1, <2>1, <2>2, <2>3 DEF Start, Drive, Ranges, Stages, Setup, Loop, Fences, InRound, Past, MoveInIssued, ConfigIssued, ComputeIssued
  <2>5. Places'
    BY <1>0, <1>1, <2>1, <2>2, <2>3 DEF Start, Drive, Places, Ranges, Setup, Loop, Fences, InRound, Past, MoveInIssued, ConfigIssued, ComputeIssued
  <2>6. Queued'
    BY <1>0, <1>1, <2>1, <2>2, <2>3 DEF Start, Drive, Queued, Places, Setup, Loop, Fences, InRound, Past, MoveInIssued, ConfigIssued, ComputeIssued
  <2>7. OperandsAreThere'
    BY <1>0, <1>1, <2>1, <2>2, <2>3 DEF Start, Drive, OperandsAreThere, Queued, Places, Ranges, Setup, Loop, Fences, InRound, Past, MoveInIssued, ConfigIssued, ComputeIssued
  <2>8. ToggleIsSet'
    BY <1>0, <1>1, <2>1, <2>2, <2>3 DEF Start, Drive, ToggleIsSet, Queued, Places, Ranges, Setup, Loop, Fences, InRound, Past, MoveInIssued, ConfigIssued, ComputeIssued
  <2>9. ScalesAreThere'
    BY <1>0, <1>1, <2>1, <2>2, <2>3 DEF Start, Drive, ScalesAreThere, ScaleIsThere, Places, Ranges, Setup, Loop, Fences, InRound, Past, MoveInIssued, ConfigIssued, ComputeIssued
  <2>10. Accumulated'
    BY <1>0, <1>1, <2>1, <2>2, <2>3 DEF Start, Drive, Accumulated, Computing, Queued, Places, Ranges, Setup, Loop, Fences, InRound, Past, MoveInIssued, ConfigIssued, ComputeIssued
  <2>11. Delivered'
    BY <1>0, <1>1, <2>1, <2>2, <2>3 DEF Start, Drive, Delivered, Finished, Computing, Accumulated, Queued, Places, Ranges, Setup, Loop, Fences, InRound, Past, MoveInIssued, ConfigIssued, ComputeIssued
  <2>12. QED
    BY <2>4, <2>5, <2>6, <2>7, <2>8, <2>9, <2>10, <2>11
<1>2. CASE LoadScales("scaleA0", "scaleB0", "A", 0)
  <2>1. /\ pc[0] = "scaleA0" /\ pc' = [pc EXCEPT ![0] = "scaleB0"] /\ pc'[0] = "scaleB0" /\ Round' = Round
        /\ k' = k /\ Round = -1 /\ posted' = posted \cup {<<"A", 0>>}
        /\ queue' = queue /\ dma' = dma /\ mesh' = mesh /\ spad' = spad /\ toggle' = toggle /\ acc' = acc
        /\ stored' = stored /\ result' = result /\ out' = out /\ scale' = scale
    BY <1>0, <1>2 DEF LoadScales, engine, Places, Setup, Goto, Round, InRound
  <2>2. Ops(queue) \subseteq {"mvin"} /\ mesh = Nothing
    BY <1>0, <2>1 DEF Queued, Places, Setup, Loop, Fences, MoveInIssued, ConfigIssued, ComputeIssued, OpNames
  <2>3. Ranges'
    BY <1>0, <1>2, <2>1, <2>2 DEF LoadScales, Ranges, Stages, Setup, Loop, Fences, InRound, Past, MoveInIssued, ConfigIssued, ComputeIssued, Operands
  <2>4. Places'
    BY <1>0, <1>2, <2>1, <2>2 DEF LoadScales, Places, Ranges, Setup, Loop, Fences, InRound, Past, MoveInIssued, ConfigIssued, ComputeIssued
  <2>5. Queued'
    BY <1>0, <1>2, <2>1, <2>2 DEF LoadScales, Queued, Places, Setup, Loop, Fences, InRound, Past, MoveInIssued, ConfigIssued, ComputeIssued
  <2>6. OperandsAreThere'
    BY <1>0, <1>2, <2>1, <2>2 DEF LoadScales, OperandsAreThere, Queued, Places, Ranges, Setup, Loop, Fences, InRound, Past, MoveInIssued, ConfigIssued, ComputeIssued
  <2>7. ToggleIsSet'
    BY <1>0, <1>2, <2>1, <2>2 DEF LoadScales, ToggleIsSet, Queued, Places, Ranges, Setup, Loop, Fences, InRound, Past, MoveInIssued, ConfigIssued, ComputeIssued
  <2>8. ScalesAreThere'
    BY <1>0, <1>2, <2>1, <2>2 DEF LoadScales, ScalesAreThere, ScaleIsThere, Places, Ranges, Setup, Loop, Fences, InRound, Past, MoveInIssued, ConfigIssued, ComputeIssued, Operands
  <2>9. Accumulated'
    BY <1>0, <1>2, <2>1, <2>2 DEF LoadScales, Accumulated, Computing, Queued, Places, Ranges, Setup, Loop, Fences, InRound, Past, MoveInIssued, ConfigIssued, ComputeIssued
  <2>10. Delivered'
    BY <1>0, <1>2, <2>1, <2>2 DEF LoadScales, Delivered, Finished, Computing, Accumulated, Queued, Places, Ranges, Setup, Loop, Fences, InRound, Past, MoveInIssued, ConfigIssued, ComputeIssued
  <2>11. QED
    BY <2>3, <2>4, <2>5, <2>6, <2>7, <2>8, <2>9, <2>10
<1>3. CASE LoadScales("scaleB0", "fenceScales", "B", 0)
  <2>1. /\ pc[0] = "scaleB0" /\ pc' = [pc EXCEPT ![0] = "fenceScales"] /\ pc'[0] = "fenceScales" /\ Round' = Round
        /\ k' = k /\ Round = -1 /\ posted' = posted \cup {<<"B", 0>>}
        /\ queue' = queue /\ dma' = dma /\ mesh' = mesh /\ spad' = spad /\ toggle' = toggle /\ acc' = acc
        /\ stored' = stored /\ result' = result /\ out' = out /\ scale' = scale
    BY <1>0, <1>3 DEF LoadScales, engine, Places, Setup, Goto, Round, InRound
  <2>2. Ops(queue) \subseteq {"mvin"} /\ mesh = Nothing
    BY <1>0, <2>1 DEF Queued, Places, Setup, Loop, Fences, MoveInIssued, ConfigIssued, ComputeIssued, OpNames
  <2>3. Ranges'
    BY <1>0, <1>3, <2>1, <2>2 DEF LoadScales, Ranges, Stages, Setup, Loop, Fences, InRound, Past, MoveInIssued, ConfigIssued, ComputeIssued, Operands
  <2>4. Places'
    BY <1>0, <1>3, <2>1, <2>2 DEF LoadScales, Places, Ranges, Setup, Loop, Fences, InRound, Past, MoveInIssued, ConfigIssued, ComputeIssued
  <2>5. Queued'
    BY <1>0, <1>3, <2>1, <2>2 DEF LoadScales, Queued, Places, Setup, Loop, Fences, InRound, Past, MoveInIssued, ConfigIssued, ComputeIssued
  <2>6. OperandsAreThere'
    BY <1>0, <1>3, <2>1, <2>2 DEF LoadScales, OperandsAreThere, Queued, Places, Ranges, Setup, Loop, Fences, InRound, Past, MoveInIssued, ConfigIssued, ComputeIssued
  <2>7. ToggleIsSet'
    BY <1>0, <1>3, <2>1, <2>2 DEF LoadScales, ToggleIsSet, Queued, Places, Ranges, Setup, Loop, Fences, InRound, Past, MoveInIssued, ConfigIssued, ComputeIssued
  <2>8. ScalesAreThere'
    BY <1>0, <1>3, <2>1, <2>2 DEF LoadScales, ScalesAreThere, ScaleIsThere, Places, Ranges, Setup, Loop, Fences, InRound, Past, MoveInIssued, ConfigIssued, ComputeIssued, Operands
  <2>9. Accumulated'
    BY <1>0, <1>3, <2>1, <2>2 DEF LoadScales, Accumulated, Computing, Queued, Places, Ranges, Setup, Loop, Fences, InRound, Past, MoveInIssued, ConfigIssued, ComputeIssued
  <2>10. Delivered'
    BY <1>0, <1>3, <2>1, <2>2 DEF LoadScales, Delivered, Finished, Computing, Accumulated, Queued, Places, Ranges, Setup, Loop, Fences, InRound, Past, MoveInIssued, ConfigIssued, ComputeIssued
  <2>11. QED
    BY <2>3, <2>4, <2>5, <2>6, <2>7, <2>8, <2>9, <2>10
<1>4. CASE FenceScales
  <2>1. /\ pc[0] = "fenceScales" /\ pc' = [pc EXCEPT ![0] = "fenceGemmini"] /\ pc'[0] = "fenceGemmini" /\ Round' = Round
        /\ k' = k /\ posted = {} /\ posted' = posted
        /\ queue' = queue /\ dma' = dma /\ mesh' = mesh /\ spad' = spad /\ toggle' = toggle /\ acc' = acc
        /\ stored' = stored /\ result' = result /\ out' = out /\ scale' = scale
    BY <1>0, <1>4 DEF FenceScales, engine, Goto, Round, InRound
  <2>2. Ranges'
    BY <1>0, <1>4, <2>1 DEF FenceScales, engine, Ranges, Stages, Setup, Loop, Fences, InRound, Past, MoveInIssued, ConfigIssued, ComputeIssued
  <2>3. Places'
    BY <1>0, <1>4, <2>1 DEF FenceScales, engine, Places, Ranges, Setup, Loop, Fences, InRound, Past, MoveInIssued, ConfigIssued, ComputeIssued
  <2>4. Queued'
    BY <1>0, <1>4, <2>1 DEF FenceScales, engine, Queued, Places, Setup, Loop, Fences, InRound, Past, MoveInIssued, ConfigIssued, ComputeIssued
  <2>5. OperandsAreThere'
    BY <1>0, <1>4, <2>1 DEF FenceScales, engine, OperandsAreThere, Queued, Places, Ranges, Setup, Loop, Fences, InRound, Past, MoveInIssued, ConfigIssued, ComputeIssued
  <2>6. ToggleIsSet'
    BY <1>0, <1>4, <2>1 DEF FenceScales, engine, ToggleIsSet, Queued, Places, Ranges, Setup, Loop, Fences, InRound, Past, MoveInIssued, ConfigIssued, ComputeIssued
  <2>7. ScalesAreThere'
    BY <1>0, <1>4, <2>1 DEF FenceScales, engine, ScalesAreThere, ScaleIsThere, Places, Ranges, Setup, Loop, Fences, InRound, Past, MoveInIssued, ConfigIssued, ComputeIssued
  <2>8. Accumulated'
    BY <1>0, <1>4, <2>1 DEF FenceScales, engine, Accumulated, Computing, Queued, Places, Ranges, Setup, Loop, Fences, InRound, Past, MoveInIssued, ConfigIssued, ComputeIssued
  <2>9. Delivered'
    BY <1>0, <1>4, <2>1 DEF FenceScales, engine, Delivered, Finished, Computing, Accumulated, Queued, Places, Ranges, Setup, Loop, Fences, InRound, Past, MoveInIssued, ConfigIssued, ComputeIssued
  <2>10. QED
    BY <2>2, <2>3, <2>4, <2>5, <2>6, <2>7, <2>8, <2>9
<1>5. CASE FenceGemmini /\ k < NumTiles
  <2>1. queue = <<>> /\ dma = Nothing /\ mesh = Nothing
    BY <1>5 DEF FenceGemmini, Pending
  <2>2. Ops(queue) = {}
    BY <1>0, <2>1, EmptyQueue
  <2>3. /\ pc[0] = "fenceGemmini" /\ pc' = [pc EXCEPT ![0] = "config"] /\ pc'[0] = "config" /\ Round' = Round + 1
        /\ k' = k /\ k = Round + 1 /\ Round' < NumTiles /\ posted' = posted
        /\ queue' = queue /\ dma' = dma /\ mesh' = mesh /\ spad' = spad /\ toggle' = toggle /\ acc' = acc
        /\ stored' = stored /\ result' = result /\ out' = out /\ scale' = scale
    BY <1>0, <1>5 DEF FenceGemmini, engine, Goto, Round, InRound
  <2>4. posted = {}
    BY <2>3 DEF ScalesAreThere
  <2>5. InOrder(queue', Round') /\ Ops(queue') = {}
    BY <2>1, <2>2, <2>3 DEF InOrder
  <2>6. Ranges'
    BY <1>0, <1>5, <2>1, <2>2, <2>3, <2>4, <2>5 DEF FenceGemmini, engine, Ranges, Stages, Setup, Loop, Fences, InRound, Past, MoveInIssued, ConfigIssued, ComputeIssued
  <2>7. Places'
    BY <1>0, <1>5, <2>1, <2>2, <2>3, <2>4, <2>5 DEF FenceGemmini, engine, Places, Ranges, Setup, Loop, Fences, InRound, Past, MoveInIssued, ConfigIssued, ComputeIssued
  <2>8. Queued'
    BY <1>0, <1>5, <2>1, <2>2, <2>3, <2>4, <2>5 DEF FenceGemmini, engine, Queued, Places, Setup, Loop, Fences, InRound, Past, MoveInIssued, ConfigIssued, ComputeIssued
  <2>9. OperandsAreThere'
    BY <1>0, <1>5, <2>1, <2>2, <2>3, <2>4, <2>5 DEF FenceGemmini, engine, OperandsAreThere, Queued, Places, Ranges, Setup, Loop, Fences, InRound, Past, MoveInIssued, ConfigIssued, ComputeIssued
  <2>10. ToggleIsSet'
    BY <1>0, <1>5, <2>1, <2>2, <2>3, <2>4, <2>5 DEF FenceGemmini, engine, ToggleIsSet, Queued, Places, Ranges, Setup, Loop, Fences, InRound, Past, MoveInIssued, ConfigIssued, ComputeIssued
  <2>11. ScalesAreThere'
    BY <1>0, <1>5, <2>1, <2>2, <2>3, <2>4, <2>5, SMTT(30) DEF FenceGemmini, engine, ScalesAreThere, ScaleIsThere, Places, Ranges, Setup, Loop, Fences, InRound, Past, MoveInIssued, ConfigIssued, ComputeIssued
  <2>12. Accumulated'
    BY <1>0, <1>5, <2>1, <2>2, <2>3, <2>4, <2>5 DEF FenceGemmini, engine, Accumulated, Computing, Queued, Places, Ranges, Setup, Loop, Fences, InRound, Past, MoveInIssued, ConfigIssued, ComputeIssued
  <2>13. Delivered'
    BY <1>0, <1>5, <2>1, <2>2, <2>3, <2>4, <2>5 DEF FenceGemmini, engine, Delivered, Finished, Computing, Accumulated, Queued, Places, Ranges, Setup, Loop, Fences, InRound, Past, MoveInIssued, ConfigIssued, ComputeIssued
  <2>14. QED
    BY <2>6, <2>7, <2>8, <2>9, <2>10, <2>11, <2>12, <2>13
<1>6. CASE FenceGemmini /\ ~(k < NumTiles)
  <2>1. queue = <<>> /\ dma = Nothing /\ mesh = Nothing
    BY <1>6 DEF FenceGemmini, Pending
  <2>2. Ops(queue) = {}
    BY <1>0, <2>1, EmptyQueue
  <2>3. /\ pc[0] = "fenceGemmini" /\ pc' = [pc EXCEPT ![0] = "end"] /\ pc'[0] = "end" /\ Round' = Round
        /\ k' = k /\ k = NumTiles /\ posted' = posted
        /\ queue' = queue /\ dma' = dma /\ mesh' = mesh /\ spad' = spad /\ toggle' = toggle /\ acc' = acc
        /\ stored' = stored /\ result' = result /\ out' = out /\ scale' = scale
    BY <1>0, <1>6 DEF FenceGemmini, engine, Goto, Round, InRound
  <2>4. Ranges'
    BY <1>0, <1>6, <2>1, <2>2, <2>3 DEF FenceGemmini, engine, Ranges, Stages, Setup, Loop, Fences, InRound, Past, MoveInIssued, ConfigIssued, ComputeIssued
  <2>5. Places'
    BY <1>0, <1>6, <2>1, <2>2, <2>3 DEF FenceGemmini, engine, Places, Ranges, Setup, Loop, Fences, InRound, Past, MoveInIssued, ConfigIssued, ComputeIssued
  <2>6. Queued'
    BY <1>0, <1>6, <2>1, <2>2, <2>3 DEF FenceGemmini, engine, Queued, Places, Setup, Loop, Fences, InRound, Past, MoveInIssued, ConfigIssued, ComputeIssued
  <2>7. OperandsAreThere'
    BY <1>0, <1>6, <2>1, <2>2, <2>3 DEF FenceGemmini, engine, OperandsAreThere, Queued, Places, Ranges, Setup, Loop, Fences, InRound, Past, MoveInIssued, ConfigIssued, ComputeIssued
  <2>8. ToggleIsSet'
    BY <1>0, <1>6, <2>1, <2>2, <2>3 DEF FenceGemmini, engine, ToggleIsSet, Queued, Places, Ranges, Setup, Loop, Fences, InRound, Past, MoveInIssued, ConfigIssued, ComputeIssued
  <2>9. ScalesAreThere'
    BY <1>0, <1>6, <2>1, <2>2, <2>3 DEF FenceGemmini, engine, ScalesAreThere, ScaleIsThere, Places, Ranges, Setup, Loop, Fences, InRound, Past, MoveInIssued, ConfigIssued, ComputeIssued
  <2>10. Accumulated'
    BY <1>0, <1>6, <2>1, <2>2, <2>3 DEF FenceGemmini, engine, Accumulated, Computing, Queued, Places, Ranges, Setup, Loop, Fences, InRound, Past, MoveInIssued, ConfigIssued, ComputeIssued
  <2>11. Delivered'
    BY <1>0, <1>6, <2>1, <2>2, <2>3 DEF FenceGemmini, engine, Delivered, Finished, Computing, Accumulated, Queued, Places, Ranges, Setup, Loop, Fences, InRound, Past, MoveInIssued, ConfigIssued, ComputeIssued
  <2>12. QED
    BY <2>4, <2>5, <2>6, <2>7, <2>8, <2>9, <2>10, <2>11
<1>7. CASE Config /\ ~LastTile(k)
  <2>1. /\ pc[0] = "config" /\ pc' = [pc EXCEPT ![0] = "mvin"] /\ pc'[0] = "mvin" /\ Round' = Round
        /\ k' = k /\ Issue("config", Half(k)) /\ Round = k /\ Round >= 0 /\ Round + 1 < NumTiles
        /\ dma' = dma /\ mesh' = mesh /\ spad' = spad /\ scale' = scale /\ toggle' = toggle
        /\ posted' = posted /\ acc' = acc /\ stored' = stored /\ result' = result /\ out' = out
    BY <1>0, <1>7 DEF Config, Drive, LastTile, Goto, Round, InRound
  <2>2. Ops(queue) = {}
    BY <1>0, <2>1 DEF Queued, Places, Setup, Loop, Fences, MoveInIssued, ConfigIssued, ComputeIssued, OpNames
  <2>3. InOrder(queue', Round) /\ Ops(queue') = {"config"}
    BY <1>0, <2>1, <2>2, Issued DEF ArgOf, OpNames, Tiles
  <2>4. Ranges'
    BY <1>0, <1>7, <2>1, <2>2, <2>3 DEF Config, Drive, Ranges, Stages, Setup, Loop, Fences, InRound, Past, MoveInIssued, ConfigIssued, ComputeIssued
  <2>5. Places'
    BY <1>0, <1>7, <2>1, <2>2, <2>3 DEF Config, Drive, Places, Ranges, Setup, Loop, Fences, InRound, Past, MoveInIssued, ConfigIssued, ComputeIssued
  <2>6. Queued'
    BY <1>0, <1>7, <2>1, <2>2, <2>3 DEF Config, Drive, Queued, Places, Setup, Loop, Fences, InRound, Past, MoveInIssued, ConfigIssued, ComputeIssued
  <2>7. OperandsAreThere'
    BY <1>0, <1>7, <2>1, <2>2, <2>3 DEF Config, Drive, OperandsAreThere, Queued, Places, Ranges, Setup, Loop, Fences, InRound, Past, MoveInIssued, ConfigIssued, ComputeIssued
  <2>8. ToggleIsSet'
    BY <1>0, <1>7, <2>1, <2>2, <2>3 DEF Config, Drive, ToggleIsSet, Queued, Places, Ranges, Setup, Loop, Fences, InRound, Past, MoveInIssued, ConfigIssued, ComputeIssued
  <2>9. ScalesAreThere'
    BY <1>0, <1>7, <2>1, <2>2, <2>3 DEF Config, Drive, ScalesAreThere, ScaleIsThere, Places, Ranges, Setup, Loop, Fences, InRound, Past, MoveInIssued, ConfigIssued, ComputeIssued
  <2>10. Accumulated'
    BY <1>0, <1>7, <2>1, <2>2, <2>3 DEF Config, Drive, Accumulated, Computing, Queued, Places, Ranges, Setup, Loop, Fences, InRound, Past, MoveInIssued, ConfigIssued, ComputeIssued
  <2>11. Delivered'
    BY <1>0, <1>7, <2>1, <2>2, <2>3 DEF Config, Drive, Delivered, Finished, Computing, Accumulated, Queued, Places, Ranges, Setup, Loop, Fences, InRound, Past, MoveInIssued, ConfigIssued, ComputeIssued
  <2>12. QED
    BY <2>4, <2>5, <2>6, <2>7, <2>8, <2>9, <2>10, <2>11
<1>8. CASE Config /\ LastTile(k)
  <2>1. /\ pc[0] = "config" /\ pc' = [pc EXCEPT ![0] = "compute"] /\ pc'[0] = "compute" /\ Round' = Round
        /\ k' = k /\ Issue("config", Half(k)) /\ Round = k /\ Round >= 0 /\ Round = NumTiles - 1
        /\ dma' = dma /\ mesh' = mesh /\ spad' = spad /\ scale' = scale /\ toggle' = toggle
        /\ posted' = posted /\ acc' = acc /\ stored' = stored /\ result' = result /\ out' = out
    BY <1>0, <1>8 DEF Config, Drive, LastTile, Goto, Round, InRound
  <2>2. Ops(queue) = {}
    BY <1>0, <2>1 DEF Queued, Places, Setup, Loop, Fences, MoveInIssued, ConfigIssued, ComputeIssued, OpNames
  <2>3. InOrder(queue', Round) /\ Ops(queue') = {"config"}
    BY <1>0, <2>1, <2>2, Issued DEF ArgOf, OpNames, Tiles
  <2>4. Ranges'
    BY <1>0, <1>8, <2>1, <2>2, <2>3 DEF Config, Drive, Ranges, Stages, Setup, Loop, Fences, InRound, Past, MoveInIssued, ConfigIssued, ComputeIssued
  <2>5. Places'
    BY <1>0, <1>8, <2>1, <2>2, <2>3 DEF Config, Drive, Places, Ranges, Setup, Loop, Fences, InRound, Past, MoveInIssued, ConfigIssued, ComputeIssued
  <2>6. Queued'
    BY <1>0, <1>8, <2>1, <2>2, <2>3 DEF Config, Drive, Queued, Places, Setup, Loop, Fences, InRound, Past, MoveInIssued, ConfigIssued, ComputeIssued
  <2>7. OperandsAreThere'
    BY <1>0, <1>8, <2>1, <2>2, <2>3 DEF Config, Drive, OperandsAreThere, Queued, Places, Ranges, Setup, Loop, Fences, InRound, Past, MoveInIssued, ConfigIssued, ComputeIssued
  <2>8. ToggleIsSet'
    BY <1>0, <1>8, <2>1, <2>2, <2>3 DEF Config, Drive, ToggleIsSet, Queued, Places, Ranges, Setup, Loop, Fences, InRound, Past, MoveInIssued, ConfigIssued, ComputeIssued
  <2>9. ScalesAreThere'
    BY <1>0, <1>8, <2>1, <2>2, <2>3 DEF Config, Drive, ScalesAreThere, ScaleIsThere, Places, Ranges, Setup, Loop, Fences, InRound, Past, MoveInIssued, ConfigIssued, ComputeIssued
  <2>10. Accumulated'
    BY <1>0, <1>8, <2>1, <2>2, <2>3 DEF Config, Drive, Accumulated, Computing, Queued, Places, Ranges, Setup, Loop, Fences, InRound, Past, MoveInIssued, ConfigIssued, ComputeIssued
  <2>11. Delivered'
    BY <1>0, <1>8, <2>1, <2>2, <2>3 DEF Config, Drive, Delivered, Finished, Computing, Accumulated, Queued, Places, Ranges, Setup, Loop, Fences, InRound, Past, MoveInIssued, ConfigIssued, ComputeIssued
  <2>12. QED
    BY <2>4, <2>5, <2>6, <2>7, <2>8, <2>9, <2>10, <2>11
<1>9. CASE MoveIn
  <2>1. /\ pc[0] = "mvin" /\ pc' = [pc EXCEPT ![0] = "compute"] /\ pc'[0] = "compute" /\ Round' = Round
        /\ k' = k /\ Issue("mvin", k + 1) /\ Round = k /\ Round >= 0 /\ Round + 1 < NumTiles
        /\ dma' = dma /\ mesh' = mesh /\ spad' = spad /\ scale' = scale /\ toggle' = toggle
        /\ posted' = posted /\ acc' = acc /\ stored' = stored /\ result' = result /\ out' = out
    BY <1>0, <1>9 DEF MoveIn, Drive, Places, Goto, Round, InRound
  <2>2. Ops(queue) \subseteq {"config"} /\ dma = Nothing /\ mesh = Nothing
    BY <1>0, <2>1 DEF Queued, Places, Setup, Loop, Fences, MoveInIssued, ConfigIssued, ComputeIssued, OpNames
  <2>3. InOrder(queue', Round) /\ Ops(queue') = Ops(queue) \cup {"mvin"}
    BY <1>0, <2>1, <2>2, Issued, RankOrder DEF ArgOf, OpNames, Tiles
  <2>4. Ranges'
    BY <1>0, <1>9, <2>1, <2>2, <2>3 DEF MoveIn, Drive, Ranges, Stages, Setup, Loop, Fences, InRound, Past, MoveInIssued, ConfigIssued, ComputeIssued
  <2>5. Places'
    BY <1>0, <1>9, <2>1, <2>2, <2>3 DEF MoveIn, Drive, Places, Ranges, Setup, Loop, Fences, InRound, Past, MoveInIssued, ConfigIssued, ComputeIssued
  <2>6. Queued'
    BY <1>0, <1>9, <2>1, <2>2, <2>3 DEF MoveIn, Drive, Queued, Places, Setup, Loop, Fences, InRound, Past, MoveInIssued, ConfigIssued, ComputeIssued
  <2>7. OperandsAreThere'
    BY <1>0, <1>9, <2>1, <2>2, <2>3 DEF MoveIn, Drive, OperandsAreThere, Queued, Places, Ranges, Setup, Loop, Fences, InRound, Past, MoveInIssued, ConfigIssued, ComputeIssued
  <2>8. ToggleIsSet'
    BY <1>0, <1>9, <2>1, <2>2, <2>3 DEF MoveIn, Drive, ToggleIsSet, Queued, Places, Ranges, Setup, Loop, Fences, InRound, Past, MoveInIssued, ConfigIssued, ComputeIssued
  <2>9. ScalesAreThere'
    BY <1>0, <1>9, <2>1, <2>2, <2>3 DEF MoveIn, Drive, ScalesAreThere, ScaleIsThere, Places, Ranges, Setup, Loop, Fences, InRound, Past, MoveInIssued, ConfigIssued, ComputeIssued
  <2>10. Accumulated'
    BY <1>0, <1>9, <2>1, <2>2, <2>3 DEF MoveIn, Drive, Accumulated, Computing, Queued, Places, Ranges, Setup, Loop, Fences, InRound, Past, MoveInIssued, ConfigIssued, ComputeIssued
  <2>11. Delivered'
    BY <1>0, <1>9, <2>1, <2>2, <2>3 DEF MoveIn, Drive, Delivered, Finished, Computing, Accumulated, Queued, Places, Ranges, Setup, Loop, Fences, InRound, Past, MoveInIssued, ConfigIssued, ComputeIssued
  <2>12. QED
    BY <2>4, <2>5, <2>6, <2>7, <2>8, <2>9, <2>10, <2>11
<1>10. CASE Compute
  <2>1. /\ pc[0] = "compute" /\ pc' = [pc EXCEPT ![0] = "scaleA"] /\ pc'[0] = "scaleA" /\ Round' = Round
        /\ k' = k /\ Issue("compute", k) /\ Round = k /\ Round >= 0
        /\ dma' = dma /\ mesh' = mesh /\ spad' = spad /\ scale' = scale /\ toggle' = toggle
        /\ posted' = posted /\ acc' = acc /\ stored' = stored /\ result' = result /\ out' = out
    BY <1>0, <1>10 DEF Compute, Drive, Goto, Round, InRound
  <2>2. Ops(queue) \subseteq {"config", "mvin"} /\ mesh = Nothing
    BY <1>0, <2>1 DEF Queued, Places, Setup, Loop, Fences, MoveInIssued, ConfigIssued, ComputeIssued, OpNames
  <2>3. k \in Tiles /\ "compute" \in OpNames
    BY <1>0 DEF OpNames, Tiles
  <2>4. InOrder(queue', Round) /\ Ops(queue') = Ops(queue) \cup {"compute"}
    BY <1>0, <2>1, <2>2, <2>3, Issued, RankOrder DEF ArgOf
  <2>5. Computing /\ Computing'
    BY <2>1, <2>4 DEF Computing
  <2>6. Ranges'
    BY <1>0, <1>10, <2>1, <2>2, <2>3, <2>4, <2>5 DEF Compute, Drive, Ranges, Stages, Setup, Loop, Fences, InRound, Past, MoveInIssued, ConfigIssued, ComputeIssued
  <2>7. Places'
    BY <1>0, <1>10, <2>1, <2>2, <2>3, <2>4, <2>5 DEF Compute, Drive, Places, Ranges, Setup, Loop, Fences, InRound, Past, MoveInIssued, ConfigIssued, ComputeIssued
  <2>8. Queued'
    BY <1>0, <1>10, <2>1, <2>2, <2>3, <2>4, <2>5 DEF Compute, Drive, Queued, Places, Setup, Loop, Fences, InRound, Past, MoveInIssued, ConfigIssued, ComputeIssued
  <2>9. OperandsAreThere'
    BY <1>0, <1>10, <2>1, <2>2, <2>3, <2>4, <2>5 DEF Compute, Drive, OperandsAreThere, Queued, Places, Ranges, Setup, Loop, Fences, InRound, Past, MoveInIssued, ConfigIssued, ComputeIssued
  <2>10. ToggleIsSet'
    BY <1>0, <1>10, <2>1, <2>2, <2>3, <2>4, <2>5 DEF Compute, Drive, ToggleIsSet, Queued, Places, Ranges, Setup, Loop, Fences, InRound, Past, MoveInIssued, ConfigIssued, ComputeIssued
  <2>11. ScalesAreThere'
    BY <1>0, <1>10, <2>1, <2>2, <2>3, <2>4, <2>5 DEF Compute, Drive, ScalesAreThere, ScaleIsThere, Places, Ranges, Setup, Loop, Fences, InRound, Past, MoveInIssued, ConfigIssued, ComputeIssued
  <2>12. Accumulated'
    BY <1>0, <1>10, <2>1, <2>2, <2>3, <2>4, <2>5 DEF Compute, Drive, Accumulated
  <2>13. Delivered'
    BY <1>0, <1>10, <2>1, <2>2, <2>3, <2>4, <2>5 DEF Compute, Drive, Delivered, Finished
  <2>14. QED
    BY <2>6, <2>7, <2>8, <2>9, <2>10, <2>11, <2>12, <2>13
<1>11. CASE LoadScales("scaleA", "scaleB", "A", k + 1)
  <2>1. /\ pc[0] = "scaleA" /\ pc' = [pc EXCEPT ![0] = "scaleB"] /\ pc'[0] = "scaleB" /\ Round' = Round
        /\ k' = k /\ Round = k /\ Round >= 0 /\ posted' = posted \cup {<<"A", Round + 1>>}
        /\ queue' = queue /\ dma' = dma /\ mesh' = mesh /\ spad' = spad /\ toggle' = toggle /\ acc' = acc
        /\ stored' = stored /\ result' = result /\ out' = out /\ scale' = scale
    BY <1>0, <1>11 DEF LoadScales, engine, Goto, Round, InRound
  <2>2. Ranges'
    BY <1>0, <1>11, <2>1 DEF LoadScales, Ranges, Stages, Setup, Loop, Fences, InRound, Past, MoveInIssued, ConfigIssued, ComputeIssued, Operands
  <2>3. Places'
    BY <1>0, <1>11, <2>1 DEF LoadScales, Places, Ranges, Setup, Loop, Fences, InRound, Past, MoveInIssued, ConfigIssued, ComputeIssued
  <2>4. Queued'
    BY <1>0, <1>11, <2>1 DEF LoadScales, Queued, Places, Setup, Loop, Fences, InRound, Past, MoveInIssued, ConfigIssued, ComputeIssued
  <2>5. OperandsAreThere'
    BY <1>0, <1>11, <2>1 DEF LoadScales, OperandsAreThere, Queued, Places, Ranges, Setup, Loop, Fences, InRound, Past, MoveInIssued, ConfigIssued, ComputeIssued
  <2>6. ToggleIsSet'
    BY <1>0, <1>11, <2>1 DEF LoadScales, ToggleIsSet, Queued, Places, Ranges, Setup, Loop, Fences, InRound, Past, MoveInIssued, ConfigIssued, ComputeIssued
  <2>7. ScalesAreThere'
    BY <1>0, <1>11, <2>1 DEF LoadScales, ScalesAreThere, ScaleIsThere, Places, Ranges, Setup, Loop, Fences, InRound, Past, MoveInIssued, ConfigIssued, ComputeIssued, Operands
  <2>8. Accumulated'
    BY <1>0, <1>11, <2>1 DEF LoadScales, Accumulated, Computing, Queued, Places, Ranges, Setup, Loop, Fences, InRound, Past, MoveInIssued, ConfigIssued, ComputeIssued
  <2>9. Delivered'
    BY <1>0, <1>11, <2>1 DEF LoadScales, Delivered, Finished, Computing, Accumulated, Queued, Places, Ranges, Setup, Loop, Fences, InRound, Past, MoveInIssued, ConfigIssued, ComputeIssued
  <2>10. QED
    BY <2>2, <2>3, <2>4, <2>5, <2>6, <2>7, <2>8, <2>9
<1>12. CASE NextScales /\ pc[0] = "scaleB"
  <2>1. /\ pc[0] = "scaleB" /\ pc' = [pc EXCEPT ![0] = "fenceScales"] /\ pc'[0] = "fenceScales" /\ Round' = Round
        /\ k' = k + 1 /\ Round = k /\ k < NumTiles /\ Round >= 0 /\ posted' = posted \cup {<<"B", Round + 1>>}
        /\ queue' = queue /\ dma' = dma /\ mesh' = mesh /\ spad' = spad /\ toggle' = toggle /\ acc' = acc
        /\ stored' = stored /\ result' = result /\ out' = out /\ scale' = scale
    BY <1>0, <1>12 DEF NextScales, LoadScales, engine, Goto, Round, InRound
  <2>2. Ranges'
    BY <1>0, <1>12, <2>1 DEF NextScales, Ranges, Stages, Setup, Loop, Fences, InRound, Past, MoveInIssued, ConfigIssued, ComputeIssued, Operands
  <2>3. Places'
    BY <1>0, <1>12, <2>1 DEF NextScales, Places, Ranges, Setup, Loop, Fences, InRound, Past, MoveInIssued, ConfigIssued, ComputeIssued
  <2>4. Queued'
    BY <1>0, <1>12, <2>1 DEF NextScales, Queued, Places, Setup, Loop, Fences, InRound, Past, MoveInIssued, ConfigIssued, ComputeIssued
  <2>5. OperandsAreThere'
    BY <1>0, <1>12, <2>1 DEF NextScales, OperandsAreThere, Queued, Places, Ranges, Setup, Loop, Fences, InRound, Past, MoveInIssued, ConfigIssued, ComputeIssued
  <2>6. ToggleIsSet'
    BY <1>0, <1>12, <2>1 DEF NextScales, ToggleIsSet, Queued, Places, Ranges, Setup, Loop, Fences, InRound, Past, MoveInIssued, ConfigIssued, ComputeIssued
  <2>7. ScalesAreThere'
    BY <1>0, <1>12, <2>1 DEF NextScales, ScalesAreThere, ScaleIsThere, Places, Ranges, Setup, Loop, Fences, InRound, Past, MoveInIssued, ConfigIssued, ComputeIssued, Operands
  <2>8. Accumulated'
    BY <1>0, <1>12, <2>1 DEF NextScales, Accumulated, Computing, Queued, Places, Ranges, Setup, Loop, Fences, InRound, Past, MoveInIssued, ConfigIssued, ComputeIssued
  <2>9. Delivered'
    BY <1>0, <1>12, <2>1 DEF NextScales, Delivered, Finished, Computing, Accumulated, Queued, Places, Ranges, Setup, Loop, Fences, InRound, Past, MoveInIssued, ConfigIssued, ComputeIssued
  <2>10. QED
    BY <2>2, <2>3, <2>4, <2>5, <2>6, <2>7, <2>8, <2>9
<1>13. CASE EndLoop
  <2>1. /\ pc[0] = "end" /\ pc' = [pc EXCEPT ![0] = "barrier1"] /\ pc'[0] = "barrier1" /\ Round' = Round
        /\ k' = k /\ posted' = posted
        /\ queue' = queue /\ dma' = dma /\ mesh' = mesh /\ spad' = spad /\ toggle' = toggle /\ acc' = acc
        /\ stored' = stored /\ result' = result /\ out' = out /\ scale' = scale
    BY <1>0, <1>13 DEF EndLoop, engine, Goto, Round, InRound
  <2>2. Ranges'
    BY <1>0, <1>13, <2>1 DEF EndLoop, engine, Ranges, Stages, Setup, Loop, Fences, InRound, Past, MoveInIssued, ConfigIssued, ComputeIssued
  <2>3. Places'
    BY <1>0, <1>13, <2>1 DEF EndLoop, engine, Places, Ranges, Setup, Loop, Fences, InRound, Past, MoveInIssued, ConfigIssued, ComputeIssued
  <2>4. Queued'
    BY <1>0, <1>13, <2>1 DEF EndLoop, engine, Queued, Places, Setup, Loop, Fences, InRound, Past, MoveInIssued, ConfigIssued, ComputeIssued
  <2>5. OperandsAreThere'
    BY <1>0, <1>13, <2>1 DEF EndLoop, engine, OperandsAreThere, Queued, Places, Ranges, Setup, Loop, Fences, InRound, Past, MoveInIssued, ConfigIssued, ComputeIssued
  <2>6. ToggleIsSet'
    BY <1>0, <1>13, <2>1 DEF EndLoop, engine, ToggleIsSet, Queued, Places, Ranges, Setup, Loop, Fences, InRound, Past, MoveInIssued, ConfigIssued, ComputeIssued
  <2>7. ScalesAreThere'
    BY <1>0, <1>13, <2>1 DEF EndLoop, engine, ScalesAreThere, ScaleIsThere, Places, Ranges, Setup, Loop, Fences, InRound, Past, MoveInIssued, ConfigIssued, ComputeIssued
  <2>8. Accumulated'
    BY <1>0, <1>13, <2>1 DEF EndLoop, engine, Accumulated, Computing, Queued, Places, Ranges, Setup, Loop, Fences, InRound, Past, MoveInIssued, ConfigIssued, ComputeIssued
  <2>9. Delivered'
    BY <1>0, <1>13, <2>1 DEF EndLoop, engine, Delivered, Finished, Computing, Accumulated, Queued, Places, Ranges, Setup, Loop, Fences, InRound, Past, MoveInIssued, ConfigIssued, ComputeIssued
  <2>10. QED
    BY <2>2, <2>3, <2>4, <2>5, <2>6, <2>7, <2>8, <2>9
<1>14. CASE IssueMoveOut
  <2>1. /\ pc[0] = "mvout" /\ pc' = [pc EXCEPT ![0] = "drain"] /\ pc'[0] = "drain" /\ Round' = Round
        /\ k' = k /\ Issue("mvout", 0)
        /\ dma' = dma /\ mesh' = mesh /\ spad' = spad /\ scale' = scale /\ toggle' = toggle
        /\ posted' = posted /\ acc' = acc /\ stored' = stored /\ result' = result /\ out' = out
    BY <1>0, <1>14 DEF IssueMoveOut, Drive, Goto, Round, InRound
  <2>2. Ops(queue) = {} /\ mesh = Nothing
    BY <1>0, <2>1 DEF Queued, Places, Setup, Loop, Fences, MoveInIssued, ConfigIssued, ComputeIssued, OpNames
  <2>3. InOrder(queue', Round) /\ Ops(queue') = {"mvout"}
    BY <1>0, <2>1, <2>2, Issued DEF ArgOf, OpNames, Tiles
  <2>4. Ranges'
    BY <1>0, <1>14, <2>1, <2>2, <2>3 DEF IssueMoveOut, Drive, Ranges, Stages, Setup, Loop, Fences, InRound, Past, MoveInIssued, ConfigIssued, ComputeIssued
  <2>5. Places'
    BY <1>0, <1>14, <2>1, <2>2, <2>3 DEF IssueMoveOut, Drive, Places, Ranges, Setup, Loop, Fences, InRound, Past, MoveInIssued, ConfigIssued, ComputeIssued
  <2>6. Queued'
    BY <1>0, <1>14, <2>1, <2>2, <2>3 DEF IssueMoveOut, Drive, Queued, Places, Setup, Loop, Fences, InRound, Past, MoveInIssued, ConfigIssued, ComputeIssued
  <2>7. OperandsAreThere'
    BY <1>0, <1>14, <2>1, <2>2, <2>3 DEF IssueMoveOut, Drive, OperandsAreThere, Queued, Places, Ranges, Setup, Loop, Fences, InRound, Past, MoveInIssued, ConfigIssued, ComputeIssued
  <2>8. ToggleIsSet'
    BY <1>0, <1>14, <2>1, <2>2, <2>3 DEF IssueMoveOut, Drive, ToggleIsSet, Queued, Places, Ranges, Setup, Loop, Fences, InRound, Past, MoveInIssued, ConfigIssued, ComputeIssued
  <2>9. ScalesAreThere'
    BY <1>0, <1>14, <2>1, <2>2, <2>3 DEF IssueMoveOut, Drive, ScalesAreThere, ScaleIsThere, Places, Ranges, Setup, Loop, Fences, InRound, Past, MoveInIssued, ConfigIssued, ComputeIssued
  <2>10. Accumulated'
    BY <1>0, <1>14, <2>1, <2>2, <2>3 DEF IssueMoveOut, Drive, Accumulated, Computing, Queued, Places, Ranges, Setup, Loop, Fences, InRound, Past, MoveInIssued, ConfigIssued, ComputeIssued
  <2>11. Delivered'
    BY <1>0, <1>14, <2>1, <2>2, <2>3 DEF IssueMoveOut, Drive, Delivered, Finished, Computing, Accumulated, Queued, Places, Ranges, Setup, Loop, Fences, InRound, Past, MoveInIssued, ConfigIssued, ComputeIssued
  <2>12. QED
    BY <2>4, <2>5, <2>6, <2>7, <2>8, <2>9, <2>10, <2>11
<1>15. CASE Drain
  <2>1. queue = <<>> /\ dma = Nothing /\ mesh = Nothing
    BY <1>15 DEF Drain, Pending
  <2>2. Ops(queue) = {}
    BY <1>0, <2>1, EmptyQueue
  <2>3. /\ pc[0] = "drain" /\ pc' = [pc EXCEPT ![0] = "barrier2"] /\ pc'[0] = "barrier2" /\ Round' = Round
        /\ k' = k /\ posted' = posted
        /\ queue' = queue /\ dma' = dma /\ mesh' = mesh /\ spad' = spad /\ toggle' = toggle /\ acc' = acc
        /\ stored' = stored /\ result' = result /\ out' = out /\ scale' = scale
    BY <1>0, <1>15 DEF Drain, engine, Goto, Round, InRound
  <2>4. Ranges'
    BY <1>0, <1>15, <2>1, <2>2, <2>3 DEF Drain, engine, Ranges, Stages, Setup, Loop, Fences, InRound, Past, MoveInIssued, ConfigIssued, ComputeIssued
  <2>5. Places'
    BY <1>0, <1>15, <2>1, <2>2, <2>3 DEF Drain, engine, Places, Ranges, Setup, Loop, Fences, InRound, Past, MoveInIssued, ConfigIssued, ComputeIssued
  <2>6. Queued'
    BY <1>0, <1>15, <2>1, <2>2, <2>3 DEF Drain, engine, Queued, Places, Setup, Loop, Fences, InRound, Past, MoveInIssued, ConfigIssued, ComputeIssued
  <2>7. OperandsAreThere'
    BY <1>0, <1>15, <2>1, <2>2, <2>3 DEF Drain, engine, OperandsAreThere, Queued, Places, Ranges, Setup, Loop, Fences, InRound, Past, MoveInIssued, ConfigIssued, ComputeIssued
  <2>8. ToggleIsSet'
    BY <1>0, <1>15, <2>1, <2>2, <2>3 DEF Drain, engine, ToggleIsSet, Queued, Places, Ranges, Setup, Loop, Fences, InRound, Past, MoveInIssued, ConfigIssued, ComputeIssued
  <2>9. ScalesAreThere'
    BY <1>0, <1>15, <2>1, <2>2, <2>3 DEF Drain, engine, ScalesAreThere, ScaleIsThere, Places, Ranges, Setup, Loop, Fences, InRound, Past, MoveInIssued, ConfigIssued, ComputeIssued
  <2>10. Accumulated'
    BY <1>0, <1>15, <2>1, <2>2, <2>3 DEF Drain, engine, Accumulated, Computing, Queued, Places, Ranges, Setup, Loop, Fences, InRound, Past, MoveInIssued, ConfigIssued, ComputeIssued
  <2>11. Delivered'
    BY <1>0, <1>15, <2>1, <2>2, <2>3 DEF Drain, engine, Delivered, Finished, Computing, Accumulated, Queued, Places, Ranges, Setup, Loop, Fences, InRound, Past, MoveInIssued, ConfigIssued, ComputeIssued
  <2>12. QED
    BY <2>4, <2>5, <2>6, <2>7, <2>8, <2>9, <2>10, <2>11
<1>16. QED
  BY <1>1, <1>2, <1>3, <1>4, <1>5, <1>6, <1>7, <1>8, <1>9, <1>10, <1>11, <1>12, <1>13, <1>14, <1>15 DEF Thread0, FirstScales, NextScales, LoadScales

(* Beyond barrier 1 the pipeline is empty; only who may go where matters.  *)
LEMMA WarpKeepsPipeline ==
  ASSUME Pipeline, NEW w \in Warps, Warp(w)
  PROVE  Pipeline'
<1> USE DEF Pipeline
<1>0. /\ 0 \in Warps /\ NumTiles \in Nat \ {0} /\ accToGmem' = accToGmem /\ k' = k
      /\ pc \in [Warps -> Stages] /\ k \in 0 .. NumTiles
      /\ queue' = queue /\ dma' = dma /\ mesh' = mesh /\ spad' = spad /\ toggle' = toggle
      /\ acc' = acc /\ stored' = stored /\ result' = result /\ scale' = scale /\ posted' = posted
  BY ThereIsWarp0 DEF Warp, Ranges, LeaveBarrier1, Visible, LeaveBarrier2, Copy, engine
<1>1. ASSUME NEW stage \in {"fenceC", "mvout", "barrier2", "copy", "done"},
             pc' = [pc EXCEPT ![w] = stage], pc[w] \in {"barrier1", "fenceC", "barrier2", "copy"},
             pc[0] \notin Setup \cup Loop \cup {"end"}, out' \in [Warps -> {None, Whole}],
             stage = "fenceC" => pc[w] = "barrier1",
             stage = "mvout" => w = 0 /\ accToGmem /\ pc[w] = "fenceC",
             stage = "barrier2" => accToGmem /\ w # 0,
             stage = "copy" /\ accToGmem => pc[0] \in {"barrier2", "copy", "done"},
             stage = "done" => pc[w] = "copy"
      PROVE  Pipeline'
  <2>1. Round' = Round /\ (Computing' <=> Computing)
    BY <1>0, <1>1 DEF Round, InRound, Setup, Loop, Computing
  <2>2. Ranges'
    BY <1>0, <1>1 DEF Ranges, Stages
  <2>3. Places'
    <3>1. \A v \in Warps : pc'[v] = IF v = w THEN stage ELSE pc[v]
      BY <1>0, <1>1
    <3>2. pc'[0] \notin Setup \cup Loop \cup {"end"} /\ k = NumTiles
      BY <1>0, <1>1, <3>1 DEF Places, Setup, Loop
    <3>3. \A v \in Warps \ {0} : pc'[v] \in {"barrier1", "fenceC", "barrier2", "copy", "done"}
      BY <1>0, <1>1, <3>1 DEF Places
    <3>4. \A v \in Warps : pc'[v] \in {"mvout", "drain", "barrier2"} => accToGmem
      BY <1>0, <1>1, <3>1 DEF Places
    <3>5. accToGmem => \A v \in Warps : pc'[v] \in {"copy", "done"} =>
                         pc'[0] \in {"barrier2", "copy", "done"}
      BY <1>0, <1>1, <3>1 DEF Places
    <3>6. QED
      BY <1>0, <3>2, <3>3, <3>4, <3>5 DEF Places, Setup, Loop, InRound, Past
  <2>4. pc[0] \notin InRound \cup MoveInIssued \cup ConfigIssued \cup ComputeIssued \cup Fences
    BY <1>1 DEF InRound, MoveInIssued, ConfigIssued, ComputeIssued, Fences, Setup, Loop
  <2>5. pc'[0] \notin InRound \cup MoveInIssued \cup ConfigIssued \cup ComputeIssued \cup Fences
    BY <1>0, <1>1, <2>4 DEF InRound, MoveInIssued, ConfigIssued, ComputeIssued, Fences
  <2>6. Queued'
    BY <1>0, <1>1, <2>1, <2>4, <2>5 DEF Queued
  <2>7. OperandsAreThere' /\ ToggleIsSet' /\ ScalesAreThere' /\ Accumulated'
    BY <1>0, <2>1, <2>4, <2>5 DEF OperandsAreThere, ToggleIsSet, ScalesAreThere, ScaleIsThere,
       Accumulated, InRound, Fences, MoveInIssued
  <2>8. Delivered'
    BY <1>0, <1>1, <2>1 DEF Delivered, Finished, Places
  <2>9. QED
    BY <2>2, <2>3, <2>6, <2>7, <2>8
<1>2. CASE LeaveBarrier1(w)
  BY <1>0, <1>1, <1>2 DEF LeaveBarrier1, Goto, Ranges
<1>3. CASE Visible(w)
  BY <1>0, <1>1, <1>3 DEF Visible, Goto, Ranges, MoveOutStage, Places, Past
<1>4. CASE LeaveBarrier2(w)
  BY <1>0, <1>1, <1>4 DEF LeaveBarrier2, Goto, Ranges, Places, Past
<1>5. CASE Copy(w)
  BY <1>0, <1>1, <1>5 DEF Copy, Goto, Ranges, Places, Past
<1>6. QED
  BY <1>2, <1>3, <1>4, <1>5 DEF Warp

LEMMA StepKeepsPipeline == Pipeline /\ [Next]_vars => Pipeline'
<1>1. Pipeline /\ UNCHANGED vars => Pipeline'
  BY DEF vars, Pipeline, Ranges, Places, Queued, OperandsAreThere, ToggleIsSet, ScalesAreThere,
     ScaleIsThere, Accumulated, Delivered, Finished, Computing, Round
<1>2. QED
  BY <1>1, GemminiKeepsPipeline, MemoryKeepsPipeline, Thread0KeepsPipeline, WarpKeepsPipeline
     DEF Next, Ended

(* Every variable keeps its range: the accumulator only ever holds         *)
(* products of the first tiles.                                            *)
THEOREM TypeCorrect == Spec => []TypeOK
<1>1. Spec => []Pipeline
  BY InitPipeline, StepKeepsPipeline, PTL DEF Spec
<1>2. Pipeline => TypeOK
  <2> SUFFICES ASSUME Pipeline PROVE TypeOK
    OBVIOUS
  <2>1. queue \in Seq(Command)
    BY DEF Pipeline, Queued, InOrder
  <2>2. Whole \in Products /\ None \in Products
    BY SumFacts, ThereIsWarp0
  <2>3. acc \in Products /\ stored \in Products /\ result \in Products
    BY <2>2, SumFacts DEF Pipeline, Ranges
  <2>4. out \in [Warps -> Products]
    BY <2>2 DEF Pipeline, Ranges
  <2>5. QED
    BY <2>1, <2>3, <2>4 DEF Pipeline, Ranges, TypeOK
<1>3. QED
  BY <1>1, <1>2, PTL

(* While the mesh multiplies a tile, its operands and both its scale       *)
(* halves hold that tile, although the next one is on its way: the fences  *)
(* at the end of each round are enough, whatever the order in which the    *)
(* stores land.                                                            *)
THEOREM PipelineIsSafe == Spec => []MeshReadsItsTile
<1>1. Spec => []Pipeline
  BY InitPipeline, StepKeepsPipeline, PTL DEF Spec
<1>2. Pipeline => MeshReadsItsTile
  <2> SUFFICES ASSUME Pipeline, mesh # Nothing PROVE InPlace(mesh)
    BY DEF MeshReadsItsTile
  <2>1. mesh = Round /\ pc[0] \in ComputeIssued /\ Ops(queue) = {} /\ Round \in -1 .. NumTiles - 1
    BY RoundFacts DEF Pipeline, Queued
  <2>2. Round >= 0
    BY <2>1 DEF Nothing
  <2>3. QED
    BY <2>1, <2>2 DEF Pipeline, InPlace, OperandsAreThere, ToggleIsSet, ScalesAreThere,
       ComputeIssued, ConfigIssued
<1>3. QED
  BY <1>1, <1>2, PTL

-----------------------------------------------------------------------------
(* The result                                                              *)

OutInv == Pipeline /\ Copied

LEMMA StepKeepsCopied ==
  ASSUME FenceC, OutInv, [Next]_vars, Pipeline'
  PROVE  Copied'
<1> USE DEF OutInv
<1>0. 0 \in Warps /\ NumTiles \in Nat \ {0} /\ pc \in [Warps -> Stages] /\ Whole # None
  BY ThereIsWarp0, SumFacts DEF Pipeline, Ranges
<1>1. CASE UNCHANGED vars \/ Ended
  BY <1>1 DEF vars, Ended, Copied
<1>2. CASE Gemmini
  <2>1. pc' = pc /\ out' = out
    BY <1>2 DEF Gemmini, BeginConfig, BeginMoveIn, EndMoveIn, BeginCompute, EndCompute, MoveOut
  <2>2. result' = result \/ pc[0] = "drain"
    BY <1>2, Taken DEF Gemmini, BeginConfig, BeginMoveIn, EndMoveIn, BeginCompute, EndCompute,
       MoveOut, Pipeline, Queued
  <2>3. pc[0] = "drain" => \A w \in Warps : pc[w] \notin {"copy", "done"}
    BY <1>0 DEF Pipeline, Places
  <2>4. QED
    BY <2>1, <2>2, <2>3 DEF Copied
<1>3. CASE Memory
  <2>1. pc' = pc /\ out' = out /\ (result' = result \/ result' = Whole)
    BY <1>3 DEF Memory, LandProduct, LandScale, engine, Pipeline, Ranges
  <2>2. QED
    BY <2>1 DEF Copied
<1>4. CASE Thread0
  <2>1. /\ result' = result /\ out' = out
        /\ \E s \in Stages \ {"copy", "done"} : pc' = [pc EXCEPT ![0] = s]
    BY <1>4 DEF Thread0, Start, FirstScales, FenceScales, FenceGemmini, Config, MoveIn, Compute,
       NextScales, EndLoop, IssueMoveOut, Drain, Drive, LoadScales, Goto, engine, Stages, Setup, Loop
  <2>2. QED
    BY <1>0, <2>1 DEF Copied
<1>5. ASSUME NEW w \in Warps, Warp(w)
      PROVE  Copied'
  <2>1. result' = result
    BY <1>5 DEF Warp, LeaveBarrier1, Visible, LeaveBarrier2, Copy, engine
  <2>2. CASE LeaveBarrier1(w)
    BY <1>0, <2>1, <2>2 DEF LeaveBarrier1, Goto, Copied
  <2>3. CASE Visible(w)
    <3>1. stored = None /\ pc[w] = "fenceC" /\ pc' = [pc EXCEPT ![w] = MoveOutStage(w)] /\ out' = out
      BY <2>3 DEF Visible, Goto
    <3>2. ~accToGmem => Finished
      <4>1. pc[0] \notin Setup \cup Loop \cup {"end"}
        BY <3>1 DEF Pipeline, Places, Past
      <4>2. k = NumTiles /\ Round = NumTiles - 1
        BY <1>0, <4>1 DEF Pipeline, Places, Round, InRound, Setup, Loop
      <4>3. ~Computing
        BY <1>0, <4>1 DEF Computing, Pipeline, Queued, ComputeIssued, Fences, Setup, Loop
      <4>4. QED
        BY <4>2, <4>3 DEF Finished
    <3>3. ~accToGmem => result = Whole
      BY <1>0, <3>1, <3>2 DEF Pipeline, Delivered
    <3>4. QED
      BY <1>0, <2>1, <3>1, <3>3 DEF Copied, MoveOutStage
  <2>4. CASE LeaveBarrier2(w)
    <3>1. accToGmem /\ pc[0] \in {"barrier2", "copy", "done"}
      BY <1>0, <2>4 DEF LeaveBarrier2, Pipeline, Places
    <3>2. result = Whole
      BY <3>1 DEF Pipeline, Delivered
    <3>3. QED
      BY <1>0, <2>1, <2>4, <3>2 DEF LeaveBarrier2, Goto, Copied
  <2>5. CASE Copy(w)
    <3>1. out \in [Warps -> {None, Whole}]
      BY DEF Pipeline, Ranges
    <3>2. QED
      BY <1>0, <2>1, <2>5, <3>1 DEF Copy, Goto, Copied
  <2>6. QED
    BY <1>5, <2>2, <2>3, <2>4, <2>5 DEF Warp
<1>6. QED
  BY <1>1, <1>2, <1>3, <1>4, <1>5 DEF Next

(* What every warp copies out is the whole product, each tile added once   *)
(* and in order, if mu_fence_smem() precedes the move-out.                 *)
THEOREM MoveOutIsWhole == FenceC => (Spec => []MoveOutSeesC)
<1> SUFFICES ASSUME FenceC PROVE Spec => []MoveOutSeesC
  OBVIOUS
<1>1. Init => OutInv
  <2> SUFFICES ASSUME Init PROVE OutInv
    OBVIOUS
  <2>1. Copied
    BY ThereIsWarp0 DEF Init, Copied
  <2>2. QED
    BY <2>1, InitPipeline DEF OutInv
<1>2. OutInv /\ [Next]_vars => OutInv'
  BY StepKeepsPipeline, StepKeepsCopied DEF OutInv
<1>3. OutInv => MoveOutSeesC
  BY DEF OutInv, Copied, Pipeline, Ranges, MoveOutSeesC
<1>4. QED
  BY <1>1, <1>2, <1>3, PTL DEF Spec

-----------------------------------------------------------------------------
(* Every run of mxgemm ends                                                *)

LEMMA AlongTable ==
  /\ Along("start") = 0 /\ Along("scaleA0") = 1 /\ Along("scaleB0") = 2
  /\ Along("fenceScales") = 3 /\ Along("fenceGemmini") = 4 /\ Along("config") = 5
  /\ Along("mvin") = 6 /\ Along("compute") = 7 /\ Along("scaleA") = 8 /\ Along("scaleB") = 9
  /\ Along("end") = 10 /\ Along("barrier1") = 11 /\ Along("fenceC") = 12 /\ Along("mvout") = 13
  /\ Along("drain") = 14 /\ Along("barrier2") = 15 /\ Along("copy") = 16 /\ Along("done") = 17
BY DEF Along

(* A step of warp w to a later stage.                                      *)
LEMMA Goes ==
  ASSUME Pipeline, NEW w \in Warps, NEW stage, Goto(w, stage), k' = k,
         Along(pc[w]) < Along(stage)
  PROVE  AWarpGoesOn
BY DEF Pipeline, Ranges, Goto, AWarpGoesOn

LEMMA Thread0GoesOn ==
  ASSUME Pipeline, Thread0
  PROVE  AWarpGoesOn
<1>0. 0 \in Warps
  BY ThereIsWarp0
<1>1. CASE Start
  BY <1>0, <1>1, AlongTable, Goes DEF Start, Drive
<1>2. CASE FirstScales
  BY <1>0, <1>2, AlongTable, Goes DEF FirstScales, LoadScales
<1>3. CASE FenceScales
  BY <1>0, <1>3, AlongTable, Goes DEF FenceScales
<1>4. CASE FenceGemmini
  BY <1>0, <1>4, AlongTable, Goes DEF FenceGemmini
<1>5. CASE Config
  BY <1>0, <1>5, AlongTable, Goes DEF Config, Drive
<1>6. CASE MoveIn
  BY <1>0, <1>6, AlongTable, Goes DEF MoveIn, Drive
<1>7. CASE Compute
  BY <1>0, <1>7, AlongTable, Goes DEF Compute, Drive
<1>8. CASE NextScales
  <2>1. CASE LoadScales("scaleA", "scaleB", "A", k + 1)
    BY <1>0, <2>1, AlongTable, Goes DEF LoadScales
  <2>2. CASE k' = k + 1 /\ Goto(0, "fenceScales")
    BY <1>0, <2>2 DEF Pipeline, Ranges, Goto, AWarpGoesOn
  <2>3. QED
    BY <1>8, <2>1, <2>2 DEF NextScales
<1>9. CASE EndLoop
  BY <1>0, <1>9, AlongTable, Goes DEF EndLoop
<1>10. CASE IssueMoveOut
  BY <1>0, <1>10, AlongTable, Goes DEF IssueMoveOut, Drive
<1>11. CASE Drain
  BY <1>0, <1>11, AlongTable, Goes DEF Drain
<1>12. QED
  BY <1>1, <1>2, <1>3, <1>4, <1>5, <1>6, <1>7, <1>8, <1>9, <1>10, <1>11 DEF Thread0

LEMMA WarpGoesOn ==
  ASSUME Pipeline, NEW w \in Warps, Warp(w)
  PROVE  AWarpGoesOn
<1>1. CASE LeaveBarrier1(w)
  BY <1>1, AlongTable, Goes DEF LeaveBarrier1
<1>2. CASE Visible(w)
  BY <1>2, AlongTable, Goes DEF Visible, MoveOutStage
<1>3. CASE LeaveBarrier2(w)
  BY <1>3, AlongTable, Goes DEF LeaveBarrier2
<1>4. CASE Copy(w)
  BY <1>4, AlongTable, Goes DEF Copy
<1>5. QED
  BY <1>1, <1>2, <1>3, <1>4 DEF Warp

LEMMA HardwareGoesOn ==
  ASSUME Pipeline, Gemmini \/ Memory
  PROVE  HardwareGetsDone
<1>1. /\ queue \in Seq(Command) /\ Len(queue) \in Nat
      /\ queue # <<>> => Len(Tail(queue)) = Len(queue) - 1
  BY DEF Pipeline, Queued, InOrder
<1>2. /\ Nothing \notin Tiles
      /\ queue # <<>> => Head(queue).arg \in Tiles
  <2>1. Nothing \notin Tiles
    BY SizeAssumption DEF Nothing, Tiles
  <2>2. queue # <<>> => Head(queue).arg \in Tiles
    BY Popped DEF Pipeline, Queued
  <2>3. QED
    BY <2>1, <2>2
<1>3. CASE BeginConfig
  BY <1>1, <1>3 DEF BeginConfig, Begin, HardwareGetsDone, Outstanding
<1>4. CASE BeginMoveIn
  BY <1>1, <1>2, <1>4 DEF BeginMoveIn, Begin, HardwareGetsDone, Outstanding
<1>5. CASE EndMoveIn
  BY <1>1, <1>5 DEF EndMoveIn, HardwareGetsDone, Outstanding
<1>6. CASE BeginCompute
  BY <1>1, <1>2, <1>6 DEF BeginCompute, Begin, HardwareGetsDone, Outstanding
<1>7. CASE EndCompute
  BY <1>1, <1>7 DEF EndCompute, HardwareGetsDone, Outstanding
<1>8. CASE MoveOut
  BY <1>1, <1>8 DEF MoveOut, Begin, HardwareGetsDone, Outstanding
<1>9. CASE LandProduct
  BY <1>1, <1>9 DEF LandProduct, HardwareGetsDone, Outstanding
<1>10. CASE LandScale
  <2>1. Outstanding' = Outstanding
    BY <1>10 DEF LandScale, engine, Outstanding
  <2>2. QED
    BY <1>10, <2>1 DEF LandScale, engine, HardwareGetsDone
<1>11. QED
  BY <1>3, <1>4, <1>5, <1>6, <1>7, <1>8, <1>9, <1>10 DEF Gemmini, Memory

LEMMA PipelineAlways == Spec => []Pipeline
BY InitPipeline, StepKeepsPipeline, PTL DEF Spec

(* For any number of tiles and of warps, and however the engines and the   *)
(* stores are delayed, mxgemm makes a bounded number of steps              *)
(* (mxgemm_lib.hpp:696-834).                                               *)
THEOREM RunIsBounded == Spec => EveryStepCounts
<1>1. Pipeline /\ [Next]_vars => [AWarpGoesOn \/ HardwareGetsDone]_vars
  BY Thread0GoesOn, WarpGoesOn, HardwareGoesOn DEF Next, Ended
<1>2. QED
  BY <1>1, PipelineAlways, PTL DEF Spec, EveryStepCounts

(* For any number of tiles and of warps mxgemm is never stuck: no fence    *)
(* and no barrier waits for something that does not come                   *)
(* (mxgemm_lib.hpp:696-834).                                               *)
THEOREM NobodyIsStuck == Spec => []NeverStuck
<1>1. Pipeline => NeverStuck
  <2> SUFFICES ASSUME Pipeline, ~HardwareMayStep, ~Thread0MayStep,
                      \A w \in Warps : ~WarpMayStep(w)
               PROVE  AllDone /\ stored = None /\ posted = {}
    BY DEF NeverStuck
  <2>1. dma = Nothing /\ mesh = Nothing /\ stored = None /\ posted = {}
    BY DEF HardwareMayStep
  <2>2. queue = <<>>
    <3> SUFFICES ASSUME queue # <<>> PROVE FALSE
      OBVIOUS
    <3>1. Head(queue).op \in OpNames
      BY Popped DEF Pipeline, Queued
    <3>2. QED
      BY <2>1, <3>1 DEF HardwareMayStep, OpNames
  <2>3. /\ 0 \in Warps /\ \A w \in Warps : pc[w] \in Stages
        /\ \A w \in Warps \ {0} : pc[w] \in {"barrier1", "fenceC", "barrier2", "copy", "done"}
    BY ThereIsWarp0 DEF Pipeline, Ranges, Places
  <2>4. pc[0] \notin Setup \cup Loop \cup {"end", "mvout", "drain"}
    BY <2>1, <2>2 DEF Thread0MayStep, Pending, Loop
  <2>5. \A w \in Warps : pc[w] \in {"barrier1", "fenceC", "barrier2", "copy", "done"}
    BY <2>3, <2>4 DEF Stages
  <2>6. \A w \in Warps : pc[w] \in {"barrier2", "done"}
    BY <2>1, <2>5 DEF WarpMayStep, Setup, Loop
  <2>7. \A w \in Warps : pc[w] = "done"
    BY <2>6 DEF WarpMayStep
  <2>8. QED
    BY <2>1, <2>7 DEF AllDone
<1>2. QED
  BY <1>1, PipelineAlways, PTL
=============================================================================
