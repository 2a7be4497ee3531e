-------------------------- MODULE MuScheduleProofs --------------------------
(* What mu_schedule() guarantees for any number of cores, warps and items. *)
EXTENDS MuSchedule, FiniteSetTheorems, TLAPS

(* The programs that mu_schedule() serves well: the launches whose body    *)
(* ends in a barrier come first, and a line of the context that may be     *)
(* evicted is written in one launch only.                                  *)
Disciplined ==
  \A p \in Programs :
    /\ p.evictions => Len(p.launches) = 1
    /\ \A l \in 1 .. Len(p.launches) : p.launches[l].endsInBarrier =>
         \A k \in 1 .. l : p.launches[k].endsInBarrier

-----------------------------------------------------------------------------
(* The inductive invariant                                                 *)

Writing == {"callback", "arg", "occupancy"}
BeforeSpawn == Writing \cup {"rendezvous", "spawn"}
Reading == {"readOccupancy", "readCallback", "readArg"}
InShare == Reading \cup {"body"}
ToDo == BeforeSpawn \cup InShare

Managers == {w \in Warps : w[2] = 0}
Workers == {w \in Warps : w[2] # 0}

EndsTogether(l) == l \in Launches /\ Program[l].endsInBarrier
Orderly(l) == l \in Launches /\ \A k \in 1 .. l : Sealed(k)

Ran(w, l) == \E u \in done[l] : u[1] = w

Roles ==
  /\ \A w \in Managers : pc[w] # "idle" /\ (pc[w] = "exit" => launch[w[1]] = Len(Program))
  /\ \A w \in Workers : pc[w] \in {"idle", "atEnd", "return"} \cup InShare

(* In a single launch no manager is beyond the barrier while another still *)
(* writes the context.                                                     *)
Met ==
  Len(Program) = 1 =>
    \/ \A w \in Managers : pc[w] \notin Writing
    \/ /\ \A w \in Managers : pc[w] \in Writing \cup {"rendezvous"}
       /\ arrived[0] = {w \in Managers : pc[w] \notin Writing}

(* The stages in which a word is still that of the launch before.          *)
Before(x) ==
  CASE x = "callback" -> {"callback"} [] x = "arg" -> {"callback", "arg"} [] OTHER -> Writing

Contexts ==
  \A c \in Cores :
    /\ \A x \in Words :
         Seen(c)[x] = IF pc[Manager(c)] \in Before(x) THEN launch[c] - 1 ELSE launch[c]
    /\ line[c].state = "clean" => line[c].val = mem

Spawned ==
  /\ \A w \in Managers : pc[w] \in InShare => born[w] = launch[w[1]]
  /\ \A w \in Workers :
       /\ born[w] <= launch[w[1]]
       /\ pc[Manager(w[1])] \in BeforeSpawn => born[w] < launch[w[1]]
       /\ pc[w] # "idle" => born[w] >= 1 /\ w \in LaunchWarps(born[w])

HasRead(w) ==
  CASE pc[w] = "readCallback" -> {"occupancy"}
    [] pc[w] = "readArg" -> {"occupancy", "callback"}
    [] pc[w] = "body" -> Words
    [] OTHER -> {}

(* What a warp has read is not older than the launch that started it.      *)
Registers ==
  \A w \in Warps : \A x \in HasRead(w) : born[w] <= reg[w][x] /\ reg[w][x] <= launch[w[1]]

(* Who has run the body of a launch is beyond it.                          *)
Entries ==
  \A l \in Launches : Orderly(l) => \A u \in done[l] :
    /\ u[1] \in LaunchWarps(l) /\ u[2] = OccupancyOf(l)
    /\ l < LaunchOf(u[1]) \/ (l = LaunchOf(u[1]) /\ pc[u[1]] \notin ToDo)

(* Who waits at the barrier that ends a body.                              *)
Ends ==
  /\ \A w \in arrived[1] : pc[w] = "atEnd"
  /\ \A w \in Warps : pc[w] = "atEnd" =>
       EndsTogether(LaunchOf(w)) /\ Ran(w, LaunchOf(w)) /\ (w \in arrived[1] <=> ~Complete(LaunchOf(w)))
  /\ \A w \in Warps, l \in Launches :
       EndsTogether(l) /\ Ran(w, l) /\ ~Complete(l) => w \in arrived[1]

(* A manager leaves a launch that ends in a barrier after all its warps    *)
(* have run the body.                                                      *)
Earlier ==
  \A c \in Cores :
    /\ \A l \in 1 .. launch[c] - 1 : EndsTogether(l) => Complete(l)
    /\ pc[Manager(c)] \in {"return", "main", "exit"} /\ EndsTogether(launch[c]) =>
         Complete(launch[c])

(* In the first launch every warp that takes part is started.              *)
Fresh ==
  \A w \in LaunchWarps(1) : launch[w[1]] = 1 =>
    pc[Manager(w[1])] \in BeforeSpawn \/ pc[w] \in ToDo \/ Ran(w, 1)

(* A manager is beyond the body of its launch when it has run it.          *)
Leaving == {"return", "main", "exit"}
After == {"atEnd"} \cup Leaving
Managed == \A w \in Managers : pc[w] \in After => Ran(w, launch[w[1]])

Schedule == /\ TypeOK /\ Roles /\ Met /\ Contexts /\ Spawned /\ Registers
            /\ Entries /\ Ends /\ Earlier /\ Fresh /\ Managed

-----------------------------------------------------------------------------
(* Lemmas about the machine                                                *)

LEMMA Sizes == NumCores \in Nat \ {0} /\ WarpsPerCore \in Nat \ {0} /\ NumItems \in Nat
BY SizeAssumption

LEMMA WarpFacts ==
  ASSUME NEW w \in Warps
  PROVE  /\ w[1] \in Cores /\ w[2] \in 0 .. WarpsPerCore - 1 /\ w = <<w[1], w[2]>>
         /\ w \in Managers <=> w = Manager(w[1])
         /\ w \in Managers <=> w[2] = 0
         /\ w \in Workers <=> w[2] # 0
BY DEF Warps, Managers, Workers, Manager

LEMMA ManagerFacts ==
  ASSUME NEW c \in Cores
  PROVE  /\ Manager(c) \in Managers /\ Manager(c) \in Warps /\ Manager(c) \notin Workers
         /\ Manager(c)[1] = c /\ Manager(c)[2] = 0
         /\ \A w \in Managers : w[1] = c => w = Manager(c)
         /\ \A d \in Cores : Manager(c) = Manager(d) => c = d
BY Sizes DEF Manager, Managers, Workers, Warps

LEMMA ProgramFacts ==
  ASSUME TypeOK
  PROVE  /\ Len(Program) \in Nat \ {0}
         /\ program \in Programs
         /\ program.evictions \in BOOLEAN
         /\ \A l \in Launches : Program[l].occupancy \in 1 .. WarpsPerCore
         /\ \A l \in Launches : Program[l].endsInBarrier \in BOOLEAN
         /\ \A l \in Launches : OccupancyOf(l) \in 1 .. WarpsPerCore
<1>1. program \in Programs
  BY DEF TypeOK
<1>2. Program # <<>> /\ program.evictions \in BOOLEAN
  BY <1>1, ProgramsAssumption DEF Program
<1>3. Program \in Seq([occupancy : 1 .. WarpsPerCore, endsInBarrier : BOOLEAN])
  BY <1>1, ProgramsAssumption DEF Program
<1>4. Len(Program) \in Nat \ {0}
  BY <1>2, <1>3
<1>5. \A l \in Launches : Program[l] \in [occupancy : 1 .. WarpsPerCore, endsInBarrier : BOOLEAN]
  <2>1. \A R, l : Program \in Seq(R) /\ l \in 1 .. Len(Program) => Program[l] \in R
    OBVIOUS
  <2>2. QED
    BY <1>3, <2>1 DEF Launches
<1>6. QED
  BY <1>1, <1>2, <1>4, <1>5 DEF OccupancyOf

LEMMA Discipline ==
  ASSUME TypeOK, Disciplined
  PROVE  /\ program.evictions => Len(Program) = 1
         /\ \A l \in Launches : EndsTogether(l) => \A k \in 1 .. l : EndsTogether(k)
         /\ \A l \in Launches : EndsTogether(l) => Orderly(l)
<1>1. program \in Programs /\ Len(Program) \in Nat \ {0}
  BY ProgramFacts
<1>2. program.evictions => Len(Program) = 1
  BY <1>1 DEF Disciplined, Program
<1>3. ASSUME NEW l \in Launches, EndsTogether(l), NEW k \in 1 .. l
      PROVE  EndsTogether(k)
  BY <1>1, <1>3 DEF Disciplined, Program, EndsTogether, Launches
<1>4. QED
  BY <1>1, <1>2, <1>3 DEF Orderly, Sealed, EndsTogether, Launches

LEMMA CountWarps ==
  ASSUME NEW n \in 1 .. WarpsPerCore
  PROVE  LET S == {w \in Warps : w[2] < n}
         IN  IsFiniteSet(S) /\ Cardinality(S) = NumCores * n
<1>1. {w \in Warps : w[2] < n} = Cores \X (0 .. n - 1)
  BY Sizes DEF Warps
<1>2. IsFiniteSet(Cores) /\ Cardinality(Cores) = NumCores
  BY Sizes, FS_Interval DEF Cores
<1>3. IsFiniteSet(0 .. n - 1) /\ Cardinality(0 .. n - 1) = n
  BY Sizes, FS_Interval
<1>4. LET P == Cores \X (0 .. n - 1)
      IN  IsFiniteSet(P) /\ Cardinality(P) = Cardinality(Cores) * Cardinality(0 .. n - 1)
  BY <1>2, <1>3, FS_Product
<1>5. QED
  BY <1>1, <1>2, <1>3, <1>4

LEMMA CountManagers == IsFiniteSet(Managers) /\ Cardinality(Managers) = NumCores
<1>1. 1 \in 1 .. WarpsPerCore /\ Managers = {w \in Warps : w[2] < 1}
  BY Sizes DEF Managers, Warps
<1>2. QED
  BY <1>1, CountWarps, Sizes

(* A set of managers as large as mu_barrier(0, NumCores) asks for is whole.*)
LEMMA AllManagers ==
  ASSUME NEW S \in SUBSET Managers, Cardinality(S) = NumCores
  PROVE  S = Managers
BY CountManagers, FS_Subset

(* So is a set of warps of a launch, as large as its end barrier asks for. *)
LEMMA AllLaunchWarps ==
  ASSUME TypeOK, NEW l \in Launches, NEW S \in SUBSET LaunchWarps(l)
  PROVE  Cardinality(S) = NumCores * OccupancyOf(l) <=> S = LaunchWarps(l)
<1>1. OccupancyOf(l) \in 1 .. WarpsPerCore
  BY ProgramFacts
<1>2. IsFiniteSet(LaunchWarps(l)) /\ Cardinality(LaunchWarps(l)) = NumCores * OccupancyOf(l)
  BY <1>1, CountWarps DEF LaunchWarps
<1>3. QED
  BY <1>2, FS_Subset

LEMMA ManagersTakePart ==
  ASSUME TypeOK, NEW l \in Launches, NEW w \in Managers
  PROVE  w \in LaunchWarps(l)
BY ProgramFacts, Sizes DEF LaunchWarps, Managers

LEMMA SeenIsContext ==
  ASSUME TypeOK, NEW c \in Cores
  PROVE  Seen(c) \in Context
BY DEF TypeOK, Seen

(* The program does not change, and nor does what is defined by it.        *)
LEMMA SameProgram ==
  ASSUME program' = program
  PROVE  /\ Program' = Program /\ Launches' = Launches /\ Context' = Context
         /\ \A l : OccupancyOf(l)' = OccupancyOf(l) /\ LaunchWarps(l)' = LaunchWarps(l)
         /\ \A l : (EndsTogether(l)' <=> EndsTogether(l)) /\ (Orderly(l)' <=> Orderly(l))
<1>1. Program' = Program /\ Launches' = Launches /\ Context' = Context
  BY DEF Program, Launches, Context
<1>2. \A l : Sealed(l)' <=> Sealed(l)
  BY <1>1 DEF Sealed
<1>3. QED
  BY <1>1, <1>2 DEF OccupancyOf, LaunchWarps, EndsTogether, Orderly

-----------------------------------------------------------------------------
(* Types                                                                   *)

LEMMA TypesFromStart == Init => TypeOK
<1> SUFFICES ASSUME Init PROVE TypeOK
  OBVIOUS
<1>1. program \in Programs /\ Len(Program) \in Nat \ {0}
  <2>1. program \in Programs
    BY DEF Init
  <2>2. Program \in Seq([occupancy : 1 .. WarpsPerCore, endsInBarrier : BOOLEAN]) /\ Program # <<>>
    BY <2>1, ProgramsAssumption DEF Program
  <2>3. QED
    BY <2>1, <2>2
<1>2. Unwritten \in Context
  BY <1>1 DEF Unwritten, Context
<1>3. QED
  BY <1>1, <1>2 DEF Init, TypeOK, Launches, Stages

LEMMA ManagersKeepTypes ==
  ASSUME TypeOK, NEW c \in Cores, ManagerStep(c)
  PROVE  TypeOK'
<1> USE DEF TypeOK, Goto
<1>0. /\ Manager(c) \in Warps
      /\ program' = program
      /\ Program' = Program /\ Launches' = Launches /\ Context' = Context
  BY ManagerFacts, SameProgram DEF ManagerStep
<1>1. Len(Program) \in Nat \ {0} /\ launch[c] \in 1 .. Len(Program)
  BY ProgramFacts DEF Launches
<1>2. ASSUME NEW x \in Words, Store(c, x, launch[c])
      PROVE  line' \in [Cores -> [state : {"invalid", "clean", "dirty"}, val : Context]]
  <2>1. [Seen(c) EXCEPT ![x] = launch[c]] \in Context
    BY <1>1, SeenIsContext DEF Context
  <2>2. QED
    BY <1>2, <2>1 DEF Store
<1>3. ASSUME Arrive(Manager(c), 0, NumCores)
      PROVE  arrived' \in [0 .. 1 -> SUBSET Warps]
  BY <1>0, <1>3 DEF Arrive
<1>4. CASE WriteCallback(c)
  BY <1>0, <1>2, <1>4 DEF WriteCallback, Words, Stages
<1>5. CASE WriteArg(c)
  BY <1>0, <1>2, <1>5 DEF WriteArg, Words, Stages
<1>6. CASE WriteOccupancy(c)
  BY <1>0, <1>2, <1>3, <1>6 DEF WriteOccupancy, Words, Stages
<1>7. CASE Meet(c)
  BY <1>0, <1>7 DEF Meet, Stages
<1>8. CASE Spawn(c)
  BY <1>0, <1>1, <1>8 DEF Spawn, Stages
<1>9. CASE Return(c)
  BY <1>0, <1>3, <1>9 DEF Return, Stages
<1>10. CASE NextLaunch(c)
  BY <1>0, <1>1, <1>10 DEF NextLaunch, Stages, Launches
<1>11. CASE Finish(c)
  BY <1>0, <1>11 DEF Finish, Stages
<1>12. QED
  BY <1>4, <1>5, <1>6, <1>7, <1>8, <1>9, <1>10, <1>11 DEF ManagerStep

LEMMA WarpsKeepTypes ==
  ASSUME TypeOK, NEW w \in Warps, WarpStep(w)
  PROVE  TypeOK'
<1> USE DEF TypeOK, Goto
<1>0. /\ w[1] \in Cores
      /\ program' = program
      /\ Program' = Program /\ Launches' = Launches /\ Context' = Context
  BY WarpFacts, SameProgram DEF WarpStep
<1>1. ASSUME NEW stage \in Stages, NEW word \in Words, NEW next \in Stages,
             Read(w, stage, word, next)
      PROVE  TypeOK'
  <2>1. Seen(w[1]) \in Context
    BY <1>0, SeenIsContext
  <2>2. line' \in [Cores -> [state : {"invalid", "clean", "dirty"}, val : Context]]
    BY <1>0, <1>1, <2>1 DEF Read, Load
  <2>3. reg' \in [Warps -> Context]
    BY <1>1, <2>1 DEF Read, Context
  <2>4. QED
    BY <1>0, <1>1, <2>2, <2>3 DEF Read
<1>2. CASE ReadOccupancy(w) \/ ReadCallback(w) \/ ReadArg(w)
  BY <1>1, <1>2 DEF ReadOccupancy, ReadCallback, ReadArg, Stages, Words
<1>3. CASE Body(w)
  <2>1. OccupancyOf(reg[w].occupancy) \in 0 .. WarpsPerCore
    BY ProgramFacts, Sizes DEF OccupancyOf
  <2>2. done' \in [Launches -> SUBSET (Warps \X (0 .. WarpsPerCore))]
    BY <1>3, <2>1 DEF Body
  <2>3. arrived' \in [0 .. 1 -> SUBSET Warps]
    BY <1>3 DEF Body, Arrive
  <2>4. pc' \in [Warps -> Stages]
    BY <1>3 DEF Body, Stages
  <2>5. QED
    BY <1>0, <1>3, <2>2, <2>3, <2>4 DEF Body
<1>4. CASE LeaveBody(w) \/ Retire(w)
  BY <1>0, <1>4 DEF LeaveBody, Retire, Stages
<1>5. QED
  BY <1>2, <1>3, <1>4 DEF WarpStep

LEMMA EvictionKeepsTypes ==
  ASSUME TypeOK, NEW w \in Warps, Evict(w)
  PROVE  TypeOK'
<1>1. program' = program /\ Program' = Program /\ Launches' = Launches /\ Context' = Context
  BY SameProgram DEF Evict
<1>2. w[1] \in Cores /\ Unwritten \in Context
  BY WarpFacts, ProgramFacts DEF Unwritten, Context
<1>3. mem' \in Context
  BY <1>2 DEF Evict, TypeOK
<1>4. line' \in [Cores -> [state : {"invalid", "clean", "dirty"}, val : Context]]
  BY <1>2 DEF Evict, TypeOK
<1>5. QED
  BY <1>1, <1>3, <1>4 DEF Evict, TypeOK

LEMMA StepsKeepTypes == TypeOK /\ [Next]_vars => TypeOK'
<1> SUFFICES ASSUME TypeOK, [Next]_vars PROVE TypeOK'
  OBVIOUS
<1>1. CASE UNCHANGED vars
  <2>1. program' = program
    BY <1>1 DEF vars
  <2>2. QED
    BY <1>1, <2>1, SameProgram DEF TypeOK, vars
<1>2. QED
  BY <1>1, ManagersKeepTypes, WarpsKeepTypes, EvictionKeepsTypes DEF Next, Ended

(* The variables keep their types for any number of cores, of warps and of *)
(* launches.                                                               *)
THEOREM TypeCorrect == Spec => []TypeOK
BY TypesFromStart, StepsKeepTypes, PTL DEF Spec

-----------------------------------------------------------------------------
(* What the invariant says of a warp that runs its share                   *)

LEMMA OwnFacts ==
  ASSUME Schedule, NEW w \in Warps, pc[w] # "idle"
  PROVE  /\ LaunchOf(w) \in Launches /\ LaunchOf(w) <= launch[w[1]] /\ w \in LaunchWarps(LaunchOf(w))
         /\ launch[w[1]] \in Launches
         /\ pc[w] \in InShare => born[w] = LaunchOf(w)
<1>0. TypeOK /\ Spawned /\ launch[w[1]] \in Launches /\ Len(Program) \in Nat
  BY WarpFacts, ProgramFacts DEF Schedule, TypeOK
<1>1. CASE w \in Managers
  BY <1>0, <1>1, WarpFacts, ManagersTakePart DEF LaunchOf, Spawned, Launches
<1>2. CASE w \in Workers
  BY <1>0, <1>2, WarpFacts DEF LaunchOf, Spawned, TypeOK, Launches
<1>3. QED
  BY <1>1, <1>2 DEF Managers, Workers

(* Where all launches up to its own are sealed, its core has not gone on.  *)
LEMMA StillInLaunch ==
  ASSUME Schedule, NEW w \in Warps, pc[w] \in InShare, Orderly(born[w])
  PROVE  launch[w[1]] = born[w] /\ LaunchOf(w) = born[w]
<1>0. pc[w] # "idle"
  BY DEF InShare, Reading
<1>1. /\ LaunchOf(w) = born[w] /\ born[w] \in Launches /\ born[w] <= launch[w[1]]
      /\ w \in LaunchWarps(born[w]) /\ launch[w[1]] \in Launches /\ w[1] \in Cores
  BY <1>0, OwnFacts, WarpFacts
<1>2. SUFFICES ASSUME born[w] < launch[w[1]] PROVE FALSE
  BY <1>1 DEF Launches
<1>3. EndsTogether(born[w]) /\ born[w] \in 1 .. launch[w[1]] - 1
  BY <1>1, <1>2, ProgramFacts DEF Schedule, Orderly, Sealed, EndsTogether, Launches
<1>4. Complete(born[w])
  BY <1>1, <1>3 DEF Schedule, Earlier
<1>5. PICK u \in done[born[w]] : u[1] = w
  BY <1>1, <1>4 DEF Complete
<1>6. born[w] < LaunchOf(w) \/ pc[w] \notin ToDo
  BY <1>1, <1>5 DEF Schedule, Entries
<1>7. QED
  BY <1>1, <1>6 DEF ToDo, Launches

(* ... and what it has read is that launch.                                *)
LEMMA BodyIsOwn ==
  ASSUME Schedule, NEW w \in Warps, pc[w] = "body", NEW l \in Launches, l = reg[w].callback,
         Orderly(l)
  PROVE  /\ launch[w[1]] = l /\ born[w] = l /\ LaunchOf(w) = l
         /\ OccupancyOf(reg[w].occupancy) = OccupancyOf(l)
         /\ w \in LaunchWarps(l)
<1>0. pc[w] \in InShare /\ pc[w] # "idle" /\ Len(Program) \in Nat
  BY ProgramFacts DEF InShare, Reading, Schedule
<1>1. LaunchOf(w) = born[w] /\ born[w] \in Launches /\ w \in LaunchWarps(born[w])
  BY <1>0, OwnFacts
<1>2. \A x \in Words : born[w] <= reg[w][x] /\ reg[w][x] <= launch[w[1]] /\ reg[w][x] \in Nat
  BY <1>0 DEF Schedule, Registers, HasRead, TypeOK, Context
<1>3. born[w] <= l
  BY <1>2 DEF Words
<1>4. Orderly(born[w])
  BY <1>0, <1>1, <1>3 DEF Orderly, Launches
<1>5. launch[w[1]] = born[w]
  BY <1>0, <1>4, StillInLaunch
<1>6. \A x \in Words : reg[w][x] = born[w]
  BY <1>0, <1>1, <1>2, <1>5 DEF Launches
<1>7. QED
  BY <1>1, <1>5, <1>6 DEF Words

LEMMA ScheduleImplies ==
  ASSUME Disciplined, Schedule
  PROVE  ContextIsMine /\ PhaseOrder
<1>0. TypeOK /\ Len(Program) \in Nat
  BY ProgramFacts DEF Schedule
<1>1. ASSUME NEW w \in Warps, pc[w] = "body", Sealed(born[w]), NEW x \in Words
      PROVE  reg[w][x] = born[w]
  <2>0. pc[w] \in InShare /\ pc[w] # "idle"
    BY <1>1 DEF InShare
  <2>1. /\ LaunchOf(w) = born[w] /\ born[w] \in Launches /\ launch[w[1]] \in Launches
        /\ born[w] <= launch[w[1]]
    BY <2>0, OwnFacts
  <2>2. born[w] <= reg[w][x] /\ reg[w][x] <= launch[w[1]] /\ reg[w][x] \in Nat
    BY <1>1 DEF Schedule, Registers, HasRead, TypeOK, Context
  <2>3. CASE born[w] = Len(Program)
    BY <2>1, <2>2, <2>3, <1>0 DEF Launches
  <2>4. CASE Program[born[w]].endsInBarrier
    <3>1. Orderly(born[w])
      BY <1>0, <2>1, <2>4, Discipline DEF EndsTogether
    <3>2. QED
      BY <3>1, <2>0, <2>1, <2>2, <1>0, StillInLaunch DEF Launches
  <2>5. QED
    BY <1>1, <2>3, <2>4 DEF Sealed
<1>2. ASSUME NEW w \in Warps, pc[w] = "body", NEW l \in 1 .. reg[w].callback - 1,
             Program[l].endsInBarrier
      PROVE  Complete(l)
  <2>1. reg[w].callback <= launch[w[1]] /\ reg[w].callback \in Nat
    BY <1>2 DEF Schedule, Registers, HasRead, Words, TypeOK, Context
  <2>2. w[1] \in Cores /\ launch[w[1]] \in 1 .. Len(Program)
    BY WarpFacts DEF Schedule, TypeOK, Launches
  <2>3. l \in 1 .. launch[w[1]] - 1 /\ EndsTogether(l)
    BY <1>0, <1>2, <2>1, <2>2 DEF EndsTogether, Launches
  <2>4. QED
    BY <2>2, <2>3 DEF Schedule, Earlier
<1>3. QED
  BY <1>1, <1>2 DEF ContextIsMine, PhaseOrder

-----------------------------------------------------------------------------
(* When a step keeps the parts of the invariant                            *)

LEMMA EntriesKept ==
  ASSUME TypeOK, TypeOK', Entries, program' = program, done' = done,
         \A w \in Warps : \/ LaunchOf(w)' = LaunchOf(w) /\ (pc'[w] \in ToDo => pc[w] \in ToDo)
                          \/ LaunchOf(w)' > LaunchOf(w)
  PROVE  Entries'
<1> SUFFICES ASSUME NEW l \in Launches, Orderly(l), NEW u \in done[l]
             PROVE  /\ u[1] \in LaunchWarps(l) /\ u[2] = OccupancyOf(l)
                    /\ l < LaunchOf(u[1])' \/ (l = LaunchOf(u[1])' /\ pc'[u[1]] \notin ToDo)
  BY SameProgram DEF Entries
<1>1. /\ u[1] \in LaunchWarps(l) /\ u[2] = OccupancyOf(l)
      /\ l < LaunchOf(u[1]) \/ (l = LaunchOf(u[1]) /\ pc[u[1]] \notin ToDo)
  BY DEF Entries
<1>2. u[1] \in Warps
  BY <1>1 DEF LaunchWarps
<1>3. LaunchOf(u[1]) \in Int /\ LaunchOf(u[1])' \in Int /\ l \in Int
  BY <1>2, WarpFacts, SameProgram, ProgramFacts DEF LaunchOf, TypeOK, Launches
<1>4. QED
  BY <1>1, <1>2, <1>3

LEMMA EndsKept ==
  ASSUME TypeOK, Ends, program' = program, done' = done, arrived'[1] = arrived[1],
         \A w \in Warps : pc'[w] = "atEnd" => pc[w] = "atEnd" /\ LaunchOf(w)' = LaunchOf(w),
         \A w \in arrived[1] : pc'[w] = "atEnd"
  PROVE  Ends'
<1>1. /\ \A l : (EndsTogether(l)' <=> EndsTogether(l)) /\ (Complete(l)' <=> Complete(l))
      /\ \A w, l : Ran(w, l)' <=> Ran(w, l)
      /\ Launches' = Launches
  BY SameProgram DEF Complete, Ran
<1>2. ASSUME NEW w \in Warps, pc'[w] = "atEnd", NEW l, l = LaunchOf(w)
      PROVE  EndsTogether(l) /\ Ran(w, l) /\ (w \in arrived[1] <=> ~Complete(l))
  BY <1>2 DEF Ends
<1>3. \A w \in Warps : pc'[w] = "atEnd" =>
         (EndsTogether(LaunchOf(w)) /\ Ran(w, LaunchOf(w)) /\ (w \in arrived[1] <=> ~Complete(LaunchOf(w))))'
  <2> TAKE w \in Warps
  <2> HAVE pc'[w] = "atEnd"
  <2> DEFINE l == LaunchOf(w)
  <2>1. LaunchOf(w)' = l
    OBVIOUS
  <2>2. EndsTogether(l) /\ Ran(w, l) /\ (w \in arrived[1] <=> ~Complete(l))
    BY <1>2
  <2>3. EndsTogether(LaunchOf(w))' /\ Ran(w, LaunchOf(w))' /\ (w \in arrived'[1] <=> ~Complete(LaunchOf(w))')
    BY <2>1, <2>2, SameProgram DEF EndsTogether, Ran, Complete
  <2>4. QED
    BY <2>3
<1>4. QED
  BY <1>1, <1>3 DEF Ends

(* Ends' from its three parts, with the launches of the warps unchanged.   *)
LEMMA EndsFrom ==
  ASSUME TypeOK, program' = program,
         \A w : LaunchOf(w)' = LaunchOf(w),
         \A w \in arrived'[1] : pc'[w] = "atEnd",
         \A w \in Warps : pc'[w] = "atEnd" => \A k : k = LaunchOf(w) =>
           EndsTogether(k)' /\ Ran(w, k)' /\ (w \in arrived'[1] <=> ~Complete(k)'),
         \A w \in Warps, l \in Launches :
           EndsTogether(l)' /\ Ran(w, l)' /\ ~Complete(l)' => w \in arrived'[1]
  PROVE  Ends'
<1>1. \A w \in Warps : pc'[w] = "atEnd" =>
         (EndsTogether(LaunchOf(w)) /\ Ran(w, LaunchOf(w)) /\ (w \in arrived[1] <=> ~Complete(LaunchOf(w))))'
  <2> TAKE w \in Warps
  <2> HAVE pc'[w] = "atEnd"
  <2> DEFINE k == LaunchOf(w)
  <2>1. EndsTogether(k)' /\ Ran(w, k)' /\ (w \in arrived'[1] <=> ~Complete(k)')
    OBVIOUS
  <2>2. LaunchOf(w)' = LaunchOf(w)
    OBVIOUS
  <2>3. QED
    BY <2>1, <2>2 DEF EndsTogether, Ran, Complete
<1>2. Launches' = Launches
  BY SameProgram
<1>3. QED
  BY <1>1, <1>2 DEF Ends

LEMMA FreshKept ==
  ASSUME TypeOK, Fresh, program' = program, done' = done,
         \A w \in Warps : launch'[w[1]] = 1 =>
           /\ launch[w[1]] = 1
           /\ pc[Manager(w[1])] \in BeforeSpawn =>
                pc'[Manager(w[1])] \in BeforeSpawn \/ (w \in LaunchWarps(1) => pc'[w] \in ToDo)
           /\ pc[w] \in ToDo => pc'[w] \in ToDo
  PROVE  Fresh'
<1>1. Program' = Program /\ LaunchWarps(1)' = LaunchWarps(1) /\ \A w : Ran(w, 1)' <=> Ran(w, 1)
  BY SameProgram DEF Ran
<1>2. LaunchWarps(1) \subseteq Warps
  BY DEF LaunchWarps
<1>3. QED
  BY <1>1, <1>2 DEF Fresh

LEMMA ManagedKept ==
  ASSUME Managed, done' = done,
         \A w \in Managers :
           pc'[w] \in After => pc[w] \in After /\ launch'[w[1]] = launch[w[1]]
  PROVE  Managed'
<1>1. \A w, l : Ran(w, l)' <=> Ran(w, l)
  BY DEF Ran
<1>2. \A w \in Managers : pc'[w] \in After => Ran(w, launch'[w[1]])
  BY DEF Managed
<1>3. QED
  BY <1>1, <1>2 DEF Managed, Ran

LEMMA SpawnedKept ==
  ASSUME TypeOK, Spawned, program' = program, launch' = launch, born' = born,
         \A v \in Warps : /\ pc'[v] \in BeforeSpawn => pc[v] \in BeforeSpawn
                          /\ pc'[v] \in InShare => pc[v] \in InShare
                          /\ pc'[v] # "idle" => pc[v] # "idle"
  PROVE  Spawned'
<1>1. ASSUME NEW v \in Managers, pc'[v] \in InShare
      PROVE  born'[v] = launch'[v[1]]
  BY <1>1 DEF Spawned, Managers
<1>2. ASSUME NEW v \in Workers
      PROVE  /\ born'[v] <= launch'[v[1]]
             /\ pc'[Manager(v[1])] \in BeforeSpawn => born'[v] < launch'[v[1]]
             /\ pc'[v] # "idle" => born'[v] >= 1 /\ v \in LaunchWarps(born[v])
  <2>1. v \in Warps /\ Manager(v[1]) \in Warps
    BY WarpFacts, ManagerFacts DEF Workers
  <2>2. QED
    BY <2>1 DEF Spawned
<1>3. \A v \in Workers : pc'[v] # "idle" => v \in LaunchWarps(born[v])'
  BY <1>2, SameProgram DEF LaunchWarps
<1>4. QED
  BY <1>1, <1>2, <1>3 DEF Spawned

(* A step of one warp that only moves on, within the launch that it is in. *)
Moves(w, stage) ==
  /\ program' = program /\ launch' = launch /\ born' = born /\ done' = done
  /\ arrived'[1] = arrived[1] /\ w \notin arrived[1]
  /\ pc' = [pc EXCEPT ![w] = stage]
  /\ pc[w] # "idle" /\ stage # "atEnd"
  /\ stage \in BeforeSpawn <=> pc[w] \in BeforeSpawn
  /\ stage \in InShare <=> pc[w] \in InShare

LEMMA MoveKeeps ==
  ASSUME Schedule, TypeOK', NEW w \in Warps, NEW stage \in Stages, Moves(w, stage),
         w \in Managers => /\ stage # "idle"
                           /\ stage = "exit" => launch[w[1]] = Len(Program)
                           /\ stage \in Leaving => pc[w] \in After
                           /\ stage \in Leaving /\ EndsTogether(launch[w[1]]) =>
                                Complete(launch[w[1]]),
         w \in Workers => stage \in {"idle", "return"} \cup InShare
  PROVE  Roles' /\ Spawned' /\ Entries' /\ Ends' /\ Earlier' /\ Fresh' /\ Managed'
<1>0. /\ TypeOK /\ Roles /\ Spawned /\ Entries /\ Ends /\ Earlier /\ Fresh
      /\ program' = program /\ launch' = launch /\ born' = born /\ done' = done
      /\ arrived'[1] = arrived[1] /\ w \notin arrived[1]
      /\ Program' = Program /\ Launches' = Launches
      /\ pc' = [pc EXCEPT ![w] = stage] /\ pc \in [Warps -> Stages] /\ pc' \in [Warps -> Stages]
  BY SameProgram DEF Schedule, Moves, TypeOK
<1>1. \A v \in Warps : /\ pc'[v] = IF v = w THEN stage ELSE pc[v]
                       /\ pc'[v] \in BeforeSpawn <=> pc[v] \in BeforeSpawn
                       /\ pc'[v] \in InShare <=> pc[v] \in InShare
                       /\ pc'[v] \in ToDo <=> pc[v] \in ToDo
  BY <1>0 DEF Moves, ToDo
<1>2. \A v : LaunchOf(v)' = LaunchOf(v)
  BY <1>0 DEF LaunchOf
<1>3. \A c \in Cores : Manager(c) \in Managers /\ Manager(c) \in Warps /\ Manager(c)[1] = c
  BY ManagerFacts
<1>4. Roles'
  BY <1>0, <1>1 DEF Roles, Managers, Workers
<1>5. Spawned'
  BY <1>0, <1>1, SpawnedKept DEF Moves
<1>6. Entries'
  BY <1>0, <1>1, <1>2, EntriesKept
<1>7. Ends'
  <2>1. \A v \in Warps : pc'[v] = "atEnd" => pc[v] = "atEnd"
    BY <1>1 DEF Moves
  <2>2. \A v \in arrived[1] : pc'[v] = "atEnd"
    BY <1>0, <1>1 DEF Ends, TypeOK
  <2>3. QED
    BY <1>0, <1>2, <2>1, <2>2, EndsKept
<1>8. Earlier'
  <2>1. \A l : (EndsTogether(l)' <=> EndsTogether(l)) /\ (Complete(l)' <=> Complete(l))
    BY <1>0, SameProgram DEF Complete
  <2>2. ASSUME NEW c \in Cores, pc'[Manager(c)] \in Leaving, EndsTogether(launch[c])
        PROVE  Complete(launch[c])
    <3>1. CASE Manager(c) = w
      BY <1>1, <1>3, <2>2, <3>1
    <3>2. CASE Manager(c) # w
      BY <1>0, <1>1, <1>3, <2>2, <3>2 DEF Earlier, Leaving
    <3>3. QED
      BY <3>1, <3>2
  <2>3. \A c \in Cores : \A l \in 1 .. launch[c] - 1 : EndsTogether(l)' => Complete(l)'
    BY <1>0, <2>1 DEF Earlier
  <2>4. \A c \in Cores : pc'[Manager(c)] \in Leaving /\ EndsTogether(launch[c])' =>
                            Complete(launch[c])'
    <3> TAKE c \in Cores
    <3>1. launch[c]' = launch[c]
      BY <1>0
    <3>2. EndsTogether(launch[c])' <=> EndsTogether(launch[c])
      BY <1>0, SameProgram DEF EndsTogether
    <3>3. Complete(launch[c])' <=> Complete(launch[c])
      BY <1>0, SameProgram DEF Complete, LaunchWarps, OccupancyOf
    <3>4. QED
      BY <2>2, <3>2, <3>3
  <2>5. QED
    BY <1>0, <2>3, <2>4 DEF Earlier, Leaving
<1>9. Fresh'
  <2>1. \A v \in Warps : Manager(v[1]) \in Warps
    BY WarpFacts, <1>3
  <2>2. QED
    BY <1>0, <1>1, <2>1, FreshKept
<1>10. Managed'
  <2>1. \A v \in Managers : pc'[v] \in After => pc[v] \in After
    BY <1>0, <1>1 DEF After, Managers, Moves
  <2>2. QED
    BY <1>0, <2>1, ManagedKept DEF Schedule
<1>11. QED
  BY <1>4, <1>5, <1>6, <1>7, <1>8, <1>9, <1>10

LEMMA StoreKeepsContexts ==
  ASSUME Schedule, TypeOK', NEW c \in Cores, NEW x \in Words, Store(c, x, launch[c]),
         NEW stage, pc' = [pc EXCEPT ![Manager(c)] = stage], launch' = launch, mem' = mem,
         stage \notin Before(x),
         \A y \in Words \ {x} : stage \in Before(y) <=> pc[Manager(c)] \in Before(y)
  PROVE  Contexts'
<1>0. /\ TypeOK /\ Contexts /\ Seen(c) \in Context /\ Manager(c) \in Warps
      /\ pc \in [Warps -> Stages]
      /\ line \in [Cores -> [state : {"invalid", "clean", "dirty"}, val : Context]]
  BY SeenIsContext, ManagerFacts DEF Schedule, TypeOK
<1>1. /\ line'[c].state = "dirty" /\ line'[c].val = [Seen(c) EXCEPT ![x] = launch[c]]
      /\ \A d \in Cores \ {c} : line'[d] = line[d]
  BY <1>0 DEF Store
<1>2. Seen(c)' = [Seen(c) EXCEPT ![x] = launch[c]]
  BY <1>1 DEF Seen
<1>3. \A y \in Words : Seen(c)'[y] = IF y = x THEN launch[c] ELSE Seen(c)[y]
  BY <1>0, <1>2 DEF Context
<1>4. \A y \in Words : Seen(c)'[y] =
        IF pc'[Manager(c)] \in Before(y) THEN launch[c] - 1 ELSE launch[c]
  BY <1>0, <1>3 DEF Contexts
<1>5. ASSUME NEW d \in Cores \ {c}
      PROVE  /\ \A y \in Words : Seen(d)'[y] =
                  IF pc'[Manager(d)] \in Before(y) THEN launch[d] - 1 ELSE launch[d]
             /\ line'[d].state = "clean" => line'[d].val = mem
  <2>1. Seen(d)' = Seen(d)
    BY <1>1 DEF Seen
  <2>2. pc'[Manager(d)] = pc[Manager(d)]
    BY <1>0, ManagerFacts
  <2>3. QED
    BY <1>0, <1>1, <2>1, <2>2 DEF Contexts
<1>6. QED
  BY <1>1, <1>4, <1>5 DEF Contexts, Before

LEMMA ContextsKept ==
  ASSUME Schedule, TypeOK', NEW w \in Warps, NEW stage, pc' = [pc EXCEPT ![w] = stage],
         stage \notin Writing, pc[w] \notin Writing, launch' = launch, mem' = mem,
         line' = line \/ Load(w[1])
  PROVE  Contexts'
<1>0. /\ TypeOK /\ Contexts /\ w[1] \in Cores /\ pc \in [Warps -> Stages]
      /\ line \in [Cores -> [state : {"invalid", "clean", "dirty"}, val : Context]]
      /\ \A c \in Cores : Manager(c) \in Warps
  BY WarpFacts, ManagerFacts DEF Schedule, TypeOK
<1>1. \A x : Before(x) \subseteq Writing
  BY DEF Before, Writing
<1>2. \A c \in Cores : \A x : pc'[Manager(c)] \in Before(x) <=> pc[Manager(c)] \in Before(x)
  BY <1>0, <1>1
<1>3. \A c \in Cores : /\ Seen(c)' = Seen(c)
                       /\ line'[c].state = "clean" => line'[c].val = mem
  BY <1>0 DEF Seen, Load, Contexts
<1>4. \A c \in Cores : \A x \in Words :
        Seen(c)'[x] = IF pc'[Manager(c)] \in Before(x) THEN launch'[c] - 1 ELSE launch'[c]
  BY <1>0, <1>2, <1>3 DEF Contexts
<1>5. QED
  BY <1>3, <1>4 DEF Contexts, Before

LEMMA RegistersKept ==
  ASSUME Schedule, TypeOK', NEW w \in Warps, NEW stage, pc' = [pc EXCEPT ![w] = stage],
         stage \notin InShare, reg' = reg, born' = born, launch' = launch
  PROVE  Registers'
<1>0. TypeOK /\ Registers
  BY DEF Schedule
<1>1. \A v \in Warps : HasRead(v)' \subseteq HasRead(v)
  BY <1>0 DEF HasRead, InShare, Reading, TypeOK
<1>2. QED
  BY <1>0, <1>1 DEF Registers

LEMMA MetKept ==
  ASSUME Schedule, TypeOK', NEW w \in Warps, NEW stage, pc' = [pc EXCEPT ![w] = stage],
         program' = program, stage \notin Writing,
         pc[w] \notin Writing, pc[w] = "rendezvous" => w \notin arrived[0],
         w \in Workers => arrived'[0] = arrived[0]
  PROVE  Met'
<1>0. TypeOK /\ Met /\ Program' = Program /\ Managers \subseteq Warps
  BY SameProgram DEF Schedule, Managers
<1>1. CASE w \in Workers
  BY <1>0, <1>1 DEF Met, Managers, Workers, TypeOK
<1>2. CASE w \in Managers
  <2>1. Len(Program) = 1 => \A v \in Managers : pc[v] \notin Writing
    BY <1>0, <1>2 DEF Met
  <2>2. QED
    BY <1>0, <2>1 DEF Met, TypeOK
<1>3. QED
  BY <1>1, <1>2 DEF Managers, Workers

-----------------------------------------------------------------------------
(* The invariant holds at the start, and every step keeps it               *)

LEMMA ScheduleFromStart == Init => Schedule
<1> SUFFICES ASSUME Init PROVE Schedule
  OBVIOUS
<1> USE DEF Init
<1>0. /\ TypeOK
      /\ \A c \in Cores : Manager(c) \in Warps /\ Manager(c)[1] = c /\ Manager(c)[2] = 0
      /\ \A w \in Managers : w \in Warps /\ w[2] = 0 /\ w[1] \in Cores
      /\ \A w \in Workers : w \in Warps /\ w[2] # 0 /\ w[1] \in Cores
  BY TypesFromStart, ManagerFacts, WarpFacts DEF Managers, Workers
<1>1. Roles
  BY <1>0 DEF Roles
<1>2. Met
  <2>1. {w \in Managers : pc[w] \notin Writing} = {}
    BY <1>0 DEF Writing
  <2>2. QED
    BY <1>0, <2>1 DEF Met, Writing
<1>3. Contexts
  BY <1>0 DEF Contexts, Seen, Unwritten, Before, Writing
<1>4. Spawned
  BY <1>0 DEF Spawned, InShare, Reading
<1>5. Registers
  BY DEF Registers, HasRead
<1>6. Entries
  BY DEF Entries
<1>7. Ends
  BY DEF Ends, Ran
<1>8. Earlier
  BY <1>0 DEF Earlier
<1>9. Fresh
  BY <1>0 DEF Fresh, LaunchWarps, BeforeSpawn, Writing, Warps
<1>10. Managed
  BY <1>0 DEF Managed, After, Leaving
<1>11. QED
  BY <1>0, <1>1, <1>2, <1>3, <1>4, <1>5, <1>6, <1>7, <1>8, <1>9, <1>10 DEF Schedule

LEMMA NotAtEnd ==
  ASSUME Schedule, NEW w \in Warps, pc[w] # "atEnd"
  PROVE  w \notin arrived[1]
BY DEF Schedule, Ends

LEMMA WritesKeepSchedule ==
  ASSUME Schedule, NEW c \in Cores, ManagerStep(c),
         WriteCallback(c) \/ WriteArg(c) \/ WriteOccupancy(c)
  PROVE  Schedule'
<1> DEFINE m == Manager(c)
<1>0. /\ TypeOK /\ TypeOK' /\ program' = program /\ m \in Warps /\ m \in Managers /\ m \notin Workers
      /\ m[1] = c
      /\ Managers \subseteq Warps /\ Program' = Program
  BY ManagersKeepTypes, ManagerFacts, SameProgram DEF Schedule, ManagerStep, Managers
<1>1. PICK stage \in {"arg", "occupancy", "rendezvous"} :
        /\ \/ stage = "arg" /\ pc[m] = "callback" /\ Store(c, "callback", launch[c])
           \/ stage = "occupancy" /\ pc[m] = "arg" /\ Store(c, "arg", launch[c])
           \/ stage = "rendezvous" /\ pc[m] = "occupancy" /\ Store(c, "occupancy", launch[c])
        /\ IF stage = "rendezvous" THEN Arrive(m, 0, NumCores) ELSE arrived' = arrived
        /\ pc' = [pc EXCEPT ![m] = stage]
        /\ launch' = launch /\ mem' = mem /\ reg' = reg /\ born' = born /\ done' = done
  BY DEF WriteCallback, WriteArg, WriteOccupancy, Goto
<1>2. stage \in Stages /\ pc[m] \in Writing /\ stage \in BeforeSpawn /\ stage \notin InShare
  BY <1>1 DEF Stages, Writing, BeforeSpawn, InShare, Reading
<1>3. arrived'[1] = arrived[1]
  BY <1>0, <1>1 DEF Arrive, TypeOK
<1>4. Moves(m, stage)
  BY <1>0, <1>1, <1>2, <1>3, NotAtEnd DEF Moves, BeforeSpawn, InShare, Reading, Writing
<1>5. Roles' /\ Spawned' /\ Entries' /\ Ends' /\ Earlier' /\ Fresh' /\ Managed'
  <2>1. stage # "idle" /\ stage # "exit" /\ stage \notin Leaving
    BY <1>1 DEF Leaving
  <2>2. QED
    BY <1>0, <1>2, <1>4, <2>1, MoveKeeps
<1>6. Contexts'
  <2>1. PICK x \in Words : /\ Store(c, x, launch[c]) /\ stage \notin Before(x)
                           /\ \A y \in Words \ {x} : stage \in Before(y) <=> pc[m] \in Before(y)
    BY <1>1 DEF Words, Before, Writing
  <2>2. QED
    BY <1>0, <1>1, <2>1, StoreKeepsContexts
<1>7. Registers'
  BY <1>0, <1>1, <1>2, RegistersKept
<1>8. Met'
  <2>1. SUFFICES ASSUME Len(Program) = 1
                 PROVE  \/ \A w \in Managers : pc'[w] \notin Writing
                        \/ /\ \A w \in Managers : pc'[w] \in Writing \cup {"rendezvous"}
                           /\ arrived'[0] = {w \in Managers : pc'[w] \notin Writing}
    BY <1>0 DEF Met
  <2>2. /\ \A w \in Managers : pc[w] \in Writing \cup {"rendezvous"}
        /\ arrived[0] = {w \in Managers : pc[w] \notin Writing}
    BY <1>0, <1>2, <2>1 DEF Schedule, Met
  <2>3. \A w \in Managers : pc'[w] = IF w = m THEN stage ELSE pc[w]
    BY <1>0, <1>1 DEF TypeOK
  <2>4. \A w \in Managers : pc'[w] \in Writing \cup {"rendezvous"}
    BY <1>1, <2>2, <2>3 DEF Writing
  <2>5. CASE stage # "rendezvous"
    BY <1>0, <1>1, <1>2, <2>2, <2>3, <2>4, <2>5 DEF Writing
  <2>6. CASE stage = "rendezvous"
    <3> DEFINE all == arrived[0] \cup {m}
    <3>1. all = {w \in Managers : pc'[w] \notin Writing}
      BY <1>0, <2>2, <2>3, <2>6 DEF Writing
    <3>2. arrived'[0] = IF Cardinality(all) = NumCores THEN {} ELSE all
      BY <1>0, <1>1, <2>6 DEF Arrive, TypeOK
    <3>3. CASE Cardinality(all) = NumCores
      BY <3>1, <3>3, AllManagers
    <3>4. CASE Cardinality(all) # NumCores
      BY <2>4, <3>1, <3>2, <3>4
    <3>5. QED
      BY <3>3, <3>4
  <2>7. QED
    BY <2>5, <2>6
<1>9. QED
  BY <1>0, <1>5, <1>6, <1>7, <1>8 DEF Schedule

LEMMA MeetKeepsSchedule ==
  ASSUME Schedule, NEW c \in Cores, ManagerStep(c), Meet(c)
  PROVE  Schedule'
<1> DEFINE m == Manager(c)
<1>0. /\ TypeOK /\ TypeOK' /\ program' = program /\ m \in Warps /\ m \in Managers /\ m \notin Workers
  BY ManagersKeepTypes, ManagerFacts DEF Schedule, ManagerStep
<1>1. /\ pc[m] = "rendezvous" /\ m \notin arrived[0] /\ pc' = [pc EXCEPT ![m] = "spawn"]
      /\ launch' = launch /\ line' = line /\ mem' = mem /\ reg' = reg /\ born' = born
      /\ arrived' = arrived /\ done' = done
  BY DEF Meet, Goto, Passed
<1>2. Moves(m, "spawn")
  BY <1>0, <1>1, NotAtEnd DEF Moves, BeforeSpawn, InShare, Reading, Writing
<1>3. Roles' /\ Spawned' /\ Entries' /\ Ends' /\ Earlier' /\ Fresh' /\ Managed'
  BY <1>0, <1>2, MoveKeeps DEF Stages, Leaving
<1>4. Contexts' /\ Registers' /\ Met'
  <2>1. "spawn" \notin Writing /\ pc[m] \notin Writing /\ "spawn" \notin InShare
    BY <1>1 DEF Writing, InShare, Reading
  <2>2. QED
    BY <1>0, <1>1, <2>1, ContextsKept, RegistersKept, MetKept
<1>5. QED
  BY <1>0, <1>3, <1>4 DEF Schedule

LEMMA EndOfLaunchKeepsSchedule ==
  ASSUME Schedule, NEW c \in Cores, ManagerStep(c), Return(c) \/ Finish(c)
  PROVE  Schedule'
<1> DEFINE m == Manager(c)
<1>0. /\ TypeOK /\ TypeOK' /\ program' = program /\ m \in Warps /\ m \in Managers /\ m \notin Workers
      /\ m[1] = c
  BY ManagersKeepTypes, ManagerFacts DEF Schedule, ManagerStep
<1>1. PICK stage \in {"main", "exit"} :
        /\ pc[m] \in {"return", "main"} /\ pc' = [pc EXCEPT ![m] = stage]
        /\ stage = "exit" => launch[c] = Len(Program)
        /\ launch' = launch /\ line' = line /\ mem' = mem /\ reg' = reg /\ born' = born
        /\ arrived' = arrived \/ Arrive(m, 0, NumCores)
        /\ done' = done
  BY DEF Return, Finish, Goto
<1>2. arrived'[1] = arrived[1]
  BY <1>0, <1>1 DEF Arrive, TypeOK
<1>3. Moves(m, stage)
  BY <1>0, <1>1, <1>2, NotAtEnd DEF Moves, BeforeSpawn, InShare, Reading, Writing
<1>4. EndsTogether(launch[c]) => Complete(launch[c])
  BY <1>1 DEF Schedule, Earlier
<1>5. stage \in Stages /\ stage # "idle"
  BY <1>1 DEF Stages
<1>6. Roles' /\ Spawned' /\ Entries' /\ Ends' /\ Earlier' /\ Fresh' /\ Managed'
  <2>1. pc[m] \in After
    BY <1>1 DEF After, Leaving
  <2>2. QED
    BY <1>0, <1>1, <1>3, <1>4, <1>5, <2>1, MoveKeeps
<1>7. Contexts' /\ Registers' /\ Met'
  <2>1. stage \notin Writing /\ pc[m] \notin Writing /\ stage \notin InShare /\ pc[m] # "rendezvous"
    BY <1>1 DEF Writing, InShare, Reading
  <2>2. QED
    BY <1>0, <1>1, <2>1, ContextsKept, RegistersKept, MetKept
<1>8. QED
  BY <1>0, <1>6, <1>7 DEF Schedule

LEMMA ReadsKeepSchedule ==
  ASSUME Schedule, NEW w \in Warps, WarpStep(w),
         ReadOccupancy(w) \/ ReadCallback(w) \/ ReadArg(w)
  PROVE  Schedule'
<1>0. /\ TypeOK /\ TypeOK' /\ program' = program /\ w[1] \in Cores
      /\ reg \in [Warps -> Context] /\ pc \in [Warps -> Stages]
  BY WarpsKeepTypes, WarpFacts DEF Schedule, WarpStep, TypeOK
<1>1. PICK x \in Words, stage \in {"readCallback", "readArg", "body"} :
        /\ \/ pc[w] = "readOccupancy" /\ x = "occupancy" /\ stage = "readCallback"
           \/ pc[w] = "readCallback" /\ x = "callback" /\ stage = "readArg"
           \/ pc[w] = "readArg" /\ x = "arg" /\ stage = "body"
        /\ Load(w[1])
        /\ reg' = [reg EXCEPT ![w][x] = Seen(w[1])[x]]
        /\ pc' = [pc EXCEPT ![w] = stage]
        /\ launch' = launch /\ mem' = mem /\ born' = born /\ arrived' = arrived /\ done' = done
  BY DEF ReadOccupancy, ReadCallback, ReadArg, Read, Goto, Words
<1>2. stage \in Stages /\ stage \in InShare /\ pc[w] \in InShare
  BY <1>1 DEF Stages, InShare, Reading
<1>3. Moves(w, stage)
  BY <1>0, <1>1, <1>2, NotAtEnd DEF Moves, BeforeSpawn, InShare, Reading, Writing
<1>4. Roles' /\ Spawned' /\ Entries' /\ Ends' /\ Earlier' /\ Fresh' /\ Managed'
  BY <1>0, <1>1, <1>2, <1>3, MoveKeeps DEF Leaving
<1>5. Contexts' /\ Met'
  <2>1. stage \notin Writing /\ pc[w] \notin Writing /\ pc[w] # "rendezvous"
    BY <1>1 DEF Writing
  <2>2. QED
    BY <1>0, <1>1, <2>1, ContextsKept, MetKept
<1>6. Registers'
  <2>1. Seen(w[1])[x] = IF pc[Manager(w[1])] \in Before(x) THEN launch[w[1]] - 1 ELSE launch[w[1]]
    BY <1>0 DEF Schedule, Contexts
  <2>2. launch[w[1]] \in Nat /\ born[w] \in Nat
    BY <1>0, ProgramFacts DEF TypeOK, Launches
  <2>3. born[w] <= Seen(w[1])[x] /\ Seen(w[1])[x] <= launch[w[1]]
    <3>1. CASE w \in Managers
      <4>1. pc[Manager(w[1])] \notin Before(x) /\ born[w] = launch[w[1]]
        BY <1>1, <1>2, <3>1, WarpFacts DEF Schedule, Spawned, Before, Writing
      <4>2. QED
        BY <2>1, <2>2, <4>1
    <3>2. CASE w \in Workers
      <4>1. /\ born[w] <= launch[w[1]]
            /\ pc[Manager(w[1])] \in BeforeSpawn => born[w] < launch[w[1]]
        BY <3>2 DEF Schedule, Spawned
      <4>2. pc[Manager(w[1])] \in Before(x) => pc[Manager(w[1])] \in BeforeSpawn
        BY DEF Before, BeforeSpawn, Writing
      <4>3. QED
        BY <2>1, <2>2, <4>1, <4>2
    <3>3. QED
      BY <3>1, <3>2 DEF Managers, Workers
  <2>4. reg'[w][x] = Seen(w[1])[x] /\ \A y \in Words \ {x} : reg'[w][y] = reg[w][y]
    BY <1>0, <1>1 DEF Context
  <2>5. HasRead(w)' \subseteq HasRead(w) \cup {x}
    BY <1>0, <1>1 DEF HasRead, Words
  <2>6. ASSUME NEW y \in HasRead(w)'
        PROVE  born[w] <= reg'[w][y] /\ reg'[w][y] <= launch[w[1]]
    <3>1. y \in Words
      BY <2>6 DEF HasRead, Words
    <3>2. QED
      BY <2>3, <2>4, <2>5, <2>6, <3>1 DEF Schedule, Registers
  <2>7. ASSUME NEW v \in Warps \ {w}
        PROVE  HasRead(v)' = HasRead(v) /\ reg'[v] = reg[v]
    BY <1>0, <1>1 DEF HasRead
  <2>8. QED
    BY <1>1, <2>6, <2>7 DEF Schedule, Registers
<1>7. QED
  BY <1>0, <1>4, <1>5, <1>6 DEF Schedule

LEMMA LeavesKeepSchedule ==
  ASSUME Schedule, NEW w \in Warps, WarpStep(w), LeaveBody(w) \/ Retire(w)
  PROVE  Schedule'
<1>0. /\ TypeOK /\ TypeOK' /\ program' = program /\ w[1] \in Cores
  BY WarpsKeepTypes, WarpFacts DEF Schedule, WarpStep
<1>1. PICK stage \in {"return", "idle"} :
        /\ \/ stage = "return" /\ pc[w] = "atEnd" /\ w \notin arrived[1]
           \/ stage = "idle" /\ pc[w] = "return" /\ w \in Workers
        /\ pc' = [pc EXCEPT ![w] = stage]
        /\ launch' = launch /\ line' = line /\ mem' = mem /\ reg' = reg /\ born' = born
        /\ arrived' = arrived /\ done' = done
  BY DEF LeaveBody, Retire, Goto, Passed, Workers
<1>2. Moves(w, stage)
  BY <1>0, <1>1, NotAtEnd DEF Moves, BeforeSpawn, InShare, Reading, Writing
<1>3. w \in Managers => stage = "return" /\ Complete(launch[w[1]])
  <2>1. SUFFICES ASSUME w \in Managers PROVE stage = "return" /\ Complete(launch[w[1]])
    OBVIOUS
  <2>2. stage = "return" /\ pc[w] = "atEnd" /\ w \notin arrived[1]
    BY <1>1, <2>1 DEF Managers, Workers
  <2>3. Complete(LaunchOf(w))
    BY <2>2 DEF Schedule, Ends
  <2>4. LaunchOf(w) = launch[w[1]]
    BY <2>1 DEF LaunchOf, Managers
  <2>5. QED
    BY <2>2, <2>3, <2>4
<1>4. stage \in Stages
  BY <1>1 DEF Stages
<1>5. Roles' /\ Spawned' /\ Entries' /\ Ends' /\ Earlier' /\ Fresh' /\ Managed'
  <2>1. w \in Managers => pc[w] \in After /\ stage # "idle" /\ stage # "exit"
    BY <1>1, <1>3 DEF After
  <2>2. w \in Workers => stage \in {"idle", "return"}
    BY <1>1
  <2>3. QED
    BY <1>0, <1>2, <1>3, <1>4, <2>1, <2>2, MoveKeeps
<1>6. Contexts' /\ Registers' /\ Met'
  <2>1. stage \notin Writing /\ pc[w] \notin Writing /\ stage \notin InShare /\ pc[w] # "rendezvous"
    BY <1>1 DEF Writing, InShare, Reading
  <2>2. QED
    BY <1>0, <1>1, <2>1, ContextsKept, RegistersKept, MetKept
<1>7. QED
  BY <1>0, <1>5, <1>6 DEF Schedule

LEMMA NextLaunchKeepsSchedule ==
  ASSUME Schedule, NEW c \in Cores, ManagerStep(c), NextLaunch(c)
  PROVE  Schedule'
<1> DEFINE m == Manager(c)
<1>0. /\ TypeOK /\ TypeOK' /\ program' = program /\ Program' = Program
      /\ m \in Warps /\ m \in Managers /\ m \notin Workers /\ m[1] = c /\ m[2] = 0
      /\ \A w \in Managers : w \in Warps /\ w[1] \in Cores /\ (w[1] = c => w = m)
      /\ \A w \in Workers : w \in Warps /\ w[1] \in Cores /\ w # m
      /\ \A w \in Warps : w[1] \in Cores /\ (w[2] = 0 <=> w \in Managers)
  BY ManagersKeepTypes, ManagerFacts, WarpFacts, SameProgram
     DEF Schedule, ManagerStep, Managers, Workers
<1>1. /\ pc[m] = "main" /\ launch[c] < Len(Program) /\ launch' = [launch EXCEPT ![c] = @ + 1]
      /\ pc' = [pc EXCEPT ![m] = "callback"]
      /\ line' = line /\ mem' = mem /\ reg' = reg /\ born' = born /\ arrived' = arrived
      /\ done' = done
  BY DEF NextLaunch, Goto
<1>2. /\ Len(Program) \in Nat /\ launch[c] \in 1 .. Len(Program) /\ Len(Program) # 1
      /\ \A d \in Cores : launch[d] \in Nat
      /\ \A w \in Warps : born[w] \in Nat
  BY <1>0, <1>1, ProgramFacts DEF TypeOK, Launches
<1>3. /\ launch'[c] = launch[c] + 1
      /\ \A d \in Cores \ {c} : launch'[d] = launch[d]
      /\ pc'[m] = "callback"
      /\ \A w \in Warps \ {m} : pc'[w] = pc[w]
  BY <1>0, <1>1 DEF TypeOK
<1>4. Roles' /\ Met'
  BY <1>0, <1>1, <1>2, <1>3 DEF Schedule, Roles, Met
<1>5. Contexts'
  <2>1. \A d \in Cores : Seen(d)' = Seen(d)
    BY <1>1 DEF Seen
  <2>2. \A d \in Cores \ {c} : pc'[Manager(d)] = pc[Manager(d)]
    BY <1>0, <1>3, ManagerFacts
  <2>3. \A x \in Words : pc[m] \notin Before(x) /\ pc'[m] \in Before(x)
    BY <1>1, <1>3 DEF Before, Writing
  <2>4. ASSUME NEW d \in Cores, NEW x \in Words
        PROVE  Seen(d)'[x] = IF pc'[Manager(d)] \in Before(x) THEN launch'[d] - 1 ELSE launch'[d]
    <3>1. Seen(d)[x] = IF pc[Manager(d)] \in Before(x) THEN launch[d] - 1 ELSE launch[d]
      BY DEF Schedule, Contexts
    <3>2. CASE d = c
      BY <1>2, <1>3, <2>1, <2>3, <3>1, <3>2
    <3>3. CASE d # c
      BY <1>3, <2>1, <2>2, <3>1, <3>3
    <3>4. QED
      BY <3>2, <3>3
  <2>5. QED
    BY <1>1, <2>4 DEF Schedule, Contexts, Before
<1>6. Spawned'
  <2>1. \A w \in Managers : pc'[w] \in InShare => born'[w] = launch'[w[1]]
    BY <1>0, <1>1, <1>3 DEF Schedule, Spawned, InShare, Reading
  <2>2. ASSUME NEW w \in Workers
        PROVE  /\ born'[w] <= launch'[w[1]]
               /\ pc'[Manager(w[1])] \in BeforeSpawn => born'[w] < launch'[w[1]]
               /\ pc'[w] # "idle" => born'[w] >= 1 /\ w \in LaunchWarps(born[w])
    <3>1. /\ born[w] <= launch[w[1]]
          /\ pc[Manager(w[1])] \in BeforeSpawn => born[w] < launch[w[1]]
          /\ pc[w] # "idle" => born[w] >= 1 /\ w \in LaunchWarps(born[w])
      BY DEF Schedule, Spawned
    <3>2. pc'[w] = pc[w] /\ born'[w] = born[w] /\ born[w] \in Nat /\ w[1] \in Cores
      BY <1>0, <1>1, <1>2, <1>3
    <3>3. CASE w[1] = c
      BY <1>2, <1>3, <3>1, <3>2, <3>3
    <3>4. CASE w[1] # c
      BY <1>0, <1>3, <3>1, <3>2, <3>4, ManagerFacts
    <3>5. QED
      BY <3>3, <3>4
  <2>3. \A w \in Workers : pc'[w] # "idle" => w \in LaunchWarps(born[w])'
    BY <2>2, <1>0, <1>1, SameProgram DEF LaunchWarps
  <2>4. QED
    BY <1>1, <2>1, <2>2, <2>3 DEF Spawned
<1>7. Registers'
  <2>1. \A w \in Warps : HasRead(w)' \subseteq HasRead(w)
    BY <1>0, <1>3 DEF HasRead
  <2>2. \A w \in Warps : launch[w[1]] <= launch'[w[1]] /\ launch'[w[1]] \in Nat
    BY <1>0, <1>2, <1>3
  <2>3. ASSUME NEW w \in Warps, NEW x \in HasRead(w)'
        PROVE  born'[w] <= reg'[w][x] /\ reg'[w][x] <= launch'[w[1]]
    <3>1. x \in HasRead(w) /\ x \in Words
      BY <2>1, <2>3 DEF HasRead, Words
    <3>2. reg[w][x] \in Nat
      BY <1>0, <3>1 DEF TypeOK, Context
    <3>3. born[w] <= reg[w][x] /\ reg[w][x] <= launch[w[1]]
      BY <3>1 DEF Schedule, Registers
    <3>4. QED
      BY <1>0, <1>1, <1>2, <2>2, <3>2, <3>3
  <2>4. QED
    BY <2>3 DEF Registers
<1>8. \A w \in Warps : /\ w = m => LaunchOf(w)' > LaunchOf(w)
                       /\ w # m => LaunchOf(w)' = LaunchOf(w) /\ pc'[w] = pc[w]
  <2>1. ASSUME NEW w \in Warps, w = m PROVE LaunchOf(w)' > LaunchOf(w)
    BY <1>0, <1>2, <1>3, <2>1 DEF LaunchOf
  <2>2. ASSUME NEW w \in Warps, w # m PROVE LaunchOf(w)' = LaunchOf(w)
    BY <1>0, <1>1, <1>3, <2>2 DEF LaunchOf
  <2>3. QED
    BY <1>3, <2>1, <2>2
<1>9. Entries'
  BY <1>0, <1>1, <1>8, EntriesKept DEF Schedule
<1>10. Ends'
  <2>1. \A w \in Warps : pc'[w] = "atEnd" => pc[w] = "atEnd" /\ LaunchOf(w)' = LaunchOf(w)
    BY <1>3, <1>8
  <2>2. \A w \in arrived[1] : pc'[w] = "atEnd"
    BY <1>0, <1>1, <1>3 DEF Schedule, Ends, TypeOK
  <2>3. QED
    BY <1>0, <1>1, <2>1, <2>2, EndsKept DEF Schedule
<1>11. Earlier'
  <2>1. \A l : (EndsTogether(l)' <=> EndsTogether(l)) /\ (Complete(l)' <=> Complete(l))
    BY <1>0, <1>1, SameProgram DEF Complete
  <2>2. EndsTogether(launch[c]) => Complete(launch[c])
    BY <1>1 DEF Schedule, Earlier
  <2>3. ASSUME NEW d \in Cores, NEW l \in 1 .. launch'[d] - 1, EndsTogether(l)
        PROVE  Complete(l)
    <3>1. l \in 1 .. launch[d] - 1 \/ (d = c /\ l = launch[c])
      BY <1>2, <1>3
    <3>2. QED
      BY <2>2, <2>3, <3>1 DEF Schedule, Earlier
  <2>4. ASSUME NEW d \in Cores, pc'[Manager(d)] \in Leaving, EndsTogether(launch[d])
        PROVE  d # c /\ launch'[d] = launch[d] /\ Complete(launch[d])
    <3>1. d # c
      BY <1>3, <2>4 DEF Leaving
    <3>2. pc'[Manager(d)] = pc[Manager(d)] /\ launch'[d] = launch[d]
      BY <1>0, <1>3, <3>1, ManagerFacts
    <3>3. QED
      BY <2>4, <3>1, <3>2 DEF Schedule, Earlier, Leaving
  <2>5. \A d \in Cores : pc'[Manager(d)] \in Leaving /\ EndsTogether(launch[d])' =>
                            Complete(launch[d])'
    <3> SUFFICES ASSUME NEW d \in Cores, pc'[Manager(d)] \in Leaving, EndsTogether(launch[d])'
                 PROVE  Complete(launch[d])'
      OBVIOUS
    <3>1. launch'[d] = launch[d]
      BY <1>3 DEF Leaving
    <3>2. EndsTogether(launch[d])
      BY <1>0, <3>1, SameProgram DEF EndsTogether
    <3>3. Complete(launch[d])
      BY <2>4, <3>2
    <3>4. QED
      BY <1>0, <1>1, <3>1, <3>3, SameProgram DEF Complete, LaunchWarps, OccupancyOf
  <2>6. QED
    BY <2>1, <2>3, <2>5 DEF Earlier, Leaving
<1>12. Fresh'
  <2>1. \A w \in Warps : launch'[w[1]] = 1 => w[1] # c /\ launch[w[1]] = 1
    BY <1>0, <1>2, <1>3
  <2>2. \A w \in Warps : w[1] # c => Manager(w[1]) # m /\ w # m /\ Manager(w[1]) \in Warps
    BY <1>0, ManagerFacts
  <2>3. QED
    BY <1>0, <1>1, <1>3, <2>1, <2>2, FreshKept DEF Schedule
<1>13. Managed'
  <2>1. \A w \in Managers :
          pc'[w] \in After => pc[w] \in After /\ launch'[w[1]] = launch[w[1]]
    BY <1>0, <1>3 DEF After, Leaving
  <2>2. QED
    BY <1>1, <2>1, ManagedKept DEF Schedule
<1>14. QED
  BY <1>0, <1>4, <1>5, <1>6, <1>7, <1>9, <1>10, <1>11, <1>12, <1>13 DEF Schedule

LEMMA SpawnKeepsSchedule ==
  ASSUME Schedule, NEW c \in Cores, ManagerStep(c), Spawn(c)
  PROVE  Schedule'
<1> DEFINE m == Manager(c)
           named == {w \in LaunchWarps(launch[c]) : w[1] = c}
           busy == {w \in named : w[2] # 0 /\ pc[w] # "idle"}
<1>0. /\ TypeOK /\ TypeOK' /\ program' = program /\ Program' = Program
      /\ m \in Warps /\ m \in Managers /\ m \notin Workers /\ m[1] = c /\ m[2] = 0
      /\ \A w \in Managers : w \in Warps /\ w[1] \in Cores /\ (w[1] = c => w = m)
      /\ \A w \in Workers : w \in Warps /\ w[1] \in Cores /\ w[2] # 0
      /\ \A w \in Warps : w \in Managers \/ w \in Workers
  BY ManagersKeepTypes, ManagerFacts, WarpFacts, SameProgram
     DEF Schedule, ManagerStep, Managers, Workers
<1>1. /\ pc[m] = "spawn"
      /\ launch' = launch /\ line' = line /\ mem' = mem /\ reg' = reg /\ arrived' = arrived
      /\ done' = done
  BY DEF Spawn
<1>2. PICK kept \in SUBSET busy :
        /\ pc' = [w \in Warps |-> IF w \in named \ kept THEN "readOccupancy" ELSE pc[w]]
        /\ born' = [w \in Warps |-> IF w \in named \ kept THEN launch[c] ELSE born[w]]
  BY DEF Spawn
<1> DEFINE started == named \ kept
<1>3. \A w \in Warps : /\ pc'[w] = IF w \in started THEN "readOccupancy" ELSE pc[w]
                       /\ born'[w] = IF w \in started THEN launch[c] ELSE born[w]
  BY <1>2
<1>4. /\ launch[c] \in Launches /\ launch[c] \in Nat \ {0} /\ Len(Program) \in Nat
      /\ \A w \in Warps : born[w] \in Nat
  BY <1>0, ProgramFacts DEF TypeOK, Launches
<1>5. /\ m \in started
      /\ \A w \in started : w \in Warps /\ w[1] = c /\ w \in LaunchWarps(launch[c])
      /\ \A w \in Managers : w # m => w \notin started
  <2>1. m \in named
    BY <1>0, <1>4, ManagersTakePart
  <2>2. m \notin kept
    BY <1>0
  <2>3. QED
    BY <1>0, <2>1, <2>2 DEF LaunchWarps
<1> HIDE DEF m, named, busy, started
<1>6. \A w \in started : w \in Workers => born[w] < launch[c]
  BY <1>1, <1>5 DEF Schedule, Spawned, BeforeSpawn, m
<1>7. \A d \in Cores \ {c} : Manager(d) \in Warps /\ pc'[Manager(d)] = pc[Manager(d)]
  BY <1>0, <1>3, <1>5, ManagerFacts DEF m
<1>8. pc'[m] = "readOccupancy" /\ born'[m] = launch[c]
  BY <1>0, <1>3, <1>5
<1>9. Roles'
  <2>1. \A w \in Managers : pc'[w] # "idle" /\ (pc'[w] = "exit" => launch'[w[1]] = Len(Program))
    BY <1>0, <1>1, <1>3, <1>5 DEF Schedule, Roles
  <2>2. \A w \in Workers : pc'[w] \in {"idle", "atEnd", "return"} \cup InShare
    BY <1>0, <1>3 DEF Schedule, Roles, InShare, Reading
  <2>3. QED
    BY <1>0, <2>1, <2>2 DEF Roles
<1>10. Met'
  <2>1. Len(Program) = 1 => \A w \in Managers : pc[w] \notin Writing
    BY <1>0, <1>1 DEF Schedule, Met, Writing
  <2>2. Len(Program) = 1 => \A w \in Managers : pc'[w] \notin Writing
    BY <1>0, <1>3, <2>1 DEF Writing
  <2>3. QED
    BY <1>0, <2>2 DEF Met
<1>11. Contexts'
  <2>1. \A d \in Cores : Seen(d)' = Seen(d)
    BY <1>1 DEF Seen
  <2>2. \A x \in Words : pc[m] \notin Before(x) /\ pc'[m] \notin Before(x)
    BY <1>1, <1>8 DEF Before, Writing
  <2>3. \A d \in Cores : \A x \in Words : pc'[Manager(d)] \in Before(x) <=> pc[Manager(d)] \in Before(x)
    BY <1>7, <2>2 DEF m
  <2>4. \A d \in Cores : \A x \in Words :
          Seen(d)'[x] = IF pc'[Manager(d)] \in Before(x) THEN launch'[d] - 1 ELSE launch'[d]
    BY <1>1, <2>1, <2>3 DEF Schedule, Contexts
  <2>5. QED
    BY <1>1, <2>4 DEF Schedule, Contexts, Before
<1>12. Spawned'
  <2>1. \A w \in Managers : pc'[w] \in InShare => born'[w] = launch'[w[1]]
    BY <1>0, <1>1, <1>3, <1>5 DEF Schedule, Spawned
  <2>2. ASSUME NEW w \in Workers
        PROVE  /\ born'[w] <= launch'[w[1]]
               /\ pc'[Manager(w[1])] \in BeforeSpawn => born'[w] < launch'[w[1]]
               /\ pc'[w] # "idle" => born'[w] >= 1 /\ w \in LaunchWarps(born'[w])
    <3>1. /\ born[w] <= launch[w[1]]
          /\ pc[Manager(w[1])] \in BeforeSpawn => born[w] < launch[w[1]]
          /\ pc[w] # "idle" => born[w] >= 1 /\ w \in LaunchWarps(born[w])
      BY DEF Schedule, Spawned
    <3>2. "readOccupancy" \notin BeforeSpawn
      BY DEF BeforeSpawn, Writing
    <3>3. CASE w \in started
      BY <1>0, <1>1, <1>3, <1>4, <1>5, <1>8, <3>2, <3>3 DEF m
    <3>4. CASE w \notin started /\ w[1] = c
      BY <1>0, <1>1, <1>3, <1>8, <3>1, <3>2, <3>4 DEF m
    <3>5. CASE w \notin started /\ w[1] # c
      BY <1>0, <1>1, <1>3, <1>7, <3>1, <3>5
    <3>6. QED
      BY <3>3, <3>4, <3>5
  <2>3. \A w \in Workers : pc'[w] # "idle" => w \in LaunchWarps(born[w])'
    BY <2>2, <1>0, SameProgram DEF LaunchWarps, OccupancyOf
  <2>4. QED
    BY <2>1, <2>2, <2>3 DEF Spawned
<1>13. Registers'
  <2>1. \A w \in started : HasRead(w)' = {}
    BY <1>3, <1>5 DEF HasRead
  <2>2. \A w \in Warps \ started : HasRead(w)' = HasRead(w) /\ born'[w] = born[w]
    BY <1>3 DEF HasRead
  <2>3. QED
    BY <1>1, <2>1, <2>2 DEF Schedule, Registers
<1>14. \A w \in Warps :
         /\ w \in started /\ w \in Workers => LaunchOf(w)' > LaunchOf(w)
         /\ w \notin started \/ w = m => LaunchOf(w)' = LaunchOf(w)
  <2>1. ASSUME NEW w \in started, w \in Workers PROVE LaunchOf(w)' > LaunchOf(w)
    BY <1>0, <1>3, <1>4, <1>6, <2>1 DEF LaunchOf
  <2>2. ASSUME NEW w \in Warps, w \notin started \/ w = m PROVE LaunchOf(w)' = LaunchOf(w)
    BY <1>0, <1>1, <1>3, <2>2 DEF LaunchOf
  <2>3. QED
    BY <2>1, <2>2
<1>15. Entries'
  <2>1. \A w \in Warps : \/ LaunchOf(w)' = LaunchOf(w) /\ (pc'[w] \in ToDo => pc[w] \in ToDo)
                         \/ LaunchOf(w)' > LaunchOf(w)
    <3> TAKE w \in Warps
    <3>1. CASE w \in started /\ w \in Workers
      BY <1>14, <3>1
    <3>2. CASE w = m
      BY <1>1, <1>14, <3>2 DEF ToDo, BeforeSpawn
    <3>3. CASE w \notin started
      BY <1>3, <1>14, <3>3
    <3>4. QED
      BY <1>0, <1>5, <3>1, <3>2, <3>3
  <2>2. QED
    BY <1>0, <1>1, <2>1, EntriesKept DEF Schedule
<1>16. Ends'
  <2>1. \A w \in Warps : pc'[w] = "atEnd" => pc[w] = "atEnd" /\ LaunchOf(w)' = LaunchOf(w)
    BY <1>3, <1>14
  <2>2. ASSUME NEW w \in arrived[1] PROVE pc'[w] = "atEnd"
    <3>1. w \in Warps /\ pc[w] = "atEnd"
      BY <1>0 DEF Schedule, Ends, TypeOK
    <3>2. SUFFICES ASSUME w \in started PROVE FALSE
      BY <1>3, <3>1
    <3>3. w \in Workers /\ w[1] = c
      BY <1>0, <1>1, <1>5, <3>1, <3>2
    <3>4. LaunchOf(w) = born[w] /\ born[w] \in 1 .. launch[c] - 1
      <4>1. LaunchOf(w) = born[w] /\ born[w] >= 1
        BY <3>1, <3>3 DEF LaunchOf, Workers, Schedule, Spawned
      <4>2. born[w] < launch[c]
        BY <1>6, <3>2, <3>3
      <4>3. QED
        BY <1>4, <3>1, <4>1, <4>2
    <3>5. EndsTogether(born[w]) /\ ~Complete(born[w])
      BY <3>1, <3>4 DEF Schedule, Ends
    <3>6. QED
      BY <3>4, <3>5 DEF Schedule, Earlier
  <2>3. QED
    BY <1>0, <1>1, <2>1, <2>2, EndsKept DEF Schedule
<1>17. Earlier'
  <2>1. \A l : (EndsTogether(l)' <=> EndsTogether(l)) /\ (Complete(l)' <=> Complete(l))
    BY <1>0, <1>1, SameProgram DEF Complete
  <2>2. \A d \in Cores : pc'[Manager(d)] \in Leaving => pc[Manager(d)] \in Leaving
    BY <1>7, <1>8 DEF Leaving, m
  <2>3. \A d \in Cores : /\ EndsTogether(launch[d])' <=> EndsTogether(launch[d])
                         /\ Complete(launch[d])' <=> Complete(launch[d])
    BY <1>0, <1>1, SameProgram DEF EndsTogether, Complete, LaunchWarps, OccupancyOf
  <2>4. QED
    BY <1>1, <2>1, <2>2, <2>3 DEF Schedule, Earlier, Leaving
<1>18. Fresh'
  <2>1. ASSUME NEW w \in Warps, launch[w[1]] = 1
        PROVE  /\ pc[Manager(w[1])] \in BeforeSpawn =>
                    pc'[Manager(w[1])] \in BeforeSpawn \/ (w \in LaunchWarps(1) => pc'[w] \in ToDo)
               /\ pc[w] \in ToDo => pc'[w] \in ToDo
    <3>1. w[1] \in Cores /\ "readOccupancy" \in ToDo
      BY WarpFacts DEF ToDo, InShare, Reading
    <3>2. pc[w] \in ToDo => pc'[w] \in ToDo
      BY <1>3, <3>1
    <3>3. CASE w[1] # c
      BY <1>7, <3>1, <3>2, <3>3
    <3>4. CASE w[1] = c
      <4>1. w \notin busy
        <5>1. SUFFICES ASSUME w \in Workers, pc[w] # "idle" PROVE FALSE
          BY <1>0 DEF busy, Workers
        <5>2. born[w] >= 1 /\ born[w] < launch[c]
          BY <1>1, <3>4, <5>1 DEF Schedule, Spawned, BeforeSpawn, m
        <5>3. QED
          BY <1>4, <2>1, <3>4, <5>2
      <4>2. w \in LaunchWarps(1) => w \in started
        BY <2>1, <3>4, <4>1 DEF started, named
      <4>3. QED
        BY <1>3, <3>1, <3>2, <4>2
    <3>5. QED
      BY <3>3, <3>4
  <2>2. QED
    BY <1>0, <1>1, <2>1, FreshKept DEF Schedule
<1>19. Managed'
  <2>1. \A w \in Managers : pc'[w] \in After => pc[w] \in After
    BY <1>0, <1>3 DEF After, Leaving
  <2>2. QED
    BY <1>1, <2>1, ManagedKept DEF Schedule
<1>20. QED
  BY <1>0, <1>9, <1>10, <1>11, <1>12, <1>13, <1>15, <1>16, <1>17, <1>18, <1>19 DEF Schedule

LEMMA EvictKeepsSchedule ==
  ASSUME Disciplined, Schedule, NEW w \in Warps, Evict(w)
  PROVE  Schedule'
<1>0. /\ TypeOK /\ TypeOK' /\ Program' = Program /\ program' = program
      /\ launch' = launch /\ pc' = pc /\ reg' = reg /\ born' = born /\ arrived' = arrived
      /\ done' = done /\ w[1] \in Cores
      /\ line \in [Cores -> [state : {"invalid", "clean", "dirty"}, val : Context]]
      /\ mem \in Context /\ mem' \in Context
  BY EvictionKeepsTypes, SameProgram, WarpFacts DEF Schedule, Evict, TypeOK
<1>1. Len(Program) = 1 /\ \A c \in Cores : launch[c] = 1
  <2>1. Len(Program) = 1
    BY <1>0, Discipline DEF Evict
  <2>2. launch \in [Cores -> 1 .. 1]
    BY <1>0, <2>1 DEF TypeOK, Launches
  <2>3. QED
    BY <2>1, <2>2
(* Since all managers have met, every copy is that of launch 1.            *)
<1>2. \A v \in Managers : pc[v] \notin Writing
  <2>1. Manager(w[1]) \in Managers
    BY <1>0, ManagerFacts
  <2>2. pc[Manager(w[1])] \notin Writing \cup {"rendezvous"}
    <3>1. CASE w \in Managers
      BY <3>1, WarpFacts DEF Evict, Writing
    <3>2. CASE w \in Workers
      BY <1>0, <1>1, <3>2 DEF Evict, Schedule, Roles, InShare, Reading, Spawned, BeforeSpawn, TypeOK, Launches
    <3>3. QED
      BY <3>1, <3>2 DEF Managers, Workers
  <2>3. QED
    BY <1>1, <2>1, <2>2 DEF Schedule, Met
<1>3. \A c \in Cores : \A x \in Words : pc[Manager(c)] \notin Before(x)
  BY <1>2, ManagerFacts DEF Before, Writing
<1>4. \A c \in Cores : Seen(c) \in Context /\ \A x \in Words : Seen(c)[x] = 1
  BY <1>0, <1>1, <1>3, SeenIsContext DEF Schedule, Contexts
<1>5. \A c \in Cores : line[c].state # "invalid" => line[c].val = [x \in Words |-> 1]
  BY <1>4 DEF Seen, Context
<1>6. \A c \in Cores : line[c].state = "clean" => line[c].val = mem
  BY DEF Schedule, Contexts
<1>7. mem' = [x \in Words |-> 1]
  BY <1>0, <1>5, <1>6 DEF Evict
<1>8. /\ line'[w[1]].state = "invalid"
      /\ \A c \in Cores : c # w[1] => line'[c] = line[c]
  BY <1>0 DEF Evict
<1>9. \A c \in Cores : Seen(c)' = [x \in Words |-> 1]
  BY <1>0, <1>5, <1>7, <1>8 DEF Seen
<1>10. Contexts'
  <2>1. \A c \in Cores : line'[c].state = "clean" => line'[c].val = mem'
    BY <1>5, <1>7, <1>8
  <2>2. \A c \in Cores : \A x \in Words :
          Seen(c)'[x] = IF pc'[Manager(c)] \in Before(x) THEN launch'[c] - 1 ELSE launch'[c]
    BY <1>0, <1>1, <1>3, <1>9
  <2>3. QED
    BY <2>1, <2>2 DEF Contexts, Before
<1>11. Roles' /\ Met' /\ Spawned' /\ Registers'
  <2>1. Roles' /\ Met'
    BY <1>0 DEF Schedule, Roles, Met
  <2>2. Spawned'
    BY <1>0, SpawnedKept DEF Schedule
  <2>3. Registers'
    BY <1>0 DEF Schedule, Registers, HasRead
  <2>4. QED
    BY <2>1, <2>2, <2>3
<1>12. \A v : LaunchOf(v)' = LaunchOf(v)
  BY <1>0 DEF LaunchOf
<1>13. Entries' /\ Ends' /\ Fresh' /\ Managed'
  <2>1. \A v \in arrived[1] : pc'[v] = "atEnd"
    BY <1>0 DEF Schedule, Ends
  <2>2. QED
    BY <1>0, <1>12, <2>1, EntriesKept, EndsKept, FreshKept, ManagedKept DEF Schedule
<1>14. Earlier'
  <2>1. \A l : (EndsTogether(l)' <=> EndsTogether(l)) /\ (Complete(l)' <=> Complete(l))
    BY <1>0, SameProgram DEF Complete
  <2>2. \A d \in Cores : /\ EndsTogether(launch[d])' <=> EndsTogether(launch[d])
                         /\ Complete(launch[d])' <=> Complete(launch[d])
    BY <1>0, SameProgram DEF EndsTogether, Complete, LaunchWarps, OccupancyOf
  <2>3. QED
    BY <1>0, <2>1, <2>2 DEF Schedule, Earlier
<1>15. QED
  BY <1>0, <1>10, <1>11, <1>13, <1>14 DEF Schedule

(* What a body adds to the record of its launch.                           *)
LEMMA BodyRecords ==
  ASSUME Schedule, NEW w \in Warps, WarpStep(w), Body(w), NEW l \in Launches, l = reg[w].callback
  PROVE  /\ \A k \in Launches : \A x : Ran(x, k)' <=> Ran(x, k) \/ (k = l /\ x = w)
         /\ \A k \in Launches : Complete(k) => Complete(k)'
         /\ \A k \in Launches \ {l} : done'[k] = done[k] /\ (Complete(k)' <=> Complete(k))
         /\ done'[l] = done[l] \cup {<<w, OccupancyOf(reg[w].occupancy)>>}
<1>1. /\ program' = program
      /\ done \in [Launches -> SUBSET (Warps \X (0 .. WarpsPerCore))]
      /\ done' = [done EXCEPT ![l] = @ \cup {<<w, OccupancyOf(reg[w].occupancy)>>}]
  BY DEF Schedule, TypeOK, WarpStep, Body
<1>2. /\ done'[l] = done[l] \cup {<<w, OccupancyOf(reg[w].occupancy)>>}
      /\ \A k \in Launches \ {l} : done'[k] = done[k]
  BY <1>1
<1>3. \A k \in Launches : \A x : Ran(x, k)' <=> Ran(x, k) \/ (k = l /\ x = w)
  <2> TAKE k \in Launches
  <2> TAKE x
  <2>1. CASE k # l
    BY <1>2, <2>1 DEF Ran
  <2>2. CASE k = l
    <3>1. <<w, OccupancyOf(reg[w].occupancy)>>[1] = w
      OBVIOUS
    <3>2. (\E u \in done'[l] : u[1] = x) <=> (\E u \in done[l] : u[1] = x) \/ x = w
      BY <1>2, <3>1, Zenon
    <3>3. QED
      BY <2>2, <3>2 DEF Ran
  <2>3. QED
    BY <2>1, <2>2
<1>4. \A k : LaunchWarps(k)' = LaunchWarps(k)
  BY <1>1, SameProgram
<1>5. QED
  BY <1>2, <1>3, <1>4 DEF Complete, Ran

LEMMA CompleteIsRan ==
  ASSUME NEW k
  PROVE  Complete(k) <=> \A x \in LaunchWarps(k) : Ran(x, k)
BY DEF Complete, Ran

(* At the barrier that ends launch l wait the warps that have run its body.*)
LEMMA BodyAtBarrier ==
  ASSUME Disciplined, Schedule, NEW w \in Warps, WarpStep(w), Body(w),
         NEW l \in Launches, l = reg[w].callback, EndsTogether(l)
  PROVE  /\ launch[w[1]] = l /\ LaunchOf(w) = l
         /\ ~Complete(l)
         /\ \A k, x : x \in arrived[1] /\ k = LaunchOf(x) => k = l
         /\ arrived[1] \cup {w} = {x \in Warps : Ran(x, l) \/ x = w}
         /\ arrived'[1] = IF Complete(l)' THEN {} ELSE arrived[1] \cup {w}
<1>0. /\ TypeOK /\ program' = program /\ pc[w] = "body" /\ w[1] \in Cores
      /\ Orderly(l) /\ l \in Nat
      /\ \A x \in arrived[1] : x \in Warps /\ pc[x] = "atEnd"
      /\ \A k : LaunchWarps(k)' = LaunchWarps(k)
      /\ Program' = Program
      /\ \A c \in Cores : launch[c] \in Nat
  <2>1. TypeOK /\ Ends /\ program' = program /\ pc[w] = "body" /\ w[1] \in Cores
    BY WarpFacts DEF Schedule, WarpStep, Body
  <2>2. Orderly(l) /\ l \in Nat
    BY Discipline, ProgramFacts, <2>1 DEF Launches
  <2>3. \A x \in arrived[1] : x \in Warps /\ pc[x] = "atEnd"
    BY <2>1 DEF Ends, TypeOK
  <2>4. (\A k : LaunchWarps(k)' = LaunchWarps(k)) /\ Program' = Program
    BY <2>1, SameProgram
  <2>5. \A c \in Cores : launch[c] \in Nat
    <3>1. launch \in [Cores -> Launches]
      BY <2>1 DEF TypeOK
    <3>2. Launches \subseteq Nat
      BY DEF Launches
    <3>3. QED
      BY <3>1, <3>2
  <2>6. QED
    BY <2>1, <2>2, <2>3, <2>4, <2>5
<1>1. /\ launch[w[1]] = l /\ LaunchOf(w) = l /\ w \in LaunchWarps(l)
      /\ OccupancyOf(reg[w].occupancy) = OccupancyOf(l)
  BY <1>0, BodyIsOwn
<1>2. \A u \in done[l] : u[1] \in LaunchWarps(l) /\ u[1] # w
  BY <1>0, <1>1 DEF Schedule, Entries, ToDo, InShare
<1>3. ~Complete(l)
  BY <1>1, <1>2 DEF Complete
<1>4. ASSUME NEW x \in arrived[1], NEW k, k = LaunchOf(x)
      PROVE  k = l
  <2>1. x \in Warps /\ pc[x] = "atEnd" /\ x[1] \in Cores
    BY <1>0, WarpFacts
  <2>2. k \in Launches /\ k <= launch[x[1]] /\ k \in Nat
    BY <1>4, <2>1, OwnFacts DEF Launches
  <2>3. EndsTogether(k) /\ ~Complete(k)
    BY <1>4, <2>1 DEF Schedule, Ends
  <2>4. ~(k < l)
    <3>1. k < l => k \in 1 .. launch[w[1]] - 1
      BY <1>0, <1>1, <2>2 DEF Launches
    <3>2. QED
      BY <1>0, <2>3, <3>1 DEF Schedule, Earlier
  <2>5. ~(l < k)
    <3>1. l < k => l \in 1 .. launch[x[1]] - 1
      BY <1>0, <2>1, <2>2 DEF Launches
    <3>2. QED
      BY <1>3, <2>1, <3>1 DEF Schedule, Earlier
  <2>6. QED
    BY <1>0, <2>2, <2>4, <2>5
<1>5. \A x \in arrived[1] : Ran(x, l)
  <2> TAKE x \in arrived[1]
  <2>1. LaunchOf(x) = l
    BY <1>4
  <2>2. Ran(x, LaunchOf(x))
    BY <1>0 DEF Schedule, Ends
  <2>3. QED
    BY <2>1, <2>2
<1>6. \A x \in Warps : Ran(x, l) => x \in arrived[1]
  BY <1>3 DEF Schedule, Ends
<1>7. arrived[1] \cup {w} = {x \in Warps : Ran(x, l) \/ x = w}
  BY <1>0, <1>5, <1>6
<1>8. arrived'[1] = IF Cardinality(arrived[1] \cup {w}) = NumCores * OccupancyOf(l)
                    THEN {} ELSE arrived[1] \cup {w}
  BY <1>0, <1>1 DEF Body, EndsTogether, Arrive, EndBarrierWarps, TypeOK
<1>9. arrived[1] \cup {w} \subseteq LaunchWarps(l)
  BY <1>1, <1>2, <1>7 DEF Ran
<1>10. Complete(l)' <=> arrived[1] \cup {w} = LaunchWarps(l)
  <2>1. \A x : Ran(x, l)' <=> Ran(x, l) \/ x = w
    BY BodyRecords
  <2>2. Complete(l)' <=> \A x \in LaunchWarps(l) : Ran(x, l)'
    BY <1>0 DEF Complete, Ran
  <2>3. LaunchWarps(l) \subseteq Warps
    BY DEF LaunchWarps
  <2>4. QED
    BY <1>7, <1>9, <2>1, <2>2, <2>3
<1>11. QED
  <2>1. Cardinality(arrived[1] \cup {w}) = NumCores * OccupancyOf(l) <=>
          arrived[1] \cup {w} = LaunchWarps(l)
    BY <1>0, <1>9, AllLaunchWarps
  <2>2. QED
    BY <1>1, <1>3, <1>4, <1>7, <1>8, <1>10, <2>1

LEMMA BodyKeepsSchedule ==
  ASSUME Disciplined, Schedule, NEW w \in Warps, WarpStep(w), Body(w)
  PROVE  Schedule'
<1>a. PICK l \in Launches : l = reg[w].callback
  BY DEF Body
<1>0. /\ TypeOK /\ TypeOK' /\ program' = program /\ Program' = Program /\ Launches' = Launches
      /\ w[1] \in Cores /\ Managers \subseteq Warps /\ Workers \subseteq Warps
      /\ pc \in [Warps -> Stages]
      /\ \A k : (EndsTogether(k)' <=> EndsTogether(k)) /\ (Orderly(k)' <=> Orderly(k))
      /\ \A k : LaunchWarps(k)' = LaunchWarps(k) /\ OccupancyOf(k)' = OccupancyOf(k)
  BY WarpsKeepTypes, WarpFacts, SameProgram
     DEF Schedule, WarpStep, Body, Managers, Workers, TypeOK
<1>1. PICK stage \in {"atEnd", "return"} :
        /\ pc[w] = "body" /\ pc' = [pc EXCEPT ![w] = stage]
        /\ stage = "atEnd" <=> EndsTogether(l)
        /\ stage = "return" => arrived' = arrived
        /\ arrived'[0] = arrived[0]
        /\ launch' = launch /\ line' = line /\ mem' = mem /\ reg' = reg /\ born' = born
  BY <1>a, <1>0 DEF Body, Goto, EndsTogether, Arrive, TypeOK
<1>2. /\ \A k \in Launches : \A x : Ran(x, k)' <=> Ran(x, k) \/ (k = l /\ x = w)
      /\ \A k \in Launches : Complete(k) => Complete(k)'
      /\ \A k \in Launches \ {l} : done'[k] = done[k] /\ (Complete(k)' <=> Complete(k))
      /\ done'[l] = done[l] \cup {<<w, OccupancyOf(reg[w].occupancy)>>}
  BY <1>a, BodyRecords
<1>3. Orderly(l) =>
        /\ launch[w[1]] = l /\ born[w] = l /\ LaunchOf(w) = l /\ w \in LaunchWarps(l)
        /\ OccupancyOf(reg[w].occupancy) = OccupancyOf(l)
  BY <1>a, <1>1, BodyIsOwn
<1>4. EndsTogether(l) =>
         /\ launch[w[1]] = l /\ LaunchOf(w) = l
         /\ ~Complete(l)
         /\ \A k, x : x \in arrived[1] /\ k = LaunchOf(x) => k = l
         /\ arrived[1] \cup {w} = {x \in Warps : Ran(x, l) \/ x = w}
         /\ arrived'[1] = IF Complete(l)' THEN {} ELSE arrived[1] \cup {w}
  BY <1>a, BodyAtBarrier
<1>5. \A v \in Warps : pc'[v] = IF v = w THEN stage ELSE pc[v]
  BY <1>0, <1>1
<1>6. stage \notin ToDo /\ stage \notin Writing /\ stage \notin InShare /\ stage # "idle" /\ stage # "exit"
  BY <1>1 DEF ToDo, BeforeSpawn, InShare, Reading, Writing
<1>7. \A v : LaunchOf(v)' = LaunchOf(v)
  BY <1>1 DEF LaunchOf
<1>8. Roles'
  BY <1>0, <1>1, <1>5 DEF Schedule, Roles, Managers, Workers
<1>9. Spawned'
  <2>1. \A v \in Warps : /\ pc'[v] \in BeforeSpawn => pc[v] \in BeforeSpawn
                         /\ pc'[v] \in InShare => pc[v] \in InShare
                         /\ pc'[v] # "idle" => pc[v] # "idle"
    BY <1>1, <1>5, <1>6 DEF ToDo
  <2>2. QED
    BY <1>0, <1>1, <2>1, SpawnedKept DEF Schedule
<1>10. Contexts' /\ Registers' /\ Met'
  <2>1. pc[w] \notin Writing /\ pc[w] # "rendezvous"
    BY <1>1 DEF Writing
  <2>2. QED
    BY <1>0, <1>1, <1>6, <2>1, ContextsKept, RegistersKept, MetKept
<1>11. Entries'
  <2>1. SUFFICES ASSUME NEW k \in Launches, Orderly(k), NEW u \in done'[k]
                 PROVE  /\ u[1] \in LaunchWarps(k) /\ u[2] = OccupancyOf(k)
                        /\ k < LaunchOf(u[1])' \/ (k = LaunchOf(u[1])' /\ pc'[u[1]] \notin ToDo)
    BY <1>0 DEF Entries
  <2>2. CASE u \in done[k]
    <3>1. /\ u[1] \in LaunchWarps(k) /\ u[2] = OccupancyOf(k)
          /\ k < LaunchOf(u[1]) \/ (k = LaunchOf(u[1]) /\ pc[u[1]] \notin ToDo)
      BY <2>1, <2>2 DEF Schedule, Entries
    <3>2. u[1] \in Warps
      BY <3>1 DEF LaunchWarps
    <3>3. pc[w] \in ToDo
      BY <1>1 DEF ToDo, InShare
    <3>4. QED
      BY <1>5, <1>6, <1>7, <3>1, <3>2, <3>3
  <2>3. CASE u \notin done[k]
    <3>1. k = l /\ u = <<w, OccupancyOf(reg[w].occupancy)>>
      BY <1>2, <2>1, <2>3
    <3>2. QED
      BY <1>3, <1>5, <1>6, <1>7, <2>1, <3>1
  <2>4. QED
    BY <2>2, <2>3
<1>12. Ends'
  <2>1. CASE ~EndsTogether(l)
    <3>1. stage = "return" /\ arrived' = arrived /\ w \notin arrived[1]
      BY <1>1, <2>1, NotAtEnd
    <3>2. \A k \in Launches : EndsTogether(k) =>
             (Complete(k)' <=> Complete(k)) /\ \A x : Ran(x, k)' <=> Ran(x, k)
      BY <1>2, <2>1
    <3>3. \A x \in arrived'[1] : pc'[x] = "atEnd"
      BY <1>0, <1>5, <3>1 DEF Schedule, Ends, TypeOK
    <3>4. ASSUME NEW x \in Warps, pc'[x] = "atEnd", NEW k, k = LaunchOf(x)
          PROVE  EndsTogether(k)' /\ Ran(x, k)' /\ (x \in arrived'[1] <=> ~Complete(k)')
      <4>1. pc[x] = "atEnd"
        BY <1>5, <3>1, <3>4
      <4>2. EndsTogether(k) /\ Ran(x, k) /\ (x \in arrived[1] <=> ~Complete(k))
        BY <3>4, <4>1 DEF Schedule, Ends
      <4>3. QED
        BY <1>0, <3>1, <3>2, <4>2 DEF EndsTogether
    <3>5. \A x \in Warps, k \in Launches : EndsTogether(k)' /\ Ran(x, k)' /\ ~Complete(k)' =>
             x \in arrived'[1]
      BY <1>0, <3>1, <3>2 DEF Schedule, Ends
    <3>6. QED
      BY <1>0, <1>1, <1>7, <3>3, <3>4, <3>5, EndsFrom
  <2>2. CASE EndsTogether(l)
    <3>1. stage = "atEnd" /\ arrived'[1] \subseteq arrived[1] \cup {w}
      BY <1>1, <1>4, <2>2
    <3>2. \A x \in arrived'[1] : pc'[x] = "atEnd"
      BY <1>0, <1>5, <3>1 DEF Schedule, Ends, TypeOK
    <3>3. ASSUME NEW x \in Warps, pc'[x] = "atEnd", NEW k, k = LaunchOf(x)
          PROVE  EndsTogether(k)' /\ Ran(x, k)' /\ (x \in arrived'[1] <=> ~Complete(k)')
      <4>1. CASE x = w
        BY <1>0, <1>2, <1>4, <2>2, <3>3, <4>1
      <4>2. CASE x # w
        <5>1. pc[x] = "atEnd"
          BY <1>5, <3>3, <4>2
        <5>2. EndsTogether(k) /\ Ran(x, k) /\ (x \in arrived[1] <=> ~Complete(k)) /\ k \in Launches
          BY <3>3, <5>1 DEF Schedule, Ends, EndsTogether
        <5>3. CASE k = l
          BY <1>0, <1>2, <1>4, <2>2, <5>2, <5>3
        <5>4. CASE k # l
          <6>1. x \notin arrived[1] /\ x \notin arrived'[1]
            BY <1>4, <2>2, <3>1, <3>3, <4>2, <5>4
          <6>2. QED
            BY <1>0, <1>2, <5>2, <5>4, <6>1
        <5>5. QED
          BY <5>3, <5>4
      <4>3. QED
        BY <4>1, <4>2
    <3>4. ASSUME NEW x \in Warps, NEW k \in Launches, EndsTogether(k)', Ran(x, k)', ~Complete(k)'
          PROVE  x \in arrived'[1]
      <4>1. CASE k = l
        BY <1>2, <1>4, <2>2, <3>4, <4>1
      <4>2. CASE k # l
        <5>1. EndsTogether(k) /\ Ran(x, k) /\ ~Complete(k)
          BY <1>0, <1>2, <3>4, <4>2
        <5>2. x \in arrived[1]
          BY <5>1 DEF Schedule, Ends
        <5>3. LaunchOf(x) = l
          BY <1>4, <2>2, <5>2
        <5>4. Orderly(k)
          BY <1>0, <5>1, Discipline
        <5>5. PICK u \in done[k] : u[1] = x
          BY <5>1 DEF Ran
        <5>6. k < LaunchOf(x) \/ k = LaunchOf(x)
          BY <5>4, <5>5 DEF Schedule, Entries
        <5>7. k \in 1 .. launch[w[1]] - 1
          BY <1>0, <1>4, <2>2, <4>2, <5>3, <5>6, ProgramFacts DEF Launches
        <5>8. QED
          BY <1>0, <5>1, <5>7 DEF Schedule, Earlier
      <4>3. QED
        BY <4>1, <4>2
    <3>5. QED
      BY <1>0, <1>7, <3>2, <3>3, <3>4, EndsFrom
  <2>3. QED
    BY <2>1, <2>2
<1>A. w \in Managers => l = launch[w[1]]
  <2>1. SUFFICES ASSUME w \in Managers PROVE l = launch[w[1]]
    OBVIOUS
  <2>2. born[w] = launch[w[1]] /\ born[w] <= l /\ l <= launch[w[1]]
    BY <1>a, <1>0, <1>1, <2>1 DEF Schedule, Spawned, Registers, HasRead, Words, InShare
  <2>3. launch[w[1]] \in Nat /\ l \in Nat
    BY <1>0, ProgramFacts DEF TypeOK, Launches
  <2>4. QED
    BY <2>2, <2>3
<1>13. Earlier'
  <2>1. \A c \in Cores : launch[c] \in Launches /\ \A k \in 1 .. launch[c] - 1 : k \in Launches
    BY <1>0, ProgramFacts DEF TypeOK, Launches
  <2>2. \A c \in Cores : \A k \in 1 .. launch[c] - 1 : EndsTogether(k)' => Complete(k)'
    BY <1>0, <1>2, <2>1 DEF Schedule, Earlier
  <2>3. ASSUME NEW c \in Cores, NEW k, k = launch[c], pc'[Manager(c)] \in Leaving, EndsTogether(k)
        PROVE  Complete(k)'
    <3>1. Manager(c) \in Warps /\ Manager(c) \in Managers /\ Manager(c)[1] = c
      BY ManagerFacts
    <3>2. Manager(c) # w
      <4>1. SUFFICES ASSUME Manager(c) = w PROVE FALSE
        OBVIOUS
      <4>2. stage = "return"
        BY <1>1, <1>5, <2>3, <3>1, <4>1 DEF Leaving
      <4>3. l = k
        BY <1>A, <2>3, <3>1, <4>1
      <4>4. QED
        BY <1>1, <2>3, <4>2, <4>3
    <3>3. pc[Manager(c)] \in Leaving
      BY <1>5, <2>3, <3>1, <3>2
    <3>4. Complete(k) /\ k \in Launches
      BY <2>1, <2>3, <3>3 DEF Schedule, Earlier, Leaving
    <3>5. QED
      BY <1>2, <3>4
  <2>4. \A c \in Cores : pc'[Manager(c)] \in Leaving /\ EndsTogether(launch[c])' =>
                            Complete(launch[c])'
    <3> SUFFICES ASSUME NEW c \in Cores, pc'[Manager(c)] \in Leaving, EndsTogether(launch[c])'
                 PROVE  Complete(launch[c])'
      OBVIOUS
    <3>0. PICK k : k = launch[c]
      OBVIOUS
    <3>1. launch'[c] = k
      BY <1>1, <3>0
    <3>2. EndsTogether(k)
      BY <1>0, <3>1 DEF EndsTogether
    <3>3. Complete(k)'
      BY <2>3, <3>0, <3>2
    <3>4. QED
      BY <1>1, <3>1, <3>3 DEF Complete
  <2>5. QED
    BY <1>1, <2>2, <2>4 DEF Earlier, Leaving
<1>14. Fresh'
  <2>1. SUFFICES ASSUME NEW v \in LaunchWarps(1), launch[v[1]] = 1
                 PROVE  pc'[Manager(v[1])] \in BeforeSpawn \/ pc'[v] \in ToDo \/ Ran(v, 1)'
    BY <1>0, <1>1 DEF Fresh
  <2>2. /\ v \in Warps /\ v[1] \in Cores /\ Manager(v[1]) \in Warps /\ 1 \in Launches
        /\ v = w => l = 1
    <3>1. v \in Warps /\ v[1] \in Cores /\ Manager(v[1]) \in Warps
      BY WarpFacts, ManagerFacts DEF LaunchWarps
    <3>2. l \in Nat \ {0} /\ l <= launch[w[1]]
      BY <1>a, <1>0, <1>1, ProgramFacts DEF Schedule, Registers, HasRead, Words, Launches
    <3>3. 1 \in Launches
      BY <1>0, ProgramFacts DEF Launches
    <3>4. QED
      BY <2>1, <3>1, <3>2, <3>3
  <2>3. pc[Manager(v[1])] \in BeforeSpawn \/ pc[v] \in ToDo \/ Ran(v, 1)
    BY <2>1 DEF Schedule, Fresh
  <2>4. pc[w] \notin BeforeSpawn
    BY <1>1 DEF BeforeSpawn, Writing
  <2>5. QED
    BY <1>2, <1>5, <2>2, <2>3, <2>4
<1>15. Managed'
  <2>1. ASSUME NEW v \in Managers, pc'[v] \in After
        PROVE  Ran(v, launch[v[1]])'
    <3>1. v \in Warps /\ v[1] \in Cores /\ launch'[v[1]] = launch[v[1]] /\ launch[v[1]] \in Launches
      BY <1>0, <1>1, <2>1, WarpFacts DEF TypeOK, Managers
    <3>2. PICK k \in Launches : k = launch[v[1]]
      BY <3>1
    <3>3. Ran(v, k)'
      <4>1. CASE v = w
        BY <1>2, <1>A, <2>1, <3>2, <4>1
      <4>2. CASE v # w
        <5>1. Ran(v, launch[v[1]])
          BY <1>5, <2>1, <3>1, <4>2 DEF Schedule, Managed
        <5>2. QED
          BY <1>2, <3>2, <5>1
      <4>3. QED
        BY <4>1, <4>2
    <3>4. QED
      BY <3>1, <3>2, <3>3 DEF Ran
  <2>2. QED
    BY <2>1 DEF Managed
<1>16. QED
  BY <1>0, <1>8, <1>9, <1>10, <1>11, <1>12, <1>13, <1>14, <1>15 DEF Schedule

LEMMA StutterKeepsSchedule ==
  ASSUME Schedule, UNCHANGED vars
  PROVE  Schedule'
<1>0. /\ TypeOK /\ TypeOK' /\ program' = program /\ Program' = Program
      /\ launch' = launch /\ pc' = pc /\ line' = line /\ mem' = mem /\ reg' = reg /\ born' = born
      /\ arrived' = arrived /\ done' = done
  BY StepsKeepTypes, SameProgram DEF Schedule, vars
<1>1. Roles' /\ Met' /\ Registers'
  BY <1>0 DEF Schedule, Roles, Met, Registers, HasRead
<1>2. Contexts'
  <2>1. \A c \in Cores : Seen(c)' = Seen(c)
    BY <1>0 DEF Seen
  <2>2. QED
    BY <1>0, <2>1 DEF Schedule, Contexts, Before
<1>3. \A w : LaunchOf(w)' = LaunchOf(w)
  BY <1>0 DEF LaunchOf
<1>4. Spawned' /\ Entries' /\ Ends' /\ Fresh' /\ Managed'
  <2>1. \A w \in arrived[1] : pc'[w] = "atEnd"
    BY <1>0 DEF Schedule, Ends
  <2>2. QED
    BY <1>0, <1>3, <2>1, SpawnedKept, EntriesKept, EndsKept, FreshKept, ManagedKept DEF Schedule
<1>5. Earlier'
  <2>1. \A l : (EndsTogether(l)' <=> EndsTogether(l)) /\ (Complete(l)' <=> Complete(l))
    BY <1>0, SameProgram DEF Complete
  <2>2. \A d \in Cores : /\ EndsTogether(launch[d])' <=> EndsTogether(launch[d])
                         /\ Complete(launch[d])' <=> Complete(launch[d])
    BY <1>0, SameProgram DEF EndsTogether, Complete, LaunchWarps, OccupancyOf
  <2>3. QED
    BY <1>0, <2>1, <2>2 DEF Schedule, Earlier
<1>6. QED
  BY <1>0, <1>1, <1>2, <1>4, <1>5 DEF Schedule

LEMMA StepKeepsSchedule ==
  ASSUME Disciplined, Schedule, [Next]_vars
  PROVE  Schedule'
<1>1. ASSUME NEW c \in Cores, ManagerStep(c) PROVE Schedule'
  BY <1>1, WritesKeepSchedule, MeetKeepsSchedule, SpawnKeepsSchedule, EndOfLaunchKeepsSchedule,
     NextLaunchKeepsSchedule DEF ManagerStep
<1>2. ASSUME NEW w \in Warps, WarpStep(w) PROVE Schedule'
  BY <1>2, ReadsKeepSchedule, BodyKeepsSchedule, LeavesKeepSchedule DEF WarpStep
<1>3. ASSUME NEW w \in Warps, Evict(w) PROVE Schedule'
  BY <1>3, EvictKeepsSchedule
<1>4. CASE UNCHANGED vars
  BY <1>4, StutterKeepsSchedule
<1>5. QED
  BY <1>1, <1>2, <1>3, <1>4 DEF Next, Ended

LEMMA ScheduleAlways == Disciplined => (Spec => []Schedule)
<1> SUFFICES ASSUME Disciplined PROVE Spec => []Schedule
  OBVIOUS
<1>1. Schedule /\ [Next]_vars => Schedule'
  BY StepKeepsSchedule
<1>2. QED
  BY <1>1, ScheduleFromStart, PTL DEF Spec

-----------------------------------------------------------------------------
(* The theorems                                                            *)

(* A warp enters a body with the callback, the argument and the occupancy  *)
(* of the launch that started it, although each core reads a copy of its   *)
(* own that nothing keeps coherent (mu_schedule.cpp:101-111).              *)
THEOREM ContextIsRight == Disciplined => (Spec => []ContextIsMine)
<1> SUFFICES ASSUME Disciplined PROVE Spec => []ContextIsMine
  OBVIOUS
<1>1. Schedule => ContextIsMine
  BY ScheduleImplies
<1>2. QED
  BY <1>1, ScheduleAlways, PTL

(* No warp enters the body of a launch before all warps of each earlier    *)
(* launch that ends in a barrier have done theirs.                         *)
THEOREM PhasesInOrder == Disciplined => (Spec => []PhaseOrder)
<1> SUFFICES ASSUME Disciplined PROVE Spec => []PhaseOrder
  OBVIOUS
<1>1. Schedule => PhaseOrder
  BY ScheduleImplies
<1>2. QED
  BY <1>1, ScheduleAlways, PTL

-----------------------------------------------------------------------------
(* The division of the elements among the warps                            *)

LEMMA RankNames ==
  ASSUME NEW u \in Warps, NEW v \in Warps, Rank(u) = Rank(v)
  PROVE  u = v
<1>1. /\ u = <<u[1], u[2]>> /\ v = <<v[1], v[2]>>
      /\ u[1] \in 0 .. NumCores - 1 /\ v[1] \in 0 .. NumCores - 1
      /\ u[2] \in Nat /\ v[2] \in Nat
      /\ NumCores \in Nat \ {0}
  BY Sizes, WarpFacts DEF Cores
<1>2. u[2] * NumCores + u[1] = v[2] * NumCores + v[1]
  BY DEF Rank
<1>3. ASSUME NEW a \in Nat, NEW b \in Nat, NEW i \in 0 .. NumCores - 1, NEW j \in 0 .. NumCores - 1,
             a * NumCores + i = b * NumCores + j
      PROVE  ~(a < b)
  <2>1. SUFFICES ASSUME a < b PROVE FALSE
    OBVIOUS
  <2>2. PICK n \in Nat : b = a + 1 + n
    <3>1. b - a - 1 \in Nat /\ b = a + 1 + (b - a - 1)
      BY <2>1
    <3>2. QED
      BY <3>1
  <2>3. b * NumCores = a * NumCores + NumCores + n * NumCores
    BY <1>1, <2>2
  <2>4. a * NumCores \in Nat /\ n * NumCores \in Nat
    BY <1>1
  <2>5. QED
    BY <1>1, <1>3, <2>3, <2>4
<1>4. u[2] = v[2]
  BY <1>1, <1>2, <1>3
<1>5. QED
  BY <1>1, <1>2, <1>4

LEMMA RanksCover ==
  ASSUME NEW i \in Nat, NEW o \in 1 .. WarpsPerCore
  PROVE  \E w \in Warps : w[2] < o /\ i % (NumCores * o) = Rank(w)
<1> DEFINE total == NumCores * o
           r == i % total
           w == <<r % NumCores, r \div NumCores>>
<1>1. NumCores \in Nat \ {0} /\ o \in Nat \ {0} /\ total \in Nat \ {0}
  BY Sizes
<1>2. r \in 0 .. total - 1
  BY <1>1
<1> HIDE DEF r
<1>3. /\ r % NumCores \in 0 .. NumCores - 1 /\ r \div NumCores \in Nat
      /\ r = NumCores * (r \div NumCores) + (r % NumCores)
  BY <1>1, <1>2
<1>4. r \div NumCores < o
  <2> DEFINE d == r \div NumCores
  <2>1. SUFFICES ASSUME d >= o PROVE FALSE
    BY <1>1, <1>3
  <2>2. PICK n \in Nat : d = o + n
    <3>1. d - o \in Nat /\ d = o + (d - o)
      BY <1>1, <1>3, <2>1
    <3>2. QED
      BY <3>1
  <2>3. NumCores * d = NumCores * o + NumCores * n /\ NumCores * n \in Nat
    BY <1>1, <2>2
  <2>4. QED
    BY <1>1, <1>2, <1>3, <2>3
<1>5. w \in Warps /\ w[2] < o
  BY <1>3, <1>4, Sizes DEF Warps, Cores
<1>6. r = Rank(w)
  BY <1>1, <1>3 DEF Rank
<1>7. QED
  BY <1>5, <1>6 DEF r

(* In no program does a launch of workers without a final barrier close a  *)
(* series of launches that have one: vx_wspawn() may pass over a worker    *)
(* that has not retired from the launch before, and nothing would wait for *)
(* its share.  A launch of managers alone, as the kernels verify their     *)
(* results, does no harm.                                                  *)
NoLateSpawn ==
  \A p \in Programs :
    LET n == Len(p.launches)
    IN  (\A l \in 1 .. n - 1 : p.launches[l].endsInBarrier) =>
          n = 1 \/ p.launches[n].endsInBarrier \/ p.launches[n].occupancy = 1

LEMMA QuietIsComplete ==
  ASSUME NoLateSpawn, Schedule, Quiet, NEW l \in Launches, Orderly(l)
  PROVE  Complete(l)
<1>0. /\ TypeOK /\ program \in Programs /\ Len(Program) \in Nat \ {0} /\ l \in 1 .. Len(Program)
      /\ 0 \in Cores
  BY ProgramFacts, Sizes DEF Schedule, Launches, Cores
<1>1. \A w \in Managers : pc[w] = "exit" /\ launch[w[1]] = Len(Program)
  BY DEF Schedule, Roles, Quiet, Managers
<1>2. Manager(0) \in Managers /\ pc[Manager(0)] = "exit" /\ launch[0] = Len(Program)
  BY <1>0, <1>1, ManagerFacts
<1>3. CASE EndsTogether(l)
  <2>1. CASE l = Len(Program)
    BY <1>0, <1>2, <1>3, <2>1 DEF Schedule, Earlier
  <2>2. CASE l # Len(Program)
    <3>1. l \in 1 .. launch[0] - 1
      BY <1>0, <1>2, <2>2
    <3>2. QED
      BY <1>0, <1>3, <3>1 DEF Schedule, Earlier
  <2>3. QED
    BY <2>1, <2>2
<1>4. CASE ~EndsTogether(l)
  <2>1. l = Len(Program) /\ ~Program[l].endsInBarrier
    BY <1>0, <1>4 DEF Orderly, Sealed, EndsTogether
  <2>2. \A k \in 1 .. Len(Program) - 1 : Program[k].endsInBarrier
    BY <1>0, <2>1 DEF Orderly, Sealed
  <2>3. Len(Program) = 1 \/ OccupancyOf(l) = 1
    BY <1>0, <2>1, <2>2 DEF NoLateSpawn, Program, OccupancyOf, Launches
  <2>4. ASSUME NEW w \in LaunchWarps(l)
        PROVE  Ran(w, l)
    <3>1. w \in Warps /\ w[1] \in Cores
      BY WarpFacts DEF LaunchWarps
    <3>2. CASE OccupancyOf(l) = 1
      <4>1. w \in Managers
        BY <3>1, <3>2, WarpFacts DEF LaunchWarps, Managers
      <4>2. QED
        BY <1>1, <2>1, <4>1 DEF Schedule, Managed, After, Leaving
    <3>3. CASE Len(Program) = 1
      <4>1. pc[Manager(w[1])] \notin BeforeSpawn
        BY <1>1, <3>1, ManagerFacts DEF BeforeSpawn, Writing
      <4>2. pc[w] \notin ToDo
        BY <3>1 DEF Quiet, ToDo, BeforeSpawn, Writing, InShare, Reading
      <4>3. QED
        BY <1>1, <2>1, <2>4, <3>1, <3>3, <4>1, <4>2, ManagerFacts DEF Schedule, Fresh
    <3>4. QED
      BY <2>3, <3>2, <3>3
  <2>5. QED
    BY <2>4, CompleteIsRan
<1>5. QED
  BY <1>3, <1>4

LEMMA ScheduleDivides ==
  ASSUME NoLateSpawn, Schedule
  PROVE  WorkIsDivided
<1> SUFFICES ASSUME NEW l \in Launches, Orderly(l)
             PROVE  /\ \A u, v \in done[l] : u # v => ItemsOf(u[1], u[2]) \cap ItemsOf(v[1], v[2]) = {}
                    /\ Quiet => UNION {ItemsOf(u[1], u[2]) : u \in done[l]} = 0 .. NumItems - 1
  BY DEF WorkIsDivided, Orderly
<1>0. TypeOK /\ OccupancyOf(l) \in 1 .. WarpsPerCore
  BY ProgramFacts DEF Schedule
<1>1. \A u \in done[l] : /\ u[1] \in LaunchWarps(l) /\ u[1] \in Warps /\ u[2] = OccupancyOf(l)
                         /\ u = <<u[1], u[2]>>
  BY <1>0 DEF Schedule, Entries, LaunchWarps, TypeOK
<1>2. ASSUME NEW u \in done[l], NEW v \in done[l], u # v,
             NEW i \in ItemsOf(u[1], u[2]) \cap ItemsOf(v[1], v[2])
      PROVE  FALSE
  <2>1. Rank(u[1]) = Rank(v[1])
    BY <1>1, <1>2 DEF ItemsOf
  <2>2. u[1] = v[1]
    BY <1>1, <2>1, RankNames
  <2>3. QED
    BY <1>1, <1>2, <2>2
<1>3. ASSUME Quiet, NEW i \in 0 .. NumItems - 1
      PROVE  \E u \in done[l] : i \in ItemsOf(u[1], u[2])
  <2>1. PICK w \in Warps : w[2] < OccupancyOf(l) /\ i % (NumCores * OccupancyOf(l)) = Rank(w)
    <3>1. i \in Nat
      BY Sizes
    <3>2. QED
      BY <1>0, <3>1, RanksCover
  <2>2. Complete(l)
    BY <1>3, QuietIsComplete
  <2>3. PICK u \in done[l] : u[1] = w
    BY <2>1, <2>2 DEF Complete, LaunchWarps
  <2>4. QED
    BY <1>1, <2>1, <2>3 DEF ItemsOf
<1>4. \A u \in done[l] : ItemsOf(u[1], u[2]) \subseteq 0 .. NumItems - 1
  BY DEF ItemsOf
<1>5. Quiet => UNION {ItemsOf(u[1], u[2]) : u \in done[l]} = 0 .. NumItems - 1
  BY <1>3, <1>4
<1>6. QED
  BY <1>2, <1>5

(* The warps of a launch cover every element, and none twice, for any      *)
(* number of cores, warps and elements.                                    *)
THEOREM WorkIsShared == Disciplined /\ NoLateSpawn => (Spec => []WorkIsDivided)
<1> SUFFICES ASSUME Disciplined, NoLateSpawn PROVE Spec => []WorkIsDivided
  OBVIOUS
<1>1. Schedule => WorkIsDivided
  BY ScheduleDivides
<1>2. QED
  BY <1>1, ScheduleAlways, PTL
-----------------------------------------------------------------------------
(* Every step counts                                                       *)

LEMMA AlongTable ==
  /\ Along("callback") = 1 /\ Along("arg") = 2 /\ Along("occupancy") = 3
  /\ Along("rendezvous") = 4 /\ Along("spawn") = 5 /\ Along("readOccupancy") = 6
  /\ Along("readCallback") = 7 /\ Along("readArg") = 8 /\ Along("body") = 9
  /\ Along("atEnd") = 10 /\ Along("return") = 11 /\ Along("main") = 12
  /\ Along("exit") = 13 /\ Along("idle") = 13
BY DEF Along

(* A launch starts a worker once: while its manager has not spawned, the   *)
(* worker belongs to an earlier one.                                       *)
NotStarted ==
  \A w \in Workers :
    /\ born[w] <= launch[w[1]]
    /\ pc[Manager(w[1])] \in BeforeSpawn => born[w] < launch[w[1]]

Starts == TypeOK /\ Roles /\ NotStarted

(* A warp that takes a step within its launch.                             *)
Advances(w) ==
  \E stage \in Stages :
    /\ Along(pc[w]) < Along(stage) /\ pc' = [pc EXCEPT ![w] = stage]
    /\ program' = program /\ launch' = launch /\ born' = born
    /\ w \in Managers => /\ stage # "idle"
                         /\ stage = "exit" => launch[w[1]] = Len(Program)
                         /\ stage \in BeforeSpawn => pc[w] \in BeforeSpawn
    /\ w \in Workers => stage \in {"idle", "atEnd", "return"} \cup InShare

LEMMA ManagerAdvances ==
  ASSUME TypeOK, NEW c \in Cores, ManagerStep(c), ~Spawn(c), ~NextLaunch(c)
  PROVE  Advances(Manager(c))
<1>0. Manager(c) \in Managers /\ Manager(c) \notin Workers /\ Manager(c)[1] = c /\ program' = program
  BY ManagerFacts DEF ManagerStep
<1>1. CASE WriteCallback(c)
  BY <1>0, <1>1, AlongTable DEF WriteCallback, Goto, Advances, Stages, BeforeSpawn, Writing
<1>2. CASE WriteArg(c)
  BY <1>0, <1>2, AlongTable DEF WriteArg, Goto, Advances, Stages, BeforeSpawn, Writing
<1>3. CASE WriteOccupancy(c)
  BY <1>0, <1>3, AlongTable DEF WriteOccupancy, Goto, Advances, Stages, BeforeSpawn, Writing
<1>4. CASE Meet(c)
  BY <1>0, <1>4, AlongTable DEF Meet, Goto, Advances, Stages, BeforeSpawn, Writing
<1>5. CASE Return(c)
  BY <1>0, <1>5, AlongTable DEF Return, Goto, Advances, Stages, BeforeSpawn, Writing
<1>6. CASE Finish(c)
  BY <1>0, <1>6, AlongTable DEF Finish, Goto, Advances, Stages, BeforeSpawn, Writing
<1>7. QED
  BY <1>1, <1>2, <1>3, <1>4, <1>5, <1>6 DEF ManagerStep

LEMMA WarpAdvances ==
  ASSUME TypeOK, NEW w \in Warps, WarpStep(w)
  PROVE  Advances(w)
<1>0. program' = program /\ (w \in Managers => w[2] = 0)
  BY DEF WarpStep, Managers
<1>1. CASE ReadOccupancy(w)
  BY <1>0, <1>1, AlongTable
     DEF ReadOccupancy, Read, Goto, Advances, Stages, BeforeSpawn, Writing, InShare, Reading
<1>2. CASE ReadCallback(w)
  BY <1>0, <1>2, AlongTable
     DEF ReadCallback, Read, Goto, Advances, Stages, BeforeSpawn, Writing, InShare, Reading
<1>3. CASE ReadArg(w)
  BY <1>0, <1>3, AlongTable
     DEF ReadArg, Read, Goto, Advances, Stages, BeforeSpawn, Writing, InShare, Reading
<1>4. CASE Body(w)
  <2>1. PICK stage \in {"atEnd", "return"} : pc' = [pc EXCEPT ![w] = stage]
    BY <1>4 DEF Body, Goto
  <2>2. pc[w] = "body" /\ launch' = launch /\ born' = born
    BY <1>4 DEF Body
  <2>3. /\ stage \in Stages /\ stage \notin {"idle", "exit"} /\ stage \notin BeforeSpawn
        /\ Along(pc[w]) < Along(stage)
    BY <2>1, <2>2, AlongTable DEF Stages, BeforeSpawn, Writing
  <2>4. QED
    BY <1>0, <2>1, <2>2, <2>3 DEF Advances
<1>5. CASE LeaveBody(w)
  BY <1>0, <1>5, AlongTable DEF LeaveBody, Goto, Advances, Stages, BeforeSpawn, Writing
<1>6. CASE Retire(w)
  BY <1>0, <1>6, AlongTable DEF Retire, Goto, Advances, Stages, BeforeSpawn, Writing
<1>7. QED
  BY <1>1, <1>2, <1>3, <1>4, <1>5, <1>6 DEF WarpStep

LEMMA AdvancesCount ==
  ASSUME Starts, TypeOK', NEW w \in Warps, Advances(w)
  PROVE  AWarpGoesOn /\ Starts'
<1>1. PICK stage \in Stages :
        /\ Along(pc[w]) < Along(stage) /\ pc' = [pc EXCEPT ![w] = stage]
        /\ program' = program /\ launch' = launch /\ born' = born
        /\ w \in Managers => /\ stage # "idle"
                             /\ stage = "exit" => launch[w[1]] = Len(Program)
                             /\ stage \in BeforeSpawn => pc[w] \in BeforeSpawn
        /\ w \in Workers => stage \in {"idle", "atEnd", "return"} \cup InShare
  BY DEF Advances
<1>2. /\ pc'[w] = stage /\ \A v \in Warps \ {w} : pc'[v] = pc[v]
      /\ Program' = Program
      /\ \A v : LaunchOf(v)' = LaunchOf(v)
  BY <1>1, SameProgram DEF Starts, TypeOK, LaunchOf
<1>3. AWarpGoesOn
  BY <1>1, <1>2 DEF AWarpGoesOn, GoesOn
<1>4. Roles'
  BY <1>1, <1>2 DEF Starts, Roles, Managers, Workers
<1>5. NotStarted'
  <2>1. \A v \in Workers : Manager(v[1]) \in Managers /\ Manager(v[1]) \in Warps
    BY WarpFacts, ManagerFacts DEF Workers
  <2>2. \A v \in Managers : pc'[v] \in BeforeSpawn => pc[v] \in BeforeSpawn
    BY <1>1, <1>2 DEF Managers
  <2>3. QED
    BY <1>1, <2>1, <2>2 DEF Starts, NotStarted
<1>6. QED
  BY <1>3, <1>4, <1>5 DEF Starts

LEMMA SpawnCounts ==
  ASSUME Starts, TypeOK', NEW c \in Cores, ManagerStep(c), Spawn(c)
  PROVE  AWarpGoesOn /\ Starts'
<1> DEFINE m == Manager(c)
           named == {w \in LaunchWarps(launch[c]) : w[1] = c}
           busy == {w \in named : w[2] # 0 /\ pc[w] # "idle"}
<1>0. /\ TypeOK /\ program' = program /\ Program' = Program /\ launch' = launch
      /\ m \in Warps /\ m \in Managers /\ m[1] = c /\ m[2] = 0
      /\ \A w \in Managers : w \in Warps /\ w[1] \in Cores /\ w[2] = 0 /\ (w[1] = c => w = m)
      /\ \A w \in Workers : w \in Warps /\ w[1] \in Cores /\ w[2] # 0
      /\ \A w \in Warps : w \in Managers \/ w \in Workers
  BY ManagerFacts, WarpFacts, SameProgram DEF Starts, ManagerStep, Spawn, Managers, Workers
<1>1. PICK kept \in SUBSET busy :
        /\ pc' = [w \in Warps |-> IF w \in named \ kept THEN "readOccupancy" ELSE pc[w]]
        /\ born' = [w \in Warps |-> IF w \in named \ kept THEN launch[c] ELSE born[w]]
  BY DEF Spawn
<1> DEFINE started == named \ kept
<1>2. \A w \in Warps : /\ pc'[w] = IF w \in started THEN "readOccupancy" ELSE pc[w]
                       /\ born'[w] = IF w \in started THEN launch[c] ELSE born[w]
  BY <1>1
<1>3. m \in started /\ \A w \in started : w \in Warps /\ w[1] = c
  <2>1. launch[c] \in Launches
    BY <1>0 DEF TypeOK
  <2>2. m \in named
    BY <1>0, <2>1, ManagersTakePart
  <2>3. m \notin kept
    BY <1>0
  <2>4. QED
    BY <2>2, <2>3 DEF LaunchWarps
<1>4. pc[m] = "spawn" /\ pc[m] \in BeforeSpawn
  BY DEF Spawn, BeforeSpawn
<1> HIDE DEF m, named, busy, started
<1>5. \A w \in started : w \in Workers => born[w] < launch[c]
  BY <1>0, <1>3, <1>4 DEF Starts, NotStarted, m
<1>6. \A w \in started : GoesOn(w)
  BY <1>0, <1>2, <1>3, <1>4, <1>5, AlongTable DEF GoesOn, LaunchOf
<1>7. \A w \in Warps \ started : LaunchOf(w)' = LaunchOf(w) /\ pc'[w] = pc[w]
  BY <1>0, <1>2 DEF LaunchOf
<1>8. AWarpGoesOn
  BY <1>3, <1>6, <1>7 DEF AWarpGoesOn
<1>9. Roles'
  <2>1. "readOccupancy" \in InShare
    BY DEF InShare, Reading
  <2>2. QED
    BY <1>0, <1>2, <2>1 DEF Starts, Roles
<1>10. NotStarted'
  <2>1. ASSUME NEW w \in Workers
        PROVE  /\ born'[w] <= launch[w[1]]
               /\ pc'[Manager(w[1])] \in BeforeSpawn => born'[w] < launch[w[1]]
    <3>1. /\ w \in Warps /\ w[1] \in Cores /\ Manager(w[1]) \in Warps
          /\ w[1] = c => Manager(w[1]) = m
          /\ launch[w[1]] \in Nat
      BY <1>0, ProgramFacts, ManagerFacts DEF m, TypeOK, Launches
    <3>2. "readOccupancy" \notin BeforeSpawn
      BY DEF BeforeSpawn, Writing
    <3>3. CASE w[1] = c
      BY <1>2, <1>3, <3>1, <3>2, <3>3 DEF Starts, NotStarted
    <3>4. CASE w[1] # c
      <4>1. w \notin started /\ Manager(w[1]) \notin started
        BY <1>3, <3>1, <3>4, ManagerFacts
      <4>2. QED
        BY <1>2, <3>1, <4>1 DEF Starts, NotStarted
    <3>5. QED
      BY <3>3, <3>4
  <2>2. QED
    BY <1>0, <2>1 DEF NotStarted
<1>11. QED
  BY <1>8, <1>9, <1>10 DEF Starts

LEMMA NextLaunchCounts ==
  ASSUME Starts, TypeOK', NEW c \in Cores, ManagerStep(c), NextLaunch(c)
  PROVE  AWarpGoesOn /\ Starts'
<1> DEFINE m == Manager(c)
<1>0. /\ TypeOK /\ program' = program /\ Program' = Program /\ m \in Warps /\ m \in Managers
      /\ m[1] = c /\ m[2] = 0
      /\ \A w \in Managers : w \in Warps /\ w[1] \in Cores /\ w[2] = 0 /\ (w[1] = c => w = m)
      /\ \A w \in Workers : w \in Warps /\ w[1] \in Cores /\ w[2] # 0 /\ w # m
      /\ \A w \in Warps : w[1] \in Cores /\ (w \in Managers \/ w \in Workers)
  BY ManagerFacts, WarpFacts, SameProgram DEF Starts, ManagerStep, Managers, Workers
<1>1. /\ pc[m] = "main" /\ launch' = [launch EXCEPT ![c] = @ + 1]
      /\ pc' = [pc EXCEPT ![m] = "callback"] /\ born' = born
  BY DEF NextLaunch, Goto
<1>2. /\ \A d \in Cores : launch[d] \in Nat
      /\ \A w \in Warps : born[w] \in Nat
  BY <1>0, ProgramFacts DEF TypeOK, Launches
<1> HIDE DEF m
<1>3. /\ launch'[c] = launch[c] + 1
      /\ \A d \in Cores \ {c} : launch'[d] = launch[d]
      /\ pc'[m] = "callback"
      /\ \A w \in Warps \ {m} : pc'[w] = pc[w]
  BY <1>0, <1>1 DEF TypeOK
<1>4. GoesOn(m)
  BY <1>0, <1>2, <1>3 DEF GoesOn, LaunchOf
<1>5. \A w \in Warps \ {m} : LaunchOf(w)' = LaunchOf(w) /\ pc'[w] = pc[w]
  BY <1>0, <1>1, <1>3 DEF LaunchOf
<1>6. AWarpGoesOn
  BY <1>0, <1>4, <1>5 DEF AWarpGoesOn
<1>7. Roles'
  BY <1>0, <1>1, <1>3 DEF Starts, Roles
<1>8. NotStarted'
  <2>1. ASSUME NEW w \in Workers
        PROVE  /\ born[w] <= launch'[w[1]]
               /\ pc'[Manager(w[1])] \in BeforeSpawn => born[w] < launch'[w[1]]
    <3>1. w \in Warps /\ w[1] \in Cores /\ Manager(w[1]) \in Warps /\ born[w] <= launch[w[1]]
      BY <1>0, ManagerFacts DEF Starts, NotStarted
    <3>2. CASE w[1] = c
      BY <1>2, <1>3, <3>1, <3>2
    <3>3. CASE w[1] # c
      <4>1. Manager(w[1]) # m
        BY <1>0, <3>1, <3>3, ManagerFacts
      <4>2. QED
        BY <1>3, <3>1, <3>3, <4>1 DEF Starts, NotStarted
    <3>4. QED
      BY <3>2, <3>3
  <2>2. QED
    BY <1>1, <2>1 DEF NotStarted
<1>9. QED
  BY <1>6, <1>7, <1>8 DEF Starts

LEMMA EvictCounts ==
  ASSUME Starts, TypeOK', NEW w \in Warps, Evict(w)
  PROVE  ALineGoes /\ Starts'
<1>1. /\ program' = program /\ launch' = launch /\ pc' = pc /\ born' = born /\ w[1] \in Cores
      /\ line[w[1]].state # "invalid"
      /\ line' = [line EXCEPT ![w[1]] = [state |-> "invalid", val |-> Unwritten]]
  BY WarpFacts DEF Evict
<1>2. ALineGoes
  BY <1>1 DEF ALineGoes, Starts, TypeOK
<1>3. Roles' /\ NotStarted'
  BY <1>1, SameProgram DEF Starts, Roles, NotStarted
<1>4. QED
  BY <1>2, <1>3 DEF Starts

LEMMA StepCounts ==
  ASSUME Starts, [Next]_vars
  PROVE  Starts' /\ [AWarpGoesOn \/ ALineGoes]_vars
<1>0. TypeOK /\ TypeOK'
  BY StepsKeepTypes DEF Starts
<1>1. ASSUME NEW c \in Cores, ManagerStep(c) PROVE Starts' /\ AWarpGoesOn
  <2>1. CASE Spawn(c)
    BY <1>0, <1>1, <2>1, SpawnCounts
  <2>2. CASE NextLaunch(c)
    BY <1>0, <1>1, <2>2, NextLaunchCounts
  <2>3. CASE ~Spawn(c) /\ ~NextLaunch(c)
    BY <1>0, <1>1, <2>3, ManagerAdvances, AdvancesCount, ManagerFacts
  <2>4. QED
    BY <2>1, <2>2, <2>3
<1>2. ASSUME NEW w \in Warps, WarpStep(w) PROVE Starts' /\ AWarpGoesOn
  BY <1>0, <1>2, WarpAdvances, AdvancesCount
<1>3. ASSUME NEW w \in Warps, Evict(w) PROVE Starts' /\ ALineGoes
  BY <1>0, <1>3, EvictCounts
<1>4. CASE UNCHANGED vars
  <2>1. program' = program /\ launch' = launch /\ pc' = pc /\ born' = born
    BY <1>4 DEF vars
  <2>2. Roles' /\ NotStarted'
    BY <2>1, SameProgram DEF Starts, Roles, NotStarted
  <2>3. QED
    BY <1>0, <1>4, <2>2 DEF Starts
<1>5. QED
  BY <1>1, <1>2, <1>3, <1>4 DEF Next, Ended

(* Whatever main() launches, on any number of cores and warps, a kernel    *)
(* makes a bounded number of steps, even if workers are started over       *)
(* (mu_schedule.cpp:97-126).                                               *)
THEOREM KernelIsBounded == Spec => EveryStepCounts
<1>1. Init => Starts
  BY ScheduleFromStart DEF Starts, Schedule, NotStarted, Spawned
<1>2. Starts /\ [Next]_vars => Starts' /\ [AWarpGoesOn \/ ALineGoes]_vars
  BY StepCounts
<1>3. QED
  BY <1>1, <1>2, PTL DEF Spec, EveryStepCounts

-----------------------------------------------------------------------------
(* Nobody is stuck                                                         *)

(* How often a manager has arrived at barrier 0: before each spawn, and    *)
(* after each launch.                                                      *)
Arrivals(m) ==
  2 * (launch[m[1]] - 1)
    + (IF pc[m] \in Writing THEN 0 ELSE IF pc[m] \in {"main", "exit"} THEN 2 ELSE 1)

(* The managers that wait at barrier 0 have come there once more than the  *)
(* others, and one is still to come.                                       *)
Meetings ==
  /\ arrived[0] \subseteq Managers /\ arrived[0] # Managers
  /\ \A m \in arrived[0] : pc[m] \in {"rendezvous", "main"}
  /\ \E g \in Nat : \A m \in Managers : Arrivals(m) = IF m \in arrived[0] THEN g + 1 ELSE g

LEMMA FirstMeeting ==
  ASSUME Init
  PROVE  Meetings
<1>1. arrived[0] = {} /\ Managers # {}
  BY Sizes, ManagerFacts DEF Init, Cores
<1>2. \A m \in Managers : Arrivals(m) = 0
  BY WarpFacts DEF Init, Managers, Arrivals, Writing
<1>3. QED
  BY <1>1, <1>2 DEF Meetings

(* Steps in which no manager comes to barrier 0.                           *)
LEMMA NobodyArrives ==
  ASSUME Meetings, arrived'[0] = arrived[0],
         \A m \in Managers : Arrivals(m)' = Arrivals(m),
         \A m \in arrived[0] : pc'[m] = pc[m]
  PROVE  Meetings'
<1>1. PICK g \in Nat : \A m \in Managers : Arrivals(m) = IF m \in arrived[0] THEN g + 1 ELSE g
  BY DEF Meetings
<1>2. \A m \in Managers : Arrivals(m)' = IF m \in arrived'[0] THEN g + 1 ELSE g
  BY <1>1
<1>3. QED
  BY <1>2 DEF Meetings

(* Steps in which one does.                                                *)
LEMMA OneArrives ==
  ASSUME TypeOK, Meetings, NEW m \in Managers, Arrive(m, 0, NumCores),
         Arrivals(m)' = Arrivals(m) + 1, m \notin arrived[0],
         pc'[m] \in {"rendezvous", "main"},
         \A n \in Managers \ {m} : Arrivals(n)' = Arrivals(n) /\ pc'[n] = pc[n]
  PROVE  Meetings'
<1> DEFINE all == arrived[0] \cup {m}
<1>1. PICK g \in Nat : \A n \in Managers : Arrivals(n) = IF n \in arrived[0] THEN g + 1 ELSE g
  BY DEF Meetings
<1>2. arrived'[0] = IF Cardinality(all) = NumCores THEN {} ELSE all
  BY DEF TypeOK, Arrive
<1>3. all \subseteq Managers /\ (Cardinality(all) = NumCores <=> all = Managers)
  BY AllManagers, CountManagers DEF Meetings
<1>4. \A n \in Managers : Arrivals(n)' = IF n \in all THEN g + 1 ELSE g
  BY <1>1
<1>5. \A n \in all : pc'[n] \in {"rendezvous", "main"}
  BY <1>3 DEF Meetings
<1>6. CASE all = Managers
  <2>1. arrived'[0] = {} /\ Managers # {}
    BY <1>2, <1>3, <1>6
  <2>2. \A n \in Managers : Arrivals(n)' = IF n \in arrived'[0] THEN (g + 1) + 1 ELSE g + 1
    BY <1>4, <1>6, <2>1
  <2>3. g + 1 \in Nat
    BY <1>1
  <2>4. QED
    BY <2>1, <2>2, <2>3 DEF Meetings
<1>7. CASE all # Managers
  BY <1>2, <1>3, <1>4, <1>5, <1>7 DEF Meetings
<1>8. QED
  BY <1>6, <1>7

LEMMA ManagersMeet ==
  ASSUME TypeOK, Meetings, NEW c \in Cores, ManagerStep(c)
  PROVE  Meetings'
<1> DEFINE m == Manager(c)
<1>0. /\ m \in Managers /\ m \in Warps /\ m[1] = c
      /\ \A n \in Managers \ {m} : n \in Warps /\ n[1] \in Cores /\ n[1] # c
      /\ \A d \in Cores : launch[d] \in Nat
      /\ pc \in [Warps -> Stages] /\ launch \in [Cores -> Launches]
  BY ManagerFacts, WarpFacts, ProgramFacts DEF Managers, TypeOK, Launches
<1>1. \A n \in arrived[0] : n \in Managers /\ pc[n] \in {"rendezvous", "main"}
  BY DEF Meetings
<1> HIDE DEF m
<1>2. CASE WriteCallback(c)
  <2>1. pc[m] = "callback" /\ pc' = [pc EXCEPT ![m] = "arg"] /\ launch' = launch /\ arrived' = arrived
    BY <1>2 DEF WriteCallback, Goto, m
  <2>2. QED
    BY <1>0, <1>1, <2>1, NobodyArrives DEF Arrivals, Writing
<1>3. CASE WriteArg(c)
  <2>1. pc[m] = "arg" /\ pc' = [pc EXCEPT ![m] = "occupancy"] /\ launch' = launch /\ arrived' = arrived
    BY <1>3 DEF WriteArg, Goto, m
  <2>2. QED
    BY <1>0, <1>1, <2>1, NobodyArrives DEF Arrivals, Writing
<1>4. CASE WriteOccupancy(c)
  <2>1. /\ pc[m] = "occupancy" /\ pc' = [pc EXCEPT ![m] = "rendezvous"] /\ launch' = launch
        /\ Arrive(m, 0, NumCores)
    BY <1>4 DEF WriteOccupancy, Goto, m
  <2>2. m \notin arrived[0]
    BY <1>1, <2>1
  <2>3. QED
    BY <1>0, <2>1, <2>2, OneArrives DEF Arrivals, Writing
<1>5. CASE Meet(c)
  <2>1. /\ pc[m] = "rendezvous" /\ pc' = [pc EXCEPT ![m] = "spawn"] /\ launch' = launch
        /\ arrived' = arrived /\ m \notin arrived[0]
    BY <1>5 DEF Meet, Goto, Passed, m
  <2>2. QED
    BY <1>0, <1>1, <2>1, NobodyArrives DEF Arrivals, Writing
<1>6. CASE Spawn(c)
  <2>1. pc[m] = "spawn" /\ launch' = launch /\ arrived' = arrived
    BY <1>6 DEF Spawn, m
  <2>2. /\ pc'[m] \in {"spawn", "readOccupancy"}
        /\ \A n \in Managers \ {m} : pc'[n] = pc[n]
    BY <1>0, <1>6, <2>1 DEF Spawn
  <2>3. QED
    BY <1>0, <1>1, <2>1, <2>2, NobodyArrives DEF Arrivals, Writing
<1>7. CASE Return(c)
  <2>1. /\ pc[m] = "return" /\ pc' = [pc EXCEPT ![m] = "main"] /\ launch' = launch
        /\ Arrive(m, 0, NumCores)
    BY <1>7 DEF Return, Goto, m
  <2>2. m \notin arrived[0]
    BY <1>1, <2>1
  <2>3. QED
    BY <1>0, <2>1, <2>2, OneArrives DEF Arrivals, Writing
<1>8. CASE NextLaunch(c)
  <2>1. /\ pc[m] = "main" /\ pc' = [pc EXCEPT ![m] = "callback"]
        /\ launch' = [launch EXCEPT ![c] = @ + 1] /\ arrived' = arrived /\ m \notin arrived[0]
    BY <1>8 DEF NextLaunch, Goto, Passed, m
  <2>2. QED
    BY <1>0, <1>1, <2>1, NobodyArrives DEF Arrivals, Writing
<1>9. CASE Finish(c)
  <2>1. /\ pc[m] = "main" /\ pc' = [pc EXCEPT ![m] = "exit"] /\ launch' = launch
        /\ arrived' = arrived /\ m \notin arrived[0]
    BY <1>9 DEF Finish, Goto, Passed, m
  <2>2. QED
    BY <1>0, <1>1, <2>1, NobodyArrives DEF Arrivals, Writing
<1>10. QED
  BY <1>2, <1>3, <1>4, <1>5, <1>6, <1>7, <1>8, <1>9 DEF ManagerStep

LEMMA WarpsLeaveMeetings ==
  ASSUME TypeOK, Meetings, NEW w \in Warps, WarpStep(w)
  PROVE  Meetings'
<1>1. PICK stage \in Stages \ {"main", "exit", "callback", "arg", "occupancy"} :
        /\ pc' = [pc EXCEPT ![w] = stage] /\ launch' = launch /\ arrived'[0] = arrived[0]
        /\ pc[w] \in {"readOccupancy", "readCallback", "readArg", "body", "atEnd", "return"}
        /\ pc[w] = "return" => w[2] # 0
  <2>1. CASE ReadOccupancy(w)
    BY <2>1 DEF ReadOccupancy, Read, Goto, Stages
  <2>2. CASE ReadCallback(w)
    BY <2>2 DEF ReadCallback, Read, Goto, Stages
  <2>3. CASE ReadArg(w)
    BY <2>3 DEF ReadArg, Read, Goto, Stages
  <2>4. CASE Body(w)
    <3>1. pc' = [pc EXCEPT ![w] = "atEnd"] \/ pc' = [pc EXCEPT ![w] = "return"]
      BY <2>4 DEF Body, Goto
    <3>2. pc[w] = "body" /\ launch' = launch /\ arrived'[0] = arrived[0]
      BY <2>4 DEF Body, Arrive, TypeOK
    <3>3. QED
      BY <3>1, <3>2 DEF Stages
  <2>5. CASE LeaveBody(w)
    BY <2>5 DEF LeaveBody, Goto, Stages
  <2>6. CASE Retire(w)
    BY <2>6 DEF Retire, Goto, Stages
  <2>7. QED
    BY <2>1, <2>2, <2>3, <2>4, <2>5, <2>6 DEF WarpStep
<1>2. \A m \in Managers : m \in Warps /\ m[2] = 0
  BY DEF Managers
<1>3. \A m \in Managers : Arrivals(m)' = Arrivals(m)
  BY <1>1, <1>2 DEF TypeOK, Arrivals, Writing
<1>4. \A m \in arrived[0] : pc'[m] = pc[m]
  BY <1>1, <1>2 DEF TypeOK, Meetings
<1>5. QED
  BY <1>1, <1>3, <1>4, NobodyArrives

LEMMA StepKeepsMeetings ==
  ASSUME TypeOK, Meetings, [Next]_vars
  PROVE  Meetings'
<1>1. ASSUME NEW w \in Warps, Evict(w) PROVE Meetings'
  BY <1>1, NobodyArrives DEF Evict, Arrivals
<1>2. CASE UNCHANGED vars
  BY <1>2, NobodyArrives DEF vars, Arrivals
<1>3. QED
  BY <1>1, <1>2, ManagersMeet, WarpsLeaveMeetings DEF Next, Ended

(* Only the first launch ends in a barrier that workers take part in.      *)
(* After a later one a worker that has not retired is not started again,   *)
(* or is started over: the barrier may wait for it forever.                *)
NoLateBarrier ==
  \A p \in Programs : \A l \in 2 .. Len(p.launches) :
    p.launches[l].endsInBarrier => p.launches[l].occupancy = 1

(* Where every manager is past the spawn of launch l, and no warp can go   *)
(* on, all warps of the launch have run its body.                          *)
LEMMA AllHaveRun ==
  ASSUME NoLateBarrier, Schedule, NEW l \in Launches, EndsTogether(l),
         \A m \in Managers : launch[m[1]] = l /\ pc[m] \in After,
         \A w \in Workers : pc[w] \in {"idle", "atEnd"}
  PROVE  Complete(l)
<1>0. /\ TypeOK /\ program \in Programs /\ Len(Program) \in Nat \ {0} /\ l \in 1 .. Len(Program)
      /\ OccupancyOf(l) \in 1 .. WarpsPerCore
  BY ProgramFacts DEF Schedule, Launches
<1>1. ASSUME NEW w \in LaunchWarps(l)
      PROVE  Ran(w, l)
  <2>1. /\ w \in Warps /\ w[1] \in Cores /\ Manager(w[1]) \in Managers /\ Manager(w[1])[1] = w[1]
        /\ w \in Managers \/ w \in Workers
    BY <1>1, WarpFacts, ManagerFacts DEF LaunchWarps
  <2>2. CASE w \in Managers
    BY <2>2 DEF Schedule, Managed
  <2>3. CASE w \in Workers /\ l = 1
    <3>1. launch[w[1]] = 1 /\ pc[Manager(w[1])] \in After
      BY <2>1, <2>3
    <3>2. pc[Manager(w[1])] \notin BeforeSpawn
      BY <3>1 DEF After, Leaving, BeforeSpawn, Writing
    <3>3. pc[w] \notin ToDo
      BY <2>3 DEF ToDo, BeforeSpawn, Writing, InShare, Reading
    <3>4. QED
      BY <2>3, <3>1, <3>2, <3>3 DEF Schedule, Fresh
  <2>4. CASE w \in Workers /\ l # 1
    <3>1. l \in 2 .. Len(Program)
      BY <1>0, <2>4
    <3>2. OccupancyOf(l) = 1
      BY <1>0, <3>1 DEF NoLateBarrier, EndsTogether, OccupancyOf, Program
    <3>3. w[2] \in 0 .. WarpsPerCore - 1 /\ w[2] < 1 /\ w[2] # 0
      BY <1>1, <2>1, <2>4, <3>2, WarpFacts DEF LaunchWarps
    <3>4. QED
      BY <3>3
  <2>5. QED
    BY <2>1, <2>2, <2>3, <2>4
<1>2. QED
  BY <1>1, CompleteIsRan

LEMMA MeetingsGoOn ==
  ASSUME NoLateBarrier, Schedule, Meetings,
         \A c \in Cores : ~ManagerMayStep(c), \A w \in Warps : ~WarpMayStep(w)
  PROVE  Quiet
<1>0. /\ TypeOK /\ Len(Program) \in Nat \ {0}
      /\ \A m \in Managers : /\ m \in Warps /\ m[1] \in Cores /\ m = Manager(m[1])
                             /\ launch[m[1]] \in Launches /\ launch[m[1]] \in 1 .. Len(Program)
      /\ \A w \in Workers : w \in Warps /\ w[2] # 0
      /\ \A w \in Warps : w \in Managers \/ w \in Workers
  BY ProgramFacts, WarpFacts DEF Schedule, Managers, Workers, TypeOK, Launches
<1>1. \A w \in Warps : pc[w] # "body"
  <2>1. SUFFICES ASSUME NEW w \in Warps, pc[w] = "body" PROVE FALSE
    OBVIOUS
  <2>2. /\ born[w] \in 1 .. Len(Program) /\ launch[w[1]] \in 1 .. Len(Program)
    BY <1>0, <2>1, OwnFacts DEF InShare, Reading, Launches
  <2>3. reg[w].callback \in Nat /\ born[w] <= reg[w].callback /\ reg[w].callback <= launch[w[1]]
    BY <1>0, <2>1 DEF Schedule, Registers, HasRead, Words, TypeOK, Context
  <2>4. reg[w].callback \in Launches
    BY <1>0, <2>2, <2>3 DEF Launches
  <2>5. QED
    BY <2>1, <2>4 DEF WarpMayStep
<1>2. \A w \in Workers : pc[w] = "idle" \/ (pc[w] = "atEnd" /\ w \in arrived[1])
  BY <1>0, <1>1 DEF Schedule, Roles, InShare, Reading, WarpMayStep, Passed
<1>3. \A m \in Managers : \/ pc[m] \in {"rendezvous", "main"} /\ m \in arrived[0]
                          \/ pc[m] = "atEnd" /\ m \in arrived[1]
                          \/ pc[m] = "exit" /\ launch[m[1]] = Len(Program)
  <2>1. ASSUME NEW m \in Managers
        PROVE  \/ pc[m] \in {"rendezvous", "main"} /\ m \in arrived[0]
               \/ pc[m] = "atEnd" /\ m \in arrived[1]
               \/ pc[m] = "exit" /\ launch[m[1]] = Len(Program)
    <3>1. pc[m] \in Stages /\ pc[m] # "idle" /\ (pc[m] = "exit" => launch[m[1]] = Len(Program))
      BY <1>0 DEF Schedule, Roles, TypeOK
    <3>2. ~ManagerMayStep(m[1]) /\ ~WarpMayStep(m) /\ pc[m] # "body" /\ m = Manager(m[1])
      BY <1>0, <1>1
    <3>3. QED
      BY <3>1, <3>2 DEF ManagerMayStep, WarpMayStep, Passed, Stages
  <2>2. QED
    BY <2>1
<1>4. PICK g \in Nat : \A m \in Managers : Arrivals(m) = IF m \in arrived[0] THEN g + 1 ELSE g
  BY DEF Meetings
<1>5. PICK m0 \in Managers : m0 \notin arrived[0]
  BY DEF Meetings
(* A warp at the end of launch l waits for one that has not run its body.  *)
<1>6. \A w \in Warps : pc[w] = "atEnd" /\ w \in arrived[1] =>
        /\ LaunchOf(w) \in Launches /\ LaunchOf(w) <= launch[w[1]]
        /\ EndsTogether(LaunchOf(w)) /\ ~Complete(LaunchOf(w))
  BY OwnFacts DEF Schedule, Ends
<1>7. CASE pc[m0] = "exit"
  <2>1. g = 2 * (Len(Program) - 1) + 2
    BY <1>0, <1>3, <1>4, <1>5, <1>7 DEF Arrivals, Writing
  <2>2. \A m \in Managers : Arrivals(m) <= 2 * (Len(Program) - 1) + 2
    BY <1>0 DEF Arrivals
  <2>3. \A m \in Managers : m \notin arrived[0] /\ Arrivals(m) = g
    BY <1>4, <2>1, <2>2
  <2>4. \A m \in Managers : pc[m] = "exit" /\ launch[m[1]] = Len(Program)
    <3>1. SUFFICES ASSUME NEW m \in Managers, pc[m] = "atEnd" PROVE FALSE
      BY <1>3, <2>3
    <3>2. Arrivals(m) = 2 * (launch[m[1]] - 1) + 1
      BY <3>1 DEF Arrivals, Writing
    <3>3. QED
      BY <1>0, <2>1, <2>3, <3>2
  <2>5. \A w \in Workers : pc[w] = "idle"
    <3>1. SUFFICES ASSUME NEW w \in Workers, pc[w] = "atEnd", w \in arrived[1] PROVE FALSE
      BY <1>2
    <3>2. /\ w \in Warps /\ w[1] \in Cores /\ Manager(w[1]) \in Managers
          /\ Manager(w[1])[1] = w[1]
      BY <1>0, WarpFacts, ManagerFacts
    <3>3. pc[Manager(w[1])] = "exit" /\ launch[w[1]] = Len(Program)
      BY <2>4, <3>2
    <3>4. PICK l \in Launches : l <= launch[w[1]] /\ EndsTogether(l) /\ ~Complete(l)
      BY <1>6, <3>1, <3>2
    <3>5. l = launch[w[1]] \/ l \in 1 .. launch[w[1]] - 1
      BY <1>0, <3>3, <3>4 DEF Launches
    <3>6. QED
      BY <3>2, <3>3, <3>4, <3>5 DEF Schedule, Earlier
  <2>6. QED
    BY <1>0, <2>4, <2>5 DEF Quiet
<1>8. CASE pc[m0] = "atEnd"
  <2>1. PICK l \in Launches : /\ l = launch[m0[1]] /\ EndsTogether(l) /\ ~Complete(l)
                              /\ l \in 1 .. Len(Program)
    BY <1>0, <1>3, <1>6, <1>8 DEF LaunchOf, Managers
  <2>2. g = 2 * (l - 1) + 1
    BY <1>4, <1>5, <1>8, <2>1 DEF Arrivals, Writing
  <2>3. ASSUME NEW m \in Managers
        PROVE  launch[m[1]] = l /\ pc[m] \in After
    <3>1. launch[m[1]] \in Nat /\ l \in Nat
      BY <1>0, <2>1
    <3>2. CASE m \in arrived[0]
      <4>1. Arrivals(m) = 2 * (l - 1) + 2 /\ pc[m] \in {"rendezvous", "main"}
        <5>1. Arrivals(m) = g + 1
          BY <1>4, <3>2
        <5>2. QED
          BY <2>2, <3>1, <3>2, <5>1 DEF Meetings
      <4>2. CASE pc[m] = "rendezvous"
        <5>1. Arrivals(m) = 2 * (launch[m[1]] - 1) + 1
          BY <4>2 DEF Arrivals, Writing
        <5>2. QED
          BY <3>1, <4>1, <5>1
      <4>3. CASE pc[m] = "main"
        <5>1. Arrivals(m) = 2 * (launch[m[1]] - 1) + 2
          BY <4>3 DEF Arrivals, Writing
        <5>2. QED
          BY <3>1, <4>1, <4>3, <5>1 DEF After, Leaving
      <4>4. QED
        BY <4>1, <4>2, <4>3
    <3>3. CASE m \notin arrived[0]
      <4>1. Arrivals(m) = 2 * (l - 1) + 1 /\ pc[m] \in {"atEnd", "exit"}
        BY <1>3, <1>4, <2>2, <3>3
      <4>2. CASE pc[m] = "exit"
        <5>1. Arrivals(m) = 2 * (launch[m[1]] - 1) + 2
          BY <4>2 DEF Arrivals, Writing
        <5>2. QED
          BY <3>1, <4>1, <5>1
      <4>3. CASE pc[m] = "atEnd"
        <5>1. Arrivals(m) = 2 * (launch[m[1]] - 1) + 1
          BY <4>3 DEF Arrivals, Writing
        <5>2. QED
          BY <3>1, <4>1, <4>3, <5>1 DEF After
      <4>4. QED
        BY <4>1, <4>2, <4>3
    <3>4. QED
      BY <3>2, <3>3
  <2>4. Complete(l)
    BY <1>2, <2>1, <2>3, AllHaveRun
  <2>5. QED
    BY <2>1, <2>4
<1>9. QED
  BY <1>3, <1>5, <1>7, <1>8

(* On any number of cores and warps a kernel of which only the first       *)
(* launch ends in a barrier of workers is never stuck before it has come   *)
(* to rest: not at the barriers around a launch (mu_schedule.cpp:121),     *)
(* nor at the one that ends a body.                                        *)
THEOREM NobodyIsStuck == Disciplined /\ NoLateBarrier => (Spec => []NeverStuck)
<1> SUFFICES ASSUME Disciplined, NoLateBarrier PROVE Spec => []NeverStuck
  OBVIOUS
<1>1. Schedule /\ Meetings => NeverStuck
  BY MeetingsGoOn DEF NeverStuck
<1>2. Init => Meetings
  BY FirstMeeting
<1>3. Schedule /\ Meetings /\ [Next]_vars => Meetings'
  BY StepKeepsMeetings DEF Schedule
<1>4. QED
  BY <1>1, <1>2, <1>3, ScheduleAlways, PTL DEF Spec

=============================================================================
