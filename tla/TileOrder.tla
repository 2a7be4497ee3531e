----------------------------- MODULE TileOrder -----------------------------
(***************************************************************************)
(* Conditions on the script of a kernel, to be evaluated without running   *)
(* it, under which TilePhases keeps its promises however the warps and the *)
(* matrix unit are scheduled.                                              *)
(*                                                                         *)
(* A clock says, for every operation and every warp that executes it, how  *)
(* far each other actor must have come when the warp gets there.  Clocked  *)
(* checks such a clock against the barriers and flags of the script.  From *)
(* it follows what is over before something begins, and the rest of the    *)
(* conditions say that this suffices.                                      *)
(***************************************************************************)
EXTENDS TilePhases

CONSTANT Clock \* kernel -> operation -> warp -> actor -> an operation it has passed, or 0

Steps == 1 .. Len(Script)
Commands == Indices("command")
Passes == UNION {{[op |-> i, by |-> v] : v \in Script[i].who} : i \in Indices("simt")}
Access(c) == [op |-> c, by |-> 0]
Issuer(c) == CHOOSE v \in Script[c].who : TRUE

(* What the machine takes for granted about a script.                      *)
WellFormed ==
  /\ Len(Script) \in Nat /\ DOMAIN Script = Steps
  /\ \A i \in Steps : Script[i].who \subseteq Actors
  /\ \A c \in Commands : \E v \in Actors : Script[c].who = {v}
  /\ Program[kernel].inOrder => \A c, d \in Commands : Script[c].who = Script[d].who
  /\ \A i \in Indices("post") \cup Indices("await") : Script[i].value \in Nat \ {0}
  /\ \A i \in Indices("occupancy") : Script[i].left \in Nat
  /\ \A i, j \in Indices("barrier") : Script[i].id = Script[j].id => Script[i].who = Script[j].who

-----------------------------------------------------------------------------
(* Clocks                                                                  *)

(* When w gets to j, v is beyond i.                                        *)
Knows(w, j, v, i) == IF v = w THEN i < j ELSE i <= Clock[kernel][j][w][v]

(* Every post that can let w through at g is one of v, and none is before  *)
(* m.                                                                      *)
Releases(g, v, m) ==
  \A p \in Indices("post") :
    Script[p].flag = Script[g].flag /\ Script[p].value >= Script[g].value
      => Script[p].who = {v} /\ m <= p

(* When w is beyond g, v is beyond m.                                      *)
Tells(g, w, v, m) ==
  \/ v = w /\ m = g
  \/ Script[g].kind = "barrier" /\ v \in Script[g].who /\ m = g
  \/ Script[g].kind = "await" /\ Releases(g, v, m)

(* The operation of w before j, if there is one.                           *)
Before(w, j) ==
  {i \in 1 .. j - 1 : w \in Script[i].who /\ \A k \in i + 1 .. j - 1 : w \notin Script[k].who}

Clocked ==
  LET posts == Indices("post")
  IN \A j \in Steps : \A w \in Script[j].who :
       LET before == Before(w, j)
       IN \A u \in Actors \ {w} :
            LET c == Clock[kernel][j][w][u]
            IN /\ c \in Nat
               /\ c = 0 \/ \E g \in before : \E m \in {g} \cup posts : \E v \in Script[m].who :
                             /\ Tells(g, w, v, m)
                             /\ c <= IF u = v THEN m ELSE Clock[kernel][m][v][u]

Ordered == WellFormed /\ Clocked

-----------------------------------------------------------------------------
(* What is over when w gets to j                                           *)

PassedBefore(a, w, j) == Knows(w, j, a.by, a.op)

(* A fence of the warp of pass a that waits for its stores.                *)
Clears(f, i) ==
  \/ Script[f].kind = "fence" /\ ~AtPort(i)
  \/ Script[f].kind = "hostfence"
  \/ Script[f].kind \in {"drain", "drainloops"} /\ AtPort(i)
FencedBefore(a, w, j) ==
  \E f \in a.op + 1 .. Len(Script) :
    a.by \in Script[f].who /\ Clears(f, a.op) /\ Knows(w, j, a.by, f)

(* When x is beyond d, command c has ended: it was issued before, and the  *)
(* poll sees it; or the poll leaves room only for commands issued after it.*)
Waits(d, x, c) ==
  \/ Script[d].kind = "drain" /\ (Program[kernel].lateBusy => Script[c].unit = "dma")
  \/ Script[d].kind = "drainloops" /\ Script[c].unit # "dma"
  \/ /\ Script[d].kind = "occupancy" /\ Program[kernel].inOrder
     /\ Script[d].left < Cardinality({e \in Commands : c <= e /\ Knows(x, d, Issuer(e), e)})
DrainedBefore(c, w, j) ==
  \E d \in c + 1 .. Len(Script) : \E x \in Script[d].who :
    Waits(d, x, c) /\ Knows(x, d, Issuer(c), c) /\ Knows(w, j, x, d)

-----------------------------------------------------------------------------
(* The conditions                                                          *)

(* Accesses in conflict are ordered, and a store is visible in between.    *)
Place(i) == {x[1] : x \in Script[i].reads \cup Script[i].writes}
Near(i, j) == \E p \in Place(i), q \in Place(j) : p = q \/ Overlap(p, q)

PassesApart ==
  \A i, j \in Indices("simt") : Near(i, j) =>
    \A v \in Script[i].who, w \in Script[j].who :
      LET a == [op |-> i, by |-> v]
          b == [op |-> j, by |-> w]
      IN v # w /\ Conflict(a, b) => FencedBefore(a, w, j) \/ PassedBefore(b, v, i)
CommandsApart ==
  \A i \in Indices("simt"), c \in Commands : Near(i, c) =>
    \A v \in Script[i].who :
      LET a == [op |-> i, by |-> v]
      IN \/ DrainedBefore(c, v, i)
         \/ /\ Conflict(a, Access(c)) => FencedBefore(a, Issuer(c), c)
            /\ Conflict(Access(c), a) => PassedBefore(a, Issuer(c), c)
QueueApart ==
  \A c, d \in Commands : c # d /\ Conflict(Access(c), Access(d)) =>
    DrainedBefore(c, Issuer(d), d) \/ DrainedBefore(d, Issuer(c), c)
Apart == PassesApart /\ CommandsApart /\ QueueApart

(* Every read has a write of its tile that is over before, and every other *)
(* access to the same cell is over before that write or comes later.       *)
Accesses == Passes \cup {Access(c) : c \in Commands}
OfCommand(a) == a.op \in Steps /\ Script[a.op].kind = "command"
Actor(a) == IF OfCommand(a) THEN Issuer(a.op) ELSE a.by
DoneBefore(a, b) ==
  IF OfCommand(a) THEN DrainedBefore(a.op, Actor(b), b.op)
                  ELSE PassedBefore(a, Actor(b), b.op)

StoresTo(p) == {a \in Accesses : \E y \in Writes(a) : y[1] = p \/ Overlap(y[1], p)}
Touches(a, p, i) == \E y \in Writes(a) : (y[1] = p /\ i \in Cells(a)) \/ Overlap(y[1], p)
Feeds(w, a, x, i, stores) ==
  /\ x \in Writes(w) /\ i \in Cells(w)
  /\ \A y \in Writes(w) : y[1] = x[1] => y = x
  /\ DoneBefore(w, a)
  /\ \A o \in stores : o \in {w, a} \/ DoneBefore(o, w) \/ DoneBefore(a, o)
Fed ==
  \A p \in PlacesOf(kernel) :
    LET stores == StoresTo(p)
        readers == {a \in Accesses : \E x \in Reads(a) : x[1] = p}
    IN \A i \in Parts :
         LET here == {o \in stores : Touches(o, p, i)}
         IN \A a \in readers : i \in Cells(a) => \A x \in Reads(a) : x[1] = p =>
              \E w \in here : Feeds(w, a, x, i, here)

(* Command c has not begun, or has ended, when w is at j.                  *)
NotDuring(c, w, j) ==
  c = j \/ Knows(Issuer(c), c, w, j) \/ DrainedBefore(c, w, j)

SweepsApart ==
  Indices("config") # {} =>
    \A c \in Commands, j \in Indices("config") \cup Commands :
      /\ Script[c].unit = "mesh"
      /\ 0 \in Script[j].who
      /\ Script[j].kind = "config" \/ Script[j].unit = "mesh"
      => NotDuring(c, 0, j)

KeptAlone ==
  /\ Program[kernel].alone \subseteq Steps
  /\ \A j \in Program[kernel].alone : \A c \in Commands : 0 \in Script[j].who =>
       \/ NotDuring(c, 0, j)
       \/ \A a \in Passes : a.op # j /\ (a.by # 0 => PassedBefore(a, 0, j) \/ Knows(a.by, a.op, 0, j))

Banked ==
  \A a \in Passes, c \in Commands :
    KeepToBanks(a, Access(c)) \/ DrainedBefore(c, a.by, a.op) \/ PassedBefore(a, Issuer(c), c)

(* A store to the place of a row of the result puts the row there, and is  *)
(* made after the rows of the tiles before; or it is over before the row   *)
(* is put there.                                                           *)
Makes(w, r) == r[1] \in Writes(w) /\ r[2] \in Cells(w)
PutsAlone(o, r) == \A y \in Writes(o) : y[1] = r[1][1] => y = r[1]
FollowsRows(o, r) ==
  \A s \in Outputs : Abstract!TileOf(s) < Abstract!TileOf(r) =>
    \E w \in StoresTo(s[1][1]) : Makes(w, s) /\ DoneBefore(w, o)
PrecedesRow(o, r) ==
  /\ \A y \in Writes(o) : y[1] = r[1][1] => y[2] # r[1][2]
  /\ \A w \in StoresTo(r[1][1]) : Makes(w, r) => DoneBefore(o, w)
Streamed ==
  \A r \in Outputs :
    /\ r[1][2] \notin {<<"empty", 0>>, <<"spoilt", 0>>}
    /\ \A o \in StoresTo(r[1][1]) : Touches(o, r[1][1], r[2]) =>
         IF Makes(o, r) THEN PutsAlone(o, r) /\ FollowsRows(o, r) ELSE PrecedesRow(o, r)

-----------------------------------------------------------------------------
(* Going on                                                                *)

Operations == {"simt", "fence", "config", "command", "hostfence", "drain", "drainloops",
               "occupancy", "post", "await", "barrier"}

(* What lets an actor, or the matrix unit, take a step.                    *)
MayRun(w) ==
  \/ mode[w] = "busy"
  \/ /\ mode[w] = "ready" /\ pc[w] < End /\ Op(w).kind \in Operations
     /\ Op(w).kind = "drain" => busy = {}
     /\ Op(w).kind = "drainloops" => \A i \in queue : Script[i].unit = "dma"
     /\ Op(w).kind = "occupancy" => Cardinality(queue) <= Op(w).left
     /\ Op(w).kind = "await" => flags[Op(w).flag] >= Op(w).value
MayEnd(i) == i \notin busy \/ (Program[kernel].inOrder => \A j \in queue : i <= j)

(* The warps, the host and the matrix unit never all wait for each other.  *)
NeverStuck == Finished \/ (\E w \in Actors : MayRun(w)) \/ \E i \in queue : MayEnd(i)

(* Every step takes an actor to its operation, into it or past it, or the  *)
(* matrix unit through one of its commands: a script, which has an end,    *)
(* makes for a bounded number of steps.                                    *)
GoesOn(w) ==
  \/ pc[w] < pc'[w]
  \/ pc'[w] = pc[w] /\ mode[w] = "ready" /\ mode'[w] # "ready"
AnActorGoesOn ==
  /\ \A w \in Actors : GoesOn(w) \/ (pc'[w] = pc[w] /\ mode'[w] = mode[w])
  /\ \E w \in Actors : GoesOn(w)
TheUnitGoesOn ==
  /\ UNCHANGED <<pc, mode>>
  /\ \/ queue' \subseteq queue /\ queue' # queue
     \/ queue' = queue /\ busy \subseteq busy' /\ busy' # busy
EveryStepCounts == [][AnActorGoesOn \/ TheUnitGoesOn]_vars

(* An await comes after a post that lets it through, and after that post   *)
(* the flag is never set to less.                                          *)
Answers(p, g) ==
  /\ p < g /\ Script[p].flag = Script[g].flag /\ Script[p].who # {}
  /\ \A q \in Indices("post") :
       Script[q].flag = Script[g].flag /\ Script[q].value < Script[g].value =>
         q < p /\ \E v \in Actors : Script[q].who = {v} /\ Script[p].who = {v}
Executable == \A i \in Steps : Script[i].kind \in Operations
Answered == \A g \in Indices("await") : \E p \in Indices("post") : Answers(p, g)
=============================================================================
