------------------------------- MODULE Device -------------------------------
(***************************************************************************)
(* What a tapeout kernel promises the host, one launch at a time: every    *)
(* core clears its slots, acknowledges the launch, brings its share of the *)
(* output to DRAM and only then, when all of them have, posts DONE and     *)
(* parks for good.  HostRun composes this promise with the host; module    *)
(* Epilogue is the code that has to keep it.                               *)
(***************************************************************************)
EXTENDS Postbox

VARIABLES
  start, \* START slot of each core
  done,  \* TRUE: the DONE slot of the core holds RAD_EPI_DONE_MAGIC
  dev,   \* where each core is
  out    \* what DRAM holds of the core's share of the output

DevStates == {"off", "clear", "ack", "work", "drained", "parked"}

(* Mutant: the generation is advanced over a DONE left by an earlier run.  *)
ClearSlotsForgetsDone(c) ==
  /\ dev[c] = "clear"
  /\ dev' = [dev EXCEPT ![c] = "ack"]
  /\ UNCHANGED <<start, done, out>>

(* rad_tapeout_begin: the DONE, TRACE and STOP slots of the core ...       *)
ClearSlots(c) ==
  /\ dev[c] = "clear"
  /\ done' = [done EXCEPT ![c] = FALSE]
  /\ dev' = [dev EXCEPT ![c] = "ack"]
  /\ UNCHANGED <<start, out>>

(* ... and only then its generation.                                       *)
PostStart(c) ==
  /\ dev[c] = "ack"
  /\ start' = [start EXCEPT ![c] = NextGen(start[c])]
  /\ dev' = [dev EXCEPT ![c] = "work"]
  /\ UNCHANGED <<done, out>>

(* The kernel body and the drains, which leave words in DRAM.  The barrier *)
(* of mu_schedule lets no core into the body before every core is through  *)
(* rad_tapeout_begin().                                                    *)
Work(c, words) ==
  /\ dev[c] = "work"
  /\ \A d \in Cores : dev[d] \in {"work", "drained"}
  /\ out' = [out EXCEPT ![c] = words]
  /\ dev' = [dev EXCEPT ![c] = "drained"]
  /\ UNCHANGED <<start, done>>

(* The end of rad_tapeout_epilogue, beyond its barrier B.                  *)
PostDone(c) ==
  /\ dev[c] = "drained"
  /\ \A d \in Cores : dev[d] \in {"drained", "parked"}
  /\ done' = [done EXCEPT ![c] = TRUE]
  /\ dev' = [dev EXCEPT ![c] = "parked"]
  /\ UNCHANGED <<start, out>>

-----------------------------------------------------------------------------
(* One launch on its own, from any postbox.                                *)

DeviceInit ==
  /\ start \in [Cores -> Word]
  /\ done \in [Cores -> BOOLEAN]
  /\ dev = [c \in Cores |-> "clear"]
  /\ out = [c \in Cores |-> "poison"]

DeviceNext ==
  \E c \in Cores :
    ClearSlots(c) \/ PostStart(c) \/ Work(c, "result") \/ PostDone(c)

DeviceSpec == DeviceInit /\ [][DeviceNext]_<<start, done, dev, out>>
=============================================================================
