----------------------------- MODULE TileStream -----------------------------
(***************************************************************************)
(* What a kernel that works through tiles promises: the rows of its result *)
(* appear, tile after tile, they stay, and in the end all are there.  A    *)
(* row is <<<<place, <<name, tile>>>>, part>>.                             *)
(***************************************************************************)
EXTENDS Integers

VARIABLES rows, \* the rows of the result
          done  \* those that are there

TileOf(r) == r[1][2][2]

Init == done = {}

Emit ==
  /\ done \subseteq done' /\ done' \subseteq rows
  /\ \A r \in done' \ done, s \in rows : TileOf(s) < TileOf(r) => s \in done

Spec == Init /\ [][Emit]_done /\ <>(done = rows)
=============================================================================
