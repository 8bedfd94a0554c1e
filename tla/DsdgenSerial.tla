---------------------------- MODULE DsdgenSerial ----------------------------
(***************************************************************************)
(* What a user of dsdgen is promised: every row of the requested tables is *)
(* written once, with the data that one serial run would give it, however  *)
(* many processes share the work.  A process that is started again         *)
(* overwrites its files, so rows may go away and come back; they never     *)
(* come back different, and no row is ever there twice.                    *)
(***************************************************************************)
CONSTANT Rows    \* the rows of the requested tables

VARIABLE data    \* what the output files hold of every row

Init == data = [r \in Rows |-> "absent"]

\* One row is written, or the rows of a file that is started again go away.
New == {r \in Rows : data[r] = "absent" /\ data'[r] = "serial"}

Next == /\ data' \in [Rows -> {"absent", "serial"}]
        /\ \A r, s \in New : r = s

Spec == Init /\ [][Next]_data
=============================================================================
