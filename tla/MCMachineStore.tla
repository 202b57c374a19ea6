--------------------------- MODULE MCMachineStore --------------------------
(* One machine and one model. *)
EXTENDS MachineStore

CONSTANTS a, ours, theirs, v1, v2, u1, c1

First == [proxy |-> FALSE, rest |-> ours]
=============================================================================
