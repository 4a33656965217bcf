---------------------------- MODULE MCMachineNode ----------------------------
(***************************************************************************)
(* Instances of MachineNode for TLC.                                       *)
(***************************************************************************)
EXTENDS MachineNode

CONSTANTS a, b   \* credentials

MCUuids == {a, b}

\* What configuration c says: the second edit goes back to the first one.
MCContent(c) == IF c = 3 THEN 1 ELSE c

MCSomeUsers == Lists \ {NoUsers}
=============================================================================
