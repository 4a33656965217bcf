---------------------------- MODULE MCConnections ----------------------------
(***************************************************************************)
(* Instances of Connections for TLC.                                       *)
(***************************************************************************)
EXTENDS Connections, TLC

CONSTANTS a   \* a credential

MCUuids == {a}

\* One user: without limits, with a speed, with another, with one device.
MCUserLists ==
    {[u \in Users |-> [uuid |-> a, speed |-> 1, devices |-> 1]],
     [u \in Users |-> [uuid |-> a, speed |-> 2, devices |-> 0]],
     [u \in Users |-> Absent]}

MCSymmetry == Permutations(Conns)
=============================================================================
