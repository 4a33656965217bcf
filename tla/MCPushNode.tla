----------------------------- MODULE MCPushNode -----------------------------
(***************************************************************************)
(* Instances of PushNode for TLC.                                          *)
(***************************************************************************)
EXTENDS PushNode

CONSTANTS a, b   \* credentials

MCUuids == {a, b}

\* What configuration c says: the second edit goes back to the first one.
MCContent(c) == IF c = 3 THEN 1 ELSE c

MCOneUuid == {a}

MCSomeUsers == Lists \ {NoUsers}

\* Up to a permutation of users and credentials, every list but NoUsers.
MCStartLists == {list \in Lists : list[1] = a}
=============================================================================
