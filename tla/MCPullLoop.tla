----------------------------- MODULE MCPullLoop -----------------------------
(***************************************************************************)
(* Instances of PullLoop for TLC.                                          *)
(***************************************************************************)
EXTENDS PullLoop

CONSTANTS a, b   \* credentials

MCUuids == {a, b}

\* What configuration c says: the third edit goes back to the first one.
MCContent(c) == IF c = 3 THEN 1 ELSE c

\* Up to a permutation of credentials, every list.
MCStartLists == {list \in Lists : list[1] # b}
=============================================================================
