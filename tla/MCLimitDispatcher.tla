------------------------- MODULE MCLimitDispatcher -------------------------
(***************************************************************************)
(* Instances of LimitDispatcher for TLC.                                   *)
(***************************************************************************)
EXTENDS LimitDispatcher, TLC

CONSTANTS c1, c2, c3   \* connections

MCConns == {c1, c2, c3}

\* Connections are interchangeable.
MCSymmetry == Permutations(MCConns)
=============================================================================
