----------------------------- MODULE MCXrayNode -----------------------------
(***************************************************************************)
(* Instances of XrayNode for TLC.                                          *)
(***************************************************************************)
EXTENDS XrayNode, TLC

CONSTANTS a, b   \* credentials

MCUuids == {a, b}

\* The two credentials are interchangeable.
MCSymmetry == Permutations(MCUuids)
=============================================================================
