---------------------------- MODULE MCNodeMailbox ----------------------------
(***************************************************************************)
(* Instances of NodeMailbox for TLC.                                       *)
(***************************************************************************)
EXTENDS NodeMailbox

CONSTANTS a, b   \* credentials

MCUuids == {a, b}

MCInput ==
    {ConfigEvent(c) : c \in {1, 2}}
        \cup {UsersEvent(list) : list \in Lists}
        \cup {DeltaEvent(action, list) : action \in DeltaActions, list \in Lists}
        \cup {DevicesEvent(d) : d \in {1, 2}}

MCBaseConfigs == {1, 2}
=============================================================================
