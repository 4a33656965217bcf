------------------------------ MODULE PanelPush ------------------------------
(***************************************************************************)
(* What a node that also has a WebSocket shares with its panel: PullLoop,  *)
(* a connection, and the events the panel pushes while connected.          *)
(* Whoever EXTENDS this module says where an event goes.                   *)
(***************************************************************************)
EXTENDS PullLoop, PanelEvents

CONSTANTS
    FullSyncOnConnect,  \* does the panel push a full sync to a new connection?
    Deltas              \* does it push changes of one user as deltas?

ASSUME PanelPushAssumption == FullSyncOnConnect \in BOOLEAN /\ Deltas \in BOOLEAN

VARIABLE conn           \* WSClient.connected

\* handleDataEvent ignores a user list that is empty, TranslateWSEvent a
\* configuration that does not validate.
Pushable(e) ==
    /\ e.type = "users" => e.users # NoUsers
    /\ e.type = "config" => e.cfg \notin Malformed

\* What a full sync consists of.
FullSyncEvents ==
    LET Sent(e) == IF Pushable(e) THEN <<e>> ELSE <<>>
    IN  IF FullSyncOnConnect
        THEN Sent(ConfigEvent(pcfg)) \o Sent(UsersEvent(pusers))
        ELSE <<>>

\* A change at the panel, and Push of the event for it: a whole document, or
\* one user added, changed or removed as a delta.
EditAndPush(Push(_)) ==
    \/ EditConfig /\ Push(ConfigEvent(pcfg'))
    \/ \E list \in PanelLists : EditUsers(list) /\ Push(UsersEvent(list))
    \/ /\ Deltas
       /\ \E i \in UserIds, uuid \in Uuids :
            LET delta == [NoUsers EXCEPT ![i] = uuid]
            IN  \/ EditUsers(Merge(pusers, delta)) /\ Push(DeltaEvent("add", delta))
                \/ EditUsers(Subtract(pusers, delta)) /\ Push(DeltaEvent("remove", delta))
       /\ pusers' \in PanelLists
=============================================================================
