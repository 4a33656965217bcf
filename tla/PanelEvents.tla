----------------------------- MODULE PanelEvents -----------------------------
(***************************************************************************)
(* The events a panel pushes to one node, as controlplane.Event has them   *)
(* after TranslateWSEvent.                                                 *)
(***************************************************************************)
EXTENDS UserLists, Naturals

ConfigEvent(cfg) == [type |-> "config", cfg |-> cfg]

UsersEvent(list) == [type |-> "users", users |-> list]

DeltaEvent(action, list) == [type |-> "delta", action |-> action, users |-> list]

\* Actions of a delta; any other string behaves like "unknown".
DeltaActions == {"add", "remove", "unknown"}

Events == [type : {"config"}, cfg : Nat]
            \cup [type : {"users"}, users : Lists]
            \cup [type : {"delta"}, action : DeltaActions, users : Lists]
=============================================================================
