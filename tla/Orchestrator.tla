---------------------------- MODULE Orchestrator ----------------------------
(***************************************************************************)
(* The nodes of one machine (internal/machine/machine.go): the main loop   *)
(* of Run and the goroutines that sync.nodes starts discover which nodes   *)
(* the panel assigns, start and stop them; each node runs on a goroutine   *)
(* of its own that registers and unregisters itself.                       *)
(*                                                                         *)
(* Each step is one critical section of Orchestrator.mu or eventsMu, or a  *)
(* request.  What a node does while it runs is MachineNode.                *)
(***************************************************************************)
EXTENDS Naturals, FiniteSets

CONSTANTS
    Nodes,          \* node IDs
    Instances,      \* node handles, with their service and mailbox
    Main,           \* the loop of Run
    Syncs,          \* goroutines of sync.nodes
    None,           \* no handle
    MaxEdits,       \* bound on changes of the assignment
    MaxSyncs,       \* bound on sync.nodes events
    MaxFaults       \* bound on failing requests

ASSUME OrchestratorAssumption ==
    /\ Main \notin Syncs
    /\ None \notin Instances
    /\ {MaxEdits, MaxSyncs, MaxFaults} \subseteq Nat

VARIABLES
    assigned,       \* the panel: the nodes of this machine
    nodes,          \* Orchestrator.nodes
    mailboxes,      \* Orchestrator.mailboxes: whose mailbox
    statuses,       \* Orchestrator.statuses: whose channel
    inst,           \* instances: stage, node, and whether nodeCtx is cancelled
    work,           \* what Main and the goroutines are doing
    phase,          \* Run: "initial", "running", "stopping", "stopped"
    ws,             \* Orchestrator.ws is not nil
    ctxDone,        \* the context of Run is cancelled
    overlapped,     \* history: two rediscoveries were under way at a time
    edits, syncs, faults

routes == <<nodes, mailboxes, statuses>>
control == <<phase, ws, ctxDone>>
bounds == <<edits, syncs, faults>>
vars == <<assigned, routes, inst, work, control, overlapped, bounds>>

Workers == Syncs \cup {Main}

Phases == {"initial", "running", "stopping", "stopped"}

\* "created": in nodes only; "initial": in Service.Run before registerNode;
\* "exiting": Service.Run has returned.
Live == {"initial", "running", "exiting"}
InstanceStages == Live \cup {"free", "created", "done"}

\* nodeHandle, its service and its goroutine
Handles == [stage : InstanceStages, node : Nodes \cup {None}, cancelled : BOOLEAN]

\* list: the response of GetMachineNodes; todo: nodes still to stop or start, and
\* in stopAll the handles to wait for; handle: the one being started or stopped.
Stages == {"idle", "list", "handshake", "diff", "stop", "unroute", "wait",
           "start", "route", "stopAll"}

Tasks == [stage : Stages, list : SUBSET Nodes, todo : SUBSET (Nodes \cup Instances),
          handle : Instances \cup {None}]

Idle == [stage |-> "idle", list |-> {}, todo |-> {}, handle |-> None]

Init ==
    /\ assigned \in SUBSET Nodes
    /\ nodes = [n \in Nodes |-> None]
    /\ mailboxes = nodes /\ statuses = nodes
    /\ inst = [i \in Instances |-> [stage |-> "free", node |-> None, cancelled |-> FALSE]]
    /\ work = [w \in Workers |-> IF w = Main THEN [Idle EXCEPT !.stage = "list"] ELSE Idle]
    /\ phase = "initial" /\ ws = FALSE /\ ctxDone = FALSE /\ overlapped = FALSE
    /\ edits = 0 /\ syncs = 0 /\ faults = 0

Cancelled(i) == inst[i].cancelled \/ ctxDone

\* A handle nothing refers to any more.
Unused(i) ==
    /\ inst[i].stage \in {"free", "done"}
    /\ \A n \in Nodes : i \notin {nodes[n], mailboxes[n], statuses[n]}
    /\ \A w \in Workers : work[w].handle # i /\ i \notin work[w].todo

-----------------------------------------------------------------------------
(* The panel, and the end of the process *)

PanelAssigns ==
    /\ edits < MaxEdits
    /\ \E n \in Nodes : assigned' = IF n \in assigned THEN assigned \ {n}
                                    ELSE assigned \cup {n}
    /\ edits' = edits + 1
    /\ UNCHANGED <<routes, inst, work, control, overlapped, syncs, faults>>

\* A signal, or a new configuration file.
Shutdown ==
    /\ ~ctxDone /\ phase # "stopped"
    /\ ctxDone' = TRUE
    /\ UNCHANGED <<assigned, routes, inst, work, phase, ws, overlapped, bounds>>

-----------------------------------------------------------------------------
(* Rediscovery *)

Busy(w) == work[w].stage # "idle"

Begin(w, todo, stage) ==
    /\ ~Busy(w)
    /\ work' = [work EXCEPT ![w] = [Idle EXCEPT !.stage = stage, !.todo = todo]]
    /\ overlapped' = (overlapped \/ \E v \in Workers : Busy(v))

\* discoveryTicker
DiscoveryTick ==
    /\ phase = "running"
    /\ Begin(Main, {}, "list")
    /\ UNCHANGED <<assigned, routes, inst, control, bounds>>

\* onWSEvent, sync.nodes: a goroutine of its own.
SyncNodes(w) ==
    /\ ws /\ phase # "stopped" /\ syncs < MaxSyncs
    /\ Begin(w, {}, "list")
    /\ syncs' = syncs + 1
    /\ UNCHANGED <<assigned, routes, inst, control, edits, faults>>

\* GetMachineNodes
Discover(w) ==
    /\ work[w].stage = "list"
    /\ work' = [work EXCEPT
          ![w].stage = IF w = Main /\ phase = "initial" THEN "handshake" ELSE "diff",
          ![w].list = assigned]
    /\ UNCHANGED <<assigned, routes, inst, control, overlapped, bounds>>

\* Only the first failure ends Run.
DiscoveryFails(w) ==
    /\ work[w].stage = "list" /\ faults < MaxFaults
    /\ work' = [work EXCEPT ![w] = Idle]
    /\ phase' = IF w = Main /\ phase = "initial" THEN "stopped" ELSE phase
    /\ faults' = faults + 1
    /\ UNCHANGED <<assigned, routes, inst, ws, ctxDone, overlapped, edits, syncs>>

\* tryStartWS: the panel may have disabled it, and the handshake may fail.
TryStartWS ==
    /\ work[Main].stage = "handshake"
    /\ ws' \in BOOLEAN
    /\ work' = [work EXCEPT ![Main].stage = "start", ![Main].todo = work[Main].list]
    /\ UNCHANGED <<assigned, routes, inst, phase, ctxDone, overlapped, bounds>>

\* Under mu: the nodes to remove.
Compare(w) ==
    /\ work[w].stage = "diff"
    /\ work' = [work EXCEPT
          ![w].stage = "stop",
          ![w].todo = {n \in Nodes : nodes[n] # None /\ n \notin work[w].list}]
    /\ UNCHANGED <<assigned, routes, inst, control, overlapped, bounds>>

\* stopNode: under mu, the handle, unless another rediscovery was first.
StopNode(w) ==
    /\ work[w].stage = "stop"
    /\ \E n \in work[w].todo :
          /\ nodes' = [nodes EXCEPT ![n] = None]
          /\ work' = [work EXCEPT ![w].todo = @ \ {n}, ![w].handle = nodes[n],
                                  ![w].stage = IF nodes[n] = None THEN "stop" ELSE "unroute"]
    /\ UNCHANGED <<assigned, mailboxes, statuses, inst, control, overlapped, bounds>>

\* Mutant of Unroute: the node is not told to stop.
Unroute_NoCancel(w) ==
    /\ work[w].stage = "unroute"
    /\ mailboxes' = [mailboxes EXCEPT ![inst[work[w].handle].node] = None]
    /\ work' = [work EXCEPT ![w].stage = "wait"]
    /\ UNCHANGED <<assigned, nodes, statuses, inst, control, overlapped, bounds>>

\* Under eventsMu, the mailbox, whoever's it is; then cancel.
Unroute(w) ==
    /\ work[w].stage = "unroute"
    /\ mailboxes' = [mailboxes EXCEPT ![inst[work[w].handle].node] = None]
    /\ inst' = [inst EXCEPT ![work[w].handle].cancelled = TRUE]
    /\ work' = [work EXCEPT ![w].stage = "wait"]
    /\ UNCHANGED <<assigned, nodes, statuses, control, overlapped, bounds>>

\* Mutant of Wait: stopNode does not wait for the node to end.
Wait_Not(w) ==
    /\ work[w].stage = "wait"
    /\ work' = [work EXCEPT ![w].stage = "stop", ![w].handle = None]
    /\ UNCHANGED <<assigned, routes, inst, control, overlapped, bounds>>

Wait(w) ==
    /\ work[w].stage = "wait"
    /\ inst[work[w].handle].stage = "done"
    /\ work' = [work EXCEPT ![w].stage = "stop", ![w].handle = None]
    /\ UNCHANGED <<assigned, routes, inst, control, overlapped, bounds>>

AllStopped(w) ==
    /\ work[w].stage = "stop" /\ work[w].todo = {}
    /\ work' = [work EXCEPT ![w].stage = "start", ![w].todo = work[w].list]
    /\ UNCHANGED <<assigned, routes, inst, control, overlapped, bounds>>

\* Mutant of HasHandle: the map is not looked at.
HasHandle_Unchecked(n) == FALSE

HasHandle(n) == nodes[n] # None

\* startNode: under mu, a handle for a node that has none.
StartNode(w) ==
    /\ work[w].stage = "start"
    /\ \E n \in work[w].todo :
          IF HasHandle(n)
          THEN /\ work' = [work EXCEPT ![w].todo = @ \ {n}]
               /\ UNCHANGED <<nodes, inst>>
          ELSE \E i \in Instances :
                  /\ Unused(i)
                  /\ nodes' = [nodes EXCEPT ![n] = i]
                  /\ inst' = [inst EXCEPT ![i] = [stage |-> "created", node |-> n,
                                                  cancelled |-> FALSE]]
                  /\ work' = [work EXCEPT ![w].todo = @ \ {n}, ![w].handle = i,
                                          ![w].stage = "route"]
    /\ UNCHANGED <<assigned, mailboxes, statuses, control, overlapped, bounds>>

\* The rest of startNode: under eventsMu, the mailbox; then the goroutine.
Route(w) ==
    /\ work[w].stage = "route"
    /\ LET i == work[w].handle
       IN  /\ mailboxes' = [mailboxes EXCEPT ![inst[i].node] = i]
           /\ inst' = [inst EXCEPT ![i].stage = "initial"]
    /\ work' = [work EXCEPT ![w].stage = "start", ![w].handle = None]
    /\ UNCHANGED <<assigned, nodes, statuses, control, overlapped, bounds>>

AllStarted(w) ==
    /\ work[w].stage = "start" /\ work[w].todo = {}
    /\ work' = [work EXCEPT ![w] = Idle]
    /\ phase' = IF w = Main /\ phase = "initial" THEN "running" ELSE phase
    /\ UNCHANGED <<assigned, routes, inst, ws, ctxDone, overlapped, bounds>>

\* stopAll: a copy of the handles; their contexts are cancelled with ctx.
StopAll ==
    /\ phase = "running" /\ ctxDone
    /\ Begin(Main, {nodes[n] : n \in {m \in Nodes : HasHandle(m)}}, "stopAll")
    /\ phase' = "stopping"
    /\ UNCHANGED <<assigned, routes, inst, ws, ctxDone, bounds>>

RunEnds ==
    /\ work[Main].stage = "stopAll"
    /\ \A i \in work[Main].todo : inst[i].stage = "done"
    /\ work' = [work EXCEPT ![Main] = Idle]
    /\ phase' = "stopped"
    /\ UNCHANGED <<assigned, routes, inst, ws, ctxDone, overlapped, bounds>>

-----------------------------------------------------------------------------
(* The goroutine of a node *)

\* Initial succeeded: registerNode, when there is a WebSocket.
RegisterNode(i) ==
    /\ inst[i].stage = "initial"
    /\ inst' = [inst EXCEPT ![i].stage = "running"]
    /\ statuses' = IF ws THEN [statuses EXCEPT ![inst[i].node] = i] ELSE statuses
    /\ UNCHANGED <<assigned, nodes, mailboxes, work, control, overlapped, bounds>>

\* The bootstrap of the node fails.
InitialFails(i) ==
    /\ inst[i].stage = "initial" /\ faults < MaxFaults
    /\ inst' = [inst EXCEPT ![i].stage = "exiting"]
    /\ faults' = faults + 1
    /\ UNCHANGED <<assigned, routes, work, control, overlapped, edits, syncs>>

\* Mutant of RunReturns: only a node that is stopped by itself ends.
RunReturns_IgnoresShutdown(i) ==
    /\ inst[i].stage = "running" /\ inst[i].cancelled
    /\ inst' = [inst EXCEPT ![i].stage = "exiting"]
    /\ UNCHANGED <<assigned, routes, work, control, overlapped, bounds>>

\* nodeCtx is cancelled.
RunReturns(i) ==
    /\ inst[i].stage = "running" /\ Cancelled(i)
    /\ inst' = [inst EXCEPT ![i].stage = "exiting"]
    /\ UNCHANGED <<assigned, routes, work, control, overlapped, bounds>>

\* unregisterNode, whoever is registered; then done is closed.
UnregisterNode(i) ==
    /\ inst[i].stage = "exiting"
    /\ mailboxes' = [mailboxes EXCEPT ![inst[i].node] = None]
    /\ statuses' = [statuses EXCEPT ![inst[i].node] = None]
    /\ inst' = [inst EXCEPT ![i].stage = "done"]
    /\ UNCHANGED <<assigned, nodes, work, control, overlapped, bounds>>

-----------------------------------------------------------------------------
Works(w) ==
    \/ Discover(w) \/ Compare(w)
    \/ StopNode(w) \/ Unroute(w) \/ Wait(w) \/ AllStopped(w)
    \/ StartNode(w) \/ Route(w) \/ AllStarted(w)

Runs(i) == RegisterNode(i) \/ RunReturns(i) \/ UnregisterNode(i)

Next ==
    \/ PanelAssigns \/ Shutdown
    \/ DiscoveryTick \/ TryStartWS \/ StopAll \/ RunEnds
    \/ \E w \in Syncs : SyncNodes(w)
    \/ \E w \in Workers : Works(w) \/ DiscoveryFails(w)
    \/ \E i \in Instances : Runs(i) \/ InitialFails(i)

\* Goroutines are scheduled and requests end.  select chooses between a tick and
\* the cancelled context at random: neither is passed over for ever.
Fairness ==
    /\ \A w \in Workers : WF_vars(Works(w))
    /\ \A i \in Instances : WF_vars(Runs(i))
    /\ WF_vars(TryStartWS) /\ WF_vars(DiscoveryTick)
    /\ SF_vars(StopAll) /\ WF_vars(RunEnds)

FairSpec == Init /\ [][Next]_vars /\ Fairness

-----------------------------------------------------------------------------
(* Properties *)

\* The maps hold handles of the nodes they list, and a goroutine that starts or stops a
\* node has the handle to do it with, whatever other rediscoveries do meanwhile.
TypeOK ==
    /\ assigned \subseteq Nodes
    /\ {nodes, mailboxes, statuses} \subseteq [Nodes -> Instances \cup {None}]
    /\ inst \in [Instances -> Handles]
    /\ work \in [Workers -> Tasks]
    /\ \A w \in Workers :
          /\ work[w].handle \in Instances <=> work[w].stage \in {"unroute", "wait", "route"}
          /\ work[w].stage # "stopAll" => work[w].todo \subseteq Nodes
    /\ phase \in Phases /\ {ws, ctxDone, overlapped} \subseteq BOOLEAN
    /\ {edits, syncs, faults} \subseteq Nat

\* However rediscoveries overlap, a node that runs can still be stopped: it is in
\* Orchestrator.nodes, unless it is cancelled or a stopNode is about to do so.
NoOrphans ==
    \A i \in Instances :
        inst[i].stage \in {"created", "initial", "running"} /\ ~Cancelled(i) =>
            \/ nodes[inst[i].node] = i
            \/ \E w \in Workers : work[w].stage = "unroute" /\ work[w].handle = i

\* As long as rediscoveries do not overlap, at most one service runs per node (they would
\* share its port) and events and statuses reach the one that does: unregisterNode
\* and stopNode delete by node ID, yet never what a later start has entered.
Routed ==
    ~overlapped =>
        \A i \in Instances : inst[i].stage \in Live =>
            /\ \A j \in Instances : inst[j].stage \in Live /\ inst[j].node = inst[i].node => i = j
            /\ inst[i].stage # "exiting" /\ nodes[inst[i].node] = i
               => /\ mailboxes[inst[i].node] = i
                  /\ inst[i].stage = "running" /\ ws => statuses[inst[i].node] = i

\* A node that the panel has taken away for good ends, also when a rediscovery
\* with an older list starts it once more.
RemovedNodesLeave ==
    \A n \in Nodes : <>[](n \notin assigned) =>
        <>[](\A i \in Instances : inst[i].node = n => inst[i].stage \notin Live)

\* When the process is told to end, Run returns and every node ends, also one that
\* a rediscovery started after stopAll had copied the handles.
ShutdownEnds ==
    <>ctxDone => <>[](phase = "stopped" /\ \A i \in Instances : inst[i].stage \notin Live)

\* A node that stays assigned is served in the end, with its mailbox where onWSEvent looks,
\* as long as no bootstrap fails (rediscover does not start again a node
\* whose Run returned an error) and rediscoveries do not overlap.
AssignedNodesServe ==
    /\ []~overlapped
    /\ [](\A i \in Instances : inst[i].stage \in {"exiting", "done"} => Cancelled(i))
    => \A n \in Nodes :
          <>[](n \in assigned /\ ~ctxDone /\ phase # "stopped") =>
          <>[](mailboxes[n] # None /\ inst[mailboxes[n]].stage = "running")
=============================================================================
