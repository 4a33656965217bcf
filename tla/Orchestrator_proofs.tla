------------------------ MODULE Orchestrator_proofs ------------------------
(***************************************************************************)
(* Theorems about Orchestrator, for any number of nodes, rediscoveries and *)
(* handles.                                                                *)
(***************************************************************************)
EXTENDS Orchestrator, TLAPS

Assigned(w, t) == work' = [work EXCEPT ![w] = t]

\* What TypeOK says of one goroutine.
TaskOK(t) ==
    /\ t \in Tasks
    /\ t.handle \in Instances <=> t.stage \in {"unroute", "wait", "route"}
    /\ t.stage # "stopAll" => t.todo \subseteq Nodes

LEMMA IdleOK == TaskOK(Idle)
  BY OrchestratorAssumption DEF TaskOK, Tasks, Idle, Stages

\* A step of goroutine w keeps the tasks well-formed when it leaves w's so.
LEMMA OneTask ==
    ASSUME TypeOK, NEW w \in Workers, NEW t, Assigned(w, t), TaskOK(t)
    PROVE  /\ work' \in [Workers -> Tasks]
           /\ \A v \in Workers : TaskOK(work'[v])
  BY DEF TypeOK, Assigned, TaskOK

LEMMA TaskOf ==
    ASSUME TypeOK, NEW w \in Workers
    PROVE  TaskOK(work[w])
  BY DEF TypeOK, TaskOK

\* The steps of a rediscovery, one by one.
LEMMA WorkStep ==
    ASSUME TypeOK, NEW w \in Workers, Works(w) \/ DiscoveryFails(w)
    PROVE  \E t : Assigned(w, t) /\ TaskOK(t)
<1> DEFINE old == work[w]
<1>a. TaskOK(old)
  BY TaskOf
<1>b. old = [stage |-> old.stage, list |-> old.list, todo |-> old.todo, handle |-> old.handle]
  BY <1>a DEF TaskOK, Tasks
<1>c. work \in [Workers -> Tasks] /\ assigned \subseteq Nodes
      /\ nodes \in [Nodes -> Instances \cup {None}]
  BY DEF TypeOK
<1>1. CASE Discover(w)
  <2> DEFINE t == [old EXCEPT !.stage = IF w = Main /\ phase = "initial"
                                        THEN "handshake" ELSE "diff", !.list = assigned]
  <2>1. Assigned(w, t)
    BY <1>1, <1>c DEF Discover, Assigned
  <2>2. TaskOK(t)
    BY <1>1, <1>a, <1>c, OrchestratorAssumption DEF Discover, TaskOK, Tasks, Stages
  <2> QED BY <2>1, <2>2
<1>2. CASE Compare(w)
  <2> DEFINE t == [old EXCEPT !.stage = "stop",
                              !.todo = {n \in Nodes : nodes[n] # None /\ n \notin old.list}]
  <2>1. Assigned(w, t)
    BY <1>2, <1>c DEF Compare, Assigned
  <2>2. TaskOK(t)
    BY <1>2, <1>a, <1>c DEF Compare, TaskOK, Tasks, Stages
  <2> QED BY <2>1, <2>2
<1>3. CASE StopNode(w)
  <2>1. PICK n \in old.todo :
            work' = [work EXCEPT ![w].todo = @ \ {n}, ![w].handle = nodes[n],
                        ![w].stage = IF nodes[n] = None THEN "stop" ELSE "unroute"]
    BY <1>3 DEF StopNode
  <2>2. n \in Nodes /\ nodes[n] \in Instances \cup {None}
    BY <1>3, <1>a, <1>c DEF StopNode, TaskOK
  <2> DEFINE t == [old EXCEPT !.todo = @ \ {n}, !.handle = nodes[n],
                              !.stage = IF nodes[n] = None THEN "stop" ELSE "unroute"]
  <2>3. Assigned(w, t)
    BY <2>1, <1>c DEF Assigned
  <2>4. TaskOK(t)
    BY <1>3, <2>2, <1>a, OrchestratorAssumption DEF StopNode, TaskOK, Tasks, Stages
  <2> QED BY <2>3, <2>4
<1>4. CASE Unroute(w)
  <2> DEFINE t == [old EXCEPT !.stage = "wait"]
  <2>1. Assigned(w, t)
    BY <1>4, <1>c DEF Unroute, Assigned
  <2>2. TaskOK(t)
    BY <1>4, <1>a DEF Unroute, TaskOK, Tasks, Stages
  <2> QED BY <2>1, <2>2
<1>5. CASE Wait(w)
  <2> DEFINE t == [old EXCEPT !.stage = "stop", !.handle = None]
  <2>1. Assigned(w, t)
    BY <1>5, <1>c DEF Wait, Assigned
  <2>2. TaskOK(t)
    BY <1>5, <1>a, OrchestratorAssumption DEF Wait, TaskOK, Tasks, Stages
  <2> QED BY <2>1, <2>2
<1>6. CASE AllStopped(w)
  <2> DEFINE t == [old EXCEPT !.stage = "start", !.todo = old.list]
  <2>1. Assigned(w, t)
    BY <1>6, <1>c DEF AllStopped, Assigned
  <2>2. TaskOK(t)
    BY <1>6, <1>a DEF AllStopped, TaskOK, Tasks, Stages
  <2> QED BY <2>1, <2>2
<1>7. CASE StartNode(w)
  <2>1. PICK n \in old.todo :
            \/ work' = [work EXCEPT ![w].todo = @ \ {n}]
            \/ \E i \in Instances :
                  work' = [work EXCEPT ![w].todo = @ \ {n}, ![w].handle = i,
                                       ![w].stage = "route"]
    BY <1>7 DEF StartNode
  <2>2. CASE work' = [work EXCEPT ![w].todo = @ \ {n}]
    <3> DEFINE t == [old EXCEPT !.todo = @ \ {n}]
    <3>1. Assigned(w, t)
      BY <2>2, <1>c DEF Assigned
    <3>2. TaskOK(t)
      BY <1>7, <1>a DEF StartNode, TaskOK, Tasks, Stages
    <3> QED BY <3>1, <3>2
  <2>3. ASSUME NEW i \in Instances,
               work' = [work EXCEPT ![w].todo = @ \ {n}, ![w].handle = i, ![w].stage = "route"]
        PROVE  \E t : Assigned(w, t) /\ TaskOK(t)
    <3> DEFINE t == [old EXCEPT !.todo = @ \ {n}, !.handle = i, !.stage = "route"]
    <3>1. Assigned(w, t)
      BY <2>3, <1>c DEF Assigned
    <3>2. TaskOK(t)
      BY <1>7, <1>a DEF StartNode, TaskOK, Tasks, Stages
    <3> QED BY <3>1, <3>2
  <2> QED BY <2>1, <2>2, <2>3
<1>8. CASE Route(w)
  <2> DEFINE t == [old EXCEPT !.stage = "start", !.handle = None]
  <2>1. Assigned(w, t)
    BY <1>8, <1>c DEF Route, Assigned
  <2>2. TaskOK(t)
    BY <1>8, <1>a, OrchestratorAssumption DEF Route, TaskOK, Tasks, Stages
  <2> QED BY <2>1, <2>2
<1>9. CASE AllStarted(w) \/ DiscoveryFails(w)
  BY <1>9, IdleOK DEF AllStarted, DiscoveryFails, Assigned
<1> QED BY <1>1, <1>2, <1>3, <1>4, <1>5, <1>6, <1>7, <1>8, <1>9 DEF Works

\* What a step of a goroutine leaves of TypeOK, given its task.
LEMMA RestTyped ==
    ASSUME TypeOK, NEW w \in Workers, Works(w) \/ DiscoveryFails(w)
    PROVE  /\ assigned \subseteq Nodes /\ assigned' = assigned
           /\ {nodes, mailboxes, statuses}' \subseteq [Nodes -> Instances \cup {None}]
           /\ inst' \in [Instances -> Handles]
           /\ phase' \in Phases /\ {ws, ctxDone, overlapped}' \subseteq BOOLEAN
           /\ {edits, syncs, faults}' \subseteq Nat
<1>1. TaskOK(work[w])
  BY TaskOf
<1>2. CASE Discover(w) \/ Compare(w) \/ Wait(w) \/ AllStopped(w)
  BY <1>2 DEF TypeOK, Discover, Compare, Wait, AllStopped, routes, control, bounds
<1>3. CASE DiscoveryFails(w) \/ AllStarted(w)
  <2>1. phase' \in Phases
    BY <1>3 DEF TypeOK, DiscoveryFails, AllStarted, Phases
  <2>2. {edits, syncs, faults}' \subseteq Nat
    BY <1>3 DEF TypeOK, DiscoveryFails, AllStarted, bounds
  <2> QED BY <1>3, <2>1, <2>2 DEF TypeOK, DiscoveryFails, AllStarted, routes
<1>4. CASE StopNode(w)
  <2>1. nodes' \in [Nodes -> Instances \cup {None}]
    BY <1>4 DEF StopNode, TypeOK
  <2> QED BY <1>4, <2>1 DEF StopNode, TypeOK, control, bounds
<1>5. CASE Unroute(w)
  <2> DEFINE i == work[w].handle
  <2>1. mailboxes' \in [Nodes -> Instances \cup {None}]
    BY <1>5 DEF Unroute, TypeOK
  <2>2. inst' \in [Instances -> Handles]
    <3>1. i \in Instances /\ inst[i] \in Handles
      BY <1>1, <1>5 DEF Unroute, TaskOK, TypeOK
    <3>2. inst' = [inst EXCEPT ![i].cancelled = TRUE]
      BY <1>5 DEF Unroute
    <3> HIDE DEF i
    <3> QED BY <3>1, <3>2 DEF TypeOK, Handles
  <2> QED BY <1>5, <2>1, <2>2 DEF Unroute, TypeOK, control, bounds
<1>6. CASE StartNode(w)
  <2>1. PICK n \in work[w].todo :
            \/ UNCHANGED <<nodes, inst>>
            \/ \E i \in Instances :
                  /\ nodes' = [nodes EXCEPT ![n] = i]
                  /\ inst' = [inst EXCEPT ![i] = [stage |-> "created", node |-> n,
                                                  cancelled |-> FALSE]]
    BY <1>6 DEF StartNode
  <2>2. n \in Nodes
    BY <1>1, <1>6 DEF StartNode, TaskOK
  <2>3. [stage |-> "created", node |-> n, cancelled |-> FALSE] \in Handles
    BY <2>2 DEF Handles, InstanceStages
  <2>4. nodes' \in [Nodes -> Instances \cup {None}] /\ inst' \in [Instances -> Handles]
    <3>1. CASE UNCHANGED <<nodes, inst>>
      BY <3>1 DEF TypeOK
    <3>2. ASSUME NEW i \in Instances,
                 nodes' = [nodes EXCEPT ![n] = i],
                 inst' = [inst EXCEPT ![i] = [stage |-> "created", node |-> n,
                                              cancelled |-> FALSE]]
          PROVE  nodes' \in [Nodes -> Instances \cup {None}] /\ inst' \in [Instances -> Handles]
      <4> DEFINE made == [stage |-> "created", node |-> n, cancelled |-> FALSE]
      <4>1. made \in Handles /\ inst' = [inst EXCEPT ![i] = made]
        BY <2>3, <3>2
      <4> HIDE DEF made
      <4> QED BY <3>2, <4>1 DEF TypeOK
    <3> QED BY <2>1, <3>1, <3>2
  <2> QED BY <1>6, <2>4 DEF StartNode, TypeOK, control, bounds
<1>7. CASE Route(w)
  <2> DEFINE i == work[w].handle
  <2>1. i \in Instances /\ inst[i] \in Handles
    BY <1>1, <1>7 DEF Route, TaskOK, TypeOK
  <2>2. mailboxes' = [mailboxes EXCEPT ![inst[i].node] = i]
        /\ inst' = [inst EXCEPT ![i].stage = "initial"]
    BY <1>7 DEF Route
  <2>3. UNCHANGED <<nodes, statuses, control, overlapped, bounds>>
    BY <1>7 DEF Route
  <2>4. assigned' = assigned
    BY <1>7 DEF Route
  <2> HIDE DEF i
  <2>5. inst' \in [Instances -> Handles]
    BY <2>1, <2>2 DEF TypeOK, Handles, InstanceStages, Live
  <2>6. mailboxes' \in [Nodes -> Instances \cup {None}]
    BY <2>1, <2>2 DEF TypeOK
  <2> QED BY <2>3, <2>4, <2>5, <2>6 DEF TypeOK, control, bounds
<1> QED BY <1>2, <1>3, <1>4, <1>5, <1>6, <1>7 DEF Works

LEMMA TypeInit == Init => TypeOK
<1> SUFFICES ASSUME Init PROVE TypeOK
  OBVIOUS
<1>1. TaskOK(Idle) /\ TaskOK([Idle EXCEPT !.stage = "list"])
  BY IdleOK, OrchestratorAssumption DEF TaskOK, Tasks, Idle, Stages
<1>2. /\ work \in [Workers -> Tasks]
      /\ \A w \in Workers : TaskOK(work[w])
  BY <1>1 DEF Init, TaskOK
<1>3. inst \in [Instances -> Handles]
  BY DEF Init, Handles, InstanceStages
<1>4. {nodes, mailboxes, statuses} \subseteq [Nodes -> Instances \cup {None}]
  BY DEF Init
<1>5. assigned \subseteq Nodes /\ phase \in Phases
  BY DEF Init, Phases
<1>6. {ws, ctxDone, overlapped} \subseteq BOOLEAN
  BY DEF Init
<1>7. {edits, syncs, faults} \subseteq Nat
  BY DEF Init
<1> QED BY <1>2, <1>3, <1>4, <1>5, <1>6, <1>7 DEF TypeOK, TaskOK

LEMMA TypeStep == TypeOK /\ [Next]_vars => TypeOK'
<1> SUFFICES ASSUME TypeOK, [Next]_vars PROVE TypeOK'
  OBVIOUS
<1>1. ASSUME NEW w \in Workers, Works(w) \/ DiscoveryFails(w) PROVE TypeOK'
  <2>1. PICK t : Assigned(w, t) /\ TaskOK(t)
    BY <1>1, WorkStep
  <2>2. /\ work' \in [Workers -> Tasks]
        /\ \A v \in Workers : TaskOK(work'[v])
    BY <2>1, OneTask
  <2> QED BY <1>1, <2>2, RestTyped DEF TypeOK, TaskOK
<1>2. ASSUME NEW w \in Workers, NEW todo, NEW stage, Begin(w, todo, stage),
             TaskOK([Idle EXCEPT !.stage = stage, !.todo = todo])
      PROVE  /\ work' \in [Workers -> Tasks]
             /\ \A v \in Workers : TaskOK(work'[v])
             /\ overlapped' \in BOOLEAN
  <2> DEFINE t == [Idle EXCEPT !.stage = stage, !.todo = todo]
  <2>1. Assigned(w, t)
    BY <1>2 DEF Begin, Assigned
  <2>2. overlapped' \in BOOLEAN
    BY <1>2 DEF Begin, TypeOK
  <2> HIDE DEF t
  <2> QED BY <1>2, <2>1, <2>2, OneTask DEF t
<1>3. TaskOK([Idle EXCEPT !.stage = "list", !.todo = {}])
  BY OrchestratorAssumption DEF TaskOK, Tasks, Idle, Stages
<1>4. CASE PanelAssigns
  BY <1>4 DEF PanelAssigns, TypeOK, routes, control
<1>5. CASE Shutdown
  BY <1>5 DEF Shutdown, TypeOK, routes, bounds
<1>6. CASE DiscoveryTick
  BY <1>2, <1>3, <1>6 DEF DiscoveryTick, TypeOK, TaskOK, routes, control, bounds, Workers
<1>7. ASSUME NEW w \in Syncs, SyncNodes(w) PROVE TypeOK'
  <2>1. /\ work' \in [Workers -> Tasks]
        /\ \A v \in Workers : TaskOK(work'[v])
        /\ overlapped' \in BOOLEAN
    BY <1>2, <1>3, <1>7 DEF SyncNodes, Workers
  <2>2. {edits, syncs, faults}' \subseteq Nat
    BY <1>7 DEF SyncNodes, TypeOK
  <2>3. UNCHANGED <<assigned, routes, inst, control>>
    BY <1>7 DEF SyncNodes
  <2> QED BY <2>1, <2>2, <2>3 DEF TypeOK, TaskOK, routes, control
<1>8. CASE TryStartWS
  <2> DEFINE t == [work[Main] EXCEPT !.stage = "start", !.todo = work[Main].list]
  <2>1. Main \in Workers /\ TaskOK(work[Main])
    BY TaskOf DEF Workers
  <2>2. Assigned(Main, t)
    BY <1>8, <2>1 DEF TryStartWS, Assigned, TypeOK
  <2>3. TaskOK(t)
    BY <1>8, <2>1 DEF TryStartWS, TaskOK, Tasks, Stages
  <2>4. /\ work' \in [Workers -> Tasks]
        /\ \A v \in Workers : TaskOK(work'[v])
    BY <2>1, <2>2, <2>3, OneTask
  <2> QED BY <1>8, <2>4 DEF TryStartWS, TypeOK, TaskOK, routes, bounds
<1>9. CASE StopAll
  <2> DEFINE handles == {nodes[n] : n \in {m \in Nodes : HasHandle(m)}}
  <2>1. handles \subseteq Instances
    BY DEF TypeOK, HasHandle
  <2>2. TaskOK([Idle EXCEPT !.stage = "stopAll", !.todo = handles])
    BY <2>1, OrchestratorAssumption DEF TaskOK, Tasks, Idle, Stages
  <2>3. Begin(Main, handles, "stopAll") /\ phase' = "stopping"
        /\ UNCHANGED <<assigned, routes, inst, ws, ctxDone, bounds>>
    BY <1>9 DEF StopAll
  <2> HIDE DEF handles
  <2>4. /\ work' \in [Workers -> Tasks]
        /\ \A v \in Workers : TaskOK(work'[v])
        /\ overlapped' \in BOOLEAN
    BY <1>2, <2>2, <2>3 DEF Workers
  <2> QED BY <2>3, <2>4 DEF TypeOK, TaskOK, routes, bounds, Phases
<1>10. CASE RunEnds
  <2>1. /\ work' \in [Workers -> Tasks]
        /\ \A v \in Workers : TaskOK(work'[v])
    BY <1>10, IdleOK, OneTask DEF RunEnds, Assigned, Workers
  <2> QED BY <1>10, <2>1 DEF RunEnds, TypeOK, TaskOK, routes, bounds, Phases
<1>11. ASSUME NEW i \in Instances, Runs(i) \/ InitialFails(i) PROVE TypeOK'
  <2>1. inst' \in [Instances -> Handles]
    BY <1>11 DEF Runs, RegisterNode, RunReturns, UnregisterNode, InitialFails, TypeOK,
                 Handles, InstanceStages, Live
  <2>2. {mailboxes, statuses}' \subseteq [Nodes -> Instances \cup {None}]
    BY <1>11 DEF Runs, RegisterNode, RunReturns, UnregisterNode, InitialFails, TypeOK, routes
  <2> QED BY <1>11, <2>1, <2>2 DEF Runs, RegisterNode, RunReturns, UnregisterNode,
             InitialFails, TypeOK, routes, control, bounds
<1>12. CASE UNCHANGED vars
  BY <1>12 DEF vars, TypeOK, routes, control, bounds
<1> QED BY <1>1, <1>4, <1>5, <1>6, <1>7, <1>8, <1>9, <1>10, <1>11, <1>12 DEF Next

\* The type invariant is inductive by itself: the maps of the orchestrator hold handles, and
\* every rediscovery has the handle its place in startNode or stopNode needs
\* (machine.go:117-200).
THEOREM TypeCorrect == Init /\ [][Next]_vars => []TypeOK
  BY TypeInit, TypeStep, PTL

-----------------------------------------------------------------------------
\* What NoOrphans rests on: the handle that a startNode is about to launch has
\* not been launched, and no other startNode is about to launch it.
Launches ==
    \A w \in Workers : work[w].stage = "route" =>
        /\ inst[work[w].handle].stage = "created"
        /\ \A v \in Workers :
              work[v].stage = "route" /\ work[v].handle = work[w].handle => v = w

\* A handle that was ever given to a node names it.
Placed == \A i \in Instances : inst[i].stage # "free" => inst[i].node \in Nodes

Inv == TypeOK /\ NoOrphans /\ Launches /\ Placed

\* A step of goroutine w between the critical sections disturbs nothing.
LEMMA Quiet ==
    ASSUME Inv, NEW w \in Workers, UNCHANGED <<nodes, inst, ctxDone>>,
           work[w].stage \notin {"unroute", "route"},
           work'[w].stage \notin {"unroute", "route"},
           \A v \in Workers \ {w} : work'[v] = work[v]
    PROVE  NoOrphans' /\ Launches' /\ Placed'
  BY DEF Inv, NoOrphans, Launches, Placed, Cancelled

LEMMA OthersKept ==
    ASSUME TypeOK, NEW w \in Workers, NEW t, Assigned(w, t)
    PROVE  work'[w] = t /\ \A v \in Workers \ {w} : work'[v] = work[v]
  BY DEF TypeOK, Assigned

\* Every step keeps running nodes stoppable and launches apart.
LEMMA OrphanStep ==
    ASSUME Inv, [Next]_vars
    PROVE  NoOrphans' /\ Launches' /\ Placed'
<1>a. TypeOK /\ NoOrphans /\ Launches /\ Placed
  BY DEF Inv
<1>b. ASSUME NEW w \in Workers PROVE TaskOK(work[w])
  BY <1>a, TaskOf
<1>c. \A w \in Workers : work[w].stage = "route" => work[w].handle \in Instances
  BY <1>b DEF TaskOK
<1>d. ASSUME NEW i \in Instances,
             inst[i].stage \in {"created", "initial", "running"}, ~Cancelled(i)
      PROVE  \/ nodes[inst[i].node] = i
             \/ \E w \in Workers : work[w].stage = "unroute" /\ work[w].handle = i
  BY <1>a, <1>d DEF NoOrphans
<1>1. ASSUME NEW w \in Workers, Works(w) \/ DiscoveryFails(w)
      PROVE  NoOrphans' /\ Launches' /\ Placed'
  <2>a. PICK t : Assigned(w, t) /\ TaskOK(t)
    BY <1>1, <1>a, WorkStep
  <2>b. work'[w] = t /\ \A v \in Workers \ {w} : work'[v] = work[v]
    BY <2>a, <1>a, OthersKept
  <2>1. CASE Discover(w) \/ Compare(w) \/ Wait(w) \/ AllStopped(w)
             \/ DiscoveryFails(w) \/ AllStarted(w)
    <3>1. UNCHANGED <<nodes, inst, ctxDone>>
      BY <2>1 DEF Discover, Compare, Wait, AllStopped, DiscoveryFails, AllStarted, routes,
                  control
    <3>2. work[w].stage \notin {"unroute", "route"}
      BY <2>1 DEF Discover, Compare, Wait, AllStopped, DiscoveryFails, AllStarted
    <3>3. work'[w].stage \notin {"unroute", "route"}
      BY <2>1, <1>a DEF Discover, Compare, Wait, AllStopped, DiscoveryFails, AllStarted, TypeOK,
                        Tasks, Idle
    <3> QED BY <2>b, <3>1, <3>2, <3>3, Quiet
  <2>2. CASE StopNode(w)
    <3>1. PICK n \in work[w].todo :
              /\ nodes' = [nodes EXCEPT ![n] = None]
              /\ work' = [work EXCEPT ![w].todo = @ \ {n}, ![w].handle = nodes[n],
                              ![w].stage = IF nodes[n] = None THEN "stop" ELSE "unroute"]
      BY <2>2 DEF StopNode
    <3>2. n \in Nodes /\ UNCHANGED <<inst, ctxDone>> /\ work[w].stage = "stop"
      BY <2>2, <1>b DEF StopNode, TaskOK, control
    <3>3. /\ work'[w].handle = nodes[n]
          /\ work'[w].stage = IF nodes[n] = None THEN "stop" ELSE "unroute"
      BY <3>1, <1>a DEF TypeOK, Tasks
    <3>4. Launches' /\ Placed'
      BY <1>a, <2>b, <3>2, <3>3 DEF Launches, Placed
    <3>5. ASSUME NEW i \in Instances,
                 inst[i].stage \in {"created", "initial", "running"}, ~Cancelled(i)
          PROVE  \/ nodes'[inst[i].node] = i
                 \/ \E v \in Workers : work'[v].stage = "unroute" /\ work'[v].handle = i
      <4>1. inst[i].node \in Nodes /\ i # None
        BY <1>a, <3>5, OrchestratorAssumption DEF Placed
      <4>2. CASE nodes[inst[i].node] = i
        BY <4>1, <4>2, <3>1, <3>3, <1>a DEF TypeOK
      <4>3. CASE \E v \in Workers : work[v].stage = "unroute" /\ work[v].handle = i
        BY <4>3, <2>b, <3>2
      <4> QED BY <4>2, <4>3, <1>a, <3>5 DEF NoOrphans
    <3> QED BY <3>2, <3>4, <3>5 DEF NoOrphans, Cancelled
  <2>3. CASE Unroute(w)
    <3>1. PICK h \in Instances :
              h = work[w].handle /\ inst' = [inst EXCEPT ![h].cancelled = TRUE]
      BY <2>3, <1>b DEF Unroute, TaskOK
    <3>2. work'[w].stage = "wait" /\ nodes' = nodes /\ ctxDone' = ctxDone
      BY <2>3, <1>a DEF Unroute, TypeOK, Tasks, control
    <3>3. \A i \in Instances : /\ inst'[i].stage = inst[i].stage
                               /\ inst'[i].node = inst[i].node
      BY <3>1, <1>a DEF TypeOK, Handles
    <3>4. inst'[h].cancelled /\ \A i \in Instances \ {h} : inst'[i] = inst[i]
      BY <3>1, <1>a DEF TypeOK, Handles
    <3>5. Placed'
      BY <1>a, <3>3 DEF Placed
    <3>6. ASSUME NEW v \in Workers, work'[v].stage = "route"
          PROVE  v # w /\ work'[v] = work[v]
      BY <2>b, <3>2, <3>6
    <3>7. Launches'
      BY <1>a, <1>c, <3>3, <3>6 DEF Launches
    <3>8. ASSUME NEW i \in Instances,
                 inst'[i].stage \in {"created", "initial", "running"}, ~Cancelled(i)'
          PROVE  \/ nodes'[inst'[i].node] = i
                 \/ \E v \in Workers : work'[v].stage = "unroute" /\ work'[v].handle = i
      <4>1. ~inst'[i].cancelled /\ ~ctxDone'
        BY <3>8 DEF Cancelled
      <4>2. i # h
        BY <3>4, <4>1, Zenon
      <4>3. inst'[i] = inst[i]
        BY <3>4, <4>2
      <4>4. ~Cancelled(i)
        BY <3>2, <4>1, <4>3, Zenon DEF Cancelled
      <4>5. CASE \E v \in Workers : work[v].stage = "unroute" /\ work[v].handle = i
        BY <2>b, <3>1, <4>2, <4>5
      <4> QED BY <1>d, <3>2, <3>8, <4>3, <4>4, <4>5
    <3> QED BY <3>5, <3>7, <3>8 DEF NoOrphans
  <2>4. CASE StartNode(w)
    <3>1. PICK n \in work[w].todo :
              \/ /\ work' = [work EXCEPT ![w].todo = @ \ {n}]
                 /\ UNCHANGED <<nodes, inst>>
              \/ \E i \in Instances :
                    /\ nodes[n] = None /\ Unused(i)
                    /\ nodes' = [nodes EXCEPT ![n] = i]
                    /\ inst' = [inst EXCEPT ![i] = [stage |-> "created", node |-> n,
                                                    cancelled |-> FALSE]]
                    /\ work' = [work EXCEPT ![w].todo = @ \ {n}, ![w].handle = i,
                                            ![w].stage = "route"]
      BY <2>4 DEF StartNode, HasHandle
    <3>2. n \in Nodes /\ ctxDone' = ctxDone /\ work[w].stage = "start"
      BY <2>4, <1>b DEF StartNode, TaskOK, control
    <3>3. CASE work' = [work EXCEPT ![w].todo = @ \ {n}] /\ UNCHANGED <<nodes, inst>>
      <4>1. work'[w].stage = "start"
        BY <3>2, <3>3, <1>a DEF TypeOK, Tasks
      <4> QED BY <2>b, <3>2, <3>3, <4>1, Quiet
    <3>4. ASSUME NEW i \in Instances, nodes[n] = None, Unused(i),
                 nodes' = [nodes EXCEPT ![n] = i],
                 inst' = [inst EXCEPT ![i] = [stage |-> "created", node |-> n,
                                              cancelled |-> FALSE]],
                 work' = [work EXCEPT ![w].todo = @ \ {n}, ![w].handle = i,
                                      ![w].stage = "route"]
          PROVE  NoOrphans' /\ Launches' /\ Placed'
      <4>1. work'[w].stage = "route" /\ work'[w].handle = i
        BY <3>4, <1>a DEF TypeOK, Tasks
      <4>2. /\ inst'[i].stage = "created" /\ inst'[i].node = n
            /\ \A j \in Instances \ {i} : inst'[j] = inst[j]
        BY <3>4, <1>a DEF TypeOK
      <4>3. nodes'[n] = i /\ \A m \in Nodes \ {n} : nodes'[m] = nodes[m]
        BY <3>2, <3>4, <1>a DEF TypeOK
      <4>4. \A v \in Workers : work[v].handle # i
        BY <3>4 DEF Unused
      <4>5. Placed'
        BY <1>a, <3>2, <4>2 DEF Placed
      <4>6. Launches'
        BY <1>a, <1>b, <2>b, <4>1, <4>2, <4>4 DEF Launches, TaskOK
      <4>7. ASSUME NEW j \in Instances,
                   inst'[j].stage \in {"created", "initial", "running"}, ~Cancelled(j)'
            PROVE  \/ nodes'[inst'[j].node] = j
                   \/ \E v \in Workers : work'[v].stage = "unroute" /\ work'[v].handle = j
        <5>1. CASE j = i
          BY <5>1, <4>2, <4>3
        <5>2. CASE j # i
          <6>1. inst'[j] = inst[j] /\ ~Cancelled(j)
            BY <5>2, <4>2, <4>7, <3>2 DEF Cancelled
          <6>2. inst[j].node \in Nodes /\ j # None
            BY <6>1, <4>7, <1>a, OrchestratorAssumption DEF Placed
          <6>3. CASE nodes[inst[j].node] = j
            BY <6>1, <6>2, <6>3, <3>4, <4>3
          <6>4. CASE \E v \in Workers : work[v].stage = "unroute" /\ work[v].handle = j
            BY <6>4, <2>b, <3>2
          <6> QED BY <6>1, <6>3, <6>4, <4>7, <1>a DEF NoOrphans
        <5> QED BY <5>1, <5>2
      <4> QED BY <4>5, <4>6, <4>7 DEF NoOrphans
    <3> QED BY <3>1, <3>3, <3>4
  <2>5. CASE Route(w)
    <3>1. PICK h \in Instances :
              h = work[w].handle /\ inst' = [inst EXCEPT ![h].stage = "initial"]
      BY <2>5, <1>b DEF Route, TaskOK
    <3>2. /\ work[w].stage = "route" /\ work'[w].stage = "start"
          /\ nodes' = nodes /\ ctxDone' = ctxDone
      BY <2>5, <1>a DEF Route, TypeOK, Tasks, control
    <3>3. inst[h].stage = "created"
      BY <1>a, <3>1, <3>2 DEF Launches
    <3>4. /\ inst'[h].stage = "initial"
          /\ \A i \in Instances : /\ inst'[i].node = inst[i].node
                                  /\ inst'[i].cancelled = inst[i].cancelled
                                  /\ i # h => inst'[i] = inst[i]
      BY <3>1, <1>a DEF TypeOK, Handles
    <3>5. \A v \in Workers \ {w} : work[v].stage = "route" => work[v].handle # h
      BY <1>a, <3>1, <3>2 DEF Launches
    <3>6. Placed'
      BY <1>a, <3>3, <3>4 DEF Placed
    <3>7. ASSUME NEW v \in Workers, work'[v].stage = "route"
          PROVE  v # w /\ work'[v] = work[v]
      BY <2>b, <3>2, <3>7
    <3>8. Launches'
      BY <1>a, <1>c, <3>4, <3>5, <3>7 DEF Launches
    <3>9. ASSUME NEW i \in Instances,
                 inst'[i].stage \in {"created", "initial", "running"}, ~Cancelled(i)'
          PROVE  \/ nodes'[inst'[i].node] = i
                 \/ \E v \in Workers : work'[v].stage = "unroute" /\ work'[v].handle = i
      <4>1. inst[i].stage \in {"created", "initial", "running"}
        BY <3>3, <3>4, <3>9
      <4>2. ~inst'[i].cancelled /\ ~ctxDone'
        BY <3>9 DEF Cancelled
      <4>3. inst'[i].cancelled = inst[i].cancelled
        BY <3>4
      <4>4. ~Cancelled(i)
        BY <3>2, <4>2, <4>3, Zenon DEF Cancelled
      <4>5. CASE \E v \in Workers : work[v].stage = "unroute" /\ work[v].handle = i
        BY <2>b, <3>2, <4>5
      <4> QED BY <1>d, <3>2, <3>4, <4>1, <4>4, <4>5
    <3> QED BY <3>6, <3>8, <3>9 DEF NoOrphans
  <2> QED BY <1>1, <2>1, <2>2, <2>3, <2>4, <2>5 DEF Works
<1>2. ASSUME NEW w \in Workers, NEW todo, NEW stage, Begin(w, todo, stage),
             stage \notin {"unroute", "route"}, UNCHANGED <<nodes, inst, ctxDone>>
      PROVE  NoOrphans' /\ Launches' /\ Placed'
  <2> DEFINE t == [Idle EXCEPT !.stage = stage, !.todo = todo]
  <2>1. Assigned(w, t) /\ work[w].stage = "idle"
    BY <1>2 DEF Begin, Assigned, Busy
  <2>2. t.stage = stage
    BY DEF Idle
  <2> HIDE DEF t
  <2>3. work'[w] = t /\ \A v \in Workers \ {w} : work'[v] = work[v]
    BY <2>1, <1>a, OthersKept
  <2> QED BY <1>2, <2>1, <2>2, <2>3, Quiet
<1>3. CASE PanelAssigns \/ Shutdown \/ UNCHANGED vars
  BY <1>3, <1>a DEF PanelAssigns, Shutdown, vars, routes, control, NoOrphans, Launches, Placed,
                    Cancelled
<1>4. CASE DiscoveryTick \/ StopAll
  <2>1. /\ UNCHANGED <<nodes, inst, ctxDone>> /\ Main \in Workers
        /\ \E todo, stage : Begin(Main, todo, stage) /\ stage \notin {"unroute", "route"}
    BY <1>4 DEF DiscoveryTick, StopAll, routes, control, Workers
  <2> QED BY <2>1, <1>2
<1>5. ASSUME NEW w \in Syncs, SyncNodes(w) PROVE NoOrphans' /\ Launches' /\ Placed'
  <2>1. /\ UNCHANGED <<nodes, inst, ctxDone>> /\ w \in Workers
        /\ Begin(w, {}, "list")
    BY <1>5 DEF SyncNodes, routes, control, Workers
  <2> QED BY <2>1, <1>2
<1>6. CASE TryStartWS \/ RunEnds
  <2>1. /\ UNCHANGED <<nodes, inst, ctxDone>> /\ Main \in Workers
        /\ work[Main].stage \notin {"unroute", "route"}
    BY <1>6 DEF TryStartWS, RunEnds, routes, Workers
  <2>2. work'[Main].stage \notin {"unroute", "route"}
    BY <1>6, <2>1, <1>a DEF TryStartWS, RunEnds, TypeOK, Tasks, Idle
  <2>3. \A v \in Workers \ {Main} : work'[v] = work[v]
    BY <1>6, <1>a DEF TryStartWS, RunEnds, TypeOK
  <2> QED BY <2>1, <2>2, <2>3, Quiet
<1>7. ASSUME NEW i \in Instances, Runs(i) \/ InitialFails(i)
      PROVE  NoOrphans' /\ Launches' /\ Placed'
  <2>1. UNCHANGED <<nodes, work, ctxDone>>
    BY <1>7 DEF Runs, RegisterNode, RunReturns, UnregisterNode, InitialFails, routes, control
  <2>2. \E stage \in {"running", "exiting", "done"} :
            /\ inst' = [inst EXCEPT ![i].stage = stage]
            /\ stage = "running" => inst[i].stage = "initial"
        /\ inst[i].stage \notin {"created", "free"}
    BY <1>7 DEF Runs, RegisterNode, RunReturns, UnregisterNode, InitialFails
  <2>3. /\ \A j \in Instances : /\ inst'[j].node = inst[j].node
                                /\ inst'[j].cancelled = inst[j].cancelled
                                /\ j # i => inst'[j] = inst[j]
        /\ inst'[i].stage \in {"running", "exiting", "done"}
        /\ inst'[i].stage = "running" => inst[i].stage = "initial"
    BY <2>2, <1>a DEF TypeOK, Handles
  <2>4. Placed' /\ Launches'
    BY <1>a, <1>b, <2>1, <2>2, <2>3 DEF Placed, Launches, TaskOK
  <2>5. ASSUME NEW j \in Instances,
               inst'[j].stage \in {"created", "initial", "running"}, ~Cancelled(j)'
        PROVE  \/ nodes'[inst'[j].node] = j
               \/ \E v \in Workers : work'[v].stage = "unroute" /\ work'[v].handle = j
    <3>1. /\ inst[j].stage \in {"created", "initial", "running"}
          /\ inst'[j].node = inst[j].node
      BY <2>2, <2>3, <2>5
    <3>2. ~inst'[j].cancelled /\ ~ctxDone'
      BY <2>5 DEF Cancelled
    <3>3. ctxDone' = ctxDone
      BY <2>1
    <3>4. inst'[j].cancelled = inst[j].cancelled
      BY <2>3
    <3>5. ~Cancelled(j)
      BY <3>2, <3>3, <3>4, Zenon DEF Cancelled
    <3>6. \/ nodes[inst[j].node] = j
          \/ \E w \in Workers : work[w].stage = "unroute" /\ work[w].handle = j
      BY <1>d, <3>1, <3>5
    <3> QED BY <2>1, <3>1, <3>6
  <2> QED BY <2>4, <2>5 DEF NoOrphans
<1> QED BY <1>1, <1>3, <1>4, <1>5, <1>6, <1>7 DEF Next

\* However rediscoveries overlap, a running node can be stopped, for any number of
\* nodes, rediscoveries and handles (stopNode and startNode, machine.go:117-200).
THEOREM NodesStoppable == Init /\ [][Next]_vars => []NoOrphans
<1>1. Init => Inv
  <2> SUFFICES ASSUME Init PROVE Inv
    OBVIOUS
  <2>1. \A i \in Instances : inst[i].stage = "free"
    BY DEF Init
  <2>2. \A w \in Workers : work[w].stage # "route"
    BY DEF Init, Idle
  <2> QED BY <2>1, <2>2, TypeInit DEF Inv, NoOrphans, Launches, Placed
<1>2. Inv /\ [Next]_vars => Inv'
  BY TypeStep, OrphanStep DEF Inv
<1>3. Inv => NoOrphans
  BY DEF Inv
<1> QED BY <1>1, <1>2, <1>3, PTL

-----------------------------------------------------------------------------
(* Rediscoveries that do not overlap *)

Stopping(i) ==
    \E w \in Workers : work[w].stage \in {"unroute", "wait"} /\ work[w].handle = i

\* A handle in Orchestrator.nodes is one of the node it is listed for.
Named == \A n \in Nodes : nodes[n] # None => inst[nodes[n]].node = n

\* Before the WebSocket has been tried there is nobody but Main.
NothingYet ==
    work[Main].stage = "handshake" \/ (phase = "initial" /\ work[Main].stage = "list") =>
        /\ ~ws
        /\ \A w \in Syncs : ~Busy(w)
        /\ \A i \in Instances : inst[i].stage = "free"

Alone == \A v, w \in Workers : Busy(v) /\ Busy(w) => v = w

\* Who runs is listed or about to end, and a node that is being stopped is not listed.
Traced ==
    /\ \A w \in Workers :
          /\ work[w].stage \in {"unroute", "wait"} => nodes[inst[work[w].handle].node] = None
          /\ work[w].stage = "route" => nodes[inst[work[w].handle].node] = work[w].handle
    /\ \A i \in Instances : inst[i].stage \in Live => nodes[inst[i].node] = i \/ Stopping(i)

Entered ==
    \A i \in Instances :
        inst[i].stage \in {"initial", "running"} /\ nodes[inst[i].node] = i =>
            /\ mailboxes[inst[i].node] = i
            /\ inst[i].stage = "running" /\ ws => statuses[inst[i].node] = i

Undisturbed == Alone /\ Traced /\ Entered

RouteInv == Inv /\ Named /\ NothingYet /\ (~overlapped => Undisturbed)

\* One service per node.
LEMMA OneLive ==
    ASSUME TypeOK, Alone, Traced,
           NEW i \in Instances, NEW j \in Instances,
           inst[i].stage \in Live, inst[j].stage \in Live, inst[i].node = inst[j].node
    PROVE  i = j
<1>1. i # None /\ j # None
  BY OrchestratorAssumption
<1>2. \A k \in Instances : Stopping(k) => nodes[inst[k].node] = None
  BY DEF Stopping, Traced
<1>3. nodes[inst[i].node] = i \/ Stopping(i)
  BY DEF Traced
<1>4. nodes[inst[j].node] = j \/ Stopping(j)
  BY DEF Traced
<1>5. CASE Stopping(i) /\ Stopping(j)
  <2>1. PICK v \in Workers : work[v].stage \in {"unroute", "wait"} /\ work[v].handle = i
    BY <1>5 DEF Stopping
  <2>2. PICK w \in Workers : work[w].stage \in {"unroute", "wait"} /\ work[w].handle = j
    BY <1>5 DEF Stopping
  <2>3. v = w
    BY <2>1, <2>2 DEF Alone, Busy
  <2> QED BY <2>1, <2>2, <2>3
<1> QED BY <1>1, <1>2, <1>3, <1>4, <1>5

LEMMA UndisturbedIsRouted == RouteInv => Routed
<1> SUFFICES ASSUME RouteInv, ~overlapped,
                    NEW i \in Instances, inst[i].stage \in Live
             PROVE  /\ \A j \in Instances :
                         inst[j].stage \in Live /\ inst[j].node = inst[i].node => i = j
                    /\ inst[i].stage # "exiting" /\ nodes[inst[i].node] = i
                         => /\ mailboxes[inst[i].node] = i
                            /\ inst[i].stage = "running" /\ ws => statuses[inst[i].node] = i
  BY DEF Routed
<1>1. TypeOK /\ Alone /\ Traced /\ Entered
  BY DEF RouteInv, Inv, Undisturbed
<1>2. \A j \in Instances : inst[j].stage \in Live /\ inst[j].node = inst[i].node => i = j
  BY <1>1, OneLive
<1>3. inst[i].stage # "exiting" => inst[i].stage \in {"initial", "running"}
  BY DEF Live
<1> QED BY <1>1, <1>2, <1>3 DEF Entered

\* A step of w between the critical sections: it may drop a handle that is done.
LEMMA PlainStep ==
    ASSUME RouteInv, NEW w \in Workers, UNCHANGED <<nodes, mailboxes, statuses, inst>>,
           \A v \in Workers \ {w} : work'[v] = work[v],
           work'[w].stage \notin {"unroute", "wait", "route"},
           work[w].stage = "wait" => inst[work[w].handle].stage = "done",
           work[w].stage # "unroute",
           UNCHANGED ws \/ \A i \in Instances : inst[i].stage = "free"
    PROVE  Named' /\ (Traced /\ Entered => Traced' /\ Entered')
<1>1. Named'
  BY DEF RouteInv, Named
<1>2. ASSUME Traced PROVE Traced'
  <2>1. \A i \in Instances : inst[i].stage \in Live /\ Stopping(i) => Stopping(i)'
    BY DEF Stopping, Live
  <2> QED BY <1>2, <2>1 DEF Traced
<1>3. Entered => Entered'
  BY DEF Entered
<1> QED BY <1>1, <1>2, <1>3

LEMMA AloneKept ==
    ASSUME Alone, NEW w \in Workers, Busy(w), \A v \in Workers \ {w} : work'[v] = work[v]
    PROVE  Alone'
  BY DEF Alone, Busy

\* Before the WebSocket has been tried, only Main's first two steps are possible.
LEMMA NothingYetKept ==
    ASSUME RouteInv,
           work'[Main].stage = "handshake" \/ (phase' = "initial" /\ work'[Main].stage = "list") =>
               /\ work[Main].stage = "handshake"
                     \/ (phase = "initial" /\ work[Main].stage = "list")
               /\ UNCHANGED <<ws, inst>> /\ \A w \in Syncs : work'[w] = work[w]
    PROVE  NothingYet'
  BY DEF RouteInv, NothingYet, Busy

LEMMA NothingYetWork ==
    ASSUME RouteInv, NEW w \in Workers, Works(w) \/ DiscoveryFails(w)
    PROVE  NothingYet'
<1>a. TypeOK /\ NothingYet /\ Main \in Workers /\ work[w] \in Tasks
  BY DEF RouteInv, Inv, TypeOK, Workers
<1>b. \A v \in Workers \ {w} : work'[v] = work[v]
  BY <1>a, WorkStep, OthersKept
<1>c. work[w].stage # "idle"
  BY DEF Works, Discover, Compare, StopNode, Unroute, Wait, AllStopped, StartNode, Route,
         AllStarted, DiscoveryFails
<1>1. CASE w # Main
  <2>1. work'[Main] = work[Main] /\ w \in Syncs /\ Busy(w)
    BY <1>1, <1>a, <1>b, <1>c DEF Workers, Busy
  <2>2. phase' = phase
    BY <1>1 DEF Works, Discover, Compare, StopNode, Unroute, Wait, AllStopped, StartNode, Route,
         AllStarted, DiscoveryFails, control
  <2> QED BY <1>a, <2>1, <2>2 DEF NothingYet
<1>2. CASE w = Main /\ Discover(w)
  <2>1. work'[Main].stage \in {"handshake", "diff"}
    BY <1>2, <1>a DEF Discover, TypeOK, Tasks
  <2>2. work'[Main].stage = "handshake" => phase = "initial" /\ work[Main].stage = "list"
    BY <1>2, <1>a DEF Discover, TypeOK, Tasks
  <2>3. UNCHANGED <<ws, inst>> /\ \A v \in Syncs : work'[v] = work[v]
    BY <1>2, <1>b, OrchestratorAssumption DEF Discover, control, Workers
  <2> QED BY <2>1, <2>2, <2>3, NothingYetKept
<1>3. CASE w = Main /\ ~Discover(w)
  <2>1. work'[Main].stage \notin {"handshake", "list"}
    <3>1. CASE AllStarted(w) \/ DiscoveryFails(w)
      BY <1>3, <1>a, <3>1 DEF AllStarted, DiscoveryFails, TypeOK, Idle
    <3>2. CASE StartNode(w)
      <4>1. PICK n \in work[w].todo :
                \/ work' = [work EXCEPT ![w].todo = @ \ {n}]
                \/ \E i \in Instances :
                      work' = [work EXCEPT ![w].todo = @ \ {n}, ![w].handle = i,
                                           ![w].stage = "route"]
        BY <3>2 DEF StartNode
      <4>2. work \in [Workers -> Tasks] /\ work[w].stage = "start"
        BY <3>2, <1>a DEF StartNode, TypeOK
      <4>3. work'[w].stage \in {"start", "route"}
        BY <4>1, <4>2, <1>a DEF Tasks
      <4> QED BY <1>3, <4>3
    <3>3. CASE StopNode(w)
      <4>1. PICK n \in work[w].todo :
                work' = [work EXCEPT ![w].todo = @ \ {n}, ![w].handle = nodes[n],
                            ![w].stage = IF nodes[n] = None THEN "stop" ELSE "unroute"]
        BY <3>3 DEF StopNode
      <4>2. work \in [Workers -> Tasks]
        BY <1>a DEF TypeOK
      <4>3. work'[w].stage \in {"stop", "unroute"}
        BY <4>1, <4>2, <1>a DEF Tasks
      <4> QED BY <1>3, <4>3
    <3>4. CASE Compare(w) \/ AllStopped(w)
      <4>1. work'[w].stage \in {"stop", "start"}
        BY <3>4, <1>a DEF Compare, AllStopped, TypeOK, Tasks
      <4> QED BY <1>3, <4>1
    <3>5. CASE Unroute(w) \/ Wait(w) \/ Route(w)
      <4>1. work'[w].stage \in {"wait", "stop", "start"}
        BY <3>5, <1>a DEF Unroute, Wait, Route, TypeOK, Tasks
      <4> QED BY <1>3, <4>1
    <3> QED BY <1>3, <3>1, <3>2, <3>3, <3>4, <3>5 DEF Works
  <2> QED BY <2>1 DEF NothingYet
<1> QED BY <1>1, <1>2, <1>3

\* The critical sections of stopNode and startNode keep what is known of the
\* nodes, as long as nobody else is in one.
LEMMA RouteWork ==
    ASSUME RouteInv, NEW w \in Workers, Works(w) \/ DiscoveryFails(w)
    PROVE  Named' /\ (~overlapped' => Undisturbed')
<1>a. /\ TypeOK /\ Named /\ Placed /\ Launches
      /\ nodes \in [Nodes -> Instances \cup {None}]
      /\ mailboxes \in [Nodes -> Instances \cup {None}]
      /\ inst \in [Instances -> Handles] /\ work \in [Workers -> Tasks]
  BY DEF RouteInv, Inv, TypeOK
<1>b. \A v \in Workers \ {w} : work'[v] = work[v]
  BY <1>a, WorkStep, OthersKept
<1>c. Busy(w) /\ overlapped' = overlapped
  BY DEF Works, Discover, Compare, StopNode, Unroute, Wait, AllStopped, StartNode, Route,
         AllStarted, DiscoveryFails, Busy
<1>d. ~overlapped => Alone /\ Traced /\ Entered /\ Alone'
  BY <1>b, <1>c, AloneKept DEF RouteInv, Undisturbed
<1>e. TaskOK(work[w])
  BY <1>a, TaskOf
<1>f. ~overlapped => \A v \in Workers \ {w} : work[v].stage = "idle"
  BY <1>c, <1>d DEF Alone, Busy
<1>g. SUFFICES Named' /\ (~overlapped => Traced' /\ Entered')
  BY <1>c, <1>d DEF Undisturbed
<1>1. CASE Discover(w) \/ Compare(w) \/ Wait(w) \/ AllStopped(w) \/ DiscoveryFails(w) \/ AllStarted(w)
  <2>1. UNCHANGED <<nodes, mailboxes, statuses, inst, ws>>
    BY <1>1 DEF Discover, Compare, Wait, AllStopped, DiscoveryFails, AllStarted, routes, control
  <2>2. /\ work[w].stage = "wait" => inst[work[w].handle].stage = "done"
        /\ work[w].stage # "unroute"
    BY <1>1 DEF Discover, Compare, Wait, AllStopped, DiscoveryFails, AllStarted
  <2>3. work'[w].stage \notin {"unroute", "wait", "route"}
    BY <1>1, <1>a DEF Discover, Compare, Wait, AllStopped, DiscoveryFails, AllStarted, Tasks, Idle
  <2> QED BY <1>b, <1>d, <2>1, <2>2, <2>3, PlainStep
<1>2. CASE StopNode(w)
  <2>1. PICK n \in work[w].todo :
            /\ nodes' = [nodes EXCEPT ![n] = None]
            /\ work' = [work EXCEPT ![w].todo = @ \ {n}, ![w].handle = nodes[n],
                            ![w].stage = IF nodes[n] = None THEN "stop" ELSE "unroute"]
    BY <1>2 DEF StopNode
  <2>2. /\ UNCHANGED <<mailboxes, statuses, inst, ws>> /\ work[w].stage = "stop" /\ n \in Nodes
    BY <1>2, <1>e DEF StopNode, TaskOK, control
  <2>3. /\ work'[w].handle = nodes[n]
        /\ work'[w].stage = IF nodes[n] = None THEN "stop" ELSE "unroute"
    BY <2>1, <1>a DEF Tasks
  <2>4. /\ nodes'[n] = None
        /\ \A m \in Nodes \ {n} : nodes'[m] = nodes[m]
    BY <2>1, <2>2, <1>a
  <2>5. Named'
    BY <1>a, <2>2, <2>4 DEF Named
  <2>6. ASSUME ~overlapped PROVE Traced'
    <3>1. \A v \in Workers :
             /\ work'[v].stage \in {"unroute", "wait"} => nodes'[inst'[work'[v].handle].node] = None
             /\ work'[v].stage = "route" =>
                    nodes'[inst'[work'[v].handle].node] = work'[v].handle
      BY <1>a, <1>b, <1>f, <2>2, <2>3, <2>4, <2>6 DEF Named
    <3>2. ASSUME NEW i \in Instances, inst'[i].stage \in Live
          PROVE  nodes'[inst'[i].node] = i \/ Stopping(i)'
      <4>1. inst[i].node \in Nodes
        BY <1>a, <2>2, <3>2 DEF Placed, Live
      <4>2. ~Stopping(i)
        BY <1>f, <2>2, <2>6 DEF Stopping
      <4>3. nodes[inst[i].node] = i
        BY <1>d, <2>2, <2>6, <3>2, <4>2 DEF Traced
      <4>4. CASE inst[i].node = n
        <5>1. i # None
          BY OrchestratorAssumption
        <5> QED BY <2>3, <4>3, <4>4, <5>1 DEF Stopping
      <4>5. CASE inst[i].node # n
        BY <2>2, <2>4, <4>1, <4>3, <4>5
      <4> QED BY <4>4, <4>5
    <3> QED BY <3>1, <3>2 DEF Traced
  <2>7. ASSUME ~overlapped PROVE Entered'
    <3>1. ASSUME NEW i \in Instances, nodes'[inst'[i].node] = i, inst'[i].stage # "free"
          PROVE  nodes[inst[i].node] = i
      <4>1. inst[i].node \in Nodes /\ i # None
        BY <1>a, <2>2, <3>1, OrchestratorAssumption DEF Placed
      <4> QED BY <2>2, <2>4, <3>1, <4>1
    <3> QED BY <1>d, <2>2, <2>7, <3>1 DEF Entered
  <2> QED BY <2>5, <2>6, <2>7
<1>3. CASE Unroute(w)
  <2>1. PICK h \in Instances :
            /\ h = work[w].handle
            /\ inst' = [inst EXCEPT ![h].cancelled = TRUE]
            /\ mailboxes' = [mailboxes EXCEPT ![inst[h].node] = None]
    BY <1>3, <1>e DEF Unroute, TaskOK
  <2>2. /\ UNCHANGED <<nodes, statuses, ws>> /\ work[w].stage = "unroute"
        /\ work'[w].stage = "wait" /\ work'[w].handle = h
    BY <1>3, <1>a, <2>1 DEF Unroute, Tasks, control
  <2>3. \A i \in Instances : /\ inst'[i].stage = inst[i].stage
                             /\ inst'[i].node = inst[i].node
    BY <2>1, <1>a DEF Handles
  <2>4. Named'
    BY <1>a, <2>2, <2>3 DEF Named
  <2>5. ASSUME ~overlapped PROVE Traced'
    <3>1. nodes[inst[h].node] = None
      BY <1>d, <2>1, <2>2, <2>5 DEF Traced
    <3>2. \A i \in Instances : Stopping(i) => Stopping(i)'
      BY <1>b, <2>1, <2>2 DEF Stopping
    <3>3. \A v \in Workers :
             /\ work'[v].stage \in {"unroute", "wait"} => nodes'[inst'[work'[v].handle].node] = None
             /\ work'[v].stage # "route"
      BY <1>b, <1>f, <2>2, <2>3, <2>5, <3>1
    <3> QED BY <1>d, <2>2, <2>3, <2>5, <3>2, <3>3 DEF Traced
  <2>6. ASSUME ~overlapped PROVE Entered'
    <3>1. nodes[inst[h].node] = None
      BY <1>d, <2>1, <2>2, <2>6 DEF Traced
    <3>2. \A i \in Instances : nodes[inst[i].node] = i => inst[i].node # inst[h].node
      BY <3>1, OrchestratorAssumption
    <3>3. \A m : m # inst[h].node => mailboxes'[m] = mailboxes[m]
      BY <2>1, <1>a
    <3> QED BY <1>d, <2>2, <2>3, <2>6, <3>2, <3>3 DEF Entered
  <2> QED BY <2>4, <2>5, <2>6
<1>4. CASE StartNode(w)
  <2>1. PICK n \in work[w].todo :
            \/ /\ work' = [work EXCEPT ![w].todo = @ \ {n}]
               /\ UNCHANGED <<nodes, inst>>
            \/ \E i \in Instances :
                  /\ nodes[n] = None /\ Unused(i)
                  /\ nodes' = [nodes EXCEPT ![n] = i]
                  /\ inst' = [inst EXCEPT ![i] = [stage |-> "created", node |-> n,
                                                  cancelled |-> FALSE]]
                  /\ work' = [work EXCEPT ![w].todo = @ \ {n}, ![w].handle = i,
                                          ![w].stage = "route"]
    BY <1>4 DEF StartNode, HasHandle
  <2>2. n \in Nodes /\ UNCHANGED <<mailboxes, statuses, ws>> /\ work[w].stage = "start"
    BY <1>4, <1>e DEF StartNode, TaskOK, control
  <2>3. CASE work' = [work EXCEPT ![w].todo = @ \ {n}] /\ UNCHANGED <<nodes, inst>>
    <3>1. work'[w].stage = "start"
      BY <2>2, <2>3, <1>a DEF Tasks
    <3> QED BY <1>b, <1>d, <2>2, <2>3, <3>1, PlainStep
  <2>4. ASSUME NEW h \in Instances, nodes[n] = None, Unused(h),
               nodes' = [nodes EXCEPT ![n] = h],
               inst' = [inst EXCEPT ![h] = [stage |-> "created", node |-> n,
                                            cancelled |-> FALSE]],
               work' = [work EXCEPT ![w].todo = @ \ {n}, ![w].handle = h, ![w].stage = "route"]
        PROVE  Named' /\ (~overlapped => Traced' /\ Entered')
    <3>1. work'[w].stage = "route" /\ work'[w].handle = h
      BY <2>4, <1>a DEF Tasks
    <3>2. /\ inst'[h].stage = "created" /\ inst'[h].node = n
          /\ \A j \in Instances \ {h} : inst'[j] = inst[j]
      BY <2>4, <1>a
    <3>3. nodes'[n] = h /\ \A m \in Nodes \ {n} : nodes'[m] = nodes[m]
      BY <2>2, <2>4, <1>a
    <3>4. \A m \in Nodes : nodes[m] # h
      BY <2>4 DEF Unused
    <3>5. Named'
      BY <1>a, <3>2, <3>3, <3>4 DEF Named
    <3>6. ASSUME ~overlapped,
                 NEW i \in Instances, inst'[i].stage \in Live
          PROVE  /\ i # h /\ inst'[i] = inst[i] /\ inst[i].node \in Nodes \ {n}
                 /\ nodes'[inst[i].node] = i /\ nodes[inst[i].node] = i
      <4>1. i # h /\ inst'[i] = inst[i]
        BY <3>2, <3>6 DEF Live
      <4>2. ~Stopping(i)
        BY <1>f, <2>2, <3>6 DEF Stopping
      <4>3. nodes[inst[i].node] = i /\ inst[i].node \in Nodes
        BY <1>a, <1>d, <3>6, <4>1, <4>2 DEF Traced, Placed, Live
      <4>4. inst[i].node # n
        BY <2>4, <4>3, OrchestratorAssumption
      <4> QED BY <3>3, <4>1, <4>3, <4>4
    <3>7. ASSUME ~overlapped PROVE Traced'
      <4>1. \A v \in Workers :
               /\ work'[v].stage \notin {"unroute", "wait"}
               /\ work'[v].stage = "route" =>
                     nodes'[inst'[work'[v].handle].node] = work'[v].handle
        BY <1>b, <1>f, <3>1, <3>2, <3>3, <3>7
      <4> QED BY <3>6, <3>7, <4>1 DEF Traced
    <3>8. ASSUME ~overlapped PROVE Entered'
      BY <1>d, <2>2, <3>6, <3>8 DEF Entered, Live
    <3> QED BY <3>5, <3>7, <3>8
  <2> QED BY <2>1, <2>3, <2>4
<1>5. CASE Route(w)
  <2>1. PICK h \in Instances :
            /\ h = work[w].handle
            /\ inst' = [inst EXCEPT ![h].stage = "initial"]
            /\ mailboxes' = [mailboxes EXCEPT ![inst[h].node] = h]
    BY <1>5, <1>e DEF Route, TaskOK
  <2>2. /\ UNCHANGED <<nodes, statuses, ws>>
        /\ work[w].stage = "route" /\ work'[w].stage = "start"
    BY <1>5, <1>a DEF Route, Tasks, control
  <2>3. /\ inst'[h].stage = "initial"
        /\ \A i \in Instances : inst'[i].node = inst[i].node /\ (i # h => inst'[i] = inst[i])
    BY <2>1, <1>a DEF Handles
  <2>4. Named'
    BY <1>a, <2>2, <2>3 DEF Named
  <2>5. inst[h].node \in Nodes
    BY <1>a, <2>1, <2>2 DEF Launches, Placed
  <2>6. ASSUME ~overlapped PROVE Traced'
    <3>1. nodes[inst[h].node] = h
      BY <1>d, <2>1, <2>2, <2>6 DEF Traced
    <3>2. \A v \in Workers : work'[v].stage \notin {"unroute", "wait", "route"}
      BY <1>b, <1>f, <2>2, <2>6
    <3>3. ASSUME NEW i \in Instances, inst'[i].stage \in Live PROVE nodes'[inst'[i].node] = i
      <4>1. CASE i = h
        BY <2>2, <2>3, <3>1, <4>1
      <4>2. CASE i # h
        <5>1. ~Stopping(i)
          BY <1>f, <2>2, <2>6 DEF Stopping
        <5> QED BY <1>d, <2>2, <2>3, <2>6, <3>3, <4>2, <5>1 DEF Traced
      <4> QED BY <4>1, <4>2
    <3> QED BY <3>2, <3>3 DEF Traced
  <2>7. ASSUME ~overlapped PROVE Entered'
    <3>1. nodes[inst[h].node] = h
      BY <1>d, <2>1, <2>2, <2>7 DEF Traced
    <3>2. mailboxes'[inst[h].node] = h
      BY <1>a, <2>1, <2>5
    <3>3. \A m : m # inst[h].node => mailboxes'[m] = mailboxes[m]
      BY <2>1, <1>a
    <3>4. \A i \in Instances : nodes[inst[i].node] = i /\ i # h => inst[i].node # inst[h].node
      BY <3>1
    <3> QED BY <1>d, <2>2, <2>3, <2>7, <3>1, <3>2, <3>3, <3>4 DEF Entered
  <2> QED BY <2>4, <2>6, <2>7
<1> QED BY <1>1, <1>2, <1>3, <1>4, <1>5 DEF Works

\* A rediscovery begins, or stopAll: it is alone unless overlapped is set.
LEMMA RouteBegin ==
    ASSUME RouteInv, NEW w \in Workers, NEW todo, NEW stage \in {"list", "stopAll"},
           Begin(w, todo, stage), UNCHANGED <<nodes, mailboxes, statuses, inst, ws>>
    PROVE  /\ work'[w].stage = stage /\ \A v \in Workers \ {w} : work'[v] = work[v]
           /\ Named' /\ (~overlapped' => Undisturbed')
<1>a. TypeOK
  BY DEF RouteInv, Inv
<1> DEFINE t == [Idle EXCEPT !.stage = stage, !.todo = todo]
<1>1. Assigned(w, t) /\ work[w].stage = "idle"
  BY DEF Begin, Assigned, Busy
<1>2. t.stage = stage
  BY DEF Idle
<1> HIDE DEF t
<1>3. work'[w].stage = stage /\ \A v \in Workers \ {w} : work'[v] = work[v]
  BY <1>a, <1>1, <1>2, OthersKept
<1>4. Named' /\ (Traced /\ Entered => Traced' /\ Entered')
  BY <1>1, <1>3, PlainStep
<1>5. ASSUME ~overlapped' PROVE Undisturbed'
  <2>1. ~overlapped /\ \A v \in Workers : ~Busy(v)
    BY <1>5 DEF Begin
  <2>2. Alone'
    BY <1>3, <2>1 DEF Alone, Busy
  <2> QED BY <1>4, <2>1, <2>2 DEF RouteInv, Undisturbed
<1> QED BY <1>3, <1>4, <1>5

\* A node that registers, ends or unregisters finds nobody else at its node's
\* entries.
LEMMA RouteRuns ==
    ASSUME RouteInv, NEW h \in Instances, Runs(h) \/ InitialFails(h)
    PROVE  Named' /\ NothingYet' /\ (~overlapped' => Undisturbed')
<1>a. /\ TypeOK /\ Named /\ NothingYet /\ Placed
      /\ mailboxes \in [Nodes -> Instances \cup {None}]
      /\ statuses \in [Nodes -> Instances \cup {None}]
      /\ inst \in [Instances -> Handles]
  BY DEF RouteInv, Inv, TypeOK
<1>1. UNCHANGED <<nodes, work, phase, ws, overlapped>>
  BY DEF Runs, RegisterNode, RunReturns, UnregisterNode, InitialFails, routes, control
<1>2. /\ inst[h].stage \in Live
      /\ \E stage \in {"running", "exiting", "done"} :
            inst' = [inst EXCEPT ![h].stage = stage]
  BY DEF Runs, RegisterNode, RunReturns, UnregisterNode, InitialFails, Live
<1>3. /\ \A j \in Instances : inst'[j].node = inst[j].node /\ (j # h => inst'[j] = inst[j])
      /\ inst'[h].stage \in {"running", "exiting", "done"}
  BY <1>2, <1>a DEF Handles
<1>4. \A j \in Instances : inst'[j].stage \in Live => inst[j].stage \in Live
  BY <1>2, <1>3
<1>5. inst[h].node \in Nodes
  BY <1>a, <1>2 DEF Placed, Live
<1>6. Named'
  BY <1>a, <1>1, <1>3 DEF Named, TypeOK
<1>7. NothingYet'
  BY <1>a, <1>1, <1>2 DEF NothingYet, Live
<1>8. ASSUME ~overlapped' PROVE Undisturbed'
  <2>1. Alone /\ Traced /\ Entered
    BY <1>1, <1>8 DEF RouteInv, Undisturbed
  <2>2. Alone'
    BY <1>1, <2>1 DEF Alone, Busy
  <2>3. Traced'
    <3>1. \A v \in Workers : work[v].stage \in {"unroute", "wait", "route"}
                                 => work[v].handle \in Instances
      BY <1>a DEF TypeOK
    <3>2. \A j \in Instances : Stopping(j)' <=> Stopping(j)
      BY <1>1 DEF Stopping
    <3> QED BY <1>1, <1>3, <1>4, <2>1, <3>1, <3>2 DEF Traced
  <2>4. ASSUME NEW j \in Instances, j # h, inst'[j].stage \in {"initial", "running"}
        PROVE  inst'[j] = inst[j] /\ inst[j].node \in Nodes \ {inst[h].node}
    <3>1. inst'[j] = inst[j] /\ inst[j].stage \in Live /\ inst[j].node \in Nodes
      BY <1>a, <1>3, <2>4 DEF Live, Placed
    <3> QED BY <1>a, <1>2, <2>1, <2>4, <3>1, OneLive
  <2>5. \A n \in Nodes : n # inst[h].node =>
            mailboxes'[n] = mailboxes[n] /\ statuses'[n] = statuses[n]
    <3>1. /\ mailboxes' \in {mailboxes, [mailboxes EXCEPT ![inst[h].node] = None]}
          /\ \/ statuses' = statuses
             \/ \E v : statuses' = [statuses EXCEPT ![inst[h].node] = v]
      BY DEF Runs, RegisterNode, RunReturns, UnregisterNode, InitialFails, routes
    <3> QED BY <1>a, <1>5, <3>1
  <2>6. ASSUME inst'[h].stage \in {"initial", "running"}, nodes'[inst'[h].node] = h
        PROVE  /\ mailboxes'[inst'[h].node] = h
               /\ inst'[h].stage = "running" /\ ws' => statuses'[inst'[h].node] = h
    <3>1. RegisterNode(h)
      <4>1. \A stage : inst' = [inst EXCEPT ![h].stage = stage] => inst'[h].stage = stage
        BY <1>a DEF Handles
      <4>2. ~RunReturns(h) /\ ~UnregisterNode(h) /\ ~InitialFails(h)
        BY <2>6, <4>1 DEF RunReturns, UnregisterNode, InitialFails
      <4> QED BY <4>2 DEF Runs
    <3>2. /\ inst[h].stage = "initial" /\ mailboxes' = mailboxes
          /\ ws => statuses' = [statuses EXCEPT ![inst[h].node] = h]
      BY <3>1 DEF RegisterNode
    <3>3. ws => statuses'[inst[h].node] = h
      BY <1>a, <1>5, <3>2
    <3>4. mailboxes[inst[h].node] = h
      BY <1>1, <1>3, <2>1, <2>6, <3>2 DEF Entered
    <3> QED BY <1>1, <1>3, <3>2, <3>3, <3>4
  <2>7. Entered'
    <3>1. ASSUME NEW j \in Instances, j # h, inst'[j].stage \in {"initial", "running"},
                 nodes'[inst'[j].node] = j
          PROVE  /\ mailboxes'[inst'[j].node] = j
                 /\ inst'[j].stage = "running" /\ ws' => statuses'[inst'[j].node] = j
      <4>1. inst'[j] = inst[j] /\ inst[j].node \in Nodes \ {inst[h].node}
        BY <2>4, <3>1
      <4> QED BY <1>1, <2>1, <2>5, <3>1, <4>1 DEF Entered
    <3> QED BY <2>6, <3>1 DEF Entered
  <2> QED BY <2>2, <2>3, <2>7 DEF Undisturbed
<1> QED BY <1>6, <1>7, <1>8

LEMMA RouteStep ==
    ASSUME RouteInv, [Next]_vars
    PROVE  Named' /\ NothingYet' /\ (~overlapped' => Undisturbed')
<1>a. /\ TypeOK /\ Named /\ NothingYet /\ (~overlapped => Undisturbed)
      /\ Main \in Workers /\ work \in [Workers -> Tasks]
  BY DEF RouteInv, Inv, TypeOK, Workers
<1>1. ASSUME NEW w \in Workers, Works(w) \/ DiscoveryFails(w)
      PROVE  Named' /\ NothingYet' /\ (~overlapped' => Undisturbed')
  BY <1>1, RouteWork, NothingYetWork
<1>2. ASSUME NEW h \in Instances, Runs(h) \/ InitialFails(h)
      PROVE  Named' /\ NothingYet' /\ (~overlapped' => Undisturbed')
  BY <1>2, RouteRuns
<1>3. CASE PanelAssigns \/ Shutdown \/ UNCHANGED vars
  <2>1. UNCHANGED <<nodes, mailboxes, statuses, inst, work, phase, ws, overlapped>>
    BY <1>3 DEF PanelAssigns, Shutdown, vars, routes, control
  <2>2. Named' /\ NothingYet'
    BY <1>a, <2>1 DEF Named, NothingYet, Busy
  <2>3. Alone' <=> Alone
    BY <2>1 DEF Alone, Busy
  <2>4. Traced' <=> Traced
    BY <2>1 DEF Traced, Stopping
  <2>5. Entered' <=> Entered
    BY <2>1 DEF Entered
  <2> QED BY <1>a, <2>1, <2>2, <2>3, <2>4, <2>5 DEF Undisturbed
<1>4. CASE DiscoveryTick
  <2>1. /\ Begin(Main, {}, "list") /\ phase' # "initial"
        /\ UNCHANGED <<nodes, mailboxes, statuses, inst, ws>>
    BY <1>4 DEF DiscoveryTick, routes, control
  <2>2. work'[Main].stage = "list" /\ Named' /\ (~overlapped' => Undisturbed')
    BY <1>a, <2>1, RouteBegin
  <2> QED BY <2>1, <2>2 DEF NothingYet
<1>5. CASE StopAll
  <2>1. PICK todo : /\ Begin(Main, todo, "stopAll")
                    /\ UNCHANGED <<nodes, mailboxes, statuses, inst, ws>>
    BY <1>5 DEF StopAll, routes
  <2>2. work'[Main].stage = "stopAll" /\ Named' /\ (~overlapped' => Undisturbed')
    BY <1>a, <2>1, RouteBegin
  <2> QED BY <2>2 DEF NothingYet
<1>6. ASSUME NEW w \in Syncs, SyncNodes(w)
      PROVE  Named' /\ NothingYet' /\ (~overlapped' => Undisturbed')
  <2>1. /\ Begin(w, {}, "list") /\ ws /\ w \in Workers /\ w # Main
        /\ UNCHANGED <<nodes, mailboxes, statuses, inst, ws, phase>>
    BY <1>6, OrchestratorAssumption DEF SyncNodes, routes, control, Workers
  <2>2. work'[Main] = work[Main] /\ Named' /\ (~overlapped' => Undisturbed')
    BY <1>a, <2>1, RouteBegin
  <2> QED BY <1>a, <2>1, <2>2 DEF NothingYet
<1>7. CASE TryStartWS \/ RunEnds
  <2>1. /\ UNCHANGED <<nodes, mailboxes, statuses, inst, overlapped>>
        /\ work[Main].stage \in {"handshake", "stopAll"}
        /\ work[Main].stage = "stopAll" => ws' = ws
    BY <1>7 DEF TryStartWS, RunEnds, routes
  <2>2. \A v \in Workers \ {Main} : work'[v] = work[v]
    BY <1>7, <1>a DEF TryStartWS, RunEnds
  <2>3. work'[Main].stage \in {"start", "idle"}
    BY <1>7, <1>a DEF TryStartWS, RunEnds, Tasks, Idle
  <2>4. UNCHANGED ws \/ \A i \in Instances : inst[i].stage = "free"
    BY <1>a, <2>1 DEF NothingYet
  <2>5. Named' /\ (Traced /\ Entered => Traced' /\ Entered')
    BY <1>a, <2>1, <2>2, <2>3, <2>4, PlainStep
  <2>6. Alone => Alone'
    BY <1>a, <2>1, <2>2, AloneKept DEF Busy
  <2> QED BY <1>a, <2>1, <2>3, <2>5, <2>6 DEF NothingYet, Undisturbed
<1> QED BY <1>1, <1>2, <1>3, <1>4, <1>5, <1>6, <1>7 DEF Next

\* As long as rediscoveries do not overlap, one service runs per node, and events and
\* statuses reach it: unregisterNode and stopNode delete entries by node ID, but never
\* those of a later start (machine.go:117-200, 354-365).
THEOREM EventsReachTheirNode == Init /\ [][Next]_vars => []Routed
<1>1. Init => RouteInv
  <2> SUFFICES ASSUME Init PROVE RouteInv
    OBVIOUS
  <2>1. TypeOK /\ ~ws
    BY TypeInit DEF Init
  <2>2. \A i \in Instances : inst[i].stage = "free"
    BY DEF Init
  <2>3. \A n \in Nodes : nodes[n] = None
    BY DEF Init
  <2>4. \A w \in Workers :
            /\ work[w].stage \in {"idle", "list"}
            /\ w # Main => work[w].stage = "idle"
    BY DEF Init, Idle
  <2>5. Inv
    BY <2>1, <2>2, <2>4 DEF Inv, NoOrphans, Launches, Placed
  <2>6. Named /\ NothingYet
    BY <2>1, <2>2, <2>3, <2>4, OrchestratorAssumption DEF Named, NothingYet, Busy, Workers
  <2>7. Undisturbed
    BY <2>2, <2>4 DEF Undisturbed, Alone, Traced, Entered, Busy, Live
  <2> QED BY <2>5, <2>6, <2>7 DEF RouteInv
<1>2. RouteInv /\ [Next]_vars => RouteInv'
  <2> SUFFICES ASSUME RouteInv, [Next]_vars PROVE RouteInv'
    OBVIOUS
  <2>1. Inv'
    BY TypeStep, OrphanStep DEF RouteInv, Inv
  <2> QED BY <2>1, RouteStep DEF RouteInv
<1>3. RouteInv => Routed
  BY UndisturbedIsRouted
<1> QED BY <1>1, <1>2, <1>3, PTL
=============================================================================
