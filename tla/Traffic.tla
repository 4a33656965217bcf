------------------------------- MODULE Traffic -------------------------------
(***************************************************************************)
(* Traffic accounting of one node: the kernel's cumulative per-user        *)
(* counters, the tracker that turns them into deltas, and the reports that *)
(* take the deltas to the panel (internal/tracker/tracker.go, the push     *)
(* half of internal/service/service.go, ConnTracker's counters).           *)
(*                                                                         *)
(* Upload and download are counted apart and alike in the code; one of     *)
(* them is modelled.  At most one report goroutine exists, because its     *)
(* last act is to clear pushActive: push.stage # "idle" is pushActive.     *)
(* Every step is a critical section of Tracker.mu or touches atomics.      *)
(* served and doubled are history: no step of the program reads them.      *)
(***************************************************************************)
EXTENDS Backoff

CONSTANTS
    Users,
    MaxServed,      \* bound on the traffic of one user
    MaxRestarts,    \* bound on full starts and stops of the kernel
    MaxFaults       \* bound on reports that fail

ASSUME TrafficAssumption == {MaxServed, MaxRestarts, MaxFaults} \subseteq Nat

VARIABLES
    up,         \* kernel.IsRunning
    cum,        \* userStats of the current ConnTracker
    lastSeen,   \* Tracker.lastSeen; 0 for a user that is not in it
    pending,    \* Tracker.pendingTraffic; 0 for a user that is not in it
    push,       \* the report goroutine: its stage and the traffic it took
    backoff,    \* Service.pushBackoff.skipRemaining
    phase,      \* of Run: "running", "final" report, "stopped", process "gone"
    final,      \* traffic taken by the report at shutdown
    billed,     \* panel: what the reports it received add up to
    served,     \* history: what the kernel has carried
    doubled,    \* history: billed by reports whose answer was lost
    restarts, faults

kernelVars  == <<up, cum, served, restarts>>
trackerVars == <<lastSeen, pending>>
panelVars   == <<billed, doubled, faults>>
vars == <<kernelVars, trackerVars, panelVars, push, backoff, phase, final>>

Amounts == [Users -> Nat]

Nothing == [u \in Users |-> 0]

Plus(f, g) == [u \in Users |-> f[u] + g[u]]

Stages == {"idle", "sending", "failed", "exit"}

Idle == [stage |-> "idle", payload |-> Nothing]

Init ==
    /\ up = TRUE /\ cum = Nothing
    /\ lastSeen = Nothing /\ pending = Nothing
    /\ push = Idle /\ backoff = 0
    /\ phase = "running" /\ final = Nothing
    /\ billed = Nothing /\ served = Nothing /\ doubled = Nothing
    /\ restarts = 0 /\ faults = 0

-----------------------------------------------------------------------------
(* The kernel. *)

\* A connection of user u carries one unit.
Serve(u) ==
    /\ up /\ phase \in {"running", "final"}
    /\ served[u] < MaxServed
    /\ cum' = [cum EXCEPT ![u] = @ + 1]
    /\ served' = [served EXCEPT ![u] = @ + 1]
    /\ UNCHANGED <<up, restarts, trackerVars, panelVars, push, backoff, phase, final>>

\* SingBox.Start, on a kernel that is down or up, makes a fresh ConnTracker.
StartKernel ==
    /\ phase = "running" /\ restarts < MaxRestarts
    /\ up' = TRUE
    /\ cum' = Nothing
    /\ restarts' = restarts + 1
    /\ UNCHANGED <<served, lastSeen, pending, panelVars, push, backoff, phase, final>>

\* stop leaves the ConnTracker behind.
StopKernel ==
    /\ phase = "running" /\ restarts < MaxRestarts
    /\ up
    /\ up' = FALSE
    /\ restarts' = restarts + 1
    /\ UNCHANGED <<cum, served, trackerVars, panelVars, push, backoff, phase, final>>

-----------------------------------------------------------------------------
(* The tracker. *)

\* Process: the counter is taken whole when it is below the last value seen.
Delta(u) == IF cum[u] >= lastSeen[u] THEN cum[u] - lastSeen[u] ELSE cum[u]

\* trackAndEnforce; GetUserTraffic leaves out users whose counter is 0.
TrackTick ==
    /\ phase = "running" /\ up
    /\ pending' = [u \in Users |-> pending[u] + Delta(u)]
    /\ lastSeen' = [u \in Users |-> IF cum[u] > 0 THEN cum[u] ELSE lastSeen[u]]
    /\ UNCHANGED <<kernelVars, panelVars, push, backoff, phase, final>>

-----------------------------------------------------------------------------
(* Reports. *)

\* pushReportAsync when no report is under way: a tick skipped, or FlushTraffic
\* and a new goroutine.
PushTick ==
    /\ phase = "running" /\ push.stage = "idle"
    /\ IF backoff > 0
       THEN backoff' = backoff - 1 /\ UNCHANGED <<push, pending>>
       ELSE /\ push' = [stage |-> "sending", payload |-> pending]
            /\ pending' = Nothing
            /\ UNCHANGED backoff
    /\ UNCHANGED <<kernelVars, lastSeen, panelVars, phase, final>>

\* The panel receives traffic t: and answers, or its answer is lost; or the
\* request does not reach it.
Received(t) == billed' = Plus(billed, t) /\ UNCHANGED <<doubled, faults>>

AnswerLost(t) ==
    /\ faults < MaxFaults /\ faults' = faults + 1
    /\ billed' = Plus(billed, t) /\ doubled' = Plus(doubled, t)

RequestLost ==
    /\ faults < MaxFaults /\ faults' = faults + 1
    /\ UNCHANGED <<billed, doubled>>

\* Mutant of Reported: traffic that was reported is not forgotten.
Reported_Kept ==
    /\ push.stage = "sending"
    /\ Received(push.payload)
    /\ push' = [push EXCEPT !.stage = "failed"]
    /\ backoff' = 0

\* Report returns nil, then onSuccess.
Reported ==
    /\ push.stage = "sending"
    /\ Received(push.payload)
    /\ push' = [stage |-> "exit", payload |-> Nothing]
    /\ backoff' = 0

ReportFails ==
    /\ push.stage = "sending"
    /\ AnswerLost(push.payload) \/ RequestLost
    /\ push' = [push EXCEPT !.stage = "failed"]
    /\ UNCHANGED backoff

Report ==
    /\ phase # "gone"
    /\ Reported \/ ReportFails
    /\ UNCHANGED <<kernelVars, trackerVars, phase, final>>

\* Mutant of Restore: the traffic of a failed report is not added back.
Restore_Forgotten ==
    /\ phase # "gone" /\ push.stage = "failed"
    /\ push' = [stage |-> "exit", payload |-> Nothing]
    /\ backoff' = OnFailure(backoff)
    /\ UNCHANGED <<kernelVars, trackerVars, panelVars, phase, final>>

\* RestoreTraffic, then onFailure.
Restore ==
    /\ phase # "gone" /\ push.stage = "failed"
    /\ pending' = Plus(pending, push.payload)
    /\ push' = [stage |-> "exit", payload |-> Nothing]
    /\ backoff' = OnFailure(backoff)
    /\ UNCHANGED <<kernelVars, lastSeen, panelVars, phase, final>>

\* defer s.pushActive.Store(false)
Exit ==
    /\ phase # "gone" /\ push.stage = "exit"
    /\ push' = Idle
    /\ UNCHANGED <<kernelVars, trackerVars, panelVars, backoff, phase, final>>

-----------------------------------------------------------------------------
(* Shutdown: pushReportSync, then the deferred Stop of the kernel. *)

Shutdown ==
    /\ phase = "running"
    /\ phase' = "final"
    /\ final' = pending /\ pending' = Nothing
    /\ UNCHANGED <<kernelVars, lastSeen, panelVars, push, backoff>>

FinalReport ==
    /\ phase = "final"
    /\ Received(final) \/ AnswerLost(final) \/ RequestLost
    /\ phase' = "stopped" /\ final' = Nothing
    /\ up' = FALSE
    /\ UNCHANGED <<cum, served, restarts, trackerVars, push, backoff>>

\* main returns without waiting for a report that is still under way; when the
\* service is only replaced, the process stays and the report goes on.
ProcessExits ==
    /\ phase = "stopped"
    /\ phase' = "gone"
    /\ UNCHANGED <<kernelVars, trackerVars, panelVars, push, backoff, final>>

-----------------------------------------------------------------------------
Next ==
    \/ \E u \in Users : Serve(u)
    \/ StartKernel \/ StopKernel
    \/ TrackTick \/ PushTick \/ Report \/ Restore \/ Exit
    \/ Shutdown \/ FinalReport \/ ProcessExits

Spec == Init /\ [][Next]_vars

\* The tickers keep firing while the loop runs, and a goroutine runs on.
Fairness == WF_vars(TrackTick) /\ WF_vars(PushTick)
            /\ WF_vars(Report) /\ WF_vars(Restore) /\ WF_vars(Exit)

FairSpec == Spec /\ Fairness

-----------------------------------------------------------------------------
(* Properties *)

\* Every variable has the type its field has in the code.
TypeOK ==
    /\ up \in BOOLEAN
    /\ {cum, lastSeen, pending, final, billed, served, doubled} \subseteq Amounts
    /\ push \in [stage : Stages, payload : Amounts]
    /\ backoff \in Nat
    /\ phase \in {"running", "final", "stopped", "gone"}
    /\ restarts \in Nat /\ faults \in Nat

\* While the kernel has not been restarted and Run goes on, every unit carried
\* is in exactly one place: not yet seen by the tracker, pending, taken by the
\* report under way, or billed; and twice only if a report the panel received
\* was answered by nothing and its traffic was restored (tracker.RestoreTraffic).
AccountedOnce ==
    restarts = 0 /\ phase = "running" =>
        \A u \in Users :
            served[u] + doubled[u] =
                (cum[u] - lastSeen[u]) + pending[u] + push.payload[u] + billed[u]

\* However often the kernel restarts, reports fail and the service shuts down,
\* no user is charged for more than what was carried for them, lost answers
\* apart (Tracker.Process, pushReportAsync, pushReportSync).
NeverOvercharged ==
    \A u \in Users : billed[u] <= served[u] + doubled[u]

\* While the service runs on and its kernel is not restarted, everything that
\* was carried is billed in the end, whatever reports failed on the way.
EventuallyBilled ==
    [](phase = "running" /\ restarts = 0) =>
        \A u \in Users : <>[](billed[u] = served[u] + doubled[u])
=============================================================================
