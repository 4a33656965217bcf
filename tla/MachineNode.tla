----------------------------- MODULE MachineNode -----------------------------
(***************************************************************************)
(* A node service under the machine orchestrator: PullLoop, a mailbox      *)
(* (Mailbox) and the machine's shared WebSocket.                           *)
(*                                                                         *)
(* The mailbox exists before the service does: while                       *)
(* MachinePanelControlPlane.Initial fetches the first snapshot, the read   *)
(* goroutine of the WebSocket may already apply events to it.  Initial     *)
(* registers the service for changes of connectivity at its end, and the   *)
(* service then seeds the mailbox and drains it whenever there is a token. *)
(* Apply and its token are one step here, and so are taking a token and    *)
(* draining; NodeMailbox takes them apart.                                 *)
(***************************************************************************)
EXTENDS PanelPush, Mailbox

LOCAL INSTANCE SequencesExt

CONSTANTS
    StatusCap,          \* capacity of Service.wsStatusCh (4 in the code)
    MaxFlaps            \* bound on connection attempts and losses

ASSUME MachineAssumption == StatusCap \in Nat \ {0} /\ MaxFlaps \in Nat

VARIABLES
    phase,      \* what the service's goroutine does next
    snap,       \* Initial: what has been fetched
    box,        \* the node's mailbox
    notifyCh,   \* is there a token in its channel?
    wsStatus,   \* channel Service.wsStatusCh; only Connected is ever sent
    resync,     \* Service.wsResyncPending
    flaps

bootVars == <<phase, snap>>
wsVars == <<conn, wsStatus, flaps>>
machineVars == <<vars, bootVars, wsVars, box, notifyCh, resync>>

\* The node starts with Initial's first request.  phase is "config" or "users"
\* while Initial is about to fetch that document, "seed" when it has returned,
\* then "running", or "exited" when Run has returned an error.
MachineInit ==
    /\ pcfg = 1 /\ pusers \in StartLists
    /\ ctag = NoCfg /\ utag = Nil
    /\ svc = Fresh
    /\ PullInit
    /\ conn \in BOOLEAN /\ wsStatus = <<>> /\ flaps = 0
    /\ phase = "config" /\ snap = [cfg |-> NoCfg, users |-> NoUsers]
    /\ box = NewMailbox /\ notifyCh = FALSE
    /\ resync = FALSE

-----------------------------------------------------------------------------
(* The panel and the machine's WebSocket. *)

\* onWSEvent: a mailbox that is gone receives nothing.
Tell(e) ==
    IF conn /\ Pushable(e) /\ phase # "exited"
    THEN box' = Apply(box, e) /\ notifyCh' = (notifyCh \/ Carries(e))
    ELSE UNCHANGED <<box, notifyCh>>

MachineEdits ==
    /\ EditAndPush(Tell)
    /\ UNCHANGED <<clientVars, certVars, svc, pull, pullActive, backoff, results, renewed,
                   bootVars, wsVars, resync>>

\* onWSStatus: only a service that is registered is told, if there is room.
Posted(connected) ==
    IF phase \in {"seed", "running"} /\ Len(wsStatus) < StatusCap
    THEN Append(wsStatus, connected)
    ELSE wsStatus

Connect ==
    /\ ~conn
    /\ conn' = TRUE
    /\ wsStatus' = Posted(TRUE)
    /\ IF phase = "exited" \/ FullSyncEvents = <<>> THEN UNCHANGED <<box, notifyCh>>
       ELSE box' = FoldLeft(Apply, box, FullSyncEvents) /\ notifyCh' = TRUE
    /\ UNCHANGED <<vars, bootVars, flaps, resync>>

ConnectReturns ==
    /\ flaps < MaxFlaps
    /\ conn' = FALSE
    /\ wsStatus' = Posted(FALSE)
    /\ flaps' = flaps + 1
    /\ UNCHANGED <<vars, bootVars, box, notifyCh, resync>>

Renewal ==
    /\ CertRenewal
    /\ UNCHANGED <<bootVars, wsVars, box, notifyCh, resync>>

-----------------------------------------------------------------------------
(* Initial and initialSetup. *)

InitialConfig ==
    /\ phase = "config"
    /\ snap' = [snap EXCEPT !.cfg = pcfg]
    /\ ctag' = IF ETags THEN pcfg ELSE ctag
    /\ phase' = "users"
    /\ UNCHANGED <<utag, faults>>

\* The configuration is validated once the users are there.
InitialUsers ==
    /\ phase = "users"
    /\ snap' = [snap EXCEPT !.users = pusers]
    /\ utag' = IF ETags THEN pusers ELSE utag
    /\ phase' = IF snap.cfg \in Malformed THEN "exited" ELSE "seed"
    /\ UNCHANGED <<ctag, faults>>

InitialFails ==
    /\ phase \in RequestFaults
    /\ faults < MaxFaults
    /\ faults' = faults + 1
    /\ phase' = "exited"
    /\ UNCHANGED <<snap, ctag, utag>>

Initial ==
    /\ InitialConfig \/ InitialUsers \/ InitialFails
    /\ UNCHANGED <<panelVars, certVars, svc, pull, pullActive, backoff, results,
                   renewed, wsVars, box, notifyCh, resync>>

\* The handleWSEvent calls of drainMachineMailbox for a state m that was handed
\* over: a nil list of users is ignored.
HandOver(s, m) ==
    LET withCfg == IF m.dirtyConfig THEN SyncConfig(s, m.config, cert) ELSE {s}
    IN  IF m.dirtyUsers /\ m.users # NoUsers
        THEN UNION {SyncUsers(t, m.users, cert) : t \in withCfg}
        ELSE withCfg

\* drainMachineMailbox of mailbox m by a service in state s.
DrainMachineMailbox(s, m) ==
    /\ svc' \in HandOver(s, m)
    /\ box' = DrainIfReady(m)
    /\ IF m.reconcile /\ ~resync
       THEN PullCallsAt(svc'.cfg, 1) /\ resync' = TRUE
       ELSE UNCHANGED <<pull, pullActive, backoff, renewed, resync>>

\* markMailboxReadyAndDrain; the token MarkReady leaves stays for later.
SeedAndDrain(s) == DrainMachineMailbox(s, MarkReady(SeedBaseline(box, s.users, s.cfg)))

\* The outcomes of initialSetup between Initial and markMailboxReadyAndDrain.
SetUp ==
    LET s == [Fresh EXCEPT !.cfg = snap.cfg, !.users = snap.users]
    IN  IF snap.cfg \in Unrunnable THEN {[ok |-> FALSE, s |-> Fresh]}
        ELSE IF snap.users = NoUsers THEN {[ok |-> TRUE, s |-> s]}
        ELSE StartKernel(s, snap.cfg, snap.users, cert)

StartService ==
    /\ phase = "seed"
    /\ \/ \E o \in SetUp :
            o.ok /\ SeedAndDrain(o.s) /\ notifyCh' = TRUE /\ phase' = "running"
       \/ /\ \E o \in SetUp : ~o.ok
          /\ phase' = "exited"
          /\ UNCHANGED <<svc, box, notifyCh, pull, pullActive, backoff, renewed, resync>>
    /\ UNCHANGED <<panelVars, clientVars, certVars, results, snap, wsVars>>

-----------------------------------------------------------------------------
(* The select loop. *)

DrainMailbox ==
    /\ phase = "running" /\ notifyCh
    /\ notifyCh' = FALSE
    /\ DrainMachineMailbox(svc, box)
    /\ UNCHANGED <<panelVars, clientVars, certVars, results, bootVars, wsVars>>

MachinePullTick ==
    /\ phase = "running"
    /\ IF conn THEN UNCHANGED vars ELSE PullTick
    /\ UNCHANGED <<bootVars, wsVars, box, notifyCh, resync>>

MachineApplyPullResult ==
    /\ phase = "running"
    /\ ApplyPullResult
    /\ resync' = FALSE
    /\ UNCHANGED <<bootVars, wsVars, box, notifyCh>>

HandleWSStatus ==
    /\ phase = "running" /\ wsStatus # <<>>
    /\ PullCalls(1)
    /\ wsStatus' = Tail(wsStatus)
    /\ UNCHANGED <<panelVars, clientVars, certVars, svc, results, bootVars,
                   conn, flaps, box, notifyCh, resync>>

Goroutine(g) ==
    /\ Fetch(g) \/ Deliver(g) \/ Exit(g)
    /\ UNCHANGED <<bootVars, wsVars, box, notifyCh, resync>>

-----------------------------------------------------------------------------
MachineNext ==
    \/ MachineEdits \/ Connect \/ ConnectReturns \/ Renewal
    \/ Initial \/ StartService
    \/ DrainMailbox \/ MachinePullTick \/ MachineApplyPullResult \/ HandleWSStatus
    \/ \E g \in Pulls : Goroutine(g)

MachineSpec == MachineInit /\ [][MachineNext]_machineVars

\* The service's goroutines run on; nothing is assumed of the panel, nor that a
\* connection is ever made.
MachineFairness ==
    /\ WF_machineVars(Initial) /\ WF_machineVars(StartService)
    /\ WF_machineVars(DrainMailbox) /\ WF_machineVars(MachinePullTick)
    /\ WF_machineVars(MachineApplyPullResult) /\ WF_machineVars(HandleWSStatus)
    /\ \A g \in Pulls : WF_machineVars(Goroutine(g))

FairMachineSpec == MachineSpec /\ MachineFairness

-----------------------------------------------------------------------------
(* Properties *)

\* Events alone keep a node that runs current: when the WebSocket is up from
\* before the node starts and no delta had to be replaced by a reconciliation, the service
\* ends up with the panel's configuration and users although it never polls.
ConnectedConverges ==
    []conn /\ [](~box.reconcile) /\ [](phase # "exited")
        => <>[](Content(svc.cfg) = Content(pcfg) /\ svc.users = pusers)
=============================================================================
