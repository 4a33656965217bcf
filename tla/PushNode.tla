------------------------------ MODULE PushNode ------------------------------
(***************************************************************************)
(* A node service in panel mode: PullLoop plus the WebSocket push client.  *)
(*                                                                         *)
(* The push client's read goroutine hands every event to the loop through  *)
(* wsEvents and every change of connectivity through wsStatus, both        *)
(* without blocking: what does not fit is dropped, and a dropped event is  *)
(* replaced by a status that asks for a resync, if that fits.  The two     *)
(* channels and pullResults are served by one select, so in any order.     *)
(* A panel that is connected pushes every change it makes; it may also     *)
(* push everything when a client connects (FullSyncOnConnect).  The bytes  *)
(* between the panel and the read goroutine are not a state of their own:  *)
(* an event waits in wsEvents instead.                                     *)
(***************************************************************************)
EXTENDS PanelPush

CONSTANTS
    EventsCap,          \* capacity of Service.wsEvents (16 in the code)
    StatusCap,          \* capacity of Service.wsStatusCh (4 in the code)
    MaxFlaps,           \* bound on connection attempts and losses
    MaxMoves            \* bound on changes of the panel's push endpoint

ASSUME PushAssumption ==
    /\ EventsCap \in Nat \ {0} /\ StatusCap \in Nat \ {0}
    /\ MaxFlaps \in Nat /\ MaxMoves \in Nat

VARIABLES
    endpoint,   \* panel: number of the WS URL it announces; 0 when push is off
    client,     \* Service.wsClient: the URL it dials; 0 for nil
    downSince,  \* is Service.wsDisconnectAt set?
    wsEvents,   \* channel Service.wsEvents
    wsStatus,   \* channel Service.wsStatusCh
    resync,     \* Service.wsResyncPending
    flaps, moves

linkVars == <<endpoint, client, conn, downSince, wsEvents, wsStatus, resync, flaps, moves>>
pushVars == <<vars, linkVars>>

NoPush == 0

Statuses == [connected : BOOLEAN, needsResync : BOOLEAN]

\* With push announced, Initial returns no snapshot and the kernel stays down.
PushNodeInit ==
    /\ pcfg = 1 /\ pusers \in StartLists
    /\ ctag = NoCfg /\ utag = Nil
    /\ svc = Fresh
    /\ PullInit
    /\ endpoint = 1 /\ client = 1
    /\ conn = FALSE /\ downSince = FALSE
    /\ wsEvents = <<>> /\ wsStatus = <<>>
    /\ resync = FALSE
    /\ flaps = 0 /\ moves = 0

-----------------------------------------------------------------------------
(* The push client's callbacks (newPushClient). *)

\* The channel wsStatus after a non-blocking send.
Posted(connected, needsResync) ==
    IF Len(wsStatus) < StatusCap
    THEN Append(wsStatus, [connected |-> connected, needsResync |-> needsResync])
    ELSE wsStatus

\* An event handled by the read goroutine of a client that is connected.
PushEvent(e) ==
    IF ~conn THEN UNCHANGED <<wsEvents, wsStatus>>
    ELSE IF Len(wsEvents) < EventsCap
         THEN wsEvents' = Append(wsEvents, e) /\ UNCHANGED wsStatus
         ELSE wsStatus' = Posted(TRUE, TRUE) /\ UNCHANGED wsEvents

Push(e) == IF Pushable(e) THEN PushEvent(e) ELSE UNCHANGED <<wsEvents, wsStatus>>

\* What of a sequence fits into a channel of n.
UpTo(s, n) == SubSeq(s, 1, IF n < Len(s) THEN n ELSE Len(s))

\* The channel wsEvents after a full sync.
FullSync == UpTo(wsEvents \o FullSyncEvents, EventsCap)

\* The channel wsStatus after a connection and its full sync: the events that
\* did not fit ask for a resync, each as far as there is room.
ConnectedStatuses ==
    LET dropped == Len(wsEvents \o FullSyncEvents) - Len(FullSync)
    IN  UpTo(Posted(TRUE, FALSE)
                \o [i \in 1..dropped |-> [connected |-> TRUE, needsResync |-> TRUE]],
             StatusCap)

-----------------------------------------------------------------------------
(* The panel and the network. *)

PushEdits ==
    /\ EditAndPush(Push)
    /\ UNCHANGED <<clientVars, certVars, svc, pull, pullActive, backoff, results, renewed,
                   endpoint, client, conn, downSince, resync, flaps, moves>>

\* The panel switches push off, on, or to another URL.
EndpointMoves ==
    /\ moves < MaxMoves
    /\ \E e \in {NoPush, endpoint + 1} : e # endpoint /\ endpoint' = e
    /\ moves' = moves + 1
    /\ UNCHANGED <<vars, client, conn, downSince, wsEvents, wsStatus, resync, flaps>>

\* WSClient.connect succeeds: connected is set, the status is posted, and the
\* events of a full sync come in.
Connect ==
    /\ client # NoPush /\ client = endpoint /\ ~conn
    /\ conn' = TRUE
    /\ wsStatus' = ConnectedStatuses
    /\ wsEvents' = FullSync
    /\ UNCHANGED <<vars, endpoint, client, downSince, resync, flaps, moves>>

\* WSClient.Run after connect returned an error: a connection was lost, or
\* could not be made; either way a status is posted.
ConnectReturns ==
    /\ client # NoPush
    /\ flaps < MaxFlaps
    /\ conn' = FALSE
    /\ wsStatus' = Posted(FALSE, FALSE)
    /\ flaps' = flaps + 1
    /\ UNCHANGED <<vars, endpoint, client, downSince, wsEvents, resync, moves>>

-----------------------------------------------------------------------------
(* The select loop. *)

\* Mutant of PushPullTick: polling stops when there is a client at all.
PushPullTick_NoClientOnly ==
    /\ IF client # NoPush THEN UNCHANGED vars ELSE PullTick
    /\ UNCHANGED linkVars

\* Polling pauses while the push client is connected.
PushPullTick ==
    /\ IF client # NoPush /\ conn THEN UNCHANGED vars ELSE PullTick
    /\ UNCHANGED linkVars

PushApplyPullResult ==
    /\ ApplyPullResult
    /\ resync' = FALSE
    /\ UNCHANGED <<endpoint, client, conn, downSince, wsEvents, wsStatus, flaps, moves>>

\* handleWSStatus: requestWSResync pulls unless a resync is pending, and both
\* branches of the status pull.
HandleWSStatus ==
    /\ wsStatus # <<>>
    /\ LET status == Head(wsStatus)
       IN  /\ PullCalls(IF status.needsResync /\ ~resync THEN 2 ELSE 1)
           /\ resync' = (resync \/ status.needsResync)
           /\ downSince' = ~status.connected
    /\ wsStatus' = Tail(wsStatus)
    /\ UNCHANGED <<panelVars, clientVars, certVars, svc, results,
                   endpoint, client, conn, wsEvents, flaps, moves>>

HandleWSEvent ==
    /\ wsEvents # <<>>
    /\ LET e == Head(wsEvents)
       IN  svc' \in CASE e.type = "config" -> SyncConfig(svc, e.cfg, cert)
                      [] e.type = "users"  -> SyncUsers(svc, e.users, cert)
                      [] e.type = "delta"  -> SyncDelta(svc, e.action, e.users, cert)
    /\ wsEvents' = Tail(wsEvents)
    /\ UNCHANGED <<panelVars, clientVars, certVars, pull, pullActive, backoff, results,
                   renewed, endpoint, client, conn, downSince, wsStatus,
                   resync, flaps, moves>>

\* What wsDiscovery does with a successful handshake.  A client that exists is
\* kept, whatever URL the panel announces now.
AdoptEndpoint ==
    \/ /\ endpoint # NoPush /\ client = NoPush
       /\ client' = endpoint /\ downSince' = FALSE
       /\ UNCHANGED <<conn, wsStatus>>
    \/ /\ endpoint # NoPush /\ client # NoPush
       /\ UNCHANGED <<client, conn, downSince, wsStatus>>
    \/ /\ endpoint = NoPush /\ client # NoPush
       /\ client' = NoPush /\ downSince' = FALSE
       \* the cancelled client reports that it is down if it was connected or
       \* was dialling, and nothing if it was waiting to dial again
       /\ conn' = FALSE
       /\ wsStatus' = Posted(FALSE, FALSE) \/ (~conn /\ UNCHANGED wsStatus)
    \/ /\ endpoint = NoPush /\ client = NoPush
       /\ UNCHANGED <<client, conn, downSince, wsStatus>>

\* wsDiscovery; that a disconnection has lasted ten minutes is left open.
WSDiscovery ==
    /\ client = NoPush \/ downSince
    /\ PullCalls(1)
    /\ AdoptEndpoint
    /\ UNCHANGED <<panelVars, clientVars, certVars, svc, results,
                   endpoint, wsEvents, resync, flaps, moves>>

Goroutine(g) ==
    /\ Fetch(g) \/ Deliver(g) \/ Exit(g)
    /\ UNCHANGED linkVars

Renewal == CertRenewal /\ UNCHANGED linkVars

-----------------------------------------------------------------------------
PushNodeNext ==
    \/ PushEdits \/ EndpointMoves \/ Connect \/ ConnectReturns \/ Renewal
    \/ PushPullTick \/ PushApplyPullResult \/ HandleWSStatus \/ HandleWSEvent
    \/ WSDiscovery
    \/ \E g \in Pulls : Goroutine(g)

PushNodeSpec == PushNodeInit /\ [][PushNodeNext]_pushVars

(***************************************************************************)
(* The loop serves every case of its select that stays ready, goroutines   *)
(* run on, and the pull ticker fires whenever the client stays             *)
(* disconnected.  Nothing is assumed of the panel or the network: whether  *)
(* a client reconnects is the premise of a property, not fairness.         *)
(***************************************************************************)
PushFairness ==
    /\ WF_pushVars(PushPullTick) /\ WF_pushVars(PushApplyPullResult)
    /\ WF_pushVars(HandleWSStatus) /\ WF_pushVars(HandleWSEvent)
    /\ WF_pushVars(WSDiscovery)
    /\ \A g \in Pulls : WF_pushVars(Goroutine(g))

FairPushNodeSpec == PushNodeSpec /\ PushFairness

-----------------------------------------------------------------------------
(* Properties *)

\* PullLoop's types; the channels hold what the push client posts and never
\* more than their capacity, and a connection belongs to a client.
PushTypeOK ==
    /\ TypeOK
    /\ endpoint \in Nat /\ client \in Nat
    /\ conn \in BOOLEAN /\ (conn => client # NoPush)
    /\ downSince \in BOOLEAN /\ resync \in BOOLEAN
    /\ wsEvents \in Seq(Events) /\ Len(wsEvents) <= EventsCap
    /\ wsStatus \in Seq(Statuses) /\ Len(wsStatus) <= StatusCap
    /\ flaps \in Nat /\ moves \in Nat

\* As long as no start of the kernel fails, nobody is let in whom the service
\* does not have on record, whatever updates in place fail, half-way or not,
\* and whatever was recorded and taken back because of it.  Users are told by
\* their IDs: of a user whose credential a delta replaced the kernel may keep
\* the old one, because the error of the call that removes it is ignored
\* (service.go:809).
NoStrangerAdmitted ==
    Members(svc.k.admits) \subseteq Members(svc.users)

\* Nothing the node has heard or still waits for says what the panel's
\* configuration says: not its ETag, its lastConfig, a pull or a result.
NewToNode ==
    LET heard == {ctag, svc.cfg} \cup {pull[g].hash : g \in Pulls}
                    \cup {pull[g].cfg : g \in Pulls}
                    \cup {results[i].cfg : i \in DOMAIN results}
    IN  \A c \in heard : Content(c) # Content(pcfg)

\* When push stays down, polling alone brings the configuration to the panel's
\* current one, provided that it is news to the node once the events queued
\* before have been handled.  Otherwise an event that was queued before the
\* disconnection and is handled after the result of a newer pull overwrites
\* what the pull brought (service.go:556), which the ETag hides from then on.
PollingHealsConfig ==
    \A c \in 1..(MaxEdits + 1) :
        <>(wsEvents = <<>> /\ NewToNode /\ [](~conn /\ pcfg = c))
            => <>[](Content(svc.cfg) = Content(pcfg))
=============================================================================
