----------------------------- MODULE Connections -----------------------------
(***************************************************************************)
(* The connections of one sing-box node: the per-user statistics of a      *)
(* ConnTracker, its device gate, and the speed limits connections share    *)
(* (internal/kernel/singbox/conntracker.go, internal/limiter).             *)
(*                                                                         *)
(* A connection passes through RoutedConnection on a goroutine of the      *)
(* box; the service's loop changes users, reports of other nodes' devices  *)
(* and the kernel meanwhile.  Each step is one critical section of usersMu,*)
(* userStats.mu, globalMu, Limiter.mu or SpeedTracker.mu.  A restart of    *)
(* the kernel makes a new tracker; the connections of the old box stay     *)
(* with theirs until they are closed.                                      *)
(***************************************************************************)
EXTENDS Naturals, FiniteSets, Sequences

CONSTANTS
    Conns,          \* connections
    Addresses,      \* source addresses, numbered in lexicographic order
    Users,          \* user IDs
    Uuids,          \* credentials
    UserLists,      \* user lists the panel may issue
    Absent,         \* no such user
    None,           \* no limiter, or no statistics
    MaxUpdates,     \* bound on new user lists
    MaxReports,     \* bound on device reports from the panel
    MaxRestarts     \* bound on kernel restarts

UserSpecs == [uuid : Uuids, speed : Nat, devices : Nat]

Lists == [Users -> UserSpecs \cup {Absent}]

ASSUME ConnectionsAssumption ==
    /\ IsFiniteSet(Conns)
    /\ Addresses \subseteq Nat
    /\ UserLists \subseteq Lists
    /\ Absent \notin UserSpecs /\ Absent \notin Users
    /\ None \notin Conns /\ None \notin Users
    /\ {MaxUpdates, MaxReports, MaxRestarts} \subseteq Nat

VARIABLES
    limUsers,   \* Limiter.users and, by credential, uuidDeviceLimit
    speedIds,   \* SpeedTracker.uuidMap
    buckets,    \* SpeedTracker.buckets; a limiter is named for its creator
    speedOf,    \* limiter objects: the speed of each
    trackers,   \* the ConnTrackers, the current one last
    loop,       \* what the service's loop does next, and the list to fall back on
    conn,       \* connections: their stage and what RoutedConnection has read
    dropped,    \* history: users whose bucket was ever deleted
    outdated,   \* history: users whose bucket was made from an old speed
    updates, reports, restarts

speedVars == <<speedIds, buckets, speedOf, dropped, outdated>>
bounds == <<updates, reports, restarts>>
vars == <<limUsers, speedVars, trackers, loop, conn, bounds>>

Current == Len(trackers)

\* buildUserMap, UpdateBuckets: the user of a credential.
IdsOf(list) ==
    [uuid \in Uuids |->
        IF \E u \in Users : list[u] # Absent /\ list[u].uuid = uuid
        THEN CHOOSE u \in Users : list[u] # Absent /\ list[u].uuid = uuid
        ELSE Absent]

Listed(list) == {u \in Users : list[u] # Absent}

(***************************************************************************)
(* A tracker: uuidMap; users with statistics, their connections per source *)
(* address and in all; connMap; the devices seen by other nodes, and       *)
(* whether their last report is recent.                                    *)
(***************************************************************************)
NewTracker(list) ==
    [ids |-> IdsOf(list), stats |-> Listed(list),
     ips |-> [u \in Users |-> [ip \in Addresses |-> 0]],
     count |-> [u \in Users |-> 0],
     conns |-> {},
     global |-> [u \in Users |-> Absent], recent |-> FALSE]

\* "new": not there yet; "open" and "closed": RoutedConnection has returned.
Stages == {"new", "limit", "local", "global", "register", "lookup", "speed",
           "insert", "open", "rejected", "closed"}

\* What a connection has read is forgotten where the code returns or is done
\* with it; peers is history: connections of the same user and address that were
\* open when this one was routed.
Unconnected ==
    [stage |-> "new", uuid |-> Absent, ip |-> 0, tracker |-> 0, us |-> None,
     devices |-> 0, local |-> {}, id |-> Absent, speed |-> 0, limiter |-> None,
     peers |-> {}]

Init ==
    /\ limUsers \in UserLists /\ Listed(limUsers) # {}
    /\ speedIds = IdsOf(limUsers)
    /\ buckets = [u \in Users |-> None]
    /\ speedOf = [c \in Conns |-> 0]
    /\ trackers = <<NewTracker(limUsers)>>
    /\ loop = [stage |-> "idle", prev |-> limUsers]
    /\ conn = [c \in Conns |-> Unconnected]
    /\ dropped = {} /\ outdated = {}
    /\ updates = 0 /\ reports = 0 /\ restarts = 0

-----------------------------------------------------------------------------
(* The service's loop: a user list goes to the limiter, the speed tracker   *)
(* and the kernel, in this order.                                           *)

\* prepareUserState: Limiter.UpdateUsers
UpdateUsers ==
    /\ loop.stage = "idle" /\ updates < MaxUpdates
    /\ limUsers' \in UserLists
    /\ loop' = [stage |-> "buckets", prev |-> limUsers]
    /\ updates' = updates + 1
    /\ UNCHANGED <<speedVars, trackers, conn, reports, restarts>>

Limited(list) == {u \in Listed(list) : list[u].speed > 0}

\* Mutant of Synced: a limiter that exists keeps its speed.
Synced_AtCreation(c) == speedOf[c]

\* The speed of limiter c after UpdateBuckets: that of its user, when it is
\* still somebody's bucket.
Synced(c) ==
    IF \E u \in Limited(limUsers) : buckets[u] = c
    THEN limUsers[CHOOSE u \in Limited(limUsers) : buckets[u] = c].speed
    ELSE speedOf[c]

\* Limiters are changed in place; those without a limit or a user are dropped.
UpdateBuckets ==
    /\ loop.stage \in {"buckets", "restored"}
    /\ speedIds' = IdsOf(limUsers)
    /\ buckets' = [u \in Users |-> IF u \in Limited(limUsers) THEN buckets[u] ELSE None]
    /\ speedOf' = [c \in Conns |-> Synced(c)]
    /\ dropped' = dropped \cup {u \in Users \ Limited(limUsers) : buckets[u] # None}
    /\ outdated' = {}
    /\ loop' = [loop EXCEPT !.stage = IF @ = "buckets" THEN "kernel" ELSE "idle"]
    /\ UNCHANGED <<limUsers, trackers, conn, bounds>>

\* The inbounds took the users: SetUserMap, which keeps the statistics of users
\* that are gone.
SetUserMap ==
    /\ loop.stage = "kernel"
    /\ trackers' = [trackers EXCEPT ![Current].ids = IdsOf(limUsers),
                                    ![Current].stats = @ \cup Listed(limUsers)]
    /\ loop' = [loop EXCEPT !.stage = "idle"]
    /\ UNCHANGED <<limUsers, speedVars, conn, bounds>>

\* SingBox.Start, because users could not be swapped or for another reason.
RestartKernel ==
    /\ loop.stage \in {"idle", "kernel"}
    /\ restarts < MaxRestarts
    /\ trackers' = Append(trackers, NewTracker(limUsers))
    /\ loop' = [loop EXCEPT !.stage = "idle"]
    /\ restarts' = restarts + 1
    /\ UNCHANGED <<limUsers, speedVars, conn, updates, reports>>

\* Neither swap nor restart succeeded: restoreUserState.
RestoreUsers ==
    /\ loop.stage = "kernel"
    /\ limUsers' = loop.prev
    /\ loop' = [loop EXCEPT !.stage = "restored"]
    /\ UNCHANGED <<speedVars, trackers, conn, bounds>>

\* UpdateGlobalDevices with what the panel has heard from other nodes.
UpdateGlobalDevices ==
    /\ loop.stage = "idle" /\ reports < MaxReports
    /\ \E devices \in [Users -> (SUBSET Addresses) \cup {Absent}] :
          trackers' = [trackers EXCEPT ![Current].global = devices,
                                       ![Current].recent = TRUE]
    /\ reports' = reports + 1
    /\ UNCHANGED <<limUsers, speedVars, loop, conn, updates, restarts>>

\* ClearGlobalDevices when the WebSocket is down.
ClearGlobalDevices ==
    /\ loop.stage = "idle"
    /\ trackers[Current].recent
    /\ trackers' = [trackers EXCEPT ![Current].global = [u \in Users |-> Absent],
                                    ![Current].recent = FALSE]
    /\ UNCHANGED <<limUsers, speedVars, loop, conn, bounds>>

\* 60 seconds pass without a report.
ReportsAge ==
    /\ trackers[Current].recent
    /\ trackers' = [trackers EXCEPT ![Current].recent = FALSE]
    /\ UNCHANGED <<limUsers, speedVars, loop, conn, bounds>>

-----------------------------------------------------------------------------
(* RoutedConnection *)

\* Connections that are counted: between addConn and removeConn.
Tracked == {"lookup", "speed", "insert", "open"}

Counted(t, u) == {c \in Conns : /\ conn[c].stage \in Tracked
                                /\ conn[c].tracker = t /\ conn[c].us = u}

\* The box routes a connection of credential uuid from address ip.
Route(c) ==
    /\ conn[c].stage = "new"
    /\ \E uuid \in Uuids, ip \in Addresses :
          LET t  == trackers[Current]
              u  == t.ids[uuid]
              us == IF u \in t.stats THEN u ELSE None
          IN  conn' = [conn EXCEPT ![c] =
                 [@ EXCEPT !.stage = "limit", !.uuid = uuid, !.ip = ip,
                           !.tracker = Current, !.us = us,
                           !.peers = {d \in Counted(Current, us) : conn[d].ip = ip}]]
    /\ UNCHANGED <<limUsers, speedVars, trackers, loop, bounds>>

\* Limiter.GetDeviceLimitByUUID; no gate without statistics or a limit.
ReadLimit(c) ==
    /\ conn[c].stage = "limit"
    /\ LET u == IdsOf(limUsers)[conn[c].uuid]
           devices == IF u = Absent THEN 0 ELSE limUsers[u].devices
       IN  conn' = [conn EXCEPT
              ![c].stage = IF conn[c].us = None \/ devices = 0 THEN "register" ELSE "local",
              ![c].devices = devices]
    /\ UNCHANGED <<limUsers, speedVars, trackers, loop, bounds>>

\* Mutant of Known: an address that is connected gets no preference.
Known_Never(c, local) == FALSE

\* An address that is connected already is let in.
Known(c, local) == conn[c].ip \in local

\* checkDeviceGate: the copy of the user's addresses.
ReadLocal(c) ==
    /\ conn[c].stage = "local"
    /\ LET ips == trackers[conn[c].tracker].ips[conn[c].us]
           local == {ip \in Addresses : ips[ip] > 0}
       IN  conn' = [conn EXCEPT
              ![c].stage = IF Known(c, local) THEN "register" ELSE "global",
              ![c].local = local]
    /\ UNCHANGED <<limUsers, speedVars, trackers, loop, bounds>>

\* Is ip one of the first n when it is added to others, in order?
AmongFirst(ip, others, n) == Cardinality({j \in others : j < ip}) < n

\* The rest of checkDeviceGate: the addresses the panel reported count too while
\* their report is recent; over the limit, the lowest addresses are let in.
ReadGlobal(c) ==
    /\ conn[c].stage = "global"
    /\ LET t == trackers[conn[c].tracker]
           global == IF t.recent /\ t.global[conn[c].us] # Absent
                     THEN t.global[conn[c].us] ELSE {}
           others == conn[c].local \cup global
           pass == \/ conn[c].ip \in global
                   \/ Cardinality(others) < conn[c].devices
                   \/ AmongFirst(conn[c].ip, others, conn[c].devices)
       IN  conn' = [conn EXCEPT
              ![c] = IF pass THEN [@ EXCEPT !.stage = "register"]
                     ELSE [Unconnected EXCEPT !.stage = "rejected", !.peers = conn[c].peers]]
    /\ UNCHANGED <<limUsers, speedVars, trackers, loop, bounds>>

\* addConn, then the reference in connMap.
Register(c) ==
    /\ conn[c].stage = "register"
    /\ LET us == conn[c].us
           t == conn[c].tracker
           referred == [trackers EXCEPT ![t].conns = @ \cup {c}]
       IN  trackers' = IF us = None THEN referred
                       ELSE [referred EXCEPT ![t].ips[us][conn[c].ip] = @ + 1,
                                             ![t].count[us] = @ + 1]
    /\ conn' = [conn EXCEPT ![c] = [@ EXCEPT !.stage = "lookup", !.devices = 0,
                                             !.local = {}, !.peers = {}]]
    /\ UNCHANGED <<limUsers, speedVars, loop, bounds>>

-----------------------------------------------------------------------------
(* SpeedTracker.GetLimiter *)

Opened(c, l) ==
    conn' = [conn EXCEPT ![c] = [@ EXCEPT !.stage = "open", !.limiter = l,
                                          !.uuid = Absent, !.speed = 0]]

\* Under the read lock: the user, and the bucket if there is one.
LookUp(c) ==
    /\ conn[c].stage = "lookup"
    /\ LET u == speedIds[conn[c].uuid]
           bucket == IF u = Absent THEN None ELSE buckets[u]
       IN  conn' = [conn EXCEPT ![c] =
              IF u # Absent /\ bucket = None
              THEN [@ EXCEPT !.stage = "speed", !.id = u]
              ELSE [@ EXCEPT !.stage = "open", !.limiter = bucket, !.uuid = Absent, !.id = u]]
    /\ UNCHANGED <<limUsers, speedVars, trackers, loop, bounds>>

\* Under the limiter's lock: the user's speed.
ReadSpeed(c) ==
    /\ conn[c].stage = "speed"
    /\ LET u == conn[c].id
       IN  IF u \in Limited(limUsers)
           THEN conn' = [conn EXCEPT ![c].stage = "insert", ![c].speed = limUsers[u].speed]
           ELSE Opened(c, None)
    /\ UNCHANGED <<limUsers, speedVars, trackers, loop, bounds>>

\* Mutant of Insert: the bucket is not looked up again under the write lock.
Insert_Unchecked(c) ==
    /\ conn[c].stage = "insert"
    /\ buckets' = [buckets EXCEPT ![conn[c].id] = c]
    /\ speedOf' = [speedOf EXCEPT ![c] = conn[c].speed]
    /\ Opened(c, c)
    /\ UNCHANGED <<limUsers, speedIds, dropped, outdated, trackers, loop, bounds>>

\* Under the write lock, unless another connection was first.
Insert(c) ==
    /\ conn[c].stage = "insert"
    /\ LET u == conn[c].id
       IN  IF buckets[u] # None
           THEN Opened(c, buckets[u]) /\ UNCHANGED <<buckets, speedOf, outdated>>
           ELSE /\ buckets' = [buckets EXCEPT ![u] = c]
                /\ speedOf' = [speedOf EXCEPT ![c] = conn[c].speed]
                /\ outdated' = IF u \in Limited(limUsers) /\ limUsers[u].speed = conn[c].speed
                               THEN outdated ELSE outdated \cup {u}
                /\ Opened(c, c)
    /\ UNCHANGED <<limUsers, speedIds, dropped, trackers, loop, bounds>>

-----------------------------------------------------------------------------
(* trackedConn.Close *)

\* removeConn and removeConnRef.
Released(c) ==
    LET us == conn[c].us
        t == conn[c].tracker
        forgotten == [trackers EXCEPT ![t].conns = @ \ {c}]
    IN  IF us = None THEN forgotten
        ELSE [forgotten EXCEPT ![t].count[us] = @ - 1,
                               ![t].ips[us][conn[c].ip] = IF @ > 0 THEN @ - 1 ELSE 0]

\* Mutant of Close: every call releases.
Close_Unguarded(c) ==
    /\ conn[c].stage \in {"open", "closed"}
    /\ trackers' = Released(c)
    /\ conn' = [conn EXCEPT ![c] = [@ EXCEPT !.stage = "closed", !.limiter = None]]
    /\ UNCHANGED <<limUsers, speedVars, loop, bounds>>

\* Both directions of a relay close the connection; the first call releases it.
Close(c) ==
    /\ conn[c].stage \in {"open", "closed"}
    /\ trackers' = IF conn[c].stage = "open" THEN Released(c) ELSE trackers
    /\ conn' = [conn EXCEPT ![c] = [@ EXCEPT !.stage = "closed", !.limiter = None]]
    /\ UNCHANGED <<limUsers, speedVars, loop, bounds>>

-----------------------------------------------------------------------------
Routed(c) ==
    Route(c) \/ ReadLimit(c) \/ ReadLocal(c) \/ ReadGlobal(c) \/ Register(c)
        \/ LookUp(c) \/ ReadSpeed(c) \/ Insert(c) \/ Close(c)

Next ==
    \/ UpdateUsers \/ UpdateBuckets \/ SetUserMap \/ RestartKernel \/ RestoreUsers
    \/ UpdateGlobalDevices \/ ClearGlobalDevices \/ ReportsAge
    \/ \E c \in Conns : Routed(c)

Spec == Init /\ [][Next]_vars

-----------------------------------------------------------------------------
(* Properties *)

Trackers ==
    [ids : [Uuids -> Users \cup {Absent}], stats : SUBSET Users,
     ips : [Users -> [Addresses -> Nat]], count : [Users -> Nat],
     conns : SUBSET Conns,
     global : [Users -> (SUBSET Addresses) \cup {Absent}], recent : BOOLEAN]

ConnRecords ==
    [stage : Stages, uuid : Uuids \cup {Absent}, ip : Addresses \cup {0}, tracker : Nat,
     us : Users \cup {None}, devices : Nat, local : SUBSET Addresses,
     id : Users \cup {Absent}, speed : Nat, limiter : Conns \cup {None}, peers : SUBSET Conns]

\* Every variable has the type its field has in the code; no count of
\* connections is ever negative.
TypeOK ==
    /\ limUsers \in Lists
    /\ loop \in [stage : {"idle", "buckets", "restored", "kernel"}, prev : Lists]
    /\ speedIds \in [Uuids -> Users \cup {Absent}]
    /\ buckets \in [Users -> Conns \cup {None}]
    /\ speedOf \in [Conns -> Nat]
    /\ trackers \in Seq(Trackers)
    /\ conn \in [Conns -> ConnRecords]
    /\ dropped \subseteq Users /\ outdated \subseteq Users

\* The statistics of every tracker, also of one whose box was replaced, count
\* exactly the connections it let through and that are not closed, in all and
\* per address, whatever became of their users (userStats.addConn, removeConn).
\* recycleOldBox waits for these counts; they end up in the alive report.
CountsMatch ==
    \A t \in 1..Current, u \in Users :
        /\ trackers[t].count[u] = Cardinality(Counted(t, u))
        /\ \A ip \in Addresses :
              trackers[t].ips[u][ip] = Cardinality({c \in Counted(t, u) : conn[c].ip = ip})

\* "Already known locally" (conntracker.go): as long as a connection of a device
\* is open, the gate turns none of its later connections away, however users,
\* limits and reports of other nodes change while they are being routed.
OwnDeviceAdmitted ==
    \A c \in Conns : conn[c].stage = "rejected" =>
        \A d \in conn[c].peers : conn[d].stage = "closed"

\* "userID -> shared rate limiter" (speedtracker.go): all connections of a user
\* share one limiter unless the user was without a limit in between.
LimiterShared ==
    \A c, d \in Conns :
        /\ conn[c].id = conn[d].id /\ conn[c].id \notin dropped
        /\ conn[c].limiter # None /\ conn[d].limiter # None
        => conn[c].limiter = conn[d].limiter

\* Once the speed tracker has been told of the users, every bucket belongs to a
\* user with a limit and has that user's speed, also for connections opened long
\* before; only a bucket that was made from a speed read before the users
\* changed and inserted after UpdateBuckets does not (SpeedTracker.GetLimiter).
BucketsCurrent ==
    loop.stage \in {"idle", "kernel"} =>
        \A u \in Users \ outdated : buckets[u] # None =>
            u \in Limited(limUsers) /\ speedOf[buckets[u]] = limUsers[u].speed
=============================================================================
