-------------------------- MODULE LimitDispatcher --------------------------
(***************************************************************************)
(* The device bookkeeping of the xray kernel                               *)
(* (internal/kernel/xray/dispatcher.go): every connection a client opens   *)
(* through the instance is admitted against the user's device limit,       *)
(* counted for its device (source IP), tracked while its link is open and  *)
(* released when the link closes.  Connections run concurrently; a step is *)
(* what one of them does under one hold of mu, or one operation on a       *)
(* sync.Map or an atomic.  The tables of different users are disjoint      *)
(* and share no more than connCount: one user is modelled.                 *)
(*                                                                         *)
(* A user without a device limit is counted in lock-free counters          *)
(* (unlimitedIPs), one with a limit in limitedIPs under mu; which of them  *)
(* a connection uses is decided anew when it arrives and when it leaves.   *)
(***************************************************************************)
EXTENDS Integers, FiniteSets

CONSTANTS Conns,    \* connections the user opens, each once
          IPs,      \* devices: integers, ordered as their addresses sort
          Limits,   \* device limits the panel can set, 0 for none
          None      \* no such entry

ASSUME IPsAreOrdered == IPs \subseteq Int

ASSUME LimitsAreCounts == Limits \subseteq Nat

ASSUME NoneIsNoConn == None \notin Conns

VARIABLES limit,      \* deviceLimits[email], 0 before the first UpdateLimits
          entry,      \* limitedIPs has an entry for the user
          refs,       \* that entry: connections per device, 0 for no key
          shared,     \* unlimitedIPs has an entry for the user
          counter,    \* that entry: the counter of each device, None for no key
          count,      \* the counters, named after the connection that made them
          connCount,
          conn,       \* the connections
          listed,     \* some connection has been counted in limitedIPs
          crashed     \* the process has panicked

vars == <<limit, entry, refs, shared, counter, count, connCount, conn, listed, crashed>>

lvars == <<entry, refs>>               \* guarded by mu
uvars == <<shared, counter, count>>    \* sync.Maps and atomics

(* Stages of a connection:                                                 *)
(*   idle         not yet opened, or refused                               *)
(*   fast, peek   has read the limit: none, or one                         *)
(*   grabbed      holds the counter of its device, not yet incremented     *)
(*   bump, insert, over   has looked at the table under the read lock      *)
(*   admitted     checkDeviceLimit has let it in                           *)
(*   open         tracked by trackLink                                     *)
(*   release, drop, decrement, delete   inside delConn                     *)
(*   leaving      delConn is done, connCount not yet                       *)
(*   gone                                                                  *)
Stages == {"idle", "fast", "peek", "grabbed", "bump", "insert", "over", "admitted", "open",
           "release", "drop", "decrement", "delete", "leaving", "gone"}

ConnRecords ==
    [stage : Stages, ip : IPs, tcp : BOOLEAN, limit : Limits \cup {0},
     ctr : Conns \cup {None}, tracked : BOOLEAN]

Devices == {ip \in IPs : refs[ip] > 0}

Init ==
    /\ limit = 0
    /\ entry = FALSE
    /\ refs = [ip \in IPs |-> 0]
    /\ shared = FALSE
    /\ counter = [ip \in IPs |-> None]
    /\ count = [c \in Conns |-> 0]
    /\ connCount = 0
    /\ conn \in [Conns -> [stage : {"idle"}, ip : IPs, tcp : BOOLEAN, limit : {0},
                           ctr : {None}, tracked : {FALSE}]]
    /\ listed = FALSE
    /\ crashed = FALSE

At(c, stage) == ~crashed /\ conn[c].stage = stage

Goto(c, stage) == conn' = [conn EXCEPT ![c].stage = stage]

-----------------------------------------------------------------------------
(* Admission: checkDeviceLimit *)

UpdateLimits ==
    /\ ~crashed
    /\ limit' \in Limits \ {limit}
    /\ UNCHANGED <<lvars, uvars, connCount, conn, listed, crashed>>

\* A connection of the user arrives and reads the limit.
Arrive(c) ==
    /\ At(c, "idle")
    /\ conn' = [conn EXCEPT ![c].stage = IF limit = 0 THEN "fast" ELSE "peek",
                            ![c].limit = limit]
    /\ UNCHANGED <<limit, lvars, uvars, connCount, listed, crashed>>

\* The fast path.  UDP is never counted.
Grab(c) ==
    /\ At(c, "fast")
    /\ IF conn[c].tcp
       THEN /\ shared' = TRUE
            /\ counter' = IF counter[conn[c].ip] = None
                          THEN [counter EXCEPT ![conn[c].ip] = c] ELSE counter
            /\ conn' = [conn EXCEPT ![c].stage = "grabbed", ![c].ctr = counter'[conn[c].ip]]
       ELSE Goto(c, "admitted") /\ UNCHANGED <<shared, counter>>
    /\ UNCHANGED <<limit, lvars, count, connCount, listed, crashed>>

Increment(c) ==
    /\ At(c, "grabbed")
    /\ count' = [count EXCEPT ![conn[c].ctr] = @ + 1]
    /\ conn' = [conn EXCEPT ![c].stage = "admitted", ![c].ctr = None]
    /\ UNCHANGED <<limit, lvars, shared, counter, connCount, listed, crashed>>

\* The slow path looks at the table under the read lock first ...
Peek(c) ==
    /\ At(c, "peek")
    /\ LET known == entry /\ refs[conn[c].ip] > 0
           room  == entry /\ Cardinality(Devices) < conn[c].limit
       IN  Goto(c, IF ~known /\ ~room THEN "over"
                   ELSE IF ~conn[c].tcp THEN "admitted"
                   ELSE IF known THEN "bump" ELSE "insert")
    /\ UNCHANGED <<limit, lvars, uvars, connCount, listed, crashed>>

\* One more connection of c's device, in the table or not at all for UDP.
Enter(c) ==
    /\ refs' = IF conn[c].tcp THEN [refs EXCEPT ![conn[c].ip] = @ + 1] ELSE refs
    /\ listed' = (listed \/ conn[c].tcp)
    /\ entry' = TRUE
    /\ Goto(c, "admitted")

\* ... and counts a device it found there under the write lock, unseen what
\* has happened since: an entry that is gone by then is a nil map.
Bump(c) ==
    /\ At(c, "bump")
    /\ IF entry THEN Enter(c) /\ UNCHANGED crashed
       ELSE crashed' = TRUE /\ UNCHANGED <<lvars, conn, listed>>
    /\ UNCHANGED <<limit, uvars, connCount>>

\* Nor is the room it found looked for again.
Insert(c) ==
    /\ At(c, "insert")
    /\ Enter(c)
    /\ UNCHANGED <<limit, uvars, connCount, crashed>>

\* c's device is among the first of those connected and itself, as many as
\* the limit allows.
AmongLowest(c) ==
    Cardinality({ip \in Devices : ip < conn[c].ip}) < conn[c].limit

Refuse(c) ==
    /\ entry' = TRUE
    /\ Goto(c, "gone")
    /\ UNCHANGED <<refs, listed>>

\* Mutant of Over: the device is not looked up again under the write lock.
Over_NoRecheck(c) ==
    /\ At(c, "over")
    /\ IF Cardinality(Devices) < conn[c].limit \/ AmongLowest(c) THEN Enter(c) ELSE Refuse(c)
    /\ UNCHANGED <<limit, uvars, connCount, crashed>>

\* Otherwise it looks again under the write lock and decides there.
Over(c) ==
    /\ At(c, "over")
    /\ IF \/ conn[c].ip \in Devices
          \/ Cardinality(Devices) < conn[c].limit
          \/ AmongLowest(c)
       THEN Enter(c) ELSE Refuse(c)
    /\ UNCHANGED <<limit, uvars, connCount, crashed>>

-----------------------------------------------------------------------------
(* Dispatch, and the link that closes *)

\* delConn begins, or is skipped for UDP.
Leave(c) == Goto(c, IF conn[c].tcp THEN "release" ELSE "leaving")

\* Mutant of DispatchFails: the admission is not taken back.
DispatchFails_Kept(c) ==
    /\ At(c, "admitted")
    /\ Goto(c, "gone")
    /\ UNCHANGED <<limit, lvars, uvars, connCount, listed, crashed>>

\* The inner dispatcher refuses.
DispatchFails(c) ==
    /\ At(c, "admitted")
    /\ Leave(c)
    /\ UNCHANGED <<limit, lvars, uvars, connCount, listed, crashed>>

TrackLink(c) ==
    /\ At(c, "admitted")
    /\ conn' = [conn EXCEPT ![c].stage = "open", ![c].tracked = TRUE]
    /\ connCount' = connCount + 1
    /\ UNCHANGED <<limit, lvars, uvars, listed, crashed>>

\* Mutant of CloseLink: whoever closes or interrupts the link releases it.
CloseLink_Twice(c) ==
    /\ At(c, "open") \/ (At(c, "gone") /\ conn[c].tracked)
    /\ Leave(c)
    /\ UNCHANGED <<limit, lvars, uvars, connCount, listed, crashed>>

\* Close or Interrupt of the writer, the first of them only.
CloseLink(c) ==
    /\ At(c, "open")
    /\ Leave(c)
    /\ UNCHANGED <<limit, lvars, uvars, connCount, listed, crashed>>

\* delConn asks whether the user has counters, not how c was counted.
Release(c) ==
    /\ At(c, "release")
    /\ LET ctr == counter[conn[c].ip]
       IN  conn' = [conn EXCEPT ![c].stage = IF ~shared THEN "drop"
                                             ELSE IF ctr = None THEN "leaving" ELSE "decrement",
                                ![c].ctr = IF shared THEN ctr ELSE None]
    /\ UNCHANGED <<limit, lvars, uvars, connCount, listed, crashed>>

Decrement(c) ==
    /\ At(c, "decrement")
    /\ count' = [count EXCEPT ![conn[c].ctr] = @ - 1]
    /\ conn' = [conn EXCEPT ![c].stage = IF count'[conn[c].ctr] <= 0 THEN "delete" ELSE "leaving",
                            ![c].ctr = None]
    /\ UNCHANGED <<limit, lvars, shared, counter, connCount, listed, crashed>>

\* Whatever counter the device has by now is taken out.
Delete(c) ==
    /\ At(c, "delete")
    /\ counter' = [counter EXCEPT ![conn[c].ip] = None]
    /\ Goto(c, "leaving")
    /\ UNCHANGED <<limit, lvars, shared, count, connCount, listed, crashed>>

\* Mutant of Drop: an entry loses its last device before the others are asked.
Drop_Always(c) ==
    /\ At(c, "drop")
    /\ refs' = [refs EXCEPT ![conn[c].ip] = 0]
    /\ entry' = \E ip \in IPs : refs'[ip] > 0
    /\ Goto(c, "leaving")
    /\ UNCHANGED <<limit, uvars, connCount, listed, crashed>>

\* An entry without devices is taken out.
Drop(c) ==
    /\ At(c, "drop")
    /\ refs' = [refs EXCEPT ![conn[c].ip] = IF @ > 0 THEN @ - 1 ELSE 0]
    /\ entry' = \E ip \in IPs : refs'[ip] > 0
    /\ Goto(c, "leaving")
    /\ UNCHANGED <<limit, uvars, connCount, listed, crashed>>

Left(c) ==
    /\ At(c, "leaving")
    /\ connCount' = IF conn[c].tracked THEN connCount - 1 ELSE connCount
    /\ Goto(c, "gone")
    /\ UNCHANGED <<limit, lvars, uvars, listed, crashed>>

Next ==
    \/ UpdateLimits
    \/ \E c \in Conns :
         \/ Arrive(c) \/ Grab(c) \/ Increment(c) \/ Peek(c) \/ Bump(c) \/ Insert(c) \/ Over(c)
         \/ DispatchFails(c) \/ TrackLink(c) \/ CloseLink(c)
         \/ Release(c) \/ Decrement(c) \/ Delete(c) \/ Drop(c) \/ Left(c)

Spec == Init /\ [][Next]_vars

\* GetConnectionState: the devices reported for the user.
AliveIPs == Devices \cup {ip \in IPs : counter[ip] # None /\ count[counter[ip]] > 0}

-----------------------------------------------------------------------------
(* Properties *)

\* The tables, the counters and the connections have the types they have in
\* the code: a device's entry in the table is never negative.
TypeOK ==
    /\ limit \in Limits \cup {0}
    /\ entry \in BOOLEAN
    /\ refs \in [IPs -> Nat]
    /\ shared \in BOOLEAN
    /\ counter \in [IPs -> Conns \cup {None}]
    /\ count \in [Conns -> Int]
    /\ connCount \in Int
    /\ conn \in [Conns -> ConnRecords]
    /\ listed \in BOOLEAN
    /\ crashed \in BOOLEAN

Tracked == {c \in Conns : conn[c].tracked /\ conn[c].stage # "gone"}

\* connCount, for whose end drainConns waits, is the number of links that are
\* tracked and not wholly released, although Close and Interrupt may both be
\* called and the limits change meanwhile.
ConnCountExact == connCount = Cardinality(Tracked)

\* TCP connections that checkDeviceLimit has counted and delConn has not.
Counted(ip) ==
    {c \in Conns : conn[c].tcp /\ conn[c].ip = ip
                   /\ conn[c].stage \in {"admitted", "open", "release", "drop", "decrement"}}

\* As long as all of the user's connections were counted under a limit, the
\* table holds exactly the connections there are of each device: "allowing the
\* dispatcher to release device-limit state when the link closes"
\* (dispatcher.go:156).  It takes one connection counted without a limit to
\* end that for good, be it in the moment between the start of the instance
\* and its first UpdateLimits.
RefsExact ==
    ~shared => \A ip \in IPs : refs[ip] = Cardinality(Counted(ip))

\* A device that is reported has a connection: the counters may lose one, when
\* a counter is deleted between LoadOrStore and Add, but never invent one,
\* and so does the table, unless the user has been counted in both.
NoPhantomDevices ==
    ~(listed /\ shared) =>
        \A ip \in AliveIPs : \E c \in Conns :
            conn[c].ip = ip /\ conn[c].tcp /\ conn[c].stage \notin {"idle", "gone"}

\* While the table is exact, a device that is connected is never refused,
\* however many devices came before it sees the table.
ConnectedDeviceAdmitted ==
    [][\A c \in Conns :
         conn[c].stage = "over" /\ conn'[c].stage = "gone" /\ ~shared =>
             \A d \in Conns : conn[d].stage = "open" /\ conn[d].tcp => conn[d].ip # conn[c].ip]_vars
=============================================================================
