------------------------- MODULE Connections_proofs -------------------------
(***************************************************************************)
(* Theorems about Connections, for any number of connections, addresses,   *)
(* users, lists and restarts.                                              *)
(***************************************************************************)
EXTENDS Connections, FiniteSetTheorems, TLAPS

-----------------------------------------------------------------------------
(* The inductive invariant *)

\* What a connection that got this far has read: its tracker, and from where
\* it comes.
PlacedAt(c) ==
    /\ conn[c].stage \notin {"new", "rejected"} =>
           conn[c].tracker \in 1..Current /\ conn[c].ip \in Addresses
    /\ conn[c].stage \in {"limit", "local", "global", "register", "lookup"} =>
           conn[c].uuid \in Uuids
    /\ conn[c].stage \in {"local", "global"} => conn[c].us # None
    /\ conn[c].stage \in {"speed", "insert"} => conn[c].id \in Users

Placed == \A c \in Conns : PlacedAt(c)

\* The connections of its device that c knew when it was routed are still
\* counted where it was routed, or closed; once c has found its device
\* unknown, they are all closed.
CompanionsAt(c) ==
    /\ conn[c].stage \in {"limit", "local"} =>
           \A d \in conn[c].peers :
               \/ conn[d].stage = "closed"
               \/ /\ conn[d].stage \in Tracked /\ conn[d].tracker = conn[c].tracker
                  /\ conn[d].us = conn[c].us /\ conn[d].ip = conn[c].ip
    /\ conn[c].stage \in {"global", "rejected"} =>
           \A d \in conn[c].peers : conn[d].stage = "closed"

Companions == \A c \in Conns : CompanionsAt(c)

\* A connection holds the bucket of its user, unless that was ever deleted.
HoldingAt(c) ==
    conn[c].limiter # None =>
        /\ conn[c].stage = "open" /\ conn[c].id \in Users
        /\ conn[c].id \notin dropped => buckets[conn[c].id] = conn[c].limiter

Holding == \A c \in Conns : HoldingAt(c)

\* A bucket was made by a connection of its user, which had found none.
Owned ==
    \A u \in Users : buckets[u] # None =>
        conn[buckets[u]].stage \in {"open", "closed"} /\ conn[buckets[u]].id = u

Inv ==
    /\ TypeOK /\ trackers # <<>>
    /\ Placed /\ CountsMatch /\ Companions
    /\ Holding /\ Owned /\ BucketsCurrent

-----------------------------------------------------------------------------
(* Types *)

AllConns == [Conns -> ConnRecords]

LEMMA Typed ==
    ASSUME TypeOK
    PROVE  /\ conn \in AllConns /\ Current \in Nat
           /\ trackers \in [1..Current -> Trackers] /\ trackers \in Seq(Trackers)
           /\ speedIds \in [Uuids -> Users \cup {Absent}]
           /\ buckets \in [Users -> Conns \cup {None}] /\ speedOf \in [Conns -> Nat]
           /\ limUsers \in Lists
  BY DEF TypeOK, AllConns, Current

LEMMA RecordOf ==
    ASSUME NEW c \in Conns, conn \in AllConns
    PROVE  /\ conn[c] \in ConnRecords
           /\ conn[c].stage \in Stages /\ conn[c].uuid \in Uuids \cup {Absent}
           /\ conn[c].ip \in Addresses \cup {0} /\ conn[c].tracker \in Nat
           /\ conn[c].us \in Users \cup {None} /\ conn[c].devices \in Nat
           /\ conn[c].local \in SUBSET Addresses /\ conn[c].id \in Users \cup {Absent}
           /\ conn[c].speed \in Nat /\ conn[c].limiter \in Conns \cup {None}
           /\ conn[c].peers \in SUBSET Conns
<1>1. conn[c] \in ConnRecords
  BY DEF AllConns
<1> QED BY <1>1 DEF ConnRecords

LEMMA TrackerOf ==
    ASSUME NEW t \in 1..Current, TypeOK
    PROVE  /\ trackers[t] \in Trackers
           /\ trackers[t].ids \in [Uuids -> Users \cup {Absent}]
           /\ trackers[t].stats \in SUBSET Users
           /\ trackers[t].ips \in [Users -> [Addresses -> Nat]]
           /\ trackers[t].count \in [Users -> Nat]
           /\ trackers[t].conns \in SUBSET Conns
           /\ trackers[t].global \in [Users -> (SUBSET Addresses) \cup {Absent}]
           /\ trackers[t].recent \in BOOLEAN
<1>1. trackers[t] \in Trackers
  BY Typed
<1> QED BY <1>1 DEF Trackers

\* A tracker is replaced by one of the right type.
LEMMA TrackersTyped ==
    ASSUME TypeOK, NEW t \in 1..Current, NEW r \in Trackers,
           trackers' = [trackers EXCEPT ![t] = r]
    PROVE  /\ trackers' \in Seq(Trackers) /\ Current' = Current
           /\ trackers'[t] = r
           /\ \A s \in 1..Current : s # t => trackers'[s] = trackers[s]
  BY Typed DEF Current

\* Lists, and what is looked up in them.
LEMMA IdsTyped ==
    ASSUME NEW list \in Lists
    PROVE  IdsOf(list) \in [Uuids -> Users \cup {Absent}]
  BY DEF IdsOf

LEMMA SpecOf ==
    ASSUME NEW list \in Lists, NEW u \in Users, list[u] # Absent
    PROVE  list[u] \in UserSpecs /\ list[u].uuid \in Uuids
           /\ list[u].speed \in Nat /\ list[u].devices \in Nat
<1>1. list[u] \in UserSpecs
  BY DEF Lists
<1> QED BY <1>1 DEF UserSpecs

LEMMA NewTrackerTyped ==
    ASSUME NEW list \in Lists
    PROVE  NewTracker(list) \in Trackers
<1> DEFINE ids == IdsOf(list)
           stats == Listed(list)
           ips == [u \in Users |-> [ip \in Addresses |-> 0]]
           count == [u \in Users |-> 0]
           global == [u \in Users |-> Absent]
<1>1. ids \in [Uuids -> Users \cup {Absent}]
  BY IdsTyped
<1>2. stats \in SUBSET Users
  BY DEF Listed
<1>3. ips \in [Users -> [Addresses -> Nat]]
  OBVIOUS
<1>4. count \in [Users -> Nat]
  OBVIOUS
<1>5. global \in [Users -> (SUBSET Addresses) \cup {Absent}]
  OBVIOUS
<1>6. NewTracker(list) = [ids |-> ids, stats |-> stats, ips |-> ips, count |-> count,
                          conns |-> {}, global |-> global, recent |-> FALSE]
  BY DEF NewTracker
<1> HIDE DEF ids, stats, ips, count, global
<1> QED BY <1>1, <1>2, <1>3, <1>4, <1>5, <1>6 DEF Trackers

-----------------------------------------------------------------------------
(* A step of one connection *)

\* The step is c's, from one of some stages to another.
Moves(c, from, to) ==
    /\ conn' \in AllConns
    /\ \A d \in Conns \ {c} : conn'[d] = conn[d]
    /\ conn[c].stage \in from /\ conn'[c].stage \in to

Stays(c) ==
    /\ conn'[c].tracker = conn[c].tracker
    /\ conn'[c].us = conn[c].us
    /\ conn'[c].ip = conn[c].ip

Keeps(c) ==
    /\ conn'[c].uuid = conn[c].uuid /\ conn'[c].id = conn[c].id
    /\ conn'[c].limiter = conn[c].limiter

LEMMA Replaced ==
    ASSUME conn \in AllConns, NEW c \in Conns, NEW r \in ConnRecords,
           conn' = [conn EXCEPT ![c] = r]
    PROVE  /\ conn' \in AllConns /\ conn'[c] = r
           /\ \A d \in Conns \ {c} : conn'[d] = conn[d]
  BY DEF AllConns

LEMMA UnconnectedTyped ==
    /\ Unconnected \in ConnRecords
    /\ Unconnected.limiter = None
  BY DEF Unconnected, ConnRecords, Stages

LEMMA RouteMoves ==
    ASSUME TypeOK, trackers # <<>>, NEW c \in Conns, Route(c)
    PROVE  /\ Moves(c, {"new"}, {"limit"})
           /\ conn'[c].limiter = conn[c].limiter
           /\ conn'[c].tracker = Current /\ Current \in 1..Current
           /\ conn'[c].ip \in Addresses /\ conn'[c].uuid \in Uuids
           /\ conn'[c].peers = {d \in Counted(Current, conn'[c].us) : conn[d].ip = conn'[c].ip}
<1>1. conn \in AllConns /\ conn[c] \in ConnRecords /\ Current \in 1..Current /\ Current \in Nat
  BY Typed, RecordOf DEF Current, TypeOK
<1>2. PICK uuid \in Uuids, ip \in Addresses :
          LET t  == trackers[Current]
              u  == t.ids[uuid]
              us == IF u \in t.stats THEN u ELSE None
          IN  conn' = [conn EXCEPT ![c] =
                 [@ EXCEPT !.stage = "limit", !.uuid = uuid, !.ip = ip,
                           !.tracker = Current, !.us = us,
                           !.peers = {d \in Counted(Current, us) : conn[d].ip = ip}]]
  BY DEF Route
<1> DEFINE t  == trackers[Current]
           us == IF t.ids[uuid] \in t.stats THEN t.ids[uuid] ELSE None
           peers == {d \in Counted(Current, us) : conn[d].ip = ip}
           r == [conn[c] EXCEPT !.stage = "limit", !.uuid = uuid, !.ip = ip,
                                !.tracker = Current, !.us = us, !.peers = peers]
<1>3. us \in Users \cup {None}
  BY <1>1, TrackerOf
<1>4. peers \in SUBSET Conns
  BY DEF Counted
<1>5. conn' = [conn EXCEPT ![c] = r]
  BY <1>2
<1>6. conn[c].stage = "new"
  BY DEF Route
<1>9. peers = {d \in Counted(Current, us) : conn[d].ip = ip}
  OBVIOUS
<1> HIDE DEF us, peers
<1>7. r \in ConnRecords
  BY <1>1, <1>3, <1>4 DEF ConnRecords, Stages
<1>8. /\ r.stage = "limit" /\ r.uuid = uuid /\ r.ip = ip /\ r.tracker = Current /\ r.us = us
      /\ r.peers = peers /\ r.limiter = conn[c].limiter
  BY <1>1 DEF ConnRecords
<1> HIDE DEF r
<1>10. conn' \in AllConns /\ conn'[c] = r /\ \A d \in Conns \ {c} : conn'[d] = conn[d]
  BY <1>1, <1>5, <1>7, Replaced
<1> QED BY <1>1, <1>6, <1>8, <1>9, <1>10 DEF Moves

LEMMA LimitMoves ==
    ASSUME TypeOK, NEW c \in Conns, conn[c].uuid \in Uuids, ReadLimit(c)
    PROVE  /\ Moves(c, {"limit"}, {"local", "register"}) /\ Stays(c) /\ Keeps(c)
           /\ conn'[c].peers = conn[c].peers
           /\ conn'[c].stage = "local" => conn[c].us # None
<1>1. conn \in AllConns /\ conn[c] \in ConnRecords /\ limUsers \in Lists
  BY Typed, RecordOf
<1> DEFINE u == IdsOf(limUsers)[conn[c].uuid]
           devices == IF u = Absent THEN 0 ELSE limUsers[u].devices
           s == IF conn[c].us = None \/ devices = 0 THEN "register" ELSE "local"
           r == [conn[c] EXCEPT !.stage = s, !.devices = devices]
<1>2. conn[c].stage = "limit" /\ conn' = [conn EXCEPT ![c] = r]
  BY <1>1 DEF ReadLimit, AllConns
<1>3. devices \in Nat
  <2>1. CASE \E v \in Users : limUsers[v] # Absent /\ limUsers[v].uuid = conn[c].uuid
    <3> DEFINE w == CHOOSE v \in Users : limUsers[v] # Absent /\ limUsers[v].uuid = conn[c].uuid
    <3>1. u = w
      BY <2>1 DEF IdsOf
    <3>2. w \in Users /\ limUsers[w] # Absent
      BY <2>1
    <3> QED BY <1>1, <3>1, <3>2, SpecOf
  <2>2. CASE ~\E v \in Users : limUsers[v] # Absent /\ limUsers[v].uuid = conn[c].uuid
    <3>1. u = Absent
      BY <2>2 DEF IdsOf
    <3> QED BY <3>1
  <2> QED BY <2>1, <2>2
<1>4. s \in {"local", "register"} /\ s \in Stages /\ (s = "local" => conn[c].us # None)
  BY DEF Stages
<1> HIDE DEF devices, s
<1>5. r \in ConnRecords
  BY <1>1, <1>3, <1>4 DEF ConnRecords
<1>6. /\ r.stage = s /\ r.uuid = conn[c].uuid /\ r.ip = conn[c].ip /\ r.tracker = conn[c].tracker
      /\ r.us = conn[c].us /\ r.peers = conn[c].peers /\ r.limiter = conn[c].limiter
      /\ r.id = conn[c].id
  BY <1>1 DEF ConnRecords
<1> HIDE DEF r
<1> QED BY <1>1, <1>2, <1>4, <1>5, <1>6, Replaced DEF Moves, Stays, Keeps

LEMMA LocalMoves ==
    ASSUME TypeOK, NEW c \in Conns, ReadLocal(c)
    PROVE  /\ Moves(c, {"local"}, {"global", "register"}) /\ Stays(c) /\ Keeps(c)
           /\ conn'[c].peers = conn[c].peers
           /\ conn'[c].stage = "global" =>
                  conn[c].ip \notin {ip \in Addresses : trackers[conn[c].tracker].ips[conn[c].us][ip] > 0}
<1>1. conn \in AllConns /\ conn[c] \in ConnRecords
  BY Typed, RecordOf
<1> DEFINE local == {ip \in Addresses : trackers[conn[c].tracker].ips[conn[c].us][ip] > 0}
           s == IF Known(c, local) THEN "register" ELSE "global"
           r == [conn[c] EXCEPT !.stage = s, !.local = local]
<1>2. conn[c].stage = "local" /\ conn' = [conn EXCEPT ![c] = r]
  BY <1>1 DEF ReadLocal, AllConns
<1>3. s \in {"global", "register"} /\ s \in Stages /\ (s = "global" => conn[c].ip \notin local)
  BY DEF Stages, Known
<1>4. local \in SUBSET Addresses
  OBVIOUS
<1> HIDE DEF s
<1>5. r \in ConnRecords
  <2> HIDE DEF local
  <2> QED BY <1>1, <1>3, <1>4 DEF ConnRecords
<1>6. /\ r.stage = s /\ r.uuid = conn[c].uuid /\ r.ip = conn[c].ip /\ r.tracker = conn[c].tracker
      /\ r.us = conn[c].us /\ r.peers = conn[c].peers /\ r.limiter = conn[c].limiter
      /\ r.id = conn[c].id
  <2> HIDE DEF local
  <2> QED BY <1>1 DEF ConnRecords
<1> HIDE DEF r
<1>7. conn' \in AllConns /\ conn'[c] = r /\ \A d \in Conns \ {c} : conn'[d] = conn[d]
  BY <1>1, <1>2, <1>5, Replaced
<1> QED BY <1>2, <1>3, <1>6, <1>7 DEF Moves, Stays, Keeps

LEMMA GlobalMoves ==
    ASSUME TypeOK, NEW c \in Conns, ReadGlobal(c)
    PROVE  /\ Moves(c, {"global"}, {"register", "rejected"})
           /\ conn'[c].peers = conn[c].peers
           /\ conn'[c].stage = "register" => Stays(c) /\ Keeps(c)
           /\ conn'[c].stage = "rejected" => conn'[c].limiter = None
<1>1. conn \in AllConns /\ conn[c] \in ConnRecords /\ conn[c].peers \in SUBSET Conns
  BY Typed, RecordOf
<1>2. conn[c].stage = "global"
  BY DEF ReadGlobal
<1> DEFINE on == [conn[c] EXCEPT !.stage = "register"]
           out == [Unconnected EXCEPT !.stage = "rejected", !.peers = conn[c].peers]
<1>3. conn' = [conn EXCEPT ![c] = on] \/ conn' = [conn EXCEPT ![c] = out]
  BY DEF ReadGlobal
<1>4. /\ on \in ConnRecords /\ on.stage = "register" /\ on.uuid = conn[c].uuid /\ on.ip = conn[c].ip
      /\ on.tracker = conn[c].tracker /\ on.us = conn[c].us /\ on.peers = conn[c].peers
      /\ on.limiter = conn[c].limiter /\ on.id = conn[c].id
  BY <1>1 DEF ConnRecords, Stages
<1>5. out \in ConnRecords /\ out.stage = "rejected" /\ out.peers = conn[c].peers /\ out.limiter = None
  BY <1>1, UnconnectedTyped DEF ConnRecords, Stages
<1> HIDE DEF on, out
<1>6. CASE conn' = [conn EXCEPT ![c] = on]
  <2>1. conn' \in AllConns /\ conn'[c] = on /\ \A d \in Conns \ {c} : conn'[d] = conn[d]
    BY <1>1, <1>4, <1>6, Replaced
  <2> QED BY <1>2, <1>4, <2>1 DEF Moves, Stays, Keeps
<1>7. CASE conn' = [conn EXCEPT ![c] = out]
  <2>1. conn' \in AllConns /\ conn'[c] = out /\ \A d \in Conns \ {c} : conn'[d] = conn[d]
    BY <1>1, <1>5, <1>7, Replaced
  <2> QED BY <1>2, <1>5, <2>1 DEF Moves
<1> QED BY <1>3, <1>6, <1>7

LEMMA RegisterMoves ==
    ASSUME TypeOK, NEW c \in Conns, Register(c)
    PROVE  Moves(c, {"register"}, {"lookup"}) /\ Stays(c) /\ Keeps(c)
<1>1. conn \in AllConns /\ conn[c] \in ConnRecords
  BY Typed, RecordOf
<1> DEFINE r == [conn[c] EXCEPT !.stage = "lookup", !.devices = 0, !.local = {}, !.peers = {}]
<1>2. conn[c].stage = "register" /\ conn' = [conn EXCEPT ![c] = r]
  BY DEF Register
<1>3. /\ r \in ConnRecords /\ r.stage = "lookup" /\ r.uuid = conn[c].uuid /\ r.ip = conn[c].ip
      /\ r.tracker = conn[c].tracker /\ r.us = conn[c].us
      /\ r.limiter = conn[c].limiter /\ r.id = conn[c].id
  BY <1>1 DEF ConnRecords, Stages
<1> HIDE DEF r
<1>4. conn' \in AllConns /\ conn'[c] = r /\ \A d \in Conns \ {c} : conn'[d] = conn[d]
  BY <1>1, <1>2, <1>3, Replaced
<1> QED BY <1>2, <1>3, <1>4 DEF Moves, Stays, Keeps

LEMMA LookUpMoves ==
    ASSUME TypeOK, NEW c \in Conns, conn[c].uuid \in Uuids, LookUp(c)
    PROVE  /\ Moves(c, {"lookup"}, {"speed", "open"}) /\ Stays(c)
           /\ conn'[c].stage = "speed" => conn'[c].id \in Users /\ conn'[c].limiter = conn[c].limiter
           /\ conn'[c].stage = "open" /\ conn'[c].limiter # None =>
                  conn'[c].id \in Users /\ conn'[c].limiter = buckets[conn'[c].id]
<1>1. conn \in AllConns /\ conn[c] \in ConnRecords /\ buckets \in [Users -> Conns \cup {None}]
  BY Typed, RecordOf
<1> DEFINE u == speedIds[conn[c].uuid]
           bucket == IF u = Absent THEN None ELSE buckets[u]
           on == [conn[c] EXCEPT !.stage = "speed", !.id = u]
           open == [conn[c] EXCEPT !.stage = "open", !.limiter = bucket, !.uuid = Absent, !.id = u]
<1>2. u \in Users \cup {Absent}
  BY Typed
<1>3. conn[c].stage = "lookup"
  BY DEF LookUp
<1>4. \/ u # Absent /\ conn' = [conn EXCEPT ![c] = on]
      \/ conn' = [conn EXCEPT ![c] = open]
  BY DEF LookUp
<1>5. bucket \in Conns \cup {None} /\ (bucket # None => u \in Users /\ bucket = buckets[u])
  BY <1>1, <1>2
<1> HIDE DEF u, bucket
<1>6. /\ on \in ConnRecords /\ on.stage = "speed" /\ on.ip = conn[c].ip /\ on.id = u
      /\ on.tracker = conn[c].tracker /\ on.us = conn[c].us /\ on.limiter = conn[c].limiter
  BY <1>1, <1>2 DEF ConnRecords, Stages
<1>7. /\ open \in ConnRecords /\ open.stage = "open" /\ open.ip = conn[c].ip /\ open.id = u
      /\ open.tracker = conn[c].tracker /\ open.us = conn[c].us /\ open.limiter = bucket
  BY <1>1, <1>2, <1>5 DEF ConnRecords, Stages
<1> HIDE DEF on, open
<1>8. CASE u # Absent /\ conn' = [conn EXCEPT ![c] = on]
  <2>1. conn' \in AllConns /\ conn'[c] = on /\ \A d \in Conns \ {c} : conn'[d] = conn[d]
    BY <1>1, <1>6, <1>8, Replaced
  <2> QED BY <1>2, <1>3, <1>6, <1>8, <2>1 DEF Moves, Stays
<1>9. CASE conn' = [conn EXCEPT ![c] = open]
  <2>1. conn' \in AllConns /\ conn'[c] = open /\ \A d \in Conns \ {c} : conn'[d] = conn[d]
    BY <1>1, <1>7, <1>9, Replaced
  <2> QED BY <1>3, <1>5, <1>7, <2>1 DEF Moves, Stays
<1> QED BY <1>4, <1>8, <1>9

\* GetLimiter is done: c is open, with limiter l or without.
LEMMA OpenedMoves ==
    ASSUME conn \in AllConns, NEW c \in Conns, NEW l \in Conns \cup {None}, Opened(c, l)
    PROVE  /\ Moves(c, {conn[c].stage}, {"open"}) /\ Stays(c)
           /\ conn'[c].id = conn[c].id /\ conn'[c].limiter = l
<1>1. conn[c] \in ConnRecords
  BY RecordOf
<1> DEFINE r == [conn[c] EXCEPT !.stage = "open", !.limiter = l, !.uuid = Absent, !.speed = 0]
<1>2. conn' = [conn EXCEPT ![c] = r]
  BY DEF Opened
<1>3. /\ r \in ConnRecords /\ r.stage = "open" /\ r.ip = conn[c].ip /\ r.id = conn[c].id
      /\ r.tracker = conn[c].tracker /\ r.us = conn[c].us /\ r.limiter = l
  BY <1>1 DEF ConnRecords, Stages
<1> HIDE DEF r
<1>4. conn' \in AllConns /\ conn'[c] = r /\ \A d \in Conns \ {c} : conn'[d] = conn[d]
  BY <1>1, <1>2, <1>3, Replaced
<1> QED BY <1>3, <1>4 DEF Moves, Stays

LEMMA SpeedMoves ==
    ASSUME TypeOK, NEW c \in Conns, conn[c].id \in Users, ReadSpeed(c)
    PROVE  /\ Moves(c, {"speed"}, {"insert", "open"}) /\ Stays(c)
           /\ conn'[c].id = conn[c].id
           /\ conn'[c].stage = "insert" => conn'[c].limiter = conn[c].limiter
           /\ conn'[c].stage = "open" => conn'[c].limiter = None
<1>1. conn \in AllConns /\ conn[c] \in ConnRecords /\ limUsers \in Lists
  BY Typed, RecordOf
<1> DEFINE u == conn[c].id
           r == [conn[c] EXCEPT !.stage = "insert", !.speed = limUsers[u].speed]
<1>2. conn[c].stage = "speed"
  BY DEF ReadSpeed
<1>3. CASE u \in Limited(limUsers)
  <2>1. limUsers[u].speed \in Nat
    BY <1>1, <1>3, SpecOf DEF Limited, Listed
  <2>2. conn' = [conn EXCEPT ![c] = r]
    BY <1>1, <1>3 DEF ReadSpeed, AllConns
  <2>3. /\ r \in ConnRecords /\ r.stage = "insert" /\ r.ip = conn[c].ip /\ r.id = conn[c].id
        /\ r.tracker = conn[c].tracker /\ r.us = conn[c].us /\ r.limiter = conn[c].limiter
    BY <1>1, <2>1 DEF ConnRecords, Stages
  <2> HIDE DEF r
  <2>4. conn' \in AllConns /\ conn'[c] = r /\ \A d \in Conns \ {c} : conn'[d] = conn[d]
    BY <1>1, <2>2, <2>3, Replaced
  <2> QED BY <1>2, <2>3, <2>4 DEF Moves, Stays
<1>4. CASE u \notin Limited(limUsers)
  <2>1. Opened(c, None)
    BY <1>4 DEF ReadSpeed
  <2> QED BY <1>1, <1>2, <2>1, OpenedMoves DEF Moves
<1> QED BY <1>3, <1>4

\* A bucket that is found is shared, one that is not is made.
LEMMA InsertMoves ==
    ASSUME TypeOK, NEW c \in Conns, conn[c].id \in Users, Insert(c)
    PROVE  /\ Moves(c, {"insert"}, {"open"}) /\ Stays(c)
           /\ conn'[c].id = conn[c].id /\ conn'[c].limiter = buckets'[conn[c].id]
           /\ buckets' \in [Users -> Conns \cup {None}] /\ speedOf' \in [Conns -> Nat]
           /\ \/ UNCHANGED <<buckets, speedOf, outdated>>
              \/ /\ buckets[conn[c].id] = None
                 /\ buckets' = [buckets EXCEPT ![conn[c].id] = c]
                 /\ speedOf' = [speedOf EXCEPT ![c] = conn[c].speed]
                 /\ outdated' = IF /\ conn[c].id \in Limited(limUsers)
                                   /\ limUsers[conn[c].id].speed = conn[c].speed
                                THEN outdated ELSE outdated \cup {conn[c].id}
<1>1. /\ conn \in AllConns /\ conn[c].speed \in Nat
      /\ buckets \in [Users -> Conns \cup {None}] /\ speedOf \in [Conns -> Nat]
  BY Typed, RecordOf
<1>2. conn[c].stage = "insert"
  BY DEF Insert
<1>3. CASE buckets[conn[c].id] # None
  <2>1. Opened(c, buckets[conn[c].id]) /\ UNCHANGED <<buckets, speedOf, outdated>>
    BY <1>3 DEF Insert
  <2>2. buckets[conn[c].id] \in Conns \cup {None}
    BY <1>1
  <2> QED BY <1>1, <1>2, <2>1, <2>2, OpenedMoves DEF Moves
<1>4. CASE buckets[conn[c].id] = None
  <2>1. /\ Opened(c, c)
        /\ buckets' = [buckets EXCEPT ![conn[c].id] = c]
        /\ speedOf' = [speedOf EXCEPT ![c] = conn[c].speed]
        /\ outdated' = IF /\ conn[c].id \in Limited(limUsers)
                          /\ limUsers[conn[c].id].speed = conn[c].speed
                       THEN outdated ELSE outdated \cup {conn[c].id}
    BY <1>4 DEF Insert
  <2>2. buckets'[conn[c].id] = c
    BY <1>1, <2>1
  <2>3. Moves(c, {"insert"}, {"open"}) /\ Stays(c) /\ conn'[c].id = conn[c].id /\ conn'[c].limiter = c
    BY <1>1, <1>2, <2>1, OpenedMoves DEF Moves
  <2>4. buckets' \in [Users -> Conns \cup {None}] /\ speedOf' \in [Conns -> Nat]
    BY <1>1, <2>1
  <2> QED BY <1>4, <2>1, <2>2, <2>3, <2>4
<1> QED BY <1>3, <1>4

LEMMA CloseMoves ==
    ASSUME TypeOK, NEW c \in Conns, Close(c)
    PROVE  /\ Moves(c, {"open", "closed"}, {"closed"}) /\ Stays(c)
           /\ conn'[c].id = conn[c].id /\ conn'[c].limiter = None
<1>1. conn \in AllConns /\ conn[c] \in ConnRecords
  BY Typed, RecordOf
<1> DEFINE r == [conn[c] EXCEPT !.stage = "closed", !.limiter = None]
<1>2. conn[c].stage \in {"open", "closed"} /\ conn' = [conn EXCEPT ![c] = r]
  BY DEF Close
<1>3. /\ r \in ConnRecords /\ r.stage = "closed" /\ r.ip = conn[c].ip
      /\ r.tracker = conn[c].tracker /\ r.us = conn[c].us
      /\ r.limiter = None /\ r.id = conn[c].id
  BY <1>1 DEF ConnRecords, Stages
<1> HIDE DEF r
<1>4. conn' \in AllConns /\ conn'[c] = r /\ \A d \in Conns \ {c} : conn'[d] = conn[d]
  BY <1>1, <1>2, <1>3, Replaced
<1> QED BY <1>2, <1>3, <1>4 DEF Moves, Stays

-----------------------------------------------------------------------------
(* Counting *)

At(t, u, ip) == {c \in Counted(t, u) : conn[c].ip = ip}

LEMMA Exact ==
    CountsMatch <=>
        \A t \in 1..Current, u \in Users :
            /\ trackers[t].count[u] = Cardinality(Counted(t, u))
            /\ \A ip \in Addresses : trackers[t].ips[u][ip] = Cardinality(At(t, u, ip))
  BY DEF CountsMatch, At

LEMMA ExactNext ==
    CountsMatch' <=>
        \A t \in 1..Current', u \in Users :
            /\ trackers'[t].count[u] = Cardinality(Counted(t, u)')
            /\ \A ip \in Addresses : trackers'[t].ips[u][ip] = Cardinality(At(t, u, ip)')
  BY DEF CountsMatch, At

LEMMA FiniteCounts ==
    ASSUME NEW t, NEW u, NEW ip
    PROVE  /\ IsFiniteSet(Counted(t, u)) /\ IsFiniteSet(At(t, u, ip))
           /\ Cardinality(Counted(t, u)) \in Nat /\ Cardinality(At(t, u, ip)) \in Nat
<1>1. Counted(t, u) \in SUBSET Conns /\ At(t, u, ip) \in SUBSET Conns
  BY DEF Counted, At
<1> QED BY <1>1, ConnectionsAssumption, FS_Subset, FS_CardinalityType

\* No connection begins or ceases to be counted, or moves.
KeepsCounted ==
    \A c \in Conns :
        /\ conn'[c].stage \in Tracked <=> conn[c].stage \in Tracked
        /\ conn[c].stage \in Tracked => Stays(c)

\* The statistics are what they were.
KeepsCounts ==
    /\ Current' = Current
    /\ \A t \in 1..Current : /\ trackers'[t].count = trackers[t].count
                             /\ trackers'[t].ips = trackers[t].ips

LEMMA SameCounted ==
    ASSUME KeepsCounted, NEW t, NEW u, NEW ip
    PROVE  Counted(t, u)' = Counted(t, u) /\ At(t, u, ip)' = At(t, u, ip)
<1>1. Counted(t, u)' = Counted(t, u)
  BY DEF Counted, KeepsCounted, Stays
<1>2. \A c \in Counted(t, u) : conn'[c].ip = conn[c].ip
  BY DEF Counted, KeepsCounted, Stays
<1> QED BY <1>1, <1>2 DEF At

LEMMA CountsKept ==
    ASSUME CountsMatch, KeepsCounted, KeepsCounts
    PROVE  CountsMatch'
  BY Exact, ExactNext, SameCounted DEF KeepsCounts

\* A step of one connection between stages that are both counted, or both not.
LEMMA MovesKeepCounted ==
    ASSUME NEW c \in Conns, NEW from, NEW to, Moves(c, from, to),
           \/ from \cap Tracked = {} /\ to \cap Tracked = {}
           \/ from \subseteq Tracked /\ to \subseteq Tracked /\ Stays(c)
    PROVE  KeepsCounted
  BY DEF Moves, KeepsCounted, Stays

\* Connection c of user u is counted with n more: 1 when it is registered, -1
\* when it is closed.
Recounts(t, u, ip, n) ==
    /\ Current' = Current
    /\ \A s \in 1..Current : s # t => trackers'[s] = trackers[s]
    /\ \A v \in Users : /\ trackers'[t].count[v] = IF v = u THEN trackers[t].count[v] + n
                                                   ELSE trackers[t].count[v]
                        /\ \A j \in Addresses :
                              trackers'[t].ips[v][j] = IF v = u /\ j = ip THEN trackers[t].ips[v][j] + n
                                                       ELSE trackers[t].ips[v][j]

LEMMA CountedOnce ==
    ASSUME TypeOK, CountsMatch, NEW t \in 1..Current, NEW u \in Users, NEW ip \in Addresses,
           NEW n \in Int, Recounts(t, u, ip, n),
           Cardinality(Counted(t, u)') = Cardinality(Counted(t, u)) + n,
           Cardinality(At(t, u, ip)') = Cardinality(At(t, u, ip)) + n,
           \A s \in 1..Current, v \in Users : s # t \/ v # u => Counted(s, v)' = Counted(s, v),
           \A s \in 1..Current, v \in Users, j \in Addresses :
               s # t \/ v # u \/ j # ip => At(s, v, j)' = At(s, v, j)
    PROVE  CountsMatch'
<1> SUFFICES ASSUME NEW s \in 1..Current, NEW v \in Users
             PROVE  /\ trackers'[s].count[v] = Cardinality(Counted(s, v)')
                    /\ \A j \in Addresses : trackers'[s].ips[v][j] = Cardinality(At(s, v, j)')
  BY ExactNext DEF Recounts
<1>1. /\ trackers[s].count[v] = Cardinality(Counted(s, v))
      /\ \A j \in Addresses : trackers[s].ips[v][j] = Cardinality(At(s, v, j))
  BY Exact
<1>2. CASE s = t /\ v = u
  BY <1>1, <1>2 DEF Recounts
<1>3. CASE s = t /\ v # u
  BY <1>1, <1>3 DEF Recounts
<1>4. CASE s # t
  BY <1>1, <1>4 DEF Recounts
<1> QED BY <1>2, <1>3, <1>4

LEMMA RegisterCounts ==
    ASSUME TypeOK, CountsMatch, NEW c \in Conns, Register(c),
           NEW t \in 1..Current, NEW us \in Users \cup {None}, NEW ip \in Addresses,
           t = conn[c].tracker, us = conn[c].us, ip = conn[c].ip
    PROVE  trackers' \in Seq(Trackers) /\ Current' = Current /\ CountsMatch'
<1> DEFINE old == trackers[t]
<1>1. Moves(c, {"register"}, {"lookup"}) /\ Stays(c)
  BY RegisterMoves
<1>2. conn[c].stage = "register" /\ conn'[c].stage = "lookup"
  BY <1>1 DEF Moves
<1>4. old \in Trackers /\ old.conns \in SUBSET Conns /\ old.ips \in [Users -> [Addresses -> Nat]]
      /\ old.count \in [Users -> Nat] /\ trackers \in [1..Current -> Trackers]
  BY TrackerOf, Typed
<1>5. CASE us = None
  <2> DEFINE r == [old EXCEPT !.conns = @ \cup {c}]
  <2>1. trackers' = [trackers EXCEPT ![t] = r]
    BY <1>5 DEF Register
  <2>2. r \in Trackers /\ r.count = old.count /\ r.ips = old.ips
    BY <1>4 DEF Trackers
  <2> HIDE DEF r
  <2>3. /\ trackers' \in Seq(Trackers) /\ Current' = Current /\ trackers'[t] = r
        /\ \A s \in 1..Current : s # t => trackers'[s] = trackers[s]
    BY <2>1, <2>2, TrackersTyped
  <2>4. \A s, u : u \in Users => Counted(s, u)' = Counted(s, u)
    BY <1>1, <1>2, <1>5, ConnectionsAssumption DEF Counted, Moves, Stays, Tracked
  <2>5. \A s, u, j : u \in Users => At(s, u, j)' = At(s, u, j)
    <3> SUFFICES ASSUME NEW s, NEW u \in Users, NEW j
                 PROVE  At(s, u, j)' = At(s, u, j)
      OBVIOUS
    <3>1. Counted(s, u)' = Counted(s, u)
      BY <2>4
    <3>2. \A d \in Conns : conn'[d].ip = conn[d].ip
      BY <1>1 DEF Moves, Stays
    <3>3. Counted(s, u) \subseteq Conns
      BY DEF Counted
    <3> QED BY <3>1, <3>2, <3>3 DEF At
  <2>6. CountsMatch'
    BY <2>2, <2>3, <2>4, <2>5, Exact, ExactNext
  <2> QED BY <2>3, <2>6
<1>6. CASE us # None
  <2>1. us \in Users
    BY <1>6
  <2> DEFINE ips == [old.ips EXCEPT ![us] = [old.ips[us] EXCEPT ![ip] = old.ips[us][ip] + 1]]
             count == [old.count EXCEPT ![us] = old.count[us] + 1]
             r == [old EXCEPT !.conns = @ \cup {c}, !.ips = ips, !.count = count]
  <2>2. ips \in [Users -> [Addresses -> Nat]] /\ count \in [Users -> Nat]
    <3>1. old.ips[us] \in [Addresses -> Nat]
      BY <1>4, <2>1
    <3>2. [old.ips[us] EXCEPT ![ip] = old.ips[us][ip] + 1] \in [Addresses -> Nat]
      BY <3>1
    <3>3. ips \in [Users -> [Addresses -> Nat]]
      BY <1>4, <2>1, <3>2
    <3>4. old.count[us] + 1 \in Nat
      BY <1>4, <2>1
    <3>5. count \in [Users -> Nat]
      BY <1>4, <3>4
    <3> QED BY <3>3, <3>5
  <2>3. trackers' = [trackers EXCEPT ![t] = r]
    <3>1. trackers' = LET referred == [trackers EXCEPT ![t].conns = @ \cup {c}]
                      IN  [referred EXCEPT ![t].ips[us][ip] = @ + 1, ![t].count[us] = @ + 1]
      BY <1>6 DEF Register
    <3> QED BY <1>4, <3>1 DEF Trackers
  <2>4. /\ \A v \in Users : /\ count[v] = IF v = us THEN old.count[v] + 1 ELSE old.count[v]
                            /\ \A j \in Addresses :
                                  ips[v][j] = IF v = us /\ j = ip THEN old.ips[v][j] + 1
                                              ELSE old.ips[v][j]
    BY <1>4, <2>1
  <2> HIDE DEF ips, count
  <2>5. r \in Trackers /\ r.count = count /\ r.ips = ips
    BY <1>4, <2>2 DEF Trackers
  <2> HIDE DEF r
  <2>6. /\ trackers' \in Seq(Trackers) /\ Current' = Current /\ trackers'[t] = r
        /\ \A s \in 1..Current : s # t => trackers'[s] = trackers[s]
    BY <2>3, <2>5, TrackersTyped
  <2>7. Recounts(t, us, ip, 1)
    BY <2>4, <2>5, <2>6 DEF Recounts
  <2>8. /\ c \notin Counted(t, us) /\ Counted(t, us)' = Counted(t, us) \cup {c}
        /\ \A s, v : s # t \/ v # us => Counted(s, v)' = Counted(s, v)
    BY <1>1, <1>2 DEF Counted, Moves, Stays, Tracked
  <2>9. /\ c \notin At(t, us, ip) /\ At(t, us, ip)' = At(t, us, ip) \cup {c}
        /\ \A s, v, j : s # t \/ v # us \/ j # ip => At(s, v, j)' = At(s, v, j)
    <3>1. \A d \in Conns : conn'[d].ip = conn[d].ip
      BY <1>1 DEF Moves, Stays
    <3>2. \A s, v : Counted(s, v) \subseteq Conns
      BY DEF Counted
    <3>3. c \notin At(t, us, ip) /\ At(t, us, ip)' = At(t, us, ip) \cup {c}
      BY <2>8, <3>1, <3>2 DEF At
    <3>4. ASSUME NEW s, NEW v, NEW j, s # t \/ v # us \/ j # ip
          PROVE  At(s, v, j)' = At(s, v, j)
      <4>1. CASE s # t \/ v # us
        <5>1. Counted(s, v)' = Counted(s, v)
          BY <2>8, <4>1
        <5> QED BY <3>1, <3>2, <5>1 DEF At
      <4>2. CASE s = t /\ v = us /\ j # ip
        BY <2>8, <3>1, <3>2, <4>2 DEF At
      <4> QED BY <3>4, <4>1, <4>2
    <3> QED BY <3>3, <3>4
  <2>10. /\ Cardinality(Counted(t, us)') = Cardinality(Counted(t, us)) + 1
         /\ Cardinality(At(t, us, ip)') = Cardinality(At(t, us, ip)) + 1
    <3>1. IsFiniteSet(Counted(t, us)) /\ IsFiniteSet(At(t, us, ip))
      BY FiniteCounts
    <3>2. /\ Cardinality(Counted(t, us) \cup {c}) = Cardinality(Counted(t, us)) + 1
          /\ Cardinality(At(t, us, ip) \cup {c}) = Cardinality(At(t, us, ip)) + 1
      BY <2>8, <2>9, <3>1, FS_AddElement
    <3> QED BY <2>8, <2>9, <3>2
  <2>11. CountsMatch'
    <3>1. \A s \in 1..Current, v \in Users : s # t \/ v # us => Counted(s, v)' = Counted(s, v)
      BY <2>8
    <3>2. \A s \in 1..Current, v \in Users, j \in Addresses :
              s # t \/ v # us \/ j # ip => At(s, v, j)' = At(s, v, j)
      BY <2>9
    <3> HIDE DEF old
    <3> QED BY <2>1, <2>7, <2>10, <3>1, <3>2, CountedOnce
  <2> QED BY <2>6, <2>11
<1> QED BY <1>5, <1>6

\* The first close takes off what registration has counted, later ones nothing.
LEMMA CloseCounts ==
    ASSUME TypeOK, CountsMatch, NEW c \in Conns, Close(c),
           NEW t \in 1..Current, NEW us \in Users \cup {None}, NEW ip \in Addresses,
           t = conn[c].tracker, us = conn[c].us, ip = conn[c].ip
    PROVE  trackers' \in Seq(Trackers) /\ Current' = Current /\ CountsMatch'
<1> DEFINE old == trackers[t]
<1>1. Moves(c, {"open", "closed"}, {"closed"}) /\ Stays(c)
  BY CloseMoves
<1>2. conn[c].stage \in {"open", "closed"} /\ conn'[c].stage = "closed"
  BY <1>1 DEF Moves
<1>3. old \in Trackers /\ old.conns \in SUBSET Conns /\ old.ips \in [Users -> [Addresses -> Nat]]
      /\ old.count \in [Users -> Nat] /\ trackers \in [1..Current -> Trackers]
  BY TrackerOf, Typed
<1>4. \A d \in Conns : conn'[d].ip = conn[d].ip
  BY <1>1 DEF Moves, Stays
<1>5. \A s, v : Counted(s, v) \subseteq Conns
  BY DEF Counted
<1>6. CASE conn[c].stage = "closed"
  <2>1. trackers' = trackers
    BY <1>6 DEF Close
  <2>2. KeepsCounted
    BY <1>1, <1>2, <1>6 DEF Moves, KeepsCounted, Tracked, Stays
  <2>3. KeepsCounts
    BY <2>1 DEF KeepsCounts, Current
  <2> QED BY <2>1, <2>2, <2>3, CountsKept, Typed DEF Current
<1>7. CASE conn[c].stage = "open" /\ us = None
  <2> DEFINE r == [old EXCEPT !.conns = @ \ {c}]
  <2>1. trackers' = [trackers EXCEPT ![t] = r]
    BY <1>7 DEF Close, Released
  <2>2. r \in Trackers /\ r.count = old.count /\ r.ips = old.ips
    BY <1>3 DEF Trackers
  <2> HIDE DEF r
  <2>3. /\ trackers' \in Seq(Trackers) /\ Current' = Current /\ trackers'[t] = r
        /\ \A s \in 1..Current : s # t => trackers'[s] = trackers[s]
    BY <2>1, <2>2, TrackersTyped
  <2>4. \A s, u : u \in Users => Counted(s, u)' = Counted(s, u)
    BY <1>1, <1>7, ConnectionsAssumption DEF Counted, Moves, Stays
  <2>5. \A s, u, j : u \in Users => At(s, u, j)' = At(s, u, j)
    BY <1>4, <1>5, <2>4 DEF At
  <2>6. CountsMatch'
    BY <2>2, <2>3, <2>4, <2>5, Exact, ExactNext
  <2> QED BY <2>3, <2>6
<1>8. CASE conn[c].stage = "open" /\ us # None
  <2>1. us \in Users
    BY <1>8
  <2>2. c \in Counted(t, us) /\ c \in At(t, us, ip)
    BY <1>8 DEF Counted, At, Tracked
  <2>3. /\ IsFiniteSet(Counted(t, us)) /\ IsFiniteSet(At(t, us, ip))
        /\ Cardinality(Counted(t, us)) \in Nat /\ Cardinality(At(t, us, ip)) \in Nat
    BY FiniteCounts
  <2>4. /\ Cardinality(Counted(t, us) \ {c}) = Cardinality(Counted(t, us)) - 1
        /\ Cardinality(At(t, us, ip) \ {c}) = Cardinality(At(t, us, ip)) - 1
    BY <2>2, <2>3, FS_RemoveElement
  <2>5. /\ Cardinality(Counted(t, us) \ {c}) \in Nat
        /\ Cardinality(At(t, us, ip) \ {c}) \in Nat
    BY <2>3, FS_RemoveElement, FS_CardinalityType
  <2>6. old.count[us] - 1 \in Nat /\ old.ips[us][ip] - 1 \in Nat /\ old.ips[us][ip] > 0
    BY <2>1, <2>3, <2>4, <2>5, Exact
  <2> DEFINE ips == [old.ips EXCEPT ![us] = [old.ips[us] EXCEPT ![ip] = old.ips[us][ip] - 1]]
             count == [old.count EXCEPT ![us] = old.count[us] - 1]
             r == [old EXCEPT !.conns = @ \ {c}, !.count = count, !.ips = ips]
  <2>7. ips \in [Users -> [Addresses -> Nat]] /\ count \in [Users -> Nat]
    <3>1. old.ips[us] \in [Addresses -> Nat]
      BY <1>3, <2>1
    <3>2. [old.ips[us] EXCEPT ![ip] = old.ips[us][ip] - 1] \in [Addresses -> Nat]
      BY <2>6, <3>1
    <3>3. ips \in [Users -> [Addresses -> Nat]]
      BY <1>3, <2>1, <3>2
    <3>4. count \in [Users -> Nat]
      BY <1>3, <2>6
    <3> QED BY <3>3, <3>4
  <2>8. trackers' = [trackers EXCEPT ![t] = r]
    <3>1. trackers' = LET forgotten == [trackers EXCEPT ![t].conns = @ \ {c}]
                      IN  [forgotten EXCEPT ![t].count[us] = @ - 1,
                                            ![t].ips[us][ip] = IF @ > 0 THEN @ - 1 ELSE 0]
      BY <1>8 DEF Close, Released
    <3> QED BY <1>3, <2>6, <3>1 DEF Trackers
  <2>9. /\ \A v \in Users : /\ count[v] = IF v = us THEN old.count[v] + (-1) ELSE old.count[v]
                            /\ \A j \in Addresses :
                                  ips[v][j] = IF v = us /\ j = ip THEN old.ips[v][j] + (-1)
                                              ELSE old.ips[v][j]
    BY <1>3, <2>1
  <2> HIDE DEF ips, count
  <2>10. r \in Trackers /\ r.count = count /\ r.ips = ips
    BY <1>3, <2>7 DEF Trackers
  <2> HIDE DEF r
  <2>11. /\ trackers' \in Seq(Trackers) /\ Current' = Current /\ trackers'[t] = r
         /\ \A s \in 1..Current : s # t => trackers'[s] = trackers[s]
    BY <2>8, <2>10, TrackersTyped
  <2>12. Recounts(t, us, ip, -1)
    BY <2>9, <2>10, <2>11 DEF Recounts
  <2>13. /\ Counted(t, us)' = Counted(t, us) \ {c}
         /\ \A s, v : s # t \/ v # us => Counted(s, v)' = Counted(s, v)
    BY <1>1, <1>2 DEF Counted, Moves, Stays, Tracked
  <2>14. At(t, us, ip)' = At(t, us, ip) \ {c}
    BY <1>4, <1>5, <2>13 DEF At
  <2>15. ASSUME NEW s, NEW v, NEW j, s # t \/ v # us \/ j # ip
         PROVE  At(s, v, j)' = At(s, v, j)
    <3>1. CASE s # t \/ v # us
      <4>1. Counted(s, v)' = Counted(s, v)
        BY <2>13, <3>1
      <4> QED BY <1>4, <1>5, <4>1 DEF At
    <3>2. CASE s = t /\ v = us /\ j # ip
      BY <1>4, <1>5, <2>13, <3>2 DEF At
    <3> QED BY <2>15, <3>1, <3>2
  <2>16. /\ Cardinality(Counted(t, us)') = Cardinality(Counted(t, us)) + (-1)
         /\ Cardinality(At(t, us, ip)') = Cardinality(At(t, us, ip)) + (-1)
    BY <2>3, <2>4, <2>13, <2>14
  <2>17. CountsMatch'
    <3>1. \A s \in 1..Current, v \in Users : s # t \/ v # us => Counted(s, v)' = Counted(s, v)
      BY <2>13
    <3>2. \A s \in 1..Current, v \in Users, j \in Addresses :
              s # t \/ v # us \/ j # ip => At(s, v, j)' = At(s, v, j)
      BY <2>15
    <3> HIDE DEF old
    <3> QED BY <2>1, <2>12, <2>16, <3>1, <3>2, CountedOnce
  <2> QED BY <2>11, <2>17
<1> QED BY <1>2, <1>6, <1>7, <1>8

-----------------------------------------------------------------------------
(* The loop's steps *)

\* A step that leaves the connections alone and replaces no tracker's
\* statistics.
LoopStep ==
    /\ conn' = conn
    /\ Current <= Current' /\ trackers' # <<>>
    /\ TypeOK' /\ CountsMatch'

LEMMA LoopTyped ==
    ASSUME TypeOK, conn' = conn, limUsers' \in Lists,
           loop' \in [stage : {"idle", "buckets", "restored", "kernel"}, prev : Lists],
           UNCHANGED speedVars, trackers' \in Seq(Trackers)
    PROVE  TypeOK'
  BY DEF TypeOK, speedVars

LEMMA LoopOf ==
    ASSUME TypeOK
    PROVE  /\ loop \in [stage : {"idle", "buckets", "restored", "kernel"}, prev : Lists]
           /\ loop.prev \in Lists /\ limUsers \in Lists
  BY DEF TypeOK

LEMMA SameConns ==
    ASSUME conn' = conn
    PROVE  KeepsCounted
  BY DEF KeepsCounted, Stays

LEMMA NotEmpty ==
    ASSUME NEW s, NEW n \in Nat \ {0}, Len(s) = n
    PROVE  s # <<>>
  OBVIOUS

\* The current tracker is replaced by one with the same statistics.
LEMMA TrackerChanged ==
    ASSUME TypeOK, trackers # <<>>, CountsMatch, conn' = conn, NEW r \in Trackers,
           r.count = trackers[Current].count, r.ips = trackers[Current].ips,
           trackers' = [trackers EXCEPT ![Current] = r]
    PROVE  /\ trackers' \in Seq(Trackers) /\ trackers' # <<>> /\ Current <= Current'
           /\ CountsMatch'
<1>1. Current \in 1..Current /\ Current \in Nat
  BY Typed DEF Current, TypeOK
<1>2. /\ trackers' \in Seq(Trackers) /\ Current' = Current /\ trackers'[Current] = r
      /\ \A s \in 1..Current : s # Current => trackers'[s] = trackers[s]
  BY <1>1, TrackersTyped
<1>3. KeepsCounts
  BY <1>2 DEF KeepsCounts
<1>4. trackers' # <<>>
  <2>1. Current' = Current /\ Current \in Nat \ {0}
    BY <1>1, <1>2
  <2>2. Len(trackers') = Len(trackers) /\ Len(trackers) \in Nat \ {0}
    BY <2>1 DEF Current
  <2> DEFINE s == trackers'
  <2>3. Len(s) = Len(trackers)
    BY <2>2
  <2> HIDE DEF s
  <2>4. s # <<>>
    BY <2>2, <2>3, NotEmpty
  <2> QED BY <2>4 DEF s
<1> QED BY <1>1, <1>2, <1>3, <1>4, SameConns, CountsKept

LEMMA UpdateUsersLoops ==
    ASSUME TypeOK, trackers # <<>>, CountsMatch, UpdateUsers
    PROVE  LoopStep
<1>1. conn' = conn /\ trackers' = trackers /\ UNCHANGED speedVars
  BY DEF UpdateUsers
<1>2. limUsers' \in Lists /\ loop' = [stage |-> "buckets", prev |-> limUsers]
  BY ConnectionsAssumption DEF UpdateUsers
<1>3. TypeOK'
  BY <1>1, <1>2, LoopTyped, LoopOf, Typed
<1>4. KeepsCounts /\ Current <= Current'
  BY <1>1, Typed DEF KeepsCounts, Current
<1> QED BY <1>1, <1>3, <1>4, SameConns, CountsKept DEF LoopStep

LEMMA RestoreUsersLoops ==
    ASSUME TypeOK, trackers # <<>>, CountsMatch, RestoreUsers
    PROVE  LoopStep
<1>1. conn' = conn /\ trackers' = trackers /\ UNCHANGED speedVars
  BY DEF RestoreUsers
<1>2. limUsers' \in Lists /\ loop' = [loop EXCEPT !.stage = "restored"]
  BY LoopOf DEF RestoreUsers
<1>3. TypeOK'
  BY <1>1, <1>2, LoopTyped, LoopOf, Typed
<1>4. KeepsCounts /\ Current <= Current'
  BY <1>1, Typed DEF KeepsCounts, Current
<1> QED BY <1>1, <1>3, <1>4, SameConns, CountsKept DEF LoopStep

LEMMA SyncedTyped ==
    ASSUME TypeOK, NEW c \in Conns
    PROVE  Synced(c) \in Nat
<1>1. CASE \E u \in Limited(limUsers) : buckets[u] = c
  <2> DEFINE w == CHOOSE u \in Limited(limUsers) : buckets[u] = c
  <2>1. w \in Limited(limUsers)
    BY <1>1
  <2>2. Synced(c) = limUsers[w].speed
    BY <1>1 DEF Synced
  <2> HIDE DEF w
  <2> QED BY <2>1, <2>2, LoopOf, SpecOf DEF Limited, Listed
<1>2. CASE ~\E u \in Limited(limUsers) : buckets[u] = c
  BY <1>2, Typed DEF Synced
<1> QED BY <1>1, <1>2

LEMMA UpdateBucketsLoops ==
    ASSUME TypeOK, trackers # <<>>, CountsMatch, UpdateBuckets
    PROVE  LoopStep
<1>1. conn' = conn /\ trackers' = trackers /\ limUsers' = limUsers
  BY DEF UpdateBuckets
<1>2. speedIds' \in [Uuids -> Users \cup {Absent}]
  BY LoopOf, IdsTyped DEF UpdateBuckets
<1>3. buckets' \in [Users -> Conns \cup {None}]
  BY Typed DEF UpdateBuckets
<1>4. speedOf' \in [Conns -> Nat]
  BY SyncedTyped DEF UpdateBuckets
<1>5. loop' \in [stage : {"idle", "buckets", "restored", "kernel"}, prev : Lists]
  BY LoopOf DEF UpdateBuckets
<1>6. dropped' \subseteq Users /\ outdated' \subseteq Users
  BY DEF UpdateBuckets, TypeOK
<1>7. TypeOK'
  BY <1>1, <1>2, <1>3, <1>4, <1>5, <1>6 DEF TypeOK
<1>8. KeepsCounts /\ Current <= Current'
  BY <1>1, Typed DEF KeepsCounts, Current
<1> QED BY <1>1, <1>7, <1>8, SameConns, CountsKept DEF LoopStep

LEMMA SetUserMapLoops ==
    ASSUME TypeOK, trackers # <<>>, CountsMatch, SetUserMap
    PROVE  LoopStep
<1>1. conn' = conn /\ limUsers' = limUsers /\ UNCHANGED speedVars
  BY DEF SetUserMap
<1>2. loop' \in [stage : {"idle", "buckets", "restored", "kernel"}, prev : Lists]
  BY LoopOf DEF SetUserMap
<1>3. Current \in 1..Current
  BY Typed DEF Current, TypeOK
<1> DEFINE old == trackers[Current]
           ids == IdsOf(limUsers)
           stats == old.stats \cup Listed(limUsers)
           r == [old EXCEPT !.ids = ids, !.stats = stats]
<1>4. ids \in [Uuids -> Users \cup {Absent}] /\ stats \in SUBSET Users
  BY <1>3, LoopOf, IdsTyped, TrackerOf DEF Listed
<1>5. trackers' = [trackers EXCEPT ![Current] = r]
  BY <1>3, Typed DEF SetUserMap, Trackers
<1>6. old \in Trackers
  BY <1>3, TrackerOf
<1> HIDE DEF old, ids, stats
<1>7. r \in Trackers /\ r.count = old.count /\ r.ips = old.ips
  BY <1>4, <1>6 DEF Trackers
<1> HIDE DEF r
<1>8. /\ trackers' \in Seq(Trackers) /\ trackers' # <<>> /\ Current <= Current'
      /\ CountsMatch'
  BY <1>1, <1>5, <1>7, TrackerChanged DEF old
<1>9. TypeOK'
  BY <1>1, <1>2, <1>8, LoopTyped, LoopOf
<1> QED BY <1>1, <1>8, <1>9 DEF LoopStep

\* A new tracker begins with no connection counted.
LEMMA RestartKernelLoops ==
    ASSUME TypeOK, trackers # <<>>, Placed, CountsMatch, RestartKernel
    PROVE  LoopStep
<1> DEFINE new == NewTracker(limUsers)
<1>1. conn' = conn /\ limUsers' = limUsers /\ UNCHANGED speedVars /\ trackers' = Append(trackers, new)
  BY DEF RestartKernel
<1>2. loop' \in [stage : {"idle", "buckets", "restored", "kernel"}, prev : Lists]
  BY LoopOf DEF RestartKernel
<1>3. new \in Trackers
  BY LoopOf, NewTrackerTyped
<1>4. /\ \A u \in Users : new.count[u] = 0
      /\ \A u \in Users, ip \in Addresses : new.ips[u][ip] = 0
  BY DEF NewTracker
<1> HIDE DEF new
<1>5. /\ trackers' \in Seq(Trackers) /\ Current \in Nat /\ Current' = Current + 1
      /\ trackers'[Current + 1] = new
      /\ \A s \in 1..Current : trackers'[s] = trackers[s]
  BY <1>1, <1>3, Typed DEF Current
<1>6. TypeOK'
  BY <1>1, <1>2, <1>5, LoopTyped, LoopOf
<1>7. \A u, ip : Counted(Current + 1, u) = {} /\ At(Current + 1, u, ip) = {}
  BY <1>5 DEF Counted, At, Placed, PlacedAt, Tracked
<1>8. ASSUME NEW t \in 1..(Current + 1), NEW u \in Users
      PROVE  /\ trackers'[t].count[u] = Cardinality(Counted(t, u)')
             /\ \A ip \in Addresses : trackers'[t].ips[u][ip] = Cardinality(At(t, u, ip)')
  <2>1. Counted(t, u)' = Counted(t, u) /\ \A ip \in Addresses : At(t, u, ip)' = At(t, u, ip)
    BY <1>1, SameConns, SameCounted
  <2>2. CASE t \in 1..Current
    BY <1>5, <2>1, <2>2, Exact
  <2>3. CASE t = Current + 1
    BY <1>4, <1>5, <1>7, <2>1, <2>3, FS_EmptySet
  <2> QED BY <1>5, <2>2, <2>3
<1>9. CountsMatch'
  BY <1>5, <1>8, ExactNext
<1>10. trackers' # <<>> /\ Current <= Current'
  BY <1>5 DEF Current
<1> QED BY <1>1, <1>6, <1>9, <1>10 DEF LoopStep

\* Device reports come in, are forgotten or grow old.
LEMMA DevicesLoop ==
    ASSUME TypeOK, trackers # <<>>, CountsMatch,
           UpdateGlobalDevices \/ ClearGlobalDevices \/ ReportsAge
    PROVE  LoopStep
<1>1. conn' = conn /\ limUsers' = limUsers /\ loop' = loop /\ UNCHANGED speedVars
  BY DEF UpdateGlobalDevices, ClearGlobalDevices, ReportsAge
<1>2. Current \in 1..Current
  BY Typed DEF Current, TypeOK
<1> DEFINE old == trackers[Current]
<1>3. old \in Trackers /\ old.global \in [Users -> (SUBSET Addresses) \cup {Absent}]
  BY <1>2, TrackerOf
<1>4. PICK global \in [Users -> (SUBSET Addresses) \cup {Absent}], recent \in BOOLEAN :
          trackers' = [trackers EXCEPT ![Current] = [old EXCEPT !.global = global, !.recent = recent]]
  <2>1. CASE UpdateGlobalDevices
    <3>1. PICK devices \in [Users -> (SUBSET Addresses) \cup {Absent}] :
              trackers' = [trackers EXCEPT ![Current].global = devices, ![Current].recent = TRUE]
      BY <2>1 DEF UpdateGlobalDevices
    <3>2. trackers' = [trackers EXCEPT ![Current] = [old EXCEPT !.global = devices, !.recent = TRUE]]
      BY <1>2, <3>1, Typed DEF Trackers
    <3> QED BY <3>2
  <2>2. CASE ClearGlobalDevices
    <3> DEFINE nobody == [u \in Users |-> Absent]
    <3>1. trackers' = [trackers EXCEPT ![Current].global = nobody, ![Current].recent = FALSE]
      BY <2>2 DEF ClearGlobalDevices
    <3>2. nobody \in [Users -> (SUBSET Addresses) \cup {Absent}]
      OBVIOUS
    <3> HIDE DEF nobody
    <3>3. trackers' = [trackers EXCEPT ![Current] = [old EXCEPT !.global = nobody, !.recent = FALSE]]
      BY <1>2, <3>1, Typed DEF Trackers
    <3> QED BY <3>2, <3>3
  <2>3. CASE ReportsAge
    <3>1. trackers' = [trackers EXCEPT ![Current] = [old EXCEPT !.recent = FALSE]]
      BY <2>3 DEF ReportsAge
    <3>2. [old EXCEPT !.recent = FALSE] = [old EXCEPT !.global = old.global, !.recent = FALSE]
      BY <1>3 DEF Trackers
    <3> QED BY <1>3, <3>1, <3>2
  <2> QED BY <2>1, <2>2, <2>3
<1> DEFINE r == [old EXCEPT !.global = global, !.recent = recent]
<1>5. r \in Trackers /\ r.count = old.count /\ r.ips = old.ips
  BY <1>3 DEF Trackers
<1>6. trackers' = [trackers EXCEPT ![Current] = r]
  BY <1>4
<1> HIDE DEF r
<1>7. /\ trackers' \in Seq(Trackers) /\ trackers' # <<>> /\ Current <= Current'
      /\ CountsMatch'
  BY <1>1, <1>5, <1>6, TrackerChanged
<1>8. TypeOK'
  BY <1>1, <1>7, LoopTyped, LoopOf
<1> QED BY <1>1, <1>7, <1>8 DEF LoopStep

-----------------------------------------------------------------------------
(* What a step of one connection keeps of the others *)

LEMMA ConnTyped ==
    ASSUME TypeOK, conn' \in AllConns, trackers' \in Seq(Trackers),
           UNCHANGED <<limUsers, speedVars, loop>>
    PROVE  TypeOK'
  BY DEF TypeOK, AllConns, speedVars

LEMMA PlacedKept ==
    ASSUME Placed, NEW c \in Conns, NEW from, NEW to, Moves(c, from, to),
           Current' = Current, PlacedAt(c)'
    PROVE  Placed'
  BY DEF Placed, PlacedAt, Moves

LEMMA CompanionsKept ==
    ASSUME TypeOK, Companions, NEW c \in Conns, NEW from, NEW to, Moves(c, from, to),
           conn[c].stage \in Tracked => conn'[c].stage \in Tracked \cup {"closed"} /\ Stays(c),
           conn[c].stage = "closed" => conn'[c].stage = "closed",
           CompanionsAt(c)'
    PROVE  Companions'
<1> SUFFICES ASSUME NEW e \in Conns, e # c
             PROVE  CompanionsAt(e)'
  BY DEF Companions
<1>1. conn'[e] = conn[e] /\ CompanionsAt(e) /\ conn[e].peers \in SUBSET Conns
  BY Typed, RecordOf DEF Moves, Companions
<1>2. ASSUME NEW d \in conn[e].peers
      PROVE  /\ conn[d].stage = "closed" => conn'[d].stage = "closed"
             /\ conn[d].stage \in Tracked => /\ conn'[d].stage \in Tracked \cup {"closed"}
                                             /\ Stays(d)
  BY <1>1, <1>2 DEF Moves, Stays
<1> QED BY <1>1, <1>2 DEF CompanionsAt, Stays

LEMMA HoldingKept ==
    ASSUME Holding, NEW c \in Conns, NEW from, NEW to, Moves(c, from, to),
           UNCHANGED <<buckets, dropped>>, HoldingAt(c)'
    PROVE  Holding'
  BY DEF Holding, HoldingAt, Moves

LEMMA OwnedKept ==
    ASSUME TypeOK, Owned, NEW c \in Conns, NEW from, NEW to, Moves(c, from, to),
           buckets' = buckets,
           conn[c].stage \in {"open", "closed"} =>
               conn'[c].stage \in {"open", "closed"} /\ conn'[c].id = conn[c].id
    PROVE  Owned'
<1>1. \A u \in Users : buckets[u] # None => buckets[u] \in Conns
  BY Typed
<1> QED BY <1>1 DEF Owned, Moves

LEMMA CurrentKept ==
    ASSUME BucketsCurrent, UNCHANGED <<limUsers, speedVars, loop>>
    PROVE  BucketsCurrent'
  BY DEF BucketsCurrent, speedVars, Limited, Listed

\* A device whose connection is counted has a count.
LEMMA CompanionCounts ==
    ASSUME TypeOK, CountsMatch, NEW c \in Conns, NEW d \in Conns,
           conn[c].tracker \in 1..Current, conn[c].us \in Users, conn[c].ip \in Addresses,
           conn[d].stage \in Tracked, conn[d].tracker = conn[c].tracker,
           conn[d].us = conn[c].us, conn[d].ip = conn[c].ip
    PROVE  trackers[conn[c].tracker].ips[conn[c].us][conn[c].ip] > 0
<1> DEFINE S == At(conn[c].tracker, conn[c].us, conn[c].ip)
<1>1. d \in S
  BY DEF At, Counted
<1>2. IsFiniteSet(S) /\ Cardinality(S) \in Nat
  BY FiniteCounts
<1>3. Cardinality(S) # 0
  BY <1>1, <1>2, FS_EmptySet
<1>4. trackers[conn[c].tracker].ips[conn[c].us][conn[c].ip] = Cardinality(S)
  BY Exact
<1> HIDE DEF S
<1> QED BY <1>2, <1>3, <1>4

\* What most steps of a connection leave alone.
Quiet == UNCHANGED <<limUsers, speedVars, trackers, loop>>

LEMMA QuietStep ==
    ASSUME Inv, Quiet, NEW c \in Conns, NEW from, NEW to, Moves(c, from, to),
           \/ from \cap Tracked = {} /\ to \cap Tracked = {}
           \/ from \subseteq Tracked /\ to \subseteq Tracked /\ Stays(c),
           conn[c].stage \notin {"open", "closed"},
           PlacedAt(c)', CompanionsAt(c)', HoldingAt(c)'
    PROVE  Inv'
<1>1. TypeOK /\ conn' \in AllConns /\ trackers \in Seq(Trackers)
  BY Typed DEF Inv, Moves
<1>2. TypeOK'
  BY <1>1, ConnTyped DEF Quiet
<1>3. trackers' # <<>> /\ Current' = Current
  BY DEF Inv, Quiet, Current
<1>4. CountsMatch'
  <2>1. KeepsCounts
    BY <1>3 DEF KeepsCounts, Quiet
  <2> QED BY <2>1, MovesKeepCounted, CountsKept DEF Inv
<1>5. Placed'
  BY <1>3, PlacedKept DEF Inv
<1>6. Companions'
  <2>1. conn[c].stage \in Tracked => conn'[c].stage \in Tracked /\ Stays(c)
    BY DEF Moves
  <2> QED BY <2>1, CompanionsKept DEF Inv
<1>7. Holding' /\ Owned'
  BY HoldingKept, OwnedKept DEF Inv, Quiet, speedVars
<1>8. BucketsCurrent'
  BY CurrentKept DEF Inv, Quiet
<1> QED BY <1>2, <1>3, <1>4, <1>5, <1>6, <1>7, <1>8 DEF Inv

LEMMA OwnPart ==
    ASSUME Inv, NEW c \in Conns
    PROVE  /\ TypeOK /\ trackers # <<>> /\ CountsMatch
           /\ PlacedAt(c) /\ CompanionsAt(c) /\ HoldingAt(c)
           /\ conn[c].peers \in SUBSET Conns
  BY Typed, RecordOf DEF Inv, Placed, Companions, Holding

\* A connection that is not open holds no limiter.
LEMMA NoLimiterYet ==
    ASSUME Inv, NEW c \in Conns, conn[c].stage # "open"
    PROVE  conn[c].limiter = None
  BY OwnPart DEF HoldingAt

-----------------------------------------------------------------------------
(* The steps of a connection *)

LEMMA RouteInv ==
    ASSUME Inv, NEW c \in Conns, Route(c)
    PROVE  Inv'
<1>1. /\ Moves(c, {"new"}, {"limit"}) /\ conn'[c].limiter = conn[c].limiter
      /\ conn'[c].tracker = Current /\ Current \in 1..Current
      /\ conn'[c].ip \in Addresses /\ conn'[c].uuid \in Uuids
      /\ conn'[c].peers = {d \in Counted(Current, conn'[c].us) : conn[d].ip = conn'[c].ip}
  BY OwnPart, RouteMoves
<1>2. conn[c].stage = "new" /\ conn'[c].stage = "limit"
  BY <1>1 DEF Moves
<1>3. Quiet
  BY DEF Route, Quiet
<1>4. PlacedAt(c)'
  BY <1>1, <1>2, <1>3 DEF PlacedAt, Quiet, Current
<1>5. CompanionsAt(c)'
  <2> SUFFICES ASSUME NEW d \in conn'[c].peers
               PROVE  /\ conn'[d].stage \in Tracked /\ conn'[d].tracker = conn'[c].tracker
                      /\ conn'[d].us = conn'[c].us /\ conn'[d].ip = conn'[c].ip
    BY <1>2 DEF CompanionsAt
  <2>1. /\ d \in Conns /\ conn[d].stage \in Tracked /\ conn[d].tracker = Current
        /\ conn[d].us = conn'[c].us /\ conn[d].ip = conn'[c].ip
    BY <1>1 DEF Counted
  <2>2. d # c
    BY <1>2, <2>1 DEF Tracked
  <2> QED BY <1>1, <2>1, <2>2 DEF Moves
<1>6. HoldingAt(c)'
  BY <1>1, <1>2, NoLimiterYet DEF HoldingAt
<1>7. {"new"} \cap Tracked = {} /\ {"limit"} \cap Tracked = {}
  BY DEF Tracked
<1> QED BY <1>1, <1>2, <1>3, <1>4, <1>5, <1>6, <1>7, QuietStep

LEMMA ReadLimitInv ==
    ASSUME Inv, NEW c \in Conns, ReadLimit(c)
    PROVE  Inv'
<1>1. conn[c].stage = "limit"
  BY DEF ReadLimit
<1>2. conn[c].uuid \in Uuids /\ PlacedAt(c) /\ CompanionsAt(c)
  BY <1>1, OwnPart DEF PlacedAt
<1>3. /\ Moves(c, {"limit"}, {"local", "register"}) /\ Stays(c) /\ Keeps(c)
      /\ conn'[c].peers = conn[c].peers
      /\ conn'[c].stage = "local" => conn[c].us # None
  BY <1>2, OwnPart, LimitMoves
<1>4. Quiet
  BY DEF ReadLimit, Quiet
<1>5. conn'[c].stage \in {"local", "register"}
  BY <1>3 DEF Moves
<1>6. PlacedAt(c)'
  BY <1>1, <1>2, <1>3, <1>4, <1>5 DEF PlacedAt, Stays, Keeps, Quiet, Current
<1>7. CompanionsAt(c)'
  <2>1. \A d \in conn[c].peers :
           d \in Conns /\ (conn[d].stage = "closed" \/ conn[d].stage \in Tracked)
    BY <1>1, <1>2, OwnPart DEF CompanionsAt
  <2>2. \A d \in conn[c].peers : d # c /\ conn'[d] = conn[d]
    BY <1>1, <1>3, <2>1 DEF Moves, Tracked
  <2> QED BY <1>1, <1>2, <1>3, <1>5, <2>2 DEF CompanionsAt, Stays
<1>8. HoldingAt(c)'
  BY <1>1, <1>3, NoLimiterYet DEF HoldingAt, Keeps
<1>9. {"limit"} \cap Tracked = {} /\ {"local", "register"} \cap Tracked = {}
  BY DEF Tracked
<1> QED BY <1>1, <1>3, <1>4, <1>6, <1>7, <1>8, <1>9, QuietStep

\* Where a device that is known passes.
LEMMA ReadLocalInv ==
    ASSUME Inv, NEW c \in Conns, ReadLocal(c)
    PROVE  Inv'
<1>1. conn[c].stage = "local"
  BY DEF ReadLocal
<1>2. PlacedAt(c) /\ CompanionsAt(c) /\ conn[c].us \in Users
  BY <1>1, OwnPart, Typed, RecordOf DEF PlacedAt
<1>3. /\ Moves(c, {"local"}, {"global", "register"}) /\ Stays(c) /\ Keeps(c)
      /\ conn'[c].peers = conn[c].peers
      /\ conn'[c].stage = "global" =>
             conn[c].ip \notin {ip \in Addresses : trackers[conn[c].tracker].ips[conn[c].us][ip] > 0}
  BY OwnPart, LocalMoves
<1>4. Quiet
  BY DEF ReadLocal, Quiet
<1>5. conn'[c].stage \in {"global", "register"}
  BY <1>3 DEF Moves
<1>6. PlacedAt(c)'
  BY <1>1, <1>2, <1>3, <1>4, <1>5, ConnectionsAssumption DEF PlacedAt, Stays, Keeps, Quiet, Current
<1>7. CompanionsAt(c)'
  <2> SUFFICES ASSUME conn'[c].stage = "global", NEW d \in conn'[c].peers
               PROVE  conn'[d].stage = "closed"
    BY <1>5 DEF CompanionsAt
  <2>1. d \in Conns /\ d \in conn[c].peers
    BY <1>3, OwnPart
  <2>2. conn[d].stage = "closed"
    <3>1. conn[c].tracker \in 1..Current /\ conn[c].ip \in Addresses
      BY <1>1, <1>2 DEF PlacedAt
    <3>2. ~(trackers[conn[c].tracker].ips[conn[c].us][conn[c].ip] > 0)
      BY <1>3, <3>1
    <3>3. \/ conn[d].stage = "closed"
          \/ /\ conn[d].stage \in Tracked /\ conn[d].tracker = conn[c].tracker
             /\ conn[d].us = conn[c].us /\ conn[d].ip = conn[c].ip
      BY <1>1, <1>2, <2>1 DEF CompanionsAt
    <3> QED BY <1>2, <2>1, <3>1, <3>2, <3>3, OwnPart, CompanionCounts
  <2>3. d # c
    BY <1>1, <2>2
  <2> QED BY <1>3, <2>1, <2>2, <2>3 DEF Moves
<1>8. HoldingAt(c)'
  BY <1>1, <1>3, NoLimiterYet DEF HoldingAt, Keeps
<1>9. {"local"} \cap Tracked = {} /\ {"global", "register"} \cap Tracked = {}
  BY DEF Tracked
<1> QED BY <1>1, <1>3, <1>4, <1>6, <1>7, <1>8, <1>9, QuietStep

LEMMA ReadGlobalInv ==
    ASSUME Inv, NEW c \in Conns, ReadGlobal(c)
    PROVE  Inv'
<1>1. conn[c].stage = "global"
  BY DEF ReadGlobal
<1>2. PlacedAt(c) /\ CompanionsAt(c)
  BY OwnPart
<1>3. /\ Moves(c, {"global"}, {"register", "rejected"}) /\ conn'[c].peers = conn[c].peers
      /\ conn'[c].stage = "register" => Stays(c) /\ Keeps(c)
      /\ conn'[c].stage = "rejected" => conn'[c].limiter = None
  BY OwnPart, GlobalMoves
<1>4. Quiet
  BY DEF ReadGlobal, Quiet
<1>5. conn'[c].stage \in {"register", "rejected"}
  BY <1>3 DEF Moves
<1>6. PlacedAt(c)'
  <2>1. CASE conn'[c].stage = "register"
    BY <1>1, <1>2, <1>3, <1>4, <2>1 DEF PlacedAt, Stays, Keeps, Quiet, Current
  <2>2. CASE conn'[c].stage = "rejected"
    BY <2>2 DEF PlacedAt
  <2> QED BY <1>5, <2>1, <2>2
<1>7. CompanionsAt(c)'
  <2>1. \A d \in conn[c].peers : d \in Conns /\ d # c /\ conn[d].stage = "closed"
    BY <1>1, <1>2, OwnPart DEF CompanionsAt
  <2> QED BY <1>3, <1>5, <2>1 DEF CompanionsAt, Moves
<1>8. HoldingAt(c)'
  BY <1>1, <1>3, <1>5, NoLimiterYet DEF HoldingAt, Keeps
<1>9. {"global"} \cap Tracked = {} /\ {"register", "rejected"} \cap Tracked = {}
  BY DEF Tracked
<1> QED BY <1>1, <1>3, <1>4, <1>6, <1>7, <1>8, <1>9, QuietStep

LEMMA RegisterInv ==
    ASSUME Inv, NEW c \in Conns, Register(c)
    PROVE  Inv'
<1>1. conn[c].stage = "register" /\ PlacedAt(c) /\ TypeOK /\ CountsMatch
  BY OwnPart DEF Register
<1>2. Moves(c, {"register"}, {"lookup"}) /\ Stays(c) /\ Keeps(c)
  BY <1>1, RegisterMoves
<1>3. conn'[c].stage = "lookup"
  BY <1>2 DEF Moves
<1>4. trackers' \in Seq(Trackers) /\ Current' = Current /\ CountsMatch'
  <2>1. /\ conn[c].tracker \in 1..Current /\ conn[c].us \in Users \cup {None}
        /\ conn[c].ip \in Addresses
    BY <1>1, Typed, RecordOf DEF PlacedAt
  <2> QED BY <1>1, <2>1, RegisterCounts
<1>5. UNCHANGED <<limUsers, speedVars, loop>>
  BY DEF Register
<1>6. TypeOK'
  BY <1>1, <1>2, <1>4, <1>5, ConnTyped DEF Moves
<1>7. trackers' # <<>>
  BY <1>1, <1>4 DEF PlacedAt, Current
<1>8. PlacedAt(c)'
  BY <1>1, <1>2, <1>3, <1>4 DEF PlacedAt, Stays, Keeps
<1>9. CompanionsAt(c)'
  BY <1>3 DEF CompanionsAt
<1>10. HoldingAt(c)'
  BY <1>1, <1>2, NoLimiterYet DEF HoldingAt, Keeps
<1>11. Placed'
  BY <1>2, <1>4, <1>8, PlacedKept DEF Inv
<1>12. Companions'
  BY <1>1, <1>2, <1>9, CompanionsKept DEF Inv, Tracked
<1>13. Holding' /\ Owned'
  BY <1>1, <1>2, <1>5, <1>10, HoldingKept, OwnedKept DEF Inv, speedVars
<1>14. BucketsCurrent'
  BY <1>5, CurrentKept DEF Inv
<1> QED BY <1>4, <1>6, <1>7, <1>11, <1>12, <1>13, <1>14 DEF Inv

LEMMA CloseInv ==
    ASSUME Inv, NEW c \in Conns, Close(c)
    PROVE  Inv'
<1>1. conn[c].stage \in {"open", "closed"} /\ PlacedAt(c) /\ TypeOK /\ CountsMatch
  BY OwnPart DEF Close
<1>2. /\ Moves(c, {"open", "closed"}, {"closed"}) /\ Stays(c)
      /\ conn'[c].id = conn[c].id /\ conn'[c].limiter = None
  BY <1>1, CloseMoves
<1>3. conn'[c].stage = "closed"
  BY <1>2 DEF Moves
<1>4. trackers' \in Seq(Trackers) /\ Current' = Current /\ CountsMatch'
  <2>1. /\ conn[c].tracker \in 1..Current /\ conn[c].us \in Users \cup {None}
        /\ conn[c].ip \in Addresses
    BY <1>1, Typed, RecordOf DEF PlacedAt
  <2> QED BY <1>1, <2>1, CloseCounts
<1>5. UNCHANGED <<limUsers, speedVars, loop>>
  BY DEF Close
<1>6. TypeOK'
  BY <1>1, <1>2, <1>4, <1>5, ConnTyped DEF Moves
<1>7. trackers' # <<>>
  BY <1>1, <1>4 DEF PlacedAt, Current
<1>8. PlacedAt(c)'
  BY <1>1, <1>2, <1>3, <1>4 DEF PlacedAt, Stays
<1>9. CompanionsAt(c)'
  BY <1>3 DEF CompanionsAt
<1>10. HoldingAt(c)'
  BY <1>2 DEF HoldingAt
<1>11. Placed'
  BY <1>2, <1>4, <1>8, PlacedKept DEF Inv
<1>12. Companions'
  BY <1>1, <1>2, <1>3, <1>9, CompanionsKept DEF Inv
<1>13. Holding' /\ Owned'
  BY <1>2, <1>3, <1>5, <1>10, HoldingKept, OwnedKept DEF Inv, speedVars
<1>14. BucketsCurrent'
  BY <1>5, CurrentKept DEF Inv
<1> QED BY <1>4, <1>6, <1>7, <1>11, <1>12, <1>13, <1>14 DEF Inv

LEMMA LookUpInv ==
    ASSUME Inv, NEW c \in Conns, LookUp(c)
    PROVE  Inv'
<1>1. conn[c].stage = "lookup"
  BY DEF LookUp
<1>2. PlacedAt(c) /\ conn[c].uuid \in Uuids /\ conn[c].limiter = None
  BY <1>1, OwnPart, NoLimiterYet DEF PlacedAt
<1>3. /\ Moves(c, {"lookup"}, {"speed", "open"}) /\ Stays(c)
      /\ conn'[c].stage = "speed" => conn'[c].id \in Users /\ conn'[c].limiter = conn[c].limiter
      /\ conn'[c].stage = "open" /\ conn'[c].limiter # None =>
             conn'[c].id \in Users /\ conn'[c].limiter = buckets[conn'[c].id]
  BY <1>2, OwnPart, LookUpMoves
<1>4. Quiet
  BY DEF LookUp, Quiet
<1>5. conn'[c].stage \in {"speed", "open"}
  BY <1>3 DEF Moves
<1>6. PlacedAt(c)'
  BY <1>1, <1>2, <1>3, <1>4, <1>5 DEF PlacedAt, Stays, Quiet, Current
<1>7. CompanionsAt(c)'
  BY <1>5 DEF CompanionsAt
<1>8. HoldingAt(c)'
  BY <1>2, <1>3, <1>4, <1>5 DEF HoldingAt, Quiet, speedVars
<1>9. {"lookup"} \subseteq Tracked /\ {"speed", "open"} \subseteq Tracked
  BY DEF Tracked
<1> QED BY <1>1, <1>3, <1>4, <1>6, <1>7, <1>8, <1>9, QuietStep

LEMMA ReadSpeedInv ==
    ASSUME Inv, NEW c \in Conns, ReadSpeed(c)
    PROVE  Inv'
<1>1. conn[c].stage = "speed"
  BY DEF ReadSpeed
<1>2. PlacedAt(c) /\ conn[c].id \in Users /\ conn[c].limiter = None
  BY <1>1, OwnPart, NoLimiterYet DEF PlacedAt
<1>3. /\ Moves(c, {"speed"}, {"insert", "open"}) /\ Stays(c)
      /\ conn'[c].id = conn[c].id
      /\ conn'[c].stage = "insert" => conn'[c].limiter = conn[c].limiter
      /\ conn'[c].stage = "open" => conn'[c].limiter = None
  BY <1>2, OwnPart, SpeedMoves
<1>4. Quiet
  BY DEF ReadSpeed, Quiet
<1>5. conn'[c].stage \in {"insert", "open"}
  BY <1>3 DEF Moves
<1>6. PlacedAt(c)'
  BY <1>1, <1>2, <1>3, <1>4, <1>5 DEF PlacedAt, Stays, Quiet, Current
<1>7. CompanionsAt(c)'
  BY <1>5 DEF CompanionsAt
<1>8. HoldingAt(c)'
  BY <1>2, <1>3, <1>5 DEF HoldingAt
<1>9. {"speed"} \subseteq Tracked /\ {"insert", "open"} \subseteq Tracked
  BY DEF Tracked
<1> QED BY <1>1, <1>3, <1>4, <1>6, <1>7, <1>8, <1>9, QuietStep

\* A bucket that was there is taken over.
LEMMA SharedBucket ==
    ASSUME Inv, NEW c \in Conns, Moves(c, {"insert"}, {"open"}), conn'[c].id = conn[c].id,
           conn[c].id \in Users, conn'[c].limiter = buckets'[conn[c].id],
           UNCHANGED <<limUsers, loop, buckets, speedOf, dropped, outdated>>
    PROVE  Holding' /\ Owned' /\ BucketsCurrent'
<1>1. conn[c].stage = "insert" /\ conn'[c].stage = "open"
  BY DEF Moves
<1>2. HoldingAt(c)'
  BY <1>1 DEF HoldingAt
<1>3. Holding' /\ Owned'
  BY <1>1, <1>2, HoldingKept, OwnedKept DEF Inv
<1>4. BucketsCurrent'
  BY DEF Inv, BucketsCurrent, Limited, Listed
<1> QED BY <1>3, <1>4

\* A bucket is made where there was none: nobody holds another one.
LEMMA NewBucket ==
    ASSUME Inv, NEW c \in Conns, Moves(c, {"insert"}, {"open"}), conn'[c].id = conn[c].id,
           NEW u \in Users, u = conn[c].id, conn'[c].limiter = buckets'[u], buckets[u] = None,
           UNCHANGED <<limUsers, loop, dropped>>,
           buckets' = [buckets EXCEPT ![u] = c],
           speedOf' = [speedOf EXCEPT ![c] = conn[c].speed],
           outdated' = IF u \in Limited(limUsers) /\ limUsers[u].speed = conn[c].speed
                       THEN outdated ELSE outdated \cup {u}
    PROVE  Holding' /\ Owned' /\ BucketsCurrent'
<1>1. /\ conn[c].stage = "insert" /\ conn'[c].stage = "open"
      /\ \A d \in Conns \ {c} : conn'[d] = conn[d]
  BY DEF Moves
<1>2. /\ buckets \in [Users -> Conns \cup {None}] /\ speedOf \in [Conns -> Nat]
      /\ Holding /\ Owned /\ BucketsCurrent
  BY Typed DEF Inv
<1>3. /\ buckets'[u] = c
      /\ \A v \in Users \ {u} : buckets'[v] = buckets[v]
      /\ speedOf'[c] = conn[c].speed
      /\ \A d \in Conns \ {c} : speedOf'[d] = speedOf[d]
  BY <1>2
<1>4. Holding'
  <2> SUFFICES ASSUME NEW d \in Conns
               PROVE  HoldingAt(d)'
    BY DEF Holding
  <2>1. CASE d = c
    BY <1>1, <1>3, <2>1 DEF HoldingAt
  <2>2. CASE d # c
    <3>1. conn'[d] = conn[d] /\ HoldingAt(d)
      BY <1>1, <1>2, <2>2 DEF Holding
    <3>2. conn[d].limiter # None /\ conn[d].id \notin dropped => conn[d].id # u
      BY <3>1 DEF HoldingAt
    <3> QED BY <1>3, <3>1, <3>2 DEF HoldingAt
  <2> QED BY <2>1, <2>2
<1>5. ASSUME NEW v \in Users, v # u, buckets'[v] # None
      PROVE  /\ buckets'[v] = buckets[v] /\ buckets[v] \in Conns \ {c}
             /\ conn'[buckets[v]] = conn[buckets[v]]
  BY <1>1, <1>2, <1>3, <1>5 DEF Owned
<1>6. Owned'
  <2> SUFFICES ASSUME NEW v \in Users, buckets'[v] # None
               PROVE  conn'[buckets'[v]].stage \in {"open", "closed"} /\ conn'[buckets'[v]].id = v
    BY DEF Owned
  <2>1. CASE v = u
    BY <1>1, <1>3, <2>1
  <2>2. CASE v # u
    BY <1>2, <1>5, <2>2 DEF Owned
  <2> QED BY <2>1, <2>2
<1>7. BucketsCurrent'
  <2> SUFFICES ASSUME loop.stage \in {"idle", "kernel"},
                      NEW v \in Users \ outdated', buckets'[v] # None
               PROVE  v \in Limited(limUsers) /\ speedOf'[buckets'[v]] = limUsers[v].speed
    BY DEF BucketsCurrent, Limited, Listed
  <2>1. CASE v = u
    BY <1>3, <2>1
  <2>2. CASE v # u
    BY <1>2, <1>3, <1>5, <2>2 DEF BucketsCurrent
  <2> QED BY <2>1, <2>2
<1> QED BY <1>4, <1>6, <1>7

LEMMA InsertInv ==
    ASSUME Inv, NEW c \in Conns, Insert(c)
    PROVE  Inv'
<1>1. conn[c].stage = "insert"
  BY DEF Insert
<1>2. PlacedAt(c) /\ conn[c].id \in Users /\ TypeOK
  BY <1>1, OwnPart DEF PlacedAt
<1> DEFINE u == conn[c].id
<1>3. /\ Moves(c, {"insert"}, {"open"}) /\ Stays(c)
      /\ conn'[c].id = u /\ conn'[c].limiter = buckets'[u]
      /\ buckets' \in [Users -> Conns \cup {None}] /\ speedOf' \in [Conns -> Nat]
      /\ \/ UNCHANGED <<buckets, speedOf, outdated>>
         \/ /\ buckets[u] = None
            /\ buckets' = [buckets EXCEPT ![u] = c]
            /\ speedOf' = [speedOf EXCEPT ![c] = conn[c].speed]
            /\ outdated' = IF u \in Limited(limUsers) /\ limUsers[u].speed = conn[c].speed
                           THEN outdated ELSE outdated \cup {u}
  BY <1>2, InsertMoves
<1>4. UNCHANGED <<limUsers, speedIds, dropped, trackers, loop>>
  BY DEF Insert
<1>5. conn'[c].stage = "open" /\ conn' \in AllConns
  BY <1>3 DEF Moves
<1>6. TypeOK'
  <2>1. outdated' \subseteq Users
    BY <1>2, <1>3 DEF TypeOK
  <2> QED BY <1>2, <1>3, <1>4, <1>5, <2>1 DEF TypeOK, AllConns
<1>7. trackers' # <<>> /\ Current' = Current
  BY <1>4 DEF Inv, Current
<1>8. CountsMatch'
  <2>1. KeepsCounts
    BY <1>4, <1>7 DEF KeepsCounts
  <2>2. {"insert"} \subseteq Tracked /\ {"open"} \subseteq Tracked
    BY DEF Tracked
  <2> QED BY <1>3, <2>1, <2>2, MovesKeepCounted, CountsKept DEF Inv
<1>9. PlacedAt(c)' /\ CompanionsAt(c)'
  BY <1>1, <1>2, <1>3, <1>5, <1>7 DEF PlacedAt, CompanionsAt, Stays
<1>10. Placed'
  BY <1>3, <1>7, <1>9, PlacedKept DEF Inv
<1>11. Companions'
  <2>1. conn[c].stage \in Tracked => conn'[c].stage \in Tracked \cup {"closed"} /\ Stays(c)
    BY <1>3, <1>5 DEF Tracked
  <2> QED BY <1>1, <1>2, <1>3, <1>9, <2>1, CompanionsKept DEF Inv
<1>12. Holding' /\ Owned' /\ BucketsCurrent'
  <2>1. CASE UNCHANGED <<buckets, speedOf, outdated>>
    BY <1>2, <1>3, <1>4, <2>1, SharedBucket
  <2>2. CASE ~UNCHANGED <<buckets, speedOf, outdated>>
    <3> HIDE DEF u
    <3>1. u = conn[c].id /\ u \in Users
      BY <1>2 DEF u
    <3> QED BY <1>3, <1>4, <2>2, <3>1, NewBucket
  <2> QED BY <2>1, <2>2
<1> QED BY <1>6, <1>7, <1>8, <1>10, <1>11, <1>12 DEF Inv

LEMMA RoutedInv ==
    ASSUME Inv, NEW c \in Conns, Routed(c)
    PROVE  Inv'
  BY RouteInv, ReadLimitInv, ReadLocalInv, ReadGlobalInv, RegisterInv, LookUpInv,
     ReadSpeedInv, InsertInv, CloseInv DEF Routed

-----------------------------------------------------------------------------
(* The steps of the loop *)

\* What the loop leaves of a connection's reads.
LEMMA LoopKeeps ==
    ASSUME Inv, LoopStep
    PROVE  Placed' /\ Companions'
<1>1. conn' = conn /\ Current \in Nat /\ Current' \in Nat /\ Current <= Current'
  <2>1. Current \in Nat
    BY Typed DEF Inv
  <2>2. Current' \in Nat
    BY DEF LoopStep, TypeOK, Current
  <2> QED BY <2>1, <2>2 DEF LoopStep
<1>2. Placed'
  BY <1>1 DEF Inv, Placed, PlacedAt
<1>3. Companions'
  BY <1>1 DEF Inv, Companions, CompanionsAt
<1> QED BY <1>2, <1>3

LEMMA LoopKeepsBuckets ==
    ASSUME Inv, LoopStep, UNCHANGED <<buckets, dropped>>
    PROVE  Holding' /\ Owned'
<1>1. conn' = conn
  BY DEF LoopStep
<1>2. Holding'
  BY <1>1 DEF Inv, Holding, HoldingAt
<1>3. Owned'
  BY <1>1 DEF Inv, Owned
<1> QED BY <1>2, <1>3

\* The buckets are behind the list until UpdateBuckets.
LEMMA ListsInv ==
    ASSUME Inv, UpdateUsers \/ RestoreUsers
    PROVE  Inv'
<1>1. LoopStep
  BY UpdateUsersLoops, RestoreUsersLoops DEF Inv
<1>2. UNCHANGED speedVars /\ loop'.stage \in {"buckets", "restored"}
  BY LoopOf DEF UpdateUsers, RestoreUsers, Inv
<1>3. Holding' /\ Owned' /\ Placed' /\ Companions'
  BY <1>1, <1>2, LoopKeeps, LoopKeepsBuckets DEF speedVars
<1>4. BucketsCurrent'
  BY <1>2 DEF BucketsCurrent
<1> QED BY <1>1, <1>3, <1>4 DEF Inv, LoopStep

\* Only the list's limited users keep a bucket, each one of its own.
LEMMA UpdateBucketsInv ==
    ASSUME Inv, UpdateBuckets
    PROVE  Inv'
<1>1. LoopStep /\ conn' = conn
  BY UpdateBucketsLoops DEF Inv, LoopStep
<1>2. /\ limUsers' = limUsers
      /\ buckets' = [u \in Users |-> IF u \in Limited(limUsers) THEN buckets[u] ELSE None]
      /\ speedOf' = [c \in Conns |-> Synced(c)]
      /\ dropped' = dropped \cup {u \in Users \ Limited(limUsers) : buckets[u] # None}
  BY DEF UpdateBuckets
<1>3. Limited(limUsers) \subseteq Users /\ buckets \in [Users -> Conns \cup {None}]
  BY Typed DEF Limited, Listed, Inv
<1>4. Holding'
  <2> SUFFICES ASSUME NEW c \in Conns, conn[c].limiter # None
               PROVE  /\ conn[c].stage = "open" /\ conn[c].id \in Users
                      /\ conn[c].id \notin dropped' => buckets'[conn[c].id] = conn[c].limiter
    BY <1>1 DEF Holding, HoldingAt
  <2>1. /\ conn[c].stage = "open" /\ conn[c].id \in Users
        /\ conn[c].id \notin dropped => buckets[conn[c].id] = conn[c].limiter
    BY DEF Inv, Holding, HoldingAt
  <2> QED BY <1>2, <2>1
<1>5. Owned'
  BY <1>1, <1>2 DEF Inv, Owned
<1>6. BucketsCurrent'
  <2> SUFFICES ASSUME NEW u \in Users, buckets'[u] # None
               PROVE  u \in Limited(limUsers) /\ speedOf'[buckets'[u]] = limUsers[u].speed
    BY <1>2 DEF BucketsCurrent, Limited, Listed
  <2>1. u \in Limited(limUsers) /\ buckets'[u] = buckets[u] /\ buckets[u] \in Conns
    BY <1>2, <1>3
  <2> DEFINE c == buckets[u]
             w == CHOOSE v \in Limited(limUsers) : buckets[v] = c
  <2>2. w \in Limited(limUsers) /\ buckets[w] = c
    BY <2>1
  <2>3. Synced(c) = limUsers[w].speed
    BY <2>1 DEF Synced
  <2> HIDE DEF w
  <2>4. conn[c].id = w /\ conn[c].id = u
    BY <1>2, <1>3, <2>1, <2>2 DEF Inv, Owned
  <2> QED BY <1>2, <2>1, <2>3, <2>4
<1>7. Placed' /\ Companions'
  BY <1>1, LoopKeeps
<1> QED BY <1>1, <1>4, <1>5, <1>6, <1>7 DEF Inv, LoopStep

\* The other steps of the loop do not concern the buckets.
LEMMA KernelInv ==
    ASSUME Inv, LoopStep, UNCHANGED <<limUsers, speedVars>>,
           loop' = loop \/ loop.stage \in {"idle", "kernel"}
    PROVE  Inv'
<1>1. Holding' /\ Owned' /\ Placed' /\ Companions'
  BY LoopKeeps, LoopKeepsBuckets DEF speedVars
<1>2. BucketsCurrent'
  BY DEF Inv, BucketsCurrent, speedVars, Limited, Listed
<1> QED BY <1>1, <1>2 DEF Inv, LoopStep

LEMMA TrackersInv ==
    ASSUME Inv, \/ SetUserMap \/ RestartKernel
                \/ UpdateGlobalDevices \/ ClearGlobalDevices \/ ReportsAge
    PROVE  Inv'
<1>1. LoopStep
  BY SetUserMapLoops, RestartKernelLoops, DevicesLoop DEF Inv
<1>2. UNCHANGED <<limUsers, speedVars>>
  BY DEF SetUserMap, RestartKernel, UpdateGlobalDevices, ClearGlobalDevices, ReportsAge
<1>3. loop' = loop \/ loop.stage \in {"idle", "kernel"}
  BY DEF SetUserMap, RestartKernel, UpdateGlobalDevices, ClearGlobalDevices, ReportsAge
<1> QED BY <1>1, <1>2, <1>3, KernelInv

-----------------------------------------------------------------------------
(* The theorems *)

LEMMA InitInv ==
    ASSUME Init
    PROVE  Inv
<1>1. /\ limUsers \in Lists /\ speedIds = IdsOf(limUsers)
      /\ buckets = [u \in Users |-> None] /\ speedOf = [c \in Conns |-> 0]
      /\ trackers = <<NewTracker(limUsers)>> /\ loop = [stage |-> "idle", prev |-> limUsers]
      /\ conn = [c \in Conns |-> Unconnected] /\ dropped = {} /\ outdated = {}
  BY ConnectionsAssumption DEF Init
<1>2. NewTracker(limUsers) \in Trackers
  BY <1>1, NewTrackerTyped
<1>3. /\ \A u \in Users : NewTracker(limUsers).count[u] = 0
      /\ \A u \in Users, ip \in Addresses : NewTracker(limUsers).ips[u][ip] = 0
  BY DEF NewTracker
<1>4. Current = 1 /\ trackers # <<>> /\ trackers \in Seq(Trackers) /\ trackers[1] = NewTracker(limUsers)
  BY <1>1, <1>2 DEF Current
<1>5. \A c \in Conns : conn[c] = Unconnected
  BY <1>1
<1>6. Unconnected.stage = "new" /\ Unconnected.limiter = None
  BY DEF Unconnected
<1>7. TypeOK
  <2>1. conn \in [Conns -> ConnRecords]
    BY <1>1, UnconnectedTyped
  <2>2. speedIds \in [Uuids -> Users \cup {Absent}]
    BY <1>1, IdsTyped
  <2>3. buckets \in [Users -> Conns \cup {None}] /\ speedOf \in [Conns -> Nat]
    BY <1>1
  <2> QED BY <1>1, <1>4, <2>1, <2>2, <2>3 DEF TypeOK
<1>8. Placed /\ Companions /\ Holding
  BY <1>5, <1>6 DEF Placed, PlacedAt, Companions, CompanionsAt, Holding, HoldingAt
<1>9. Owned /\ BucketsCurrent
  BY <1>1 DEF Owned, BucketsCurrent
<1>10. CountsMatch
  <2>1. \A t, u, ip : Counted(t, u) = {} /\ At(t, u, ip) = {}
    BY <1>5, <1>6 DEF Counted, At, Tracked
  <2>2. Cardinality({}) = 0
    BY FS_EmptySet
  <2> SUFFICES ASSUME NEW t \in 1..Current, NEW u \in Users
               PROVE  /\ trackers[t].count[u] = Cardinality(Counted(t, u))
                      /\ \A ip \in Addresses : trackers[t].ips[u][ip] = Cardinality(At(t, u, ip))
    BY Exact
  <2>3. t = 1 /\ trackers[t] = NewTracker(limUsers)
    BY <1>4
  <2> QED BY <1>3, <2>1, <2>2, <2>3
<1> QED BY <1>4, <1>7, <1>8, <1>9, <1>10 DEF Inv

LEMMA StutterInv ==
    ASSUME Inv, UNCHANGED vars
    PROVE  Inv'
<1>1. UNCHANGED <<limUsers, speedIds, buckets, speedOf, dropped, outdated, trackers, loop, conn>>
  BY DEF vars, speedVars
<1>2. TypeOK' /\ trackers' # <<>>
  BY <1>1 DEF Inv, TypeOK
<1>3. CountsMatch'
  BY <1>1, SameConns, CountsKept DEF Inv, KeepsCounts, Current
<1>4. LoopStep
  BY <1>1, <1>2, <1>3, Typed DEF LoopStep, Current, Inv
<1> QED BY <1>1, <1>4, KernelInv DEF speedVars

\* Inv holds in every state: a step of one connection disturbs at most its own
\* parts of it and the counts of its tracker, a step of the loop the buckets or
\* the trackers.
THEOREM Invariance == Spec => []Inv
<1>1. Init => Inv
  BY InitInv
<1>2. Inv /\ [Next]_vars => Inv'
  <2> SUFFICES ASSUME Inv, [Next]_vars
               PROVE  Inv'
    OBVIOUS
  <2>1. CASE UpdateUsers \/ RestoreUsers
    BY <2>1, ListsInv
  <2>2. CASE UpdateBuckets
    BY <2>2, UpdateBucketsInv
  <2>3. CASE \/ SetUserMap \/ RestartKernel
             \/ UpdateGlobalDevices \/ ClearGlobalDevices \/ ReportsAge
    BY <2>3, TrackersInv
  <2>4. CASE \E c \in Conns : Routed(c)
    BY <2>4, RoutedInv
  <2>5. CASE UNCHANGED vars
    BY <2>5, StutterInv
  <2> QED BY <2>1, <2>2, <2>3, <2>4, <2>5 DEF Next
<1> QED BY <1>1, <1>2, PTL DEF Spec

\* Every variable keeps its type; in particular no count of connections goes
\* below zero, however closes, restarts and users' changes are interleaved.
THEOREM TypeCorrect == Spec => []TypeOK
<1>1. Inv => TypeOK
  BY DEF Inv
<1> QED BY <1>1, Invariance, PTL

\* The statistics of every tracker, the current one or one whose box was
\* replaced, count exactly the connections that were registered with it and are
\* not closed, in all and per source address (userStats.addConn, removeConn).
THEOREM CountsAreExact == Spec => []CountsMatch
<1>1. Inv => CountsMatch
  BY DEF Inv
<1> QED BY <1>1, Invariance, PTL

\* The device gate turns no connection away while a connection of the same
\* device that was open when it came is open still (checkDeviceGate).
THEOREM OwnDevicesAdmitted == Spec => []OwnDeviceAdmitted
<1>1. Inv => OwnDeviceAdmitted
  BY DEF Inv, Companions, CompanionsAt, OwnDeviceAdmitted
<1> QED BY <1>1, Invariance, PTL

\* All connections of a user share one limiter, unless the user was without a
\* limit in between (SpeedTracker.GetLimiter).
THEOREM LimitersShared == Spec => []LimiterShared
<1>1. Inv => LimiterShared
  BY DEF Inv, Holding, HoldingAt, LimiterShared
<1> QED BY <1>1, Invariance, PTL

\* Once the speed tracker knows the users, a bucket has the speed of the user it
\* belongs to, except one made from a speed read before (UpdateBuckets).
THEOREM BucketsAreCurrent == Spec => []BucketsCurrent
<1>1. Inv => BucketsCurrent
  BY DEF Inv
<1> QED BY <1>1, Invariance, PTL
=============================================================================
