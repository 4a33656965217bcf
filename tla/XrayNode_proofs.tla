--------------------------- MODULE XrayNode_proofs ---------------------------
(***************************************************************************)
(* Theorems about the xray kernel: for any number of connections and       *)
(* devices and any limits, LimitDispatcher's bookkeeping; for any users,   *)
(* credentials and configurations, the service around the kernel's         *)
(* operations (XrayNode).  The two specifications share no state; their    *)
(* theorems share this module.                                             *)
(***************************************************************************)
EXTENDS XrayNode, LimitDispatcher, FiniteSetTheorems, TLAPS

(*************************** LimitDispatcher *******************************)

Conn == [Conns -> ConnRecords]

LEMMA Typed ==
    TypeOK <=> /\ limit \in Limits \cup {0}
               /\ refs \in [IPs -> Nat]
               /\ counter \in [IPs -> Conns \cup {None}]
               /\ count \in [Conns -> Int]
               /\ connCount \in Int
               /\ conn \in Conn
               /\ {entry, shared, listed, crashed} \subseteq BOOLEAN
  BY DEF TypeOK, Conn

LEMMA TypedNext ==
    TypeOK' <=> /\ limit' \in Limits \cup {0}
                /\ refs' \in [IPs -> Nat]
                /\ counter' \in [IPs -> Conns \cup {None}]
                /\ count' \in [Conns -> Int]
                /\ connCount' \in Int
                /\ conn' \in Conn
                /\ {entry', shared', listed', crashed'} \subseteq BOOLEAN
  BY DEF TypeOK, Conn

-----------------------------------------------------------------------------
(* A step of one connection *)

\* The step is c's, from one stage to another.
Moves(c, from, to) ==
    /\ conn' \in Conn
    /\ \A d \in Conns \ {c} : conn'[d] = conn[d]
    /\ conn'[c].ip = conn[c].ip /\ conn'[c].tcp = conn[c].tcp
    /\ conn[c].stage \in from /\ conn'[c].stage \in to

Keeps(c) == conn'[c].tracked = conn[c].tracked

LEMMA RecordOf ==
    ASSUME NEW c \in Conns, conn \in Conn
    PROVE  /\ conn[c].stage \in Stages /\ conn[c].ip \in IPs /\ conn[c].tcp \in BOOLEAN
           /\ conn[c].limit \in Limits \cup {0} /\ conn[c].ctr \in Conns \cup {None}
           /\ conn[c].tracked \in BOOLEAN
  BY DEF Conn, ConnRecords

\* Only the stage changes.
LEMMA Gone ==
    ASSUME NEW c \in Conns, conn \in Conn, NEW s \in Stages, Goto(c, s)
    PROVE  Moves(c, {conn[c].stage}, {s}) /\ Keeps(c)
<1> DEFINE r == [conn[c] EXCEPT !.stage = s]
<1>1. conn[c] \in ConnRecords
  BY DEF Conn
<1>2. r \in ConnRecords
  BY <1>1 DEF ConnRecords
<1>3. r.ip = conn[c].ip /\ r.tcp = conn[c].tcp /\ r.tracked = conn[c].tracked /\ r.stage = s
  BY <1>1 DEF ConnRecords
<1>4. conn' = [conn EXCEPT ![c] = r]
  BY DEF Goto
<1> HIDE DEF r
<1> QED BY <1>2, <1>3, <1>4 DEF Conn, Moves, Keeps

\* The stage and the counter change.
LEMMA GoneWith ==
    ASSUME NEW c \in Conns, conn \in Conn, NEW s \in Stages, NEW k \in Conns \cup {None},
           conn' = [conn EXCEPT ![c].stage = s, ![c].ctr = k]
    PROVE  Moves(c, {conn[c].stage}, {s}) /\ Keeps(c) /\ conn'[c].ctr = k
<1> DEFINE r == [conn[c] EXCEPT !.stage = s, !.ctr = k]
<1>1. conn[c] \in ConnRecords
  BY DEF Conn
<1>2. r \in ConnRecords
  BY <1>1 DEF ConnRecords
<1>3. r.ip = conn[c].ip /\ r.tcp = conn[c].tcp /\ r.tracked = conn[c].tracked /\ r.stage = s /\ r.ctr = k
  BY <1>1 DEF ConnRecords
<1>4. conn' = [conn EXCEPT ![c] = r]
  BY DEF Conn
<1> HIDE DEF r
<1> QED BY <1>2, <1>3, <1>4 DEF Conn, Moves, Keeps

LEMMA Arrived ==
    ASSUME TypeOK, NEW c \in Conns, Arrive(c)
    PROVE  Moves(c, {"idle"}, {"fast", "peek"}) /\ Keeps(c)
<1> DEFINE s == IF limit = 0 THEN "fast" ELSE "peek"
           r == [conn[c] EXCEPT !.stage = s, !.limit = limit]
<1>1. conn \in Conn /\ conn[c] \in ConnRecords /\ limit \in Limits \cup {0}
  BY Typed DEF Conn
<1>2. s \in Stages /\ s \in {"fast", "peek"}
  BY DEF Stages
<1>3. conn[c].stage = "idle" /\ conn' = [conn EXCEPT ![c] = r]
  BY <1>1 DEF Arrive, At, Conn
<1> HIDE DEF s
<1>4. r \in ConnRecords
  BY <1>1, <1>2 DEF ConnRecords
<1>5. r.ip = conn[c].ip /\ r.tcp = conn[c].tcp /\ r.tracked = conn[c].tracked /\ r.stage = s
  BY <1>1 DEF ConnRecords
<1> HIDE DEF r
<1> QED BY <1>1, <1>2, <1>3, <1>4, <1>5 DEF Conn, Moves, Keeps

\* The counter a connection is to increment is one that exists.
LEMMA Grabbed ==
    ASSUME TypeOK, NEW c \in Conns, Grab(c)
    PROVE  /\ Keeps(c)
           /\ counter' \in [IPs -> Conns \cup {None}]
           /\ \/ conn[c].tcp /\ shared' /\ Moves(c, {"fast"}, {"grabbed"})
              \/ ~conn[c].tcp /\ UNCHANGED <<shared, counter>> /\ Moves(c, {"fast"}, {"admitted"})
<1>1. conn \in Conn /\ counter \in [IPs -> Conns \cup {None}] /\ conn[c].ip \in IPs
  BY Typed, RecordOf
<1>2. conn[c].stage = "fast"
  BY DEF Grab, At
<1>3. CASE conn[c].tcp
  <2>1. counter' = IF counter[conn[c].ip] = None
                   THEN [counter EXCEPT ![conn[c].ip] = c] ELSE counter
    BY <1>3 DEF Grab
  <2>2. counter' \in [IPs -> Conns \cup {None}]
    BY <1>1, <2>1
  <2>3. Moves(c, {"fast"}, {"grabbed"}) /\ Keeps(c)
    <3>1. conn' = [conn EXCEPT ![c].stage = "grabbed", ![c].ctr = counter'[conn[c].ip]]
      BY <1>3 DEF Grab
    <3>2. "grabbed" \in Stages /\ counter'[conn[c].ip] \in Conns \cup {None}
      BY <1>1, <2>2 DEF Stages
    <3> QED BY <1>1, <1>2, <3>1, <3>2, GoneWith
  <2>4. shared'
    BY <1>3 DEF Grab
  <2> QED BY <1>3, <2>2, <2>3, <2>4
<1>4. CASE ~conn[c].tcp
  <2>1. Goto(c, "admitted") /\ UNCHANGED <<shared, counter>>
    BY <1>4 DEF Grab
  <2> QED BY <1>1, <1>2, <1>4, <2>1, Gone DEF Stages
<1> QED BY <1>3, <1>4

LEMMA Incremented ==
    ASSUME TypeOK, NEW c \in Conns, Increment(c)
    PROVE  Moves(c, {"grabbed"}, {"admitted"}) /\ Keeps(c) /\ count' \in [Conns -> Int]
<1>1. conn \in Conn /\ count \in [Conns -> Int] /\ conn[c].stage = "grabbed"
  BY Typed DEF Increment, At
<1>2. count' \in [Conns -> Int]
  <2>1. count' = [count EXCEPT ![conn[c].ctr] = count[conn[c].ctr] + 1]
    BY DEF Increment
  <2>2. ASSUME NEW d \in Conns PROVE count[d] \in Int /\ count[d] + 1 \in Int
    BY <1>1
  <2> QED BY <1>1, <2>1, <2>2
<1>3. conn' = [conn EXCEPT ![c].stage = "admitted", ![c].ctr = None]
  BY DEF Increment
<1>4. "admitted" \in Stages /\ None \in Conns \cup {None}
  BY DEF Stages
<1> QED BY <1>1, <1>2, <1>3, <1>4, GoneWith

LEMMA Peeked ==
    ASSUME TypeOK, NEW c \in Conns, Peek(c)
    PROVE  /\ Keeps(c)
           /\ \/ Moves(c, {"peek"}, {"over", "bump", "insert"})
              \/ ~conn[c].tcp /\ Moves(c, {"peek"}, {"admitted"})
<1>1. conn \in Conn /\ conn[c].stage = "peek"
  BY Typed DEF Peek, At
<1>2. \/ \E s \in {"over", "bump", "insert"} : Goto(c, s)
      \/ ~conn[c].tcp /\ Goto(c, "admitted")
  BY DEF Peek
<1>3. {"over", "bump", "insert", "admitted"} \subseteq Stages
  BY DEF Stages
<1>4. CASE \E s \in {"over", "bump", "insert"} : Goto(c, s)
  <2>1. PICK s \in {"over", "bump", "insert"} : Goto(c, s)
    BY <1>4
  <2>2. Moves(c, {"peek"}, {s}) /\ Keeps(c)
    BY <1>1, <1>3, <2>1, Gone
  <2> QED BY <2>2 DEF Moves
<1>5. CASE ~conn[c].tcp /\ Goto(c, "admitted")
  BY <1>1, <1>3, <1>5, Gone
<1> QED BY <1>2, <1>4, <1>5

\* The table takes c's device in.
Entered(c) ==
    /\ refs' = IF conn[c].tcp THEN [refs EXCEPT ![conn[c].ip] = @ + 1] ELSE refs
    /\ refs' \in [IPs -> Nat]
    /\ {entry', listed'} \subseteq BOOLEAN
    /\ Moves(c, {"bump", "insert", "over"}, {"admitted"}) /\ Keeps(c)

LEMMA Enters ==
    ASSUME TypeOK, NEW c \in Conns, conn[c].stage \in {"bump", "insert", "over"}, Enter(c)
    PROVE  Entered(c)
<1>1. conn \in Conn /\ refs \in [IPs -> Nat] /\ conn[c].ip \in IPs
  BY Typed, RecordOf
<1>2. refs' \in [IPs -> Nat]
  BY <1>1 DEF Enter
<1>3. Moves(c, {conn[c].stage}, {"admitted"}) /\ Keeps(c)
  BY <1>1, Gone DEF Enter, Stages
<1>4. {entry', listed'} \subseteq BOOLEAN
  BY DEF Enter
<1> QED BY <1>2, <1>3, <1>4 DEF Enter, Entered, Moves

LEMMA Refused ==
    ASSUME TypeOK, NEW c \in Conns, conn[c].stage = "over", Refuse(c)
    PROVE  Moves(c, {"over"}, {"gone"}) /\ Keeps(c) /\ UNCHANGED <<refs, listed>> /\ entry' = TRUE
  BY Typed, Gone DEF Refuse, Stages

LEMMA Leaves ==
    ASSUME TypeOK, NEW c \in Conns, Leave(c)
    PROVE  /\ Keeps(c)
           /\ \/ conn[c].tcp /\ Moves(c, {conn[c].stage}, {"release"})
              \/ ~conn[c].tcp /\ Moves(c, {conn[c].stage}, {"leaving"})
<1>1. conn \in Conn
  BY Typed
<1>2. CASE conn[c].tcp
  BY <1>1, <1>2, Gone DEF Leave, Stages
<1>3. CASE ~conn[c].tcp
  BY <1>1, <1>3, Gone DEF Leave, Stages
<1> QED BY <1>2, <1>3

LEMMA TrackedLink ==
    ASSUME TypeOK, NEW c \in Conns, TrackLink(c)
    PROVE  Moves(c, {"admitted"}, {"open"}) /\ conn'[c].tracked = TRUE
<1> DEFINE r == [conn[c] EXCEPT !.stage = "open", !.tracked = TRUE]
<1>1. conn \in Conn /\ conn[c] \in ConnRecords /\ conn[c].stage = "admitted"
  BY Typed DEF Conn, TrackLink, At
<1>2. r \in ConnRecords
  BY <1>1 DEF ConnRecords, Stages
<1>3. r.ip = conn[c].ip /\ r.tcp = conn[c].tcp /\ r.tracked = TRUE /\ r.stage = "open"
  BY <1>1 DEF ConnRecords
<1>4. conn' = [conn EXCEPT ![c] = r]
  BY <1>1 DEF TrackLink, Conn
<1> HIDE DEF r
<1> QED BY <1>1, <1>2, <1>3, <1>4 DEF Conn, Moves

LEMMA Released ==
    ASSUME TypeOK, NEW c \in Conns, Release(c)
    PROVE  /\ Keeps(c)
           /\ \/ ~shared /\ Moves(c, {"release"}, {"drop"})
              \/ shared /\ Moves(c, {"release"}, {"leaving", "decrement"})
<1> DEFINE k == counter[conn[c].ip]
           s == IF ~shared THEN "drop" ELSE IF k = None THEN "leaving" ELSE "decrement"
           j == IF shared THEN k ELSE None
<1>1. conn \in Conn /\ conn[c].stage = "release"
  BY Typed DEF Release, At
<1>2. k \in Conns \cup {None}
  BY <1>1, Typed, RecordOf
<1>3. j \in Conns \cup {None} /\ s \in Stages
  BY <1>2 DEF Stages
<1>4. conn' = [conn EXCEPT ![c].stage = s, ![c].ctr = j]
  BY DEF Release
<1>5. Moves(c, {"release"}, {s}) /\ Keeps(c)
  <2> HIDE DEF s, j
  <2> QED BY <1>1, <1>3, <1>4, GoneWith
<1>6. CASE shared
  <2>1. s \in {"leaving", "decrement"}
    BY <1>6
  <2> HIDE DEF s
  <2> QED BY <1>5, <1>6, <2>1 DEF Moves
<1>7. CASE ~shared
  <2>1. s = "drop"
    BY <1>7
  <2> HIDE DEF s
  <2> QED BY <1>5, <1>7, <2>1
<1> QED BY <1>6, <1>7

LEMMA Decremented ==
    ASSUME TypeOK, NEW c \in Conns, Decrement(c)
    PROVE  /\ Keeps(c) /\ Moves(c, {"decrement"}, {"delete", "leaving"})
           /\ count' \in [Conns -> Int]
<1> DEFINE s == IF count'[conn[c].ctr] <= 0 THEN "delete" ELSE "leaving"
<1>1. conn \in Conn /\ count \in [Conns -> Int] /\ conn[c].stage = "decrement"
  BY Typed DEF Decrement, At
<1>2. count' \in [Conns -> Int]
  <2>1. count' = [count EXCEPT ![conn[c].ctr] = count[conn[c].ctr] - 1]
    BY DEF Decrement
  <2>2. ASSUME NEW d \in Conns PROVE count[d] \in Int /\ count[d] - 1 \in Int
    BY <1>1
  <2> QED BY <1>1, <2>1, <2>2
<1>3. s \in Stages /\ s \in {"delete", "leaving"}
  BY DEF Stages
<1>4. conn' = [conn EXCEPT ![c].stage = s, ![c].ctr = None]
  BY DEF Decrement
<1>5. Moves(c, {"decrement"}, {s}) /\ Keeps(c)
  <2> HIDE DEF s
  <2> QED BY <1>1, <1>3, <1>4, GoneWith
<1> HIDE DEF s
<1> QED BY <1>2, <1>3, <1>5 DEF Moves

LEMMA Deleted ==
    ASSUME TypeOK, NEW c \in Conns, Delete(c)
    PROVE  /\ Keeps(c) /\ Moves(c, {"delete"}, {"leaving"})
           /\ counter' \in [IPs -> Conns \cup {None}]
<1>1. conn \in Conn /\ counter \in [IPs -> Conns \cup {None}] /\ conn[c].stage = "delete"
  BY Typed DEF Delete, At
<1>2. counter' \in [IPs -> Conns \cup {None}]
  BY <1>1 DEF Delete
<1> QED BY <1>1, <1>2, Gone DEF Delete, Stages

LEMMA Dropped ==
    ASSUME TypeOK, NEW c \in Conns, Drop(c)
    PROVE  /\ Keeps(c) /\ Moves(c, {"drop"}, {"leaving"})
           /\ refs' \in [IPs -> Nat]
           /\ entry' \in BOOLEAN
<1>1. conn \in Conn /\ refs \in [IPs -> Nat] /\ conn[c].stage = "drop"
  BY Typed DEF Drop, At
<1>2. refs' \in [IPs -> Nat]
  <2>1. conn[c].ip \in IPs /\ refs[conn[c].ip] \in Nat
    BY <1>1, RecordOf
  <2>2. (IF refs[conn[c].ip] > 0 THEN refs[conn[c].ip] - 1 ELSE 0) \in Nat
    BY <2>1
  <2>3. refs' = [refs EXCEPT ![conn[c].ip] = IF refs[conn[c].ip] > 0
                                              THEN refs[conn[c].ip] - 1 ELSE 0]
    BY DEF Drop
  <2> QED BY <1>1, <2>1, <2>2, <2>3
<1>3. entry' \in BOOLEAN
  BY DEF Drop
<1> QED BY <1>1, <1>2, <1>3, Gone DEF Drop, Stages

LEMMA HasLeft ==
    ASSUME TypeOK, NEW c \in Conns, Left(c)
    PROVE  /\ Keeps(c) /\ Moves(c, {"leaving"}, {"gone"})
           /\ connCount' = IF conn[c].tracked THEN connCount - 1 ELSE connCount
  BY Typed, Gone DEF Left, At, Stages

-----------------------------------------------------------------------------
(* Types *)

Step(c) ==
    \/ Arrive(c) \/ Grab(c) \/ Increment(c) \/ Peek(c) \/ Bump(c) \/ Insert(c) \/ Over(c)
    \/ DispatchFails(c) \/ TrackLink(c) \/ CloseLink(c)
    \/ Release(c) \/ Decrement(c) \/ Delete(c) \/ Drop(c) \/ Left(c)

\* What the steps that may enter the table come to.
LEMMA Admissions ==
    ASSUME TypeOK, NEW c \in Conns, Bump(c) \/ Insert(c) \/ Over(c)
    PROVE  /\ UNCHANGED <<limit, uvars, connCount>> /\ crashed' \in BOOLEAN
           /\ \/ UNCHANGED <<lvars, conn, listed>>
              \/ Entered(c)
              \/ /\ Moves(c, {"over"}, {"gone"}) /\ Keeps(c)
                 /\ Refuse(c) /\ Over(c) /\ UNCHANGED <<refs, listed>> /\ entry' = TRUE
<1>1. crashed \in BOOLEAN
  BY Typed
<1>2. CASE Bump(c)
  <2>1. conn[c].stage = "bump"
    BY <1>2 DEF Bump, At
  <2>2. CASE entry
    <3>1. Entered(c)
      BY <1>2, <2>1, <2>2, Enters DEF Bump
    <3> QED BY <1>1, <1>2, <2>2, <3>1 DEF Bump
  <2>3. CASE ~entry
    BY <1>2, <2>3 DEF Bump
  <2> QED BY <2>2, <2>3
<1>3. CASE Insert(c)
  <2>1. conn[c].stage = "insert"
    BY <1>3 DEF Insert, At
  <2>2. Entered(c)
    BY <1>3, <2>1, Enters DEF Insert
  <2> QED BY <1>1, <1>3, <2>2 DEF Insert
<1>4. CASE Over(c)
  <2>1. conn[c].stage = "over"
    BY <1>4 DEF Over, At
  <2>2. CASE Enter(c)
    <3>1. Entered(c)
      BY <2>1, <2>2, Enters
    <3> QED BY <1>1, <1>4, <3>1 DEF Over
  <2>3. CASE Refuse(c)
    <3>1. /\ Moves(c, {"over"}, {"gone"}) /\ Keeps(c)
          /\ UNCHANGED <<refs, listed>> /\ entry' = TRUE
      BY <2>1, <2>3, Refused
    <3> QED BY <1>1, <1>4, <2>3, <3>1 DEF Over
  <2> QED BY <1>4, <2>2, <2>3 DEF Over
<1> QED BY <1>2, <1>3, <1>4

LEMMA StepTypeOK == TypeOK /\ [Next]_vars => TypeOK'
<1> SUFFICES ASSUME TypeOK, [Next]_vars PROVE TypeOK'
  OBVIOUS
<1>1. CASE UpdateLimits
  BY <1>1, Typed, TypedNext DEF UpdateLimits, lvars, uvars
<1>2. CASE UNCHANGED vars
  BY <1>2, Typed, TypedNext DEF vars, lvars, uvars
<1>3. ASSUME NEW c \in Conns, Step(c) PROVE TypeOK'
  <2>1. CASE Arrive(c)
    BY <2>1, Typed, TypedNext, Arrived DEF Arrive, Moves, lvars, uvars
  <2>2. CASE Grab(c)
    <3>1. shared' \in BOOLEAN
      BY <2>2, Typed DEF Grab
    <3> QED BY <2>2, <3>1, Typed, TypedNext, Grabbed DEF Grab, Moves, lvars
  <2>3. CASE Increment(c)
    BY <2>3, Typed, TypedNext, Incremented DEF Increment, Moves, lvars
  <2>4. CASE Peek(c)
    BY <2>4, Typed, TypedNext, Peeked DEF Peek, Moves, lvars, uvars
  <2>5. CASE Bump(c) \/ Insert(c) \/ Over(c)
    <3>1. /\ UNCHANGED <<limit, uvars, connCount>> /\ crashed' \in BOOLEAN
          /\ refs' \in [IPs -> Nat] /\ conn' \in Conn /\ {entry', listed'} \subseteq BOOLEAN
      BY <2>5, Typed, Admissions DEF Entered, Moves, lvars
    <3> QED BY <3>1, Typed, TypedNext DEF uvars
  <2>6. CASE DispatchFails(c)
    BY <2>6, Typed, TypedNext, Leaves DEF DispatchFails, Moves, lvars, uvars
  <2>7. CASE TrackLink(c)
    <3>1. connCount' \in Int
      BY <2>7, Typed DEF TrackLink
    <3> QED BY <2>7, <3>1, Typed, TypedNext, TrackedLink DEF TrackLink, Moves, lvars, uvars
  <2>8. CASE CloseLink(c)
    BY <2>8, Typed, TypedNext, Leaves DEF CloseLink, Moves, lvars, uvars
  <2>9. CASE Release(c)
    BY <2>9, Typed, TypedNext, Released DEF Release, Moves, lvars, uvars
  <2>10. CASE Decrement(c)
    BY <2>10, Typed, TypedNext, Decremented DEF Decrement, Moves, lvars
  <2>11. CASE Delete(c)
    BY <2>11, Typed, TypedNext, Deleted DEF Delete, Moves, lvars
  <2>12. CASE Drop(c)
    BY <2>12, Typed, TypedNext, Dropped DEF Drop, Moves, uvars
  <2>13. CASE Left(c)
    <3>1. connCount' \in Int
      BY <2>13, Typed, HasLeft
    <3> QED BY <2>13, <3>1, Typed, TypedNext, HasLeft DEF Left, Moves, lvars, uvars
  <2> QED BY <1>3, <2>1, <2>2, <2>3, <2>4, <2>5, <2>6, <2>7, <2>8, <2>9, <2>10, <2>11, <2>12,
             <2>13 DEF Step
<1> QED BY <1>1, <1>2, <1>3 DEF Next, Step

LEMMA InitTypeOK == Init => TypeOK
<1> SUFFICES ASSUME Init PROVE TypeOK
  OBVIOUS
<1> DEFINE Fresh == [stage : {"idle"}, ip : IPs, tcp : BOOLEAN, limit : {0}, ctr : {None},
                     tracked : {FALSE}]
<1>1. Fresh \subseteq ConnRecords
  BY DEF ConnRecords, Stages
<1>2. conn \in [Conns -> Fresh]
  BY DEF Init
<1>3. conn \in Conn
  <2> HIDE DEF Fresh
  <2> QED BY <1>1, <1>2 DEF Conn
<1>4. {entry, shared, listed, crashed} \subseteq BOOLEAN /\ limit \in Limits \cup {0}
  BY DEF Init
<1>5. refs \in [IPs -> Nat] /\ connCount \in Int
  BY DEF Init
<1>6. counter \in [IPs -> Conns \cup {None}]
  BY DEF Init
<1>7. count \in [Conns -> Int]
  BY DEF Init
<1> QED BY <1>3, <1>4, <1>5, <1>6, <1>7, Typed

\* The tables and the connections are well-formed, for any number of
\* connections and devices.
THEOREM TypeCorrect == Spec => []TypeOK
<1>1. Init => TypeOK
  BY InitTypeOK
<1>2. TypeOK /\ [Next]_vars => TypeOK'
  BY StepTypeOK
<1> QED BY <1>1, <1>2, PTL DEF Spec

-----------------------------------------------------------------------------
(* The number of links *)

Early == {"idle", "fast", "peek", "grabbed", "bump", "insert", "over", "admitted"}

Late == {"open", "release", "drop", "decrement", "delete", "leaving"}

\* Only what TrackLink has seen is tracked.
LinksCounted ==
    /\ \A c \in Conns : conn[c].stage \in Early => ~conn[c].tracked
    /\ IsFiniteSet(Tracked)
    /\ connCount = Cardinality(Tracked)

\* What a step means to connCount.
CountedStep(c) ==
    \/ UNCHANGED <<conn, connCount>>
    \/ UNCHANGED connCount /\ Keeps(c) /\ Moves(c, Early, Stages)
    \/ UNCHANGED connCount /\ Keeps(c) /\ Moves(c, Late, Late)
    \/ connCount' = connCount + 1 /\ conn'[c].tracked = TRUE /\ Moves(c, {"admitted"}, {"open"})
    \/ /\ connCount' = IF conn[c].tracked THEN connCount - 1 ELSE connCount
       /\ Keeps(c) /\ Moves(c, {"leaving"}, {"gone"})

LEMMA Widened ==
    ASSUME NEW c, NEW from, NEW to, NEW wider, NEW wide, Moves(c, from, to),
           from \subseteq wider, to \subseteq wide
    PROVE  Moves(c, wider, wide)
  BY DEF Moves

LEMMA CountedSteps == ASSUME TypeOK, NEW c \in Conns, Step(c) PROVE CountedStep(c)
<1>1. CASE Arrive(c) \/ Grab(c) \/ Increment(c) \/ Peek(c)
  <2>1. Keeps(c) /\ UNCHANGED connCount
    BY <1>1, Arrived, Grabbed, Incremented, Peeked DEF Arrive, Grab, Increment, Peek
  <2>2. \/ Moves(c, {"idle"}, {"fast", "peek"}) \/ Moves(c, {"fast"}, {"grabbed"})
        \/ Moves(c, {"fast"}, {"admitted"}) \/ Moves(c, {"grabbed"}, {"admitted"})
        \/ Moves(c, {"peek"}, {"over", "bump", "insert"}) \/ Moves(c, {"peek"}, {"admitted"})
    BY <1>1, Arrived, Grabbed, Incremented, Peeked
  <2>3. Moves(c, Early, Stages)
    BY <2>2, Widened DEF Early, Stages
  <2> QED BY <2>1, <2>3 DEF CountedStep
<1>2. CASE Bump(c) \/ Insert(c) \/ Over(c)
  <2>1. UNCHANGED connCount /\ (UNCHANGED conn \/ Entered(c)
                                \/ (Moves(c, {"over"}, {"gone"}) /\ Keeps(c)))
    BY <1>2, Admissions
  <2>2. CASE UNCHANGED conn
    BY <2>1, <2>2 DEF CountedStep
  <2>3. CASE Entered(c)
    <3>1. Moves(c, Early, Stages)
      BY <2>3, Widened DEF Entered, Early, Stages
    <3> QED BY <2>1, <2>3, <3>1 DEF Entered, CountedStep
  <2>4. CASE Moves(c, {"over"}, {"gone"}) /\ Keeps(c)
    <3>1. Moves(c, Early, Stages)
      BY <2>4, Widened DEF Early, Stages
    <3> QED BY <2>1, <2>4, <3>1 DEF CountedStep
  <2> QED BY <2>1, <2>2, <2>3, <2>4
<1>3. CASE DispatchFails(c)
  <2>1. Keeps(c) /\ UNCHANGED connCount /\ conn[c].stage = "admitted"
    BY <1>3, Leaves DEF DispatchFails, At
  <2>2. Moves(c, {"admitted"}, {"release"}) \/ Moves(c, {"admitted"}, {"leaving"})
    BY <1>3, <2>1, Leaves DEF DispatchFails
  <2>3. Moves(c, Early, Stages)
    BY <2>2, Widened DEF Early, Stages
  <2> QED BY <2>1, <2>3 DEF CountedStep
<1>4. CASE TrackLink(c)
  BY <1>4, TrackedLink DEF TrackLink, CountedStep
<1>5. CASE CloseLink(c) \/ Release(c) \/ Decrement(c) \/ Delete(c) \/ Drop(c)
  <2>1. Keeps(c) /\ UNCHANGED connCount
    BY <1>5, Leaves, Released, Decremented, Deleted, Dropped
       DEF CloseLink, Release, Decrement, Delete, Drop
  <2>2. \/ Moves(c, {"open"}, {"release"}) \/ Moves(c, {"open"}, {"leaving"})
        \/ Moves(c, {"release"}, {"drop"}) \/ Moves(c, {"release"}, {"leaving", "decrement"})
        \/ Moves(c, {"decrement"}, {"delete", "leaving"}) \/ Moves(c, {"delete"}, {"leaving"})
        \/ Moves(c, {"drop"}, {"leaving"})
    BY <1>5, Leaves, Released, Decremented, Deleted, Dropped DEF CloseLink, At
  <2>3. Moves(c, Late, Late)
    BY <2>2, Widened DEF Late
  <2> QED BY <2>1, <2>3 DEF CountedStep
<1>6. CASE Left(c)
  BY <1>6, HasLeft DEF CountedStep
<1> QED BY <1>1, <1>2, <1>3, <1>4, <1>5, <1>6 DEF Step

LEMMA StepLinks == TypeOK /\ LinksCounted /\ [Next]_vars => LinksCounted'
<1> SUFFICES ASSUME TypeOK, LinksCounted, [Next]_vars PROVE LinksCounted'
  OBVIOUS
<1>1. CASE UNCHANGED <<conn, connCount>>
  BY <1>1 DEF LinksCounted, Tracked
<1>2. ASSUME NEW c \in Conns, CountedStep(c) PROVE LinksCounted'
  <2>1. CASE UNCHANGED <<conn, connCount>>
    BY <1>1, <2>1
  <2>2. CASE UNCHANGED connCount /\ Keeps(c) /\ Moves(c, Early, Stages)
    <3>1. ~conn[c].tracked /\ ~conn'[c].tracked
      BY <2>2 DEF LinksCounted, Keeps, Moves
    <3>2. \A d \in Conns : d # c => conn'[d] = conn[d]
      BY <2>2 DEF Moves
    <3>3. Tracked' = Tracked
      BY <3>1, <3>2 DEF Tracked
    <3> QED BY <2>2, <3>1, <3>2, <3>3 DEF LinksCounted
  <2>3. CASE UNCHANGED connCount /\ Keeps(c) /\ Moves(c, Late, Late)
    <3>1. \A d \in Conns : d # c => conn'[d] = conn[d]
      BY <2>3 DEF Moves
    <3>2. conn'[c].tracked = conn[c].tracked /\ conn[c].stage # "gone" /\ conn'[c].stage # "gone"
          /\ conn'[c].stage \notin Early
      BY <2>3 DEF Keeps, Moves, Late, Early
    <3>3. Tracked' = Tracked
      BY <3>1, <3>2 DEF Tracked
    <3> QED BY <2>3, <3>1, <3>2, <3>3 DEF LinksCounted
  <2>4. CASE /\ connCount' = connCount + 1 /\ conn'[c].tracked = TRUE
             /\ Moves(c, {"admitted"}, {"open"})
    <3>1. \A d \in Conns : d # c => conn'[d] = conn[d]
      BY <2>4 DEF Moves
    <3>2. ~conn[c].tracked /\ conn'[c].stage = "open"
      BY <2>4 DEF LinksCounted, Moves, Early
    <3>3. Tracked' = Tracked \cup {c} /\ c \notin Tracked
      BY <2>4, <3>1, <3>2 DEF Tracked
    <3>4. IsFiniteSet(Tracked') /\ Cardinality(Tracked') = Cardinality(Tracked) + 1
      BY <3>3, FS_AddElement DEF LinksCounted
    <3>5. \A d \in Conns : conn'[d].stage \in Early => ~conn'[d].tracked
      BY <3>1, <3>2 DEF LinksCounted, Early
    <3> QED BY <2>4, <3>4, <3>5 DEF LinksCounted
  <2>5. CASE /\ connCount' = IF conn[c].tracked THEN connCount - 1 ELSE connCount
             /\ Keeps(c) /\ Moves(c, {"leaving"}, {"gone"})
    <3>1. \A d \in Conns : d # c => conn'[d] = conn[d]
      BY <2>5 DEF Moves
    <3>2. conn[c].stage = "leaving" /\ conn'[c].stage = "gone"
      BY <2>5 DEF Moves
    <3>3. \A d \in Conns : conn'[d].stage \in Early => ~conn'[d].tracked
      BY <3>1, <3>2 DEF LinksCounted, Early
    <3>4. CASE conn[c].tracked
      <4>1. Tracked' = Tracked \ {c} /\ c \in Tracked
        BY <3>1, <3>2, <3>4 DEF Tracked
      <4>2. IsFiniteSet(Tracked') /\ Cardinality(Tracked') = Cardinality(Tracked) - 1
        BY <4>1, FS_RemoveElement DEF LinksCounted
      <4> QED BY <2>5, <3>3, <3>4, <4>2 DEF LinksCounted
    <3>5. CASE ~conn[c].tracked
      <4>1. Tracked' = Tracked
        BY <2>5, <3>1, <3>2, <3>5 DEF Tracked, Keeps
      <4> QED BY <2>5, <3>3, <3>5, <4>1 DEF LinksCounted
    <3> QED BY <3>4, <3>5
  <2> QED BY <1>2, <2>1, <2>2, <2>3, <2>4, <2>5 DEF CountedStep
<1>3. CASE UpdateLimits \/ UNCHANGED vars
  BY <1>1, <1>3 DEF UpdateLimits, vars
<1> QED BY <1>2, <1>3, CountedSteps DEF Next, Step

\* connCount is the number of tracked links that are not wholly released,
\* however closes, interrupts and changes of the limit interleave.
THEOREM LinksAreCounted == Spec => []ConnCountExact
<1>1. Init => LinksCounted
  <2> SUFFICES ASSUME Init PROVE LinksCounted
    OBVIOUS
  <2>1. \A c \in Conns : ~conn[c].tracked
    BY DEF Init
  <2>2. Tracked = {}
    BY <2>1 DEF Tracked
  <2>3. connCount = 0
    BY DEF Init
  <2> QED BY <2>1, <2>2, <2>3, FS_EmptySet DEF LinksCounted
<1>2. TypeOK /\ LinksCounted /\ [Next]_vars => LinksCounted'
  BY StepLinks
<1>3. LinksCounted => ConnCountExact
  BY DEF LinksCounted, ConnCountExact
<1> QED BY <1>1, <1>2, <1>3, TypeCorrect, PTL DEF Spec

-----------------------------------------------------------------------------
(* The table *)

\* Before the lock-free counters have been used, nobody holds one of them and
\* the table has exactly the connections that are counted.
TableExact ==
    /\ \A c \in Conns : conn[c].stage \in {"release", "drop"} => conn[c].tcp
    /\ ~shared =>
          /\ \A c \in Conns : conn[c].stage \notin {"grabbed", "decrement", "delete"}
          /\ \A ip \in IPs : IsFiniteSet(Counted(ip)) /\ refs[ip] = Cardinality(Counted(ip))

Outside == {"idle", "fast", "peek", "bump", "insert", "over", "leaving", "gone"}

Inside == {"admitted", "open", "release", "drop"}

\* What a step means to the table.
OverStep(c) ==
    UNCHANGED shared /\ UNCHANGED refs /\ (UNCHANGED conn \/ Moves(c, Outside, Outside))

UDPStep(c) ==
    UNCHANGED shared /\ UNCHANGED refs /\ ~conn[c].tcp /\ Moves(c, Stages, {"admitted", "open", "leaving"})

HeldStep(c) ==
    UNCHANGED shared /\ UNCHANGED refs /\ conn[c].tcp /\ Moves(c, Inside, Inside)

SharedStep(c) == shared' /\ Moves(c, Stages, Stages \ {"release", "drop"})

TableStep(c) ==
    \/ OverStep(c) \/ UDPStep(c) \/ HeldStep(c) \/ SharedStep(c)
    \/ conn[c].tcp /\ UNCHANGED shared /\ Entered(c)
    \/ UNCHANGED shared /\ Drop(c)

LEMMA TableSteps == ASSUME TypeOK, TableExact, NEW c \in Conns, Step(c) PROVE TableStep(c)
<1>a. Outside \subseteq Stages /\ Inside \subseteq Stages
  BY DEF Outside, Inside, Stages
<1>1. CASE Arrive(c) \/ Left(c)
  <2>1. UNCHANGED shared /\ UNCHANGED refs
    BY <1>1 DEF Arrive, Left, lvars, uvars
  <2>2. Moves(c, {"idle"}, {"fast", "peek"}) \/ Moves(c, {"leaving"}, {"gone"})
    BY <1>1, Arrived, HasLeft
  <2>3. Moves(c, Outside, Outside)
    BY <2>2, Widened DEF Outside
  <2> QED BY <2>1, <2>3 DEF TableStep, OverStep
<1>2. CASE Grab(c)
  <2>1. UNCHANGED refs
    BY <1>2 DEF Grab, lvars
  <2>2. CASE shared' /\ Moves(c, {"fast"}, {"grabbed"})
    <3>1. Moves(c, Stages, Stages \ {"release", "drop"})
      BY <2>2, Widened DEF Stages
    <3> QED BY <2>2, <3>1 DEF TableStep, SharedStep
  <2>3. CASE ~conn[c].tcp /\ UNCHANGED shared /\ Moves(c, {"fast"}, {"admitted"})
    <3>1. Moves(c, Stages, {"admitted", "open", "leaving"})
      BY <2>3, Widened DEF Stages
    <3> QED BY <2>1, <2>3, <3>1 DEF TableStep, UDPStep
  <2> QED BY <1>2, <2>2, <2>3, Grabbed
<1>3. CASE Increment(c) \/ Decrement(c) \/ Delete(c)
  <2>1. conn[c].stage \in {"grabbed", "decrement", "delete"} /\ UNCHANGED shared
    BY <1>3 DEF Increment, Decrement, Delete, At
  <2>2. shared'
    BY <2>1 DEF TableExact
  <2>3. \/ Moves(c, {"grabbed"}, {"admitted"}) \/ Moves(c, {"decrement"}, {"delete", "leaving"})
        \/ Moves(c, {"delete"}, {"leaving"})
    BY <1>3, Incremented, Decremented, Deleted
  <2>4. Moves(c, Stages, Stages \ {"release", "drop"})
    BY <2>3, Widened DEF Stages
  <2> QED BY <2>2, <2>4 DEF TableStep, SharedStep
<1>4. CASE Peek(c)
  <2>1. UNCHANGED shared /\ UNCHANGED refs
    BY <1>4 DEF Peek, lvars, uvars
  <2>2. CASE Moves(c, {"peek"}, {"over", "bump", "insert"})
    <3>1. Moves(c, Outside, Outside)
      BY <2>2, Widened DEF Outside
    <3> QED BY <2>1, <3>1 DEF TableStep, OverStep
  <2>3. CASE ~conn[c].tcp /\ Moves(c, {"peek"}, {"admitted"})
    <3>1. Moves(c, Stages, {"admitted", "open", "leaving"})
      BY <2>3, Widened DEF Stages
    <3> QED BY <2>1, <2>3, <3>1 DEF TableStep, UDPStep
  <2> QED BY <1>4, <2>2, <2>3, Peeked
<1>5. CASE Bump(c) \/ Insert(c) \/ Over(c)
  <2>1. UNCHANGED shared
    BY <1>5, Admissions DEF uvars
  <2>2. CASE UNCHANGED <<lvars, conn, listed>>
    BY <2>1, <2>2 DEF TableStep, OverStep, lvars
  <2>3. CASE Entered(c) /\ conn[c].tcp
    BY <2>1, <2>3 DEF TableStep
  <2>4. CASE Entered(c) /\ ~conn[c].tcp
    <3>1. Moves(c, Stages, {"admitted", "open", "leaving"})
      BY <2>4, Widened DEF Entered, Stages
    <3> QED BY <2>1, <2>4, <3>1 DEF TableStep, UDPStep, Entered
  <2>5. CASE Moves(c, {"over"}, {"gone"}) /\ UNCHANGED <<refs, listed>>
    <3>1. Moves(c, Outside, Outside)
      BY <2>5, Widened DEF Outside
    <3> QED BY <2>1, <2>5, <3>1 DEF TableStep, OverStep
  <2> QED BY <1>5, <2>2, <2>3, <2>4, <2>5, Admissions
<1>6. CASE DispatchFails(c) \/ CloseLink(c) \/ TrackLink(c)
  <2>1. UNCHANGED shared /\ UNCHANGED refs
    BY <1>6 DEF DispatchFails, CloseLink, TrackLink, lvars, uvars
  <2>2. conn[c].stage \in {"admitted", "open"}
    BY <1>6 DEF DispatchFails, CloseLink, TrackLink, At
  <2>3. \/ conn[c].tcp /\ Moves(c, {conn[c].stage}, {"release"})
        \/ ~conn[c].tcp /\ Moves(c, {conn[c].stage}, {"leaving"})
        \/ Moves(c, {"admitted"}, {"open"})
    BY <1>6, Leaves, TrackedLink DEF DispatchFails, CloseLink
  <2>4. CASE conn[c].tcp
    <3>1. Moves(c, Inside, Inside)
      BY <2>2, <2>3, <2>4, Widened DEF Inside
    <3> QED BY <2>1, <2>4, <3>1 DEF TableStep, HeldStep
  <2>5. CASE ~conn[c].tcp
    <3>1. Moves(c, Stages, {"admitted", "open", "leaving"})
      BY <2>2, <2>3, <2>5, Widened DEF Stages
    <3> QED BY <2>1, <2>5, <3>1 DEF TableStep, UDPStep
  <2> QED BY <2>4, <2>5
<1>7. CASE Release(c)
  <2>1. UNCHANGED shared /\ UNCHANGED refs /\ conn[c].stage = "release"
    BY <1>7 DEF Release, lvars, uvars, At
  <2>2. CASE ~shared /\ Moves(c, {"release"}, {"drop"})
    <3>1. Moves(c, Inside, Inside) /\ conn[c].tcp
      BY <2>1, <2>2, Widened DEF Inside, TableExact
    <3> QED BY <2>1, <3>1 DEF TableStep, HeldStep
  <2>3. CASE shared /\ Moves(c, {"release"}, {"leaving", "decrement"})
    <3>1. Moves(c, Stages, Stages \ {"release", "drop"})
      BY <2>3, Widened DEF Stages
    <3> QED BY <2>1, <2>3, <3>1 DEF TableStep, SharedStep
  <2> QED BY <1>7, <2>2, <2>3, Released
<1>8. CASE Drop(c)
  BY <1>8 DEF Drop, TableStep, uvars
<1> QED BY <1>1, <1>2, <1>3, <1>4, <1>5, <1>6, <1>7, <1>8 DEF Step

\* A step that neither counts nor releases.
LEMMA SameCounted ==
    ASSUME NEW c \in Conns, OverStep(c) \/ UDPStep(c) \/ HeldStep(c), NEW ip
    PROVE  Counted(ip)' = Counted(ip)
<1>1. CASE UNCHANGED conn
  BY <1>1 DEF Counted
<1>2. CASE ~UNCHANGED conn
  <2>1. /\ \A d \in Conns : d # c => conn'[d] = conn[d]
        /\ conn'[c].ip = conn[c].ip /\ conn'[c].tcp = conn[c].tcp
    BY <1>2 DEF OverStep, UDPStep, HeldStep, Moves
  <2>2. c \in Counted(ip) <=> c \in Counted(ip)'
    BY <1>2, <2>1 DEF OverStep, UDPStep, HeldStep, Moves, Outside, Inside, Counted
  <2> QED BY <2>1, <2>2 DEF Counted
<1> QED BY <1>1, <1>2

LEMMA StepTable == TypeOK /\ TableExact /\ [Next]_vars => TableExact'
<1> SUFFICES ASSUME TypeOK, TableExact, [Next]_vars PROVE TableExact'
  OBVIOUS
<1>1. CASE UNCHANGED <<conn, refs, shared>>
  BY <1>1 DEF TableExact, Counted
<1>2. ASSUME NEW c \in Conns, TableStep(c) PROVE TableExact'
  <2>1. CASE OverStep(c) \/ UDPStep(c) \/ HeldStep(c)
    <3>1. UNCHANGED shared /\ UNCHANGED refs
      BY <2>1 DEF OverStep, UDPStep, HeldStep
    <3>2. CASE UNCHANGED conn
      BY <1>1, <3>1, <3>2
    <3>3. CASE ~UNCHANGED conn
      <4>1. /\ \A d \in Conns : d # c => conn'[d] = conn[d]
            /\ conn'[c].tcp = conn[c].tcp
        BY <2>1, <3>3 DEF OverStep, UDPStep, HeldStep, Moves
      <4>2. /\ conn'[c].stage \notin {"grabbed", "decrement", "delete"}
            /\ conn'[c].stage \in {"release", "drop"} => conn[c].tcp
        BY <2>1, <3>3 DEF OverStep, UDPStep, HeldStep, Moves, Outside, Inside
      <4>3. \A ip \in IPs : Counted(ip)' = Counted(ip)
        BY <2>1, SameCounted
      <4> QED BY <3>1, <4>1, <4>2, <4>3 DEF TableExact
    <3> QED BY <3>2, <3>3
  <2>2. CASE SharedStep(c)
    <3>1. \A d \in Conns : d # c => conn'[d] = conn[d]
      BY <2>2 DEF SharedStep, Moves
    <3>2. conn'[c].stage \notin {"release", "drop"}
      BY <2>2 DEF SharedStep, Moves
    <3> QED BY <2>2, <3>1, <3>2 DEF TableExact, SharedStep
  <2>3. CASE conn[c].tcp /\ UNCHANGED shared /\ Entered(c)
    <3>1. /\ \A d \in Conns : d # c => conn'[d] = conn[d]
          /\ conn'[c].ip = conn[c].ip /\ conn'[c].tcp = conn[c].tcp
          /\ conn[c].stage \in {"bump", "insert", "over"} /\ conn'[c].stage = "admitted"
      BY <2>3 DEF Entered, Moves
    <3>2. refs' = [refs EXCEPT ![conn[c].ip] = @ + 1] /\ refs \in [IPs -> Nat]
      BY <2>3, Typed DEF Entered
    <3>3. ASSUME NEW ip \in IPs, ~shared
          PROVE  IsFiniteSet(Counted(ip)') /\ refs'[ip] = Cardinality(Counted(ip)')
      <4>1. IsFiniteSet(Counted(ip)) /\ refs[ip] = Cardinality(Counted(ip))
        BY <3>3 DEF TableExact
      <4>2. CASE ip = conn[c].ip
        <5>1. Counted(ip)' = Counted(ip) \cup {c} /\ c \notin Counted(ip)
          BY <2>3, <3>1, <4>2 DEF Counted
        <5>2. refs'[ip] = refs[ip] + 1
          BY <3>2, <4>2
        <5> QED BY <4>1, <5>1, <5>2, FS_AddElement
      <4>3. CASE ip # conn[c].ip
        <5>1. Counted(ip)' = Counted(ip)
          BY <3>1, <4>3 DEF Counted
        <5>2. refs'[ip] = refs[ip]
          BY <3>2, <4>3
        <5> QED BY <4>1, <5>1, <5>2
      <4> QED BY <4>2, <4>3
    <3> QED BY <2>3, <3>1, <3>3 DEF TableExact
  <2>4. CASE UNCHANGED shared /\ Drop(c)
    <3>1. /\ \A d \in Conns : d # c => conn'[d] = conn[d]
          /\ conn'[c].ip = conn[c].ip /\ conn'[c].tcp = conn[c].tcp
          /\ conn[c].stage = "drop" /\ conn'[c].stage = "leaving"
      BY <2>4, Dropped DEF Moves
    <3>2. refs \in [IPs -> Nat] /\ conn[c].ip \in IPs
      BY Typed, RecordOf
    <3>3. refs' = [refs EXCEPT ![conn[c].ip] = IF refs[conn[c].ip] > 0
                                               THEN refs[conn[c].ip] - 1 ELSE 0]
      BY <2>4 DEF Drop
    <3>4. conn[c].tcp
      BY <3>1 DEF TableExact
    <3>5. ASSUME NEW ip \in IPs, ~shared
          PROVE  IsFiniteSet(Counted(ip)') /\ refs'[ip] = Cardinality(Counted(ip)')
      <4>1. IsFiniteSet(Counted(ip)) /\ refs[ip] = Cardinality(Counted(ip))
        BY <3>5 DEF TableExact
      <4>2. CASE ip = conn[c].ip
        <5>1. Counted(ip)' = Counted(ip) \ {c} /\ c \in Counted(ip)
          BY <3>1, <3>4, <4>2 DEF Counted
        <5>2. Cardinality(Counted(ip)) # 0
          BY <4>1, <5>1, FS_EmptySet
        <5>3. refs[ip] > 0
          BY <3>2, <4>1, <5>2
        <5>4. refs'[ip] = refs[ip] - 1
          BY <3>2, <3>3, <4>2, <5>3
        <5> QED BY <4>1, <5>1, <5>4, FS_RemoveElement
      <4>3. CASE ip # conn[c].ip
        <5>1. Counted(ip)' = Counted(ip)
          BY <3>1, <4>3 DEF Counted
        <5>2. refs'[ip] = refs[ip]
          BY <3>2, <3>3, <4>3
        <5> QED BY <4>1, <5>1, <5>2
      <4> QED BY <4>2, <4>3
    <3> QED BY <2>4, <3>1, <3>5 DEF TableExact
  <2> QED BY <1>2, <2>1, <2>2, <2>3, <2>4 DEF TableStep
<1>3. CASE UpdateLimits \/ UNCHANGED vars
  BY <1>1, <1>3 DEF UpdateLimits, vars, lvars, uvars
<1> QED BY <1>2, <1>3, TableSteps DEF Next, Step

LEMMA InitTable == Init => TableExact
<1> SUFFICES ASSUME Init PROVE TableExact
  OBVIOUS
<1>1. \A c \in Conns : conn[c].stage = "idle"
  BY DEF Init
<1>2. \A ip \in IPs : Counted(ip) = {} /\ refs[ip] = 0
  BY <1>1 DEF Init, Counted
<1> QED BY <1>1, <1>2, FS_EmptySet DEF TableExact

\* As long as every connection was counted under a limit, the table holds
\* exactly the connections there are of each device.
THEOREM TableIsExact == Spec => []RefsExact
<1>1. TypeOK /\ TableExact /\ [Next]_vars => TableExact'
  BY StepTable
<1>2. TableExact => RefsExact
  BY DEF TableExact, RefsExact
<1> QED BY <1>1, <1>2, InitTable, TypeCorrect, PTL DEF Spec

\* While the table is exact, a connected device is never refused.
THEOREM ConnectedAreAdmitted == Spec => ConnectedDeviceAdmitted
<1>1. TypeOK /\ TableExact /\ [Next]_vars =>
          [\A c \in Conns :
              conn[c].stage = "over" /\ conn'[c].stage = "gone" /\ ~shared =>
                  \A d \in Conns : conn[d].stage = "open" /\ conn[d].tcp
                                       => conn[d].ip # conn[c].ip]_vars
  <2> SUFFICES ASSUME TypeOK, TableExact, Next, NEW c \in Conns,
                      conn[c].stage = "over", conn'[c].stage = "gone", ~shared,
                      NEW d \in Conns, conn[d].stage = "open", conn[d].tcp,
                      conn[d].ip = conn[c].ip
               PROVE  FALSE
    OBVIOUS
  <2>1. PICK e \in Conns : Step(e)
    <3>1. ~UpdateLimits
      BY DEF UpdateLimits
    <3> QED BY <3>1 DEF Next, Step
  <2>2. e = c
    <3>1. CASE UNCHANGED conn
      BY <3>1
    <3>2. CASE conn' # conn
      <4>1. \A f \in Conns : f # e => conn'[f] = conn[f]
        BY <2>1, <3>2, CountedSteps DEF CountedStep, Moves
      <4> QED BY <4>1
    <3> QED BY <3>1, <3>2
  <2>3. Over(c)
    <3>1. conn'[c].stage # conn[c].stage
      OBVIOUS
    <3> QED BY <2>1, <2>2 DEF Step, At, Arrive, Grab, Increment, Peek, Bump, Insert, DispatchFails,
               TrackLink, CloseLink, Release, Decrement, Delete, Drop, Left
  <2>4. conn[c].ip \notin Devices
    <3>1. conn[c].ip \in Devices => Enter(c)
      BY <2>3 DEF Over
    <3>2. Enter(c) => conn'[c].stage = "admitted"
      BY Enters DEF Entered, Moves
    <3> QED BY <3>1, <3>2
  <2>5. conn[c].ip \in IPs /\ refs \in [IPs -> Nat]
    BY Typed, RecordOf
  <2>6. refs[conn[c].ip] = 0
    BY <2>4, <2>5 DEF Devices
  <2>7. IsFiniteSet(Counted(conn[c].ip)) /\ Cardinality(Counted(conn[c].ip)) = 0
    BY <2>5, <2>6 DEF TableExact
  <2>8. Counted(conn[c].ip) = {}
    BY <2>7, FS_EmptySet
  <2>9. d \in Counted(conn[c].ip)
    BY DEF Counted
  <2> QED BY <2>8, <2>9
<1>2. TypeOK /\ TableExact /\ [Next]_vars => TableExact'
  BY StepTable
<1> QED BY <1>1, <1>2, InitTable, TypeCorrect, PTL DEF Spec, ConnectedDeviceAdmitted

-----------------------------------------------------------------------------
(* The counters *)

\* TCP connections of a device whose counter they have incremented or would,
\* and which have not been taken off it.
Held(ip) ==
    {c \in Conns :
        /\ conn[c].tcp /\ conn[c].ip = ip
        /\ \/ conn[c].stage \in {"admitted", "open", "release"}
           \/ conn[c].stage = "decrement" /\ conn[c].ctr = counter[ip]}

Begun == {c \in Conns : conn[c].stage # "idle"}

\* A connection holds a counter of its own device, and one that has yet to
\* look for a counter has lent its name to none.
CountersOwned ==
    /\ IsFiniteSet(Begun)
    /\ \A c \in Conns :
         /\ conn[c].stage = "release" => conn[c].tcp
         /\ conn[c].stage \in {"grabbed", "decrement"} =>
               conn[c].tcp /\ conn[c].ctr \in Conns /\ conn[conn[c].ctr].ip = conn[c].ip
         /\ conn[c].stage \in {"idle", "fast"} =>
               /\ count[c] = 0
               /\ \A ip \in IPs : counter[ip] # c
               /\ \A d \in Conns : conn[d].ctr # c
    /\ \A ip \in IPs : counter[ip] # None => conn[counter[ip]].ip = ip
    /\ ~shared => \A ip \in IPs : counter[ip] = None

\* As long as no connection has been counted in the table, it is empty and a
\* counter is at most the number of the connections there are of its device.
CountersBounded ==
    ~listed => \A ip \in IPs :
        /\ refs[ip] = 0
        /\ counter[ip] # None => count[counter[ip]] <= Cardinality(Held(ip))

KeepsCounter(c) == conn'[c].ctr = conn[c].ctr

\* Steps that have nothing to do with counters: nobody becomes or ceases to be
\* counted, unless in the table.
RestStep(c) ==
    /\ UNCHANGED <<shared, counter, count>>
    /\ \/ UNCHANGED conn
       \/ /\ KeepsCounter(c)
          /\ Moves(c, Stages \ {"grabbed", "decrement"}, Stages \ {"idle", "grabbed", "decrement"})
          /\ conn'[c].stage = "fast" => conn[c].stage = "idle"
          /\ conn'[c].stage = "release" => conn[c].tcp
          /\ \/ listed' \/ ~conn[c].tcp
             \/ conn[c].stage \in {"admitted", "open"} /\ conn'[c].stage \in {"open", "release"}
             \/ /\ conn[c].stage \notin {"admitted", "open", "release"}
                /\ conn'[c].stage \notin {"admitted", "open", "release"}

GrabStep(c) ==
    /\ UNCHANGED count /\ shared' /\ conn[c].tcp
    /\ Moves(c, {"fast"}, {"grabbed"}) /\ conn'[c].ctr = counter'[conn[c].ip]
    /\ counter' = IF counter[conn[c].ip] = None
                  THEN [counter EXCEPT ![conn[c].ip] = c] ELSE counter

IncrementStep(c) ==
    /\ UNCHANGED <<shared, counter>>
    /\ Moves(c, {"grabbed"}, {"admitted"}) /\ conn'[c].ctr = None
    /\ count' = [count EXCEPT ![conn[c].ctr] = @ + 1]

\* c finds its device's counter, or that there is none, or none of the user's.
ReleaseStep(c) ==
    /\ UNCHANGED <<shared, counter, count>>
    /\ \/ /\ Moves(c, {"release"}, {"decrement"})
          /\ conn'[c].ctr = counter[conn[c].ip] /\ counter[conn[c].ip] # None
       \/ /\ Moves(c, {"release"}, {"leaving", "drop"}) /\ conn'[c].ctr = None
          /\ shared => counter[conn[c].ip] = None

DecrementStep(c) ==
    /\ UNCHANGED <<shared, counter>>
    /\ Moves(c, {"decrement"}, {"delete", "leaving"}) /\ conn'[c].ctr = None
    /\ count' = [count EXCEPT ![conn[c].ctr] = @ - 1]

DeleteStep(c) ==
    /\ UNCHANGED <<shared, count>>
    /\ Moves(c, {"delete"}, {"leaving"}) /\ KeepsCounter(c)
    /\ counter' = [counter EXCEPT ![conn[c].ip] = None]

CounterStep(c) ==
    \/ RestStep(c) \/ GrabStep(c) \/ IncrementStep(c) \/ ReleaseStep(c)
    \/ DecrementStep(c) \/ DeleteStep(c)

LEMMA GoneKeeping ==
    ASSUME NEW c \in Conns, conn \in Conn, NEW s, Goto(c, s)
    PROVE  KeepsCounter(c)
  BY DEF Goto, KeepsCounter, Conn, ConnRecords

LEMMA GrabStepOf ==
    ASSUME TypeOK, NEW c \in Conns, Grab(c)
    PROVE  GrabStep(c) \/ RestStep(c)
<1>1. conn \in Conn /\ UNCHANGED count
  BY Typed DEF Grab
<1>2. CASE conn[c].tcp
  <2>1. shared' /\ Moves(c, {"fast"}, {"grabbed"})
    BY <1>2, Grabbed
  <2>2. conn'[c].ctr = counter'[conn[c].ip]
    BY <1>1, <1>2 DEF Grab, Conn, ConnRecords
  <2>3. counter' = IF counter[conn[c].ip] = None
                   THEN [counter EXCEPT ![conn[c].ip] = c] ELSE counter
    BY <1>2 DEF Grab
  <2> QED BY <1>1, <1>2, <2>1, <2>2, <2>3 DEF GrabStep
<1>3. CASE ~conn[c].tcp
  <2>1. UNCHANGED <<shared, counter>> /\ Moves(c, {"fast"}, {"admitted"})
    BY <1>3, Grabbed
  <2>2. KeepsCounter(c)
    BY <1>1, <1>3, GoneKeeping DEF Grab
  <2>3. Moves(c, Stages \ {"grabbed", "decrement"}, Stages \ {"idle", "grabbed", "decrement"})
    BY <2>1, Widened DEF Stages
  <2>4. conn'[c].stage = "admitted"
    BY <2>1 DEF Moves
  <2> QED BY <1>1, <1>3, <2>1, <2>2, <2>3, <2>4 DEF RestStep
<1> QED BY <1>2, <1>3

LEMMA ReleaseStepOf == ASSUME TypeOK, NEW c \in Conns, Release(c) PROVE ReleaseStep(c)
<1> DEFINE k == counter[conn[c].ip]
<1>1. conn \in Conn /\ UNCHANGED <<shared, counter, count>> /\ conn[c].stage = "release"
  BY Typed DEF Release, At, uvars
<1>2. k \in Conns \cup {None}
  BY <1>1, Typed, RecordOf
<1>3. CASE ~shared
  <2>1. conn' = [conn EXCEPT ![c].stage = "drop", ![c].ctr = None]
    BY <1>3 DEF Release
  <2>2. Moves(c, {"release"}, {"drop"}) /\ conn'[c].ctr = None
    BY <1>1, <2>1, GoneWith DEF Stages
  <2>3. Moves(c, {"release"}, {"leaving", "drop"})
    BY <2>2, Widened
  <2> QED BY <1>1, <1>3, <2>2, <2>3 DEF ReleaseStep
<1>4. CASE shared /\ k = None
  <2>1. conn' = [conn EXCEPT ![c].stage = "leaving", ![c].ctr = None]
    BY <1>4 DEF Release
  <2>2. Moves(c, {"release"}, {"leaving"}) /\ conn'[c].ctr = None
    BY <1>1, <2>1, GoneWith DEF Stages
  <2>3. Moves(c, {"release"}, {"leaving", "drop"})
    BY <2>2, Widened
  <2> QED BY <1>1, <1>4, <2>2, <2>3 DEF ReleaseStep
<1>5. CASE shared /\ k # None
  <2>1. conn' = [conn EXCEPT ![c].stage = "decrement", ![c].ctr = k]
    BY <1>5 DEF Release
  <2>2. Moves(c, {"release"}, {"decrement"}) /\ conn'[c].ctr = k
    <3> "decrement" \in Stages
      BY DEF Stages
    <3> HIDE DEF k
    <3> QED BY <1>1, <1>2, <2>1, GoneWith
  <2> QED BY <1>1, <1>5, <2>2 DEF ReleaseStep
<1> QED BY <1>3, <1>4, <1>5

LEMMA CountSteps ==
    ASSUME TypeOK, NEW c \in Conns, Increment(c) \/ Decrement(c) \/ Delete(c)
    PROVE  IncrementStep(c) \/ DecrementStep(c) \/ DeleteStep(c)
<1>1. conn \in Conn
  BY Typed
<1>2. CASE Increment(c)
  <2>1. conn'[c].ctr = None
    BY <1>1, <1>2 DEF Increment, Conn, ConnRecords
  <2> QED BY <1>2, <2>1, Incremented DEF Increment, IncrementStep
<1>3. CASE Decrement(c)
  <2>1. conn'[c].ctr = None
    BY <1>1, <1>3 DEF Decrement, Conn, ConnRecords
  <2> QED BY <1>3, <2>1, Decremented DEF Decrement, DecrementStep
<1>4. CASE Delete(c)
  BY <1>1, <1>4, Deleted, GoneKeeping DEF Delete, DeleteStep
<1> QED BY <1>2, <1>3, <1>4

LEMMA RestSteps ==
    ASSUME TypeOK, NEW c \in Conns,
           \/ Arrive(c) \/ Peek(c) \/ DispatchFails(c) \/ TrackLink(c) \/ CloseLink(c)
           \/ Drop(c) \/ Left(c)
    PROVE  RestStep(c)
<1>1. conn \in Conn
  BY Typed
<1>2. UNCHANGED <<shared, counter, count>>
  BY DEF Arrive, Peek, DispatchFails, TrackLink, CloseLink, Drop, Left, uvars
<1>3. KeepsCounter(c)
  <2>1. CASE Arrive(c) \/ TrackLink(c)
    BY <1>1, <2>1 DEF Arrive, TrackLink, KeepsCounter, Conn, ConnRecords
  <2>2. CASE Peek(c) \/ DispatchFails(c) \/ CloseLink(c) \/ Drop(c) \/ Left(c)
    <3>1. \E s : Goto(c, s)
      BY <2>2 DEF Peek, DispatchFails, CloseLink, Drop, Left, Leave
    <3> QED BY <1>1, <3>1, GoneKeeping
  <2> QED BY <2>1, <2>2
<1>4. \/ Moves(c, {"idle"}, {"fast", "peek"})
      \/ Moves(c, {"peek"}, {"over", "bump", "insert"})
      \/ ~conn[c].tcp /\ Moves(c, {"peek"}, {"admitted"})
      \/ conn[c].tcp /\ Moves(c, {"admitted", "open"}, {"release"})
      \/ ~conn[c].tcp /\ Moves(c, {"admitted", "open"}, {"leaving"})
      \/ Moves(c, {"admitted"}, {"open"})
      \/ Moves(c, {"drop"}, {"leaving"})
      \/ Moves(c, {"leaving"}, {"gone"})
  <2>1. CASE DispatchFails(c) \/ CloseLink(c)
    <3>1. conn[c].stage \in {"admitted", "open"} /\ Leave(c)
      BY <2>1 DEF DispatchFails, CloseLink, At
    <3>2. \/ conn[c].tcp /\ Moves(c, {conn[c].stage}, {"release"})
          \/ ~conn[c].tcp /\ Moves(c, {conn[c].stage}, {"leaving"})
      BY <3>1, Leaves
    <3> QED BY <3>1, <3>2, Widened
  <2> QED BY <2>1, Arrived, Peeked, TrackedLink, Dropped, HasLeft
<1>5. Moves(c, Stages \ {"grabbed", "decrement"}, Stages \ {"idle", "grabbed", "decrement"})
  BY <1>4, Widened DEF Stages
<1>6. /\ conn'[c].stage = "fast" => conn[c].stage = "idle"
      /\ conn'[c].stage = "release" => conn[c].tcp
      /\ \/ ~conn[c].tcp
         \/ conn[c].stage \in {"admitted", "open"} /\ conn'[c].stage \in {"open", "release"}
         \/ /\ conn[c].stage \notin {"admitted", "open", "release"}
            /\ conn'[c].stage \notin {"admitted", "open", "release"}
  BY <1>4 DEF Moves
<1> QED BY <1>2, <1>3, <1>5, <1>6 DEF RestStep

\* A connection that enters the table ends the state this is about.
LEMMA TableEntries ==
    ASSUME TypeOK, NEW c \in Conns, Bump(c) \/ Insert(c) \/ Over(c)
    PROVE  RestStep(c)
<1>1. conn \in Conn
  BY Typed
<1>2. UNCHANGED <<shared, counter, count>>
  BY DEF Bump, Insert, Over, uvars
<1>3. CASE UNCHANGED conn
  BY <1>2, <1>3 DEF RestStep
<1>4. CASE Enter(c)
  <2>1. conn[c].stage \in {"bump", "insert", "over"}
    BY DEF Bump, Insert, Over, At
  <2>2. Moves(c, {"bump", "insert", "over"}, {"admitted"})
    BY <1>4, <2>1, Enters DEF Entered
  <2>3. KeepsCounter(c) /\ (listed' \/ ~conn[c].tcp)
    BY <1>1, <1>4, GoneKeeping DEF Enter
  <2>4. Moves(c, Stages \ {"grabbed", "decrement"}, Stages \ {"idle", "grabbed", "decrement"})
    BY <2>2, Widened DEF Stages
  <2>5. conn'[c].stage = "admitted"
    BY <2>2 DEF Moves
  <2> QED BY <1>2, <2>3, <2>4, <2>5 DEF RestStep
<1>5. CASE Over(c) /\ Refuse(c)
  <2>1. conn[c].stage = "over"
    BY <1>5 DEF Over, At
  <2>2. Moves(c, {"over"}, {"gone"})
    BY <1>5, <2>1, Refused
  <2>3. KeepsCounter(c)
    BY <1>1, <1>5, GoneKeeping DEF Refuse
  <2>4. Moves(c, Stages \ {"grabbed", "decrement"}, Stages \ {"idle", "grabbed", "decrement"})
    BY <2>2, Widened DEF Stages
  <2>5. conn'[c].stage = "gone"
    BY <2>2 DEF Moves
  <2> QED BY <1>2, <2>1, <2>3, <2>4, <2>5 DEF RestStep
<1> QED BY <1>3, <1>4, <1>5 DEF Bump, Insert, Over

LEMMA CounterSteps == ASSUME TypeOK, NEW c \in Conns, Step(c) PROVE CounterStep(c)
  BY GrabStepOf, ReleaseStepOf, CountSteps, RestSteps, TableEntries DEF Step, CounterStep

\* Every step is one connection's, and does not take it back to its beginning.
LEMMA OneMoves ==
    ASSUME TypeOK, NEW c \in Conns, CounterStep(c)
    PROVE  /\ \A d \in Conns : d # c => conn'[d] = conn[d]
           /\ conn'[c].ip = conn[c].ip /\ conn'[c].tcp = conn[c].tcp
           /\ UNCHANGED conn \/ conn'[c].stage # "idle"
  BY DEF CounterStep, RestStep, GrabStep, IncrementStep, ReleaseStep, DecrementStep, DeleteStep, Moves

LEMMA StepBegun ==
    ASSUME TypeOK, IsFiniteSet(Begun), NEW c \in Conns, CounterStep(c)
    PROVE  IsFiniteSet(Begun')
<1>1. Begun' \subseteq Begun \cup {c}
  BY OneMoves DEF Begun
<1>2. IsFiniteSet(Begun \cup {c})
  BY FS_AddElement
<1> QED BY <1>1, <1>2, FS_Subset

LEMMA StepOwned ==
    ASSUME TypeOK, CountersOwned, NEW c \in Conns, CounterStep(c)
    PROVE  CountersOwned'
<1>1. IsFiniteSet(Begun')
  BY StepBegun DEF CountersOwned
<1>2. /\ conn \in Conn /\ counter \in [IPs -> Conns \cup {None}] /\ count \in [Conns -> Int]
      /\ conn[c].ip \in IPs /\ conn[c].ctr \in Conns \cup {None}
  BY Typed, RecordOf
<1>3. /\ \A d \in Conns : d # c => conn'[d] = conn[d]
      /\ \A d \in Conns : conn'[d].ip = conn[d].ip /\ conn'[d].tcp = conn[d].tcp
  BY OneMoves
<1>4. \A ip \in IPs : counter'[ip] = counter[ip] \/ counter'[ip] = None
                      \/ (GrabStep(c) /\ ip = conn[c].ip /\ counter'[ip] = c)
  BY <1>2 DEF CounterStep, RestStep, GrabStep, IncrementStep, ReleaseStep, DecrementStep, DeleteStep
<1>5. \A ip \in IPs : counter'[ip] # None => conn'[counter'[ip]].ip = ip
  <2> SUFFICES ASSUME NEW ip \in IPs, counter'[ip] # None PROVE conn'[counter'[ip]].ip = ip
    OBVIOUS
  <2>1. CASE counter'[ip] = counter[ip]
    <3>1. counter[ip] \in Conns
      BY <1>2, <2>1
    <3> QED BY <1>3, <2>1, <3>1 DEF CountersOwned
  <2>2. CASE ip = conn[c].ip /\ counter'[ip] = c
    BY <1>3, <2>2
  <2> QED BY <1>4, <2>1, <2>2
<1>6. ~shared' => \A ip \in IPs : counter'[ip] = None
  <2>1. shared => shared'
    BY DEF CounterStep, RestStep, GrabStep, IncrementStep, ReleaseStep, DecrementStep, DeleteStep
  <2>2. GrabStep(c) => shared'
    BY DEF GrabStep
  <2> QED BY <1>4, <2>1, <2>2 DEF CountersOwned
<1>7. conn'[c].ctr = conn[c].ctr \/ conn'[c].ctr = None \/ conn'[c].ctr = counter'[conn[c].ip]
  BY DEF CounterStep, RestStep, GrabStep, IncrementStep, ReleaseStep, DecrementStep, DeleteStep,
         KeepsCounter
<1>8. ASSUME NEW d \in Conns, conn'[d].stage = "release" PROVE conn'[d].tcp
  <2>1. CASE d # c
    BY <1>3, <1>8, <2>1 DEF CountersOwned
  <2>2. CASE d = c
    BY <1>3, <1>8, <2>2 DEF CountersOwned, CounterStep, RestStep, GrabStep, IncrementStep,
                            ReleaseStep, DecrementStep, DeleteStep, Moves
  <2> QED BY <2>1, <2>2
<1>9. ASSUME NEW d \in Conns, conn'[d].stage \in {"grabbed", "decrement"}
      PROVE  conn'[d].tcp /\ conn'[d].ctr \in Conns /\ conn'[conn'[d].ctr].ip = conn'[d].ip
  <2>1. CASE conn'[d] = conn[d]
    <3>1. conn[d].tcp /\ conn[d].ctr \in Conns /\ conn[conn[d].ctr].ip = conn[d].ip
      BY <1>9, <2>1 DEF CountersOwned
    <3> QED BY <1>3, <2>1, <3>1
  <2>2. CASE conn'[d] # conn[d]
    <3>1. d = c
      BY <1>3, <2>2
    <3>2. GrabStep(c) \/ ReleaseStep(c)
      BY <1>9, <2>2, <3>1 DEF CounterStep, RestStep, IncrementStep, DecrementStep, DeleteStep, Moves
    <3>3. conn[c].tcp /\ conn'[c].ctr = counter'[conn[c].ip] /\ counter'[conn[c].ip] # None
      <4>1. CASE GrabStep(c)
        <5>1. counter'[conn[c].ip] # None
          BY <1>2, <4>1, NoneIsNoConn DEF GrabStep
        <5> QED BY <4>1, <5>1 DEF GrabStep
      <4>2. CASE ReleaseStep(c)
        BY <1>9, <3>1, <4>2 DEF ReleaseStep, Moves, CountersOwned
      <4> QED BY <3>2, <4>1, <4>2
    <3>4. conn'[c].ctr \in Conns
      BY <1>2, <1>4, <3>3
    <3> QED BY <1>2, <1>3, <1>5, <3>1, <3>3, <3>4
  <2> QED BY <2>1, <2>2
<1>10. ASSUME NEW d \in Conns, conn'[d].stage \in {"idle", "fast"}
       PROVE  /\ count'[d] = 0
              /\ \A ip \in IPs : counter'[ip] # d
              /\ \A e \in Conns : conn'[e].ctr # d
  <2>1. ~GrabStep(c) \/ d # c
    BY <1>10 DEF GrabStep, Moves
  <2>2. conn[d].stage \in {"idle", "fast"}
    <3>1. CASE d # c
      BY <1>3, <1>10, <3>1
    <3>2. CASE d = c
      BY <1>10, <3>2 DEF CounterStep, RestStep, GrabStep, IncrementStep, ReleaseStep,
                         DecrementStep, DeleteStep, Moves
    <3> QED BY <3>1, <3>2
  <2>3. /\ count[d] = 0
        /\ \A ip \in IPs : counter[ip] # d
        /\ \A e \in Conns : conn[e].ctr # d
    BY <2>2 DEF CountersOwned
  <2>4. d # None
    BY NoneIsNoConn
  <2>5. \A ip \in IPs : counter'[ip] # d
    BY <1>4, <2>1, <2>3, <2>4
  <2>6. \A e \in Conns : conn'[e].ctr # d
    BY <1>2, <1>3, <1>7, <2>3, <2>4, <2>5
  <2>7. count'[d] = count[d]
    <3>1. conn[c].ctr # d
      BY <2>3
    <3> QED BY <1>2, <3>1 DEF CounterStep, RestStep, GrabStep, IncrementStep, ReleaseStep,
                              DecrementStep, DeleteStep
  <2> QED BY <2>3, <2>5, <2>6, <2>7
<1> QED BY <1>1, <1>5, <1>6, <1>8, <1>9, <1>10 DEF CountersOwned

LEMMA HeldFinite ==
    ASSUME NEW ip
    PROVE  /\ CountersOwned => IsFiniteSet(Held(ip))
           /\ CountersOwned' => IsFiniteSet(Held(ip)')
<1>1. Held(ip) \subseteq Begun /\ Held(ip)' \subseteq Begun'
  BY DEF Held, Begun
<1> QED BY <1>1, FS_Subset DEF CountersOwned

\* The table is entered by one TCP connection at a time, and only then.
LEMMA TableUnused ==
    ASSUME TypeOK, NEW c \in Conns, Step(c), ~listed'
    PROVE  ~listed /\ ((\A ip \in IPs : refs[ip] = 0) => \A ip \in IPs : refs'[ip] = 0)
<1>1. refs \in [IPs -> Nat] /\ conn[c].ip \in IPs
  BY Typed, RecordOf
<1>2. CASE Bump(c) \/ Insert(c) \/ Over(c)
  <2>1. \/ Enter(c)
        \/ UNCHANGED <<refs, listed>>
    BY <1>2 DEF Bump, Insert, Over, Refuse, lvars
  <2>2. Enter(c) => ~listed /\ UNCHANGED refs
    BY DEF Enter
  <2> QED BY <2>1, <2>2
<1>3. CASE Drop(c)
  <2>1. UNCHANGED listed
    BY <1>3 DEF Drop
  <2>2. refs' = [refs EXCEPT ![conn[c].ip] = IF refs[conn[c].ip] > 0
                                             THEN refs[conn[c].ip] - 1 ELSE 0]
    BY <1>3 DEF Drop
  <2> QED BY <1>1, <2>1, <2>2
<1>4. CASE ~(Bump(c) \/ Insert(c) \/ Over(c) \/ Drop(c))
  <2>1. UNCHANGED <<refs, listed>>
    BY <1>4 DEF Step, Arrive, Grab, Increment, Peek, DispatchFails, TrackLink, CloseLink,
                Release, Decrement, Delete, Left, lvars
  <2> QED BY <2>1
<1> QED BY <1>2, <1>3, <1>4

\* A counter that stays is never more than its connections.
LEMMA StepCounter ==
    ASSUME TypeOK, CountersOwned, CountersOwned', NEW c \in Conns, CounterStep(c), ~listed',
           NEW ip \in IPs, counter'[ip] # None, counter'[ip] = counter[ip],
           count[counter[ip]] <= Cardinality(Held(ip))
    PROVE  count'[counter[ip]] <= Cardinality(Held(ip)')
<1> DEFINE k == counter[ip]
<1>1. /\ conn \in Conn /\ counter \in [IPs -> Conns \cup {None}] /\ count \in [Conns -> Int]
      /\ conn[c].ip \in IPs /\ conn[c].ctr \in Conns \cup {None} /\ k \in Conns
  BY Typed, RecordOf
<1>2. /\ \A d \in Conns : d # c => conn'[d] = conn[d]
      /\ conn'[c].ip = conn[c].ip /\ conn'[c].tcp = conn[c].tcp
  BY OneMoves
<1>3. IsFiniteSet(Held(ip)) /\ IsFiniteSet(Held(ip)')
  BY HeldFinite
<1>4. Cardinality(Held(ip)) \in Nat
  BY <1>3, FS_CardinalityType
<1>5. \A d \in Conns : d # c => (d \in Held(ip)' <=> d \in Held(ip))
  BY <1>2 DEF Held
<1>6. CASE RestStep(c) \/ GrabStep(c) \/ DeleteStep(c)
  <2>1. c \in Held(ip)' <=> c \in Held(ip)
    <3>1. CASE UNCHANGED conn
      BY <3>1 DEF Held
    <3>2. CASE ~UNCHANGED conn
      BY <1>2, <1>6, <3>2 DEF RestStep, GrabStep, DeleteStep, Moves, Held
    <3> QED BY <3>1, <3>2
  <2>2. Held(ip)' = Held(ip)
    BY <1>5, <2>1 DEF Held
  <2>3. UNCHANGED count
    BY <1>6 DEF RestStep, GrabStep, DeleteStep
  <2> QED BY <2>2, <2>3
<1>7. CASE ReleaseStep(c)
  <2>1. shared
    BY <1>1, NoneIsNoConn DEF CountersOwned
  <2>2. c \in Held(ip)' <=> c \in Held(ip)
    BY <1>1, <1>2, <1>7, <2>1, NoneIsNoConn DEF ReleaseStep, Moves, Held
  <2>3. Held(ip)' = Held(ip)
    BY <1>5, <2>2 DEF Held
  <2>4. UNCHANGED count
    BY <1>7 DEF ReleaseStep
  <2> QED BY <2>3, <2>4
<1>8. CASE IncrementStep(c)
  <2>1. /\ conn[c].stage = "grabbed" /\ conn'[c].stage = "admitted" /\ conn[c].tcp
        /\ conn[c].ctr \in Conns /\ conn[conn[c].ctr].ip = conn[c].ip
    BY <1>8 DEF IncrementStep, Moves, CountersOwned
  <2>2. CASE ip = conn[c].ip
    <3>1. Held(ip)' = Held(ip) \cup {c} /\ c \notin Held(ip)
      BY <1>2, <1>5, <2>1, <2>2 DEF Held
    <3>2. Cardinality(Held(ip)') = Cardinality(Held(ip)) + 1
      BY <1>3, <3>1, FS_AddElement
    <3>3. count'[k] <= count[k] + 1 /\ count[k] \in Int /\ count'[k] \in Int
      BY <1>1, <1>8, <2>1 DEF IncrementStep
    <3> QED BY <1>4, <3>2, <3>3
  <2>3. CASE ip # conn[c].ip
    <3>1. Held(ip)' = Held(ip)
      BY <1>2, <1>5, <2>1, <2>3 DEF Held
    <3>2. conn[k].ip = ip
      BY <1>1, NoneIsNoConn DEF CountersOwned
    <3>3. count'[k] = count[k]
      BY <1>1, <1>8, <2>1, <2>3, <3>2 DEF IncrementStep
    <3> QED BY <3>1, <3>3
  <2> QED BY <2>2, <2>3
<1>9. CASE DecrementStep(c)
  <2>1. /\ conn[c].stage = "decrement" /\ conn'[c].stage \in {"delete", "leaving"} /\ conn[c].tcp
        /\ conn[c].ctr \in Conns /\ conn[conn[c].ctr].ip = conn[c].ip
    BY <1>9 DEF DecrementStep, Moves, CountersOwned
  <2>2. CASE conn[c].ctr = k
    <3>1. conn[c].ip = ip
      BY <1>1, <2>1, <2>2, NoneIsNoConn DEF CountersOwned
    <3>2. Held(ip)' = Held(ip) \ {c} /\ c \in Held(ip)
      BY <1>2, <1>5, <2>1, <2>2, <3>1 DEF Held
    <3>3. Cardinality(Held(ip)') = Cardinality(Held(ip)) - 1
      BY <1>3, <3>2, FS_RemoveElement
    <3>4. count'[k] = count[k] - 1 /\ count[k] \in Int
      BY <1>1, <1>9, <2>2 DEF DecrementStep
    <3> QED BY <1>4, <3>3, <3>4
  <2>3. CASE conn[c].ctr # k
    <3>1. Held(ip)' = Held(ip)
      BY <1>2, <1>5, <2>1, <2>3 DEF Held
    <3>2. count'[k] = count[k]
      BY <1>1, <1>9, <2>1, <2>3 DEF DecrementStep
    <3> QED BY <3>1, <3>2
  <2> QED BY <2>2, <2>3
<1> QED BY <1>6, <1>7, <1>8, <1>9 DEF CounterStep

LEMMA StepBounded ==
    ASSUME TypeOK, CountersOwned, CountersBounded, NEW c \in Conns, Step(c), CountersOwned'
    PROVE  CountersBounded'
<1> SUFFICES ASSUME ~listed', NEW ip \in IPs
             PROVE  /\ refs'[ip] = 0
                    /\ counter'[ip] # None => count'[counter'[ip]] <= Cardinality(Held(ip)')
  BY DEF CountersBounded
<1>1. ~listed /\ refs'[ip] = 0
  BY TableUnused DEF CountersBounded
<1>2. CounterStep(c)
  BY CounterSteps
<1>3. CASE counter'[ip] = counter[ip] /\ counter'[ip] # None
  <2>1. count[counter[ip]] <= Cardinality(Held(ip))
    BY <1>1, <1>3 DEF CountersBounded
  <2>2. count'[counter[ip]] <= Cardinality(Held(ip)')
    BY <1>2, <1>3, <2>1, StepCounter
  <2> QED BY <1>1, <1>3, <2>2
<1>4. CASE counter'[ip] # counter[ip] /\ counter'[ip] # None
  <2>1. counter \in [IPs -> Conns \cup {None}] /\ conn[c].ip \in IPs
    BY Typed, RecordOf
  <2>2. GrabStep(c) /\ counter'[ip] = c
    BY <1>2, <1>4, <2>1 DEF CounterStep, RestStep, GrabStep, IncrementStep, ReleaseStep,
                            DecrementStep, DeleteStep
  <2>3. count'[c] = 0
    BY <2>2 DEF GrabStep, Moves, CountersOwned
  <2>4. Cardinality(Held(ip)') \in Nat
    <3>1. IsFiniteSet(Held(ip)')
      BY HeldFinite
    <3> QED BY <3>1, FS_CardinalityType
  <2> QED BY <1>1, <2>2, <2>3, <2>4
<1> QED BY <1>1, <1>3, <1>4

\* Both tables, and what relates them.
Reported == TypeOK /\ TableExact /\ CountersOwned /\ CountersBounded

LEMMA StepReported == Reported /\ [Next]_vars => Reported'
<1> SUFFICES ASSUME Reported, [Next]_vars PROVE Reported'
  OBVIOUS
<1>1. TypeOK' /\ TableExact'
  BY StepTypeOK, StepTable DEF Reported
<1>2. ASSUME NEW c \in Conns, Step(c) PROVE CountersOwned' /\ CountersBounded'
  <2>1. CountersOwned'
    BY <1>2, CounterSteps, StepOwned DEF Reported
  <2> QED BY <1>2, <2>1, StepBounded DEF Reported
<1>3. CASE UpdateLimits \/ UNCHANGED vars
  <2>1. UNCHANGED <<conn, refs, shared, counter, count, listed>>
    BY <1>3 DEF UpdateLimits, vars, lvars, uvars
  <2>2. Begun' = Begun /\ \A ip : Held(ip)' = Held(ip)
    BY <2>1 DEF Begun, Held
  <2>3. CountersOwned'
    BY <2>1, <2>2 DEF Reported, CountersOwned
  <2>4. CountersBounded'
    BY <2>1, <2>2 DEF Reported, CountersBounded
  <2> QED BY <1>1, <2>3, <2>4 DEF Reported
<1> QED BY <1>1, <1>2, <1>3 DEF Next, Step, Reported

LEMMA InitReported == Init => Reported
<1> SUFFICES ASSUME Init PROVE Reported
  OBVIOUS
<1>1. TypeOK /\ TableExact
  BY InitTypeOK, InitTable
<1>2. \A c \in Conns : conn[c].stage = "idle" /\ conn[c].ctr = None
  BY DEF Init
<1>3. /\ \A ip \in IPs : counter[ip] = None /\ refs[ip] = 0
      /\ \A c \in Conns : count[c] = 0
  BY DEF Init
<1>4. Begun = {}
  BY <1>2 DEF Begun
<1>5. CountersOwned
  BY <1>2, <1>3, <1>4, FS_EmptySet, NoneIsNoConn DEF CountersOwned
<1>6. CountersBounded
  BY <1>3 DEF CountersBounded
<1> QED BY <1>1, <1>5, <1>6 DEF Reported

\* A device is in the table or has a positive counter only while it has a
\* connection, unless connections of the user have been counted in both.
LEMMA ReportedHaveConnections == Reported => NoPhantomDevices
<1> SUFFICES ASSUME Reported, ~(listed /\ shared), NEW ip \in AliveIPs
             PROVE  \E c \in Conns :
                       conn[c].ip = ip /\ conn[c].tcp /\ conn[c].stage \notin {"idle", "gone"}
  BY DEF NoPhantomDevices
<1>1. ip \in IPs /\ refs \in [IPs -> Nat] /\ count \in [Conns -> Int]
      /\ counter \in [IPs -> Conns \cup {None}]
  BY Typed DEF Reported, AliveIPs, Devices
<1>2. CASE refs[ip] > 0
  <2>1. listed
    BY <1>1, <1>2 DEF Reported, CountersBounded
  <2>2. IsFiniteSet(Counted(ip)) /\ refs[ip] = Cardinality(Counted(ip))
    BY <1>1, <2>1 DEF Reported, TableExact
  <2>3. Counted(ip) # {}
    BY <1>2, <2>2, FS_EmptySet
  <2> QED BY <2>3 DEF Counted
<1>3. CASE counter[ip] # None /\ count[counter[ip]] > 0
  <2>1. ~listed
    BY <1>1, <1>3 DEF Reported, CountersOwned
  <2>2. count[counter[ip]] <= Cardinality(Held(ip))
    BY <1>1, <1>3, <2>1 DEF Reported, CountersBounded
  <2>3. Held(ip) # {}
    <3>1. count[counter[ip]] \in Int
      BY <1>1, <1>3
    <3> QED BY <1>3, <2>2, <3>1, FS_EmptySet
  <2> QED BY <2>3 DEF Held
<1> QED BY <1>2, <1>3 DEF AliveIPs, Devices

\* No device is reported that has no connection, as long as the user's
\* connections have all been counted in one of the two ways.
THEOREM NoneIsInvented == Spec => []NoPhantomDevices
  BY InitReported, StepReported, ReportedHaveConnections, PTL DEF Spec

(******************************* XrayNode **********************************)

Cfgs == Configs \cup {NoCfg}

Accounts == [UserIds -> Uuids \cup {Absent}]

LimitTables == [UserIds -> DeviceLimits \cup {0}]

Kernels ==
    [up : BOOLEAN, cfg : Cfgs, cert : Nat, users : SpecLists,
     hash : Cfgs \X Accounts, admits : Accounts, limits : LimitTables]

Nodes == [cfg : Cfgs, users : SpecLists, k : Kernels]

\* A kernel that is down admits nobody.
Sound(k) == k \in Kernels /\ (~k.up => k.admits = NoUsers)

\* The accounts of a running instance are those of users, but for the
\* credentials of the users in R.
InStep(k, cfg, users, R) ==
    k.up => /\ k.cfg = cfg /\ k.users = users /\ k.hash[1] = cfg
            /\ Members(k.admits) = Members(users)
            /\ \A i \in UserIds \ R : k.admits[i] = UuidsOf(users)[i]
            /\ k.limits = LimitsOf(users)

\* A user on the record who has an account is one the kernel knows.
Known(k, users) == Members(users) \cap Members(k.admits) \subseteq Members(k.users)

-----------------------------------------------------------------------------
(* Lists *)

LEMMA NoUsersTyped == NoUsers \in SpecLists /\ NoUsers \in Accounts /\ LimitsOf(NoUsers) \in LimitTables
  BY DEF NoUsers, SpecLists, Accounts, LimitsOf, LimitTables

LEMMA UuidsTyped ==
    ASSUME NEW u \in SpecLists
    PROVE  /\ UuidsOf(u) \in Accounts
           /\ Members(UuidsOf(u)) = Members(u)
           /\ LimitsOf(u) \in LimitTables
<1>1. ASSUME NEW i \in UserIds, u[i] # Absent
      PROVE  u[i][1] \in Uuids /\ u[i][2] \in DeviceLimits
  BY <1>1 DEF SpecLists, Specs
<1>2. \A i \in UserIds : UuidsOf(u)[i] = IF u[i] = Absent THEN Absent ELSE u[i][1]
  BY DEF UuidsOf
<1>3. UuidsOf(u) \in Accounts
  BY <1>1 DEF UuidsOf, Accounts
<1>4. LimitsOf(u) \in LimitTables
  BY <1>1 DEF LimitsOf, LimitTables
<1>5. Members(UuidsOf(u)) = Members(u)
  BY <1>1, <1>2, AbsentIsNoUuid DEF Members
<1> QED
  BY <1>3, <1>4, <1>5

LEMMA ListsTyped ==
    ASSUME NEW u \in SpecLists, NEW d \in SpecLists, NEW S
    PROVE  Merge(u, d) \in SpecLists /\ Subtract(u, d) \in SpecLists /\ Only(u, S) \in SpecLists
  BY DEF Merge, Subtract, Only, SpecLists

LEMMA ListMembers ==
    ASSUME NEW u \in SpecLists, NEW d \in SpecLists, NEW S
    PROVE  /\ Members(NoUsers) = {}
           /\ Members(Merge(u, d)) = Members(u) \cup Members(d)
           /\ Members(Subtract(u, d)) = Members(u) \ Members(d)
           /\ Members(Only(u, S)) = Members(u) \cap S
           /\ Members(u) \subseteq UserIds
  BY DEF Merge, Subtract, Only, Members, NoUsers

\* Members tells the empty list, and the list nothing is taken from.
LEMMA SubtractEmpty ==
    ASSUME NEW u \in SpecLists, NEW d \in SpecLists
    PROVE  /\ Subtract(u, d) = NoUsers <=> Members(u) \subseteq Members(d)
           /\ Subtract(u, d) = u <=> Members(u) \cap Members(d) = {}
           /\ u = NoUsers <=> Members(u) = {}
<1>1. u = NoUsers <=> \A i \in UserIds : u[i] = Absent
  BY DEF SpecLists, NoUsers
<1>2. Subtract(u, d) = NoUsers <=> \A i \in UserIds : Subtract(u, d)[i] = Absent
  BY DEF Subtract, NoUsers
<1>3. Subtract(u, d) = u <=> \A i \in UserIds : Subtract(u, d)[i] = u[i]
  BY DEF Subtract, SpecLists
<1>4. \A i \in UserIds : Subtract(u, d)[i] = IF d[i] # Absent THEN Absent ELSE u[i]
  BY DEF Subtract
<1> QED
  BY <1>1, <1>2, <1>3, <1>4 DEF Members

-----------------------------------------------------------------------------
(* The kernel's operations *)

Launched(k, cfg, users, c) ==
    /\ k \in Kernels
    /\ k.up /\ k.cfg = cfg /\ k.users = users /\ k.admits = UuidsOf(users)
    /\ k.limits = LimitsOf(users) /\ k.hash[1] = cfg /\ k.cert = c

LEMMA StartOutcome ==
    ASSUME NEW k, NEW cfg \in Cfgs, NEW u \in SpecLists, NEW c \in Nat,
           NEW o \in Start(k, cfg, u, c)
    PROVE  /\ o.ok \in BOOLEAN
           /\ \/ o.ok /\ Launched(o.k, cfg, u, c)
              \/ ~o.ok /\ o.k = k /\ StartFails
<1> DEFINE n == [up |-> TRUE, cfg |-> cfg, cert |-> c, users |-> u, hash |-> KernelHash(cfg, u),
                 admits |-> UuidsOf(u), limits |-> LimitsOf(u)]
<1>1. n \in Kernels
  BY UuidsTyped DEF Kernels, KernelHash
<1>2. n.hash[1] = cfg
  BY DEF KernelHash
<1>3. o = Done(n) \/ (o = Failed(k) /\ StartFails)
  BY StartFailsIsBoolean DEF Start
<1> HIDE DEF n
<1>4. n.up /\ n.cfg = cfg /\ n.users = u /\ n.admits = UuidsOf(u) /\ n.limits = LimitsOf(u)
      /\ n.cert = c
  BY DEF n
<1>5. \/ o.ok /\ Launched(o.k, cfg, u, c)
      \/ ~o.ok /\ o.k = k /\ StartFails
  BY <1>1, <1>2, <1>3, <1>4 DEF Done, Failed, Launched
<1>6. o.ok = TRUE \/ o.ok = FALSE
  BY <1>3 DEF Done, Failed
<1> QED
  BY <1>5, <1>6

LEMMA LaunchedInStep ==
    ASSUME NEW k, NEW cfg, NEW u \in SpecLists, NEW c, NEW R, Launched(k, cfg, u, c)
    PROVE  Sound(k) /\ InStep(k, cfg, u, R) /\ Members(k.admits) = Members(u)
  BY UuidsTyped DEF Launched, Sound, InStep

\* n is k after a change of the accounts in place.
Swapped(n, k, users, gone, fresh, list) ==
    /\ n \in Kernels
    /\ n.up /\ n.cfg = k.cfg /\ n.hash = k.hash /\ n.users = users /\ n.limits = LimitsOf(users)
    /\ \A i \in UserIds : n.admits[i] =
         IF i \in fresh /\ (i \in gone \/ k.admits[i] = Absent) THEN UuidsOf(list)[i]
         ELSE IF i \in gone THEN Absent ELSE k.admits[i]

LEMMA RecordedTyped ==
    ASSUME NEW k \in Kernels, NEW u \in SpecLists
    PROVE  /\ Recorded(k, u) \in Kernels
           /\ Recorded(k, u).up = k.up /\ Recorded(k, u).cfg = k.cfg /\ Recorded(k, u).hash = k.hash
           /\ Recorded(k, u).users = u /\ Recorded(k, u).limits = LimitsOf(u)
           /\ Recorded(k, u).admits = k.admits
  BY UuidsTyped DEF Recorded, Kernels

\* Only the accounts of k change, to f.
LEMMA AdmitsTyped ==
    ASSUME NEW k \in Kernels, NEW f \in Accounts
    PROVE  LET n == [k EXCEPT !.admits = f]
           IN  n \in Kernels /\ n.up = k.up /\ n.cfg = k.cfg /\ n.hash = k.hash /\ n.admits = f
               /\ n.users = k.users /\ n.cert = k.cert /\ n.limits = k.limits
  BY DEF Kernels

LEMMA AddedTyped ==
    ASSUME NEW k \in Kernels, NEW u \in SpecLists, NEW S
    PROVE  /\ Added(k, u, S) \in Kernels
           /\ Added(k, u, S).up = k.up /\ Added(k, u, S).cfg = k.cfg /\ Added(k, u, S).hash = k.hash
           /\ \A i \in UserIds : Added(k, u, S).admits[i] =
                IF i \in S /\ k.admits[i] = Absent THEN UuidsOf(u)[i] ELSE k.admits[i]
<1> DEFINE f == [i \in UserIds |-> IF i \in S /\ k.admits[i] = Absent THEN UuidsOf(u)[i]
                                   ELSE k.admits[i]]
<1>1. f \in Accounts
  BY UuidsTyped DEF Accounts, Kernels
<1>2. \A i \in UserIds : f[i] = IF i \in S /\ k.admits[i] = Absent THEN UuidsOf(u)[i]
                                ELSE k.admits[i]
  OBVIOUS
<1>3. Added(k, u, S) = [k EXCEPT !.admits = f]
  BY DEF Added
<1> HIDE DEF f
<1> QED
  BY <1>1, <1>2, <1>3, AdmitsTyped

LEMMA RemovedTyped ==
    ASSUME NEW k \in Kernels, NEW S
    PROVE  /\ Removed(k, S) \in Kernels
           /\ Removed(k, S).up = k.up /\ Removed(k, S).cfg = k.cfg /\ Removed(k, S).hash = k.hash
           /\ \A i \in UserIds : Removed(k, S).admits[i] = IF i \in S THEN Absent ELSE k.admits[i]
<1> DEFINE f == [i \in UserIds |-> IF i \in S THEN Absent ELSE k.admits[i]]
<1>1. f \in Accounts
  BY DEF Accounts, Kernels
<1>2. \A i \in UserIds : f[i] = IF i \in S THEN Absent ELSE k.admits[i]
  OBVIOUS
<1>3. Removed(k, S) = [k EXCEPT !.admits = f]
  BY DEF Removed
<1> HIDE DEF f
<1> QED
  BY <1>1, <1>2, <1>3, AdmitsTyped

LEMMA RecordedSwaps ==
    ASSUME NEW k \in Kernels, k.up, NEW u \in SpecLists, NEW list
    PROVE  Swapped(Recorded(k, u), k, u, {}, {}, list)
  BY RecordedTyped DEF Swapped

LEMMA AddedSwaps ==
    ASSUME NEW k \in Kernels, k.up, NEW u \in SpecLists, NEW list \in SpecLists, NEW S
    PROVE  Swapped(Recorded(Added(k, list, S), u), k, u, {}, S, list)
  BY RecordedTyped, AddedTyped DEF Swapped

LEMMA RemovedSwaps ==
    ASSUME NEW k \in Kernels, k.up, NEW u \in SpecLists, NEW list, NEW S
    PROVE  Swapped(Recorded(Removed(k, S), u), k, u, S, {}, list)
  BY RecordedTyped, RemovedTyped DEF Swapped

LEMMA AddedRemovedSwaps ==
    ASSUME NEW k \in Kernels, k.up, NEW u \in SpecLists, NEW list \in SpecLists, NEW S, NEW T
    PROVE  Swapped(Recorded(Added(Removed(k, S), list, T), u), k, u, S, T, list)
  BY RecordedTyped, RemovedTyped, AddedTyped DEF Swapped

LEMMA UpdateOutcome ==
    ASSUME NEW k \in Kernels, NEW u \in SpecLists, NEW o \in UpdateUsers(k, u)
    PROVE  \/ ~o.ok /\ o.k = k /\ (k.up => StartFails)
           \/ /\ o.ok /\ k.up
              /\ \/ Launched(o.k, k.cfg, u, k.cert)
                 \/ /\ Swapped(o.k, k, u, ToRemove(k.users, u), ToAdd(UuidsOf(k.users), UuidsOf(u)), u)
                    /\ k.cfg \in Managed \/ ToAdd(UuidsOf(k.users), UuidsOf(u)) = {}
<1> DEFINE toAdd == ToAdd(UuidsOf(k.users), UuidsOf(u))
           toRemove == ToRemove(k.users, u)
<1>0. k.cfg \in Cfgs /\ k.cert \in Nat
  BY DEF Kernels
<1>1. CASE ~k.up
  BY <1>1 DEF UpdateUsers, Failed
<1>2. CASE k.up /\ toAdd \cup toRemove = {}
  <2>1. o = Done(Recorded(k, u))
    BY <1>2 DEF UpdateUsers
  <2>2. Swapped(o.k, k, u, {}, {}, u)
    BY <2>1, <1>2, RecordedSwaps DEF Done
  <2>3. toAdd = {} /\ toRemove = {}
    BY <1>2
  <2> HIDE DEF toAdd, toRemove
  <2>4. Swapped(o.k, k, u, toRemove, toAdd, u)
    BY <2>2, <2>3
  <2> QED
    BY <2>1, <2>3, <2>4, <1>2 DEF Done, toAdd, toRemove
<1>3. CASE k.up /\ toAdd \cup toRemove # {} /\ HasUserManager(k)
  <2>1. o = Done(Recorded(Added(Removed(k, toRemove), u, toAdd), u))
    BY <1>3 DEF UpdateUsers
  <2> QED
    BY <2>1, <1>3, AddedRemovedSwaps DEF Done, HasUserManager
<1>4. CASE k.up /\ toAdd \cup toRemove # {} /\ ~HasUserManager(k)
  <2>1. o \in Start(k, k.cfg, u, k.cert)
    BY <1>4 DEF UpdateUsers
  <2> QED
    BY <2>1, <1>0, <1>4, StartOutcome
<1> QED
  BY <1>1, <1>2, <1>3, <1>4

LEMMA AddOutcome ==
    ASSUME NEW k \in Kernels, NEW d \in SpecLists, NEW o \in AddUsers(k, d)
    PROVE  \/ ~o.ok /\ o.k = k /\ (k.up => StartFails)
           \/ /\ o.ok /\ k.up
              /\ \/ Launched(o.k, k.cfg, Merge(k.users, d), k.cert)
                 \/ Swapped(o.k, k, Merge(k.users, d), {}, Members(d) \ Members(k.users), d)
<1> DEFINE merged == Merge(k.users, d)
           fresh == Members(d) \ Members(k.users)
<1>0. k.cfg \in Cfgs /\ k.cert \in Nat /\ merged \in SpecLists
  BY ListsTyped DEF Kernels
<1>1. CASE ~k.up
  BY <1>1 DEF AddUsers, Failed
<1>2. CASE k.up /\ fresh = {}
  <2>1. o = Done(Recorded(k, merged))
    BY <1>2 DEF AddUsers
  <2>2. Swapped(o.k, k, merged, {}, {}, d)
    BY <2>1, <1>2, <1>0, RecordedSwaps DEF Done
  <2> HIDE DEF merged, fresh
  <2>3. Swapped(o.k, k, merged, {}, fresh, d)
    BY <2>2, <1>2
  <2> QED
    BY <2>1, <2>3, <1>2 DEF Done, merged, fresh
<1>3. CASE k.up /\ fresh # {} /\ HasUserManager(k)
  <2>1. o = Done(Recorded(Added(k, d, fresh), merged))
    BY <1>3 DEF AddUsers
  <2> QED
    BY <2>1, <1>0, <1>3, AddedSwaps DEF Done
<1>4. CASE k.up /\ fresh # {} /\ ~HasUserManager(k)
  <2>1. o \in Start(k, k.cfg, merged, k.cert)
    BY <1>4 DEF AddUsers
  <2> QED
    BY <2>1, <1>0, <1>4, StartOutcome
<1> QED
  BY <1>1, <1>2, <1>3, <1>4

\* n is k stopped.
Stopped(n, k) == n \in Kernels /\ ~n.up /\ n.admits = NoUsers

LEMMA StopOutcome ==
    ASSUME NEW k \in Kernels
    PROVE  Stopped(Stop(k), k)
  BY NoUsersTyped DEF Stop, Stopped, Kernels

LEMMA RemoveOutcome ==
    ASSUME NEW k \in Kernels, NEW d \in SpecLists, NEW o \in RemoveUsers(k, d)
    PROVE  \/ ~o.ok /\ o.k = k /\ (k.up => StartFails)
           \/ /\ o.ok /\ k.up
              /\ \/ o.k = k /\ Members(k.users) \cap Members(d) = {}
                 \/ /\ Stopped(o.k, k)
                    /\ Members(k.users) \subseteq Members(d) /\ Members(k.users) # {}
                 \/ Launched(o.k, k.cfg, Subtract(k.users, d), k.cert)
                 \/ Swapped(o.k, k, Subtract(k.users, d), Members(d), {}, d)
<1> DEFINE kept == Subtract(k.users, d)
<1>0. k.cfg \in Cfgs /\ k.cert \in Nat /\ kept \in SpecLists /\ k.users \in SpecLists
  BY ListsTyped DEF Kernels
<1>1. CASE ~k.up
  BY <1>1 DEF RemoveUsers, Failed
<1>2. CASE k.up /\ kept = k.users
  BY <1>0, <1>2, SubtractEmpty DEF RemoveUsers, Done
<1>3. CASE k.up /\ kept # k.users /\ kept = NoUsers
  <2>1. o = Done(Stop(k))
    BY <1>3 DEF RemoveUsers
  <2>2. Members(k.users) \subseteq Members(d) /\ Members(k.users) # {}
    BY <1>0, <1>3, SubtractEmpty
  <2> QED
    BY <2>1, <2>2, <1>3, StopOutcome DEF Done
<1>4. CASE k.up /\ kept # k.users /\ kept # NoUsers /\ HasUserManager(k)
  <2>1. o = Done(Recorded(Removed(k, Members(d)), kept))
    BY <1>4 DEF RemoveUsers
  <2> QED
    BY <2>1, <1>0, <1>4, RemovedSwaps DEF Done
<1>5. CASE k.up /\ kept # k.users /\ kept # NoUsers /\ ~HasUserManager(k)
  <2>1. o \in Start(k, k.cfg, kept, k.cert)
    BY <1>5 DEF RemoveUsers
  <2> QED
    BY <2>1, <1>0, <1>5, StartOutcome
<1> QED
  BY <1>1, <1>2, <1>3, <1>4, <1>5

LEMMA ReloadOutcome ==
    ASSUME NEW k \in Kernels, NEW cfg \in Cfgs, NEW u \in SpecLists, NEW c \in Nat,
           NEW o \in Reload(k, cfg, u, c)
    PROVE  \/ o.ok /\ Launched(o.k, cfg, u, c)
           \/ /\ o.ok /\ k.hash[1] = cfg /\ k.cert = c
              /\ o.k \in Kernels /\ o.k.up = k.up /\ o.k.admits = k.admits /\ o.k.users = u
           \/ /\ ~o.ok /\ StartFails /\ o.k \in Kernels /\ o.k.up = k.up
              /\ o.k.admits = k.admits /\ o.k.users = k.users
<1> DEFINE limited == [k EXCEPT !.limits = LimitsOf(u)]
<1>1. limited \in Kernels /\ limited.up = k.up /\ limited.admits = k.admits /\ limited.users = k.users
  BY UuidsTyped DEF Kernels
<1>2. CASE k.hash = KernelHash(cfg, u) /\ k.cert = c
  <2>1. o = Done([limited EXCEPT !.users = u])
    BY <1>2 DEF Reload
  <2>2. k.hash[1] = cfg
    BY <1>2 DEF KernelHash
  <2> HIDE DEF limited
  <2>3. o.ok /\ o.k = [limited EXCEPT !.users = u]
    BY <2>1 DEF Done
  <2>4. o.k \in Kernels /\ o.k.up = limited.up /\ o.k.admits = limited.admits /\ o.k.users = u
    BY <2>3, <1>1 DEF Kernels
  <2> QED
    BY <1>1, <1>2, <2>2, <2>3, <2>4
<1>3. CASE ~(k.hash = KernelHash(cfg, u) /\ k.cert = c)
  <2>1. o \in Start(limited, cfg, u, c)
    BY <1>3 DEF Reload
  <2> HIDE DEF limited
  <2> QED
    BY <2>1, <1>1, StartOutcome
<1> QED
  BY <1>2, <1>3

-----------------------------------------------------------------------------
(* The parts of the handlers *)

Results == [ok : BOOLEAN, s : Nodes, failed : BOOLEAN]

\* r ends with the configuration cfg, the list u and the kernel k.
Ends(r, cfg, u, k) == r \in Results /\ r.s.cfg = cfg /\ r.s.users = u /\ r.s.k = k

LEMMA SettledTyped ==
    ASSUME NEW s \in Nodes
    PROVE  /\ Settled(s) \in Results /\ Settled(s).ok /\ Settled(s).failed = FALSE
           /\ Settled(s).s = s
  BY DEF Settled, Results

LEMMA MarkTyped ==
    ASSUME NEW r \in Results, NEW b \in BOOLEAN
    PROVE  LET m == [r EXCEPT !.failed = @ \/ b]
           IN  m \in Results /\ m.s = r.s /\ m.ok = r.ok /\ m.failed = (r.failed \/ b)
  BY DEF Results

LEMMA StartKernelResult ==
    ASSUME NEW s \in Nodes, NEW cfg \in Cfgs, NEW u \in SpecLists, cert \in Nat,
           NEW r \in StartKernel(s, cfg, u)
    PROVE  /\ r \in Results /\ r.s.cfg = s.cfg /\ r.s.users = s.users
           /\ \/ r.ok /\ ~r.failed /\ Launched(r.s.k, cfg, u, cert)
              \/ ~r.ok /\ r.failed /\ StartFails /\ r.s.k = s.k
<1>1. PICK o \in Start(s.k, cfg, u, cert) : r = [ok |-> o.ok, s |-> [s EXCEPT !.k = o.k], failed |-> ~o.ok]
  BY DEF StartKernel
<1>2. s.k \in Kernels
  BY DEF Nodes
<1>3. \/ o.ok /\ Launched(o.k, cfg, u, cert)
      \/ ~o.ok /\ o.k = s.k /\ StartFails
  BY StartOutcome
<1>4. o.ok \in BOOLEAN
  BY <1>2, StartOutcome
<1>5. o.k \in Kernels
  BY <1>2, <1>3 DEF Launched
<1>6. r \in Results /\ r.s.cfg = s.cfg /\ r.s.users = s.users /\ r.s.k = o.k
      /\ r.ok = o.ok /\ r.failed = ~o.ok
  <2> DEFINE w == [s EXCEPT !.k = o.k]
  <2>1. w \in Nodes /\ w.cfg = s.cfg /\ w.users = s.users /\ w.k = o.k
    BY <1>5 DEF Nodes
  <2>2. r = [ok |-> o.ok, s |-> w, failed |-> ~o.ok]
    BY <1>1
  <2> HIDE DEF w
  <2> QED
    BY <2>1, <2>2, <1>4 DEF Results
<1> QED
  BY <1>3, <1>6

\* A running kernel after EnsureRunning.
LEMMA EnsureResult ==
    ASSUME NEW s \in Nodes, cert \in Nat, NEW r \in EnsureRunning(s)
    PROVE  /\ r \in Results /\ r.s.cfg = s.cfg /\ r.s.users = s.users
           /\ \/ r.ok /\ ~r.failed /\ s.k.up /\ r.s.k = s.k
              \/ r.ok /\ ~r.failed /\ ~s.k.up /\ Launched(r.s.k, s.cfg, s.users, cert)
              \/ ~r.ok /\ ~s.k.up /\ r.s.k = s.k
<1>1. CASE s.k.up
  BY <1>1, SettledTyped DEF EnsureRunning
<1>2. CASE ~s.k.up /\ s.users # NoUsers /\ s.cfg # NoCfg
  <2>1. r \in StartKernel(s, s.cfg, s.users)
    BY <1>2 DEF EnsureRunning
  <2>2. s.cfg \in Cfgs /\ s.users \in SpecLists
    BY DEF Nodes
  <2> QED
    BY <2>1, <2>2, <1>2, StartKernelResult
<1>3. CASE ~s.k.up /\ ~(s.users # NoUsers /\ s.cfg # NoCfg)
  <2>1. r = [ok |-> FALSE, s |-> s, failed |-> FALSE]
    BY <1>3 DEF EnsureRunning
  <2> QED
    BY <2>1, <1>3 DEF Results
<1> QED
  BY <1>1, <1>2, <1>3

\* UpdateUsers, or failing that a restart, or failing that the old list.
LEMMA SwapResult ==
    ASSUME NEW s \in Nodes, s.k.up, NEW u \in SpecLists, cert \in Nat, NEW r \in SwapUsers(s, u)
    PROVE  \/ \E o \in UpdateUsers(s.k, u) : o.ok /\ Ends(r, s.cfg, u, o.k) /\ ~r.failed
           \/ Ends(r, s.cfg, u, r.s.k) /\ r.failed /\ Launched(r.s.k, s.cfg, u, cert)
           \/ Ends(r, s.cfg, s.users, s.k) /\ r.failed
<1>0. s.k \in Kernels /\ s.cfg \in Cfgs /\ s.users \in SpecLists
  BY DEF Nodes
<1> DEFINE Back(q) == IF q.ok THEN q ELSE [q EXCEPT !.s.users = s.users]
           t == [s EXCEPT !.users = u]
           v(k) == [s EXCEPT !.users = u, !.k = k]
<1>1. \E o \in UpdateUsers(s.k, u) :
         \/ o.ok /\ r = Settled([t EXCEPT !.k = o.k])
         \/ ~o.ok /\ \E q \in StartKernel(v(o.k), s.cfg, u) :
                       r = [Back(q) EXCEPT !.failed = @ \/ o.k.up]
  <2>1. r \in UNION {IF o.ok THEN {Settled([t EXCEPT !.k = o.k])}
                    ELSE {[p EXCEPT !.failed = @ \/ o.k.up] :
                            p \in {Back(q) : q \in StartKernel(v(o.k), s.cfg, u)}} :
                      o \in UpdateUsers(s.k, u)}
    BY DEF SwapUsers, OrElse
  <2> HIDE DEF t, v, Back
  <2>2. PICK o \in UpdateUsers(s.k, u) :
          r \in IF o.ok THEN {Settled([t EXCEPT !.k = o.k])}
                ELSE {[p EXCEPT !.failed = @ \/ o.k.up] :
                        p \in {Back(q) : q \in StartKernel(v(o.k), s.cfg, u)}}
    BY <2>1
  <2> QED
    BY <2>2
<1>2. PICK o \in UpdateUsers(s.k, u) :
         \/ o.ok /\ r = Settled([t EXCEPT !.k = o.k])
         \/ ~o.ok /\ \E q \in StartKernel(v(o.k), s.cfg, u) :
                       r = [Back(q) EXCEPT !.failed = @ \/ o.k.up]
  BY <1>1
<1>3. o.k \in Kernels /\ (~o.ok => o.k = s.k)
  BY <1>0, UpdateOutcome DEF Launched, Swapped
<1>4. t \in Nodes /\ t.cfg = s.cfg /\ t.users = u
  BY <1>0 DEF Nodes
<1>5. CASE o.ok /\ r = Settled([t EXCEPT !.k = o.k])
  <2> HIDE DEF t
  <2>1. [t EXCEPT !.k = o.k] \in Nodes /\ [t EXCEPT !.k = o.k].cfg = s.cfg
        /\ [t EXCEPT !.k = o.k].users = u /\ [t EXCEPT !.k = o.k].k = o.k
    BY <1>3, <1>4 DEF Nodes
  <2> QED
    BY <2>1, <1>5, SettledTyped DEF Ends
<1>6. ASSUME ~o.ok, NEW q \in StartKernel(v(o.k), s.cfg, u), r = [Back(q) EXCEPT !.failed = @ \/ o.k.up]
      PROVE  \/ Ends(r, s.cfg, u, r.s.k) /\ r.failed /\ Launched(r.s.k, s.cfg, u, cert)
             \/ Ends(r, s.cfg, s.users, s.k) /\ r.failed
  <2>1. v(o.k) \in Nodes /\ v(o.k).cfg = s.cfg /\ v(o.k).users = u /\ v(o.k).k = s.k
    BY <1>3, <1>6, <1>0 DEF Nodes
  <2>2. /\ q \in Results /\ q.s.cfg = s.cfg /\ q.s.users = u
        /\ \/ q.ok /\ Launched(q.s.k, s.cfg, u, cert)
           \/ ~q.ok /\ q.s.k = s.k
    <3> HIDE DEF v
    <3> QED
      BY <2>1, <1>0, <1>6, StartKernelResult
  <2>3. o.k.up \in BOOLEAN /\ o.k.up
    BY <1>3, <1>6 DEF Kernels
  <2>4. CASE q.ok
    <3>1. r = [q EXCEPT !.failed = @ \/ o.k.up]
      BY <1>6, <2>4
    <3> QED
      BY <3>1, <2>2, <2>3, <2>4, MarkTyped DEF Ends
  <2>5. CASE ~q.ok
    <3> DEFINE p == [q EXCEPT !.s.users = s.users]
    <3>1. r = [p EXCEPT !.failed = @ \/ o.k.up]
      BY <1>6, <2>5
    <3>2. p \in Results /\ p.s.cfg = s.cfg /\ p.s.users = s.users /\ p.s.k = s.k
      BY <2>2, <2>5, <1>0 DEF Results, Nodes
    <3> HIDE DEF p
    <3> QED
      BY <3>1, <3>2, <2>3, MarkTyped DEF Ends
  <2> QED
    BY <2>4, <2>5
<1> QED
  BY <1>2, <1>5, <1>6

\* One of outcomes, or failing that UpdateUsers, or failing that the old list.
LEMMA DeltaResult ==
    ASSUME NEW s \in Nodes, NEW u \in SpecLists, NEW Outs, NEW r \in FinishDelta(s, u, Outs),
           \A o \in Outs : o.k \in Kernels /\ (~o.ok => o.k = s.k)
    PROVE  \/ \E o \in Outs : o.ok /\ Ends(r, s.cfg, u, o.k) /\ ~r.failed
           \/ \E o \in UpdateUsers(s.k, u) : o.ok /\ Ends(r, s.cfg, u, o.k) /\ (s.k.up => r.failed)
           \/ Ends(r, s.cfg, s.users, s.k) /\ (s.k.up => r.failed)
<1>0. s.k \in Kernels /\ s.cfg \in Cfgs /\ s.users \in SpecLists
  BY DEF Nodes
<1> DEFINE t == [s EXCEPT !.users = u]
           v(k) == [s EXCEPT !.users = u, !.k = k]
           Last(q) == IF q.ok THEN Settled(v(q.k)) ELSE Settled([s EXCEPT !.k = q.k])
<1>1. \E o \in Outs :
         \/ o.ok /\ r = Settled([t EXCEPT !.k = o.k])
         \/ ~o.ok /\ \E q \in UpdateUsers(o.k, u) : r = [Last(q) EXCEPT !.failed = @ \/ o.k.up]
  <2>1. r \in UNION {IF o.ok THEN {Settled([t EXCEPT !.k = o.k])}
                    ELSE {[p EXCEPT !.failed = @ \/ o.k.up] :
                            p \in {Last(q) : q \in UpdateUsers(o.k, u)}} :
                      o \in Outs}
    BY DEF FinishDelta, OrElse
  <2> HIDE DEF t, v, Last
  <2>2. PICK o \in Outs :
          r \in IF o.ok THEN {Settled([t EXCEPT !.k = o.k])}
                ELSE {[p EXCEPT !.failed = @ \/ o.k.up] :
                        p \in {Last(q) : q \in UpdateUsers(o.k, u)}}
    BY <2>1
  <2> QED
    BY <2>2
<1>2. PICK o \in Outs :
         \/ o.ok /\ r = Settled([t EXCEPT !.k = o.k])
         \/ ~o.ok /\ \E q \in UpdateUsers(o.k, u) : r = [Last(q) EXCEPT !.failed = @ \/ o.k.up]
  BY <1>1
<1>3. o.k \in Kernels /\ (~o.ok => o.k = s.k)
  OBVIOUS
<1>4. t \in Nodes /\ t.cfg = s.cfg /\ t.users = u
  BY <1>0 DEF Nodes
<1>5. CASE o.ok /\ r = Settled([t EXCEPT !.k = o.k])
  <2> HIDE DEF t
  <2>1. [t EXCEPT !.k = o.k] \in Nodes /\ [t EXCEPT !.k = o.k].cfg = s.cfg
        /\ [t EXCEPT !.k = o.k].users = u /\ [t EXCEPT !.k = o.k].k = o.k
    BY <1>3, <1>4 DEF Nodes
  <2> QED
    BY <2>1, <1>5, SettledTyped DEF Ends
<1>6. ASSUME ~o.ok, NEW q \in UpdateUsers(o.k, u), r = [Last(q) EXCEPT !.failed = @ \/ o.k.up]
      PROVE  \/ q.ok /\ Ends(r, s.cfg, u, q.k) /\ (s.k.up => r.failed)
             \/ Ends(r, s.cfg, s.users, s.k) /\ (s.k.up => r.failed)
  <2>1. q.k \in Kernels /\ (~q.ok => q.k = s.k) /\ o.k = s.k
    BY <1>0, <1>3, <1>6, UpdateOutcome DEF Launched, Swapped
  <2>2. s.k.up \in BOOLEAN
    BY <1>0 DEF Kernels
  <2>3. CASE q.ok
    <3>1. v(q.k) \in Nodes /\ v(q.k).cfg = s.cfg /\ v(q.k).users = u /\ v(q.k).k = q.k
      BY <2>1 DEF Nodes
    <3>2. r = [Settled(v(q.k)) EXCEPT !.failed = @ \/ s.k.up]
      BY <1>6, <2>1, <2>3
    <3> HIDE DEF v
    <3> QED
      BY <3>1, <3>2, <2>2, <2>3, SettledTyped, MarkTyped DEF Ends
  <2>4. CASE ~q.ok
    <3> DEFINE w == [s EXCEPT !.k = q.k]
    <3>1. w \in Nodes /\ w.cfg = s.cfg /\ w.users = s.users /\ w.k = s.k
      BY <2>1, <2>4, <1>0 DEF Nodes
    <3>2. r = [Settled(w) EXCEPT !.failed = @ \/ s.k.up]
      BY <1>6, <2>1, <2>4
    <3> HIDE DEF w
    <3> QED
      BY <3>1, <3>2, <2>2, SettledTyped, MarkTyped DEF Ends
  <2> QED
    BY <2>3, <2>4
<1> QED
  BY <1>2, <1>3, <1>5, <1>6

LEMMA ConfigResult ==
    ASSUME NEW s \in Nodes, cert \in Nat, NEW r \in ApplyConfig(s)
    PROVE  /\ r \in Results /\ r.s.cfg = s.cfg /\ r.s.users = s.users
           /\ \/ s.users = NoUsers /\ ~r.failed /\ Stopped(r.s.k, s.k)
              \/ ~r.failed /\ ~s.k.up /\ r.s.k = s.k
              \/ s.cfg = NoCfg /\ ~r.failed /\ r.s.k = s.k
              \/ Launched(r.s.k, s.cfg, s.users, cert)
              \/ /\ ~r.failed /\ s.k.hash[1] = s.cfg /\ s.k.cert = cert
                 /\ s.k.up /\ r.s.k.up /\ r.s.k.admits = s.k.admits /\ r.s.k.users = s.users
              \/ /\ r.failed /\ StartFails /\ r.s.k.up = s.k.up
                 /\ r.s.k.admits = s.k.admits /\ r.s.k.users = s.k.users
<1>0. s.k \in Kernels /\ s.cfg \in Cfgs /\ s.users \in SpecLists
  BY DEF Nodes
<1>1. CASE s.users = NoUsers
  <2>1. r = Settled([s EXCEPT !.k = Stop(s.k)]) /\ Stopped(Stop(s.k), s.k)
    BY <1>0, <1>1, StopOutcome DEF ApplyConfig
  <2>2. [s EXCEPT !.k = Stop(s.k)] \in Nodes /\ [s EXCEPT !.k = Stop(s.k)].k = Stop(s.k)
        /\ [s EXCEPT !.k = Stop(s.k)].cfg = s.cfg /\ [s EXCEPT !.k = Stop(s.k)].users = s.users
    BY <2>1, <1>0 DEF Stopped, Nodes
  <2> QED
    BY <1>1, <2>1, <2>2, SettledTyped
<1>2. CASE s.users # NoUsers /\ s.cfg = NoCfg
  BY <1>2, SettledTyped DEF ApplyConfig
<1>3. CASE s.users # NoUsers /\ s.cfg # NoCfg /\ ~s.k.up
  <2>1. r \in StartKernel(s, s.cfg, s.users)
    BY <1>3 DEF ApplyConfig
  <2> QED
    BY <2>1, <1>0, StartKernelResult
<1>4. CASE s.users # NoUsers /\ s.cfg # NoCfg /\ s.k.up
  <2> DEFINE w(k) == [s EXCEPT !.k = k]
  <2>1. PICK o \in Reload(s.k, s.cfg, s.users, cert) :
          \/ o.ok /\ r = Settled(w(o.k))
          \/ ~o.ok /\ \E q \in StartKernel(w(o.k), s.cfg, s.users) : r = [q EXCEPT !.failed = @ \/ o.k.up]
    <3>1. r \in UNION {IF o.ok THEN {Settled(w(o.k))}
                      ELSE {[q EXCEPT !.failed = @ \/ o.k.up] : q \in StartKernel(w(o.k), s.cfg, s.users)} :
                        o \in Reload(s.k, s.cfg, s.users, cert)}
      BY <1>4 DEF ApplyConfig, OrElse
    <3> HIDE DEF w
    <3>2. PICK o \in Reload(s.k, s.cfg, s.users, cert) :
            r \in IF o.ok THEN {Settled(w(o.k))}
                  ELSE {[q EXCEPT !.failed = @ \/ o.k.up] : q \in StartKernel(w(o.k), s.cfg, s.users)}
      BY <3>1
    <3> QED
      BY <3>2
  <2>2. \/ o.ok /\ Launched(o.k, s.cfg, s.users, cert)
        \/ /\ o.ok /\ s.k.hash[1] = s.cfg /\ s.k.cert = cert
           /\ o.k \in Kernels /\ o.k.up = s.k.up /\ o.k.admits = s.k.admits /\ o.k.users = s.users
        \/ /\ ~o.ok /\ StartFails /\ o.k \in Kernels /\ o.k.up = s.k.up
           /\ o.k.admits = s.k.admits /\ o.k.users = s.k.users
    BY <1>0, ReloadOutcome
  <2>3. o.k \in Kernels
    BY <2>2 DEF Launched
  <2>4. w(o.k) \in Nodes /\ w(o.k).cfg = s.cfg /\ w(o.k).users = s.users /\ w(o.k).k = o.k
    BY <2>3, <1>0 DEF Nodes
  <2> HIDE DEF w
  <2>5. CASE o.ok /\ r = Settled(w(o.k))
    BY <2>2, <2>4, <2>5, <1>4, SettledTyped
  <2>6. ASSUME ~o.ok, NEW q \in StartKernel(w(o.k), s.cfg, s.users), r = [q EXCEPT !.failed = @ \/ o.k.up]
        PROVE  /\ r \in Results /\ r.s.cfg = s.cfg /\ r.s.users = s.users
               /\ \/ Launched(r.s.k, s.cfg, s.users, cert)
                  \/ /\ r.failed /\ StartFails /\ r.s.k.up = s.k.up
                     /\ r.s.k.admits = s.k.admits /\ r.s.k.users = s.k.users
    <3>1. /\ q \in Results /\ q.s.cfg = s.cfg /\ q.s.users = s.users
          /\ \/ Launched(q.s.k, s.cfg, s.users, cert)
             \/ q.failed /\ StartFails /\ q.s.k = o.k
      BY <2>4, <2>6, <1>0, StartKernelResult
    <3>2. o.k.up \in BOOLEAN
      BY <2>3 DEF Kernels
    <3> QED
      BY <3>1, <3>2, <2>2, <2>6, MarkTyped
  <2> QED
    BY <2>1, <2>5, <2>6
<1> QED
  BY <1>1, <1>2, <1>3, <1>4

-----------------------------------------------------------------------------
(* What they leave in step *)

\* The users whose credential a whole list changes unnoticed.
Blind(cfg, old, u) == IF cfg \in Managed THEN Rekeyed(old, u) ELSE {}

LEMMA UuidsOfUser ==
    ASSUME NEW u \in SpecLists, NEW i \in UserIds
    PROVE  /\ i \in Members(u) <=> UuidsOf(u)[i] # Absent
           /\ i \in Members(u) <=> u[i] # Absent
           /\ UuidsOf(u)[i] = IF u[i] = Absent THEN Absent ELSE u[i][1]
<1>1. UuidsOf(u)[i] = IF u[i] = Absent THEN Absent ELSE u[i][1]
  BY DEF UuidsOf
<1>2. i \in Members(u) <=> u[i] # Absent
  BY DEF Members
<1>3. i \in Members(UuidsOf(u)) <=> UuidsOf(u)[i] # Absent
  BY DEF Members
<1> QED
  BY <1>1, <1>2, <1>3, UuidsTyped

LEMMA UpdateKnown ==
    ASSUME NEW k \in Kernels, NEW old \in SpecLists, NEW u \in SpecLists,
           NEW o \in UpdateUsers(k, u), o.ok, Known(k, old)
    PROVE  /\ o.k \in Kernels /\ o.k.up /\ Known(o.k, u)
           /\ \A i \in Members(old) \ Members(u) : i \notin Members(o.k.admits)
<1>1. CASE Launched(o.k, k.cfg, u, k.cert)
  BY <1>1, UuidsTyped DEF Launched, Known
<1>2. CASE Swapped(o.k, k, u, ToRemove(k.users, u), ToAdd(UuidsOf(k.users), UuidsOf(u)), u)
  <2>1. ASSUME NEW i \in Members(old) \ Members(u)
        PROVE  o.k.admits[i] = Absent
    <3>1. i \in UserIds /\ i \notin Members(u) /\ i \in Members(old)
      BY DEF Members
    <3>2. i \notin ToAdd(UuidsOf(k.users), UuidsOf(u))
      BY <3>1, UuidsTyped DEF ToAdd
    <3>3. CASE k.admits[i] = Absent
      BY <1>2, <3>1, <3>2, <3>3 DEF Swapped
    <3>4. CASE k.admits[i] # Absent
      <4>1. i \in Members(k.users)
        BY <3>1, <3>4 DEF Known, Members
      <4>2. i \in ToRemove(k.users, u)
        BY <4>1, <3>1 DEF ToRemove
      <4> QED
        BY <1>2, <3>1, <3>2, <4>2 DEF Swapped
    <3> QED
      BY <3>3, <3>4
  <2> QED
    BY <1>2, <2>1 DEF Swapped, Known, Members
<1> QED
  BY <1>1, <1>2, UpdateOutcome

LEMMA UpdateInStep ==
    ASSUME NEW k \in Kernels, NEW old \in SpecLists, NEW u \in SpecLists, NEW R, NEW cfg,
           NEW o \in UpdateUsers(k, u), o.ok, InStep(k, cfg, old, R)
    PROVE  InStep(o.k, cfg, u, (R \cup Blind(cfg, old, u)) \cap Members(u))
<1> DEFINE toAdd == ToAdd(UuidsOf(old), UuidsOf(u))
           toRemove == ToRemove(old, u)
           R2 == (R \cup Blind(cfg, old, u)) \cap Members(u)
<1>0. k.up /\ k.cfg = cfg /\ k.users = old /\ k.hash[1] = cfg /\ Members(k.admits) = Members(old)
      /\ \A i \in UserIds \ R : k.admits[i] = UuidsOf(old)[i]
  BY UpdateOutcome DEF InStep
<1>1. CASE Launched(o.k, cfg, u, k.cert)
  BY <1>1, LaunchedInStep
<1>2. CASE Swapped(o.k, k, u, toRemove, toAdd, u) /\ (cfg \in Managed \/ toAdd = {})
  <2>1. \A i \in UserIds : o.k.admits[i] =
            IF i \in toAdd /\ (i \in toRemove \/ k.admits[i] = Absent) THEN UuidsOf(u)[i]
            ELSE IF i \in toRemove THEN Absent ELSE k.admits[i]
    BY <1>2 DEF Swapped
  <2>2. ASSUME NEW i \in UserIds
        PROVE  /\ i \in Members(o.k.admits) <=> i \in Members(u)
               /\ i \notin R2 => o.k.admits[i] = UuidsOf(u)[i]
    <3>1. i \in Members(k.admits) <=> k.admits[i] # Absent
      BY DEF Members
    <3>2. i \in Members(o.k.admits) <=> o.k.admits[i] # Absent
      BY DEF Members
    <3>3. i \in toAdd <=> i \in Members(u) /\ UuidsOf(old)[i] # UuidsOf(u)[i]
      BY UuidsTyped DEF ToAdd
    <3>4. i \in toRemove <=> i \in Members(old) /\ i \notin Members(u)
      BY DEF ToRemove
    <3>5. /\ i \in Members(u) <=> UuidsOf(u)[i] # Absent
          /\ i \in Members(old) <=> UuidsOf(old)[i] # Absent
      BY UuidsOfUser
    <3>6. i \in Members(old) /\ i \in Members(u) /\ i \in toAdd => i \in Blind(cfg, old, u)
      BY <1>2, <3>3 DEF Blind, Rekeyed
    <3>7. CASE i \notin Members(u)
      BY <2>1, <3>1, <3>2, <3>3, <3>4, <3>5, <3>7, <1>0
    <3>8. CASE i \in Members(u) /\ i \notin Members(old)
      BY <2>1, <3>1, <3>2, <3>3, <3>4, <3>5, <3>8, <1>0
    <3>9. CASE i \in Members(u) /\ i \in Members(old)
      BY <2>1, <3>1, <3>2, <3>3, <3>4, <3>5, <3>6, <3>9, <1>0
    <3> QED
      BY <3>7, <3>8, <3>9
  <2>3. Members(o.k.admits) = Members(u)
    BY <2>2 DEF Members
  <2> HIDE DEF R2
  <2>4. InStep(o.k, cfg, u, R2)
    BY <1>0, <1>2, <2>2, <2>3 DEF Swapped, InStep
  <2> QED
    BY <2>4 DEF R2
<1> QED
  BY <1>0, <1>1, <1>2, UpdateOutcome

LEMMA RemoveKnown ==
    ASSUME NEW k \in Kernels, Sound(k), NEW old \in SpecLists, NEW d \in SpecLists,
           NEW o \in RemoveUsers(k, d), o.ok, Known(k, old)
    PROVE  /\ Sound(o.k) /\ Known(o.k, Subtract(old, d))
           /\ \A i \in Members(old) \cap Members(d) : i \notin Members(o.k.admits)
<1>0. k.users \in SpecLists
  BY DEF Kernels
<1>1. /\ Members(Subtract(k.users, d)) = Members(k.users) \ Members(d)
      /\ Members(Subtract(old, d)) = Members(old) \ Members(d)
      /\ Members(NoUsers) = {} /\ Subtract(k.users, d) \in SpecLists
  BY <1>0, ListMembers, ListsTyped
<1>2. CASE o.k = k /\ Members(k.users) \cap Members(d) = {}
  BY <1>1, <1>2 DEF Known
<1>3. CASE Stopped(o.k, k)
  BY <1>1, <1>3 DEF Known, Stopped, Sound
<1>4. CASE Launched(o.k, k.cfg, Subtract(k.users, d), k.cert)
  <2>1. Members(o.k.admits) = Members(k.users) \ Members(d)
    BY <1>1, <1>4, UuidsTyped DEF Launched
  <2> QED
    BY <1>1, <1>4, <2>1 DEF Launched, Known, Sound
<1>5. CASE Swapped(o.k, k, Subtract(k.users, d), Members(d), {}, d)
  <2>1. Members(o.k.admits) = Members(k.admits) \ Members(d)
    BY <1>5 DEF Swapped, Members
  <2> QED
    BY <1>1, <1>5, <2>1 DEF Swapped, Known, Sound
<1> QED
  BY <1>2, <1>3, <1>4, <1>5, RemoveOutcome

LEMMA RemoveInStep ==
    ASSUME NEW k \in Kernels, NEW old \in SpecLists, NEW d \in SpecLists, NEW R, NEW cfg,
           NEW o \in RemoveUsers(k, d), o.ok, InStep(k, cfg, old, R)
    PROVE  InStep(o.k, cfg, Subtract(old, d), R \cap Members(Subtract(old, d)))
<1> DEFINE u == Subtract(old, d)
<1>0. k.up /\ k.cfg = cfg /\ k.users = old /\ k.hash[1] = cfg /\ Members(k.admits) = Members(old)
      /\ k.limits = LimitsOf(old)
      /\ \A i \in UserIds \ R : k.admits[i] = UuidsOf(old)[i]
  BY RemoveOutcome DEF InStep
<1>1. u \in SpecLists /\ Members(u) = Members(old) \ Members(d)
  BY ListMembers, ListsTyped
<1>2. \A i \in Members(u) : u[i] = old[i]
  BY DEF Members, Subtract
<1> HIDE DEF u
<1>3. ASSUME Members(o.k.admits) = Members(k.admits) \ Members(d),
             \A i \in UserIds \ Members(d) : o.k.admits[i] = k.admits[i],
             NEW i \in UserIds, i \notin R \/ i \notin Members(u)
      PROVE  o.k.admits[i] = UuidsOf(u)[i]
  <2>1. /\ i \in Members(u) <=> UuidsOf(u)[i] # Absent
        /\ UuidsOf(u)[i] = IF u[i] = Absent THEN Absent ELSE u[i][1]
        /\ UuidsOf(old)[i] = IF old[i] = Absent THEN Absent ELSE old[i][1]
    BY <1>1, UuidsOfUser
  <2>2. CASE i \in Members(u)
    BY <1>0, <1>1, <1>2, <1>3, <2>1, <2>2
  <2>3. CASE i \notin Members(u)
    <3>1. i \notin Members(o.k.admits)
      BY <1>0, <1>1, <1>3, <2>3
    <3> QED
      BY <3>1, <2>1, <2>3 DEF Members
  <2> QED
    BY <2>2, <2>3
<1>4. CASE o.k = k /\ Members(old) \cap Members(d) = {}
  <2>1. u = old
    BY <1>4, SubtractEmpty DEF u
  <2> QED
    BY <1>0, <1>4, <2>1, UuidsOfUser DEF InStep, u, Members
<1>5. CASE Stopped(o.k, k)
  BY <1>5 DEF InStep, Stopped
<1>6. CASE Launched(o.k, cfg, u, k.cert)
  BY <1>1, <1>6, LaunchedInStep DEF u
<1>7. CASE Swapped(o.k, k, u, Members(d), {}, d)
  <2>1. Members(o.k.admits) = Members(k.admits) \ Members(d)
    BY <1>7 DEF Swapped, Members
  <2>2. \A i \in UserIds \ Members(d) : o.k.admits[i] = k.admits[i]
    BY <1>7 DEF Swapped
  <2>3. \A i \in UserIds \ (R \cap Members(u)) : o.k.admits[i] = UuidsOf(u)[i]
    BY <1>3, <2>1, <2>2
  <2>4. InStep(o.k, cfg, u, R \cap Members(u))
    BY <1>0, <1>1, <1>7, <2>1, <2>3 DEF Swapped, InStep
  <2> QED
    BY <2>4 DEF u
<1> QED
  BY <1>0, <1>4, <1>5, <1>6, <1>7, RemoveOutcome DEF u

\* The credentials of a delta and of the record agree on known users.
Fits(base, d) == \A i \in Members(base) \cap Members(d) : UuidsOf(base)[i] = UuidsOf(d)[i]

LEMMA AddKnown ==
    ASSUME NEW k \in Kernels, NEW base \in SpecLists, NEW d \in SpecLists,
           NEW o \in AddUsers(k, d), o.ok, Known(k, base)
    PROVE  o.k \in Kernels /\ o.k.up /\ Known(o.k, Merge(base, d))
<1>0. k.users \in SpecLists
  BY DEF Kernels
<1>1. /\ Members(Merge(k.users, d)) = Members(k.users) \cup Members(d)
      /\ Members(Merge(base, d)) = Members(base) \cup Members(d)
      /\ Merge(k.users, d) \in SpecLists
  BY <1>0, ListMembers, ListsTyped
<1>2. CASE Launched(o.k, k.cfg, Merge(k.users, d), k.cert)
  BY <1>1, <1>2, UuidsTyped DEF Launched, Known
<1>3. CASE Swapped(o.k, k, Merge(k.users, d), {}, Members(d) \ Members(k.users), d)
  <2>1. Members(o.k.admits) \subseteq Members(k.admits) \cup Members(d)
    BY <1>3 DEF Swapped, Members
  <2> QED
    BY <1>1, <1>3, <2>1 DEF Swapped, Known
<1> QED
  BY <1>2, <1>3, AddOutcome

LEMMA AddInStep ==
    ASSUME NEW k \in Kernels, NEW base \in SpecLists, NEW d \in SpecLists, NEW R, NEW cfg,
           NEW o \in AddUsers(k, d), o.ok, InStep(k, cfg, base, R), Fits(base, d)
    PROVE  InStep(o.k, cfg, Merge(base, d), R \cap Members(Merge(base, d)))
<1> DEFINE u == Merge(base, d)
           fresh == Members(d) \ Members(base)
<1>0. k.up /\ k.cfg = cfg /\ k.users = base /\ k.hash[1] = cfg /\ Members(k.admits) = Members(base)
      /\ \A i \in UserIds \ R : k.admits[i] = UuidsOf(base)[i]
  BY AddOutcome DEF InStep
<1>1. u \in SpecLists /\ Members(u) = Members(base) \cup Members(d)
  BY ListMembers, ListsTyped
<1>2. /\ \A i \in Members(d) : u[i] = d[i]
      /\ \A i \in UserIds \ Members(d) : u[i] = base[i]
  BY DEF Members, Merge
<1>3. CASE Launched(o.k, cfg, u, k.cert)
  BY <1>1, <1>3, LaunchedInStep
<1>4. CASE Swapped(o.k, k, u, {}, fresh, d)
  <2> HIDE DEF u
  <2>1. \A i \in UserIds : o.k.admits[i] =
            IF i \in fresh /\ k.admits[i] = Absent THEN UuidsOf(d)[i] ELSE k.admits[i]
    BY <1>4 DEF Swapped
  <2>2. ASSUME NEW i \in UserIds
        PROVE  /\ i \in Members(o.k.admits) <=> i \in Members(u)
               /\ i \notin R \cap Members(u) => o.k.admits[i] = UuidsOf(u)[i]
    <3>1. i \in Members(k.admits) <=> k.admits[i] # Absent
      BY DEF Members
    <3>2. i \in Members(o.k.admits) <=> o.k.admits[i] # Absent
      BY DEF Members
    <3>3. /\ i \in Members(u) <=> UuidsOf(u)[i] # Absent
          /\ i \in Members(d) <=> UuidsOf(d)[i] # Absent
          /\ i \in Members(base) <=> UuidsOf(base)[i] # Absent
          /\ UuidsOf(u)[i] = IF u[i] = Absent THEN Absent ELSE u[i][1]
          /\ UuidsOf(d)[i] = IF d[i] = Absent THEN Absent ELSE d[i][1]
          /\ UuidsOf(base)[i] = IF base[i] = Absent THEN Absent ELSE base[i][1]
      BY <1>1, UuidsOfUser
    <3>4. i \in Members(d) => UuidsOf(u)[i] = UuidsOf(d)[i]
      BY <1>2, <3>3
    <3>5. i \notin Members(d) => UuidsOf(u)[i] = UuidsOf(base)[i]
      BY <1>2, <3>3
    <3>6. i \in Members(d) /\ i \in Members(base) => UuidsOf(u)[i] = UuidsOf(base)[i]
      BY <3>4 DEF Fits
    <3>7. CASE i \in fresh
      BY <2>1, <3>1, <3>2, <3>3, <3>4, <3>7, <1>0, <1>1
    <3>8. CASE i \in Members(base)
      BY <2>1, <3>1, <3>2, <3>3, <3>5, <3>6, <3>8, <1>0, <1>1
    <3>9. CASE i \notin Members(base) /\ i \notin Members(d)
      BY <2>1, <3>1, <3>2, <3>3, <3>9, <1>0, <1>1
    <3> QED
      BY <3>7, <3>8, <3>9
  <2>3. Members(o.k.admits) = Members(u)
    BY <2>2 DEF Members
  <2>4. InStep(o.k, cfg, u, R \cap Members(u))
    BY <1>0, <1>4, <2>2, <2>3 DEF Swapped, InStep
  <2> QED
    BY <2>4 DEF u
<1> QED
  BY <1>0, <1>3, <1>4, AddOutcome

-----------------------------------------------------------------------------
(* The handlers *)

\* What a handler of users does to a state s whose kernel is Sound and Known.
LeavesKnown(r, s) ==
    /\ r \in Results /\ r.s.cfg = s.cfg /\ Sound(r.s.k) /\ Known(r.s.k, r.s.users)

\* Who is off the record has no account.
Locked(r, s) ==
    \A i \in Members(s.users) \ Members(r.s.users) : i \notin Members(r.s.k.admits)

LEMMA EnsureKeeps ==
    ASSUME NEW s \in Nodes, cert \in Nat, Sound(s.k), NEW r \in EnsureRunning(s), NEW R
    PROVE  /\ r \in Results /\ r.s.cfg = s.cfg /\ r.s.users = s.users /\ Sound(r.s.k)
           /\ s.k.up => r.s.k = s.k
           /\ r.ok => r.s.k.up /\ ~r.failed
           /\ ~r.ok => r.s.k = s.k /\ ~s.k.up
           /\ Known(s.k, s.users) => Known(r.s.k, s.users)
           /\ InStep(s.k, s.cfg, s.users, R) => InStep(r.s.k, s.cfg, s.users, R)
<1>0. s.users \in SpecLists
  BY DEF Nodes
<1>1. CASE ~s.k.up /\ Launched(r.s.k, s.cfg, s.users, cert)
  <2>1. Sound(r.s.k) /\ InStep(r.s.k, s.cfg, s.users, R) /\ Members(r.s.k.admits) = Members(s.users)
    BY <1>0, <1>1, LaunchedInStep
  <2>2. r.s.k.users = s.users /\ r.s.k.up
    BY <1>1 DEF Launched
  <2> QED
    BY <1>1, <2>1, <2>2, EnsureResult DEF Known
<1>2. CASE r.s.k = s.k /\ (IF s.k.up THEN r.ok /\ ~r.failed ELSE ~r.ok)
  BY <1>2, EnsureResult
<1> QED
  BY <1>1, <1>2, EnsureResult

LEMMA SwapKeeps ==
    ASSUME NEW s \in Nodes, s.k.up, NEW u \in SpecLists, cert \in Nat, NEW r \in SwapUsers(s, u), NEW R
    PROVE  /\ Known(s.k, s.users) => LeavesKnown(r, s) /\ Locked(r, s)
           /\ InStep(s.k, s.cfg, s.users, R) /\ ~r.failed =>
                InStep(r.s.k, s.cfg, r.s.users, (R \cup Blind(s.cfg, s.users, u)) \cap Members(r.s.users))
           /\ r \in Results /\ r.s.k.up /\ r.s.cfg = s.cfg
           /\ ~r.failed => r.s.users = u
<1>0. s.k \in Kernels /\ s.users \in SpecLists
  BY DEF Nodes
<1>1. ASSUME NEW o \in UpdateUsers(s.k, u), o.ok, Ends(r, s.cfg, u, o.k), ~r.failed
      PROVE  /\ Known(s.k, s.users) => LeavesKnown(r, s) /\ Locked(r, s)
             /\ InStep(s.k, s.cfg, s.users, R) =>
                  InStep(r.s.k, s.cfg, u, (R \cup Blind(s.cfg, s.users, u)) \cap Members(u))
             /\ r \in Results /\ r.s.k.up /\ r.s.cfg = s.cfg /\ r.s.users = u
  <2>1. r \in Results /\ r.s.k = o.k /\ r.s.users = u /\ r.s.cfg = s.cfg
    BY <1>1 DEF Ends
  <2>2. o.k.up
    BY <1>0, <1>1, UpdateOutcome DEF Launched, Swapped
  <2>3. Known(s.k, s.users) => LeavesKnown(r, s) /\ Locked(r, s)
    BY <1>0, <1>1, <2>1, UpdateKnown DEF LeavesKnown, Locked, Sound
  <2>4. InStep(s.k, s.cfg, s.users, R) =>
          InStep(o.k, s.cfg, u, (R \cup Blind(s.cfg, s.users, u)) \cap Members(u))
    BY <1>0, <1>1, UpdateInStep
  <2> QED
    BY <2>1, <2>2, <2>3, <2>4
<1>2. CASE Ends(r, s.cfg, u, r.s.k) /\ r.failed /\ Launched(r.s.k, s.cfg, u, cert)
  <2>1. Sound(r.s.k) /\ Members(r.s.k.admits) = Members(u)
    BY <1>2, LaunchedInStep
  <2> QED
    BY <1>2, <2>1 DEF Launched, Ends, LeavesKnown, Locked, Known
<1>3. CASE Ends(r, s.cfg, s.users, s.k) /\ r.failed
  BY <1>0, <1>3 DEF Ends, LeavesKnown, Locked, Sound
<1> QED
  BY <1>1, <1>2, <1>3, SwapResult

LEMMA UsersHandled ==
    ASSUME NEW s \in Nodes, NEW u \in SpecLists, cert \in Nat, Sound(s.k), NEW r \in ApplyUsers(s, u), NEW R
    PROVE  /\ r \in Results /\ r.s.cfg = s.cfg /\ Sound(r.s.k)
           /\ Known(s.k, s.users) => LeavesKnown(r, s) /\ Locked(r, s)
           /\ InStep(s.k, s.cfg, s.users, R) /\ ~r.failed =>
                InStep(r.s.k, s.cfg, r.s.users,
                       (R \cup Blind(s.cfg, s.users, r.s.users)) \cap Members(r.s.users))
           /\ s.k.up => r.s.k.up
<1>1. PICK e \in EnsureRunning(s) :
        r \in IF ~e.ok THEN {e} ELSE {[q EXCEPT !.failed = @ \/ e.failed] : q \in SwapUsers(e.s, u)}
  BY DEF ApplyUsers
<1>2. /\ e \in Results /\ e.s.cfg = s.cfg /\ e.s.users = s.users /\ Sound(e.s.k)
      /\ s.k.up => e.s.k = s.k
      /\ e.ok => e.s.k.up /\ ~e.failed
      /\ ~e.ok => e.s.k = s.k /\ ~s.k.up
      /\ Known(s.k, s.users) => Known(e.s.k, s.users)
      /\ InStep(s.k, s.cfg, s.users, R) => InStep(e.s.k, s.cfg, s.users, R)
  BY EnsureKeeps
<1>3. CASE ~e.ok
  BY <1>1, <1>2, <1>3 DEF LeavesKnown, Locked, InStep
<1>4. CASE e.ok
  <2>1. PICK q \in SwapUsers(e.s, u) : r = [q EXCEPT !.failed = @ \/ e.failed]
    BY <1>1, <1>4
  <2>2. e.s \in Nodes /\ e.s.k.up /\ e.failed = FALSE
    BY <1>2, <1>4 DEF Results
  <2>3. /\ Known(e.s.k, e.s.users) => LeavesKnown(q, e.s) /\ Locked(q, e.s)
        /\ InStep(e.s.k, e.s.cfg, e.s.users, R) /\ ~q.failed =>
             InStep(q.s.k, e.s.cfg, q.s.users, (R \cup Blind(e.s.cfg, e.s.users, u)) \cap Members(q.s.users))
        /\ q \in Results /\ q.s.k.up /\ q.s.cfg = e.s.cfg
        /\ ~q.failed => q.s.users = u
    BY <2>2, SwapKeeps
  <2>4. r \in Results /\ r.s = q.s /\ (r.failed <=> q.failed)
    <3>1. r = [q EXCEPT !.failed = @ \/ FALSE] /\ q \in Results
      BY <2>1, <2>2, <2>3
    <3> QED
      BY <3>1, MarkTyped
  <2>5. q.s.k \in Kernels
    BY <2>3 DEF Results, Nodes
  <2>6. Sound(r.s.k)
    BY <2>3, <2>4, <2>5 DEF Sound
  <2>7. Known(s.k, s.users) => LeavesKnown(r, s) /\ Locked(r, s)
    BY <1>2, <2>3, <2>4 DEF LeavesKnown, Locked
  <2>8. InStep(s.k, s.cfg, s.users, R) /\ ~r.failed =>
          InStep(r.s.k, s.cfg, r.s.users, (R \cup Blind(s.cfg, s.users, r.s.users)) \cap Members(r.s.users))
    BY <1>2, <2>3, <2>4
  <2> QED
    BY <1>2, <2>3, <2>4, <2>6, <2>7, <2>8
<1> QED
  BY <1>3, <1>4

LEMMA RemoveHandled ==
    ASSUME NEW s \in Nodes, NEW d \in SpecLists, Sound(s.k), NEW r \in ApplyRemove(s, d), NEW R
    PROVE  /\ r \in Results /\ r.s.cfg = s.cfg /\ Sound(r.s.k)
           /\ Known(s.k, s.users) => LeavesKnown(r, s) /\ Locked(r, s)
           /\ InStep(s.k, s.cfg, s.users, R) /\ ~r.failed =>
                InStep(r.s.k, s.cfg, r.s.users, R \cap Members(r.s.users))
           /\ s.k.up /\ ~r.s.k.up => Members(s.k.users) # {} /\ Members(s.k.users) \subseteq Members(d)
<1> DEFINE u == Subtract(s.users, d)
<1>0. s.k \in Kernels /\ s.users \in SpecLists
  BY DEF Nodes
<1>1. u \in SpecLists /\ Members(u) = Members(s.users) \ Members(d)
  BY <1>0, ListMembers, ListsTyped
<1>2. CASE ~s.k.up
  <2>1. r = Settled(s)
    BY <1>2 DEF ApplyRemove
  <2> QED
    BY <2>1, <1>2, SettledTyped DEF LeavesKnown, Locked, InStep
<1>3. CASE s.k.up
  <2>1. r \in FinishDelta(s, u, RemoveUsers(s.k, d))
    BY <1>3 DEF ApplyRemove
  <2>2. \A o \in RemoveUsers(s.k, d) : o.k \in Kernels /\ (~o.ok => o.k = s.k)
    BY <1>0, RemoveOutcome DEF Launched, Swapped, Stopped
  <2>3. \/ \E o \in RemoveUsers(s.k, d) : o.ok /\ Ends(r, s.cfg, u, o.k) /\ ~r.failed
        \/ \E o \in UpdateUsers(s.k, u) : o.ok /\ Ends(r, s.cfg, u, o.k) /\ (s.k.up => r.failed)
        \/ Ends(r, s.cfg, s.users, s.k) /\ (s.k.up => r.failed)
    BY <1>1, <2>1, <2>2, DeltaResult
  <2> HIDE DEF u
  <2>4. ASSUME NEW o \in RemoveUsers(s.k, d), o.ok, Ends(r, s.cfg, u, o.k)
        PROVE  /\ r \in Results /\ r.s.cfg = s.cfg /\ Sound(r.s.k)
               /\ Known(s.k, s.users) => LeavesKnown(r, s) /\ Locked(r, s)
               /\ InStep(s.k, s.cfg, s.users, R) => InStep(r.s.k, s.cfg, r.s.users, R \cap Members(r.s.users))
               /\ s.k.up /\ ~r.s.k.up => Members(s.k.users) # {} /\ Members(s.k.users) \subseteq Members(d)
    <3>1. r \in Results /\ r.s.cfg = s.cfg /\ r.s.k = o.k /\ r.s.users = u
      BY <2>4 DEF Ends
    <3>2. Known(s.k, s.users) => /\ Known(o.k, u)
                                 /\ \A i \in Members(s.users) \cap Members(d) : i \notin Members(o.k.admits)
      BY <1>0, <2>4, RemoveKnown DEF u
    <3>3. InStep(s.k, s.cfg, s.users, R) => InStep(o.k, s.cfg, u, R \cap Members(u))
      BY <1>0, <2>4, RemoveInStep DEF u
    <3>4. Sound(o.k) /\ (~o.k.up => Members(s.k.users) # {} /\ Members(s.k.users) \subseteq Members(d))
      BY <1>0, <1>3, <2>4, RemoveOutcome DEF Launched, Swapped, Stopped, Sound
    <3>5. Known(s.k, s.users) => LeavesKnown(r, s) /\ Locked(r, s)
      BY <1>1, <3>1, <3>2, <3>4 DEF LeavesKnown, Locked
    <3> QED
      BY <3>1, <3>3, <3>4, <3>5
  <2>5. ASSUME NEW o \in UpdateUsers(s.k, u), o.ok, Ends(r, s.cfg, u, o.k)
        PROVE  /\ r \in Results /\ r.s.cfg = s.cfg /\ Sound(r.s.k) /\ r.s.k.up
               /\ Known(s.k, s.users) => LeavesKnown(r, s) /\ Locked(r, s)
    <3>1. r \in Results /\ r.s.cfg = s.cfg /\ r.s.k = o.k /\ r.s.users = u
      BY <2>5 DEF Ends
    <3>2. Known(s.k, s.users) => /\ Known(o.k, u)
                                 /\ \A i \in Members(s.users) \ Members(u) : i \notin Members(o.k.admits)
      BY <1>0, <1>1, <2>5, UpdateKnown
    <3>3. Sound(o.k) /\ o.k.up
      BY <1>0, <1>1, <2>5, UpdateOutcome DEF Launched, Swapped, Sound
    <3> QED
      BY <3>1, <3>2, <3>3 DEF LeavesKnown, Locked
  <2>6. CASE Ends(r, s.cfg, s.users, s.k) /\ r.failed
    BY <2>6 DEF Ends, LeavesKnown, Locked
  <2> QED
    BY <1>3, <2>3, <2>4, <2>5, <2>6
<1> QED
  BY <1>2, <1>3

\* The record without the users whose credential d replaces.
Base(users, d) == Subtract(users, Only(users, Rekeyed(users, d)))

LEMMA BaseFits ==
    ASSUME NEW u \in SpecLists, NEW d \in SpecLists
    PROVE  /\ Base(u, d) \in SpecLists
           /\ Members(Base(u, d)) = Members(u) \ Rekeyed(u, d)
           /\ Fits(Base(u, d), d)
           /\ Merge(Base(u, d), d) = Merge(u, d)
           /\ Members(Only(u, Rekeyed(u, d))) = Rekeyed(u, d)
           /\ Rekeyed(u, d) = {} => Base(u, d) = u
<1> DEFINE gone == Rekeyed(u, d)
           drop == Only(u, gone)
           b == Base(u, d)
<1>1. gone \subseteq Members(u) \cap Members(d)
  BY DEF Rekeyed
<1>2. drop \in SpecLists /\ Members(drop) = gone
  <2> HIDE DEF gone
  <2>1. drop \in SpecLists
    BY ListsTyped
  <2>2. Members(drop) = Members(u) \cap gone
    BY DEF Only, Members
  <2> QED
    BY <1>1, <2>1, <2>2
<1>3. b \in SpecLists /\ Members(b) = Members(u) \ gone
  BY <1>2, ListMembers, ListsTyped DEF Base
<1>4. \A i \in UserIds : b[i] = IF i \in gone THEN Absent ELSE u[i]
  <2>1. \A i \in UserIds : drop[i] # Absent <=> i \in gone
    BY <1>2 DEF Members
  <2>2. \A i \in UserIds : b[i] = IF drop[i] # Absent THEN Absent ELSE u[i]
    BY DEF Base, Subtract
  <2> QED
    BY <2>1, <2>2
<1> HIDE DEF b
<1>5. Fits(b, d)
  <2>1. SUFFICES ASSUME NEW i \in Members(b) \cap Members(d)
                 PROVE  UuidsOf(b)[i] = UuidsOf(d)[i]
    BY DEF Fits
  <2>2. i \in UserIds /\ i \notin gone /\ i \in Members(u) /\ i \in Members(d) /\ b[i] = u[i]
    BY <1>3, <1>4 DEF Members
  <2>3. UuidsOf(u)[i] = UuidsOf(d)[i]
    BY <2>2 DEF Rekeyed
  <2>4. UuidsOf(b)[i] = UuidsOf(u)[i]
    BY <2>2 DEF UuidsOf
  <2> QED
    BY <2>3, <2>4
<1>6. Merge(b, d) = Merge(u, d)
  <2>1. \A i \in UserIds : i \in gone => d[i] # Absent
    BY <1>1 DEF Members
  <2> QED
    BY <1>4, <2>1 DEF Merge
<1>7. gone = {} => b = u
  BY <1>3, <1>4 DEF SpecLists
<1> QED
  BY <1>2, <1>3, <1>5, <1>6, <1>7 DEF b

LEMMA DropKeeps ==
    ASSUME NEW s \in Nodes, NEW d \in SpecLists, s.k.up, NEW o \in DropReplaced(s, d), NEW R
    PROVE  /\ Sound(o.k) /\ o.ok \in BOOLEAN
           /\ Known(s.k, s.users) => Known(o.k, s.users)
           /\ o.ok /\ InStep(s.k, s.cfg, s.users, R) =>
                InStep(o.k, s.cfg, Base(s.users, d), R)
           /\ ~o.k.up => Members(s.k.users) # {} /\ Members(s.k.users) \subseteq Members(d)
<1> DEFINE drop == Only(s.users, Rekeyed(s.users, d))
<1>0. s.k \in Kernels /\ s.users \in SpecLists /\ Sound(s.k)
  BY DEF Nodes, Sound
<1>1. /\ Members(drop) = Rekeyed(s.users, d) /\ drop \in SpecLists
      /\ Members(Base(s.users, d)) = Members(s.users) \ Rekeyed(s.users, d)
      /\ Rekeyed(s.users, d) = {} => Base(s.users, d) = s.users
  BY <1>0, BaseFits, ListsTyped
<1>2. CASE Rekeyed(s.users, d) = {}
  <2>1. o = Done(s.k)
    BY <1>2 DEF DropReplaced
  <2> QED
    BY <2>1, <1>0, <1>1, <1>2 DEF Done
<1>3. CASE Rekeyed(s.users, d) # {}
  <2>1. o \in RemoveUsers(s.k, drop)
    BY <1>3 DEF DropReplaced
  <2>2. Rekeyed(s.users, d) \subseteq Members(d)
    BY DEF Rekeyed
  <2> HIDE DEF drop
  <2>3. /\ Sound(o.k) /\ (o.ok = TRUE \/ o.ok = FALSE) /\ (~o.ok => o.k = s.k)
        /\ ~o.k.up => Members(s.k.users) # {} /\ Members(s.k.users) \subseteq Members(drop)
    <3>1. o.ok = TRUE \/ o.ok = FALSE
      <4>1. s.k.cfg \in Cfgs /\ s.k.cert \in Nat /\ Subtract(s.k.users, drop) \in SpecLists
        BY <1>0, <1>1, ListsTyped DEF Kernels
      <4>2. CASE o \in Start(s.k, s.k.cfg, Subtract(s.k.users, drop), s.k.cert)
        BY <4>1, <4>2, StartOutcome
      <4>3. CASE o \in {Done(s.k), Done(Stop(s.k)), Failed(s.k),
                        Done(Recorded(Removed(s.k, Members(drop)), Subtract(s.k.users, drop)))}
        BY <4>3 DEF Done, Failed
      <4> QED
        BY <2>1, <4>2, <4>3 DEF RemoveUsers
    <3> QED
      BY <1>0, <1>1, <2>1, <3>1, RemoveOutcome DEF Launched, Swapped, Stopped, Sound
  <2>4. CASE o.ok
    <3>1. Known(s.k, s.users) =>
            /\ Known(o.k, Base(s.users, d))
            /\ \A i \in Members(s.users) \cap Members(drop) : i \notin Members(o.k.admits)
      BY <1>0, <1>1, <2>1, <2>4, RemoveKnown DEF Base, drop
    <3>2. Known(s.k, s.users) => Known(o.k, s.users)
      BY <3>1, <1>1 DEF Known
    <3>3. InStep(s.k, s.cfg, s.users, R) =>
            InStep(o.k, s.cfg, Base(s.users, d), R \cap Members(Base(s.users, d)))
      BY <1>0, <1>1, <2>1, <2>4, RemoveInStep DEF Base, drop
    <3>4. InStep(s.k, s.cfg, s.users, R) => InStep(o.k, s.cfg, Base(s.users, d), R)
      BY <3>3 DEF InStep
    <3> QED
      BY <1>1, <2>2, <2>3, <3>2, <3>4
  <2>5. CASE ~o.ok
    BY <2>3, <2>5, <1>0, <1>1, <2>2
  <2> QED
    BY <2>4, <2>5
<1> QED
  BY <1>2, <1>3

LEMMA AddHandled ==
    ASSUME NEW s \in Nodes, NEW d \in SpecLists, cert \in Nat, Sound(s.k), NEW r \in ApplyAdd(s, d), NEW R
    PROVE  /\ r \in Results /\ r.s.cfg = s.cfg /\ Sound(r.s.k)
           /\ Known(s.k, s.users) => Known(r.s.k, r.s.users)
           /\ InStep(s.k, s.cfg, s.users, R) /\ ~r.failed =>
                InStep(r.s.k, s.cfg, r.s.users, R \cap Members(r.s.users))
           /\ s.k.up /\ ~r.s.k.up => Members(s.k.users) # {} /\ Members(s.k.users) \subseteq Members(d)
<1> DEFINE merged == Merge(s.users, d)
           t(e, o) == [e.s EXCEPT !.k = o.k]
<1>0. s.k \in Kernels /\ s.users \in SpecLists /\ s.cfg \in Cfgs /\ merged \in SpecLists
  BY ListsTyped DEF Nodes
<1>1. PICK e \in EnsureRunning(s) :
        r \in IF ~e.ok THEN {e}
              ELSE UNION {{[q EXCEPT !.failed = @ \/ ~o.ok] :
                             q \in FinishDelta(t(e, o), merged, AddUsers(o.k, d))} :
                            o \in DropReplaced(e.s, d)}
  BY DEF ApplyAdd
<1>2. /\ e \in Results /\ e.s.cfg = s.cfg /\ e.s.users = s.users /\ Sound(e.s.k)
      /\ s.k.up => e.s.k = s.k
      /\ e.ok => e.s.k.up /\ ~e.failed
      /\ ~e.ok => e.s.k = s.k /\ ~s.k.up
      /\ Known(s.k, s.users) => Known(e.s.k, s.users)
      /\ InStep(s.k, s.cfg, s.users, R) => InStep(e.s.k, s.cfg, s.users, R)
  BY EnsureKeeps
<1>3. CASE ~e.ok
  BY <1>1, <1>2, <1>3 DEF InStep
<1>4. CASE e.ok
  <2>1. PICK o \in DropReplaced(e.s, d) :
          \E q \in FinishDelta(t(e, o), merged, AddUsers(o.k, d)) : r = [q EXCEPT !.failed = @ \/ ~o.ok]
    <3> HIDE DEF t, merged
    <3> QED
      BY <1>1, <1>4
  <2>2. PICK q \in FinishDelta(t(e, o), merged, AddUsers(o.k, d)) : r = [q EXCEPT !.failed = @ \/ ~o.ok]
    BY <2>1
  <2>3. e.s \in Nodes /\ e.s.k.up
    BY <1>2, <1>4 DEF Results
  <2>4. /\ Sound(o.k) /\ o.ok \in BOOLEAN
        /\ Known(e.s.k, s.users) => Known(o.k, s.users)
        /\ o.ok /\ InStep(e.s.k, s.cfg, s.users, R) => InStep(o.k, s.cfg, Base(s.users, d), R)
        /\ ~o.k.up => Members(e.s.k.users) # {} /\ Members(e.s.k.users) \subseteq Members(d)
    BY <1>2, <2>3, DropKeeps
  <2>5. o.k \in Kernels
    BY <2>4 DEF Sound
  <2> DEFINE w == t(e, o)
  <2>6. w \in Nodes /\ w.cfg = s.cfg /\ w.users = s.users /\ w.k = o.k
    BY <1>2, <2>3, <2>5 DEF Nodes
  <2> HIDE DEF t
  <2>7. q \in FinishDelta(w, merged, AddUsers(o.k, d))
    OBVIOUS
  <2> HIDE DEF w, merged
  <2>8. \A p \in AddUsers(o.k, d) : p.k \in Kernels /\ (~p.ok => p.k = w.k)
    BY <2>5, <2>6, AddOutcome DEF Launched, Swapped
  <2>9. \/ \E p \in AddUsers(o.k, d) : p.ok /\ Ends(q, w.cfg, merged, p.k) /\ ~q.failed
        \/ \E p \in UpdateUsers(w.k, merged) : p.ok /\ Ends(q, w.cfg, merged, p.k) /\ (w.k.up => q.failed)
        \/ Ends(q, w.cfg, w.users, w.k) /\ (w.k.up => q.failed)
    BY <1>0, <2>6, <2>7, <2>8, DeltaResult
  <2>10. q \in Results
    BY <2>9 DEF Ends
  <2>11. r \in Results /\ r.s = q.s /\ (~r.failed => ~q.failed /\ o.ok)
    <3>1. (~o.ok) \in BOOLEAN
      OBVIOUS
    <3>2. r \in Results /\ r.s = q.s /\ r.failed = (q.failed \/ ~o.ok)
      BY <2>2, <2>10, <3>1, MarkTyped
    <3> QED
      BY <3>2
  <2>12. /\ Fits(Base(s.users, d), d) /\ Base(s.users, d) \in SpecLists
         /\ Merge(Base(s.users, d), d) = merged
    BY <1>0, BaseFits DEF merged
  <2>13. ASSUME NEW p \in AddUsers(o.k, d), p.ok, Ends(q, w.cfg, merged, p.k), ~q.failed
         PROVE  /\ Sound(q.s.k) /\ q.s.k.up /\ q.s.cfg = s.cfg
                /\ Known(o.k, s.users) => Known(q.s.k, q.s.users)
                /\ InStep(o.k, s.cfg, Base(s.users, d), R) =>
                     InStep(q.s.k, s.cfg, q.s.users, R \cap Members(q.s.users))
    <3>1. q.s.k = p.k /\ q.s.users = merged /\ q.s.cfg = s.cfg
      BY <2>6, <2>13 DEF Ends
    <3>2. Sound(p.k) /\ p.k.up
      BY <2>5, <2>13, AddOutcome DEF Launched, Swapped, Sound
    <3>3. Known(o.k, s.users) => Known(p.k, merged)
      BY <1>0, <2>5, <2>13, AddKnown DEF merged
    <3>4. InStep(o.k, s.cfg, Base(s.users, d), R) => InStep(p.k, s.cfg, merged, R \cap Members(merged))
      BY <2>5, <2>12, <2>13, AddInStep
    <3> QED
      BY <3>1, <3>2, <3>3, <3>4
  <2>14. ASSUME NEW p \in UpdateUsers(w.k, merged), p.ok, Ends(q, w.cfg, merged, p.k), w.k.up => q.failed
         PROVE  /\ Sound(q.s.k) /\ q.s.k.up /\ q.s.cfg = s.cfg /\ q.failed
                /\ Known(o.k, s.users) => Known(q.s.k, q.s.users)
    <3>1. q.s.k = p.k /\ q.s.users = merged /\ q.s.cfg = s.cfg
      BY <2>6, <2>14 DEF Ends
    <3>2. Sound(p.k) /\ p.k.up /\ w.k.up
      BY <1>0, <2>5, <2>6, <2>14, UpdateOutcome DEF Launched, Swapped, Sound
    <3>3. Known(o.k, s.users) => Known(p.k, merged)
      BY <1>0, <2>5, <2>6, <2>14, UpdateKnown
    <3> QED
      BY <2>14, <3>1, <3>2, <3>3
  <2>15. ASSUME Ends(q, w.cfg, w.users, w.k), w.k.up => q.failed
         PROVE  /\ Sound(q.s.k) /\ q.s.cfg = s.cfg /\ q.s.k = o.k
                /\ Known(o.k, s.users) => Known(q.s.k, q.s.users)
                /\ ~q.failed => InStep(q.s.k, s.cfg, q.s.users, R \cap Members(q.s.users))
    BY <2>4, <2>6, <2>15 DEF Ends, InStep
  <2>16. /\ Sound(q.s.k) /\ q.s.cfg = s.cfg
         /\ ~q.s.k.up => ~o.k.up
         /\ Known(o.k, s.users) => Known(q.s.k, q.s.users)
         /\ InStep(o.k, s.cfg, Base(s.users, d), R) /\ ~q.failed =>
              InStep(q.s.k, s.cfg, q.s.users, R \cap Members(q.s.users))
    BY <2>9, <2>13, <2>14, <2>15
  <2> QED
    BY <1>2, <2>4, <2>11, <2>16
<1> QED
  BY <1>3, <1>4

\* A configuration the instance does not have yet.
LEMMA ConfigHandled ==
    ASSUME NEW s \in Nodes, cert \in Nat, Sound(s.k), s.cfg \in Configs, NEW r \in ApplyConfig(s),
           NEW cfg, NEW old, NEW R
    PROVE  /\ r \in Results /\ r.s.cfg = s.cfg /\ r.s.users = s.users /\ Sound(r.s.k)
           /\ InStep(s.k, cfg, old, R) /\ (s.cfg # cfg \/ cert # s.k.cert) /\ ~r.failed =>
                InStep(r.s.k, s.cfg, s.users, {})
           /\ (StartFails /\ r.failed => Members(s.k.admits) \subseteq Members(s.k.users)) =>
                Known(r.s.k, s.users)
           /\ s.k.up /\ ~r.s.k.up => s.users = NoUsers
<1>0. s.k \in Kernels /\ s.users \in SpecLists /\ Members(NoUsers) = {} /\ s.cfg # NoCfg
  BY ConfigsArePositive DEF Nodes, Members, NoUsers
<1>1. r \in Results /\ r.s.cfg = s.cfg /\ r.s.users = s.users
  BY ConfigResult
<1>2. r.s.k \in Kernels
  BY <1>1 DEF Results, Nodes
<1>3. CASE s.users = NoUsers /\ ~r.failed /\ Stopped(r.s.k, s.k)
  BY <1>0, <1>1, <1>3 DEF Stopped, Sound, Known, InStep
<1>4. CASE ~r.failed /\ ~s.k.up /\ r.s.k = s.k
  BY <1>0, <1>1, <1>4 DEF Sound, Known, InStep
<1>5. CASE Launched(r.s.k, s.cfg, s.users, cert)
  <2>1. Sound(r.s.k) /\ InStep(r.s.k, s.cfg, s.users, {}) /\ Members(r.s.k.admits) = Members(s.users)
    BY <1>0, <1>5, LaunchedInStep
  <2> QED
    BY <1>1, <1>5, <2>1 DEF Launched, Known
<1>6. CASE /\ ~r.failed /\ s.k.hash[1] = s.cfg /\ s.k.cert = cert
           /\ s.k.up /\ r.s.k.up /\ r.s.k.admits = s.k.admits /\ r.s.k.users = s.users
  <2>1. Sound(r.s.k) /\ Known(r.s.k, s.users)
    BY <1>2, <1>6 DEF Sound, Known
  <2>2. InStep(s.k, cfg, old, R) /\ (s.cfg # cfg \/ cert # s.k.cert) => ~s.k.up
    BY <1>6 DEF InStep
  <2> QED
    BY <1>1, <1>6, <2>1, <2>2
<1>7. CASE /\ r.failed /\ StartFails /\ r.s.k.up = s.k.up
           /\ r.s.k.admits = s.k.admits /\ r.s.k.users = s.k.users
  <2>1. Sound(r.s.k)
    BY <1>2, <1>7 DEF Sound
  <2>2. (StartFails /\ r.failed => Members(s.k.admits) \subseteq Members(s.k.users)) => Known(r.s.k, s.users)
    BY <1>7 DEF Known
  <2> QED
    BY <1>1, <1>7, <2>1, <2>2
<1> QED
  BY <1>0, <1>3, <1>4, <1>5, <1>6, <1>7, ConfigResult

-----------------------------------------------------------------------------
(* The invariants *)

\* The record, the kernel and the counters have their types, a kernel that is
\* down admits nobody.
XrayTypeOK ==
    /\ node \in Nodes /\ Sound(node.k)
    /\ cert \in Nat
    /\ failures \in Nat /\ failures <= MaxFailures

\* AccountsInStep with what it rests on: the kernel believes what the service
\* records, and lastKernelHash is of the configuration.
Agreement == failures = 0 => InStep(node.k, node.cfg, node.users, rekeyed)

\* What RevokedAtOnce rests on.
AllKnown == Known(node.k, node.users)

\* The users a step adds to rekeyed.
LEMMA HandleStep ==
    ASSUME XrayTypeOK, NEW what, NEW results, NEW r \in results, r \in Results, Sound(r.s.k),
           node' = r.s, failures' = (IF r.failed THEN failures + 1 ELSE failures),
           failures' <= MaxFailures, UNCHANGED cert
    PROVE  /\ XrayTypeOK'
           /\ failures' = 0 => failures = 0 /\ ~r.failed
           /\ r.failed /\ MaxFailures <= 1 => failures = 0
<1>1. r.s \in Nodes
  BY DEF Results
<1>2. failures' \in Nat
  BY DEF XrayTypeOK
<1>3. failures' = 0 => failures = 0 /\ ~r.failed
  BY DEF XrayTypeOK
<1>4. r.failed /\ MaxFailures <= 1 => failures = 0
  BY BoundsAreNatural DEF XrayTypeOK
<1> QED
  BY <1>1, <1>2, <1>3, <1>4 DEF XrayTypeOK

LEMMA InitHolds ==
    ASSUME XrayInit
    PROVE  XrayTypeOK /\ Agreement /\ AllKnown
<1>1. New \in Kernels /\ ~New.up /\ New.admits = NoUsers
  BY NoUsersTyped DEF New, Kernels, Cfgs
<1>2. node \in Nodes /\ node.k = New
  BY <1>1, NoUsersTyped DEF XrayInit, Nodes, Cfgs
<1>3. Members(NoUsers) = {}
  BY DEF Members, NoUsers
<1> QED
  BY <1>1, <1>2, <1>3, BoundsAreNatural
  DEF XrayInit, XrayTypeOK, Agreement, AllKnown, Sound, InStep, Known

\* A delta of one user.
LEMMA OneUser ==
    ASSUME NEW i \in UserIds, NEW spec \in Specs
    PROVE  [NoUsers EXCEPT ![i] = spec] \in SpecLists /\ Members([NoUsers EXCEPT ![i] = spec]) \subseteq {i}
  BY DEF NoUsers, SpecLists, Members

\* What an instance that is not told anew knows, once its accounts agree.
LEMMA AgreedKnown ==
    ASSUME NEW k, Sound(k), NEW cfg, NEW users, NEW R, InStep(k, cfg, users, R)
    PROVE  Members(k.admits) \subseteq Members(k.users)
  BY DEF Sound, InStep, Members, NoUsers

\* What every step keeps: Agreement if a pull never brings what is running, the
\* users known if no instance fails to start on top of a failure.
LEMMA UsersStep ==
    ASSUME XrayTypeOK, SyncUsers
    PROVE  /\ XrayTypeOK'
           /\ Agreement => Agreement'
           /\ AllKnown => AllKnown' /\ \A i \in Members(node.users) \ Members(node'.users) :
                                          i \notin Members(node'.k.admits)
           /\ node.k.up => node'.k.up
<1>1. PICK users \in SpecLists : Handle("users", ApplyUsers(node, users))
  BY DEF SyncUsers
<1>2. PICK r \in ApplyUsers(node, users) :
        /\ node' = r.s
        /\ failures' = IF r.failed THEN failures + 1 ELSE failures
        /\ failures' <= MaxFailures
        /\ rekeyed' = (rekeyed \cup (IF node.cfg \in Managed THEN Rekeyed(node.users, r.s.users) ELSE {}))
                         \cap Members(r.s.users)
        /\ UNCHANGED cert
  BY <1>1 DEF Handle
<1>3. node \in Nodes /\ cert \in Nat /\ Sound(node.k)
  BY DEF XrayTypeOK
<1>4. /\ r \in Results /\ r.s.cfg = node.cfg /\ Sound(r.s.k)
      /\ Known(node.k, node.users) => LeavesKnown(r, node) /\ Locked(r, node)
      /\ InStep(node.k, node.cfg, node.users, rekeyed) /\ ~r.failed =>
           InStep(r.s.k, node.cfg, r.s.users,
                  (rekeyed \cup Blind(node.cfg, node.users, r.s.users)) \cap Members(r.s.users))
      /\ node.k.up => r.s.k.up
  BY <1>3, UsersHandled
<1>5. XrayTypeOK' /\ (failures' = 0 => failures = 0 /\ ~r.failed)
  BY <1>2, <1>4, HandleStep
<1>6. Agreement => Agreement'
  BY <1>2, <1>4, <1>5 DEF Agreement, Blind
<1> QED
  BY <1>2, <1>4, <1>5, <1>6 DEF AllKnown, LeavesKnown, Locked

LEMMA AddStep ==
    ASSUME XrayTypeOK, DeltaAdd
    PROVE  /\ XrayTypeOK'
           /\ Agreement => Agreement'
           /\ AllKnown => AllKnown'
           /\ node.k.up /\ ~node'.k.up => \E i \in UserIds : Members(node.k.users) = {i}
<1>1. PICK i \in UserIds, spec \in Specs :
        Handle("add", ApplyAdd(node, [NoUsers EXCEPT ![i] = spec]))
  BY DEF DeltaAdd
<1> DEFINE d == [NoUsers EXCEPT ![i] = spec]
<1>2. PICK r \in ApplyAdd(node, d) :
        /\ node' = r.s
        /\ failures' = IF r.failed THEN failures + 1 ELSE failures
        /\ failures' <= MaxFailures
        /\ rekeyed' = rekeyed \cap Members(r.s.users)
        /\ UNCHANGED cert
  BY <1>1 DEF Handle
<1>3. node \in Nodes /\ cert \in Nat /\ Sound(node.k) /\ d \in SpecLists /\ Members(d) \subseteq {i}
  BY OneUser DEF XrayTypeOK
<1> HIDE DEF d
<1>4. /\ r \in Results /\ r.s.cfg = node.cfg /\ Sound(r.s.k)
      /\ Known(node.k, node.users) => Known(r.s.k, r.s.users)
      /\ InStep(node.k, node.cfg, node.users, rekeyed) /\ ~r.failed =>
           InStep(r.s.k, node.cfg, r.s.users, rekeyed \cap Members(r.s.users))
      /\ node.k.up /\ ~r.s.k.up =>
           Members(node.k.users) # {} /\ Members(node.k.users) \subseteq Members(d)
  BY <1>3, AddHandled
<1>5. XrayTypeOK' /\ (failures' = 0 => failures = 0 /\ ~r.failed)
  BY <1>2, <1>4, HandleStep
<1>6. Agreement => Agreement'
  BY <1>2, <1>4, <1>5 DEF Agreement
<1>7. node.k.up /\ ~node'.k.up => Members(node.k.users) = {i}
  BY <1>2, <1>3, <1>4
<1> QED
  BY <1>2, <1>4, <1>5, <1>6, <1>7 DEF AllKnown

LEMMA RemoveStep ==
    ASSUME XrayTypeOK, DeltaRemove
    PROVE  /\ XrayTypeOK'
           /\ Agreement => Agreement'
           /\ AllKnown => AllKnown' /\ \A i \in Members(node.users) \ Members(node'.users) :
                                          i \notin Members(node'.k.admits)
           /\ node.k.up /\ ~node'.k.up => \E i \in UserIds : Members(node.k.users) = {i}
<1>1. PICK i \in UserIds, spec \in Specs :
        Handle("remove", ApplyRemove(node, [NoUsers EXCEPT ![i] = spec]))
  BY DEF DeltaRemove
<1> DEFINE d == [NoUsers EXCEPT ![i] = spec]
<1>2. PICK r \in ApplyRemove(node, d) :
        /\ node' = r.s
        /\ failures' = IF r.failed THEN failures + 1 ELSE failures
        /\ failures' <= MaxFailures
        /\ rekeyed' = rekeyed \cap Members(r.s.users)
        /\ UNCHANGED cert
  BY <1>1 DEF Handle
<1>3. node \in Nodes /\ cert \in Nat /\ Sound(node.k) /\ d \in SpecLists /\ Members(d) \subseteq {i}
  BY OneUser DEF XrayTypeOK
<1> HIDE DEF d
<1>4. /\ r \in Results /\ r.s.cfg = node.cfg /\ Sound(r.s.k)
      /\ Known(node.k, node.users) => LeavesKnown(r, node) /\ Locked(r, node)
      /\ InStep(node.k, node.cfg, node.users, rekeyed) /\ ~r.failed =>
           InStep(r.s.k, node.cfg, r.s.users, rekeyed \cap Members(r.s.users))
      /\ node.k.up /\ ~r.s.k.up =>
           Members(node.k.users) # {} /\ Members(node.k.users) \subseteq Members(d)
  BY <1>3, RemoveHandled
<1>5. XrayTypeOK' /\ (failures' = 0 => failures = 0 /\ ~r.failed)
  BY <1>2, <1>4, HandleStep
<1>6. Agreement => Agreement'
  BY <1>2, <1>4, <1>5 DEF Agreement
<1>7. node.k.up /\ ~node'.k.up => Members(node.k.users) = {i}
  BY <1>2, <1>3, <1>4
<1> QED
  BY <1>2, <1>4, <1>5, <1>6, <1>7 DEF AllKnown, LeavesKnown, Locked

\* A configuration, alone or with users; t is the record when it is applied.
LEMMA ConfigStep ==
    ASSUME XrayTypeOK, NEW what \in {"config", "pull"}, NEW cfg \in Configs, NEW users \in SpecLists,
           NEW t \in Nodes, t.cfg = cfg, t.users = users, t.k = node.k,
           Handle(what, ApplyConfig(t))
    PROVE  /\ XrayTypeOK'
           /\ Agreement /\ (cfg # node.cfg \/ cert # node.k.cert) => Agreement'
           /\ AllKnown /\ (~StartFails \/ (Agreement /\ MaxFailures <= 1)) => AllKnown'
           /\ node.k.up /\ ~node'.k.up => node'.users = NoUsers
<1>2. PICK r \in ApplyConfig(t) :
        /\ node' = r.s
        /\ failures' = IF r.failed THEN failures + 1 ELSE failures
        /\ failures' <= MaxFailures
        /\ rekeyed' = {}
        /\ UNCHANGED cert
  BY DEF Handle
<1>3. cert \in Nat /\ Sound(t.k) /\ t.cfg \in Configs
  BY DEF XrayTypeOK
<1>4. /\ r \in Results /\ r.s.cfg = cfg /\ r.s.users = users /\ Sound(r.s.k)
      /\ InStep(node.k, node.cfg, node.users, rekeyed) /\ (cfg # node.cfg \/ cert # node.k.cert) /\ ~r.failed =>
           InStep(r.s.k, cfg, users, {})
      /\ (StartFails /\ r.failed => Members(node.k.admits) \subseteq Members(node.k.users)) =>
           Known(r.s.k, users)
      /\ node.k.up /\ ~r.s.k.up => users = NoUsers
  BY <1>3, ConfigHandled
<1>5. /\ XrayTypeOK' /\ (failures' = 0 => failures = 0 /\ ~r.failed)
      /\ r.failed /\ MaxFailures <= 1 => failures = 0
  BY <1>2, <1>4, HandleStep
<1>6. Agreement /\ (cfg # node.cfg \/ cert # node.k.cert) => Agreement'
  BY <1>2, <1>4, <1>5 DEF Agreement
<1>7. AllKnown /\ (~StartFails \/ (Agreement /\ MaxFailures <= 1)) => AllKnown'
  <2>1. Agreement /\ MaxFailures <= 1 /\ r.failed => Members(node.k.admits) \subseteq Members(node.k.users)
    BY <1>5, AgreedKnown DEF Agreement, XrayTypeOK
  <2> QED
    BY <1>2, <1>4, <2>1 DEF AllKnown
<1> QED
  BY <1>2, <1>4, <1>5, <1>6, <1>7

\* Both ways a configuration comes.
LEMMA ConfigsStep ==
    ASSUME XrayTypeOK, SyncConfig \/ ApplyPull
    PROVE  /\ XrayTypeOK'
           /\ Agreement /\ ~Overtaken => Agreement'
           /\ AllKnown /\ (~StartFails \/ (Agreement /\ MaxFailures <= 1)) => AllKnown'
           /\ node.k.up /\ ~node'.k.up => node'.users = NoUsers
<1>0. node \in Nodes /\ node.users \in SpecLists
  BY DEF XrayTypeOK, Nodes
<1>1. CASE SyncConfig
  <2>1. PICK cfg \in Configs \ {node.cfg} : Handle("config", ApplyConfig([node EXCEPT !.cfg = cfg]))
    BY <1>1 DEF SyncConfig
  <2> DEFINE t == [node EXCEPT !.cfg = cfg]
  <2>2. t \in Nodes /\ t.cfg = cfg /\ t.users = node.users /\ t.k = node.k
    BY <1>0 DEF Nodes, Cfgs
  <2>3. Handle("config", ApplyConfig(t))
    BY <2>1
  <2> HIDE DEF t
  <2> QED
    BY <1>0, <2>1, <2>2, <2>3, ConfigStep
<1>2. CASE ApplyPull
  <2>1. PICK cfg \in Configs, users \in SpecLists :
          /\ Overtaken \/ cfg # node.cfg \/ cert # node.k.cert
          /\ Handle("pull", ApplyConfig([node EXCEPT !.cfg = cfg, !.users = users]))
    BY <1>2 DEF ApplyPull
  <2> DEFINE t == [node EXCEPT !.cfg = cfg, !.users = users]
  <2>2. t \in Nodes /\ t.cfg = cfg /\ t.users = users /\ t.k = node.k
    BY <1>0 DEF Nodes, Cfgs
  <2>3. Handle("pull", ApplyConfig(t))
    BY <2>1
  <2> HIDE DEF t
  <2> QED
    BY <2>1, <2>2, <2>3, ConfigStep
<1> QED
  BY <1>1, <1>2

LEMMA RenewalStep ==
    ASSUME XrayTypeOK, Renewal \/ UNCHANGED xrayVars
    PROVE  /\ XrayTypeOK' /\ UNCHANGED <<node, rekeyed, failures>>
           /\ Agreement => Agreement'
           /\ AllKnown => AllKnown'
<1>1. UNCHANGED <<node, rekeyed, failures>> /\ cert' \in Nat
  BY DEF Renewal, xrayVars, XrayTypeOK
<1> QED
  BY <1>1 DEF XrayTypeOK, Agreement, AllKnown

LEMMA Typed1 ==
    ASSUME XrayTypeOK, [XrayNext]_xrayVars
    PROVE  XrayTypeOK'
  BY UsersStep, AddStep, RemoveStep, ConfigsStep, RenewalStep DEF XrayNext

LEMMA Agreed1 ==
    ASSUME XrayTypeOK, Agreement, ~Overtaken, [XrayNext]_xrayVars
    PROVE  Agreement'
  BY UsersStep, AddStep, RemoveStep, ConfigsStep, RenewalStep DEF XrayNext

LEMMA Known1 ==
    ASSUME XrayTypeOK, AllKnown, ~StartFails \/ (Agreement /\ MaxFailures <= 1), [XrayNext]_xrayVars
    PROVE  AllKnown'
  BY UsersStep, AddStep, RemoveStep, ConfigsStep, RenewalStep DEF XrayNext

LEMMA AgreementInStep == Agreement => AccountsInStep
  BY DEF Agreement, AccountsInStep, InStep

-----------------------------------------------------------------------------
(* Theorems *)

\* The service's record and the kernel keep their types, and a kernel that is
\* stopped has no accounts.
THEOREM XrayTypeCorrect == XraySpec => []XrayTypeOK
<1>1. XrayInit => XrayTypeOK
  BY InitHolds
<1>2. XrayTypeOK /\ [XrayNext]_xrayVars => XrayTypeOK'
  BY Typed1
<1> QED
  BY <1>1, <1>2, PTL DEF XraySpec

\* Unless pulls bring what events have brought before, a running instance that
\* never failed to start has exactly the accounts, credentials and limits of
\* the service's record, but for the credentials a whole list changed.
THEOREM AccountsAgree ==
    ASSUME ~Overtaken
    PROVE  XraySpec => []AccountsInStep
<1>1. XrayInit => XrayTypeOK /\ Agreement
  BY InitHolds
<1>2. XrayTypeOK /\ Agreement /\ [XrayNext]_xrayVars => (XrayTypeOK /\ Agreement)'
  BY Typed1, Agreed1
<1> QED
  BY <1>1, <1>2, AgreementInStep, PTL DEF XraySpec

\* Whoever a list or a delta takes off the record loses the account in that
\* step, if instances always start, or if at most one does not and pulls bring
\* nothing that events have brought before.
THEOREM RevocationImmediate ==
    ASSUME ~StartFails \/ (~Overtaken /\ MaxFailures <= 1)
    PROVE  XraySpec => RevokedAtOnce
<1> DEFINE Inv == XrayTypeOK /\ AllKnown /\ (~Overtaken => Agreement)
           Revoked == handled' \in {"users", "remove"} =>
                         \A i \in Members(node.users) \ Members(node'.users) :
                             i \notin Members(node'.k.admits)
<1>1. XrayInit => Inv
  BY InitHolds
<1>2. Inv /\ [XrayNext]_xrayVars => Inv'
  BY Typed1, Agreed1, Known1
<1>3. Inv /\ [XrayNext]_xrayVars => [Revoked]_xrayVars
  <2> SUFFICES ASSUME Inv, XrayNext
               PROVE  Revoked
    OBVIOUS
  <2>1. CASE SyncUsers
    BY <2>1, UsersStep
  <2>2. CASE DeltaRemove
    BY <2>2, RemoveStep
  <2>3. CASE DeltaAdd
    BY <2>3 DEF DeltaAdd, Handle
  <2>4. CASE SyncConfig
    BY <2>4 DEF SyncConfig, Handle
  <2>5. CASE ApplyPull
    BY <2>5 DEF ApplyPull, Handle
  <2>6. CASE Renewal
    BY <2>6 DEF Renewal
  <2> QED
    BY <2>1, <2>2, <2>3, <2>4, <2>5, <2>6 DEF XrayNext
<1>4. Inv /\ XrayInit /\ [][XrayNext]_xrayVars => [][Revoked]_xrayVars
  <2> HIDE DEF Inv, Revoked
  <2> QED
    BY <1>2, <1>3, PTL
<1> QED
  BY <1>1, <1>4, PTL DEF XraySpec, RevokedAtOnce

\* A running kernel goes down only when the last user leaves, whatever fails
\* to start and however often.
THEOREM OutagesExplained == XraySpec => StaysUp
<1> DEFINE Explained == node.k.up /\ ~node'.k.up =>
                          \/ node'.users = NoUsers
                          \/ /\ handled' \in {"add", "remove"}
                             /\ \E i \in UserIds : Members(node.k.users) = {i}
<1>1. XrayTypeOK /\ [XrayNext]_xrayVars => [Explained]_xrayVars
  <2> SUFFICES ASSUME XrayTypeOK, XrayNext
               PROVE  Explained
    OBVIOUS
  <2>1. CASE SyncUsers
    BY <2>1, UsersStep
  <2>2. CASE DeltaRemove
    <3>1. handled' = "remove"
      BY <2>2 DEF DeltaRemove, Handle
    <3> QED
      BY <2>2, <3>1, RemoveStep
  <2>3. CASE DeltaAdd
    <3>1. handled' = "add"
      BY <2>3 DEF DeltaAdd, Handle
    <3> QED
      BY <2>3, <3>1, AddStep
  <2>4. CASE SyncConfig \/ ApplyPull
    BY <2>4, ConfigsStep
  <2>5. CASE Renewal
    BY <2>5, RenewalStep
  <2> QED
    BY <2>1, <2>2, <2>3, <2>4, <2>5 DEF XrayNext
<1> HIDE DEF Explained
<1>2. []XrayTypeOK /\ [][XrayNext]_xrayVars => [][Explained]_xrayVars
  BY <1>1, PTL
<1> QED
  BY <1>2, XrayTypeCorrect, PTL DEF XraySpec, StaysUp, Explained
=============================================================================
