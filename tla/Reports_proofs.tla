---------------------------- MODULE Reports_proofs ----------------------------
(***************************************************************************)
(* What holds of the traffic accounting for every set of users and every   *)
(* bound, alone and with the devices the reports carry.  The results about *)
(* traffic are about sums over four places a unit of it can be in;         *)
(* NothingInvented and Ledger name the sums that every step keeps.         *)
(***************************************************************************)
EXTENDS Reports, TLAPS

\* Outside a report that is under way, the goroutine holds no traffic.
PayloadTaken == push.stage \in {"idle", "exit"} => push.payload = Nothing

\* While the first kernel runs, its counters have not gone back.
CountersAhead ==
    restarts = 0 => \A u \in Users : lastSeen[u] <= cum[u]

\* The inductive form of AccountedOnce.
Ledger == PayloadTaken /\ CountersAhead /\ AccountedOnce

\* The inductive form of NeverOvercharged: also what is still to be added to
\* the pending traffic, pending, or taken by a report has been carried.
NothingInvented ==
    \A u \in Users :
        billed[u] + pending[u] + push.payload[u] + final[u] + Delta(u)
            <= served[u] + doubled[u]

-----------------------------------------------------------------------------
(* Types *)

\* Sums of amounts are amounts, and the sum is taken user by user.
LEMMA PlusAmounts ==
    ASSUME NEW f \in Amounts, NEW g \in Amounts
    PROVE  /\ Plus(f, g) \in Amounts
           /\ \A u \in Users : Plus(f, g)[u] = f[u] + g[u]
BY DEF Plus, Amounts

\* Nobody owes anything in Nothing.
LEMMA NothingIsZero == Nothing \in Amounts /\ \A u \in Users : Nothing[u] = 0
BY DEF Nothing, Amounts

\* What Process adds for a user is a natural number.
LEMMA DeltaIsNat ==
    ASSUME TypeOK, NEW u \in Users
    PROVE  Delta(u) \in Nat
BY DEF TypeOK, Amounts, Delta

\* A failed call leaves a number of ticks to skip.
LEMMA BackoffIsNat == ASSUME NEW n \in Nat PROVE OnFailure(n) \in Nat
BY DEF OnFailure

\* The types hold initially.
LEMMA InitType == Init => TypeOK
BY NothingIsZero DEF Init, TypeOK, Idle, Stages

\* What the panel does with a report keeps the types of what it records.
LEMMA PanelType ==
    ASSUME TypeOK, NEW t \in Amounts, Received(t) \/ AnswerLost(t) \/ RequestLost
    PROVE  billed' \in Amounts /\ doubled' \in Amounts /\ faults' \in Nat
BY PlusAmounts DEF TypeOK, Received, AnswerLost, RequestLost

\* Every step keeps the types.
LEMMA TypeStep == TypeOK /\ [Next]_vars => TypeOK'
<1> SUFFICES ASSUME TypeOK, [Next]_vars PROVE TypeOK'
    OBVIOUS
<1> USE DEF TypeOK, kernelVars, trackerVars, panelVars
<1>1. CASE \E u \in Users : Serve(u)
    BY <1>1 DEF Serve, Amounts
<1>2. CASE StartKernel
    BY <1>2, NothingIsZero DEF StartKernel
<1>3. CASE StopKernel
    <2>1. restarts' \in Nat
        BY <1>3, SMT DEF StopKernel
    <2>2. up' \in BOOLEAN
        BY <1>3, Zenon DEF StopKernel
    <2> QED BY <1>3, <2>1, <2>2 DEF StopKernel
<1>4. CASE TrackTick
    <2>1. pending' \in Amounts
        BY <1>4, DeltaIsNat DEF TrackTick, Amounts
    <2>2. lastSeen' \in Amounts
        BY <1>4 DEF TrackTick, Amounts
    <2> QED BY <1>4, <2>1, <2>2 DEF TrackTick
<1>5. CASE PushTick
    BY <1>5, NothingIsZero DEF PushTick, Stages
<1>6. CASE Report
    <2>1. billed' \in Amounts /\ doubled' \in Amounts /\ faults' \in Nat
        BY <1>6, PanelType DEF Report, Reported, ReportFails
    <2>2. push' \in [stage : Stages, payload : Amounts] /\ backoff' \in Nat
        BY <1>6, NothingIsZero DEF Report, Reported, ReportFails, Stages
    <2> QED BY <1>6, <2>1, <2>2 DEF Report
<1>7. CASE Restore
    BY <1>7, NothingIsZero, PlusAmounts, BackoffIsNat DEF Restore, Stages
<1>8. CASE Exit
    BY <1>8, NothingIsZero DEF Exit, Idle, Stages
<1>9. CASE Shutdown
    BY <1>9, NothingIsZero DEF Shutdown
<1>10. CASE FinalReport
    <2>1. billed' \in Amounts /\ doubled' \in Amounts /\ faults' \in Nat
        BY <1>10, PanelType DEF FinalReport
    <2> QED BY <1>10, <2>1, NothingIsZero DEF FinalReport
<1>11. CASE ProcessExits
    BY <1>11 DEF ProcessExits
<1>12. CASE UNCHANGED vars
    BY <1>12 DEF vars
<1> QED
    BY <1>1, <1>2, <1>3, <1>4, <1>5, <1>6, <1>7, <1>8, <1>9, <1>10, <1>11, <1>12 DEF Next

\* In every reachable state, every variable has the type its field has in the
\* code; in particular no delta is ever negative.
THEOREM TypeCorrect == Spec => []TypeOK
<1> QED BY InitType, TypeStep, PTL DEF Spec

-----------------------------------------------------------------------------
(* Nobody is overcharged *)

\* Nothing has been invented initially.
LEMMA InitInvented == Init => NothingInvented
BY NothingIsZero DEF Init, NothingInvented, Idle, Delta

\* No step charges, restores or adds to the pending traffic what was not carried.
LEMMA InventedStep == TypeOK /\ NothingInvented /\ [Next]_vars => NothingInvented'
<1> SUFFICES ASSUME TypeOK, NothingInvented, [Next]_vars, NEW u \in Users
             PROVE  (billed[u] + pending[u] + push.payload[u] + final[u] + Delta(u)
                        <= served[u] + doubled[u])'
    BY DEF NothingInvented
<1>a. billed[u] + pending[u] + push.payload[u] + final[u] + Delta(u) <= served[u] + doubled[u]
    BY DEF NothingInvented
<1>b. /\ cum[u] \in Nat /\ lastSeen[u] \in Nat /\ pending[u] \in Nat /\ final[u] \in Nat
      /\ billed[u] \in Nat /\ served[u] \in Nat /\ doubled[u] \in Nat
      /\ push.payload \in Amounts /\ push.payload[u] \in Nat
    BY DEF TypeOK, Amounts
<1> USE DEF kernelVars, trackerVars, panelVars
<1>1. CASE \E v \in Users : Serve(v)
    <2>1. PICK v \in Users : Serve(v)
        BY <1>1
    <2>2. CASE u = v
        <3>1. cum'[u] = cum[u] + 1 /\ served'[u] = served[u] + 1
            BY <2>1, <2>2 DEF Serve, TypeOK, Amounts
        <3>2. UNCHANGED <<billed, pending, push, final, lastSeen, doubled>>
            BY <2>1 DEF Serve
        <3>3. Delta(u)' <= Delta(u) + 1
            BY <3>1, <3>2, <1>b DEF Delta
        <3> QED BY <3>1, <3>2, <3>3, <1>a, <1>b DEF Delta
    <2>3. CASE u # v
        <3>1. cum'[u] = cum[u] /\ served'[u] = served[u]
            BY <2>1, <2>3 DEF Serve, TypeOK, Amounts
        <3> QED BY <2>1, <3>1, <1>a DEF Serve, Delta
    <2> QED BY <2>2, <2>3
<1>2. CASE StartKernel
    <2>1. cum'[u] = 0
        BY <1>2, NothingIsZero DEF StartKernel
    <2>2. Delta(u)' = 0 /\ Delta(u) \in Nat
        BY <1>2, <2>1, <1>b DEF StartKernel, Delta
    <2> QED BY <1>2, <2>2, <1>a, <1>b DEF StartKernel
<1>3. CASE StopKernel
    BY <1>3, <1>a DEF StopKernel, Delta
<1>4. CASE TrackTick
    <2>1. pending'[u] = pending[u] + Delta(u)
        BY <1>4 DEF TrackTick
    <2>2. lastSeen'[u] = IF cum[u] > 0 THEN cum[u] ELSE lastSeen[u]
        BY <1>4 DEF TrackTick
    <2>3. Delta(u)' = 0 /\ Delta(u) \in Nat
        BY <1>4, <2>2, <1>b DEF TrackTick, Delta
    <2> QED BY <1>4, <2>1, <2>3, <1>a, <1>b DEF TrackTick
<1>5. CASE PushTick
    <2>1. Delta(u)' = Delta(u) /\ Delta(u) \in Nat
        BY <1>5, <1>b DEF PushTick, Delta
    <2>2. \/ push' = push /\ pending' = pending
          \/ push'.payload = pending /\ pending'[u] = 0
        BY <1>5, NothingIsZero DEF PushTick
    <2> QED BY <1>5, <2>1, <2>2, <1>a, <1>b DEF PushTick
<1>6. CASE Report
    <2>1. Delta(u)' = Delta(u) /\ Delta(u) \in Nat
        BY <1>6, <1>b DEF Report, Delta
    <2>2. CASE Reported
        <3>1. billed'[u] = billed[u] + push.payload[u] /\ push'.payload[u] = 0
            BY <2>2, PlusAmounts, NothingIsZero, <1>b DEF Reported, Received, TypeOK
        <3> QED BY <1>6, <2>1, <2>2, <3>1, <1>a, <1>b DEF Report, Reported, Received
    <2>3. CASE ReportFails
        <3>1. push'.payload = push.payload
            BY <2>3 DEF ReportFails, TypeOK
        <3>2. \/ billed'[u] = billed[u] + push.payload[u] /\ doubled'[u] = doubled[u] + push.payload[u]
              \/ billed' = billed /\ doubled' = doubled
            BY <2>3, PlusAmounts, <1>b DEF ReportFails, AnswerLost, RequestLost, TypeOK
        <3> QED BY <1>6, <2>1, <3>1, <3>2, <1>a, <1>b DEF Report
    <2> QED BY <1>6, <2>2, <2>3 DEF Report
<1>7. CASE Restore
    <2>1. pending'[u] = pending[u] + push.payload[u] /\ push'.payload[u] = 0
        BY <1>7, PlusAmounts, NothingIsZero, <1>b DEF Restore, TypeOK
    <2>2. Delta(u)' = Delta(u) /\ Delta(u) \in Nat
        BY <1>7, <1>b DEF Restore, Delta
    <2> QED BY <1>7, <2>1, <2>2, <1>a, <1>b DEF Restore
<1>8. CASE Exit
    <2>1. push'.payload[u] = 0
        BY <1>8, NothingIsZero DEF Exit, Idle
    <2>2. Delta(u)' = Delta(u) /\ Delta(u) \in Nat
        BY <1>8, <1>b DEF Exit, Delta
    <2> QED BY <1>8, <2>1, <2>2, <1>a, <1>b DEF Exit
<1>9. CASE Shutdown
    <2>1. final' = pending /\ pending'[u] = 0
        BY <1>9, NothingIsZero DEF Shutdown
    <2>2. Delta(u)' = Delta(u) /\ Delta(u) \in Nat
        BY <1>9, <1>b DEF Shutdown, Delta
    <2> QED BY <1>9, <2>1, <2>2, <1>a, <1>b DEF Shutdown
<1>10. CASE FinalReport
    <2>1. final'[u] = 0
        BY <1>10, NothingIsZero DEF FinalReport
    <2>2. \/ billed'[u] = billed[u] + final[u] /\ doubled' = doubled
          \/ billed'[u] = billed[u] + final[u] /\ doubled'[u] = doubled[u] + final[u]
          \/ billed' = billed /\ doubled' = doubled
        BY <1>10, PlusAmounts DEF FinalReport, Received, AnswerLost, RequestLost, TypeOK
    <2>3. Delta(u)' = Delta(u) /\ Delta(u) \in Nat
        BY <1>10, <1>b DEF FinalReport, Delta
    <2> QED BY <1>10, <2>1, <2>2, <2>3, <1>a, <1>b DEF FinalReport
<1>11. CASE ProcessExits
    BY <1>11, <1>a DEF ProcessExits, Delta
<1>12. CASE UNCHANGED vars
    BY <1>12, <1>a DEF vars, Delta
<1> QED
    BY <1>1, <1>2, <1>3, <1>4, <1>5, <1>6, <1>7, <1>8, <1>9, <1>10, <1>11, <1>12 DEF Next

LEMMA OverchargedNot == TypeOK /\ NothingInvented => NeverOvercharged
<1> SUFFICES ASSUME TypeOK, NothingInvented, NEW u \in Users
             PROVE  billed[u] <= served[u] + doubled[u]
    BY DEF NeverOvercharged
<1>1. Delta(u) \in Nat
    BY DeltaIsNat
<1> QED BY <1>1 DEF NothingInvented, TypeOK, Amounts

\* For every number of users, restarts, failed reports and whatever the order of
\* shutdown and reports, no user is charged for more than was carried for them,
\* lost answers apart.
THEOREM NobodyOvercharged == Spec => []NeverOvercharged
<1> QED BY OverchargedNot, InitInvented, InventedStep, TypeCorrect, PTL DEF Spec

-----------------------------------------------------------------------------
(* Every unit is in one place *)

\* The ledger balances initially.
LEMMA InitLedger == Init => Ledger
BY NothingIsZero DEF Init, Ledger, PayloadTaken, CountersAhead, AccountedOnce, Idle

\* A step leaves traffic with the goroutine only while a report is under way.
LEMMA PayloadStep == TypeOK /\ PayloadTaken /\ [Next]_vars => PayloadTaken'
<1> SUFFICES ASSUME TypeOK, PayloadTaken, [Next]_vars PROVE PayloadTaken'
    OBVIOUS
<1>1. CASE push' = push
    BY <1>1 DEF PayloadTaken
<1>2. CASE PushTick \/ Report \/ Restore \/ Exit
    BY <1>2 DEF PushTick, Report, Reported, ReportFails, Restore, Exit, Idle, PayloadTaken, TypeOK
<1>3. push' = push \/ PushTick \/ Report \/ Restore \/ Exit
    BY DEF Next, vars, Serve, StartKernel, StopKernel, TrackTick, Shutdown, FinalReport, ProcessExits
<1> QED BY <1>1, <1>2, <1>3

\* The tracker has never seen more than the first kernel has counted.
LEMMA AheadStep == TypeOK /\ CountersAhead /\ [Next]_vars => CountersAhead'
<1> SUFFICES ASSUME TypeOK, CountersAhead, [Next]_vars, restarts' = 0, NEW u \in Users
             PROVE  lastSeen'[u] <= cum'[u]
    BY DEF CountersAhead
<1>a. cum[u] \in Nat /\ lastSeen[u] \in Nat
    BY DEF TypeOK, Amounts
<1>1. CASE \E v \in Users : Serve(v)
    <2>1. cum'[u] = cum[u] \/ cum'[u] = cum[u] + 1
        BY <1>1 DEF Serve, TypeOK, Amounts
    <2>2. restarts = 0 /\ lastSeen' = lastSeen
        BY <1>1 DEF Serve, kernelVars, trackerVars
    <2> QED BY <2>1, <2>2, <1>a DEF CountersAhead
<1>2. CASE TrackTick
    <2>1. restarts = 0 /\ cum' = cum
        BY <1>2 DEF TrackTick, kernelVars
    <2>2. lastSeen'[u] = IF cum[u] > 0 THEN cum[u] ELSE lastSeen[u]
        BY <1>2 DEF TrackTick
    <2> QED BY <2>1, <2>2, <1>a DEF CountersAhead
<1>3. CASE StartKernel \/ StopKernel
    BY <1>3 DEF StartKernel, StopKernel, TypeOK
<1>4. \/ UNCHANGED <<cum, lastSeen, restarts>>
      \/ \E v \in Users : Serve(v)
      \/ TrackTick \/ StartKernel \/ StopKernel
    BY DEF Next, vars, PushTick, Report, Restore, Exit, Shutdown, FinalReport, ProcessExits,
           kernelVars, trackerVars
<1> QED BY <1>1, <1>2, <1>3, <1>4 DEF CountersAhead

\* No step loses or repeats a unit while the first kernel runs.
LEMMA LedgerStep == TypeOK /\ Ledger /\ [Next]_vars => Ledger'
<1> SUFFICES ASSUME TypeOK, Ledger, [Next]_vars,
                    restarts' = 0, phase' = "running", NEW u \in Users
             PROVE  served'[u] + doubled'[u] =
                       (cum'[u] - lastSeen'[u]) + pending'[u] + push'.payload[u] + billed'[u]
    BY PayloadStep, AheadStep DEF Ledger, AccountedOnce
<1>a. phase = "running"
    BY DEF Next, vars, Serve, StartKernel, StopKernel, TrackTick, PushTick, Report, Restore, Exit,
           Shutdown, FinalReport, ProcessExits
<1>b. /\ cum[u] \in Nat /\ lastSeen[u] \in Nat /\ pending[u] \in Nat
      /\ billed[u] \in Nat /\ served[u] \in Nat /\ doubled[u] \in Nat /\ restarts \in Nat
      /\ push.payload \in Amounts /\ push.payload[u] \in Nat
    BY DEF TypeOK, Amounts
<1>c. restarts = 0
    BY <1>b DEF Next, vars, Serve, StartKernel, StopKernel, TrackTick, PushTick, Report, Restore,
           Exit, Shutdown, FinalReport, ProcessExits, kernelVars
<1>d. /\ served[u] + doubled[u] =
             (cum[u] - lastSeen[u]) + pending[u] + push.payload[u] + billed[u]
      /\ lastSeen[u] <= cum[u]
    BY <1>a, <1>c DEF Ledger, AccountedOnce, CountersAhead
<1> USE DEF kernelVars, trackerVars, panelVars
<1>1. CASE \E v \in Users : Serve(v)
    <2>1. PICK v \in Users : Serve(v)
        BY <1>1
    <2>2. \/ cum'[u] = cum[u] + 1 /\ served'[u] = served[u] + 1
          \/ cum'[u] = cum[u] /\ served'[u] = served[u]
        BY <2>1 DEF Serve, TypeOK, Amounts
    <2>3. UNCHANGED <<doubled, lastSeen, pending, push, billed>>
        BY <2>1 DEF Serve
    <2> QED BY <2>2, <2>3, <1>b, <1>d
<1>2. CASE StartKernel \/ StopKernel
    BY <1>2, <1>c DEF StartKernel, StopKernel
<1>3. CASE TrackTick
    <2>1. pending'[u] = pending[u] + (cum[u] - lastSeen[u])
        BY <1>3, <1>b, <1>d DEF TrackTick, Delta
    <2>2. cum'[u] - lastSeen'[u] = 0
        BY <1>3, <1>b, <1>d DEF TrackTick
    <2>3. UNCHANGED <<served, doubled, push, billed>>
        BY <1>3 DEF TrackTick
    <2> QED BY <2>1, <2>2, <2>3, <1>b, <1>d
<1>4. CASE PushTick
    <2>1. push.payload[u] = 0
        BY <1>4, NothingIsZero DEF PushTick, Ledger, PayloadTaken
    <2>2. \/ push' = push /\ pending' = pending
          \/ push'.payload = pending /\ pending'[u] = 0
        BY <1>4, NothingIsZero DEF PushTick
    <2>3. UNCHANGED <<served, doubled, cum, lastSeen, billed>>
        BY <1>4 DEF PushTick
    <2> QED BY <2>1, <2>2, <2>3, <1>b, <1>d
<1>5. CASE Report
    <2>1. UNCHANGED <<served, cum, lastSeen, pending>>
        BY <1>5 DEF Report
    <2>2. CASE Reported
        <3>1. /\ billed'[u] = billed[u] + push.payload[u] /\ doubled' = doubled
              /\ push'.payload[u] = 0
            BY <2>2, PlusAmounts, NothingIsZero, <1>b DEF Reported, Received, TypeOK
        <3> QED BY <2>1, <3>1, <1>b, <1>d
    <2>3. CASE ReportFails
        <3>1. push'.payload = push.payload
            BY <2>3 DEF ReportFails, TypeOK
        <3>2. \/ /\ billed'[u] = billed[u] + push.payload[u]
                 /\ doubled'[u] = doubled[u] + push.payload[u]
              \/ UNCHANGED <<billed, doubled>>
            BY <2>3, PlusAmounts, <1>b DEF ReportFails, AnswerLost, RequestLost, TypeOK
        <3> QED BY <2>1, <3>1, <3>2, <1>b, <1>d
    <2> QED BY <1>5, <2>2, <2>3 DEF Report
<1>6. CASE Restore
    <2>1. pending'[u] = pending[u] + push.payload[u] /\ push'.payload[u] = 0
        BY <1>6, PlusAmounts, NothingIsZero, <1>b DEF Restore, TypeOK
    <2>2. UNCHANGED <<served, doubled, cum, lastSeen, billed>>
        BY <1>6 DEF Restore
    <2> QED BY <2>1, <2>2, <1>b, <1>d
<1>7. CASE Exit
    <2>1. push.payload[u] = 0 /\ push'.payload[u] = 0
        BY <1>7, NothingIsZero DEF Exit, Idle, Ledger, PayloadTaken
    <2>2. UNCHANGED <<served, doubled, cum, lastSeen, pending, billed>>
        BY <1>7 DEF Exit
    <2> QED BY <2>1, <2>2, <1>b, <1>d
<1>8. CASE Shutdown \/ FinalReport \/ ProcessExits
    BY <1>8 DEF Shutdown, FinalReport, ProcessExits
<1>9. CASE UNCHANGED vars
    BY <1>9, <1>d DEF vars
<1> QED
    BY <1>1, <1>2, <1>3, <1>4, <1>5, <1>6, <1>7, <1>8, <1>9 DEF Next

\* As long as the kernel is not restarted and the service runs, every unit of
\* traffic of every user is in exactly one place, for all users and any number
\* of failed reports.
THEOREM TrafficAccountedOnce == Spec => []AccountedOnce
<1> QED BY InitLedger, LedgerStep, TypeCorrect, PTL DEF Spec, Ledger

-----------------------------------------------------------------------------
(* The reports with their devices.  What they do to the traffic is a step   *)
(* of Traffic, with one exception: the race on the buffer may end the       *)
(* process at any moment.                                                   *)

Aborts == phase' = "gone" /\ UNCHANGED <<kernelVars, trackerVars, panelVars, push, backoff, final>>

\* No step of the reports does anything else to the traffic.
LEMMA ReportsStep == [NextReports]_allVars => [Next]_vars \/ Aborts
<1> SUFFICES ASSUME [NextReports]_allVars PROVE [Next]_vars \/ Aborts
  OBVIOUS
<1>1. CASE Move \/ Encode \/ WireDelivers \/ Connect \/ Disconnect
  BY <1>1 DEF Move, Encode, WireDelivers, Connect, Disconnect
<1>2. CASE Track \/ Restart \/ Push \/ Deliver \/ GiveBack \/ End \/ ServeUser
  BY <1>2 DEF Track, Restart, Push, Deliver, GiveBack, End, ServeUser, Next
<1>3. CASE DeviceTick
  <2>1. UNCHANGED phase \/ phase' = "gone"
    BY <1>3 DEF DeviceTick
  <2> QED BY <1>3, <2>1 DEF DeviceTick, Aborts, vars
<1>4. CASE UNCHANGED allVars
  BY <1>4 DEF allVars
<1> QED BY <1>1, <1>2, <1>3, <1>4 DEF NextReports

LEMMA AbortKeeps ==
    ASSUME Aborts
    PROVE  /\ TypeOK => TypeOK'
           /\ NothingInvented => NothingInvented'
           /\ Ledger => Ledger'
<1> USE DEF Aborts, kernelVars, trackerVars, panelVars
<1>1. TypeOK => TypeOK'
  BY DEF TypeOK
<1>2. NothingInvented => NothingInvented'
  BY DEF NothingInvented, Delta
<1>3. Ledger => Ledger'
  BY DEF Ledger, PayloadTaken, CountersAhead, AccountedOnce
<1> QED BY <1>1, <1>2, <1>3

\* The two ways of reporting devices, their races included, leave the ledger of
\* the traffic alone.
LEMMA ReportsKeepTraffic ==
    SpecReports => [](TypeOK /\ NothingInvented /\ Ledger)
<1>1. InitReports => TypeOK /\ NothingInvented /\ Ledger
  BY InitType, InitInvented, InitLedger DEF InitReports
<1>2. /\ TypeOK /\ NothingInvented /\ Ledger /\ [NextReports]_allVars
            => (TypeOK /\ NothingInvented /\ Ledger)'
  BY ReportsStep, AbortKeeps, TypeStep, InventedStep, LedgerStep
<1> QED BY <1>1, <1>2, PTL DEF SpecReports

\* With devices on board, too, no user is charged for more than was carried.
THEOREM NobodyOverchargedByReports == SpecReports => []NeverOvercharged
<1>1. TypeOK /\ NothingInvented => NeverOvercharged
  BY OverchargedNot
<1> QED BY <1>1, ReportsKeepTraffic, PTL

\* And every unit of traffic is in exactly one place.
THEOREM TrafficAccountedOnceByReports == SpecReports => []AccountedOnce
<1>1. Ledger => AccountedOnce
  BY DEF Ledger
<1> QED BY <1>1, ReportsKeepTraffic, PTL

-----------------------------------------------------------------------------
(* Devices *)

\* The panel knows what the tracker takes for reported, unless a report with
\* devices is under way, in writeCh, or has slipped: between the two ways that
\* share one "changed since last time" nothing else gets lost.
DevicesOnTheirWay ==
    ~slipped /\ ~rest.carried /\ channel.wire = <<>> => known = reported

\* Every set of devices is one, writeCh stays within its room, a connection that
\* is lost leaves no message, and only a report under way carries devices.
DevicesTypeOK ==
    /\ {online, live, reported, buffer, known} \subseteq SUBSET Devices
    /\ rest \in [carried : BOOLEAN, encoded : BOOLEAN, devices : SUBSET Devices]
    /\ rest.carried => push.stage = "sending"
    /\ channel \in [connected : BOOLEAN, wire : Seq(SUBSET Devices)]
    /\ Len(channel.wire) <= WireCap
    /\ ~channel.connected => channel.wire = <<>>
    /\ slipped \in BOOLEAN /\ moves \in Nat /\ flaps \in Nat

\* What a report or a message that arrives leaves at the panel.
LEMMA ToldType ==
    ASSUME NEW devices \in SUBSET Devices, Told(devices)
    PROVE  known' = devices /\ slipped' \in BOOLEAN /\ (~slipped' => known' = reported)
BY DEF Told

LEMMA FlushType ==
    ASSUME DevicesTypeOK, Flush
    PROVE  reported' \in SUBSET Devices /\ buffer' \in SUBSET Devices
           /\ (~Changed => reported' = reported)
BY DEF DevicesTypeOK, Flush, Changed

\* A report that is answered, and one whose devices are not, in a step.
LEMMA DeliverEffect ==
    ASSUME TypeOK, DevicesTypeOK, Deliver
    PROVE  /\ known' \in SUBSET Devices /\ slipped' \in BOOLEAN
           /\ \/ UNCHANGED <<known, slipped>> /\ ~rest.carried
              \/ rest.carried /\ (~slipped' => known' = reported)
<1>1. rest.devices \in SUBSET Devices /\ known \in SUBSET Devices /\ slipped \in BOOLEAN
  BY DEF DevicesTypeOK
<1>2. CASE ~rest.carried
  BY <1>1, <1>2 DEF Deliver
<1>3. CASE rest.carried /\ Lost
  BY <1>1, <1>3 DEF Lost
<1>4. CASE rest.carried /\ Told(rest.devices)
  BY <1>1, <1>4, ToldType
<1> QED BY <1>2, <1>3, <1>4 DEF Deliver

LEMMA DevicesStep ==
    /\ TypeOK /\ DevicesTypeOK /\ DevicesOnTheirWay /\ [NextReports]_allVars
    => DevicesTypeOK' /\ DevicesOnTheirWay'
<1> SUFFICES ASSUME TypeOK, DevicesTypeOK, DevicesOnTheirWay, [NextReports]_allVars
             PROVE  DevicesTypeOK' /\ DevicesOnTheirWay'
  OBVIOUS
<1>0. /\ {online, live, reported, buffer, known} \subseteq SUBSET Devices
      /\ rest \in [carried : BOOLEAN, encoded : BOOLEAN, devices : SUBSET Devices]
      /\ rest.carried => push.stage = "sending"
      /\ channel \in [connected : BOOLEAN, wire : Seq(SUBSET Devices)]
      /\ Len(channel.wire) <= WireCap /\ WireCap \in Nat
      /\ ~channel.connected => channel.wire = <<>>
      /\ slipped \in BOOLEAN /\ moves \in Nat /\ flaps \in Nat
      /\ ~slipped /\ ~rest.carried /\ channel.wire = <<>> => known = reported
  BY ReportsAssumption DEF DevicesTypeOK, DevicesOnTheirWay
<1> USE DEF DevicesTypeOK, DevicesOnTheirWay
<1>1. CASE Move
  BY <1>1 DEF Move, vars
<1>2. CASE Track
  <2>1. push' = push
    BY <1>2 DEF Track, TrackTick
  <2> QED BY <1>2, <2>1 DEF Track
<1>3. CASE Restart
  <2>1. push' = push
    BY <1>3 DEF Restart, StartKernel, StopKernel
  <2> QED BY <1>3, <2>1 DEF Restart
<1>4. CASE Push
  <2>1. push.stage = "idle" /\ ~rest.carried
    BY <1>0, <1>4 DEF Push, PushTick
  <2>2. UNCHANGED <<online, live, channel, known, slipped, moves, flaps>>
    BY <1>4 DEF Push
  <2>3. CASE push'.stage = "sending"
    <3>1. Flush /\ rest' = [NoRest EXCEPT !.carried = Changed]
      BY <1>4, <2>3 DEF Push
    <3>2. rest' \in [carried : BOOLEAN, encoded : BOOLEAN, devices : SUBSET Devices]
          /\ (rest'.carried <=> Changed)
      BY <3>1 DEF NoRest, Changed
    <3> QED BY <1>0, <2>1, <2>2, <2>3, <3>1, <3>2, FlushType
  <2>4. CASE push'.stage # "sending"
    <3>1. UNCHANGED <<reported, buffer, rest>>
      BY <1>4, <2>4 DEF Push
    <3> QED BY <2>1, <2>2, <3>1
  <2> QED BY <2>3, <2>4
<1>5. CASE Encode
  BY <1>5 DEF Encode, vars
<1>6. CASE Deliver
  <2>1. rest' = NoRest /\ UNCHANGED <<online, live, reported, buffer, channel, moves, flaps>>
    BY <1>6 DEF Deliver
  <2>2. NoRest \in [carried : BOOLEAN, encoded : BOOLEAN, devices : SUBSET Devices] /\ ~NoRest.carried
    BY DEF NoRest
  <2> QED BY <1>0, <1>6, <2>1, <2>2, DeliverEffect
<1>7. CASE GiveBack
  <2>1. push.stage # "sending"
    BY <1>7 DEF GiveBack, Restore, Exit
  <2>2. UNCHANGED <<online, live, reported, buffer, rest, channel, known, slipped, moves, flaps>>
    BY <1>7 DEF GiveBack, deviceVars
  <2> QED BY <2>1, <2>2
<1>8. CASE DeviceTick
  <2>1. /\ channel.connected /\ Flush /\ push' = push
        /\ UNCHANGED <<online, live, known, moves, flaps>>
    BY <1>8 DEF DeviceTick
  <2>2. \/ /\ channel' = [channel EXCEPT !.wire = Append(@, live)] /\ UNCHANGED slipped
           /\ Len(channel.wire) < WireCap
        \/ slipped' = TRUE /\ UNCHANGED channel
    BY <1>8 DEF DeviceTick
  <2>3. rest' = rest \/ (rest.carried /\ push.stage = "sending" /\ rest' \in Torn)
    BY <1>8 DEF DeviceTick
  <2>4. /\ rest' \in [carried : BOOLEAN, encoded : BOOLEAN, devices : SUBSET Devices]
        /\ rest'.carried => push'.stage = "sending"
    BY <1>0, <2>1, <2>3 DEF Torn
  <2>5. /\ channel' \in [connected : BOOLEAN, wire : Seq(SUBSET Devices)]
        /\ Len(channel'.wire) <= WireCap /\ channel'.connected
        /\ slipped' \in BOOLEAN /\ (slipped' \/ channel'.wire # <<>>)
    <3>1. CASE Len(channel.wire) < WireCap /\ slipped' = slipped
               /\ channel' = [channel EXCEPT !.wire = Append(@, live)]
      <4> DEFINE queued == Append(channel.wire, live)
      <4>1. live \in SUBSET Devices /\ channel.wire \in Seq(SUBSET Devices)
        BY <1>0
      <4>2. queued \in Seq(SUBSET Devices) /\ Len(queued) = Len(channel.wire) + 1 /\ queued # <<>>
        BY <4>1
      <4>3. Len(channel.wire) \in Nat
        BY <4>1
      <4> HIDE DEF queued
      <4>4. channel' = [channel EXCEPT !.wire = queued]
        BY <3>1 DEF queued
      <4>5. channel'.wire = queued /\ channel'.connected
            /\ channel' \in [connected : BOOLEAN, wire : Seq(SUBSET Devices)]
        BY <1>0, <2>1, <4>2, <4>4
      <4>6. Len(queued) <= WireCap
        BY <1>0, <3>1, <4>2, <4>3
      <4> QED BY <1>0, <3>1, <4>2, <4>5, <4>6
    <3>2. CASE slipped' = TRUE /\ UNCHANGED channel
      BY <1>0, <2>1, <3>2
    <3> QED BY <2>2, <3>1, <3>2
  <2> QED BY <1>0, <2>1, <2>4, <2>5, FlushType
<1>9. CASE WireDelivers
  <2> DEFINE first == Head(channel.wire)
             others == Tail(channel.wire)
  <2>1. /\ channel.wire # <<>> /\ channel' = [channel EXCEPT !.wire = others]
        /\ Told(first)
        /\ UNCHANGED <<vars, online, live, reported, buffer, rest, moves, flaps>>
    BY <1>9 DEF WireDelivers
  <2>2. first \in SUBSET Devices /\ others \in Seq(SUBSET Devices) /\ Len(others) <= WireCap
    <3>1. channel.wire \in Seq(SUBSET Devices) /\ channel.wire # <<>>
      BY <1>0, <2>1
    <3>2. first \in SUBSET Devices /\ others \in Seq(SUBSET Devices)
          /\ Len(others) = Len(channel.wire) - 1 /\ Len(channel.wire) \in Nat
      BY <3>1
    <3> HIDE DEF others
    <3> QED BY <1>0, <3>2
  <2> HIDE DEF first, others
  <2>3. /\ channel' \in [connected : BOOLEAN, wire : Seq(SUBSET Devices)]
        /\ channel'.wire = others /\ channel'.connected
    BY <1>0, <2>1, <2>2
  <2>4. known' \in SUBSET Devices /\ slipped' \in BOOLEAN /\ (~slipped' => known' = reported)
    BY <2>1, <2>2, ToldType
  <2>5. push' = push
    BY <2>1 DEF vars
  <2> QED BY <1>0, <2>1, <2>2, <2>3, <2>4, <2>5
<1>10. CASE Connect
  <2>1. channel' = [connected |-> TRUE, wire |-> <<>>] /\ channel.wire = <<>> /\ push' = push
    BY <1>0, <1>10 DEF Connect, vars
  <2>2. UNCHANGED <<online, live, reported, buffer, rest, known, slipped, moves, flaps>>
    BY <1>10 DEF Connect
  <2> QED BY <1>0, <2>1, <2>2
<1>11. CASE Disconnect
  <2>1. /\ channel' = [connected |-> FALSE, wire |-> <<>>] /\ push' = push
        /\ slipped' = (slipped \/ channel.wire # <<>>) /\ flaps' = flaps + 1
    BY <1>11 DEF Disconnect, vars
  <2>2. UNCHANGED <<online, live, reported, buffer, rest, known, moves>>
    BY <1>11 DEF Disconnect
  <2> QED BY <1>0, <2>1, <2>2
<1>12. CASE End \/ ServeUser \/ UNCHANGED allVars
  <2>1. push' = push
    BY <1>12 DEF End, Shutdown, FinalReport, ProcessExits, ServeUser, Serve, allVars, vars
  <2>2. UNCHANGED <<online, live, reported, buffer, rest, channel, known, slipped, moves, flaps>>
    BY <1>12 DEF End, ServeUser, allVars, deviceVars
  <2> QED BY <2>1, <2>2
<1> QED BY <1>1, <1>2, <1>3, <1>4, <1>5, <1>6, <1>7, <1>8, <1>9, <1>10, <1>11, <1>12
        DEF NextReports

LEMMA InitDevices == InitReports => DevicesTypeOK /\ DevicesOnTheirWay
<1> SUFFICES ASSUME InitReports PROVE DevicesTypeOK /\ DevicesOnTheirWay
  OBVIOUS
<1>1. /\ {online, live, reported, buffer, known} \subseteq SUBSET Devices
      /\ slipped \in BOOLEAN /\ moves \in Nat /\ flaps \in Nat /\ known = reported
  BY DEF InitReports
<1>2. rest \in [carried : BOOLEAN, encoded : BOOLEAN, devices : SUBSET Devices] /\ ~rest.carried
  BY DEF InitReports, NoRest
<1>3. /\ channel \in [connected : BOOLEAN, wire : Seq(SUBSET Devices)]
      /\ Len(channel.wire) <= WireCap /\ channel.wire = <<>>
  BY ReportsAssumption DEF InitReports
<1> QED BY <1>1, <1>2, <1>3 DEF DevicesTypeOK, DevicesOnTheirWay

\* What the reports know of devices has its types, and nothing that is
\* connected is forgotten silently.
THEOREM DevicesAccounted == SpecReports => [](DevicesTypeOK /\ DevicesOnTheirWay)
<1>1. TypeOK /\ NothingInvented /\ Ledger => TypeOK
  OBVIOUS
<1> QED BY <1>1, InitDevices, DevicesStep, ReportsKeepTraffic, PTL DEF SpecReports
=============================================================================
