-------------------------- MODULE NodeMailbox_proofs --------------------------
(***************************************************************************)
(* For every set of users, events and initial snapshots: a mailbox never   *)
(* loses a wake-up, and every step of it is a step of LatestState or       *)
(* changes nothing that LatestState speaks of.                             *)
(***************************************************************************)
EXTENDS NodeMailbox, TLAPS

\* What is not marked dirty is what the loop has already been given.  This is
\* what makes it right to hand over the dirty parts only.
CleanMeansGiven ==
    /\ ~box.dirtyConfig  => given.config = box.config
    /\ ~box.dirtyUsers   => given.users = box.users
    /\ ~box.dirtyDevices => given.devices = box.devices

-----------------------------------------------------------------------------
(* Types *)

\* Merging and subtracting lists gives lists.
LEMMA DeltaListClosure ==
    ASSUME NEW base \in Lists, NEW delta \in Lists
    PROVE  Merge(base, delta) \in Lists /\ Subtract(base, delta) \in Lists
BY DEF Lists, Merge, Subtract

\* The empty list is a list.
LEMMA NoUsersIsList == NoUsers \in Lists
BY DEF NoUsers, Lists

\* Applying an event to a mailbox gives a mailbox that is as ready as before.
LEMMA ApplyType ==
    ASSUME NEW m \in Mailboxes, NEW e \in MailboxEvents
    PROVE  Apply(m, e) \in Mailboxes /\ Apply(m, e).ready = m.ready
<1>1. CASE ~Carries(e)
    BY <1>1 DEF Apply
<1>2. CASE Carries(e) /\ e.type = "config"
    BY <1>2 DEF Apply, MailboxEvents, Events, Mailboxes
<1>3. CASE Carries(e) /\ e.type = "users"
    BY <1>3 DEF Apply, MailboxEvents, Events, Mailboxes
<1>4. CASE Carries(e) /\ e.type = "devices"
    BY <1>4 DEF Apply, MailboxEvents, Events, Mailboxes
<1>5. CASE Carries(e) /\ e.type = "delta"
    <2>1. e.users \in Lists /\ e.action \in DeltaActions
        BY <1>5 DEF MailboxEvents, Events
    <2>2. m.users \in Lists
        BY DEF Mailboxes
    <2>3. Merge(m.users, e.users) \in Lists /\ Subtract(m.users, e.users) \in Lists
        BY <2>1, <2>2, DeltaListClosure
    <2>4. Apply(m, e) = ApplyDelta(m, e.action, e.users)
        BY <1>5 DEF Apply
    <2> QED BY <2>1, <2>3, <2>4 DEF ApplyDelta, DeltaActions, Mailboxes
<1> QED BY <1>1, <1>2, <1>3, <1>4, <1>5 DEF MailboxEvents, Events

\* Whether an event has a payload is a matter of yes or no.
LEMMA CarriesType == ASSUME NEW e \in MailboxEvents PROVE Carries(e) \in BOOLEAN
<1>1. e.type \in {"config", "users", "devices", "delta"}
    BY DEF MailboxEvents, Events
<1> QED BY <1>1 DEF Carries

\* The types hold initially.
LEMMA InitMailboxType == MailboxInit => MailboxTypeOK
<1> SUFFICES ASSUME MailboxInit PROVE MailboxTypeOK
    OBVIOUS
<1>1. NewMailbox \in Mailboxes /\ ~NewMailbox.ready
    BY NoUsersIsList DEF NewMailbox, Mailboxes, NoCfg, NoDevices
<1>2. given \in Given
    BY NoUsersIsList DEF MailboxInit, Given, NoCfg, NoDevices
<1> QED BY <1>1, <1>2 DEF MailboxInit, MailboxTypeOK

\* Every step keeps the types, and makes the mailbox ready when the loop does.
LEMMA MailboxTypeStep == MailboxTypeOK /\ [MailboxNext]_mailboxVars => MailboxTypeOK'
<1> SUFFICES ASSUME MailboxTypeOK, [MailboxNext]_mailboxVars PROVE MailboxTypeOK'
    OBVIOUS
<1> USE DEF MailboxTypeOK
<1>1. CASE \E e \in MailboxInput : Receive(e)
    <2>1. PICK e \in MailboxInput : Receive(e)
        BY <1>1
    <2>2. e \in MailboxEvents
        BY <2>1, MailboxAssumption
    <2>3. box' \in Mailboxes /\ box'.ready = box.ready
        BY <2>1, <2>2, ApplyType DEF Receive
    <2>4. posting' \in BOOLEAN
        BY <2>1, <2>2, CarriesType DEF Receive
    <2> QED BY <2>1, <2>3, <2>4 DEF Receive
<1>2. CASE Notify
    BY <1>2 DEF Notify
<1>3. CASE \E users \in Lists, config \in BaseConfigs : Seed(users, config)
    <2>1. PICK users \in Lists, config \in BaseConfigs : Seed(users, config)
        BY <1>3
    <2>2. config \in Nat
        BY MailboxAssumption
    <2>3. box' \in Mailboxes /\ box'.ready = box.ready
        BY <2>1, <2>2 DEF Seed, SeedBaseline, Mailboxes
    <2>4. given' \in Given
        BY <2>1, <2>2 DEF Seed, Given
    <2> QED BY <2>1, <2>3, <2>4 DEF Seed
<1>4. CASE BecomeReady
    BY <1>4 DEF BecomeReady, MarkReady, Mailboxes
<1>5. CASE WakeUp
    BY <1>5 DEF WakeUp
<1>6. CASE Drain
    <2>1. box' \in Mailboxes /\ box'.ready = box.ready
        BY <1>6 DEF Drain, DrainIfReady, Mailboxes
    <2>2. given' \in Given
        BY <1>6 DEF Drain, Given, Mailboxes
    <2> QED BY <1>6, <2>1, <2>2 DEF Drain
<1>7. CASE UNCHANGED mailboxVars
    BY <1>7 DEF mailboxVars
<1> QED BY <1>1, <1>2, <1>3, <1>4, <1>5, <1>6, <1>7 DEF MailboxNext

\* In every reachable state the mailbox has the types of its fields, and it is
\* ready exactly when the loop has come to drain it.
THEOREM MailboxTypeCorrect == MailboxSpec => []MailboxTypeOK
<1> QED BY InitMailboxType, MailboxTypeStep, PTL DEF MailboxSpec

-----------------------------------------------------------------------------
(* Wake-ups *)

\* An event that carries nothing leaves the mailbox as it is.
LEMMA EmptyEventChangesNothing ==
    ASSUME NEW m, NEW e, ~Carries(e)
    PROVE  Apply(m, e) = m
BY DEF Apply

\* No step leaves a waiting loop with something owed and unannounced.
LEMMA WakeupStep ==
    MailboxTypeOK /\ NoLostWakeup /\ [MailboxNext]_mailboxVars => NoLostWakeup'
<1> SUFFICES ASSUME MailboxTypeOK, NoLostWakeup, [MailboxNext]_mailboxVars PROVE NoLostWakeup'
    OBVIOUS
<1>1. CASE \E e \in MailboxInput : Receive(e)
    <2>1. PICK e \in MailboxInput : Receive(e)
        BY <1>1
    <2>2. CASE Carries(e)
        BY <2>1, <2>2 DEF Receive, NoLostWakeup
    <2>3. CASE ~Carries(e)
        BY <2>1, <2>3, EmptyEventChangesNothing DEF Receive, NoLostWakeup
    <2> QED BY <2>2, <2>3
<1>2. CASE Notify
    BY <1>2 DEF Notify, NoLostWakeup
<1>3. CASE \E users \in Lists, config \in BaseConfigs : Seed(users, config)
    BY <1>3 DEF Seed, NoLostWakeup
<1>4. CASE BecomeReady
    BY <1>4 DEF BecomeReady, NoLostWakeup
<1>5. CASE WakeUp
    BY <1>5 DEF WakeUp, NoLostWakeup
<1>6. CASE Drain
    <2>1. ~Owes(box')
        BY <1>6 DEF Drain, DrainIfReady, Owes, MailboxTypeOK, Mailboxes
    <2> QED BY <2>1 DEF NoLostWakeup, Owes
<1>7. CASE UNCHANGED mailboxVars
    BY <1>7 DEF mailboxVars, NoLostWakeup, Owes
<1> QED BY <1>1, <1>2, <1>3, <1>4, <1>5, <1>6, <1>7 DEF MailboxNext

\* Whatever arrives and however the two goroutines interleave, a loop that waits
\* has been, or is about to be, told of everything the mailbox owes it.
THEOREM WakeupsKept == MailboxSpec => []NoLostWakeup
<1>1. MailboxInit => NoLostWakeup
    BY DEF MailboxInit, NoLostWakeup
<1> QED BY <1>1, WakeupStep, MailboxTypeCorrect, PTL DEF MailboxSpec

-----------------------------------------------------------------------------
(* Refinement *)

\* An event marks dirty every part of the mailbox it changes.
LEMMA ApplyMarks ==
    ASSUME NEW m \in Mailboxes, NEW e \in MailboxEvents
    PROVE  /\ ~Apply(m, e).dirtyConfig => ~m.dirtyConfig /\ Apply(m, e).config = m.config
           /\ ~Apply(m, e).dirtyUsers => ~m.dirtyUsers /\ Apply(m, e).users = m.users
           /\ ~Apply(m, e).dirtyDevices => ~m.dirtyDevices /\ Apply(m, e).devices = m.devices
<1>1. CASE ~Carries(e)
    BY <1>1 DEF Apply
<1>2. CASE Carries(e) /\ e.type # "delta"
    BY <1>2 DEF Apply, MailboxEvents, Events, Mailboxes
<1>3. CASE Carries(e) /\ e.type = "delta"
    <2>1. Apply(m, e) = ApplyDelta(m, e.action, e.users) /\ e.action \in DeltaActions
        BY <1>3 DEF Apply, MailboxEvents, Events
    <2> QED BY <2>1 DEF ApplyDelta, DeltaActions, Mailboxes
<1> QED BY <1>1, <1>2, <1>3

\* No step leaves a clean part of the mailbox that the loop has not been given.
LEMMA CleanStep ==
    MailboxTypeOK /\ CleanMeansGiven /\ [MailboxNext]_mailboxVars => CleanMeansGiven'
<1> SUFFICES ASSUME MailboxTypeOK, CleanMeansGiven, [MailboxNext]_mailboxVars
             PROVE  CleanMeansGiven'
    OBVIOUS
<1> USE DEF CleanMeansGiven
<1>1. CASE \E e \in MailboxInput : Receive(e)
    <2>1. PICK e \in MailboxInput : Receive(e)
        BY <1>1
    <2>2. e \in MailboxEvents /\ box \in Mailboxes
        BY <2>1, MailboxAssumption DEF MailboxTypeOK
    <2> QED BY <2>1, <2>2, ApplyMarks DEF Receive
<1>2. CASE \E users \in Lists, config \in BaseConfigs : Seed(users, config)
    <2>1. PICK users \in Lists, config \in BaseConfigs : Seed(users, config)
        BY <1>2
    <2>2. box \in Mailboxes /\ given \in Given
        BY DEF MailboxTypeOK
    <2> QED BY <2>1, <2>2 DEF Seed, SeedBaseline, Mailboxes, Given
<1>3. CASE BecomeReady
    BY <1>3 DEF BecomeReady, MarkReady, MailboxTypeOK, Mailboxes
<1>4. CASE Drain
    BY <1>4 DEF Drain, DrainIfReady, MailboxTypeOK, Mailboxes
<1>5. CASE Notify \/ WakeUp \/ UNCHANGED mailboxVars
    BY <1>5 DEF Notify, WakeUp, mailboxVars
<1> QED BY <1>1, <1>2, <1>3, <1>4, <1>5 DEF MailboxNext

\* LatestState works on the same lists.
LEMMA SameLists ==
    /\ Latest!NoUsers = NoUsers
    /\ Latest!Lists = Lists
    /\ \A base, delta \in Lists : /\ Latest!Merge(base, delta) = Merge(base, delta)
                                 /\ Latest!Subtract(base, delta) = Subtract(base, delta)
BY DEF Latest!NoUsers, NoUsers, Latest!Lists, Lists, Latest!Merge, Merge,
       Latest!Subtract, Subtract

\* An event does to the latest state what LatestState says, or is missed there too.
LEMMA ReceiveRefines ==
    ASSUME MailboxTypeOK, NEW e \in MailboxInput, Receive(e)
    PROVE  Latest!LatestNext \/ UNCHANGED Latest!latestVars
<1>1. e \in MailboxEvents /\ box \in Mailboxes
    BY MailboxAssumption DEF MailboxTypeOK
<1> USE DEF Latest!Learn, Latest!LearnWhole, Latest!LearnDelta, Latest!MissChange
<1>2. CASE ~Carries(e)
    BY <1>2, EmptyEventChangesNothing DEF Receive, Latest!latestVars
<1>3. CASE Carries(e) /\ e.type # "delta"
    <2>1. e.type \in {"config", "users", "devices"}
        BY <1>1, <1>3 DEF MailboxEvents, Events
    <2>2. CASE e.type = "config"
        <3>1. box' = [box EXCEPT !.config = e.cfg, !.dirtyConfig = TRUE] /\ given' = given
            BY <1>3, <2>2 DEF Receive, Apply
        <3>2. /\ box'.config = e.cfg /\ box'.users = box.users /\ box'.devices = box.devices
              /\ box'.full = box.full /\ box'.reconcile = box.reconcile /\ e.cfg # 0
            BY <1>1, <1>3, <2>2, <3>1 DEF Mailboxes, Carries, NoCfg
        <3>3. Latest!Learn(e)
            BY <2>2, <3>1, <3>2
        <3> QED BY <3>3 DEF Latest!LatestNext
    <2>3. CASE e.type = "users"
        <3>1. box' = [box EXCEPT !.users = e.users, !.dirtyUsers = TRUE, !.full = TRUE]
              /\ given' = given
            BY <1>3, <2>3 DEF Receive, Apply
        <3>2. /\ box'.config = box.config /\ box'.users = e.users /\ box'.devices = box.devices
              /\ box'.full = TRUE /\ box'.reconcile = box.reconcile
              /\ e.users # Latest!NoUsers
            BY <1>1, <1>3, <2>3, <3>1, SameLists DEF Mailboxes, Carries
        <3>3. Latest!Learn(e)
            BY <2>3, <3>1, <3>2
        <3> QED BY <3>3 DEF Latest!LatestNext
    <2>4. CASE e.type = "devices"
        <3>1. box' = [box EXCEPT !.devices = e.devices, !.dirtyDevices = TRUE] /\ given' = given
            BY <1>3, <2>4 DEF Receive, Apply
        <3>2. /\ box'.config = box.config /\ box'.users = box.users /\ box'.devices = e.devices
              /\ box'.full = box.full /\ box'.reconcile = box.reconcile /\ e.devices # 0
            BY <1>1, <1>3, <2>4, <3>1 DEF Mailboxes, Carries, NoDevices
        <3>3. Latest!Learn(e)
            BY <2>4, <3>1, <3>2
        <3> QED BY <3>3 DEF Latest!LatestNext
    <2> QED BY <2>1, <2>2, <2>3, <2>4
<1>4. CASE Carries(e) /\ e.type = "delta"
    <2>1. /\ box' = ApplyDelta(box, e.action, e.users)
          /\ e.action \in DeltaActions /\ e.users # NoUsers /\ given' = given
        BY <1>1, <1>4 DEF Receive, Apply, Carries, MailboxEvents, Events
    <2>2. CASE ~box.full \/ e.action = "unknown"
        <3>1. box' = [box EXCEPT !.reconcile = TRUE]
            BY <2>1, <2>2, <1>1 DEF ApplyDelta, Mailboxes
        <3>2. Latest!MissChange(e)
            BY <1>1, <1>4, <2>1, <2>2, <3>1 DEF Mailboxes
        <3> QED BY <3>2 DEF Latest!LatestNext
    <2>3. CASE box.full /\ e.action = "add"
        <3>1. box' = [box EXCEPT !.users = Merge(box.users, e.users), !.dirtyUsers = TRUE]
            BY <2>1, <2>3 DEF ApplyDelta
        <3>2. Latest!Merge(box.users, e.users) = Merge(box.users, e.users)
            BY <1>1, <1>4, SameLists DEF MailboxEvents, Events, Mailboxes
        <3>3. /\ box'.config = box.config /\ box'.devices = box.devices
              /\ box'.users = Latest!Merge(box.users, e.users)
              /\ box'.full = box.full /\ box'.reconcile = box.reconcile
            BY <1>1, <3>1, <3>2 DEF Mailboxes
        <3>4. e.users # Latest!NoUsers
            BY <2>1, SameLists
        <3>5. Latest!LearnDelta(e)
            BY <1>4, <2>3, <3>3, <3>4
        <3>6. Latest!Learn(e)
            BY <2>1, <3>3, <3>5
        <3> QED BY <3>6 DEF Latest!LatestNext
    <2>4. CASE box.full /\ e.action = "remove"
        <3>1. box' = [box EXCEPT !.users = Subtract(box.users, e.users), !.dirtyUsers = TRUE]
            BY <2>1, <2>4 DEF ApplyDelta
        <3>2. Latest!Subtract(box.users, e.users) = Subtract(box.users, e.users)
            BY <1>1, <1>4, SameLists DEF MailboxEvents, Events, Mailboxes
        <3>3. /\ box'.config = box.config /\ box'.devices = box.devices
              /\ box'.users = Latest!Subtract(box.users, e.users)
              /\ box'.full = box.full /\ box'.reconcile = box.reconcile
            BY <1>1, <3>1, <3>2 DEF Mailboxes
        <3>4. e.users # Latest!NoUsers
            BY <2>1, SameLists
        <3>5. Latest!LearnDelta(e)
            BY <1>4, <2>4, <3>3, <3>4
        <3>6. Latest!Learn(e)
            BY <2>1, <3>3, <3>5
        <3> QED BY <3>6 DEF Latest!LatestNext
    <2> QED BY <2>1, <2>2, <2>3, <2>4 DEF DeltaActions
<1> QED BY <1>2, <1>3, <1>4

\* Every step of a mailbox is a step of LatestState or changes nothing there.
LEMMA StepRefines ==
    ASSUME MailboxTypeOK, CleanMeansGiven, [MailboxNext]_mailboxVars
    PROVE  [Latest!LatestNext]_(Latest!latestVars)
<1>1. CASE \E e \in MailboxInput : Receive(e)
    BY <1>1, ReceiveRefines
<1>2. CASE \E users \in Lists, config \in BaseConfigs : Seed(users, config)
    <2>1. PICK users \in Lists, config \in BaseConfigs : Seed(users, config)
        BY <1>2
    <2>2. box \in Mailboxes /\ given \in Given
        BY DEF MailboxTypeOK
    <2>3. /\ box'.users = IF users # NoUsers /\ ~box.full THEN users ELSE box.users
          /\ box'.config = IF box.config = 0 THEN config ELSE box.config
          /\ box'.devices = box.devices
          /\ box'.full = (box.full \/ users # NoUsers)
          /\ box'.reconcile = box.reconcile
        BY <2>1, <2>2 DEF Seed, SeedBaseline, Mailboxes, NoCfg
    <2>4. given' = [config  |-> IF box.config = 0 THEN config ELSE given.config,
                    users   |-> IF users # NoUsers /\ ~box.full THEN users ELSE given.users,
                    devices |-> given.devices]
        BY <2>1, <2>2 DEF Seed, NoCfg, Given
    <2>5. Latest!NoUsers = NoUsers
        BY SameLists
    <2>6. Latest!Agree(users, config)
        BY <2>3, <2>4, <2>5 DEF Latest!Agree
    <2> QED BY <2>6, SameLists DEF Latest!LatestNext
<1>3. CASE BecomeReady
    BY <1>3 DEF BecomeReady, MarkReady, MailboxTypeOK, Mailboxes, Latest!latestVars
<1>4. CASE Drain
    <2>1. box' = [box EXCEPT !.dirtyConfig = FALSE, !.dirtyUsers = FALSE,
                             !.dirtyDevices = FALSE, !.reconcile = FALSE]
        BY <1>4 DEF Drain, DrainIfReady, MailboxTypeOK
    <2>2. given' = [config |-> box.config, users |-> box.users, devices |-> box.devices]
        BY <1>4 DEF Drain, CleanMeansGiven
    <2>3. Latest!HandOver
        BY <2>1, <2>2 DEF Latest!HandOver, MailboxTypeOK, Mailboxes
    <2> QED BY <2>3 DEF Latest!LatestNext
<1>5. CASE Notify \/ WakeUp \/ UNCHANGED mailboxVars
    BY <1>5 DEF Notify, WakeUp, mailboxVars, Latest!latestVars
<1> QED BY <1>1, <1>2, <1>3, <1>4, <1>5 DEF MailboxNext

\* The mailbox implements LatestState, its fairness apart: whatever is handed
\* over is the newest state there is, of everything, for all sets of users,
\* events and initial snapshots.
THEOREM MailboxImplementsLatest == MailboxSpec => Latest!LatestSpec
<1>1. MailboxInit => Latest!LatestInit
    BY DEF MailboxInit, NewMailbox, Latest!LatestInit, Latest!Nowhere, NoCfg, NoDevices,
           NoUsers, Latest!NoUsers
<1>2. MailboxInit => CleanMeansGiven
    BY DEF MailboxInit, NewMailbox, CleanMeansGiven
<1>3. MailboxTypeOK /\ CleanMeansGiven /\ [MailboxNext]_mailboxVars
        => [Latest!LatestNext]_(Latest!latestVars)
    BY StepRefines
<1> QED
    BY <1>1, <1>2, <1>3, CleanStep, MailboxTypeCorrect, PTL DEF MailboxSpec, Latest!LatestSpec
=============================================================================
