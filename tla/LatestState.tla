----------------------------- MODULE LatestState -----------------------------
(***************************************************************************)
(* What a mailbox promises its consumer ("Events are coalesced             *)
(* (latest-wins) and drained as a single snapshot", mailbox.go:21-22):     *)
(* whenever it hands something over, the consumer then has the newest      *)
(* state there is of everything at once, and knows if a change could not   *)
(* be made out; and whatever is new is handed over in the end.  There is   *)
(* nothing of marks, channels or wake-ups here.                            *)
(***************************************************************************)
EXTENDS PanelEvents

CONSTANTS
    MailboxInput,   \* events that can arrive
    BaseConfigs     \* configurations to start from

VARIABLES
    want,   \* the state the events so far amount to
    have,   \* the part of it the consumer has been given
    known,  \* is the list of users in want complete?
    gap     \* has a change been missed that the consumer was not told of?

latestVars == <<want, have, known, gap>>

Nowhere == [config |-> 0, users |-> NoUsers, devices |-> 0]

LatestInit ==
    /\ want = Nowhere /\ have = Nowhere
    /\ known = FALSE /\ gap = FALSE

LearnWhole(e) ==
    \/ /\ e.type = "config" /\ e.cfg # 0
       /\ want' = [want EXCEPT !.config = e.cfg] /\ UNCHANGED known
    \/ /\ e.type = "users" /\ e.users # NoUsers
       /\ want' = [want EXCEPT !.users = e.users] /\ known' = TRUE
    \/ /\ e.type = "devices" /\ e.devices # 0
       /\ want' = [want EXCEPT !.devices = e.devices] /\ UNCHANGED known

LearnDelta(e) ==
    /\ e.type = "delta" /\ e.users # NoUsers
    /\ known
    /\ \/ e.action = "add"    /\ want' = [want EXCEPT !.users = Merge(@, e.users)]
       \/ e.action = "remove" /\ want' = [want EXCEPT !.users = Subtract(@, e.users)]
    /\ UNCHANGED known

Learn(e) == (LearnWhole(e) \/ LearnDelta(e)) /\ UNCHANGED <<have, gap>>

MissChange(e) ==
    /\ e.type = "delta"
    /\ ~known \/ e.action = "unknown"
    /\ gap' = TRUE
    /\ UNCHANGED <<want, have, known>>

\* Mailbox and consumer agree on where to start from: on the users unless a
\* list is known, on the configuration unless there is one.
Agree(users, config) ==
    LET newUsers  == users # NoUsers /\ ~known
        newConfig == want.config = 0
        Started(state) ==
            [config  |-> IF newConfig THEN config ELSE state.config,
             users   |-> IF newUsers THEN users ELSE state.users,
             devices |-> state.devices]
    IN  /\ want' = Started(want)
        /\ have' = Started(have)
        /\ known' = (known \/ users # NoUsers)
        /\ UNCHANGED gap

HandOver ==
    /\ have' = want
    /\ gap' = FALSE
    /\ UNCHANGED <<want, known>>

LatestNext ==
    \/ \E e \in MailboxInput : Learn(e) \/ MissChange(e)
    \/ \E users \in Lists, config \in BaseConfigs : Agree(users, config)
    \/ HandOver

LatestSpec == LatestInit /\ [][LatestNext]_latestVars

FairLatestSpec == LatestSpec /\ WF_latestVars(HandOver)
=============================================================================
