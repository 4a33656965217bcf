----------------------------- MODULE NodeMailbox -----------------------------
(***************************************************************************)
(* A mailbox between the machine's WebSocket read goroutine, which applies *)
(* events to it, and the select loop of one node's service, which seeds    *)
(* it, marks it ready and then drains it whenever notifyCh has a token.    *)
(*                                                                         *)
(* Apply releases the mutex before it sends the token, and the loop takes  *)
(* the token before it drains: both are two steps here.                    *)
(***************************************************************************)
EXTENDS Mailbox

CONSTANTS
    MailboxInput,   \* events the WebSocket may bring
    BaseConfigs     \* configurations the first REST snapshot may have

ASSUME MailboxAssumption ==
    /\ MailboxInput \subseteq MailboxEvents
    /\ BaseConfigs \subseteq Nat

VARIABLES
    box,        \* the mailbox
    notifyCh,   \* is there a token in the channel (capacity 1)?
    posting,    \* the read goroutine is between m.mu.Unlock and m.notify
    loop,       \* the select loop: "boot", "seeded", "select" or "draining"
    given       \* history: the state the loop has from the mailbox or seeded it with

mailboxVars == <<box, notifyCh, posting, loop, given>>

Given == [config : Nat, users : Lists, devices : Nat]

MailboxInit ==
    /\ box = NewMailbox
    /\ notifyCh = FALSE
    /\ posting = FALSE
    /\ loop = "boot"
    /\ given = [config |-> NoCfg, users |-> NoUsers, devices |-> NoDevices]

-----------------------------------------------------------------------------
(* The read goroutine. *)

\* Mutant of Receive: a delta that cannot be applied wakes nobody.
Receive_ReconcileQuiet(e) ==
    /\ ~posting
    /\ box' = Apply(box, e)
    /\ posting' = (Carries(e) /\ box'.reconcile = box.reconcile)
    /\ UNCHANGED <<notifyCh, loop, given>>

\* onWSEvent: Apply up to the Unlock.
Receive(e) ==
    /\ ~posting
    /\ box' = Apply(box, e)
    /\ posting' = Carries(e)
    /\ UNCHANGED <<notifyCh, loop, given>>

\* notify: a token that is there already stands for this change as well.
Notify ==
    /\ posting
    /\ notifyCh' = TRUE
    /\ posting' = FALSE
    /\ UNCHANGED <<box, loop, given>>

-----------------------------------------------------------------------------
(* The select loop. *)

\* markMailboxReadyAndDrain seeds the mailbox with lastUsers and lastConfig.
Seed(users, config) ==
    /\ loop = "boot"
    /\ box' = SeedBaseline(box, users, config)
    /\ given' = [given EXCEPT
                    !.users  = IF users # NoUsers /\ ~box.full THEN users ELSE @,
                    !.config = IF box.config = NoCfg THEN config ELSE @]
    /\ loop' = "seeded"
    /\ UNCHANGED <<notifyCh, posting>>

\* MarkReady leaves a token; the first drain does not wait for it.
BecomeReady ==
    /\ loop = "seeded"
    /\ box' = MarkReady(box)
    /\ notifyCh' = TRUE
    /\ loop' = "draining"
    /\ UNCHANGED <<posting, given>>

WakeUp ==
    /\ loop = "select" /\ notifyCh
    /\ notifyCh' = FALSE
    /\ loop' = "draining"
    /\ UNCHANGED <<box, posting, given>>

Drain ==
    /\ loop = "draining"
    /\ box' = DrainIfReady(box)
    /\ given' = [config  |-> IF box.dirtyConfig THEN box.config ELSE given.config,
                 users   |-> IF box.dirtyUsers THEN box.users ELSE given.users,
                 devices |-> IF box.dirtyDevices THEN box.devices ELSE given.devices]
    /\ loop' = "select"
    /\ UNCHANGED <<notifyCh, posting>>

-----------------------------------------------------------------------------
MailboxNext ==
    \/ \E e \in MailboxInput : Receive(e)
    \/ Notify
    \/ \E users \in Lists, config \in BaseConfigs : Seed(users, config)
    \/ BecomeReady \/ WakeUp \/ Drain

MailboxSpec == MailboxInit /\ [][MailboxNext]_mailboxVars

\* The read goroutine and the loop run on; nothing is assumed of what arrives.
MailboxFairness ==
    /\ WF_mailboxVars(Notify)
    /\ WF_mailboxVars(\E users \in Lists, config \in BaseConfigs : Seed(users, config))
    /\ WF_mailboxVars(BecomeReady) /\ WF_mailboxVars(WakeUp) /\ WF_mailboxVars(Drain)

FairMailboxSpec == MailboxSpec /\ MailboxFairness

-----------------------------------------------------------------------------
(* Properties *)

\* The types of the mailbox, and that it is ready exactly when the loop has
\* got as far as draining it.
MailboxTypeOK ==
    /\ box \in Mailboxes
    /\ notifyCh \in BOOLEAN /\ posting \in BOOLEAN
    /\ loop \in {"boot", "seeded", "select", "draining"}
    /\ given \in Given
    /\ box.ready <=> loop \in {"select", "draining"}

\* What the mailbox owes a loop that waits in its select is announced: the
\* token is there, or the read goroutine is about to send it.
NoLostWakeup ==
    loop = "select" /\ Owes(box) => notifyCh \/ posting

\* The mailbox implements the promise of LatestState.
Latest == INSTANCE LatestState WITH
    want  <- [config |-> box.config, users |-> box.users, devices |-> box.devices],
    have  <- given,
    known <- box.full,
    gap   <- box.reconcile

\* Marks, token and two-step wake-ups hand over the newest state, whole, and
\* never hold it back for good (mailbox.go:21-22).
CoalescesToLatest == Latest!FairLatestSpec
=============================================================================
