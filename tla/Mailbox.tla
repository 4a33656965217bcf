------------------------------- MODULE Mailbox -------------------------------
(***************************************************************************)
(* NodeMailbox (internal/controlplane/mailbox.go) as a record and the      *)
(* operators on it.  Each one is a critical section of NodeMailbox.mu; the *)
(* wake-up that follows Apply and MarkReady is left to the caller.         *)
(*                                                                         *)
(*   config, users, devices    the latest state; a nil slice of users is   *)
(*                             NoUsers, a nil map of devices NoDevices     *)
(*   full                      hasFullUserState                            *)
(*   dirtyConfig, dirtyUsers, dirtyDevices, reconcile, ready               *)
(***************************************************************************)
EXTENDS PanelEvents

\* Global device states are numbered; NoDevices is a nil map.
NoDevices == 0

DevicesEvent(devices) == [type |-> "devices", devices |-> devices]

MailboxEvents == Events \cup [type : {"devices"}, devices : Nat]

Mailboxes ==
    [config : Nat, users : Lists, devices : Nat, full : BOOLEAN,
     dirtyConfig : BOOLEAN, dirtyUsers : BOOLEAN, dirtyDevices : BOOLEAN,
     reconcile : BOOLEAN, ready : BOOLEAN]

NewMailbox ==
    [config |-> NoCfg, users |-> NoUsers, devices |-> NoDevices, full |-> FALSE,
     dirtyConfig |-> FALSE, dirtyUsers |-> FALSE, dirtyDevices |-> FALSE,
     reconcile |-> FALSE, ready |-> FALSE]

\* Mutant of SeedBaseline: users an event has set are seeded over.
SeedBaseline_Always(m, users, config) ==
    [m EXCEPT !.users  = IF users # NoUsers THEN users ELSE m.users,
              !.full   = m.full \/ users # NoUsers,
              !.config = IF m.config = NoCfg THEN config ELSE m.config]

\* Only what no event has set is seeded, and no users are not a base.
SeedBaseline(m, users, config) ==
    [m EXCEPT !.users  = IF users # NoUsers /\ ~m.full THEN users ELSE m.users,
              !.full   = m.full \/ users # NoUsers,
              !.config = IF m.config = NoCfg THEN config ELSE m.config]

MarkReady(m) == [m EXCEPT !.ready = TRUE]

\* Mutant of ApplyDelta: the changed list is not marked.
ApplyDelta_Unmarked(m, action, delta) ==
    CASE ~m.full -> [m EXCEPT !.reconcile = TRUE]
      [] m.full /\ action = "add" -> [m EXCEPT !.users = Merge(m.users, delta)]
      [] m.full /\ action = "remove" -> [m EXCEPT !.users = Subtract(m.users, delta)]
      [] m.full /\ action = "unknown" -> [m EXCEPT !.reconcile = TRUE]

\* A delta needs a full list to be applied to, and an action that is known.
ApplyDelta(m, action, delta) ==
    CASE ~m.full -> [m EXCEPT !.reconcile = TRUE]
      [] m.full /\ action = "add" ->
            [m EXCEPT !.users = Merge(m.users, delta), !.dirtyUsers = TRUE]
      [] m.full /\ action = "remove" ->
            [m EXCEPT !.users = Subtract(m.users, delta), !.dirtyUsers = TRUE]
      [] m.full /\ action = "unknown" -> [m EXCEPT !.reconcile = TRUE]

\* An event without its payload changes nothing.
Carries(e) ==
    CASE e.type = "config"  -> e.cfg # NoCfg
      [] e.type = "users"   -> e.users # NoUsers
      [] e.type = "devices" -> e.devices # NoDevices
      [] e.type = "delta"   -> e.users # NoUsers

Apply(m, e) ==
    IF ~Carries(e) THEN m ELSE
    CASE e.type = "config" -> [m EXCEPT !.config = e.cfg, !.dirtyConfig = TRUE]
      [] e.type = "users" ->
            [m EXCEPT !.users = e.users, !.dirtyUsers = TRUE, !.full = TRUE]
      [] e.type = "devices" -> [m EXCEPT !.devices = e.devices, !.dirtyDevices = TRUE]
      [] e.type = "delta" -> ApplyDelta(m, e.action, e.users)

\* The mailbox after a drain; what was dirty has been handed over.  A config
\* or devices that are dirty are never nil.
DrainIfReady(m) ==
    IF m.ready THEN [m EXCEPT !.dirtyConfig = FALSE, !.dirtyUsers = FALSE,
                              !.dirtyDevices = FALSE, !.reconcile = FALSE]
               ELSE m

\* Is there anything to hand over?
Owes(m) == m.dirtyConfig \/ m.dirtyUsers \/ m.dirtyDevices \/ m.reconcile
=============================================================================
