----------------------------- MODULE XrayKernel -----------------------------
(***************************************************************************)
(* The user and configuration operations of the xray kernel                *)
(* (internal/kernel/xray/xray.go), as operators on a kernel record:        *)
(*                                                                         *)
(*   up      there is an instance (IsRunning)                              *)
(*   cfg     nodeConfig, cert its TLS material                             *)
(*   users   the users field: what the kernel believes it serves           *)
(*   hash    lastKernelHash: configuration and credentials of the last     *)
(*           Start; hot changes of the users leave it alone                *)
(*   admits  the accounts of the instance's user manager, keyed by email   *)
(*           (one per ID): what a client can log in with                   *)
(*   limits  the device limits its dispatcher was last handed, 0 for none  *)
(*                                                                         *)
(* Unlike the sing-box kernel this one changes accounts in the running     *)
(* instance where the protocol has a user manager (Managed), and starts a  *)
(* whole new instance otherwise.  An operation maps a record to the set of *)
(* its outcomes [ok, k].  Only the service's loop calls them, so each is   *)
(* one step although the mutex is released in between.                     *)
(***************************************************************************)
EXTENDS UserLists, Naturals

CONSTANTS DeviceLimits,   \* device limits a user can have, 0 for none
          Managed,        \* configurations whose protocol has a user manager
          StartFails      \* BOOLEAN: New or Start of an instance may fail

ASSUME StartFailsIsBoolean == StartFails \in BOOLEAN

\* A user here carries the credential and the device limit.
Specs == Uuids \X DeviceLimits

SpecLists == [UserIds -> Specs \cup {Absent}]

UuidsOf(list) == [i \in UserIds |-> IF list[i] = Absent THEN Absent ELSE list[i][1]]

LimitsOf(list) == [i \in UserIds |-> IF list[i] = Absent THEN 0 ELSE list[i][2]]

KernelHash(cfg, list) == <<cfg, UuidsOf(list)>>

New == [up |-> FALSE, cfg |-> NoCfg, cert |-> 0, users |-> NoUsers,
        hash |-> <<NoCfg, NoUsers>>, admits |-> NoUsers, limits |-> LimitsOf(NoUsers)]

\* getUserManager: whether the inbound's protocol can change its accounts.
HasUserManager(k) == k.cfg \in Managed

Done(k) == [ok |-> TRUE, k |-> k]

Failed(k) == [ok |-> FALSE, k |-> k]

\* Mutant of Start: the old instance is closed before the new one has started.
Start_CloseFirst(k, cfg, users, cert) ==
    {Done([up |-> TRUE, cfg |-> cfg, cert |-> cert, users |-> users,
           hash |-> KernelHash(cfg, users), admits |-> UuidsOf(users),
           limits |-> LimitsOf(users)])}
        \cup {Failed([k EXCEPT !.up = FALSE]) : f \in {TRUE} \cap {StartFails}}

\* The old instance is replaced only after the new one has started.
Start(k, cfg, users, cert) ==
    {Done([up |-> TRUE, cfg |-> cfg, cert |-> cert, users |-> users,
           hash |-> KernelHash(cfg, users), admits |-> UuidsOf(users),
           limits |-> LimitsOf(users)])}
        \cup {Failed(k) : f \in {TRUE} \cap {StartFails}}

\* The limits go to the dispatcher that is there, before anything else.
Reload(k, cfg, users, cert) ==
    LET limited == [k EXCEPT !.limits = LimitsOf(users)]
    IN  IF k.hash = KernelHash(cfg, users) /\ k.cert = cert
        THEN {Done([limited EXCEPT !.users = users])}
        ELSE Start(limited, cfg, users, cert)

\* The fields other than instance and limitDispatcher keep their values.
Stop(k) == [k EXCEPT !.up = FALSE, !.admits = NoUsers, !.limits = LimitsOf(NoUsers)]

\* Bookkeeping after a hot change: users, and the limits of all of them.
Recorded(k, users) == [k EXCEPT !.users = users, !.limits = LimitsOf(users)]

\* um.AddUser refuses an email that exists; the error is only logged.
Added(k, list, ids) ==
    [k EXCEPT !.admits = [i \in UserIds |->
        IF i \in ids /\ k.admits[i] = Absent THEN UuidsOf(list)[i] ELSE k.admits[i]]]

Removed(k, ids) ==
    [k EXCEPT !.admits = [i \in UserIds |-> IF i \in ids THEN Absent ELSE k.admits[i]]]

\* Mutant of AddUsers: only the limits of the delta reach the dispatcher.
AddUsers_DeltaLimits(k, delta) ==
    LET merged == Merge(k.users, delta)
        fresh  == Members(delta) \ Members(k.users)
    IN  IF ~k.up THEN {Failed(k)}
        ELSE IF fresh = {} THEN {Done(Recorded(k, merged))}
        ELSE IF HasUserManager(k)
        THEN {Done([Recorded(Added(k, delta, fresh), merged) EXCEPT !.limits = LimitsOf(delta)])}
        ELSE Start(k, k.cfg, merged, k.cert)

\* Known IDs only have their properties overwritten, credential included.
AddUsers(k, delta) ==
    LET merged == Merge(k.users, delta)
        fresh  == Members(delta) \ Members(k.users)
    IN  IF ~k.up THEN {Failed(k)}
        ELSE IF fresh = {} THEN {Done(Recorded(k, merged))}
        ELSE IF HasUserManager(k) THEN {Done(Recorded(Added(k, delta, fresh), merged))}
        ELSE Start(k, k.cfg, merged, k.cert)

\* Removing the last user stops the kernel.
RemoveUsers(k, delta) ==
    LET kept == Subtract(k.users, delta)
    IN  IF ~k.up THEN {Failed(k)}
        ELSE IF kept = k.users THEN {Done(k)}
        ELSE IF kept = NoUsers THEN {Done(Stop(k))}
        ELSE IF HasUserManager(k) THEN {Done(Recorded(Removed(k, Members(delta)), kept))}
        ELSE Start(k, k.cfg, kept, k.cert)

\* Mutant of UpdateUsers: users that left keep their account.
UpdateUsers_AddOnly(k, users) ==
    LET toAdd    == ToAdd(UuidsOf(k.users), UuidsOf(users))
        toRemove == ToRemove(k.users, users)
    IN  IF ~k.up THEN {Failed(k)}
        ELSE IF toAdd \cup toRemove = {} THEN {Done(Recorded(k, users))}
        ELSE IF HasUserManager(k) THEN {Done(Recorded(Added(k, users, toAdd), users))}
        ELSE Start(k, k.cfg, users, k.cert)

\* UserDiff puts a user whose credential changed into toAdd only, so its email
\* is still there when AddUser is tried.
UpdateUsers(k, users) ==
    LET toAdd    == ToAdd(UuidsOf(k.users), UuidsOf(users))
        toRemove == ToRemove(k.users, users)
    IN  IF ~k.up THEN {Failed(k)}
        ELSE IF toAdd \cup toRemove = {} THEN {Done(Recorded(k, users))}
        ELSE IF HasUserManager(k)
        THEN {Done(Recorded(Added(Removed(k, toRemove), users, toAdd), users))}
        ELSE Start(k, k.cfg, users, k.cert)
=============================================================================
