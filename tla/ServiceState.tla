---------------------------- MODULE ServiceState ----------------------------
(***************************************************************************)
(* What the service's select loop does to its own state when it handles    *)
(* one item (internal/service/service.go).  Only that goroutine reads or   *)
(* writes this state, so a whole handler is one step.  The state is a      *)
(* record:                                                                 *)
(*                                                                         *)
(*   cfg      lastConfig (and lastConfigHash); NoCfg is nil.  A             *)
(*            configuration is numbered by the edit that made it, and two  *)
(*            of the same Content are one and the same to the program      *)
(*   users    lastUsers (and lastUserHash)                                 *)
(*   applied  appliedState: the configuration and users recorded as        *)
(*            running in the kernel                                        *)
(*   k        the kernel                                                   *)
(*                                                                         *)
(* A handler is an operator from a record, its input and the current TLS   *)
(* material to the set of records it may leave behind.                     *)
(***************************************************************************)
EXTENDS SingBoxKernel

CONSTANTS Content(_),   \* what computeConfigHash and an ETag tell of a configuration
          Unrunnable,   \* configurations validateNodeRuntime rejects
          Nil           \* "nothing was fetched"

States == [cfg : Nat, users : Lists,
           applied : [cfg : Nat, users : Lists], k : Kernels]

Fresh == [cfg |-> NoCfg, users |-> NoUsers,
          applied |-> [cfg |-> NoCfg, users |-> NoUsers], k |-> Down]

\* startKernel; .ok is its boolean result.
StartKernel(s, cfg, users, cert) ==
    {[ok |-> o.ok,
      s  |-> IF o.ok
             THEN [s EXCEPT !.k = o.k, !.applied = [cfg |-> cfg, users |-> users]]
             ELSE [s EXCEPT !.k = o.k]] : o \in Start(s.k, cfg, users, cert)}

EnsureRunning(s, cert) ==
    IF s.k.up THEN {[ok |-> TRUE, s |-> s]}
    ELSE IF s.users # NoUsers /\ s.cfg # NoCfg
         THEN StartKernel(s, s.cfg, s.users, cert)
    ELSE {[ok |-> FALSE, s |-> s]}

\* The part of applyUserUpdate after ensureRunning: prepareUserState, the hot
\* swap, a restart when it fails, restoreUserState when that fails too.
SwapUsers(s, users, cert) ==
    LET ready == [s EXCEPT !.users = users]
        Fallback(k) == {IF o.ok THEN o.s ELSE [o.s EXCEPT !.users = s.users] :
                          o \in StartKernel([ready EXCEPT !.k = k], s.cfg, users, cert)}
    IN  UNION {IF o.ok THEN {[ready EXCEPT !.k = o.k]} ELSE Fallback(o.k) :
                 o \in UpdateUsers(s.k, users)}

\* A list that arrives while the kernel cannot be started is dropped.
ApplyUserUpdate(s, users, cert) ==
    UNION {IF o.ok THEN SwapUsers(o.s, users, cert) ELSE {o.s} :
             o \in EnsureRunning(s, cert)}

\* Mutant of FinishDelta: the list stays on record although both calls failed.
FinishDelta_NotRestored(s, users, outcomes) ==
    LET ready == [s EXCEPT !.users = users]
        Last(o) == IF o.ok THEN {o} ELSE UpdateUsers(o.k, users)
    IN  UNION {{[ready EXCEPT !.k = r.k] : r \in Last(o)} : o \in outcomes}

\* The common tail of a delta: the kernel call (its outcomes), then UpdateUsers
\* with the whole list when it failed, then restoreUserState.
FinishDelta(s, users, outcomes) ==
    LET ready == [s EXCEPT !.users = users]
        Fallback(k) == {IF o.ok THEN [ready EXCEPT !.k = o.k] ELSE [s EXCEPT !.k = o.k] :
                          o \in UpdateUsers(k, users)}
    IN  UNION {IF o.ok THEN {[ready EXCEPT !.k = o.k]} ELSE Fallback(o.k) :
                 o \in outcomes}

\* The kernels that remove a user's old credential first may leave: the error
\* of that call is ignored.  A delta carries at most one such user here.
DropReplaced(s, delta) ==
    LET replaced == {i \in Members(s.users) \cap Members(delta) : s.users[i] # delta[i]}
    IN  IF replaced = {} THEN {s.k}
        ELSE {o.k : o \in RemoveUsers(s.k, Only(s.users, replaced))}

\* merged is computed before ensureRunning, from the same lastUsers.
ApplyDeltaAdd(s, delta, cert) ==
    UNION {IF ~o.ok THEN {o.s}
           ELSE UNION {FinishDelta([o.s EXCEPT !.k = k], Merge(s.users, delta),
                                   AddUsers(k, delta)) : k \in DropReplaced(o.s, delta)} :
             o \in EnsureRunning(s, cert)}

ApplyDeltaRemove(s, delta) ==
    IF s.k.up
    THEN FinishDelta(s, Subtract(s.users, delta), RemoveUsers(s.k, delta))
    ELSE {s}

\* applyChanges with configChanged = TRUE, the only way it is called.
ApplyChanges(s, cert) ==
    IF s.users = NoUsers
    THEN {[s EXCEPT !.k = Down, !.applied.users = NoUsers]}
    ELSE IF s.cfg = NoCfg THEN {s}
    ELSE IF s.k.up
    THEN UNION {IF o.ok
                THEN {[s EXCEPT !.k = o.k, !.applied = [cfg |-> s.cfg, users |-> s.users]]}
                ELSE {r.s : r \in StartKernel([s EXCEPT !.k = o.k], s.cfg, s.users, cert)} :
                  o \in Reload(s.k, s.cfg, s.users, cert)}
    ELSE {r.s : r \in StartKernel(s, s.cfg, s.users, cert)}

\* handleWSEvent, sync.config
SyncConfig(s, cfg, cert) ==
    IF Content(cfg) = Content(s.cfg) \/ cfg \in Unrunnable THEN {s}
    ELSE ApplyChanges([s EXCEPT !.cfg = cfg], cert)

\* handleWSEvent, sync.users
SyncUsers(s, users, cert) ==
    IF users = s.users THEN {s} ELSE ApplyUserUpdate(s, users, cert)

\* handleWSEvent, sync.user.delta; an unknown action is only logged
SyncDelta(s, action, delta, cert) ==
    CASE action = "add"    -> ApplyDeltaAdd(s, delta, cert)
      [] action = "remove" -> ApplyDeltaRemove(s, delta)
      [] OTHER             -> {s}

\* applyPullResult: users that come with a configuration change are stored and
\* handed to the kernel by applyChanges, others go through applyUserUpdate.
AdoptPull(s, result, cert) ==
    LET accepted      == result.cfg # NoCfg /\ result.cfg \notin Unrunnable
        configChanged == result.certChanged \/ accepted
        usersChanged  == result.users # Nil /\ result.users # s.users
        withCfg       == IF accepted THEN [s EXCEPT !.cfg = result.cfg] ELSE s
    IN  IF configChanged
        THEN ApplyChanges(IF usersChanged THEN [withCfg EXCEPT !.users = result.users]
                                          ELSE withCfg, cert)
        ELSE IF usersChanged THEN ApplyUserUpdate(s, result.users, cert)
        ELSE {s}
=============================================================================
