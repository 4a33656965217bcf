------------------------------ MODULE XrayNode ------------------------------
(***************************************************************************)
(* A node with the xray kernel: the handlers of the service's select loop  *)
(* (internal/service/service.go) around the operations of XrayKernel.      *)
(* What reaches the handlers, and in which order, is left open: any list,  *)
(* delta or configuration the panel may send, from events and pulls alike  *)
(* (PullLoop and PushNode model how they arrive).  Each handler is one     *)
(* step of the loop.  The node's record:                                   *)
(*                                                                         *)
(*   cfg, users   lastConfig and lastUsers                                 *)
(*   k            the kernel                                               *)
(***************************************************************************)
EXTENDS XrayKernel

CONSTANTS Configs,       \* configurations the panel can send
          Overtaken,     \* BOOLEAN: pulls may bring what already runs, with other users
          MaxFailures,   \* bound on starts that fail
          MaxRenewals    \* bound on certificates issued

ASSUME ConfigsArePositive == Configs \subseteq Nat \ {NoCfg}

ASSUME BoundsAreNatural == MaxFailures \in Nat /\ MaxRenewals \in Nat

VARIABLES node,
          cert,       \* version of the node's TLS material
          handled,    \* what the last step handled
          rekeyed,    \* users whose credential a whole list changed under a
                      \* running instance since that started
          failures    \* steps in which an instance failed to start

xrayVars == <<node, cert, handled, rekeyed, failures>>

XrayInit ==
    /\ node = [cfg |-> NoCfg, users |-> NoUsers, k |-> New]
    /\ cert = 0
    /\ handled = "nothing"
    /\ rekeyed = {}
    /\ failures = 0

\* What startKernel and ensureRunning leave: .ok is their result, .failed that
\* an instance did not start on the way.
StartKernel(s, cfg, users) ==
    {[ok |-> o.ok, s |-> [s EXCEPT !.k = o.k], failed |-> ~o.ok] :
       o \in Start(s.k, cfg, users, cert)}

Settled(s) == [ok |-> TRUE, s |-> s, failed |-> FALSE]

EnsureRunning(s) ==
    IF s.k.up THEN {Settled(s)}
    ELSE IF s.users # NoUsers /\ s.cfg # NoCfg THEN StartKernel(s, s.cfg, s.users)
    ELSE {[ok |-> FALSE, s |-> s, failed |-> FALSE]}

\* outcomes of a kernel call, those that fail handed on to Fallback(k).  A call
\* on a kernel that is up fails when an instance does not start.
OrElse(s, outcomes, Fallback(_)) ==
    UNION {IF o.ok THEN {Settled([s EXCEPT !.k = o.k])}
           ELSE {[r EXCEPT !.failed = @ \/ o.k.up] : r \in Fallback(o.k)} : o \in outcomes}

\* applyUserUpdate after ensureRunning
SwapUsers(s, users) ==
    OrElse([s EXCEPT !.users = users], UpdateUsers(s.k, users),
           LAMBDA k : {IF r.ok THEN r ELSE [r EXCEPT !.s.users = s.users] :
                         r \in StartKernel([s EXCEPT !.users = users, !.k = k], s.cfg, users)})

\* The end of a delta: UpdateUsers when the first call fails, then
\* restoreUserState.
FinishDelta(s, users, outcomes) ==
    OrElse([s EXCEPT !.users = users], outcomes,
           LAMBDA k : {IF o.ok THEN Settled([s EXCEPT !.users = users, !.k = o.k])
                       ELSE Settled([s EXCEPT !.k = o.k]) : o \in UpdateUsers(k, users)})

\* Users in both lists with different credentials.
Rekeyed(old, new) ==
    {i \in Members(old) \cap Members(new) : UuidsOf(old)[i] # UuidsOf(new)[i]}

\* A user whose credential a delta replaces is removed first; the error of
\* that call is ignored.
DropReplaced(s, delta) ==
    LET replaced == Rekeyed(s.users, delta)
    IN  IF replaced = {} THEN {Done(s.k)} ELSE RemoveUsers(s.k, Only(s.users, replaced))

ApplyUsers(s, users) ==
    UNION {IF ~e.ok THEN {e}
           ELSE {[r EXCEPT !.failed = @ \/ e.failed] : r \in SwapUsers(e.s, users)} :
             e \in EnsureRunning(s)}

ApplyAdd(s, delta) ==
    UNION {IF ~e.ok THEN {e}
           ELSE UNION {{[r EXCEPT !.failed = @ \/ ~o.ok] :
                          r \in FinishDelta([e.s EXCEPT !.k = o.k], Merge(s.users, delta),
                                            AddUsers(o.k, delta))} :
                         o \in DropReplaced(e.s, delta)} :
             e \in EnsureRunning(s)}

ApplyRemove(s, delta) ==
    IF s.k.up THEN FinishDelta(s, Subtract(s.users, delta), RemoveUsers(s.k, delta))
              ELSE {Settled(s)}

\* applyChanges
ApplyConfig(s) ==
    IF s.users = NoUsers THEN {Settled([s EXCEPT !.k = Stop(s.k)])}
    ELSE IF s.cfg = NoCfg THEN {Settled(s)}
    ELSE IF s.k.up
    THEN OrElse(s, Reload(s.k, s.cfg, s.users, cert),
                LAMBDA k : StartKernel([s EXCEPT !.k = k], s.cfg, s.users))
    ELSE StartKernel(s, s.cfg, s.users)

-----------------------------------------------------------------------------
Handle(what, results) ==
    \E r \in results :
        /\ node' = r.s
        /\ failures' = IF r.failed THEN failures + 1 ELSE failures
        /\ failures' <= MaxFailures
        /\ handled' = what
        /\ rekeyed' = IF what \in {"config", "pull"} THEN {}
                      ELSE (rekeyed \cup (IF what = "users" /\ node.cfg \in Managed
                                          THEN Rekeyed(node.users, r.s.users) ELSE {}))
                           \cap Members(r.s.users)
        /\ UNCHANGED cert

SyncUsers ==
    \E users \in SpecLists \ {node.users} : Handle("users", ApplyUsers(node, users))

DeltaAdd ==
    \E i \in UserIds, spec \in Specs :
        Handle("add", ApplyAdd(node, [NoUsers EXCEPT ![i] = spec]))

DeltaRemove ==
    \E i \in UserIds, spec \in Specs :
        Handle("remove", ApplyRemove(node, [NoUsers EXCEPT ![i] = spec]))

SyncConfig ==
    \E cfg \in Configs \ {node.cfg} :
        Handle("config", ApplyConfig([node EXCEPT !.cfg = cfg]))

\* A pull that brings a configuration, a renewed certificate or both, and
\* possibly users: these are only recorded and left to applyChanges.  A pull
\* that events have overtaken may bring what is running already.
ApplyPull ==
    \E cfg \in Configs, users \in SpecLists :
        /\ Overtaken \/ cfg # node.cfg \/ cert # node.k.cert
        /\ Handle("pull", ApplyConfig([node EXCEPT !.cfg = cfg, !.users = users]))

Renewal ==
    /\ cert < MaxRenewals
    /\ cert' = cert + 1
    /\ handled' = "renewal"
    /\ UNCHANGED <<node, rekeyed, failures>>

XrayNext == SyncUsers \/ DeltaAdd \/ DeltaRemove \/ SyncConfig \/ ApplyPull \/ Renewal

XraySpec == XrayInit /\ [][XrayNext]_xrayVars

-----------------------------------------------------------------------------
(* Properties *)

\* While no instance has failed to start, a running kernel has the service's
\* configuration, an account for exactly the users the service records, with
\* their current credentials, and the device limits of all of them, whatever
\* mixture of lists, deltas and restarts led there.  The one exception are
\* users to whom a whole list gave another credential under a running
\* instance: "Remove first, then add (order matters for UUID changes on same
\* ID)" (xray.go:468) finds nothing to remove for them, so they keep the
\* account they had.
AccountsInStep ==
    failures = 0 /\ node.k.up =>
        /\ node.k.cfg = node.cfg
        /\ Members(node.k.admits) = Members(node.users)
        /\ \A i \in UserIds \ rekeyed : node.k.admits[i] = UuidsOf(node.users)[i]
        /\ node.k.limits = LimitsOf(node.users)

\* A user that a list or a delta takes off the service's record is locked out
\* by the same step, also after an instance failed to start.  After two such
\* failures it may not be: hot changes leave lastKernelHash alone, so that a
\* Reload back to an older list takes the instance for one that has it, and
\* forgets the accounts added since.
RevokedAtOnce ==
    [][handled' \in {"users", "remove"} =>
         \A i \in Members(node.users) \ Members(node'.users) :
             i \notin Members(node'.k.admits)]_xrayVars

\* "if StartNew fails, the old instance is untouched" (xray.go:110): a running
\* kernel goes down only when the last user leaves the service's list, or a
\* delta takes away the one user of the kernel's own.
StaysUp ==
    [][node.k.up /\ ~node'.k.up =>
         \/ node'.users = NoUsers
         \/ handled' \in {"add", "remove"} /\ \E i \in UserIds : Members(node.k.users) = {i}]_xrayVars
=============================================================================
