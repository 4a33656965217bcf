---------------------------- MODULE SingBoxKernel ----------------------------
(***************************************************************************)
(* The user and configuration operations of the sing-box kernel            *)
(* (internal/kernel/singbox/singbox.go), as operators on a kernel record:  *)
(*                                                                         *)
(*   up      there is a box (IsRunning)                                    *)
(*   cfg     nodeConfig of the last Start or Reload that succeeded         *)
(*   cert    version of the TLS material it was given                      *)
(*   users   the users field: what the kernel believes it serves           *)
(*   admits  what the inbounds accept; differs from users after a failed   *)
(*           re-creation, which has already removed the inbound            *)
(*                                                                         *)
(* Every operation holds the kernel mutex, so it is one step.  It returns  *)
(* the set of its outcomes [ok, k]: more than one when the library below   *)
(* may fail.  KernelFaults names the failures considered:                  *)
(*   "start"     box.New or instance.Start fails; the old box stays        *)
(*   "prepare"   building or parsing options fails; nothing has changed    *)
(*   "recreate"  im.Remove succeeded and im.Create failed                  *)
(***************************************************************************)
EXTENDS UserLists, Naturals

CONSTANT KernelFaults

ASSUME KernelFaultKinds == KernelFaults \subseteq {"start", "prepare", "recreate"}

Kernels == [up : BOOLEAN, cfg : Nat, cert : Nat, users : Lists, admits : Lists]

\* stop() leaves the users and nodeConfig fields behind, but nothing reads
\* them before the next Start overwrites them.
Down == [up |-> FALSE, cfg |-> NoCfg, cert |-> 0,
         users |-> NoUsers, admits |-> NoUsers]

Done(k) == [ok |-> TRUE, k |-> k]

Failed(k) == [ok |-> FALSE, k |-> k]

Serving(cfg, users, cert) ==
    [up |-> TRUE, cfg |-> cfg, cert |-> cert, users |-> users, admits |-> users]

\* The old instance is replaced only after the new one has started.
Start(k, cfg, users, cert) ==
    {Done(Serving(cfg, users, cert))}
        \cup {Failed(k) : f \in KernelFaults \cap {"start"}}

\* How an update of the inbounds can go wrong half-way.
InboundFailures(k) ==
    {Failed(k) : f \in KernelFaults \cap {"prepare"}}
        \cup {Failed([k EXCEPT !.admits = NoUsers]) : f \in KernelFaults \cap {"recreate"}}

Reload(k, cfg, users, cert) ==
    IF k.up THEN {Done(Serving(cfg, users, cert))} \cup InboundFailures(k)
            ELSE {Failed(k)}

\* reloadInboundsLocked followed by the assignment to s.users
ReloadInbounds(k, users) ==
    {Done([k EXCEPT !.users = users, !.admits = users])} \cup InboundFailures(k)

\* Users whose ID the kernel already has are skipped, whatever their UUID.
AddUsers(k, delta) ==
    LET fresh == Members(delta) \ Members(k.users)
    IN  IF ~k.up THEN {Failed(k)}
        ELSE IF fresh = {} THEN {Done(k)}
        ELSE ReloadInbounds(k, Merge(k.users, Only(delta, fresh)))

RemoveUsers(k, delta) ==
    IF ~k.up THEN {Failed(k)}
    ELSE IF Members(k.users) \cap Members(delta) = {} THEN {Done(k)}
    ELSE ReloadInbounds(k, Subtract(k.users, delta))

\* When the kernel believes nothing changed, the inbounds are not touched.
UpdateUsers(k, users) ==
    IF ~k.up THEN {Failed(k)}
    ELSE IF ToAdd(k.users, users) \cup ToRemove(k.users, users) = {}
         THEN {Done([k EXCEPT !.users = users])}
    ELSE ReloadInbounds(k, users)
=============================================================================
