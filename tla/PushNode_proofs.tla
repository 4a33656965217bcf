--------------------------- MODULE PushNode_proofs ---------------------------
(***************************************************************************)
(* Theorems about PullLoop and about PushNode, which extends it, for every *)
(* value of their constants: types, the exclusion of pulls, the order of   *)
(* configurations, the renewal flag, and the kernel against the record the *)
(* service keeps, by what may fail.                                        *)
(***************************************************************************)
EXTENDS PushNode, SequenceTheorems, TLAPS

-----------------------------------------------------------------------------
(* User lists *)

\* The operations on lists yield lists.
LEMMA ListClosure ==
    ASSUME NEW base \in Lists, NEW delta \in Lists
    PROVE  /\ NoUsers \in Lists
           /\ Merge(base, delta) \in Lists
           /\ Subtract(base, delta) \in Lists
           /\ \A ids : Only(base, ids) \in Lists
BY DEF Lists, NoUsers, Merge, Subtract, Only

-----------------------------------------------------------------------------
(* The kernel.  Outcome types, and what may happen to the configuration.   *)

\* An outcome of a call on kernel k: the kernel is well-typed, and if it is up
\* it runs either k's configuration, k being up, or cfg.
Outcome(o, k, cfg) ==
    /\ o.ok \in BOOLEAN
    /\ o.k \in Kernels
    /\ o.k.up => o.k.cfg = cfg \/ (k.up /\ o.k.cfg = k.cfg)

\* Start, Reload and UpdateUsers configure the kernel with what they are given
\* or leave its configuration alone.
LEMMA StartOutcome ==
    ASSUME NEW k \in Kernels, NEW cfg \in Nat, NEW users \in Lists, NEW tls \in Nat,
           NEW o \in Start(k, cfg, users, tls)
    PROVE  Outcome(o, k, cfg)
<1>1. \/ o = Done(Serving(cfg, users, tls))
      \/ o = Failed(k)
  BY DEF Start
<1>2. Serving(cfg, users, tls) \in Kernels
  BY DEF Serving, Kernels
<1>3. CASE o = Done(Serving(cfg, users, tls))
  BY <1>2, <1>3 DEF Outcome, Done, Serving
<1>4. CASE o = Failed(k)
  BY <1>4 DEF Outcome, Failed, Kernels
<1> QED BY <1>1, <1>3, <1>4

\* An update of the inbounds that goes wrong leaves the configuration alone.
LEMMA InboundFailureOutcome ==
    ASSUME NEW k \in Kernels, NEW cfg \in Nat, NEW o \in InboundFailures(k)
    PROVE  Outcome(o, k, cfg)
<1> DEFINE emptied == [k EXCEPT !.admits = NoUsers]
<1>1. o = Failed(k) \/ o = Failed(emptied)
  BY DEF InboundFailures
<1>2. NoUsers \in Lists
  BY DEF NoUsers, Lists
<1>3. emptied \in Kernels /\ emptied.up = k.up /\ emptied.cfg = k.cfg
  BY <1>2 DEF Kernels
<1> HIDE DEF emptied
<1>4. CASE o = Failed(k)
  BY <1>4 DEF Outcome, Failed, Kernels
<1>5. CASE o = Failed(emptied)
  BY <1>3, <1>5 DEF Outcome, Failed, Kernels
<1> QED BY <1>1, <1>4, <1>5

\* Reload puts the kernel on the configuration it is given, or not.
LEMMA ReloadOutcome ==
    ASSUME NEW k \in Kernels, NEW cfg \in Nat, NEW users \in Lists, NEW tls \in Nat,
           NEW o \in Reload(k, cfg, users, tls)
    PROVE  Outcome(o, k, cfg)
<1>1. CASE o \in InboundFailures(k)
  BY <1>1, InboundFailureOutcome
<1>2. CASE o \notin InboundFailures(k)
  <2>1. o = Done(Serving(cfg, users, tls)) \/ o = Failed(k)
    BY <1>2 DEF Reload
  <2>2. Serving(cfg, users, tls) \in Kernels
    BY DEF Serving, Kernels
  <2>3. CASE o = Done(Serving(cfg, users, tls))
    BY <2>2, <2>3 DEF Outcome, Done, Serving
  <2>4. CASE o = Failed(k)
    BY <2>4 DEF Outcome, Failed, Kernels
  <2> QED BY <2>1, <2>3, <2>4
<1> QED BY <1>1, <1>2

\* UpdateUsers never touches the configuration.
LEMMA UpdateUsersOutcome ==
    ASSUME NEW k \in Kernels, NEW users \in Lists, NEW o \in UpdateUsers(k, users),
           NEW cfg \in Nat
    PROVE  Outcome(o, k, cfg)
<1>1. CASE o \in InboundFailures(k)
  BY <1>1, InboundFailureOutcome
<1>2. CASE o \notin InboundFailures(k)
  <2> DEFINE believed == [k EXCEPT !.users = users]
             admitted == [k EXCEPT !.users = users, !.admits = users]
  <2>1. o \in {Failed(k), Done(believed), Done(admitted)}
    BY <1>2 DEF UpdateUsers, ReloadInbounds
  <2>2. /\ {believed, admitted} \subseteq Kernels
        /\ believed.up = k.up /\ believed.cfg = k.cfg
        /\ admitted.up = k.up /\ admitted.cfg = k.cfg
    BY DEF Kernels
  <2> HIDE DEF believed, admitted
  <2>3. CASE o = Failed(k)
    BY <2>3 DEF Outcome, Failed, Kernels
  <2>4. CASE o = Done(believed)
    BY <2>2, <2>4 DEF Outcome, Done, Kernels
  <2>5. CASE o = Done(admitted)
    BY <2>2, <2>5 DEF Outcome, Done, Kernels
  <2> QED BY <2>1, <2>3, <2>4, <2>5
<1> QED BY <1>1, <1>2

-----------------------------------------------------------------------------
(* The handlers. *)

\* What a handler may turn s into: the same configuration on record, and a
\* running kernel has that one or the one it had.
Successor(t, s) ==
    /\ t \in States
    /\ t.cfg = s.cfg
    /\ t.k.up => t.k.cfg = s.cfg \/ (s.k.up /\ t.k.cfg = s.k.cfg)

\* startKernel records nothing but what it started, and only when it did.
LEMMA StartKernelSuccessor ==
    ASSUME NEW s \in States, NEW users \in Lists, NEW tls \in Nat,
           NEW r \in StartKernel(s, s.cfg, users, tls)
    PROVE  r.ok \in BOOLEAN /\ Successor(r.s, s) /\ r.s.users = s.users
<1>1. PICK o \in Start(s.k, s.cfg, users, tls) :
          r = [ok |-> o.ok,
               s  |-> IF o.ok
                      THEN [s EXCEPT !.k = o.k, !.applied = [cfg |-> s.cfg, users |-> users]]
                      ELSE [s EXCEPT !.k = o.k]]
  BY DEF StartKernel
<1>2. s.k \in Kernels /\ s.cfg \in Nat
  BY DEF States
<1>3. Outcome(o, s.k, s.cfg)
  BY <1>2, StartOutcome
<1> QED
  BY <1>1, <1>2, <1>3 DEF Outcome, Successor, States

\* ensureRunning starts the kernel on what the service has recorded, or not.
LEMMA EnsureRunningSuccessor ==
    ASSUME NEW s \in States, NEW tls \in Nat, NEW r \in EnsureRunning(s, tls)
    PROVE  r.ok \in BOOLEAN /\ Successor(r.s, s) /\ r.s.users = s.users
<1>1. CASE r \in StartKernel(s, s.cfg, s.users, tls)
  BY <1>1, StartKernelSuccessor DEF States
<1>2. CASE r \notin StartKernel(s, s.cfg, s.users, tls)
  <2>1. r = [ok |-> TRUE, s |-> s] \/ r = [ok |-> FALSE, s |-> s]
    BY <1>2 DEF EnsureRunning
  <2>2. r.s = s
    BY <2>1
  <2>3. r.ok = TRUE \/ r.ok = FALSE
    BY <2>1
  <2>4. Successor(s, s)
    BY DEF Successor, States, Kernels
  <2> QED BY <2>2, <2>3, <2>4
<1> QED BY <1>1, <1>2

\* A hot swap of the users, with its restart and its restoration, keeps the
\* recorded configuration.
LEMMA SwapUsersSuccessor ==
    ASSUME NEW s \in States, NEW users \in Lists, NEW tls \in Nat,
           NEW t \in SwapUsers(s, users, tls)
    PROVE  Successor(t, s)
<1> DEFINE ready == [s EXCEPT !.users = users]
<1>1. PICK o \in UpdateUsers(s.k, users) :
          t \in IF o.ok THEN {[ready EXCEPT !.k = o.k]}
                ELSE {IF r.ok THEN r.s ELSE [r.s EXCEPT !.users = s.users] :
                        r \in StartKernel([ready EXCEPT !.k = o.k], s.cfg, users, tls)}
  BY DEF SwapUsers
<1>2. s.k \in Kernels /\ s.cfg \in Nat /\ s.users \in Lists
  BY DEF States
<1>3. Outcome(o, s.k, s.cfg)
  BY <1>2, UpdateUsersOutcome
<1> DEFINE mid == [ready EXCEPT !.k = o.k]
<1>4. mid \in States /\ Successor(mid, s) /\ mid.cfg = s.cfg
  BY <1>3 DEF Outcome, Successor, States
<1>5. CASE o.ok
  BY <1>1, <1>4, <1>5
<1>6. CASE ~o.ok
  <2>1. PICK r \in StartKernel(mid, mid.cfg, users, tls) :
            t = IF r.ok THEN r.s ELSE [r.s EXCEPT !.users = s.users]
    BY <1>1, <1>4, <1>6
  <2>2. Successor(r.s, mid)
    BY <1>4, StartKernelSuccessor
  <2> HIDE DEF mid
  <2> QED BY <2>1, <2>2, <1>2, <1>4 DEF Successor, States
<1> QED BY <1>5, <1>6

\* So does the whole of applyUserUpdate.
LEMMA ApplyUserUpdateSuccessor ==
    ASSUME NEW s \in States, NEW users \in Lists, NEW tls \in Nat,
           NEW t \in ApplyUserUpdate(s, users, tls)
    PROVE  Successor(t, s)
<1>1. PICK r \in EnsureRunning(s, tls) :
          t \in IF r.ok THEN SwapUsers(r.s, users, tls) ELSE {r.s}
  BY DEF ApplyUserUpdate
<1>2. Successor(r.s, s) /\ r.s \in States
  BY EnsureRunningSuccessor DEF Successor
<1>3. CASE r.ok
  <2>1. Successor(t, r.s)
    BY <1>1, <1>2, <1>3, SwapUsersSuccessor
  <2> QED BY <1>2, <2>1 DEF Successor
<1>4. CASE ~r.ok
  BY <1>1, <1>2, <1>4
<1> QED BY <1>3, <1>4

\* applyChanges leaves the recorded configuration alone and the kernel, if it is
\* up, on that one or on the one it ran before.
LEMMA ApplyChangesSuccessor ==
    ASSUME NEW s \in States, NEW tls \in Nat, NEW t \in ApplyChanges(s, tls)
    PROVE  Successor(t, s)
<1>1. s.k \in Kernels /\ s.cfg \in Nat /\ s.users \in Lists
  BY DEF States
<1>2. CASE s.users = NoUsers
  <2>1. t = [s EXCEPT !.k = Down, !.applied.users = NoUsers]
    BY <1>2 DEF ApplyChanges
  <2>2. Down \in Kernels
    BY <1>1, ListClosure DEF Down, Kernels, NoCfg
  <2> QED BY <1>1, <1>2, <2>1, <2>2 DEF Successor, States, Down
<1>3. CASE s.users # NoUsers /\ s.cfg = NoCfg
  BY <1>3 DEF ApplyChanges, Successor
<1>4. CASE s.users # NoUsers /\ s.cfg # NoCfg /\ s.k.up
  <2>1. PICK o \in Reload(s.k, s.cfg, s.users, tls) :
            t \in IF o.ok
                  THEN {[s EXCEPT !.k = o.k, !.applied = [cfg |-> s.cfg, users |-> s.users]]}
                  ELSE {r.s : r \in StartKernel([s EXCEPT !.k = o.k], s.cfg, s.users, tls)}
    BY <1>4 DEF ApplyChanges
  <2>2. Outcome(o, s.k, s.cfg)
    BY <1>1, ReloadOutcome
  <2> DEFINE mid == [s EXCEPT !.k = o.k]
  <2>3. mid \in States /\ Successor(mid, s) /\ mid.cfg = s.cfg
    BY <2>2 DEF Outcome, Successor, States
  <2>4. CASE o.ok
    <3>1. t = [mid EXCEPT !.applied = [cfg |-> s.cfg, users |-> s.users]]
      BY <2>1, <2>4
    <3> HIDE DEF mid
    <3> QED BY <1>1, <2>3, <3>1 DEF Successor, States
  <2>5. CASE ~o.ok
    <3>1. PICK r \in StartKernel(mid, mid.cfg, s.users, tls) : t = r.s
      BY <2>1, <2>3, <2>5
    <3>2. Successor(t, mid)
      BY <1>1, <2>3, <3>1, StartKernelSuccessor
    <3> HIDE DEF mid
    <3> QED BY <2>3, <3>2 DEF Successor
  <2> QED BY <2>4, <2>5
<1>5. CASE s.users # NoUsers /\ s.cfg # NoCfg /\ ~s.k.up
  <2>1. PICK r \in StartKernel(s, s.cfg, s.users, tls) : t = r.s
    BY <1>5 DEF ApplyChanges
  <2> QED BY <1>1, <2>1, StartKernelSuccessor
<1> QED BY <1>2, <1>3, <1>4, <1>5

\* applyPullResult records the configuration of the result or keeps the one it
\* has, and the kernel runs that one or the one it ran before.
LEMMA AdoptPullSuccessor ==
    ASSUME NEW s \in States, NEW result \in Results, NEW tls \in Nat,
           NEW t \in AdoptPull(s, result, tls)
    PROVE  /\ t \in States
           /\ t.cfg = s.cfg \/ (result.cfg # NoCfg /\ t.cfg = result.cfg)
           /\ t.k.up => t.k.cfg = t.cfg \/ (s.k.up /\ t.k.cfg = s.k.cfg)
<1> DEFINE accepted      == result.cfg # NoCfg /\ result.cfg \notin Unrunnable
           configChanged == result.certChanged \/ accepted
           usersChanged  == result.users # Nil /\ result.users # s.users
           withCfg       == IF accepted THEN [s EXCEPT !.cfg = result.cfg] ELSE s
           given         == IF usersChanged THEN [withCfg EXCEPT !.users = result.users]
                                            ELSE withCfg
<1>1. /\ result.cfg \in Nat
      /\ usersChanged => result.users \in Lists
  BY DEF Results
<1>2. /\ withCfg \in States
      /\ withCfg.k = s.k
      /\ withCfg.cfg = s.cfg \/ (result.cfg # NoCfg /\ withCfg.cfg = result.cfg)
  BY <1>1 DEF States
<1>3. given \in States /\ given.k = s.k /\ given.cfg = withCfg.cfg
  <2> HIDE DEF withCfg
  <2> QED BY <1>1, <1>2 DEF States
<1>4. t \in IF configChanged THEN ApplyChanges(given, tls)
            ELSE IF usersChanged THEN ApplyUserUpdate(s, result.users, tls)
            ELSE {s}
  BY DEF AdoptPull
<1> HIDE DEF accepted, configChanged, usersChanged, withCfg, given
<1>5. CASE configChanged
  <2>1. Successor(t, given)
    BY <1>3, <1>4, <1>5, ApplyChangesSuccessor
  <2> QED BY <1>2, <1>3, <2>1 DEF Successor
<1>6. CASE ~configChanged /\ usersChanged
  <2>1. Successor(t, s)
    BY <1>1, <1>4, <1>6, ApplyUserUpdateSuccessor
  <2> QED BY <2>1 DEF Successor
<1>7. CASE ~configChanged /\ ~usersChanged
  BY <1>4, <1>7 DEF States
<1> QED BY <1>5, <1>6, <1>7

-----------------------------------------------------------------------------
(* The inductive invariant. *)

\* While a poll runs no failure is on record, so a failure always counts from
\* zero and never makes the loop skip more than one tick.
BackoffShort ==
    /\ backoff \in {0, 1}
    /\ \A g \in Pulls : pull[g].stage \in {"config", "users"} => backoff = 0

\* Configurations on their way to the kernel are in the order the panel issued
\* them: running, on record, waiting in the channel, fetched, current.
InOrder ==
    /\ svc.cfg <= pcfg
    /\ svc.k.up => svc.k.cfg <= svc.cfg
    /\ \A i \in DOMAIN results :
          results[i].cfg # NoCfg => svc.cfg <= results[i].cfg /\ results[i].cfg <= pcfg
    /\ \A g \in Pulls :
          pull[g].stage \in {"users", "send"} /\ pull[g].cfg # NoCfg =>
              /\ svc.cfg <= pull[g].cfg /\ pull[g].cfg <= pcfg
              /\ \A i \in DOMAIN results : results[i].cfg <= pull[g].cfg

\* The state initialSetup leaves is well-typed and runs what it records.
LEMMA BootstrappedType ==
    ASSUME NEW cfg \in Nat, NEW users \in Lists
    PROVE  /\ Bootstrapped(cfg, users) \in States
           /\ Bootstrapped(cfg, users).cfg = cfg
           /\ Bootstrapped(cfg, users).k.up => Bootstrapped(cfg, users).k.cfg = cfg
<1>1. NoUsers \in Lists /\ NoCfg \in Nat
  BY ListClosure DEF NoUsers, Lists, NoCfg
<1> HIDE DEF NoUsers, Lists, NoCfg
<1>2. Down \in Kernels /\ Down.up = FALSE
  BY <1>1 DEF Down, Kernels
<1>3. Serving(cfg, users, 0) \in Kernels /\ Serving(cfg, users, 0).cfg = cfg
  BY DEF Serving, Kernels
<1> DEFINE s == [Fresh EXCEPT !.cfg = cfg, !.users = users]
<1>4. s \in States /\ s.cfg = cfg /\ s.k.up = FALSE
  BY <1>1, <1>2 DEF Fresh, States
<1> HIDE DEF s
<1>5. CASE users = NoUsers
  BY <1>4, <1>5 DEF Bootstrapped, s
<1>6. CASE users # NoUsers
  <2>1. Bootstrapped(cfg, users) = [s EXCEPT !.k = Serving(cfg, users, 0),
                                        !.applied = [cfg |-> cfg, users |-> users]]
    BY <1>6 DEF Bootstrapped, s
  <2> DEFINE k == Serving(cfg, users, 0)
  <2>2. k \in Kernels /\ k.cfg = cfg
    BY <1>3
  <2> HIDE DEF k
  <2>3. [s EXCEPT !.k = k, !.applied = [cfg |-> cfg, users |-> users]] \in States
    BY <1>4, <2>2 DEF States
  <2>4. /\ [s EXCEPT !.k = k, !.applied = [cfg |-> cfg, users |-> users]].k = k
        /\ [s EXCEPT !.k = k, !.applied = [cfg |-> cfg, users |-> users]].cfg = cfg
    BY <1>4 DEF States
  <2> QED BY <2>1, <2>2, <2>3, <2>4 DEF k
<1> QED BY <1>5, <1>6

\* What the handlers that start pulls do to PullLoop's variables: one call of
\* pullViaAPIAsync, or two.
Pulling ==
    /\ \E n \in {1, 2} : PullCalls(n)
    /\ UNCHANGED <<panelVars, clientVars, certVars, svc, results>>

PullNext == Next \/ Pulling

\* All four invariants hold when the bootstrap is over.
LEMMA InitType == Init => TypeOK /\ SingleFlight /\ BackoffShort /\ InOrder
<1> SUFFICES ASSUME Init PROVE TypeOK /\ SingleFlight /\ BackoffShort /\ InOrder
  OBVIOUS
<1> USE DEF Init, PullInit
<1>1. pusers \in Lists
  BY PullAssumption
<1>2. /\ svc \in States /\ svc.cfg = 1
      /\ svc.k.up => svc.k.cfg = 1
  BY <1>1, BootstrappedType
<1>3. Idle \in Goroutines
  BY DEF Idle, Goroutines, Stages, NoCfg
<1>4. pull \in [Pulls -> Goroutines] /\ \A g \in Pulls : pull[g].stage = "idle"
  BY <1>3 DEF Idle
<1>5. ctag \in Nat /\ utag \in Lists \cup {Nil}
  BY <1>1 DEF NoCfg
<1>6. results \in Seq(Results) /\ Len(results) = 0 /\ DOMAIN results = {}
  OBVIOUS
<1>7. TypeOK
  <2>1. pcfg \in Nat \ {NoCfg} /\ backoff \in 0..8
    BY DEF NoCfg
  <2>2. cert \in Nat /\ {edits, faults, renewals} \subseteq Nat
    OBVIOUS
  <2>3. pullActive \in BOOLEAN /\ renewed \in BOOLEAN
    BY Zenon
  <2>4. Len(results) <= ResultsCap
    BY <1>6 DEF ResultsCap
  <2> QED BY <1>1, <1>2, <1>4, <1>5, <1>6, <2>1, <2>2, <2>3, <2>4 DEF TypeOK
<1>8. SingleFlight /\ BackoffShort
  BY <1>4 DEF SingleFlight, BackoffShort
<1>9. InOrder
  BY <1>2, <1>4, <1>6 DEF InOrder
<1> QED BY <1>7, <1>8, <1>9

\* Of the calls in one handler at most one gets through, with a fresh counter.
LEMMA PullingEffect ==
    ASSUME BackoffShort, Pulling
    PROVE  \/ UNCHANGED <<pull, pullActive, renewed>> /\ backoff' \in {backoff, 0}
           \/ ~pullActive /\ backoff' = 0 /\ \E g \in Pulls : Spawn(g, svc.cfg)
BY DEF Pulling, PullCalls, PullCallsAt, InFlight, Skipped, BackoffShort

\* Every step keeps the types.
LEMMA TypeStep == TypeOK /\ BackoffShort /\ [PullNext]_vars => TypeOK'
<1> SUFFICES ASSUME TypeOK, BackoffShort, [PullNext]_vars PROVE TypeOK'
  OBVIOUS
<1> USE DEF TypeOK
<1>1. CASE PanelEdits
  <2>1. pcfg' \in Nat \ {NoCfg} /\ pusers' \in Lists /\ edits' \in Nat
    BY <1>1, PullAssumption DEF PanelEdits, EditConfig, EditUsers, NoCfg
  <2> QED BY <1>1, <2>1 DEF PanelEdits, clientVars, certVars
<1>2. CASE CertRenewal
  BY <1>2 DEF CertRenewal, panelVars, clientVars
<1>3. CASE Pulling
  <2>1. UNCHANGED <<panelVars, clientVars, certVars, svc, results>>
    BY <1>3 DEF Pulling
  <2>2. CASE UNCHANGED <<pull, pullActive, renewed>> /\ backoff' \in {backoff, 0}
    BY <2>1, <2>2 DEF panelVars, clientVars, certVars
  <2>3. CASE ~pullActive /\ backoff' = 0 /\ \E g \in Pulls : Spawn(g, svc.cfg)
    <3>1. PICK g \in Pulls : Spawn(g, svc.cfg)
      BY <2>3
    <3> DEFINE started == [Idle EXCEPT !.stage = "config", !.hash = svc.cfg,
                                       !.certChanged = renewed]
    <3>2. started \in Goroutines
      BY DEF Idle, Goroutines, Stages, NoCfg, States
    <3>3. pull' \in [Pulls -> Goroutines] /\ pullActive' \in BOOLEAN /\ renewed' \in BOOLEAN
      BY <3>1, <3>2 DEF Spawn
    <3> QED BY <2>1, <2>3, <3>3 DEF panelVars, clientVars, certVars
  <2> QED BY <1>3, <2>2, <2>3, PullingEffect
<1>4. CASE ApplyPullResult
  <2>1. Head(results) \in Results /\ results' \in Seq(Results) /\ Len(results') <= ResultsCap
    BY <1>4 DEF ApplyPullResult, ResultsCap
  <2>2. svc' \in States
    BY <1>4, <2>1, AdoptPullSuccessor DEF ApplyPullResult
  <2> QED BY <1>4, <2>1, <2>2 DEF ApplyPullResult, panelVars, clientVars, certVars
<1>5. ASSUME NEW g \in Pulls, Fetch(g) PROVE TypeOK'
  <2>1. CASE FetchConfig(g)
    <3> DEFINE fetched == IF Content(ctag) = Content(pcfg) THEN NoCfg ELSE pcfg
    <3>1. ctag' \in Nat /\ fetched \in Nat
      BY <2>1 DEF FetchConfig, NoCfg
    <3>2. pull' = [pull EXCEPT ![g].stage = "users", ![g].cfg = fetched]
      BY <2>1 DEF FetchConfig
    <3> HIDE DEF fetched
    <3>3. pull' \in [Pulls -> Goroutines]
      BY <3>1, <3>2 DEF Goroutines, Stages
    <3> QED BY <1>5, <2>1, <3>1, <3>3 DEF Fetch, FetchConfig, panelVars, certVars
  <2>2. ASSUME PollFailed(g)
        PROVE  /\ backoff' \in 0..8
               /\ pull' \in [Pulls -> Goroutines]
    <3>1. backoff' \in 0..8
      BY <2>2 DEF PollFailed, OnFailure, BackoffShort
    <3>2. [Idle EXCEPT !.stage = "exit"] \in Goroutines
      BY DEF Idle, Goroutines, Stages, NoCfg
    <3> QED BY <2>2, <3>1, <3>2 DEF PollFailed
  <2>3. CASE FetchUsers(g)
    <3>1. utag' \in Lists \cup {Nil}
      BY <2>3 DEF FetchUsers
    <3>2. /\ backoff' \in 0..8
          /\ pull' \in [Pulls -> Goroutines]
      <4>1. CASE pull[g].cfg \in Malformed
        BY <2>2, <2>3, <4>1 DEF FetchUsers
      <4>2. CASE pull[g].cfg \notin Malformed
        <5>1. Reported(g) \in Nat
          BY DEF Reported, Goroutines, NoCfg
        <5> DEFINE fetched == IF utag = pusers THEN Nil ELSE pusers
                   reported == Reported(g)
        <5>2. fetched \in Lists \cup {Nil} /\ reported \in Nat
          BY <5>1
        <5>3. /\ pull' = [pull EXCEPT ![g].stage = "send", ![g].cfg = reported,
                                      ![g].users = fetched]
              /\ backoff' = 0
          BY <2>3, <4>2 DEF FetchUsers
        <5> HIDE DEF fetched, reported
        <5>4. pull[g] \in Goroutines
          OBVIOUS
        <5> DEFINE sending == [pull[g] EXCEPT !.stage = "send", !.cfg = reported,
                                              !.users = fetched]
        <5>5. sending \in Goroutines
          BY <5>2, <5>4 DEF Goroutines, Stages
        <5>6. pull' = [pull EXCEPT ![g] = sending]
          BY <5>3
        <5> HIDE DEF sending
        <5>7. pull' \in [Pulls -> Goroutines]
          BY <5>5, <5>6
        <5> QED BY <5>3, <5>7
      <4> QED BY <4>1, <4>2
    <3> QED BY <1>5, <2>3, <3>1, <3>2 DEF Fetch, FetchUsers, panelVars, certVars
  <2>4. CASE RequestFails(g)
    BY <1>5, <2>2, <2>4 DEF Fetch, RequestFails, panelVars, certVars
  <2> QED BY <1>5, <2>1, <2>3, <2>4 DEF Fetch
<1>6. ASSUME NEW g \in Pulls, Deliver(g) PROVE TypeOK'
  <2> DEFINE r == [cfg |-> pull[g].cfg, users |-> pull[g].users,
                   certChanged |-> pull[g].certChanged]
  <2>1. r \in Results
    BY DEF Results, Goroutines
  <2>2. results' \in Seq(Results) /\ Len(results') <= ResultsCap
    BY <1>6, <2>1 DEF Deliver, ResultsCap
  <2>3. [Idle EXCEPT !.stage = "exit"] \in Goroutines
    BY DEF Idle, Goroutines, Stages, NoCfg
  <2> QED BY <1>6, <2>2, <2>3 DEF Deliver, panelVars, clientVars, certVars
<1>7. ASSUME NEW g \in Pulls, Exit(g) PROVE TypeOK'
  <2>1. Idle \in Goroutines
    BY DEF Idle, Goroutines, Stages, NoCfg
  <2> QED BY <1>7, <2>1 DEF Exit, panelVars, clientVars, certVars
<1>8. CASE UNCHANGED vars
  BY <1>8 DEF vars, panelVars, clientVars, certVars
<1> QED BY <1>1, <1>2, <1>3, <1>4, <1>5, <1>6, <1>7, <1>8 DEF Next, PullNext, Pulling, PullTick

\* A goroutine that polls, delivers or exits is the only one there is.
LEMMA OthersIdle ==
    ASSUME SingleFlight, NEW g \in Pulls, pull[g].stage # "idle"
    PROVE  pullActive /\ \A h \in Pulls \ {g} : pull[h].stage = "idle"
BY DEF SingleFlight

\* No goroutine changes the stage of another, and none becomes idle but by Exit.
LEMMA FetchEffect ==
    ASSUME TypeOK, NEW g \in Pulls, Fetch(g)
    PROVE  /\ pull[g].stage \in {"config", "users"}
           /\ pullActive' = pullActive
           /\ pull'[g].stage \in {"users", "send", "exit"}
           /\ \A h \in Pulls \ {g} : pull'[h] = pull[h]
<1>1. \A h \in Pulls \ {g} : pull'[h] = pull[h]
  BY DEF Fetch, FetchConfig, FetchUsers, RequestFails, PollFailed, TypeOK
<1>2. pull[g].stage \in {"config", "users"}
  BY PullAssumption DEF Fetch, FetchConfig, FetchUsers, RequestFails
<1>3. pull'[g].stage \in {"users", "send", "exit"}
  BY DEF Fetch, FetchConfig, FetchUsers, RequestFails, PollFailed, TypeOK, Goroutines, Idle
<1> QED BY <1>1, <1>2, <1>3 DEF Fetch

\* Mutual exclusion of the pull goroutines by pullActive.
LEMMA SingleFlightStep == TypeOK /\ SingleFlight /\ [PullNext]_vars => SingleFlight'
<1> SUFFICES ASSUME TypeOK, SingleFlight, [PullNext]_vars PROVE SingleFlight'
  OBVIOUS
<1>1. CASE UNCHANGED <<pull, pullActive>>
  BY <1>1 DEF SingleFlight
<1>2. CASE Pulling
  <2>1. CASE \E g \in Pulls : ~pullActive /\ Spawn(g, svc.cfg)
    <3>1. PICK g \in Pulls : ~pullActive /\ Spawn(g, svc.cfg)
      BY <2>1
    <3>2. \A h \in Pulls : pull[h].stage = "idle"
      BY <3>1 DEF SingleFlight
    <3>3. pullActive' = TRUE /\ \A h \in Pulls \ {g} : pull'[h] = pull[h]
      BY <3>1 DEF Spawn, TypeOK
    <3> QED BY <3>2, <3>3 DEF SingleFlight
  <2>2. CASE ~\E g \in Pulls : ~pullActive /\ Spawn(g, svc.cfg)
    BY <1>1, <1>2, <2>2 DEF Pulling, PullCalls, PullCallsAt, InFlight
  <2> QED BY <2>1, <2>2
<1>3. ASSUME NEW g \in Pulls, Fetch(g) PROVE SingleFlight'
  BY <1>3, FetchEffect, OthersIdle DEF SingleFlight
<1>4. ASSUME NEW g \in Pulls, Deliver(g) PROVE SingleFlight'
  <2>1. pull[g].stage = "send" /\ pullActive' = pullActive
    BY <1>4 DEF Deliver
  <2>2. \A h \in Pulls \ {g} : pull'[h] = pull[h]
    BY <1>4 DEF Deliver, TypeOK
  <2> QED BY <2>1, <2>2, OthersIdle DEF SingleFlight
<1>5. ASSUME NEW g \in Pulls, Exit(g) PROVE SingleFlight'
  <2>1. pull[g].stage = "exit"
    BY <1>5 DEF Exit
  <2>2. \A h \in Pulls : pull'[h].stage = "idle"
    BY <1>5, <2>1, OthersIdle DEF Exit, TypeOK, Idle
  <2> QED BY <2>2 DEF SingleFlight
<1>6. CASE PanelEdits \/ CertRenewal \/ ApplyPullResult \/ UNCHANGED vars
  BY <1>1, <1>6 DEF PanelEdits, CertRenewal, ApplyPullResult, vars
<1> QED BY <1>2, <1>3, <1>4, <1>5, <1>6 DEF Next, PullNext, Pulling, PullTick

\* The backoff counter, by single flight: only the poll that fails raises it,
\* and it was zero when that poll was let through.
LEMMA BackoffStep == TypeOK /\ SingleFlight /\ BackoffShort /\ [PullNext]_vars => BackoffShort'
<1> SUFFICES ASSUME TypeOK, SingleFlight, BackoffShort, [PullNext]_vars PROVE BackoffShort'
  OBVIOUS
<1>1. CASE UNCHANGED <<pull, backoff>>
  BY <1>1 DEF BackoffShort
<1>2. CASE Pulling
  <2>1. CASE InFlight
    BY <1>1, <1>2, <2>1 DEF Pulling, PullCalls, PullCallsAt
  <2>2. CASE ~InFlight
    <3>1. backoff' = 0
      BY <1>2, <2>2 DEF Pulling, PullCalls, PullCallsAt, Skipped, BackoffShort
    <3> QED BY <3>1 DEF BackoffShort
  <2> QED BY <2>1, <2>2
<1>3. ASSUME NEW g \in Pulls, Fetch(g) PROVE BackoffShort'
  <2>1. backoff = 0
    BY <1>3, FetchEffect DEF BackoffShort
  <2>2. \A h \in Pulls \ {g} : pull'[h].stage = "idle"
    BY <1>3, FetchEffect, OthersIdle
  <2>3. \/ backoff' = 0
        \/ backoff' = 1 /\ pull'[g].stage = "exit"
    BY <1>3, <2>1
    DEF Fetch, FetchConfig, FetchUsers, RequestFails, PollFailed, OnFailure, TypeOK, Idle
  <2> QED BY <2>2, <2>3 DEF BackoffShort
<1>4. ASSUME NEW g \in Pulls, Deliver(g) PROVE BackoffShort'
  <2>1. backoff' = backoff /\ \A h \in Pulls : h # g => pull'[h] = pull[h]
    BY <1>4 DEF Deliver, TypeOK
  <2>2. pull'[g].stage = "exit"
    BY <1>4 DEF Deliver, TypeOK, Idle
  <2> QED BY <2>1, <2>2 DEF BackoffShort
<1>5. ASSUME NEW g \in Pulls, Exit(g) PROVE BackoffShort'
  <2>1. backoff' = backoff /\ \A h \in Pulls : h # g => pull'[h] = pull[h]
    BY <1>5 DEF Exit, TypeOK
  <2>2. pull'[g].stage = "idle"
    BY <1>5 DEF Exit, TypeOK, Idle
  <2> QED BY <2>1, <2>2 DEF BackoffShort
<1>6. CASE PanelEdits \/ CertRenewal \/ ApplyPullResult \/ UNCHANGED vars
  BY <1>1, <1>6 DEF PanelEdits, CertRenewal, ApplyPullResult, vars
<1> QED BY <1>2, <1>3, <1>4, <1>5, <1>6 DEF Next, PullNext, Pulling, PullTick

\* The state of the service stays well-typed, and so does everything it shares.
THEOREM TypeCorrect == Spec => []TypeOK
<1>1. TypeOK /\ SingleFlight /\ BackoffShort /\ [Next]_vars
        => (TypeOK /\ SingleFlight /\ BackoffShort)'
  BY TypeStep, SingleFlightStep, BackoffStep DEF PullNext
<1> QED BY InitType, <1>1, PTL DEF Spec

\* At most one pull goroutine exists, whatever the interleaving: pullActive is
\* a lock, although it is released by another goroutine than the one that took it.
THEOREM PullsExclude == Spec => []SingleFlight
<1>1. TypeOK /\ SingleFlight /\ [Next]_vars => SingleFlight'
  BY SingleFlightStep DEF PullNext
<1> QED BY InitType, TypeCorrect, <1>1, PTL DEF Spec

\* The "exponential" backoff never skips more than one tick.
THEOREM BackoffNeverGrows == Spec => []BackoffShort
<1>1. TypeOK /\ SingleFlight /\ BackoffShort /\ [Next]_vars => BackoffShort'
  BY BackoffStep DEF PullNext
<1> QED BY InitType, TypeCorrect, PullsExclude, <1>1, PTL DEF Spec

-----------------------------------------------------------------------------
(* Configurations do not overtake each other. *)

\* The step of applyPullResult keeps the order, and moves the recorded and the
\* running configuration forward only.
LEMMA ApplyInOrder ==
    ASSUME TypeOK, InOrder, ApplyPullResult
    PROVE  /\ svc'.cfg >= svc.cfg /\ svc'.cfg <= pcfg
           /\ svc'.k.up => svc'.k.cfg <= svc'.cfg
           /\ svc.k.up /\ svc'.k.up => svc'.k.cfg >= svc.k.cfg
           /\ \A g \in Pulls :
                pull[g].stage \in {"users", "send"} /\ pull[g].cfg # NoCfg =>
                    svc'.cfg <= pull[g].cfg
<1> DEFINE r == Head(results)
<1>1. r \in Results /\ 1 \in DOMAIN results /\ r = results[1]
  BY DEF ApplyPullResult, TypeOK
<1>2. svc' \in AdoptPull(svc, r, cert) /\ svc \in States /\ cert \in Nat
  BY DEF ApplyPullResult, TypeOK
<1> HIDE DEF r
<1>3. /\ svc' \in States
      /\ svc'.cfg = svc.cfg \/ (r.cfg # NoCfg /\ svc'.cfg = r.cfg)
      /\ svc'.k.up => svc'.k.cfg = svc'.cfg \/ (svc.k.up /\ svc'.k.cfg = svc.k.cfg)
  BY <1>1, <1>2, AdoptPullSuccessor
<1>4. /\ {svc.cfg, svc'.cfg, r.cfg, pcfg} \subseteq Nat
      /\ {svc.k.cfg, svc'.k.cfg} \subseteq Nat
      /\ \A g \in Pulls : pull[g].cfg \in Nat
  <2>1. \A s \in States : s.cfg \in Nat /\ s.k.cfg \in Nat
    BY DEF States, Kernels
  <2>2. r.cfg \in Nat
    BY <1>1 DEF Results
  <2> QED BY <1>2, <1>3, <2>1, <2>2 DEF TypeOK, Goroutines
<1>5. svc'.cfg >= svc.cfg /\ svc'.cfg <= pcfg
  BY <1>1, <1>3, <1>4 DEF InOrder
<1>6. svc.k.up => svc.k.cfg <= svc.cfg
  BY DEF InOrder
<1>7. svc'.k.up => svc'.k.cfg <= svc'.cfg
  BY <1>3, <1>4, <1>5, <1>6
<1>8. svc.k.up /\ svc'.k.up => svc'.k.cfg >= svc.k.cfg
  BY <1>3, <1>4, <1>5, <1>6
<1>9. ASSUME NEW g \in Pulls, pull[g].stage \in {"users", "send"}, pull[g].cfg # NoCfg
      PROVE  svc'.cfg <= pull[g].cfg
  BY <1>1, <1>3, <1>4, <1>9 DEF InOrder
<1> QED BY <1>5, <1>7, <1>8, <1>9

\* No step puts a configuration out of order: by single flight, what is in flight
\* is at least as new as what waits in the channel.
LEMMA InOrderStep == TypeOK /\ SingleFlight /\ InOrder /\ [Next]_vars => InOrder'
<1> SUFFICES ASSUME TypeOK, SingleFlight, InOrder, [Next]_vars PROVE InOrder'
  OBVIOUS
<1>0. /\ pcfg \in Nat /\ svc.cfg \in Nat /\ svc.k.cfg \in Nat
      /\ \A g \in Pulls : pull[g].cfg \in Nat
      /\ \A i \in DOMAIN results : results[i].cfg \in Nat
  <2>1. pcfg \in Nat /\ svc.cfg \in Nat /\ svc.k.cfg \in Nat
    BY DEF TypeOK, States, Kernels
  <2>2. \A g \in Pulls : pull[g].cfg \in Nat
    BY DEF TypeOK, Goroutines
  <2>3. \A i \in DOMAIN results : results[i] \in Results
    BY DEF TypeOK
  <2> QED BY <2>1, <2>2, <2>3 DEF Results
<1>1. CASE UNCHANGED <<svc, results, pcfg, pull>>
  BY <1>1 DEF InOrder
<1>2. CASE PanelEdits
  <2>1. UNCHANGED <<svc, results, pull>> /\ (pcfg' = pcfg \/ pcfg' = pcfg + 1)
    BY <1>2 DEF PanelEdits, EditConfig, EditUsers
  <2> QED BY <1>0, <2>1 DEF InOrder
<1>3. CASE PullTick
  <2>1. UNCHANGED <<svc, results, pcfg>>
    BY <1>3 DEF PullTick, panelVars
  <2>2. CASE \E g \in Pulls : Spawn(g, svc.cfg)
    <3>1. PICK g \in Pulls : Spawn(g, svc.cfg)
      BY <2>2
    <3>2. pull'[g].stage = "config" /\ \A h \in Pulls \ {g} : pull'[h] = pull[h]
      BY <3>1 DEF Spawn, TypeOK, Idle
    <3> QED BY <2>1, <3>2 DEF InOrder
  <2>3. CASE ~\E g \in Pulls : Spawn(g, svc.cfg)
    BY <1>1, <1>3, <2>1, <2>3 DEF PullTick, PullCalls, PullCallsAt
  <2> QED BY <2>2, <2>3
<1>4. CASE ApplyPullResult
  <2>1. results' = <<>> /\ DOMAIN results' = {}
    <3>1. results \in Seq(Results) /\ Len(results) <= 1 /\ results # <<>> /\ results' = Tail(results)
      BY <1>4 DEF ApplyPullResult, TypeOK, ResultsCap
    <3> QED BY <3>1
  <2>2. UNCHANGED <<pull, pcfg>>
    BY <1>4 DEF ApplyPullResult, panelVars
  <2> QED BY <1>4, <2>1, <2>2, ApplyInOrder DEF InOrder
<1>5. ASSUME NEW g \in Pulls, Fetch(g) PROVE InOrder'
  <2>1. UNCHANGED <<svc, results, pcfg>> /\ \A h \in Pulls \ {g} : pull'[h] = pull[h]
    BY <1>5, FetchEffect DEF Fetch, panelVars
  <2>2. \/ pull'[g].cfg \in {NoCfg, pcfg}
        \/ pull[g].stage = "users" /\ pull'[g].cfg = pull[g].cfg
    <3>1. CASE FetchConfig(g)
      BY <3>1 DEF FetchConfig, TypeOK, Goroutines
    <3>2. ASSUME PollFailed(g) PROVE pull'[g].cfg = NoCfg
      BY <3>2 DEF PollFailed, Idle, TypeOK
    <3>3. CASE FetchUsers(g)
      <4>1. CASE pull[g].cfg \in Malformed
        BY <3>2, <3>3, <4>1 DEF FetchUsers
      <4>2. CASE pull[g].cfg \notin Malformed
        BY <3>3, <4>2 DEF FetchUsers, Reported, TypeOK, Goroutines
      <4> QED BY <4>1, <4>2
    <3>4. CASE RequestFails(g)
      BY <3>2, <3>4 DEF RequestFails
    <3> QED BY <1>5, <3>1, <3>3, <3>4 DEF Fetch
  <2>3. ASSUME pull'[g].cfg = pcfg, NEW i \in DOMAIN results PROVE results[i].cfg <= pcfg
    BY <1>0, <2>3 DEF InOrder, NoCfg
  <2> QED BY <1>0, <2>1, <2>2, <2>3 DEF InOrder
<1>6. ASSUME NEW g \in Pulls, Deliver(g) PROVE InOrder'
  <2> DEFINE r == [cfg |-> pull[g].cfg, users |-> pull[g].users,
                   certChanged |-> pull[g].certChanged]
  <2>1. UNCHANGED <<svc, pcfg>> /\ pull[g].stage = "send"
    BY <1>6 DEF Deliver, panelVars
  <2>2. results' = <<r>>
    <3>1. results \in Seq(Results) /\ Len(results) < 1 /\ results' = Append(results, r)
      BY <1>6 DEF Deliver, TypeOK, ResultsCap
    <3>2. results = <<>>
      BY <3>1
    <3> QED BY <3>1, <3>2
  <2>3. \A h \in Pulls : pull'[h].stage \notin {"users", "send"}
    BY <1>6, <2>1, OthersIdle DEF Deliver, TypeOK, Idle
  <2>4. DOMAIN results' = {1} /\ results'[1].cfg = pull[g].cfg
    BY <2>2
  <2> QED BY <2>1, <2>3, <2>4 DEF InOrder
<1>7. ASSUME NEW g \in Pulls, Exit(g) PROVE InOrder'
  <2>1. UNCHANGED <<svc, results, pcfg>>
    BY <1>7 DEF Exit, panelVars
  <2>2. pull'[g].stage = "idle" /\ \A h \in Pulls \ {g} : pull'[h] = pull[h]
    BY <1>7 DEF Exit, TypeOK, Idle
  <2> QED BY <2>1, <2>2 DEF InOrder
<1>8. CASE CertRenewal \/ UNCHANGED vars
  BY <1>1, <1>8 DEF CertRenewal, vars, panelVars
<1> QED BY <1>2, <1>3, <1>4, <1>5, <1>6, <1>7, <1>8 DEF Next

\* What the service records, what waits in pullResults, what a goroutine has
\* fetched and what the panel holds are never out of order.
THEOREM PullsInOrder == Spec => []InOrder
<1> QED BY InitType, TypeCorrect, PullsExclude, InOrderStep, PTL DEF Spec

\* Polling never takes the service back to a configuration the panel replaced,
\* although applyPullResult adopts whatever it is handed.
THEOREM ConfigMonotone == Spec => ConfigNeverRegresses
<1> DEFINE Forward == /\ svc'.cfg >= svc.cfg
                      /\ svc.k.up /\ svc'.k.up => svc'.k.cfg >= svc.k.cfg
<1>1. TypeOK /\ InOrder /\ [Next]_vars => [Forward]_vars
  <2> SUFFICES ASSUME TypeOK, InOrder, Next PROVE Forward
    OBVIOUS
  <2>1. CASE ApplyPullResult
    BY <2>1, ApplyInOrder
  <2>2. CASE svc' = svc
    <3>1. svc.cfg \in Nat /\ svc.k.cfg \in Nat
      BY DEF TypeOK, States, Kernels
    <3> QED BY <2>2, <3>1
  <2> QED BY <2>1, <2>2
      DEF Next, PanelEdits, CertRenewal, PullTick, Fetch, Deliver, Exit
<1> QED BY <1>1, TypeCorrect, PullsInOrder, PTL DEF Spec, ConfigNeverRegresses

-----------------------------------------------------------------------------
(* The kernel in step with the record.                                     *)
(* A restart makes good what an update in place left behind, so the two    *)
(* part only if both fail.  Deltas are another matter: see below.          *)

\* Either no start fails or nothing but starts does.
OneKindFails == "start" \notin KernelFaults \/ KernelFaults \subseteq {"start"}

\* What the service records is what the kernel runs, and unless starts fail it
\* runs if there is something to serve.
InStep(s) ==
    /\ s \in States
    /\ "start" \notin KernelFaults /\ s.users # NoUsers /\ s.cfg # NoCfg => s.k.up
    /\ s.k.up => /\ s.cfg # NoCfg
                 /\ s.k.cfg = s.cfg /\ s.k.users = s.users /\ s.k.admits = s.users
    /\ ~s.k.up => s.k = Down

\* A well-typed list differs from another in some user's credential, or not at all.
LEMMA NothingToDo ==
    ASSUME NEW old \in Lists, NEW new \in Lists, ToAdd(old, new) \cup ToRemove(old, new) = {}
    PROVE  old = new
<1>1. \A i \in UserIds : old[i] = new[i]
  BY DEF ToAdd, ToRemove, Members
<1> QED BY <1>1 DEF Lists

LEMMA ServingOf ==
    ASSUME NEW cfg \in Nat, NEW users \in Lists, NEW tls \in Nat
    PROVE  LET k == Serving(cfg, users, tls)
           IN  /\ k \in Kernels /\ k.up /\ k.cfg = cfg /\ k.users = users /\ k.admits = users
               /\ k.cert = tls
BY DEF Serving, Kernels

\* What an update of the inbounds that fails leaves: a kernel as well-typed, as
\* up and with the same list as before, and a library whose updates can fail.
LEMMA InboundFailure ==
    ASSUME NEW k \in Kernels, NEW o \in InboundFailures(k)
    PROVE  /\ ~o.ok /\ o.k \in Kernels /\ o.k.up = k.up /\ o.k.users = k.users
           /\ o.k.cfg = k.cfg /\ o.k.cert = k.cert
           /\ o.k.admits \in {k.admits, NoUsers}
           /\ ~(KernelFaults \subseteq {"start"})
<1> DEFINE emptied == [k EXCEPT !.admits = NoUsers]
<1>1. o = Failed(k) \/ o = Failed(emptied)
  BY DEF InboundFailures
<1>2. KernelFaults \cap {"prepare"} # {} \/ KernelFaults \cap {"recreate"} # {}
  BY DEF InboundFailures
<1>3. ~(KernelFaults \subseteq {"start"})
  BY <1>2
<1>4. NoUsers \in Lists
  BY DEF NoUsers, Lists
<1>5. /\ emptied \in Kernels /\ emptied.up = k.up /\ emptied.users = k.users
      /\ emptied.cfg = k.cfg /\ emptied.cert = k.cert /\ emptied.admits = NoUsers
  BY <1>4 DEF Kernels
<1> HIDE DEF emptied
<1> QED BY <1>1, <1>3, <1>5 DEF Failed

\* startKernel either serves what it is given or, starts failing, changes nothing.
LEMMA StartEffect ==
    ASSUME NEW s \in States, NEW users \in Lists, NEW tls \in Nat,
           NEW r \in StartKernel(s, s.cfg, users, tls)
    PROVE  \/ /\ r.ok /\ r.s \in States /\ r.s.cfg = s.cfg /\ r.s.users = s.users
              /\ r.s.k = Serving(s.cfg, users, tls)
           \/ ~r.ok /\ r.s = s /\ "start" \in KernelFaults
<1> DEFINE k == Serving(s.cfg, users, tls)
           a == [cfg |-> s.cfg, users |-> users]
<1>1. PICK o \in Start(s.k, s.cfg, users, tls) :
          r = [ok |-> o.ok, s |-> IF o.ok THEN [s EXCEPT !.k = o.k, !.applied = a]
                                          ELSE [s EXCEPT !.k = o.k]]
  BY DEF StartKernel
<1>2. o = Done(k) \/ (o = Failed(s.k) /\ "start" \in KernelFaults)
  BY DEF Start
<1>3. k \in Kernels
  <2>1. s.cfg \in Nat
    BY DEF States
  <2> QED BY <2>1, ServingOf
<1>4. a \in [cfg : Nat, users : Lists]
  BY DEF States
<1> HIDE DEF k, a
<1>5. CASE o = Done(k)
  <2>1. r.ok /\ r.s = [s EXCEPT !.k = k, !.applied = a]
    BY <1>1, <1>5 DEF Done
  <2> QED BY <1>3, <1>4, <2>1 DEF States, k
<1>6. CASE o = Failed(s.k) /\ "start" \in KernelFaults
  <2>1. ~r.ok /\ r.s = [s EXCEPT !.k = s.k]
    BY <1>1, <1>6 DEF Failed
  <2>2. [s EXCEPT !.k = s.k] = s
    BY DEF States
  <2> QED BY <1>6, <2>1, <2>2
<1> QED BY <1>2, <1>5, <1>6

\* A start on what is recorded leaves the service in step, or as it was.
LEMMA StartInStep ==
    ASSUME NEW s \in States, s.cfg # NoCfg, NEW tls \in Nat,
           NEW r \in StartKernel(s, s.cfg, s.users, tls)
    PROVE  \/ /\ r.ok /\ InStep(r.s) /\ r.s.k.up /\ r.s.k.cert = tls
              /\ r.s.cfg = s.cfg /\ r.s.users = s.users
           \/ ~r.ok /\ r.s = s /\ "start" \in KernelFaults
<1>1. s.cfg \in Nat /\ s.users \in Lists
  BY DEF States
<1>2. CASE ~r.ok
  BY <1>1, <1>2, StartEffect
<1>3. CASE r.ok
  <2> DEFINE u == r.s
             k == Serving(s.cfg, s.users, tls)
  <2>1. u \in States /\ u.cfg = s.cfg /\ u.users = s.users /\ u.k = k
    BY <1>1, <1>3, StartEffect
  <2>2. k.up /\ k.cfg = s.cfg /\ k.users = s.users /\ k.admits = s.users /\ k.cert = tls
    BY <1>1, ServingOf
  <2> HIDE DEF u, k
  <2>3. InStep(u) /\ u.k.up /\ u.k.cert = tls
    BY <2>1, <2>2 DEF InStep
  <2> QED BY <1>3, <2>1, <2>3 DEF u
<1> QED BY <1>2, <1>3

\* ensureRunning, when it succeeds, leaves a kernel that is up and in step.
LEMMA EnsureInStep ==
    ASSUME NEW s, InStep(s), NEW tls \in Nat, NEW r \in EnsureRunning(s, tls)
    PROVE  /\ InStep(r.s) /\ r.s.cfg = s.cfg /\ r.s.users = s.users
           /\ r.ok => r.s.k.up /\ (r.s.k.cert = tls \/ (s.k.up /\ r.s.k.cert = s.k.cert))
           /\ ~r.ok => r.s = s
<1>1. s \in States
  BY DEF InStep
<1>2. CASE r.s = s /\ r.ok = s.k.up
  BY <1>2
<1>3. CASE r \in StartKernel(s, s.cfg, s.users, tls) /\ s.cfg # NoCfg
  BY <1>1, <1>3, StartInStep
<1> QED BY <1>2, <1>3 DEF EnsureRunning

\* applyChanges puts the kernel in step with whatever is recorded by then, and
\* on the current material if it is up.
LEMMA ApplyChangesInStep ==
    ASSUME OneKindFails, NEW s \in States, s.k.up => s.cfg # NoCfg, ~s.k.up => s.k = Down,
           NEW tls \in Nat, NEW t \in ApplyChanges(s, tls)
    PROVE  InStep(t) /\ (t.k.up => t.k.cert = tls)
<1>0. s.k \in Kernels /\ s.cfg \in Nat /\ s.users \in Lists
  BY DEF States
<1>1. CASE s.users = NoUsers
  <2>1. t = [s EXCEPT !.k = Down, !.applied.users = NoUsers]
    BY <1>1 DEF ApplyChanges
  <2>2. Down \in Kernels /\ ~Down.up
    BY <1>0, <1>1 DEF Down, Kernels, NoCfg
  <2> QED BY <1>0, <1>1, <2>1, <2>2 DEF InStep, States
<1>2. CASE s.users # NoUsers /\ s.cfg = NoCfg
  <2>1. t = s /\ ~s.k.up
    BY <1>2 DEF ApplyChanges
  <2> QED BY <1>2, <2>1 DEF InStep
<1>3. CASE s.users # NoUsers /\ s.cfg # NoCfg /\ s.k.up
  <2> DEFINE k == Serving(s.cfg, s.users, tls)
             a == [cfg |-> s.cfg, users |-> s.users]
  <2>1. PICK o \in Reload(s.k, s.cfg, s.users, tls) :
            t \in IF o.ok
                  THEN {[s EXCEPT !.k = o.k, !.applied = a]}
                  ELSE {r.s : r \in StartKernel([s EXCEPT !.k = o.k], s.cfg, s.users, tls)}
    BY <1>3 DEF ApplyChanges
  <2>2. o = Done(k) \/ o \in InboundFailures(s.k)
    BY <1>3 DEF Reload
  <2>3. /\ k \in Kernels /\ k.up /\ k.cfg = s.cfg /\ k.users = s.users /\ k.admits = s.users
        /\ k.cert = tls
    BY <1>0, ServingOf
  <2>4. a \in [cfg : Nat, users : Lists]
    BY <1>0
  <2>5. CASE o = Done(k)
    <3> HIDE DEF k, a
    <3> DEFINE u == [s EXCEPT !.k = k, !.applied = a]
    <3>1. t = u
      BY <2>1, <2>5 DEF Done
    <3>2. u \in States /\ u.k = k /\ u.cfg = s.cfg /\ u.users = s.users
      BY <2>3, <2>4 DEF States
    <3> HIDE DEF u
    <3> QED BY <1>3, <2>3, <3>1, <3>2 DEF InStep
  <2>6. CASE o \in InboundFailures(s.k)
    <3> HIDE DEF k, a
    <3> DEFINE mid == [s EXCEPT !.k = o.k]
    <3>1. ~o.ok /\ o.k \in Kernels /\ "start" \notin KernelFaults
      BY <1>0, <2>6, InboundFailure DEF OneKindFails
    <3>2. mid \in States /\ mid.cfg = s.cfg /\ mid.users = s.users
      BY <3>1 DEF States
    <3>3. PICK r \in StartKernel(mid, mid.cfg, mid.users, tls) : t = r.s
      BY <2>1, <3>1, <3>2
    <3> HIDE DEF mid
    <3> QED BY <1>3, <3>1, <3>2, <3>3, StartInStep
  <2> QED BY <2>2, <2>5, <2>6
<1>4. CASE s.users # NoUsers /\ s.cfg # NoCfg /\ ~s.k.up
  <2>1. PICK r \in StartKernel(s, s.cfg, s.users, tls) : t = r.s
    BY <1>4 DEF ApplyChanges
  <2>2. CASE r.ok
    BY <1>4, <2>1, <2>2, StartInStep
  <2>3. CASE ~r.ok
    <3>1. t = s /\ "start" \in KernelFaults
      BY <1>4, <2>1, <2>3, StartInStep
    <3> QED BY <1>4, <3>1 DEF InStep
  <2> QED BY <2>2, <2>3
<1> QED BY <1>1, <1>2, <1>3, <1>4

\* UpdateUsers on a kernel that admits what it believes in.
LEMMA UpdateEffect ==
    ASSUME NEW k \in Kernels, k.up, k.admits = k.users, NEW users \in Lists,
           NEW o \in UpdateUsers(k, users)
    PROVE  \/ /\ o.ok /\ o.k \in Kernels /\ o.k.up /\ o.k.users = users /\ o.k.admits = users
              /\ o.k.cfg = k.cfg /\ o.k.cert = k.cert
           \/ ~o.ok /\ o.k \in Kernels /\ ~(KernelFaults \subseteq {"start"})
<1>1. k.users \in Lists
  BY DEF Kernels
<1>2. CASE ToAdd(k.users, users) \cup ToRemove(k.users, users) = {}
  <2>1. k.users = users
    BY <1>1, <1>2, NothingToDo
  <2>2. o = Done([k EXCEPT !.users = users])
    BY <1>2 DEF UpdateUsers
  <2> QED BY <2>1, <2>2 DEF Done, Kernels
<1>3. CASE ToAdd(k.users, users) \cup ToRemove(k.users, users) # {}
  <2>1. o = Done([k EXCEPT !.users = users, !.admits = users]) \/ o \in InboundFailures(k)
    BY <1>3 DEF UpdateUsers, ReloadInbounds
  <2>2. CASE o = Done([k EXCEPT !.users = users, !.admits = users])
    BY <2>2 DEF Done, Kernels
  <2>3. CASE o \in InboundFailures(k)
    BY <2>3, InboundFailure
  <2> QED BY <2>1, <2>2, <2>3
<1> QED BY <1>2, <1>3

\* A whole list goes to a running kernel in place or, that failing, by a restart.
LEMMA SwapInStep ==
    ASSUME OneKindFails, NEW m, InStep(m), m.k.up, NEW users \in Lists, NEW tls \in Nat,
           NEW t \in SwapUsers(m, users, tls)
    PROVE  InStep(t) /\ t.k.up /\ t.k.cert \in {m.k.cert, tls}
<1> DEFINE ready == [m EXCEPT !.users = users]
<1>1. PICK o \in UpdateUsers(m.k, users) :
          t \in IF o.ok THEN {[ready EXCEPT !.k = o.k]}
                ELSE {IF r.ok THEN r.s ELSE [r.s EXCEPT !.users = m.users] :
                        r \in StartKernel([ready EXCEPT !.k = o.k], m.cfg, users, tls)}
  BY DEF SwapUsers
<1>2. /\ m \in States /\ m.k \in Kernels /\ m.k.admits = m.k.users /\ m.k.cfg = m.cfg
      /\ m.cfg # NoCfg
  BY DEF InStep, States
<1>3. \/ /\ o.ok /\ o.k \in Kernels /\ o.k.up /\ o.k.users = users /\ o.k.admits = users
         /\ o.k.cfg = m.k.cfg /\ o.k.cert = m.k.cert
      \/ ~o.ok /\ o.k \in Kernels /\ ~(KernelFaults \subseteq {"start"})
  BY <1>2, UpdateEffect
<1> DEFINE mid == [ready EXCEPT !.k = o.k]
<1>4. mid \in States /\ mid.k = o.k /\ mid.cfg = m.cfg /\ mid.users = users
  BY <1>2, <1>3 DEF States
<1>5. CASE o.ok
  <2>1. t = mid
    BY <1>1, <1>5
  <2> HIDE DEF mid
  <2> QED BY <1>2, <1>3, <1>4, <1>5, <2>1 DEF InStep
<1>6. CASE ~o.ok
  <2>1. PICK r \in StartKernel(mid, mid.cfg, mid.users, tls) :
            t = IF r.ok THEN r.s ELSE [r.s EXCEPT !.users = m.users]
    BY <1>1, <1>4, <1>6
  <2>2. "start" \notin KernelFaults
    BY <1>3, <1>6 DEF OneKindFails
  <2> HIDE DEF mid
  <2>3. r.ok /\ InStep(r.s) /\ r.s.k.up /\ r.s.k.cert = tls
    BY <1>2, <1>4, <2>2, StartInStep
  <2> QED BY <2>1, <2>3
<1> QED BY <1>5, <1>6

\* applyUserUpdate leaves a running kernel its material or brings the current.
LEMMA UserUpdateInStep ==
    ASSUME OneKindFails, NEW s, InStep(s), NEW users \in Lists, NEW tls \in Nat,
           NEW t \in ApplyUserUpdate(s, users, tls)
    PROVE  InStep(t) /\ (t.k.up => t.k.cert = tls \/ (s.k.up /\ t.k.cert = s.k.cert))
<1>1. PICK r \in EnsureRunning(s, tls) : t \in IF r.ok THEN SwapUsers(r.s, users, tls) ELSE {r.s}
  BY DEF ApplyUserUpdate
<1>2. CASE ~r.ok
  <2>1. t = s
    BY <1>1, <1>2, EnsureInStep
  <2> QED BY <2>1
<1>3. CASE r.ok
  <2> DEFINE m == r.s
  <2>1. InStep(m) /\ m.k.up /\ (m.k.cert = tls \/ (s.k.up /\ m.k.cert = s.k.cert))
    BY <1>3, EnsureInStep
  <2>2. t \in SwapUsers(m, users, tls)
    BY <1>1, <1>3
  <2> HIDE DEF m
  <2>3. InStep(t) /\ t.k.cert \in {m.k.cert, tls}
    BY <2>1, <2>2, SwapInStep
  <2> QED BY <2>1, <2>3
<1> QED BY <1>2, <1>3

\* applyPullResult keeps the service in step; a result that says so brings the
\* current material, any other leaves it to a kernel that runs.
LEMMA AdoptPullInStep ==
    ASSUME OneKindFails, NEW s, InStep(s), NEW result \in Results, NEW tls \in Nat,
           NEW t \in AdoptPull(s, result, tls)
    PROVE  /\ InStep(t)
           /\ t.k.up => \/ t.k.cert = tls
                        \/ ~result.certChanged /\ s.k.up /\ t.k.cert = s.k.cert
<1> DEFINE accepted      == result.cfg # NoCfg /\ result.cfg \notin Unrunnable
           configChanged == result.certChanged \/ accepted
           usersChanged  == result.users # Nil /\ result.users # s.users
           withCfg       == IF accepted THEN [s EXCEPT !.cfg = result.cfg] ELSE s
           given         == IF usersChanged THEN [withCfg EXCEPT !.users = result.users]
                                            ELSE withCfg
<1>1. /\ s \in States /\ result.cfg \in Nat
      /\ s.k.up => s.cfg # NoCfg
      /\ ~s.k.up => s.k = Down
      /\ usersChanged => result.users \in Lists
  BY DEF Results, InStep
<1>2. withCfg \in States /\ withCfg.k = s.k /\ (s.k.up => withCfg.cfg # NoCfg)
  BY <1>1 DEF States
<1>3. given \in States /\ given.k = s.k /\ (given.k.up => given.cfg # NoCfg)
  <2> HIDE DEF withCfg
  <2> QED BY <1>1, <1>2 DEF States
<1>4. t \in IF configChanged THEN ApplyChanges(given, tls)
            ELSE IF usersChanged THEN ApplyUserUpdate(s, result.users, tls)
            ELSE {s}
  BY DEF AdoptPull
<1>5. result.certChanged => configChanged
  OBVIOUS
<1> HIDE DEF accepted, configChanged, usersChanged, withCfg, given
<1>6. CASE configChanged
  BY <1>1, <1>3, <1>4, <1>6, ApplyChangesInStep
<1>7. CASE ~configChanged /\ usersChanged
  BY <1>1, <1>4, <1>5, <1>7, UserUpdateInStep
<1>8. CASE ~configChanged /\ ~usersChanged
  BY <1>4, <1>5, <1>8
<1> QED BY <1>6, <1>7, <1>8

LEMMA InitInStep == Init => InStep(svc) /\ (svc.k.up => svc.k.cert = cert)
<1> SUFFICES ASSUME Init PROVE InStep(svc) /\ (svc.k.up => svc.k.cert = cert)
  OBVIOUS
<1>1. pusers \in Lists /\ pcfg = 1 /\ cert = 0 /\ svc = Bootstrapped(pcfg, pusers)
  BY PullAssumption DEF Init, PullInit
<1>2. NoUsers \in Lists
  BY <1>1, ListClosure
<1> DEFINE s == [Fresh EXCEPT !.cfg = pcfg, !.users = pusers]
<1>3. Down \in Kernels /\ ~Down.up
  BY <1>2 DEF Down, Kernels, NoCfg
<1>4. s \in States /\ s.cfg = 1 /\ s.users = pusers /\ s.k = Down
  BY <1>1, <1>2, <1>3 DEF Fresh, States, NoCfg
<1>5. CASE pusers = NoUsers
  <2>1. svc = s
    BY <1>1, <1>5 DEF Bootstrapped
  <2> HIDE DEF s
  <2> QED BY <1>3, <1>4, <1>5, <2>1 DEF InStep, NoCfg
<1>6. CASE pusers # NoUsers
  <2> DEFINE k == Serving(pcfg, pusers, 0)
  <2>1. svc = [s EXCEPT !.k = k, !.applied = [cfg |-> pcfg, users |-> pusers]]
    BY <1>1, <1>6 DEF Bootstrapped
  <2>2. /\ k \in Kernels /\ k.up /\ k.cfg = pcfg /\ k.users = pusers /\ k.admits = pusers
        /\ k.cert = 0
    BY <1>1, ServingOf
  <2> HIDE DEF s, k
  <2>3. svc \in States /\ svc.k = k /\ svc.cfg = 1 /\ svc.users = pusers
    <3>1. pcfg \in Nat /\ pusers \in Lists /\ pcfg = 1
      BY <1>1
    <3> DEFINE a == [cfg |-> pcfg, users |-> pusers]
    <3>2. a \in [cfg : Nat, users : Lists]
      BY <3>1
    <3> HIDE DEF a
    <3>3. LET u == [s EXCEPT !.k = k, !.applied = a]
          IN  u \in States /\ u.k = k /\ u.cfg = 1 /\ u.users = pusers
      BY <1>4, <2>2, <3>2 DEF States
    <3> QED BY <2>1, <3>3 DEF a
  <2> QED BY <1>1, <2>2, <2>3 DEF InStep, NoCfg
<1> QED BY <1>5, <1>6

LEMMA StepInStep ==
    ASSUME OneKindFails
    PROVE  TypeOK /\ InStep(svc) /\ [Next]_vars => InStep(svc')
<1> SUFFICES ASSUME TypeOK, InStep(svc), [Next]_vars PROVE InStep(svc')
  OBVIOUS
<1>1. CASE ApplyPullResult
  <2>1. Head(results) \in Results /\ svc' \in AdoptPull(svc, Head(results), cert) /\ cert \in Nat
    BY <1>1 DEF ApplyPullResult, TypeOK
  <2> QED BY <2>1, AdoptPullInStep
<1>2. CASE svc' = svc
  BY <1>2
<1> QED BY <1>1, <1>2 DEF Next, PanelEdits, CertRenewal, PullTick, Fetch, Deliver, Exit, vars

\* As long as no start fails the service and its kernel agree after every
\* result, whatever updates in place fail, and whatever polls return, drop or
\* let through late.
THEOREM KernelAgrees ==
    ASSUME "start" \notin KernelFaults
    PROVE  Spec => []KernelInStep
<1>1. Init => InStep(svc)
  BY InitInStep
<1>2. TypeOK /\ InStep(svc) /\ [Next]_vars => InStep(svc)'
  BY StepInStep DEF OneKindFails
<1>3. InStep(svc) => KernelInStep
  BY DEF InStep, KernelInStep
<1> QED BY <1>1, <1>2, <1>3, TypeCorrect, PTL DEF Spec

-----------------------------------------------------------------------------
(* The renewal flag. *)

\* A goroutine that is done carries no flag, and a renewal is under way until
\* the kernel uses its material.
RenewalUnderWay ==
    /\ \A g \in Pulls : pull[g].stage \in {"idle", "exit"} => ~pull[g].certChanged
    /\ RenewalNotLost

Carried ==
    \/ renewed
    \/ \E g \in Pulls : pull[g].certChanged
    \/ \E i \in DOMAIN results : results[i].certChanged

\* A poll that goes on keeps its flag; one that fails is a failure on record.
LEMMA FetchKeepsFlag ==
    ASSUME TypeOK, InOrder, RenewalUnderWay, NEW g \in Pulls, Fetch(g)
    PROVE  /\ pull'[g].stage \in {"idle", "exit"} => ~pull'[g].certChanged
           /\ \/ UNCHANGED faults /\ pull'[g].certChanged = pull[g].certChanged
              \/ faults' # 0
              \/ \E c \in Malformed : ~(pcfg < c)
<1>1. faults \in Nat /\ pcfg \in Nat /\ pull \in [Pulls -> Goroutines]
  BY DEF TypeOK
<1>2. PollFailed(g) => ~pull'[g].certChanged
  BY <1>1 DEF PollFailed, Idle
<1>3. CASE FetchConfig(g)
  <2>1. pull'[g].stage = "users" /\ pull'[g].certChanged = pull[g].certChanged
    BY <1>1, <1>3 DEF FetchConfig, Goroutines
  <2> QED BY <1>3, <2>1 DEF FetchConfig
<1>4. CASE FetchUsers(g)
  <2>1. CASE pull[g].cfg \in Malformed
    <3>1. pull[g].stage = "users" /\ PollFailed(g)
      BY <1>4, <2>1 DEF FetchUsers
    <3>2. pull[g].cfg \in Nat /\ pull[g].cfg # NoCfg => pull[g].cfg <= pcfg
      BY <1>1, <3>1 DEF InOrder, Goroutines
    <3>3. ~(pcfg < pull[g].cfg)
      BY <1>1, <3>2 DEF NoCfg, Goroutines
    <3> QED BY <1>2, <2>1, <3>1, <3>3
  <2>2. CASE pull[g].cfg \notin Malformed
    <3>1. pull'[g].stage = "send" /\ pull'[g].certChanged = pull[g].certChanged
      BY <1>1, <1>4, <2>2 DEF FetchUsers, Goroutines
    <3> QED BY <1>4, <3>1 DEF FetchUsers
  <2> QED BY <2>1, <2>2
<1>5. CASE RequestFails(g)
  BY <1>1, <1>2, <1>5 DEF RequestFails
<1> QED BY <1>3, <1>4, <1>5 DEF Fetch

LEMMA SoleElement ==
    ASSUME NEW q \in Seq(Results), Len(q) <= 1, q # <<>>
    PROVE  DOMAIN q = {1} /\ q[1] = Head(q)
<1>1. Len(q) \in Nat /\ DOMAIN q = 1 .. Len(q)
  OBVIOUS
<1>2. Len(q) # 0
  OBVIOUS
<1>3. Len(q) = 1
  BY <1>1, <1>2
<1>4. DOMAIN q = {1}
  BY <1>1, <1>3
<1> QED BY <1>4

\* What is carried moves from the flag to a pull, from there to the channel.
LEMMA StepRenewal ==
    ASSUME OneKindFails
    PROVE  TypeOK /\ InOrder /\ InStep(svc) /\ RenewalUnderWay /\ [Next]_vars => RenewalUnderWay'
<1> SUFFICES ASSUME TypeOK, InOrder, InStep(svc), RenewalUnderWay, [Next]_vars
             PROVE  RenewalUnderWay'
  OBVIOUS
<1>0. /\ pull \in [Pulls -> Goroutines] /\ pcfg \in Nat /\ faults \in Nat
      /\ results \in Seq(Results) /\ Len(results) <= 1
  BY DEF TypeOK, ResultsCap
<1>a. RenewalNotLost <=>
          (faults = 0 /\ (\A c \in Malformed : pcfg < c) /\ svc.k.up /\ svc.k.cert # cert => Carried)
  BY DEF RenewalNotLost, Carried
<1>b. RenewalNotLost' <=>
          (faults' = 0 /\ (\A c \in Malformed : pcfg' < c) /\ svc'.k.up /\ svc'.k.cert # cert'
             => Carried')
  BY DEF RenewalNotLost, Carried
<1>1. CASE PanelEdits
  <2>1. UNCHANGED <<faults, svc, cert, renewed, pull, results>> /\ (pcfg' = pcfg \/ pcfg' = pcfg + 1)
    BY <1>1 DEF PanelEdits, EditConfig, EditUsers, clientVars, certVars
  <2>2. \A c \in Malformed : c \in Nat /\ (pcfg' < c => pcfg < c)
    BY <1>0, <2>1, PullAssumption
  <2>3. Carried' <=> Carried
    BY <2>1 DEF Carried
  <2> QED BY <1>a, <1>b, <2>1, <2>2, <2>3 DEF RenewalUnderWay
<1>2. CASE CertRenewal
  <2>1. Carried' /\ UNCHANGED pull
    BY <1>2 DEF CertRenewal, Carried
  <2> QED BY <1>b, <2>1 DEF RenewalUnderWay
<1>3. CASE PullTick
  <2>1. UNCHANGED <<faults, svc, cert, pcfg, results>>
    BY <1>3 DEF PullTick, panelVars, clientVars, certVars
  <2>2. CASE \E g \in Pulls : Spawn(g, svc.cfg)
    <3>1. PICK g \in Pulls : Spawn(g, svc.cfg)
      BY <2>2
    <3>2. /\ pull[g].stage = "idle"
          /\ pull'[g].stage = "config" /\ pull'[g].certChanged = renewed
          /\ \A h \in Pulls : h # g => pull'[h] = pull[h]
      BY <1>0, <3>1 DEF Spawn, Idle
    <3>3. ~pull[g].certChanged
      BY <3>2 DEF RenewalUnderWay
    <3>4. Carried => Carried'
      BY <2>1, <3>2, <3>3 DEF Carried
    <3> QED BY <1>a, <1>b, <2>1, <3>2, <3>4 DEF RenewalUnderWay
  <2>3. CASE ~\E g \in Pulls : Spawn(g, svc.cfg)
    <3>1. UNCHANGED <<pull, renewed>>
      BY <1>3, <2>3 DEF PullTick, PullCalls, PullCallsAt
    <3>2. Carried' <=> Carried
      BY <2>1, <3>1 DEF Carried
    <3> QED BY <1>a, <1>b, <2>1, <3>1, <3>2 DEF RenewalUnderWay
  <2> QED BY <2>2, <2>3
<1>4. CASE ApplyPullResult
  <2> DEFINE r == Head(results)
  <2>1. r \in Results /\ svc' \in AdoptPull(svc, r, cert) /\ cert \in Nat
    BY <1>4 DEF ApplyPullResult, TypeOK
  <2>2. /\ UNCHANGED <<faults, cert, pcfg, pull, renewed>>
        /\ DOMAIN results = {1} /\ results[1] = r
    <3>1. UNCHANGED <<faults, cert, pcfg, pull, renewed>> /\ results # <<>>
      BY <1>4 DEF ApplyPullResult, panelVars, clientVars, certVars
    <3> QED BY <1>0, <3>1, SoleElement
  <2> HIDE DEF r
  <2>3. svc'.k.up => svc'.k.cert = cert \/ (~r.certChanged /\ svc.k.up /\ svc'.k.cert = svc.k.cert)
    BY <2>1, AdoptPullInStep
  <2>4. Carried /\ ~r.certChanged => Carried'
    BY <2>2 DEF Carried
  <2> QED BY <1>a, <1>b, <2>2, <2>3, <2>4 DEF RenewalUnderWay
<1>5. ASSUME NEW g \in Pulls, Fetch(g) PROVE RenewalUnderWay'
  <2>1. /\ UNCHANGED <<svc, cert, pcfg, results, renewed>>
        /\ \A h \in Pulls : h # g => pull'[h] = pull[h]
    BY <1>5, FetchEffect DEF Fetch, panelVars, certVars
  <2>2. \A h \in Pulls : pull'[h].stage \in {"idle", "exit"} => ~pull'[h].certChanged
    BY <1>5, <2>1, FetchKeepsFlag DEF RenewalUnderWay
  <2>3. CASE UNCHANGED faults /\ pull'[g].certChanged = pull[g].certChanged
    <3>1. Carried' <=> Carried
      BY <2>1, <2>3 DEF Carried
    <3> QED BY <1>a, <1>b, <2>1, <2>2, <2>3, <3>1 DEF RenewalUnderWay
  <2>4. CASE faults' # 0 \/ \E c \in Malformed : ~(pcfg < c)
    BY <1>b, <2>1, <2>2, <2>4 DEF RenewalUnderWay
  <2> QED BY <1>5, <2>3, <2>4, FetchKeepsFlag
<1>6. ASSUME NEW g \in Pulls, Deliver(g) PROVE RenewalUnderWay'
  <2> DEFINE r == [cfg |-> pull[g].cfg, users |-> pull[g].users,
                   certChanged |-> pull[g].certChanged]
  <2>1. UNCHANGED <<faults, svc, cert, pcfg, renewed>>
    BY <1>6 DEF Deliver, panelVars, clientVars, certVars
  <2>2. results = <<>> /\ results' = Append(results, r)
    BY <1>0, <1>6 DEF Deliver, ResultsCap
  <2>3. DOMAIN results = {} /\ DOMAIN results' = {1} /\ results'[1] = r
    BY <2>2
  <2>4. /\ pull'[g].stage = "exit" /\ ~pull'[g].certChanged
        /\ \A h \in Pulls : h # g => pull'[h] = pull[h]
    BY <1>0, <1>6 DEF Deliver, Idle
  <2>5. Carried => Carried'
    <3>1. CASE pull[g].certChanged
      <4>1. results'[1].certChanged
        BY <2>3, <3>1
      <4> QED BY <2>3, <4>1 DEF Carried
    <3>2. CASE ~pull[g].certChanged
      BY <2>1, <2>3, <2>4, <3>2 DEF Carried
    <3> QED BY <3>1, <3>2
  <2> QED BY <1>a, <1>b, <2>1, <2>4, <2>5 DEF RenewalUnderWay
<1>7. ASSUME NEW g \in Pulls, Exit(g) PROVE RenewalUnderWay'
  <2>1. UNCHANGED <<faults, svc, cert, pcfg, renewed, results>> /\ ~pull[g].certChanged
    BY <1>7 DEF Exit, panelVars, clientVars, certVars, RenewalUnderWay
  <2>2. ~pull'[g].certChanged /\ \A h \in Pulls : h # g => pull'[h] = pull[h]
    BY <1>0, <1>7 DEF Exit, Idle
  <2>3. Carried' <=> Carried
    BY <2>1, <2>2 DEF Carried
  <2> QED BY <1>a, <1>b, <2>1, <2>2, <2>3 DEF RenewalUnderWay
<1>8. CASE UNCHANGED vars
  <2>1. UNCHANGED <<faults, svc, cert, pcfg, renewed, results, pull>>
    BY <1>8 DEF vars, panelVars, clientVars, certVars
  <2> QED BY <2>1 DEF RenewalUnderWay, RenewalNotLost
<1> QED BY <1>1, <1>2, <1>3, <1>4, <1>5, <1>6, <1>7, <1>8 DEF Next

\* As long as no poll fails, and either no start of the kernel or no update in
\* place does, a renewed certificate that a running kernel does not use yet is never forgotten.
THEOREM RenewalsKept ==
    ASSUME OneKindFails
    PROVE  Spec => []RenewalNotLost
<1>1. Init => InStep(svc) /\ RenewalUnderWay
  <2> SUFFICES ASSUME Init PROVE InStep(svc) /\ RenewalUnderWay
    OBVIOUS
  <2>1. \A g \in Pulls : ~pull[g].certChanged
    BY DEF Init, PullInit, Idle
  <2> QED BY <2>1, InitInStep DEF RenewalUnderWay, RenewalNotLost
<1>2. TypeOK /\ InStep(svc) /\ [Next]_vars => InStep(svc)'
  BY StepInStep
<1>3. TypeOK /\ InOrder /\ InStep(svc) /\ RenewalUnderWay /\ [Next]_vars => RenewalUnderWay'
  BY StepRenewal
<1>4. RenewalUnderWay => RenewalNotLost
  BY DEF RenewalUnderWay
<1> QED BY <1>1, <1>2, <1>3, <1>4, TypeCorrect, PullsInOrder, PTL DEF Spec

-----------------------------------------------------------------------------
(* The node with push: what its events do to the service and the kernel. *)

\* Which users a merge, a difference and a restriction of lists hold.
LEMMA MembersOf ==
    ASSUME NEW base \in Lists, NEW delta \in Lists
    PROVE  /\ Members(NoUsers) = {}
           /\ Members(Merge(base, delta)) = Members(base) \cup Members(delta)
           /\ Members(Subtract(base, delta)) = Members(base) \ Members(delta)
           /\ \A ids : Members(Only(base, ids)) = Members(base) \cap ids
BY DEF Members, NoUsers, Merge, Subtract, Only, Lists

\* An outcome of a call that changes the users of k, those it has to end up with
\* being members: all or none of it, as far as the kernel's own list goes.
UserOutcome(o, k, members) ==
    /\ o.k \in Kernels /\ o.k.up = k.up
    /\ o.ok => Members(o.k.users) = members
    /\ ~o.ok => o.k.users = k.users
    /\ Members(k.admits) \subseteq Members(k.users) =>
           Members(o.k.admits) \subseteq Members(o.k.users)

LEMMA FailedOutcome ==
    ASSUME NEW k \in Kernels, NEW members
    PROVE  UserOutcome(Failed(k), k, members)
BY DEF UserOutcome, Failed

LEMMA ReloadInboundsOutcome ==
    ASSUME NEW k \in Kernels, NEW users \in Lists, NEW o \in ReloadInbounds(k, users)
    PROVE  UserOutcome(o, k, Members(users))
<1>1. CASE o \in InboundFailures(k)
  <2>1. /\ ~o.ok /\ o.k \in Kernels /\ o.k.up = k.up /\ o.k.users = k.users
        /\ o.k.admits \in {k.admits, NoUsers}
    BY <1>1, InboundFailure
  <2>2. Members(NoUsers) = {}
    BY DEF Members, NoUsers
  <2> QED BY <2>1, <2>2 DEF UserOutcome
<1>2. CASE o \notin InboundFailures(k)
  <2> DEFINE l == [k EXCEPT !.users = users, !.admits = users]
  <2>1. o = Done(l)
    BY <1>2 DEF ReloadInbounds
  <2>2. l \in Kernels /\ l.up = k.up /\ l.users = users /\ l.admits = users
    BY DEF Kernels
  <2> HIDE DEF l
  <2> QED BY <2>1, <2>2 DEF UserOutcome, Done
<1> QED BY <1>1, <1>2

\* The three user operations of the kernel, by which users they leave.
LEMMA UserOperations ==
    ASSUME NEW k \in Kernels, NEW list \in Lists
    PROVE  /\ \A o \in UpdateUsers(k, list) : UserOutcome(o, k, Members(list))
           /\ \A o \in AddUsers(k, list) :
                 UserOutcome(o, k, Members(k.users) \cup Members(list))
           /\ \A o \in RemoveUsers(k, list) :
                 UserOutcome(o, k, Members(k.users) \ Members(list))
<1>0. k.users \in Lists
  BY DEF Kernels
<1>1. ASSUME NEW o \in UpdateUsers(k, list)
      PROVE  UserOutcome(o, k, Members(list))
  <2>1. CASE o = Failed(k)
    BY <2>1, FailedOutcome
  <2>2. CASE o \in ReloadInbounds(k, list)
    BY <2>2, ReloadInboundsOutcome
  <2>3. CASE o = Done([k EXCEPT !.users = list]) /\ ToAdd(k.users, list) \cup ToRemove(k.users, list) = {}
    <3>1. k.users = list
      BY <1>0, <2>3, NothingToDo
    <3>2. [k EXCEPT !.users = list] = k
      BY <3>1 DEF Kernels
    <3> QED BY <2>3, <3>1, <3>2 DEF UserOutcome, Done
  <2> QED BY <2>1, <2>2, <2>3 DEF UpdateUsers
<1>2. ASSUME NEW o \in AddUsers(k, list)
      PROVE  UserOutcome(o, k, Members(k.users) \cup Members(list))
  <2> DEFINE fresh == Members(list) \ Members(k.users)
             added  == Only(list, fresh)
             merged == Merge(k.users, added)
  <2>1. merged \in Lists /\ Members(merged) = Members(k.users) \cup Members(list)
    <3>1. added \in Lists /\ Members(added) = Members(list) \cap fresh
      BY <1>0, ListClosure, MembersOf
    <3> HIDE DEF added
    <3>2. merged \in Lists /\ Members(merged) = Members(k.users) \cup Members(added)
      BY <1>0, <3>1, ListClosure, MembersOf
    <3> QED BY <3>1, <3>2
  <2>2. CASE o = Failed(k)
    BY <2>2, FailedOutcome
  <2>3. CASE o = Done(k) /\ fresh = {}
    BY <2>3 DEF UserOutcome, Done
  <2>4. CASE o \in ReloadInbounds(k, merged)
    <3> HIDE DEF merged
    <3>1. UserOutcome(o, k, Members(merged))
      BY <2>1, <2>4, ReloadInboundsOutcome
    <3> QED BY <2>1, <3>1
  <2>5. \/ o \in {Failed(k)}
        \/ o \in {Done(k)} /\ fresh = {}
        \/ o \in ReloadInbounds(k, merged)
    BY DEF AddUsers
  <2> HIDE DEF fresh, merged
  <2> QED BY <2>2, <2>3, <2>4, <2>5
<1>3. ASSUME NEW o \in RemoveUsers(k, list)
      PROVE  UserOutcome(o, k, Members(k.users) \ Members(list))
  <2>1. CASE o = Failed(k)
    BY <2>1, FailedOutcome
  <2>2. CASE o = Done(k) /\ Members(k.users) \cap Members(list) = {}
    BY <2>2 DEF UserOutcome, Done
  <2>3. CASE o \in ReloadInbounds(k, Subtract(k.users, list))
    <3> DEFINE left == Subtract(k.users, list)
    <3>1. left \in Lists /\ Members(left) = Members(k.users) \ Members(list)
      BY <1>0, ListClosure, MembersOf
    <3>2. o \in ReloadInbounds(k, left)
      BY <2>3
    <3> HIDE DEF left
    <3> QED BY <3>1, <3>2, ReloadInboundsOutcome
  <2> QED BY <2>1, <2>2, <2>3 DEF RemoveUsers
<1> QED BY <1>1, <1>2, <1>3

-----------------------------------------------------------------------------
(* Types of the handlers of a delta. *)

LEMMA FinishDeltaType ==
    ASSUME NEW s \in States, NEW users \in Lists, NEW outcomes,
           \A o \in outcomes : o.k \in Kernels,
           NEW t \in FinishDelta(s, users, outcomes)
    PROVE  t \in States
<1> DEFINE ready == [s EXCEPT !.users = users]
<1>1. PICK o \in outcomes :
          t \in IF o.ok THEN {[ready EXCEPT !.k = o.k]}
                ELSE {IF p.ok THEN [ready EXCEPT !.k = p.k] ELSE [s EXCEPT !.k = p.k] :
                        p \in UpdateUsers(o.k, users)}
  BY DEF FinishDelta
<1>2. \A k \in Kernels : [ready EXCEPT !.k = k] \in States /\ [s EXCEPT !.k = k] \in States
  BY DEF States
<1>3. \A p \in UpdateUsers(o.k, users) : p.k \in Kernels
  BY UserOperations DEF UserOutcome
<1> HIDE DEF ready
<1> QED BY <1>1, <1>2, <1>3

\* Removing the replaced credentials first leaves the kernel up, and its list
\* without some of the users on record.
LEMMA DropReplacedKernel ==
    ASSUME NEW s \in States, NEW delta \in Lists, NEW k \in DropReplaced(s, delta)
    PROVE  /\ k \in Kernels /\ k.up = s.k.up
           /\ Members(k.users) \subseteq Members(s.k.users)
           /\ Members(s.k.admits) \subseteq Members(s.k.users) =>
                  Members(k.admits) \subseteq Members(k.users)
<1> DEFINE replaced == {i \in Members(s.users) \cap Members(delta) : s.users[i] # delta[i]}
           old == Only(s.users, replaced)
<1>1. s.k \in Kernels /\ s.users \in Lists
  BY DEF States
<1>2. old \in Lists
  BY <1>1, ListClosure
<1>3. CASE k = s.k
  BY <1>1, <1>3
<1>4. CASE \E o \in RemoveUsers(s.k, old) : k = o.k
  <2>1. PICK o \in RemoveUsers(s.k, old) : k = o.k
    BY <1>4
  <2> HIDE DEF old
  <2>2. UserOutcome(o, s.k, Members(s.k.users) \ Members(old))
    BY <1>1, <1>2, <2>1, UserOperations
  <2>3. o.ok \/ ~o.ok
    OBVIOUS
  <2> QED BY <2>1, <2>2, <2>3 DEF UserOutcome
<1> QED BY <1>3, <1>4 DEF DropReplaced

\* A delta that adds is folded into a kernel which ensureRunning left.
LEMMA DeltaAddSplit ==
    ASSUME NEW s, NEW delta, NEW tls, NEW t \in ApplyDeltaAdd(s, delta, tls)
    PROVE  \E r \in EnsureRunning(s, tls) :
             \/ ~r.ok /\ t = r.s
             \/ /\ r.ok
                /\ \E k \in DropReplaced(r.s, delta) :
                     t \in FinishDelta([r.s EXCEPT !.k = k], Merge(s.users, delta),
                                       AddUsers(k, delta))
BY DEF ApplyDeltaAdd

\* Whatever fails, an event leaves a well-typed service.
LEMMA SyncType ==
    ASSUME NEW s \in States, NEW tls \in Nat
    PROVE  /\ \A cfg \in Nat : SyncConfig(s, cfg, tls) \subseteq States
           /\ \A users \in Lists : SyncUsers(s, users, tls) \subseteq States
           /\ \A action \in DeltaActions, delta \in Lists : SyncDelta(s, action, delta, tls) \subseteq States
<1>1. ASSUME NEW cfg \in Nat, NEW t \in SyncConfig(s, cfg, tls) PROVE t \in States
  <2>1. [s EXCEPT !.cfg = cfg] \in States
    BY DEF States
  <2>2. t = s \/ t \in ApplyChanges([s EXCEPT !.cfg = cfg], tls)
    BY DEF SyncConfig
  <2> HIDE DEF States
  <2> QED BY <2>1, <2>2, ApplyChangesSuccessor DEF Successor
<1>2. ASSUME NEW users \in Lists, NEW t \in SyncUsers(s, users, tls) PROVE t \in States
  BY <1>2, ApplyUserUpdateSuccessor DEF SyncUsers, Successor
<1>3. ASSUME NEW delta \in Lists, NEW t \in ApplyDeltaAdd(s, delta, tls) PROVE t \in States
  <2>1. PICK r \in EnsureRunning(s, tls) :
             \/ ~r.ok /\ t = r.s
             \/ /\ r.ok
                /\ \E k \in DropReplaced(r.s, delta) :
                     t \in FinishDelta([r.s EXCEPT !.k = k], Merge(s.users, delta),
                                       AddUsers(k, delta))
    BY <1>3, DeltaAddSplit
  <2>2. r.s \in States
    BY EnsureRunningSuccessor DEF Successor
  <2>3. CASE \E k \in DropReplaced(r.s, delta) :
               t \in FinishDelta([r.s EXCEPT !.k = k], Merge(s.users, delta), AddUsers(k, delta))
    <3>1. PICK k \in DropReplaced(r.s, delta) :
               t \in FinishDelta([r.s EXCEPT !.k = k], Merge(s.users, delta), AddUsers(k, delta))
      BY <2>3
    <3>2. k \in Kernels
      BY <2>2, DropReplacedKernel
    <3>3. Merge(s.users, delta) \in Lists
      BY ListClosure DEF States
    <3>4. \A o \in AddUsers(k, delta) : o.k \in Kernels
      BY <3>2, UserOperations DEF UserOutcome
    <3> DEFINE m == [r.s EXCEPT !.k = k]
    <3>5. m \in States
      BY <2>2, <3>2 DEF States
    <3> HIDE DEF m
    <3>6. t \in FinishDelta(m, Merge(s.users, delta), AddUsers(k, delta))
      BY <3>1 DEF m
    <3> QED BY <3>3, <3>4, <3>5, <3>6, FinishDeltaType
  <2> QED BY <2>1, <2>2, <2>3
<1>4. ASSUME NEW delta \in Lists, NEW t \in ApplyDeltaRemove(s, delta) PROVE t \in States
  <2>1. s.k \in Kernels /\ s.users \in Lists
    BY DEF States
  <2>2. Subtract(s.users, delta) \in Lists
    BY <2>1, ListClosure
  <2>3. \A o \in RemoveUsers(s.k, delta) : o.k \in Kernels
    BY <2>1, UserOperations DEF UserOutcome
  <2>4. t = s \/ t \in FinishDelta(s, Subtract(s.users, delta), RemoveUsers(s.k, delta))
    BY <1>4 DEF ApplyDeltaRemove
  <2> QED BY <2>2, <2>3, <2>4, FinishDeltaType
<1>5. ASSUME NEW action, NEW delta \in Lists, NEW t \in SyncDelta(s, action, delta, tls)
      PROVE  t \in ApplyDeltaAdd(s, delta, tls) \/ t \in ApplyDeltaRemove(s, delta) \/ t = s
  BY <1>5 DEF SyncDelta
<1> QED BY <1>1, <1>2, <1>3, <1>4, <1>5
-----------------------------------------------------------------------------
(* Who is let in.  As long as no start fails, the kernel believes in users on *)
(* record and admits users it believes in, after each handler.               *)

Known(s) ==
    /\ s \in States
    /\ s.k.up => s.cfg # NoCfg
    /\ ~s.k.up => s.k = Down
    /\ Members(s.k.users) \subseteq Members(s.users)
    /\ Members(s.k.admits) \subseteq Members(s.k.users)

LEMMA InStepKnown ==
    ASSUME NEW s, InStep(s)
    PROVE  Known(s)
<1>1. Members(NoUsers) = {}
  BY DEF Members, NoUsers
<1>2. Down.users = NoUsers /\ Down.admits = NoUsers
  BY DEF Down
<1> QED BY <1>1, <1>2 DEF InStep, Known

LEMMA EnsureKnown ==
    ASSUME "start" \notin KernelFaults, NEW s, Known(s), NEW tls \in Nat,
           NEW r \in EnsureRunning(s, tls)
    PROVE  /\ Known(r.s) /\ r.s.cfg = s.cfg /\ r.s.users = s.users
           /\ r.ok => r.s.k.up
           /\ ~r.ok => r.s = s
<1>1. s \in States
  BY DEF Known
<1>2. CASE r.s = s /\ r.ok = s.k.up
  BY <1>2
<1>3. CASE r \in StartKernel(s, s.cfg, s.users, tls) /\ s.cfg # NoCfg
  BY <1>1, <1>3, StartInStep, InStepKnown
<1> QED BY <1>2, <1>3 DEF EnsureRunning

LEMMA SwapKnown ==
    ASSUME "start" \notin KernelFaults, NEW m, Known(m), m.k.up, NEW users \in Lists,
           NEW tls \in Nat, NEW t \in SwapUsers(m, users, tls)
    PROVE  Known(t)
<1> DEFINE ready == [m EXCEPT !.users = users]
<1>1. PICK o \in UpdateUsers(m.k, users) :
          t \in IF o.ok THEN {[ready EXCEPT !.k = o.k]}
                ELSE {IF r.ok THEN r.s ELSE [r.s EXCEPT !.users = m.users] :
                        r \in StartKernel([ready EXCEPT !.k = o.k], m.cfg, users, tls)}
  BY DEF SwapUsers
<1>2. m \in States /\ m.k \in Kernels /\ m.cfg # NoCfg
  BY DEF Known, States
<1>3. UserOutcome(o, m.k, Members(users))
  BY <1>2, UserOperations
<1> DEFINE mid == [ready EXCEPT !.k = o.k]
<1>4. mid \in States /\ mid.k = o.k /\ mid.cfg = m.cfg /\ mid.users = users
  BY <1>2, <1>3 DEF States, UserOutcome
<1>5. CASE o.ok
  <2>1. t = mid
    BY <1>1, <1>5
  <2> HIDE DEF mid
  <2> QED BY <1>2, <1>3, <1>4, <1>5, <2>1 DEF Known, UserOutcome
<1>6. CASE ~o.ok
  <2>1. PICK r \in StartKernel(mid, mid.cfg, mid.users, tls) :
            t = IF r.ok THEN r.s ELSE [r.s EXCEPT !.users = m.users]
    BY <1>1, <1>4, <1>6
  <2> HIDE DEF mid
  <2>2. r.ok /\ InStep(r.s)
    BY <1>2, <1>4, StartInStep
  <2> QED BY <2>1, <2>2, InStepKnown
<1> QED BY <1>5, <1>6

LEMMA UserUpdateKnown ==
    ASSUME "start" \notin KernelFaults, NEW s, Known(s), NEW users \in Lists,
           NEW tls \in Nat, NEW t \in ApplyUserUpdate(s, users, tls)
    PROVE  Known(t)
<1>1. PICK r \in EnsureRunning(s, tls) : t \in IF r.ok THEN SwapUsers(r.s, users, tls) ELSE {r.s}
  BY DEF ApplyUserUpdate
<1>2. Known(r.s) /\ (r.ok => r.s.k.up)
  BY EnsureKnown
<1>3. CASE r.ok
  BY <1>1, <1>2, <1>3, SwapKnown
<1>4. CASE ~r.ok
  BY <1>1, <1>2, <1>4
<1> QED BY <1>3, <1>4

\* applyChanges does not need to know what the kernel held before.
LEMMA ApplyChangesKnown ==
    ASSUME "start" \notin KernelFaults, NEW s \in States, s.k.up => s.cfg # NoCfg,
           ~s.k.up => s.k = Down, NEW tls \in Nat, NEW t \in ApplyChanges(s, tls)
    PROVE  Known(t)
BY ApplyChangesInStep, InStepKnown DEF OneKindFails

LEMMA AdoptPullKnown ==
    ASSUME "start" \notin KernelFaults, NEW s, Known(s), NEW result \in Results,
           NEW tls \in Nat, NEW t \in AdoptPull(s, result, tls)
    PROVE  Known(t)
<1> DEFINE accepted      == result.cfg # NoCfg /\ result.cfg \notin Unrunnable
           configChanged == result.certChanged \/ accepted
           usersChanged  == result.users # Nil /\ result.users # s.users
           withCfg       == IF accepted THEN [s EXCEPT !.cfg = result.cfg] ELSE s
           given         == IF usersChanged THEN [withCfg EXCEPT !.users = result.users]
                                            ELSE withCfg
<1>1. /\ s \in States /\ result.cfg \in Nat
      /\ s.k.up => s.cfg # NoCfg
      /\ ~s.k.up => s.k = Down
      /\ usersChanged => result.users \in Lists
  BY DEF Results, Known
<1>2. withCfg \in States /\ withCfg.k = s.k /\ (s.k.up => withCfg.cfg # NoCfg)
  BY <1>1 DEF States
<1>3. given \in States /\ given.k = s.k /\ (given.k.up => given.cfg # NoCfg)
  <2> HIDE DEF withCfg
  <2> QED BY <1>1, <1>2 DEF States
<1>4. t \in IF configChanged THEN ApplyChanges(given, tls)
            ELSE IF usersChanged THEN ApplyUserUpdate(s, result.users, tls)
            ELSE {s}
  BY DEF AdoptPull
<1> HIDE DEF accepted, configChanged, usersChanged, withCfg, given
<1>5. CASE configChanged
  BY <1>1, <1>3, <1>4, <1>5, ApplyChangesKnown
<1>6. CASE ~configChanged /\ usersChanged
  BY <1>1, <1>4, <1>6, UserUpdateKnown
<1>7. CASE ~configChanged /\ ~usersChanged
  BY <1>4, <1>7
<1> QED BY <1>5, <1>6, <1>7

\* The tail of a delta: a call that succeeded left no more than the new record,
\* one that failed no more than the old.
LEMMA FinishKnown ==
    ASSUME NEW s \in States, s.cfg # NoCfg, NEW users \in Lists, NEW outcomes,
           \A o \in outcomes :
              /\ o.k \in Kernels /\ o.k.up
              /\ o.ok => Members(o.k.users) \subseteq Members(users)
              /\ ~o.ok => Members(o.k.users) \subseteq Members(s.users)
              /\ Members(o.k.admits) \subseteq Members(o.k.users),
           NEW t \in FinishDelta(s, users, outcomes)
    PROVE  Known(t)
<1> DEFINE ready == [s EXCEPT !.users = users]
<1>1. PICK o \in outcomes :
          t \in IF o.ok THEN {[ready EXCEPT !.k = o.k]}
                ELSE {IF p.ok THEN [ready EXCEPT !.k = p.k] ELSE [s EXCEPT !.k = p.k] :
                        p \in UpdateUsers(o.k, users)}
  BY DEF FinishDelta
<1>2. \A k \in Kernels :
        /\ [ready EXCEPT !.k = k] \in States /\ [s EXCEPT !.k = k] \in States
        /\ [ready EXCEPT !.k = k].users = users /\ [s EXCEPT !.k = k].users = s.users
        /\ [ready EXCEPT !.k = k].cfg = s.cfg /\ [s EXCEPT !.k = k].cfg = s.cfg
        /\ [ready EXCEPT !.k = k].k = k /\ [s EXCEPT !.k = k].k = k
  BY DEF States
<1>3. \A p \in UpdateUsers(o.k, users) : UserOutcome(p, o.k, Members(users))
  BY UserOperations
<1> HIDE DEF ready
<1>4. CASE o.ok
  <2> DEFINE u == [ready EXCEPT !.k = o.k]
  <2>1. t = u
    BY <1>1, <1>4
  <2>2. u \in States /\ u.users = users /\ u.cfg = s.cfg /\ u.k = o.k
    BY <1>2
  <2> HIDE DEF u
  <2> QED BY <1>4, <2>1, <2>2 DEF Known
<1>5. CASE ~o.ok
  <2>1. PICK p \in UpdateUsers(o.k, users) :
            t = IF p.ok THEN [ready EXCEPT !.k = p.k] ELSE [s EXCEPT !.k = p.k]
    BY <1>1, <1>5
  <2>2. /\ p.k \in Kernels /\ p.k.up
        /\ p.ok => Members(p.k.users) = Members(users)
        /\ ~p.ok => Members(p.k.users) \subseteq Members(s.users)
        /\ Members(p.k.admits) \subseteq Members(p.k.users)
    BY <1>3, <1>5 DEF UserOutcome
  <2> QED BY <1>2, <2>1, <2>2 DEF Known
<1> QED BY <1>4, <1>5

LEMMA DeltaAddKnown ==
    ASSUME "start" \notin KernelFaults, NEW s, Known(s), NEW delta \in Lists,
           NEW tls \in Nat, NEW t \in ApplyDeltaAdd(s, delta, tls)
    PROVE  Known(t)
<1>1. PICK r \in EnsureRunning(s, tls) :
             \/ ~r.ok /\ t = r.s
             \/ /\ r.ok
                /\ \E k \in DropReplaced(r.s, delta) :
                     t \in FinishDelta([r.s EXCEPT !.k = k], Merge(s.users, delta),
                                       AddUsers(k, delta))
  BY DeltaAddSplit
<1>2. Known(r.s) /\ r.s.users = s.users /\ (r.ok => r.s.k.up)
  BY EnsureKnown
<1>3. CASE ~r.ok
  BY <1>1, <1>2, <1>3
<1>4. CASE r.ok
  <2> DEFINE merged == Merge(s.users, delta)
  <2>1. PICK k \in DropReplaced(r.s, delta) :
               t \in FinishDelta([r.s EXCEPT !.k = k], merged, AddUsers(k, delta))
    BY <1>1, <1>4
  <2>2. r.s \in States /\ s.users \in Lists /\ r.s.cfg # NoCfg
    BY <1>2, <1>4 DEF Known, States
  <2>3. merged \in Lists /\ Members(merged) = Members(s.users) \cup Members(delta)
    BY <2>2, ListClosure, MembersOf
  <2>4. /\ k \in Kernels /\ k.up
        /\ Members(k.users) \subseteq Members(s.users)
        /\ Members(k.admits) \subseteq Members(k.users)
    BY <1>2, <1>4, <2>2, DropReplacedKernel DEF Known
  <2> DEFINE m == [r.s EXCEPT !.k = k]
  <2>5. m \in States /\ m.cfg # NoCfg /\ m.users = s.users
    BY <1>2, <2>2, <2>4 DEF States
  <2>6. t \in FinishDelta(m, merged, AddUsers(k, delta))
    BY <2>1
  <2> HIDE DEF merged, m
  <2>7. \A o \in AddUsers(k, delta) :
              /\ o.k \in Kernels /\ o.k.up
              /\ o.ok => Members(o.k.users) \subseteq Members(merged)
              /\ ~o.ok => Members(o.k.users) \subseteq Members(m.users)
              /\ Members(o.k.admits) \subseteq Members(o.k.users)
    <3> TAKE o \in AddUsers(k, delta)
    <3>1. UserOutcome(o, k, Members(k.users) \cup Members(delta))
      BY <2>4, UserOperations
    <3> QED BY <2>3, <2>4, <2>5, <3>1 DEF UserOutcome
  <2> QED BY <2>3, <2>5, <2>6, <2>7, FinishKnown
<1> QED BY <1>3, <1>4

LEMMA DeltaRemoveKnown ==
    ASSUME NEW s, Known(s), NEW delta \in Lists, NEW t \in ApplyDeltaRemove(s, delta)
    PROVE  Known(t)
<1> DEFINE left == Subtract(s.users, delta)
<1>1. s \in States /\ s.k \in Kernels /\ s.users \in Lists
  BY DEF Known, States
<1>2. CASE ~s.k.up
  BY <1>2 DEF ApplyDeltaRemove
<1>3. CASE s.k.up
  <2>1. left \in Lists /\ Members(left) = Members(s.users) \ Members(delta)
    BY <1>1, ListClosure, MembersOf
  <2>2. t \in FinishDelta(s, left, RemoveUsers(s.k, delta))
    BY <1>3 DEF ApplyDeltaRemove
  <2> HIDE DEF left
  <2>3. \A o \in RemoveUsers(s.k, delta) :
              /\ o.k \in Kernels /\ o.k.up
              /\ o.ok => Members(o.k.users) \subseteq Members(left)
              /\ ~o.ok => Members(o.k.users) \subseteq Members(s.users)
              /\ Members(o.k.admits) \subseteq Members(o.k.users)
    <3> TAKE o \in RemoveUsers(s.k, delta)
    <3>1. UserOutcome(o, s.k, Members(s.k.users) \ Members(delta))
      BY <1>1, UserOperations
    <3> QED BY <1>3, <2>1, <3>1 DEF UserOutcome, Known
  <2> QED BY <1>1, <1>3, <2>1, <2>2, <2>3, FinishKnown DEF Known
<1> QED BY <1>2, <1>3

LEMMA SyncKnown ==
    ASSUME "start" \notin KernelFaults, NEW s, Known(s), NEW tls \in Nat
    PROVE  /\ \A cfg \in Nat : \A t \in SyncConfig(s, cfg, tls) : cfg # NoCfg => Known(t)
           /\ \A users \in Lists : \A t \in SyncUsers(s, users, tls) : Known(t)
           /\ \A action \in DeltaActions, delta \in Lists : \A t \in SyncDelta(s, action, delta, tls) : Known(t)
<1>1. ASSUME NEW cfg \in Nat, cfg # NoCfg, NEW t \in SyncConfig(s, cfg, tls) PROVE Known(t)
  <2> DEFINE u == [s EXCEPT !.cfg = cfg]
  <2>1. u \in States /\ u.k = s.k /\ u.cfg # NoCfg /\ (~s.k.up => s.k = Down)
    BY <1>1 DEF States, Known
  <2>2. t = s \/ t \in ApplyChanges(u, tls)
    BY DEF SyncConfig
  <2> HIDE DEF u
  <2> QED BY <2>1, <2>2, ApplyChangesKnown
<1>2. ASSUME NEW users \in Lists, NEW t \in SyncUsers(s, users, tls) PROVE Known(t)
  BY <1>2, UserUpdateKnown DEF SyncUsers
<1>3. ASSUME NEW action, NEW delta \in Lists, NEW t \in SyncDelta(s, action, delta, tls)
      PROVE  Known(t)
  <2>1. t \in ApplyDeltaAdd(s, delta, tls) \/ t \in ApplyDeltaRemove(s, delta) \/ t = s
    BY <1>3 DEF SyncDelta
  <2> QED BY <2>1, DeltaAddKnown, DeltaRemoveKnown
<1> QED BY <1>1, <1>2, <1>3

-----------------------------------------------------------------------------
(* PushNode's own state. *)

\* What the panel pushes: no configuration without a number, and deltas only if
\* it pushes deltas at all.
Pushed == {e \in Events : /\ e.type = "config" => e.cfg # NoCfg
                          /\ e.type = "delta" => Deltas}

LinkOK ==
    /\ endpoint \in Nat /\ client \in Nat
    /\ conn \in BOOLEAN /\ (conn => client # NoPush)
    /\ downSince \in BOOLEAN /\ resync \in BOOLEAN
    /\ wsEvents \in Seq(Pushed) /\ Len(wsEvents) <= EventsCap
    /\ wsStatus \in Seq(Statuses) /\ Len(wsStatus) <= StatusCap
    /\ flaps \in Nat /\ moves \in Nat

LEMMA EventTypes ==
    /\ \A cfg \in Nat \ {NoCfg} : ConfigEvent(cfg) \in Pushed
    /\ \A users \in Lists : UsersEvent(users) \in Pushed
    /\ Deltas => \A action \in DeltaActions, delta \in Lists : DeltaEvent(action, delta) \in Pushed
<1>1. \A cfg \in Nat \ {NoCfg} : ConfigEvent(cfg) \in Pushed
  BY DEF Pushed, Events, ConfigEvent
<1>2. \A users \in Lists : UsersEvent(users) \in Pushed
  BY DEF Pushed, Events, UsersEvent
<1>3. ASSUME Deltas, NEW action \in DeltaActions, NEW delta \in Lists
      PROVE  DeltaEvent(action, delta) \in Pushed
  <2> DEFINE e == DeltaEvent(action, delta)
  <2>1. e \in [type : {"delta"}, action : DeltaActions, users : Lists] /\ e.type = "delta"
    BY DEF DeltaEvent
  <2> HIDE DEF e
  <2>2. e \in Pushed
    BY <1>3, <2>1 DEF Pushed, Events
  <2> QED BY <2>2 DEF e
<1> QED BY <1>1, <1>2, <1>3

\* To PullLoop's variables every step is one of PullLoop's, a handler that
\* starts pulls, or an event.
LEMMA PullOrEvent == [PushNodeNext]_pushVars => [PullNext]_vars \/ HandleWSEvent
<1> SUFFICES ASSUME [PushNodeNext]_pushVars PROVE [PullNext]_vars \/ HandleWSEvent
  OBVIOUS
<1>1. CASE PushEdits
  <2>1. EditConfig \/ \E list \in PanelLists : EditUsers(list)
    <3>1. \/ EditConfig
          \/ \E list \in PanelLists : EditUsers(list)
          \/ (\E list : EditUsers(list)) /\ pusers' \in PanelLists
      BY <1>1 DEF PushEdits, EditAndPush
    <3>2. \A list : EditUsers(list) => pusers' = list
      BY DEF EditUsers
    <3> QED BY <3>1, <3>2
  <2>2. PanelEdits
    BY <1>1, <2>1 DEF PushEdits, PanelEdits
  <2> QED BY <2>2 DEF PullNext, Next
<1>2. CASE EndpointMoves \/ Connect \/ ConnectReturns
  BY <1>2 DEF EndpointMoves, Connect, ConnectReturns
<1>3. CASE Renewal
  BY <1>3 DEF Renewal, PullNext, Next
<1>4. CASE PushPullTick
  BY <1>4 DEF PushPullTick, PullNext, Next
<1>5. CASE PushApplyPullResult
  BY <1>5 DEF PushApplyPullResult, PullNext, Next
<1>6. CASE HandleWSStatus \/ WSDiscovery
  <2>1. (PullCalls(1) \/ PullCalls(2)) /\ UNCHANGED <<panelVars, clientVars, certVars, svc, results>>
    BY <1>6 DEF HandleWSStatus, WSDiscovery
  <2>2. Pulling
    BY <2>1 DEF Pulling
  <2> QED BY <2>2 DEF PullNext
<1>7. ASSUME NEW g \in Pulls, Goroutine(g) PROVE [PullNext]_vars
  BY <1>7 DEF Goroutine, PullNext, Next
<1>8. CASE UNCHANGED pushVars
  BY <1>8 DEF pushVars
<1> QED BY <1>1, <1>2, <1>3, <1>4, <1>5, <1>6, <1>7, <1>8 DEF PushNodeNext

\* What an event does to PullLoop's variables: to the service only.
LEMMA EventEffect ==
    ASSUME TypeOK, LinkOK, HandleWSEvent
    PROVE  /\ \/ \E cfg \in Nat \ {NoCfg} : svc' \in SyncConfig(svc, cfg, cert)
              \/ \E users \in Lists : svc' \in SyncUsers(svc, users, cert)
              \/ Deltas /\ \E action \in DeltaActions, delta \in Lists : svc' \in SyncDelta(svc, action, delta, cert)
           /\ svc \in States /\ cert \in Nat
           /\ wsEvents' \in Seq(Pushed) /\ Len(wsEvents') <= EventsCap
           /\ UNCHANGED <<panelVars, clientVars, certVars, pull, pullActive, backoff, results,
                          renewed>>
<1> DEFINE e == Head(wsEvents)
<1>1. /\ e \in Pushed /\ wsEvents' \in Seq(Pushed) /\ Len(wsEvents') <= EventsCap
  <2>1. wsEvents \in Seq(Pushed) /\ wsEvents # <<>> /\ wsEvents' = Tail(wsEvents)
        /\ Len(wsEvents) <= EventsCap /\ EventsCap \in Nat
    BY PushAssumption DEF HandleWSEvent, LinkOK
  <2>2. Head(wsEvents) \in Pushed /\ Tail(wsEvents) \in Seq(Pushed)
        /\ Len(Tail(wsEvents)) = Len(wsEvents) - 1 /\ Len(wsEvents) \in Nat
    BY <2>1, HeadTailProperties
  <2> QED BY <2>1, <2>2
<1>2. svc' \in CASE e.type = "config" -> SyncConfig(svc, e.cfg, cert)
                 [] e.type = "users"  -> SyncUsers(svc, e.users, cert)
                 [] e.type = "delta"  -> SyncDelta(svc, e.action, e.users, cert)
  BY DEF HandleWSEvent
<1> HIDE DEF e
<1>3. \/ e.type = "config" /\ e.cfg \in Nat \ {NoCfg}
      \/ e.type = "users" /\ e.users \in Lists
      \/ e.type = "delta" /\ e.action \in DeltaActions /\ e.users \in Lists /\ Deltas
  BY <1>1 DEF Pushed, Events
<1>4. \/ e.type = "config" /\ svc' \in SyncConfig(svc, e.cfg, cert)
      \/ e.type = "users" /\ svc' \in SyncUsers(svc, e.users, cert)
      \/ e.type = "delta" /\ svc' \in SyncDelta(svc, e.action, e.users, cert)
  BY <1>2, <1>3
<1>5. svc \in States /\ cert \in Nat
  BY DEF TypeOK
<1>6. UNCHANGED <<panelVars, clientVars, certVars, pull, pullActive, backoff, results, renewed>>
  BY DEF HandleWSEvent
<1> QED BY <1>1, <1>3, <1>4, <1>5, <1>6

LEMMA PostedType ==
    ASSUME LinkOK, NEW c \in BOOLEAN, NEW n \in BOOLEAN
    PROVE  Posted(c, n) \in Seq(Statuses) /\ Len(Posted(c, n)) <= StatusCap
<1> DEFINE status == [connected |-> c, needsResync |-> n]
<1>1. status \in Statuses /\ StatusCap \in Nat
  BY PushAssumption DEF Statuses
<1> HIDE DEF status
<1>2. wsStatus \in Seq(Statuses) /\ Len(wsStatus) <= StatusCap
  BY DEF LinkOK
<1>3. CASE Len(wsStatus) < StatusCap
  <2>1. Posted(c, n) = Append(wsStatus, status)
    BY <1>3 DEF Posted, status
  <2> QED BY <1>1, <1>2, <1>3, <2>1
<1>4. CASE ~(Len(wsStatus) < StatusCap)
  BY <1>2, <1>4 DEF Posted
<1> QED BY <1>3, <1>4

\* An event that is pushed lands in the channel, becomes a status, or is lost.
LEMMA PushType ==
    ASSUME LinkOK, NEW e \in Pushed, Push(e)
    PROVE  /\ wsEvents' \in Seq(Pushed) /\ Len(wsEvents') <= EventsCap
           /\ wsStatus' \in Seq(Statuses) /\ Len(wsStatus') <= StatusCap
<1>1. /\ wsEvents \in Seq(Pushed) /\ Len(wsEvents) <= EventsCap
      /\ wsStatus \in Seq(Statuses) /\ Len(wsStatus) <= StatusCap
  BY DEF LinkOK
<1>2. CASE UNCHANGED <<wsEvents, wsStatus>>
  BY <1>1, <1>2
<1>3. CASE Len(wsEvents) < EventsCap /\ wsEvents' = Append(wsEvents, e) /\ UNCHANGED wsStatus
  BY <1>1, <1>3, PushAssumption
<1>4. CASE wsStatus' = Posted(TRUE, TRUE) /\ UNCHANGED wsEvents
  BY <1>1, <1>4, PostedType
<1> QED BY <1>2, <1>3, <1>4 DEF Push, PushEvent

LEMMA UpToType ==
    ASSUME NEW S, NEW s \in Seq(S), NEW n \in Nat
    PROVE  /\ UpTo(s, n) \in Seq(S)
           /\ Len(UpTo(s, n)) <= n /\ Len(UpTo(s, n)) <= Len(s)
<1> DEFINE m == IF n < Len(s) THEN n ELSE Len(s)
<1>1. m \in Nat /\ m <= n /\ m <= Len(s)
  OBVIOUS
<1>2. UpTo(s, n) = SubSeq(s, 1, m)
  BY DEF UpTo
<1> HIDE DEF m
<1>3. \A i \in 1..m : s[i] \in S
  BY <1>1
<1>4. SubSeq(s, 1, m) \in Seq(S) /\ Len(SubSeq(s, 1, m)) = IF 1 <= m THEN m - 1 + 1 ELSE 0
  BY <1>1, <1>3, SubSeqProperties
<1> QED BY <1>1, <1>2, <1>4

\* A full sync fills the channel and no more.
LEMMA FullSyncType ==
    ASSUME TypeOK, LinkOK
    PROVE  /\ FullSync \in Seq(Pushed) /\ Len(FullSync) <= EventsCap
           /\ ConnectedStatuses \in Seq(Statuses) /\ Len(ConnectedStatuses) <= StatusCap
<1>1. FullSyncEvents \in Seq(Pushed)
  <2>1. ConfigEvent(pcfg) \in Pushed /\ UsersEvent(pusers) \in Pushed
    BY EventTypes DEF TypeOK
  <2> QED BY <2>1 DEF FullSyncEvents
<1>2. /\ wsEvents \in Seq(Pushed)
      /\ EventsCap \in Nat /\ StatusCap \in Nat
  BY PushAssumption DEF LinkOK
<1> DEFINE all == wsEvents \o FullSyncEvents
<1>3. all \in Seq(Pushed)
  BY <1>1, <1>2, ConcatProperties
<1>4. FullSync = UpTo(all, EventsCap)
  BY DEF FullSync
<1> DEFINE dropped == Len(all) - Len(FullSync)
           status  == [connected |-> TRUE, needsResync |-> TRUE]
           asking  == [i \in 1..dropped |-> status]
<1>5. ConnectedStatuses = UpTo(Posted(TRUE, FALSE) \o asking, StatusCap)
  BY DEF ConnectedStatuses
<1> HIDE DEF all
<1>6. /\ FullSync \in Seq(Pushed)
      /\ Len(FullSync) <= EventsCap /\ Len(FullSync) <= Len(all)
  BY <1>2, <1>3, <1>4, UpToType
<1>7. dropped \in Nat
  BY <1>3, <1>6
<1>8. status \in Statuses
  BY DEF Statuses
<1> HIDE DEF dropped, status
<1>9. asking \in Seq(Statuses)
  BY <1>7, <1>8
<1> HIDE DEF asking
<1>10. Posted(TRUE, FALSE) \o asking \in Seq(Statuses)
  BY <1>9, PostedType, ConcatProperties
<1> QED BY <1>2, <1>5, <1>6, <1>10, UpToType

LEMMA LinkStep == TypeOK /\ LinkOK /\ [PushNodeNext]_pushVars => LinkOK'
<1> SUFFICES ASSUME TypeOK, LinkOK, [PushNodeNext]_pushVars PROVE LinkOK'
  OBVIOUS
<1>1. CASE PushEdits
  <2>1. \E e \in Pushed : Push(e)
    <3>1. pcfg \in Nat \ {NoCfg} /\ pusers \in Lists
      BY DEF TypeOK
    <3>2. CASE EditConfig /\ Push(ConfigEvent(pcfg'))
      <4>1. pcfg' \in Nat \ {NoCfg}
        BY <3>1, <3>2 DEF EditConfig, NoCfg
      <4> QED BY <3>2, <4>1, EventTypes
    <3>3. ASSUME NEW list \in PanelLists, Push(UsersEvent(list)) PROVE \E e \in Pushed : Push(e)
      BY <3>3, EventTypes, PullAssumption
    <3>4. ASSUME Deltas, NEW i \in UserIds, NEW uuid \in Uuids, NEW action \in DeltaActions,
                 Push(DeltaEvent(action, [NoUsers EXCEPT ![i] = uuid]))
          PROVE  \E e \in Pushed : Push(e)
      <4>1. [NoUsers EXCEPT ![i] = uuid] \in Lists
        BY DEF NoUsers, Lists
      <4> QED BY <3>4, <4>1, EventTypes
    <3>5. "add" \in DeltaActions /\ "remove" \in DeltaActions
      BY DEF DeltaActions
    <3> QED BY <1>1, <3>2, <3>3, <3>4, <3>5 DEF PushEdits, EditAndPush
  <2>2. UNCHANGED <<endpoint, client, conn, downSince, resync, flaps, moves>>
    BY <1>1 DEF PushEdits
  <2> QED BY <2>1, <2>2, PushType DEF LinkOK
<1>2. CASE EndpointMoves
  BY <1>2 DEF EndpointMoves, LinkOK, NoPush
<1>3. CASE Connect
  <2>1. /\ wsStatus' = ConnectedStatuses /\ wsEvents' = FullSync /\ conn' = TRUE
        /\ client # NoPush
        /\ UNCHANGED <<endpoint, client, downSince, resync, flaps, moves>>
    BY <1>3 DEF Connect
  <2> QED BY <2>1, FullSyncType DEF LinkOK
<1>4. CASE ConnectReturns
  <2>1. /\ wsStatus' = Posted(FALSE, FALSE) /\ conn' = FALSE /\ flaps' = flaps + 1
        /\ UNCHANGED <<endpoint, client, downSince, wsEvents, resync, moves>>
    BY <1>4 DEF ConnectReturns
  <2>2. wsStatus' \in Seq(Statuses) /\ Len(wsStatus') <= StatusCap
    BY <2>1, PostedType
  <2>3. /\ flaps' \in Nat /\ endpoint' \in Nat /\ client' \in Nat /\ moves' \in Nat
        /\ downSince' \in BOOLEAN /\ resync' \in BOOLEAN
        /\ wsEvents' \in Seq(Pushed) /\ Len(wsEvents') <= EventsCap
    BY <2>1 DEF LinkOK
  <2>4. conn' \in BOOLEAN /\ (conn' => client' # NoPush)
    BY <2>1
  <2> QED BY <2>2, <2>3, <2>4 DEF LinkOK
<1>5. CASE UNCHANGED linkVars
  BY <1>5 DEF linkVars, LinkOK
<1>6. CASE PushApplyPullResult
  BY <1>6 DEF PushApplyPullResult, LinkOK
<1>7. CASE HandleWSStatus
  <2> DEFINE status == Head(wsStatus)
  <2>1. /\ resync' = (resync \/ status.needsResync) /\ downSince' = ~status.connected
        /\ wsStatus # <<>> /\ wsStatus' = Tail(wsStatus)
        /\ UNCHANGED <<endpoint, client, conn, wsEvents, flaps, moves>>
    BY <1>7 DEF HandleWSStatus
  <2>2. wsStatus \in Seq(Statuses) /\ Len(wsStatus) <= StatusCap /\ StatusCap \in Nat
    BY PushAssumption DEF LinkOK
  <2>3. status \in Statuses /\ wsStatus' \in Seq(Statuses) /\ Len(wsStatus') <= StatusCap
    <3>1. Head(wsStatus) \in Statuses /\ Tail(wsStatus) \in Seq(Statuses)
          /\ Len(Tail(wsStatus)) = Len(wsStatus) - 1 /\ Len(wsStatus) \in Nat
      BY <2>1, <2>2, HeadTailProperties
    <3> QED BY <2>1, <2>2, <3>1
  <2> HIDE DEF status
  <2>4. resync' \in BOOLEAN /\ downSince' \in BOOLEAN
    BY <2>1
  <2> QED BY <2>1, <2>3, <2>4 DEF LinkOK
<1>8. CASE HandleWSEvent
  <2>1. wsEvents' \in Seq(Pushed) /\ Len(wsEvents') <= EventsCap
    BY <1>8, EventEffect
  <2>2. UNCHANGED <<endpoint, client, conn, downSince, wsStatus, resync, flaps, moves>>
    BY <1>8 DEF HandleWSEvent
  <2> QED BY <2>1, <2>2 DEF LinkOK
<1>9. CASE WSDiscovery
  <2>1. AdoptEndpoint /\ UNCHANGED <<endpoint, wsEvents, resync, flaps, moves>>
    BY <1>9 DEF WSDiscovery
  <2>2. wsStatus' \in {wsStatus, Posted(FALSE, FALSE)}
    BY <2>1 DEF AdoptEndpoint
  <2>3. wsStatus' \in Seq(Statuses) /\ Len(wsStatus') <= StatusCap
    BY <2>2, PostedType DEF LinkOK
  <2>4. /\ client' \in Nat /\ conn' \in BOOLEAN /\ (conn' => client' # NoPush)
        /\ downSince' \in BOOLEAN
    <3>1. /\ endpoint \in Nat /\ client \in Nat /\ conn \in BOOLEAN /\ downSince \in BOOLEAN
          /\ conn => client # NoPush
      BY DEF LinkOK
    <3>2. \/ endpoint # NoPush /\ client = NoPush /\ client' = endpoint /\ downSince' = FALSE
             /\ UNCHANGED conn
          \/ UNCHANGED <<client, conn, downSince>>
          \/ client' = NoPush /\ downSince' = FALSE /\ conn' = FALSE
      BY <2>1 DEF AdoptEndpoint
    <3>3. CASE endpoint # NoPush /\ client = NoPush /\ client' = endpoint /\ downSince' = FALSE
               /\ UNCHANGED conn
      BY <3>1, <3>3
    <3>4. CASE UNCHANGED <<client, conn, downSince>>
      BY <3>1, <3>4
    <3>5. CASE client' = NoPush /\ downSince' = FALSE /\ conn' = FALSE
      BY <3>5 DEF NoPush
    <3> QED BY <3>2, <3>3, <3>4, <3>5
  <2> QED BY <2>1, <2>3, <2>4 DEF LinkOK
<1>10. CASE UNCHANGED pushVars
  BY <1>5, <1>10 DEF pushVars
<1> QED BY <1>1, <1>2, <1>3, <1>4, <1>5, <1>6, <1>7, <1>8, <1>9, <1>10
        DEF PushNodeNext, Renewal, PushPullTick, Goroutine

-----------------------------------------------------------------------------
(* A delta on a kernel in step, when no update in place fails. *)

\* What is left of base when the users whose credential delta replaces are
\* taken out.
Replaced(base, delta) == {i \in Members(base) \cap Members(delta) : base[i] # delta[i]}
Rest(base, delta) == Subtract(base, Only(base, Replaced(base, delta)))

\* Taking out the replaced users and adding what is missing then is the same as
\* overlaying the delta.
LEMMA DeltaAddsUp ==
    ASSUME NEW base \in Lists, NEW delta \in Lists
    PROVE  LET rest  == Rest(base, delta)
               fresh == Members(delta) \ Members(rest)
           IN  /\ rest \in Lists
               /\ Merge(rest, Only(delta, fresh)) = Merge(base, delta)
               /\ Replaced(base, delta) = {} => rest = base
               /\ fresh = {} => rest = Merge(base, delta)
<1> DEFINE gone  == Replaced(base, delta)
           rest  == Rest(base, delta)
           fresh == Members(delta) \ Members(rest)
<1>1. rest \in Lists /\ \A i \in UserIds : rest[i] = IF i \in gone THEN Absent ELSE base[i]
  <2>1. \A i \in gone : base[i] # Absent
    BY DEF Replaced, Members
  <2> HIDE DEF gone
  <2> QED BY <2>1 DEF Rest, Subtract, Only, Lists, gone
<1>2. \A i \in UserIds : i \in gone <=> base[i] # Absent /\ delta[i] # Absent /\ base[i] # delta[i]
  BY DEF Replaced, Members
<1>3. \A i \in UserIds : i \in fresh <=> delta[i] # Absent /\ rest[i] = Absent
  BY DEF Members
<1>4. fresh \subseteq UserIds /\ gone \subseteq UserIds
  BY DEF Members, Replaced
<1> HIDE DEF gone, rest, fresh
<1>5. \A i \in UserIds :
          (IF i \in fresh THEN delta[i] ELSE rest[i]) = IF delta[i] # Absent THEN delta[i] ELSE base[i]
  BY <1>1, <1>2, <1>3
<1>6. Merge(rest, Only(delta, fresh)) = Merge(base, delta)
  <2>1. \A i \in UserIds : (IF Only(delta, fresh)[i] # Absent THEN Only(delta, fresh)[i] ELSE rest[i])
                         = IF delta[i] # Absent THEN delta[i] ELSE base[i]
    BY <1>3, <1>5 DEF Only
  <2> QED BY <2>1 DEF Merge
<1>7. ASSUME gone = {} PROVE rest = base
  BY <1>1, <1>7 DEF Lists
<1>8. ASSUME fresh = {} PROVE rest = Merge(base, delta)
  <2>1. \A i \in UserIds : rest[i] = Merge(base, delta)[i]
    BY <1>5, <1>8 DEF Merge
  <2> QED BY <1>1, <2>1 DEF Lists, Merge
<1> QED BY <1>1, <1>6, <1>7, <1>8 DEF rest, fresh, gone

\* A kernel that serves and admits just users, for configuration cfg.
Settled(k, cfg, users) ==
    /\ k \in Kernels /\ k.up
    /\ k.cfg = cfg /\ k.users = users /\ k.admits = users

LEMMA SureReload ==
    ASSUME KernelFaults \subseteq {"start"}, NEW k \in Kernels, k.up, NEW users \in Lists,
           NEW o \in ReloadInbounds(k, users)
    PROVE  o.ok /\ Settled(o.k, k.cfg, users)
<1>1. o \notin InboundFailures(k)
  BY InboundFailure
<1> DEFINE u == [k EXCEPT !.users = users, !.admits = users]
<1>2. o = Done(u)
  BY <1>1 DEF ReloadInbounds
<1>3. u \in Kernels /\ u.up /\ u.cfg = k.cfg /\ u.users = users /\ u.admits = users
  BY DEF Kernels
<1> HIDE DEF u
<1> QED BY <1>2, <1>3 DEF Done, Settled

LEMMA SureDrop ==
    ASSUME KernelFaults \subseteq {"start"}, NEW s, InStep(s), s.k.up, NEW delta \in Lists,
           NEW k \in DropReplaced(s, delta)
    PROVE  Settled(k, s.cfg, Rest(s.users, delta))
<1> DEFINE gone == Replaced(s.users, delta)
           old  == Only(s.users, gone)
           rest == Rest(s.users, delta)
<1>1. s.k \in Kernels /\ s.users \in Lists /\ s.k.users = s.users /\ s.k.admits = s.users
      /\ s.k.cfg = s.cfg
  BY DEF InStep, States
<1>2. rest \in Lists /\ (gone = {} => rest = s.users)
  BY <1>1, DeltaAddsUp
<1>3. CASE gone = {}
  <2>1. k = s.k
    BY <1>3 DEF DropReplaced, Replaced
  <2> QED BY <1>1, <1>2, <1>3, <2>1 DEF Settled
<1>4. CASE gone # {}
  <2>1. PICK o \in RemoveUsers(s.k, old) : k = o.k
    BY <1>4 DEF DropReplaced, Replaced
  <2>2. Members(s.k.users) \cap Members(old) # {}
    <3>1. Members(old) = Members(s.users) \cap gone
      BY <1>1, MembersOf
    <3>2. gone \subseteq Members(s.users)
      BY DEF Replaced
    <3> QED BY <1>1, <1>4, <3>1, <3>2
  <2>3. o \in ReloadInbounds(s.k, rest)
    BY <1>1, <2>1, <2>2 DEF RemoveUsers, Rest
  <2> HIDE DEF rest
  <2>4. Settled(o.k, s.k.cfg, rest)
    BY <1>1, <1>2, <2>3, SureReload
  <2> QED BY <1>1, <2>1, <2>4 DEF rest
<1> QED BY <1>3, <1>4

\* A delta that succeeded as a whole.
LEMMA FinishInStep ==
    ASSUME NEW s \in States, s.cfg # NoCfg, NEW users \in Lists, NEW outcomes,
           \A o \in outcomes : o.ok /\ Settled(o.k, s.cfg, users),
           NEW t \in FinishDelta(s, users, outcomes)
    PROVE  InStep(t)
<1>1. PICK o \in outcomes : t = [[s EXCEPT !.users = users] EXCEPT !.k = o.k]
  BY DEF FinishDelta
<1>2. Settled(o.k, s.cfg, users)
  OBVIOUS
<1>3. t \in States /\ t.k = o.k /\ t.users = users /\ t.cfg = s.cfg
  BY <1>1, <1>2 DEF States, Settled
<1> QED BY <1>2, <1>3 DEF InStep, Settled

LEMMA SyncInStep ==
    ASSUME OneKindFails, Deltas => KernelFaults \subseteq {"start"}, NEW s, InStep(s),
           NEW tls \in Nat
    PROVE  /\ \A cfg \in Nat \ {NoCfg} : \A t \in SyncConfig(s, cfg, tls) : InStep(t)
           /\ \A users \in Lists : \A t \in SyncUsers(s, users, tls) : InStep(t)
           /\ Deltas => \A action \in DeltaActions, delta \in Lists :
                 \A t \in SyncDelta(s, action, delta, tls) : InStep(t)
<1>0. s \in States /\ s.k \in Kernels /\ s.users \in Lists
  BY DEF InStep, States
<1>1. ASSUME NEW cfg \in Nat \ {NoCfg}, NEW t \in SyncConfig(s, cfg, tls) PROVE InStep(t)
  <2> DEFINE u == [s EXCEPT !.cfg = cfg]
  <2>1. u \in States /\ u.k = s.k /\ u.cfg # NoCfg /\ (~s.k.up => s.k = Down)
    BY <1>0 DEF States, InStep
  <2>2. t = s \/ t \in ApplyChanges(u, tls)
    BY DEF SyncConfig
  <2> HIDE DEF u
  <2> QED BY <2>1, <2>2, ApplyChangesInStep
<1>2. ASSUME NEW users \in Lists, NEW t \in SyncUsers(s, users, tls) PROVE InStep(t)
  BY <1>2, UserUpdateInStep DEF SyncUsers
<1>3. ASSUME Deltas, NEW delta \in Lists, NEW t \in ApplyDeltaAdd(s, delta, tls) PROVE InStep(t)
  <2>0. KernelFaults \subseteq {"start"}
    BY <1>3
  <2>1. PICK r \in EnsureRunning(s, tls) :
             \/ ~r.ok /\ t = r.s
             \/ /\ r.ok
                /\ \E k \in DropReplaced(r.s, delta) :
                     t \in FinishDelta([r.s EXCEPT !.k = k], Merge(s.users, delta),
                                       AddUsers(k, delta))
    BY DeltaAddSplit
  <2>2. InStep(r.s) /\ r.s.users = s.users /\ (r.ok => r.s.k.up)
    BY EnsureInStep
  <2>3. CASE ~r.ok
    BY <2>1, <2>2, <2>3
  <2>4. CASE r.ok
    <3> DEFINE merged == Merge(s.users, delta)
               rest   == Rest(s.users, delta)
               fresh  == Members(delta) \ Members(rest)
    <3>1. PICK k \in DropReplaced(r.s, delta) :
               t \in FinishDelta([r.s EXCEPT !.k = k], merged, AddUsers(k, delta))
      BY <2>1, <2>4
    <3>2. Settled(k, r.s.cfg, rest)
      BY <2>0, <2>2, <2>4, SureDrop
    <3>3. /\ merged \in Lists
          /\ Merge(rest, Only(delta, fresh)) = merged
          /\ fresh = {} => rest = merged
      BY <1>0, ListClosure, DeltaAddsUp
    <3> DEFINE m == [r.s EXCEPT !.k = k]
    <3>4. m \in States /\ m.cfg = r.s.cfg /\ m.cfg # NoCfg
      BY <2>2, <2>4, <3>2 DEF InStep, States, Settled
    <3>5. t \in FinishDelta(m, merged, AddUsers(k, delta))
      BY <3>1
    <3> HIDE DEF merged, rest, m
    <3>6. \A o \in AddUsers(k, delta) : o.ok /\ Settled(o.k, m.cfg, merged)
      <4> TAKE o \in AddUsers(k, delta)
      <4>1. CASE o = Done(k) /\ fresh = {}
        BY <3>2, <3>3, <3>4, <4>1 DEF Done
      <4>2. CASE o \in ReloadInbounds(k, merged)
        <5>1. k \in Kernels /\ k.up /\ k.cfg = m.cfg
          BY <3>2, <3>4 DEF Settled
        <5> QED BY <2>0, <3>3, <4>2, <5>1, SureReload
      <4>3. k.up /\ k.users = rest
        BY <3>2 DEF Settled
      <4> QED BY <3>3, <4>1, <4>2, <4>3 DEF AddUsers
    <3> QED BY <3>3, <3>4, <3>5, <3>6, FinishInStep
  <2> QED BY <2>3, <2>4
<1>4. ASSUME Deltas, NEW delta \in Lists, NEW t \in ApplyDeltaRemove(s, delta) PROVE InStep(t)
  <2> DEFINE left == Subtract(s.users, delta)
  <2>1. CASE ~s.k.up
    BY <2>1 DEF ApplyDeltaRemove
  <2>2. CASE s.k.up
    <3>1. t \in FinishDelta(s, left, RemoveUsers(s.k, delta))
      BY <2>2 DEF ApplyDeltaRemove
    <3>2. left \in Lists
      BY <1>0, ListClosure
    <3>3. Settled(s.k, s.cfg, s.users) /\ s.cfg # NoCfg
      BY <1>0, <2>2 DEF InStep, Settled
    <3>4. Members(s.users) \cap Members(delta) = {} => left = s.users
      BY <1>0 DEF Members, Subtract, Lists
    <3>5. \A o \in RemoveUsers(s.k, delta) : o.ok /\ Settled(o.k, s.cfg, left)
      <4> TAKE o \in RemoveUsers(s.k, delta)
      <4>1. CASE o = Done(s.k) /\ left = s.users
        BY <3>3, <4>1 DEF Done
      <4>2. CASE o \in ReloadInbounds(s.k, left)
        <5> HIDE DEF left
        <5>1. s.k.cfg = s.cfg
          BY <3>3 DEF Settled
        <5> QED BY <1>0, <1>4, <2>2, <3>2, <4>2, <5>1, SureReload
      <4>3. s.k.users = s.users
        BY <3>3 DEF Settled
      <4> QED BY <2>2, <3>4, <4>1, <4>2, <4>3 DEF RemoveUsers
    <3> HIDE DEF left
    <3> QED BY <1>0, <3>1, <3>2, <3>3, <3>5, FinishInStep
  <2> QED BY <2>1, <2>2
<1>5. ASSUME Deltas, NEW action, NEW delta \in Lists, NEW t \in SyncDelta(s, action, delta, tls)
      PROVE  InStep(t)
  <2>1. t \in ApplyDeltaAdd(s, delta, tls) \/ t \in ApplyDeltaRemove(s, delta) \/ t = s
    BY <1>5 DEF SyncDelta
  <2> QED BY <1>3, <1>4, <1>5, <2>1
<1> QED BY <1>1, <1>2, <1>5

-----------------------------------------------------------------------------
(* The theorems about PushNode. *)

PushBase == TypeOK /\ SingleFlight /\ BackoffShort /\ LinkOK

LEMMA PushInitType == PushNodeInit => PushBase /\ InStep(svc)
<1> SUFFICES ASSUME PushNodeInit PROVE PushBase /\ InStep(svc)
  OBVIOUS
<1> USE DEF PushNodeInit, PullInit
<1>1. pusers \in Lists /\ NoUsers \in Lists
  BY PullAssumption, ListClosure
<1>2. Down \in Kernels /\ ~Down.up
  BY <1>1 DEF Down, Kernels, NoCfg
<1>3. /\ svc \in States /\ svc.users = NoUsers /\ svc.k = Down
  BY <1>1, <1>2 DEF Fresh, States, NoCfg
<1>4. InStep(svc)
  BY <1>2, <1>3 DEF InStep
<1>5. Idle \in Goroutines
  BY DEF Idle, Goroutines, Stages, NoCfg
<1>6. pull \in [Pulls -> Goroutines] /\ \A g \in Pulls : pull[g].stage = "idle"
  BY <1>5 DEF Idle
<1>7. TypeOK
  <2>1. pcfg \in Nat \ {NoCfg} /\ backoff \in 0..8 /\ ctag \in Nat /\ utag \in Lists \cup {Nil}
    BY DEF NoCfg
  <2>2. cert \in Nat /\ {edits, faults, renewals} \subseteq Nat
    OBVIOUS
  <2>3. pullActive \in BOOLEAN /\ renewed \in BOOLEAN
    BY Zenon
  <2>4. results \in Seq(Results) /\ Len(results) <= ResultsCap
    BY DEF ResultsCap
  <2> QED BY <1>1, <1>3, <1>6, <2>1, <2>2, <2>3, <2>4 DEF TypeOK
<1>8. SingleFlight /\ BackoffShort
  BY <1>6 DEF SingleFlight, BackoffShort
<1>9. LinkOK
  <2>1. wsEvents \in Seq(Pushed) /\ Len(wsEvents) <= EventsCap
    BY PushAssumption
  <2>2. wsStatus \in Seq(Statuses) /\ Len(wsStatus) <= StatusCap
    BY PushAssumption
  <2>3. conn \in BOOLEAN /\ (conn => client # NoPush) /\ downSince \in BOOLEAN /\ resync \in BOOLEAN
    BY Zenon
  <2>4. endpoint \in Nat /\ client \in Nat /\ flaps \in Nat /\ moves \in Nat
    OBVIOUS
  <2> QED BY <2>1, <2>2, <2>3, <2>4 DEF LinkOK
<1> QED BY <1>4, <1>7, <1>8, <1>9 DEF PushBase

LEMMA PushStep == PushBase /\ [PushNodeNext]_pushVars => PushBase'
<1> SUFFICES ASSUME PushBase, [PushNodeNext]_pushVars PROVE PushBase'
  OBVIOUS
<1>1. TypeOK /\ SingleFlight /\ BackoffShort /\ LinkOK
  BY DEF PushBase
<1>2. LinkOK'
  BY <1>1, LinkStep
<1>3. CASE [PullNext]_vars
  BY <1>1, <1>2, <1>3, TypeStep, SingleFlightStep, BackoffStep DEF PushBase
<1>4. CASE HandleWSEvent
  <2>1. svc' \in States
    BY <1>1, <1>4, EventEffect, SyncType
  <2>2. UNCHANGED <<panelVars, clientVars, certVars, pull, pullActive, backoff, results, renewed>>
    BY <1>1, <1>4, EventEffect
  <2>3. TypeOK'
    BY <1>1, <2>1, <2>2 DEF TypeOK, panelVars, clientVars, certVars
  <2>4. SingleFlight' /\ BackoffShort'
    BY <1>1, <2>2 DEF SingleFlight, BackoffShort
  <2> QED BY <1>2, <2>3, <2>4 DEF PushBase
<1> QED BY <1>3, <1>4, PullOrEvent

\* The channels keep within their capacity and a connection belongs to a client,
\* whatever the panel pushes and however often the connection comes and goes.
THEOREM PushTypeCorrect == PushNodeSpec => []PushTypeOK
<1>1. PushBase => PushTypeOK
  <2> SUFFICES ASSUME PushBase PROVE PushTypeOK
    OBVIOUS
  <2>1. Pushed \subseteq Events
    BY DEF Pushed
  <2>2. wsEvents \in Seq(Events)
    BY <2>1 DEF PushBase, LinkOK
  <2> QED BY <2>2 DEF PushBase, LinkOK, PushTypeOK
<1> QED BY <1>1, PushInitType, PushStep, PTL DEF PushNodeSpec

\* With push, discovery and resyncs starting pulls as well, at most one pull
\* goroutine exists.
THEOREM PushPullsExclude == PushNodeSpec => []SingleFlight
<1>1. PushBase => SingleFlight
  BY DEF PushBase
<1> QED BY <1>1, PushInitType, PushStep, PTL DEF PushNodeSpec

\* Nobody is let in whom the service does not have on record, as long as no
\* start of the kernel fails: whatever updates in place fail, half-way or not,
\* in whichever order events, results and renewals come.
THEOREM StrangersKeptOut ==
    ASSUME "start" \notin KernelFaults
    PROVE  PushNodeSpec => []NoStrangerAdmitted
<1>1. PushNodeInit => Known(svc)
  BY PushInitType, InStepKnown
<1>2. PushBase /\ Known(svc) /\ [PushNodeNext]_pushVars => Known(svc)'
  <2> SUFFICES ASSUME PushBase, Known(svc), [PushNodeNext]_pushVars PROVE Known(svc')
    OBVIOUS
  <2>1. TypeOK /\ LinkOK
    BY DEF PushBase
  <2>2. CASE HandleWSEvent
    BY <2>1, <2>2, EventEffect, SyncKnown
  <2>3. CASE svc' = svc
    BY <2>3
  <2>4. CASE ApplyPullResult
    <3>1. Head(results) \in Results /\ svc' \in AdoptPull(svc, Head(results), cert) /\ cert \in Nat
      BY <2>1, <2>4 DEF ApplyPullResult, TypeOK
    <3> QED BY <3>1, AdoptPullKnown
  <2>5. [PullNext]_vars => svc' = svc \/ ApplyPullResult
    BY DEF PullNext, Pulling, Next, PanelEdits, CertRenewal, PullTick, Fetch, Deliver, Exit, vars
  <2> QED BY <2>2, <2>3, <2>4, <2>5, PullOrEvent
<1>3. Known(svc) => NoStrangerAdmitted
  BY DEF Known, NoStrangerAdmitted
<1> QED BY <1>1, <1>2, <1>3, PushInitType, PushStep, PTL DEF PushNodeSpec

\* The record and the kernel stay in step under push, too, when either starts
\* or updates in place do not fail; with deltas, when updates do not.
LEMMA PushInStep ==
    ASSUME OneKindFails, Deltas => KernelFaults \subseteq {"start"}
    PROVE  PushBase /\ InStep(svc) /\ [PushNodeNext]_pushVars => InStep(svc)'
<1> SUFFICES ASSUME PushBase, InStep(svc), [PushNodeNext]_pushVars PROVE InStep(svc')
  OBVIOUS
<1>1. TypeOK /\ LinkOK
  BY DEF PushBase
<1>2. CASE HandleWSEvent
  BY <1>1, <1>2, EventEffect, SyncInStep
<1>3. CASE svc' = svc
  BY <1>3
<1>4. CASE ApplyPullResult
  <2>1. Head(results) \in Results /\ svc' \in AdoptPull(svc, Head(results), cert) /\ cert \in Nat
    BY <1>1, <1>4 DEF ApplyPullResult, TypeOK
  <2> QED BY <2>1, AdoptPullInStep
<1>5. [PullNext]_vars => svc' = svc \/ ApplyPullResult
  BY DEF PullNext, Pulling, Next, PanelEdits, CertRenewal, PullTick, Fetch, Deliver, Exit, vars
<1> QED BY <1>2, <1>3, <1>4, <1>5, PullOrEvent

\* A kernel that runs, runs what is on record: the configuration, and exactly
\* the users, which it also admits.
RunsRecord ==
    svc.k.up => /\ svc.k.cfg = svc.cfg
                /\ svc.k.users = svc.users
                /\ svc.k.admits = svc.users

\* A panel that pushes whole lists only: the kernel that runs is the one on
\* record as long as either starts or updates in place do not fail.  A panel
\* that pushes deltas: as long as updates in place do not.
THEOREM RecordIsRun ==
    ASSUME OneKindFails, Deltas => KernelFaults \subseteq {"start"}
    PROVE  PushNodeSpec => []RunsRecord
<1>1. PushNodeInit => InStep(svc)
  BY PushInitType
<1>2. PushBase /\ InStep(svc) /\ [PushNodeNext]_pushVars => InStep(svc)'
  BY PushInStep
<1>3. InStep(svc) => RunsRecord
  BY DEF InStep, RunsRecord
<1> QED BY <1>1, <1>2, <1>3, PushInitType, PushStep, PTL DEF PushNodeSpec

\* Without deltas a node with push is in step exactly as one that polls is.
THEOREM PushKernelAgrees ==
    ASSUME "start" \notin KernelFaults, Deltas => KernelFaults = {}
    PROVE  PushNodeSpec => []KernelInStep
<1>1. PushNodeInit => InStep(svc)
  BY PushInitType
<1>2. PushBase /\ InStep(svc) /\ [PushNodeNext]_pushVars => InStep(svc)'
  BY PushInStep DEF OneKindFails
<1>3. InStep(svc) => KernelInStep
  BY DEF InStep, KernelInStep
<1> QED BY <1>1, <1>2, <1>3, PushInitType, PushStep, PTL DEF PushNodeSpec
=============================================================================
