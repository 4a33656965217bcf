------------------------------ MODULE PullLoop ------------------------------
(***************************************************************************)
(* A node service that talks to the panel over REST only: the select loop  *)
(* of service.Run, the goroutines pullViaAPIAsync spawns, the panel client *)
(* with its two ETags, the pull backoff and the certificate-renewed flag.  *)
(*                                                                         *)
(* Processes and what they share:                                          *)
(*   the panel (external)    pcfg, pusers                                  *)
(*   the select loop         svc; starts goroutines, receives results      *)
(*   pull goroutines         pull[g], one per g in Pulls; ctag, utag       *)
(*   the cert manager        cert, renewed                                 *)
(* pullActive, backoff and renewed are atomics or mutex-protected in the   *)
(* code and shared between the loop and the goroutines; results is the     *)
(* pullResults channel.  A goroutine fetches the configuration, then the   *)
(* users, sends what it has to the loop and clears pullActive last: the    *)
(* panel, the loop and the cert manager can act between any two of these.  *)
(***************************************************************************)
EXTENDS ServiceState, Backoff, Sequences

CONSTANTS
    Pulls,          \* identities for pull goroutines
    ETags,          \* does the panel send ETag headers?
    Malformed,      \* configurations NodeSpecFromPanelValidated rejects
    RequestFaults,  \* subset of {"config", "users"}: GETs that may fail
    StartLists,     \* user lists the panel may hold at bootstrap
    PanelLists,     \* user lists the panel may hold at all
    MaxEdits,       \* bound on changes made at the panel
    MaxFaults,      \* bound on failed requests
    MaxRenewals     \* bound on certificate renewals

ASSUME PullAssumption ==
    /\ ETags \in BOOLEAN
    /\ Malformed \subseteq Nat \ {1}
    /\ Unrunnable \subseteq Nat \ {1}
    /\ RequestFaults \subseteq {"config", "users"}
    /\ StartLists \subseteq PanelLists
    /\ PanelLists \subseteq Lists
    /\ Nil \notin Lists
    /\ {MaxEdits, MaxFaults, MaxRenewals} \subseteq Nat
    /\ \A c \in 1..(MaxEdits + 1) :
          /\ Content(c) # Content(NoCfg)
          /\ \A d \in 1..(MaxEdits + 1) : Content(c) = Content(d) =>
                (c \in Malformed <=> d \in Malformed) /\ (c \in Unrunnable <=> d \in Unrunnable)

VARIABLES
    pcfg,        \* panel: number of the current configuration
    pusers,      \* panel: current user list
    ctag,        \* Client.configETag: the configuration it stands for
    utag,        \* Client.userETag: the list it stands for, or Nil
    svc,         \* state of the select loop and the kernel (ServiceState)
    pull,        \* goroutine g: stage and what it has captured and fetched
    pullActive,  \* Service.pullActive
    backoff,     \* Service.pullBackoff.skipRemaining
    results,     \* channel Service.pullResults, capacity 1
    cert,        \* version of the certificate the cert manager holds
    renewed,     \* Manager.renewed
    edits, faults, renewals    \* how much of each bound is used

panelVars  == <<pcfg, pusers, edits>>
clientVars == <<ctag, utag, faults>>
certVars   == <<cert, renewals>>
vars == <<panelVars, clientVars, certVars, svc, pull, pullActive, backoff,
          results, renewed>>

Stages == {"idle", "config", "users", "send", "exit"}

Goroutines == [stage : Stages, hash : Nat, certChanged : BOOLEAN,
               cfg : Nat, users : Lists \cup {Nil}]

Results == [cfg : Nat, users : Lists \cup {Nil}, certChanged : BOOLEAN]

Idle == [stage |-> "idle", hash |-> NoCfg, certChanged |-> FALSE,
         cfg |-> NoCfg, users |-> Nil]

ResultsCap == 1

(***************************************************************************)
(* Bootstrap in REST mode: PanelControlPlane.Initial fetched both documents*)
(* and initialSetup started the kernel unless there were no users.  A      *)
(* bootstrap that fails ends the process, so none is an initial state.     *)
(***************************************************************************)
Bootstrapped(cfg, users) ==
    LET s == [Fresh EXCEPT !.cfg = cfg, !.users = users]
    IN  IF users = NoUsers THEN s
        ELSE [s EXCEPT !.k = Serving(cfg, users, 0),
                       !.applied = [cfg |-> cfg, users |-> users]]

PullInit ==
    /\ pull = [g \in Pulls |-> Idle]
    /\ pullActive = FALSE
    /\ backoff = 0
    /\ results = <<>>
    /\ cert = 0
    /\ renewed = FALSE
    /\ edits = 0 /\ faults = 0 /\ renewals = 0

Init ==
    /\ pcfg = 1
    /\ pusers \in StartLists
    /\ ctag = IF ETags THEN pcfg ELSE NoCfg
    /\ utag = IF ETags THEN pusers ELSE Nil
    /\ svc = Bootstrapped(pcfg, pusers)
    /\ PullInit

-----------------------------------------------------------------------------
(* The panel and the cert manager. *)

\* A new configuration; its Content may be that of an earlier one.
EditConfig ==
    /\ edits < MaxEdits
    /\ pcfg' = pcfg + 1
    /\ edits' = edits + 1
    /\ UNCHANGED pusers

EditUsers(list) ==
    /\ edits < MaxEdits
    /\ list # pusers
    /\ pusers' = list
    /\ edits' = edits + 1
    /\ UNCHANGED pcfg

PanelEdits ==
    /\ EditConfig \/ \E list \in PanelLists : EditUsers(list)
    /\ UNCHANGED <<clientVars, certVars, svc, pull, pullActive, backoff, results,
                   renewed>>

\* setupACME's cert_obtained handler: load the new PEM, then set the flag.
CertRenewal ==
    /\ renewals < MaxRenewals
    /\ cert' = cert + 1
    /\ renewed' = TRUE
    /\ renewals' = renewals + 1
    /\ UNCHANGED <<panelVars, clientVars, svc, pull, pullActive, backoff, results>>

-----------------------------------------------------------------------------
(* apiBackoff *)

\* Does shouldSkip turn away all of n calls?  It decrements a positive counter.
Skipped(n) == backoff >= n

-----------------------------------------------------------------------------
(* The select loop. *)

\* Mutant of Spawn: the flag is taken down without being passed on.
Spawn_FlagDropped(g, cfg) ==
    /\ pull[g].stage = "idle"
    /\ pull' = [pull EXCEPT ![g] = [Idle EXCEPT !.stage = "config", !.hash = cfg]]
    /\ pullActive' = TRUE
    /\ renewed' = FALSE

\* The goroutine g that pullViaAPIAsync starts, and what it captures first: the
\* hash of lastConfig, cfg, and the renewal flag.
Spawn(g, cfg) ==
    /\ pull[g].stage = "idle"
    /\ pull' = [pull EXCEPT ![g] = [Idle EXCEPT !.stage = "config", !.hash = cfg,
                                                !.certChanged = renewed]]
    /\ pullActive' = TRUE
    /\ renewed' = FALSE

\* Mutant of InFlight: no compare-and-swap.
InFlight_Unchecked == FALSE

\* The CAS on pullActive fails.
InFlight == pullActive

\* n calls of pullViaAPIAsync in one handler: nothing while a pull is active, a
\* skip for each call while backing off, then a new goroutine (and the calls
\* after it find that one active).  cfg is lastConfig at the calls.
PullCallsAt(cfg, n) ==
    IF InFlight THEN UNCHANGED <<pull, pullActive, backoff, renewed>>
    ELSE IF Skipped(n)
    THEN backoff' = backoff - n /\ UNCHANGED <<pull, pullActive, renewed>>
    ELSE backoff' = 0 /\ \E g \in Pulls : Spawn(g, cfg)

PullCalls(n) == PullCallsAt(svc.cfg, n)

PullTick ==
    /\ PullCalls(1)
    /\ UNCHANGED <<panelVars, clientVars, certVars, svc, results>>

ApplyPullResult ==
    /\ results # <<>>
    /\ svc' \in AdoptPull(svc, Head(results), cert)
    /\ results' = Tail(results)
    /\ UNCHANGED <<panelVars, clientVars, certVars, pull, pullActive, backoff,
                   renewed>>

-----------------------------------------------------------------------------
(* A pull goroutine: Poll fetches the configuration, then the users. *)

\* Poll returned an error: onFailure, then the deferred store.
PollFailed(g) ==
    /\ backoff' = OnFailure(backoff)
    /\ pull' = [pull EXCEPT ![g] = [Idle EXCEPT !.stage = "exit"]]

\* GetConfig: 304 when the ETag is current, a configuration otherwise.
FetchConfig(g) ==
    LET current == Content(ctag) = Content(pcfg)
    IN  /\ pull[g].stage = "config"
        /\ pull' = [pull EXCEPT ![g].stage = "users",
                                ![g].cfg = IF current THEN NoCfg ELSE pcfg]
        /\ ctag' = IF ETags /\ ~current THEN pcfg ELSE ctag
        /\ UNCHANGED <<utag, faults, backoff>>

\* The filter after Poll: a configuration whose hash was current when the
\* pull began is not passed on unless the certificate changed.
Reported(g) ==
    IF Content(pull[g].cfg) = Content(pull[g].hash) /\ ~pull[g].certChanged
    THEN NoCfg
    ELSE pull[g].cfg

\* GetUsers and the rest of Poll: both ETags have advanced by the time the
\* configuration is found malformed and everything is dropped.
FetchUsers(g) ==
    /\ pull[g].stage = "users"
    /\ utag' = IF ETags THEN pusers ELSE utag
    /\ IF pull[g].cfg \in Malformed
       THEN PollFailed(g)
       ELSE /\ pull' = [pull EXCEPT ![g].stage = "send",
                                    ![g].cfg = Reported(g),
                                    ![g].users = IF utag = pusers THEN Nil ELSE pusers]
            /\ backoff' = 0
    /\ UNCHANGED <<ctag, faults>>

\* Mutant of RequestFails: GetConfig stores the ETag before it looks at the status.
RequestFails_ETagFirst(g) ==
    /\ pull[g].stage \in RequestFaults
    /\ faults < MaxFaults
    /\ faults' = faults + 1
    /\ PollFailed(g)
    /\ ctag' = IF pull[g].stage = "config" THEN pcfg ELSE ctag
    /\ UNCHANGED utag

\* A request fails before its ETag is stored, whichever request it is.
RequestFails(g) ==
    /\ pull[g].stage \in RequestFaults
    /\ faults < MaxFaults
    /\ faults' = faults + 1
    /\ PollFailed(g)
    /\ UNCHANGED <<ctag, utag>>

Fetch(g) ==
    /\ FetchConfig(g) \/ FetchUsers(g) \/ RequestFails(g)
    /\ UNCHANGED <<panelVars, certVars, svc, pullActive, results, renewed>>

Deliver(g) ==
    /\ pull[g].stage = "send"
    /\ Len(results) < ResultsCap
    /\ results' = Append(results, [cfg |-> pull[g].cfg, users |-> pull[g].users,
                                   certChanged |-> pull[g].certChanged])
    /\ pull' = [pull EXCEPT ![g] = [Idle EXCEPT !.stage = "exit"]]
    /\ UNCHANGED <<panelVars, clientVars, certVars, svc, pullActive, backoff, renewed>>

\* defer s.pullActive.Store(false)
Exit(g) ==
    /\ pull[g].stage = "exit"
    /\ pullActive' = FALSE
    /\ pull' = [pull EXCEPT ![g] = Idle]
    /\ UNCHANGED <<panelVars, clientVars, certVars, svc, backoff, results, renewed>>

-----------------------------------------------------------------------------
Next ==
    \/ PanelEdits
    \/ CertRenewal
    \/ PullTick
    \/ ApplyPullResult
    \/ \E g \in Pulls : Fetch(g) \/ Deliver(g) \/ Exit(g)

Spec == Init /\ [][Next]_vars

(***************************************************************************)
(* The pull ticker keeps firing, the loop keeps serving a case of its      *)
(* select that stays ready, and a goroutine keeps running: an HTTP request *)
(* ends by its client timeout.  Nothing is assumed of the panel.           *)
(***************************************************************************)
Fairness ==
    /\ WF_vars(PullTick)
    /\ WF_vars(ApplyPullResult)
    /\ \A g \in Pulls : WF_vars(Fetch(g)) /\ WF_vars(Deliver(g)) /\ WF_vars(Exit(g))

FairSpec == Spec /\ Fairness

-----------------------------------------------------------------------------
(* Properties *)

\* Every variable has the type its field has in the code; in particular the
\* result channel never holds more than its capacity.
TypeOK ==
    /\ pcfg \in Nat \ {NoCfg} /\ pusers \in Lists
    /\ ctag \in Nat /\ utag \in Lists \cup {Nil}
    /\ svc \in States
    /\ pull \in [Pulls -> Goroutines]
    /\ pullActive \in BOOLEAN
    /\ backoff \in 0..8
    /\ results \in Seq(Results) /\ Len(results) <= ResultsCap
    /\ cert \in Nat /\ renewed \in BOOLEAN
    /\ {edits, faults, renewals} \subseteq Nat

\* "pullActive prevents overlapping push/pull goroutines" (service.go:62): at
\* most one pull goroutine exists, and while one exists the flag is set.
SingleFlight ==
    /\ \A g, h \in Pulls : pull[g].stage # "idle" /\ pull[h].stage # "idle" => g = h
    /\ (\E g \in Pulls : pull[g].stage # "idle") => pullActive

\* With polling alone, a configuration the panel has replaced never comes back:
\* neither lastConfig nor the configuration of a running kernel goes back to an
\* older one, although results are applied unconditionally and a new pull may
\* start while an earlier result is still waiting in the channel.
ConfigNeverRegresses ==
    [][/\ svc'.cfg >= svc.cfg
       /\ svc.k.up /\ svc'.k.up => svc'.k.cfg >= svc.k.cfg]_vars

\* As long as no start of the kernel fails, the kernel is up whenever there is
\* something to serve and then serves, admits and was configured with exactly
\* what the service records as current: a reload or an update in place that
\* fails, half-way or not, is made good by the restart in the same step.
KernelInStep ==
    /\ svc.users # NoUsers /\ svc.cfg # NoCfg => svc.k.up
    /\ svc.k.up => /\ svc.k.cfg = svc.cfg
                    /\ svc.k.users = svc.users
                    /\ svc.k.admits = svc.users

\* As long as no poll fails, a renewed certificate that a running kernel does
\* not use yet is still on its way: the flag is up, or a pull or a result carries it (pullViaAPIAsync takes
\* the flag down when the pull starts, not when the kernel has been restarted).
RenewalNotLost ==
    faults = 0 /\ (\A c \in Malformed : pcfg < c) /\ svc.k.up /\ svc.k.cert # cert =>
        \/ renewed
        \/ \E g \in Pulls : pull[g].certChanged
        \/ \E i \in DOMAIN results : results[i].certChanged

\* The panel's configuration is one it has not had before.
NeverBefore == \A c \in 1..(pcfg - 1) : Content(c) # Content(pcfg)

\* Once the panel stops changing, the service ends up with the panel's current
\* configuration and users and a kernel that serves them, for good, whatever
\* requests failed before an ETag was stored and although the kernel may have
\* refused configurations in between.  The premises: no configuration the
\* validation refuses (its ETag hides it for ever), users from the start on
\* (later ones do not start a kernel, service.go:771), and in the end a
\* configuration that the kernel can run and that the panel has not had before.
\* One that returns may be dropped by the hash of an older pull, as unchanged,
\* while the one in between still waits in pullResults (service.go:628), and
\* one whose ETag was stored before the users failed to arrive is not fetched
\* again (client.go:251).
Converges ==
    [](pusers # NoUsers /\ pcfg \notin Malformed)
    /\ <>[](pcfg \notin Unrunnable /\ NeverBefore) =>
    <>[](/\ svc.cfg = pcfg /\ svc.users = pusers
         /\ svc.k.up /\ svc.k.cfg = pcfg /\ svc.k.admits = pusers)
=============================================================================
