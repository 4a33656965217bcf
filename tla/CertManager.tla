---------------------------- MODULE CertManager ----------------------------
(***************************************************************************)
(* The certificate manager of a node (internal/cert/cert.go) and what the  *)
(* service does with it (internal/service/service.go).  Three parties take *)
(* part: the service's loop, which starts and reconfigures the manager and *)
(* hands its material to the kernel; certmagic, whose goroutines renew     *)
(* ACME certificates and call OnEvent; and the disk, on which cert.pem     *)
(* and key.pem are replaced one after the other, so that a crash, a failed *)
(* write or a second writer can leave the halves of different pairs.       *)
(*                                                                         *)
(* Every start of ACME builds a certmagic cache (cert.go:410) whose        *)
(* maintenance runs until cache.Stop(), which nobody calls: cancelling the *)
(* context of ManageAsync does not end it.  A cache therefore goes on      *)
(* renewing the domain it was given until the process ends.                *)
(*                                                                         *)
(* A pair is named by where it comes from and a serial number; material is *)
(* a certificate and a key, each half named after its pair.  Modes http    *)
(* and dns are one mode "acme": they differ in the challenge only.         *)
(***************************************************************************)
EXTENDS Naturals

CONSTANTS Domains,      \* domains certificates are issued for
          Pems,         \* usable pairs a configuration can carry or point to
          None,         \* no domain, pair, half or kernel
          Configs,      \* certificate configurations the panel can send
          LocalConfig,  \* the one in the local file
          MaxEdits,     \* bound on configurations sent
          MaxIssued,    \* bound on pairs issued or generated
          MaxCrashes    \* bound on crashes of the process

CertConfigs == [mode : {"none", "self", "file", "content", "acme", "unknown"},
                domain : Domains \cup {None}, pem : Pems \cup {None}]

ASSUME ConfigsAreCertConfigs == Configs \subseteq CertConfigs /\ LocalConfig \in CertConfigs

ASSUME BoundsAreCounts == {MaxEdits, MaxIssued, MaxCrashes} \subseteq Nat

VARIABLES mgr,       \* the manager: cfg, mat and acme, the fingerprint of the
                     \* configuration under which ACME runs (None when it does not)
          live,      \* per domain, contexts of ManageAsync that are not cancelled
          caching,   \* domains that a certmagic cache of this process renews
          renewer,   \* per domain renewed, the OnEvent handler, if one runs
          renewed,   \* the manager's flag
          disk,      \* halves under cert_dir
          storage,   \* certmagic's own storage: last serial per domain, 0 for none
          loop,      \* where the service's loop is, and on whose behalf
          users,     \* the service has users on record
          kernel,    \* material the kernel runs with, None when it does not run
          pull,      \* a poll that found the flag up is under way
          fault,     \* ghosts: whether the last Start failed, the material is of a
                     \* renewal that stored for another configuration, a poll that
                     \* knew of a renewal failed, the kernel's last start failed
          used       \* configurations sent, pairs issued, crashes

vars == <<mgr, live, caching, renewer, renewed, disk, storage, loop, users, kernel, pull,
          fault, used>>

Pair(from, name, n) == <<from, name, n>>

Material(p) == [cert |-> p, key |-> p]

NoMaterial == Material(None)

Loop(at, by) == [at |-> at, pair |-> None, by |-> by]

Idle == Loop("idle", "event")

NoRenewal == [at |-> "none", domain |-> None, pair |-> None]

Pairs == {"self", "file", "content", "acme"} \X (Domains \cup Pems \cup {None}) \X Nat

Halves == Pairs \cup {None}

Materials == [cert : Halves, key : Halves]

ASSUME NoneIsNoPair == None \notin Pairs

ASSUME NoneIsNoDomain == None \notin Domains

NoFault == [start |-> FALSE, stray |-> FALSE, poll |-> FALSE, kernel |-> FALSE]

Init ==
    /\ mgr = [cfg |-> LocalConfig, mat |-> NoMaterial, acme |-> None]
    /\ live = [d \in Domains |-> 0]
    /\ caching = {}
    /\ renewer = [d \in Domains |-> NoRenewal]
    /\ renewed = FALSE
    /\ disk = NoMaterial
    /\ storage = [d \in Domains |-> 0]
    /\ loop = Loop("start", "run")
    /\ users = FALSE
    /\ kernel = None
    /\ pull = FALSE
    /\ fault = NoFault
    /\ used = [edits |-> 0, issued |-> 0, crashes |-> 0]

At(step) == loop.at = step

Goto(step) == loop' = [loop EXCEPT !.at = step]

-----------------------------------------------------------------------------
(* The manager, called by the loop *)

\* acmeFingerprint: what needs a new certmagic when it changes.
Fingerprint(cfg) == [mode |-> cfg.mode, domain |-> cfg.domain]

Fingerprints == {Fingerprint(cfg) : cfg \in CertConfigs}

ASSUME NoneIsNoFingerprint == None \notin Fingerprints

\* Mutant of MustTearDown: ACME is only given up with the mode.
MustTearDown_ModeOnly(cfg) == mgr.acme # None /\ cfg.mode # "acme"

MustTearDown(cfg) ==
    mgr.acme # None /\ (cfg.mode # "acme" \/ Fingerprint(cfg) # mgr.acme)

\* Reconfigure up to Start; tearDownACME cancels the context and forgets the
\* material, the cache stays.
Reconfigure(cfg) ==
    IF MustTearDown(cfg)
    THEN /\ live' = [live EXCEPT ![mgr.acme.domain] = @ - 1]
         /\ mgr' = [cfg |-> cfg, mat |-> NoMaterial, acme |-> None]
    ELSE /\ mgr' = [mgr EXCEPT !.cfg = cfg]
         /\ UNCHANGED live

Succeed == Goto("apply") /\ fault' = [fault EXCEPT !.start = FALSE]

Fail == Goto("apply") /\ fault' = [fault EXCEPT !.start = TRUE]

\* The loop has a pair for storePEM.
Hold(p) == loop' = [loop EXCEPT !.at = "store", !.pair = p] /\ UNCHANGED fault

\* There is nothing persisted to fall back to.
Fresh ==
    \/ /\ mgr.cfg.mode = "self"
       /\ used.issued < MaxIssued
       /\ Hold(Pair("self", mgr.cfg.domain, used.issued + 1))
       /\ used' = [used EXCEPT !.issued = @ + 1]
    \/ /\ mgr.cfg.mode = "content"
       /\ Fail
       /\ UNCHANGED used

\* Start for the modes that need nobody else, up to the first half read from
\* the disk; a file or content without a usable pair fails.
StartPlain ==
    /\ At("start")
    /\ LET cfg == mgr.cfg
       IN  \/ cfg.mode = "none" /\ Succeed /\ UNCHANGED used
           \/ cfg.mode \in {"file", "content", "unknown"} /\ Fail /\ UNCHANGED used
           \/ /\ cfg.mode \in {"file", "content"} /\ cfg.pem # None
              /\ Hold(Pair(cfg.mode, cfg.pem, 0))
              /\ UNCHANGED used
           \/ /\ cfg.mode = "self" \/ (cfg.mode = "content" /\ cfg.pem = None)
              /\ IF disk.cert = None THEN Fresh
                 ELSE /\ loop' = [loop EXCEPT !.at = "persisted", !.pair = disk.cert]
                      /\ UNCHANGED <<fault, used>>
    /\ UNCHANGED <<mgr, live, caching, renewer, renewed, disk, storage, users, kernel, pull>>

\* Mutant of Persisted: what is found is not validated.
Persisted_Unchecked == disk.key # None

\* The key on the disk fits the certificate read before it.
Persisted == disk.key = loop.pair

\* The rest of loadPersistedPEM, and what its caller does when it finds nothing.
LoadPersisted ==
    /\ At("persisted")
    /\ IF Persisted
       THEN /\ mgr' = [mgr EXCEPT !.mat = [cert |-> loop.pair, key |-> disk.key]]
            /\ Succeed
            /\ UNCHANGED used
       ELSE Fresh /\ UNCHANGED mgr
    /\ UNCHANGED <<live, caching, renewer, renewed, disk, storage, users, kernel, pull>>

\* startACME up to ObtainCertSync: nothing to do, nothing to be had, or a
\* certificate in certmagic's storage, there before or fresh from the CA.
Obtain ==
    /\ At("start")
    /\ mgr.cfg.mode = "acme"
    /\ LET d == mgr.cfg.domain
           n == IF storage[d] = 0 THEN used.issued + 1 ELSE storage[d]
       IN  \/ mgr.acme # None /\ Succeed /\ UNCHANGED <<live, storage, used>>
           \/ mgr.acme = None /\ Fail /\ UNCHANGED <<live, storage, used>>
           \/ /\ mgr.acme = None
              /\ d # None
              /\ n <= MaxIssued
              /\ storage' = [storage EXCEPT ![d] = n]
              /\ used' = [used EXCEPT !.issued = IF n > @ THEN n ELSE @]
              /\ live' = [live EXCEPT ![d] = @ + 1]
              /\ Goto("obtained")
              /\ UNCHANGED fault
    /\ UNCHANGED <<mgr, caching, renewer, renewed, disk, users, kernel, pull>>

\* acmeCancel
Cancel == live' = [live EXCEPT ![mgr.cfg.domain] = @ - 1]

\* loadPEMFromStorage; reading or validating the pair may fail.
LoadObtained ==
    /\ At("obtained")
    /\ LET d == mgr.cfg.domain
       IN  \/ Hold(Pair("acme", d, storage[d])) /\ UNCHANGED live
           \/ Cancel /\ Fail
    /\ UNCHANGED <<mgr, caching, renewer, renewed, disk, storage, users, kernel, pull, used>>

\* storePEM: memory here, the halves in StoreCert and StoreKey.
StoreMat ==
    /\ At("store")
    /\ mgr' = [mgr EXCEPT !.mat = Material(loop.pair)]
    /\ Goto("cert")
    /\ fault' = [fault EXCEPT !.stray = FALSE]
    /\ UNCHANGED <<live, caching, renewer, renewed, disk, storage, users, kernel, pull, used>>

\* persistPEM is best effort: a write that fails is only logged.
StoreCert ==
    /\ At("cert")
    /\ \/ disk' = [disk EXCEPT !.cert = loop.pair]
       \/ UNCHANGED disk
    /\ Goto("key")
    /\ UNCHANGED <<mgr, live, caching, renewer, renewed, storage, users, kernel, pull, fault, used>>

StoreKey ==
    /\ At("key")
    /\ \/ disk' = [disk EXCEPT !.key = loop.pair]
       \/ UNCHANGED disk
    /\ IF mgr.cfg.mode = "acme" THEN Goto("manage") /\ UNCHANGED fault ELSE Succeed
    /\ UNCHANGED <<mgr, live, caching, renewer, renewed, storage, users, kernel, pull, used>>

\* Mutant of Manage: the context survives a failure.
Manage_Leaked ==
    /\ At("manage")
    /\ \/ /\ mgr' = [mgr EXCEPT !.acme = Fingerprint(mgr.cfg)]
          /\ caching' = caching \cup {mgr.cfg.domain}
          /\ Succeed
       \/ /\ caching' \in {caching, caching \cup {mgr.cfg.domain}}
          /\ Fail
          /\ UNCHANGED mgr
    /\ UNCHANGED <<live, renewer, renewed, disk, storage, users, kernel, pull, used>>

\* ManageAsync, the last thing startACME does.  When it fails the cache may
\* have the certificate or not.
Manage ==
    /\ At("manage")
    /\ \/ /\ mgr' = [mgr EXCEPT !.acme = Fingerprint(mgr.cfg)]
          /\ caching' = caching \cup {mgr.cfg.domain}
          /\ Succeed
          /\ UNCHANGED live
       \/ /\ caching' \in {caching, caching \cup {mgr.cfg.domain}}
          /\ Cancel
          /\ Fail
          /\ UNCHANGED mgr
    /\ UNCHANGED <<renewer, renewed, disk, storage, users, kernel, pull, used>>

-----------------------------------------------------------------------------
(* The service *)

\* Reload or startKernel: the kernel runs with what the manager has now.
TakeMaterial ==
    kernel' = mgr.mat /\ fault' = [fault EXCEPT !.poll = FALSE, !.kernel = FALSE]

\* They fail: either kernel keeps what it has, and this is only logged.
KeepMaterial == fault' = [fault EXCEPT !.kernel = TRUE] /\ UNCHANGED kernel

\* applyChanges when the configuration changed; without users the kernel stops.
ApplyChanges ==
    IF users THEN TakeMaterial \/ KeepMaterial ELSE kernel' = None /\ UNCHANGED fault

\* Run and initialSetup after Start: without a configuration or users the
\* panel's configuration is not applied.
Boot ==
    /\ At("apply")
    /\ loop.by = "run"
    /\ IF fault.start
       THEN Goto("down") /\ UNCHANGED <<mgr, live, users>>
       ELSE \/ /\ \E cfg \in Configs : Reconfigure(cfg)
               /\ users' = TRUE
               /\ loop' = Loop("start", "setup")
            \/ /\ loop' = Idle
               /\ UNCHANGED <<mgr, live, users>>
    /\ UNCHANGED <<caching, renewer, renewed, disk, storage, kernel, pull, fault, used>>

\* The rest of initialSetup: a kernel that does not start ends the service.
FirstStart ==
    /\ At("apply")
    /\ loop.by = "setup"
    /\ \/ loop' = Idle /\ TakeMaterial
       \/ Goto("down") /\ KeepMaterial
    /\ UNCHANGED <<mgr, live, caching, renewer, renewed, disk, storage, users, pull, used>>

\* applyChanges after applyRemoteOverrides, whatever came of that.
Apply ==
    /\ At("apply")
    /\ loop.by = "event"
    /\ loop' = Idle
    /\ ApplyChanges
    /\ UNCHANGED <<mgr, live, caching, renewer, renewed, disk, storage, users, pull, used>>

\* A configuration arrives, by an event, which leaves the users as they are,
\* or by a poll, which may bring other users.
SyncConfig ==
    /\ At("idle")
    /\ used.edits < MaxEdits
    /\ \E cfg \in Configs : Reconfigure(cfg)
    /\ users' \in BOOLEAN
    /\ used' = [used EXCEPT !.edits = @ + 1]
    /\ loop' = Loop("start", "event")
    /\ UNCHANGED <<caching, renewer, renewed, disk, storage, kernel, pull, fault>>

\* applyUserUpdate and applyUserDelta: they need a kernel that runs or that
\* ensureRunning can start.  The kernel takes the users in place, or it is
\* started, or a restart fails and the users stay.
UpdateUsers ==
    /\ At("idle")
    /\ users \/ kernel # None
    /\ \/ kernel # None /\ users' \in BOOLEAN /\ UNCHANGED <<kernel, fault>>
       \/ TakeMaterial /\ users' \in BOOLEAN
       \/ KeepMaterial /\ UNCHANGED users
    /\ UNCHANGED <<mgr, live, caching, renewer, renewed, disk, storage, loop, pull, used>>

\* pullViaAPIAsync takes the flag down before it polls.
Poll ==
    /\ At("idle")
    /\ ~pull
    /\ renewed
    /\ renewed' = FALSE
    /\ pull' = TRUE
    /\ UNCHANGED <<mgr, live, caching, renewer, disk, storage, loop, users, kernel, fault, used>>

PollFails ==
    /\ ~At("down")
    /\ pull
    /\ pull' = FALSE
    /\ fault' = [fault EXCEPT !.poll = TRUE]
    /\ UNCHANGED <<mgr, live, caching, renewer, renewed, disk, storage, loop, users, kernel, used>>

\* applyPullResult with certChanged, alone or with a configuration.
PollApplied ==
    /\ At("idle")
    /\ pull
    /\ pull' = FALSE
    /\ \/ /\ ApplyChanges
          /\ UNCHANGED <<mgr, live, loop, users, used>>
       \/ /\ used.edits < MaxEdits
          /\ \E cfg \in Configs : Reconfigure(cfg)
          /\ users' \in BOOLEAN
          /\ used' = [used EXCEPT !.edits = @ + 1]
          /\ loop' = Loop("start", "event")
          /\ UNCHANGED <<kernel, fault>>
    /\ UNCHANGED <<caching, renewer, renewed, disk, storage>>

-----------------------------------------------------------------------------
(* certmagic's goroutines *)

\* The step of a renewal of d from one place to the next.
Renewing(d, from, to) ==
    /\ ~At("down")
    /\ renewer[d].at = from
    /\ renewer' = [renewer EXCEPT ![d].at = to]

\* A cache that has d, in use or not, has put a renewed certificate in
\* certmagic's storage and calls OnEvent.
Renew(d) ==
    /\ d \in caching
    /\ Renewing(d, "none", "event")
    /\ used.issued < MaxIssued
    /\ storage' = [storage EXCEPT ![d] = used.issued + 1]
    /\ used' = [used EXCEPT !.issued = @ + 1]
    /\ UNCHANGED <<mgr, live, caching, renewed, disk, loop, users, kernel, pull, fault>>

\* OnEvent reads, unguarded, the domain that the configuration has by now.
RenewRead(d) ==
    /\ ~At("down") /\ renewer[d].at = "event"
    /\ renewer' = [renewer EXCEPT ![d].at = "load", ![d].domain = mgr.cfg.domain]
    /\ UNCHANGED <<mgr, live, caching, renewed, disk, storage, loop, users, kernel, pull, fault, used>>

\* loadPEMFromStorage for that domain: there may be none, or no certificate,
\* or reading it fails (so does a torn read of the domain); that is logged.
RenewLoad(d) ==
    /\ ~At("down") /\ renewer[d].at = "load"
    /\ LET e == renewer[d].domain
       IN  \/ renewer' = [renewer EXCEPT ![d] = NoRenewal]
           \/ /\ e # None /\ storage[e] # 0
              /\ renewer' = [renewer EXCEPT ![d].at = "store",
                                            ![d].pair = Pair("acme", e, storage[e])]
    /\ UNCHANGED <<mgr, live, caching, renewed, disk, storage, loop, users, kernel, pull, fault, used>>

\* mat.Store, whatever is configured by now.
RenewStore(d) ==
    /\ Renewing(d, "store", "cert")
    /\ mgr' = [mgr EXCEPT !.mat = Material(renewer[d].pair)]
    /\ fault' = [fault EXCEPT !.stray =
                     ~(mgr.cfg.mode = "acme" /\ mgr.cfg.domain = renewer[d].domain)]
    /\ UNCHANGED <<live, caching, renewed, disk, storage, loop, users, kernel, pull, used>>

RenewCert(d) ==
    /\ Renewing(d, "cert", "key")
    /\ \/ disk' = [disk EXCEPT !.cert = renewer[d].pair]
       \/ UNCHANGED disk
    /\ UNCHANGED <<mgr, live, caching, renewed, storage, loop, users, kernel, pull, fault, used>>

RenewKey(d) ==
    /\ Renewing(d, "key", "flag")
    /\ \/ disk' = [disk EXCEPT !.key = renewer[d].pair]
       \/ UNCHANGED disk
    /\ UNCHANGED <<mgr, live, caching, renewed, storage, loop, users, kernel, pull, fault, used>>

\* Mutant of RenewFlag: the service is not told.
RenewFlag_Silent(d) ==
    /\ ~At("down") /\ renewer[d].at = "flag"
    /\ renewer' = [renewer EXCEPT ![d] = NoRenewal]
    /\ UNCHANGED <<mgr, live, caching, renewed, disk, storage, loop, users, kernel, pull, fault, used>>

RenewFlag(d) ==
    /\ ~At("down") /\ renewer[d].at = "flag"
    /\ renewed' = TRUE
    /\ renewer' = [renewer EXCEPT ![d] = NoRenewal]
    /\ UNCHANGED <<mgr, live, caching, disk, storage, loop, users, kernel, pull, fault, used>>

-----------------------------------------------------------------------------
(* The process *)

\* Everything but the disk is gone.
Crash ==
    /\ ~At("down")
    /\ used.crashes < MaxCrashes
    /\ used' = [used EXCEPT !.crashes = @ + 1]
    /\ Goto("down")
    /\ UNCHANGED <<mgr, live, caching, renewer, renewed, disk, storage, users, kernel, pull, fault>>

\* A new process.
Restart ==
    /\ At("down")
    /\ mgr' = [cfg |-> LocalConfig, mat |-> NoMaterial, acme |-> None]
    /\ live' = [d \in Domains |-> 0]
    /\ caching' = {}
    /\ renewer' = [d \in Domains |-> NoRenewal]
    /\ renewed' = FALSE
    /\ loop' = Loop("start", "run")
    /\ users' = FALSE
    /\ kernel' = None
    /\ pull' = FALSE
    /\ fault' = NoFault
    /\ UNCHANGED <<disk, storage, used>>

Next ==
    \/ StartPlain \/ LoadPersisted \/ Obtain \/ LoadObtained
    \/ StoreMat \/ StoreCert \/ StoreKey \/ Manage
    \/ Boot \/ FirstStart \/ Apply \/ SyncConfig \/ UpdateUsers
    \/ Poll \/ PollFails \/ PollApplied
    \/ \E d \in Domains : \/ Renew(d) \/ RenewRead(d) \/ RenewLoad(d) \/ RenewStore(d)
                          \/ RenewCert(d) \/ RenewKey(d) \/ RenewFlag(d)
    \/ Crash \/ Restart

Spec == Init /\ [][Next]_vars

-----------------------------------------------------------------------------
(* Properties *)

\* The manager, the renewals, the disk and the loop are well-formed.
TypeOK ==
    /\ mgr \in [cfg : CertConfigs, mat : Materials, acme : Fingerprints \cup {None}]
    /\ caching \subseteq Domains
    /\ renewer \in [Domains -> [at : {"none", "event", "load", "store", "cert", "key", "flag"},
                                domain : Domains \cup {None}, pair : Halves]]
    /\ disk \in Materials
    /\ storage \in [Domains -> 0..MaxIssued]
    /\ loop \in [at : {"start", "persisted", "obtained", "store", "cert", "key", "manage",
                       "apply", "idle", "down"},
                 pair : Halves, by : {"run", "setup", "event"}]
    /\ kernel \in Materials \cup {None}
    /\ fault \in [start : BOOLEAN, stray : BOOLEAN, poll : BOOLEAN, kernel : BOOLEAN]
    /\ used \in [edits : 0..MaxEdits, issued : 0..MaxIssued, crashes : 0..MaxCrashes]

\* The kernel and the manager never hold a certificate with another pair's
\* key, although a crash between the two renames, a write that fails or the
\* loop and a renewal writing at once leave such halves on the disk, and a
\* renewal may write between the two reads: loadPersistedPEM validates what
\* it has read (cert.go:127).
ServesOnlyPairs ==
    /\ mgr.mat.cert = mgr.mat.key
    /\ kernel # None => kernel.cert = kernel.key

\* At rest a management context lives for the domain of the configuration,
\* and one only, exactly when that configuration is ACME and was started
\* without an error: changes of domain and mode, starts that fail half-way
\* and restarts neither leave one behind nor start a second ("tear down the
\* old certmagic instance first", cert.go:145).  This is about the contexts;
\* the caches are never stopped and go on renewing.
AcmeFollowsConfig ==
    At("idle") =>
        live = [d \in Domains |->
                   IF ~fault.start /\ mgr.cfg.mode = "acme" /\ mgr.cfg.domain = d THEN 1 ELSE 0]

\* the material is from where the configuration says
FromConfig ==
    LET cfg == mgr.cfg
    IN  /\ cfg.mode = "acme" => \E n \in 1..MaxIssued :
                                    mgr.mat = Material(Pair("acme", cfg.domain, n))
        /\ cfg.mode \in {"file", "content"} /\ cfg.pem # None =>
               mgr.mat = Material(Pair(cfg.mode, cfg.pem, 0))

\* Once a configuration that names its source has been applied without error,
\* the material is from that source, whatever was configured, renewed or left
\* on the disk before, until a renewal for another domain, or under another
\* mode, stores what it read: a cache that was given up goes on renewing, and
\* its handler reads the domain before it stores.  The next Start that stores
\* and the next renewal of the configured domain put it right.
MaterialFollowsConfig == At("idle") /\ ~fault.start /\ ~fault.stray => FromConfig

\* A running kernel has the manager's material, or somebody still knows that
\* it has not: a renewal's handler, the flag, or a poll that took the flag.
\* It is forgotten by a poll that fails ("certificate renewed, kernel restart
\* needed", service.go:650) and by a restart that fails, which is only logged
\* (service.go:925), until the next configuration or restart.
KernelCatchesUp ==
    At("idle") /\ kernel # None /\ kernel # mgr.mat =>
        \/ renewed \/ pull \/ fault.poll \/ fault.kernel
        \/ \E d \in Domains : renewer[d].at \in {"cert", "key", "flag"}
=============================================================================
