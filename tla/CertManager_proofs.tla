------------------------- MODULE CertManager_proofs -------------------------
(***************************************************************************)
(* Theorems about CertManager, for any domains, pairs and configurations   *)
(* and any number of configurations sent, renewals and crashes.            *)
(***************************************************************************)
EXTENDS CertManager, TLAPS

Managers == [cfg : CertConfigs, mat : Materials, acme : Fingerprints \cup {None}]

Loops == [at : {"start", "persisted", "obtained", "store", "cert", "key", "manage",
                "apply", "idle", "down"},
          pair : Halves, by : {"run", "setup", "event"}]

Renewal == [at : {"none", "event", "load", "store", "cert", "key", "flag"},
            domain : Domains \cup {None}, pair : Halves]

Renewers == [Domains -> Renewal]

Faults == [start : BOOLEAN, stray : BOOLEAN, poll : BOOLEAN, kernel : BOOLEAN]

Counters == [edits : 0..MaxEdits, issued : 0..MaxIssued, crashes : 0..MaxCrashes]

\* TypeOK, one fact per variable.
LEMMA Typed ==
    TypeOK <=> /\ mgr \in Managers
               /\ caching \subseteq Domains
               /\ renewer \in Renewers
               /\ disk \in Materials
               /\ storage \in [Domains -> 0..MaxIssued]
               /\ loop \in Loops
               /\ kernel \in Materials \cup {None}
               /\ fault \in Faults
               /\ used \in Counters
  BY DEF TypeOK, Managers, Renewal, Renewers, Loops, Faults, Counters

LEMMA TypedNext ==
    TypeOK' <=> /\ mgr' \in Managers
                /\ caching' \subseteq Domains
                /\ renewer' \in Renewers
                /\ disk' \in Materials
                /\ storage' \in [Domains -> 0..MaxIssued]
                /\ loop' \in Loops
                /\ kernel' \in Materials \cup {None}
                /\ fault' \in Faults
                /\ used' \in Counters
  BY DEF TypeOK, Managers, Renewal, Renewers, Loops, Faults, Counters

LEMMA Bounds == MaxEdits \in Nat /\ MaxIssued \in Nat /\ MaxCrashes \in Nat
  BY BoundsAreCounts

-----------------------------------------------------------------------------
(* The operators *)

LEMMA PairType ==
    ASSUME NEW from \in {"self", "file", "content", "acme"},
           NEW name \in Domains \cup Pems \cup {None}, NEW n \in Nat
    PROVE  Pair(from, name, n) \in Pairs
  BY DEF Pair, Pairs

LEMMA MaterialType ==
    ASSUME NEW p \in Halves
    PROVE  /\ Material(p) \in Materials
           /\ Material(p).cert = Material(p).key
  BY DEF Material, Materials

LEMMA NoMaterialType == NoMaterial \in Materials /\ NoMaterial.cert = NoMaterial.key
  BY MaterialType DEF NoMaterial, Halves

LEMMA NoRenewalType == NoRenewal \in Renewal /\ NoRenewal.at = "none"
  BY DEF NoRenewal, Renewal, Halves

LEMMA LoopType ==
    ASSUME NEW at \in {"start", "idle"}, NEW by \in {"run", "setup", "event"}
    PROVE  Loop(at, by) \in Loops /\ Loop(at, by).at = at /\ Loop(at, by).by = by
  BY DEF Loop, Loops, Halves

LEMMA ConfigFields ==
    ASSUME NEW cfg \in CertConfigs
    PROVE  /\ cfg.mode \in {"none", "self", "file", "content", "acme", "unknown"}
           /\ cfg.domain \in Domains \cup {None}
           /\ cfg.pem \in Pems \cup {None}
           /\ Fingerprint(cfg) \in Fingerprints
           /\ Fingerprint(cfg) # None
           /\ Fingerprint(cfg).mode = cfg.mode
           /\ Fingerprint(cfg).domain = cfg.domain
  BY NoneIsNoFingerprint DEF CertConfigs, Fingerprints, Fingerprint

\* What Reconfigure leaves of the manager.
LEMMA Reconfigured ==
    ASSUME mgr \in Managers, NEW cfg \in CertConfigs, Reconfigure(cfg)
    PROVE  /\ mgr' \in Managers
           /\ mgr'.cfg = cfg
           /\ mgr'.mat = (IF MustTearDown(cfg) THEN NoMaterial ELSE mgr.mat)
           /\ mgr'.acme = (IF MustTearDown(cfg) THEN None ELSE mgr.acme)
<1>1. CASE MustTearDown(cfg)
  <2>1. mgr' = [cfg |-> cfg, mat |-> NoMaterial, acme |-> None]
    BY <1>1 DEF Reconfigure
  <2> QED BY <1>1, <2>1, NoMaterialType DEF Managers
<1>2. CASE ~MustTearDown(cfg)
  <2>1. mgr' = [mgr EXCEPT !.cfg = cfg]
    BY <1>2 DEF Reconfigure
  <2> QED BY <1>2, <2>1 DEF Managers
<1> QED BY <1>1, <1>2

\* Start has returned to the loop.
Back ==
    /\ loop' \in Loops /\ loop'.at = "apply" /\ loop'.by = loop.by
    /\ fault' \in Faults /\ fault'.stray = fault.stray /\ fault'.poll = fault.poll
    /\ fault'.kernel = fault.kernel

LEMMA Returned ==
    ASSUME loop \in Loops, fault \in Faults
    PROVE  /\ Succeed => Back /\ ~fault'.start
           /\ Fail => Back /\ fault'.start
<1>1. ASSUME Goto("apply") PROVE loop' \in Loops /\ loop'.at = "apply" /\ loop'.by = loop.by
  BY <1>1 DEF Goto, Loops
<1>2. ASSUME fault' = [fault EXCEPT !.start = FALSE]
      PROVE  /\ fault' \in Faults /\ ~fault'.start
             /\ fault'.stray = fault.stray /\ fault'.poll = fault.poll
             /\ fault'.kernel = fault.kernel
  BY <1>2 DEF Faults
<1>3. ASSUME fault' = [fault EXCEPT !.start = TRUE]
      PROVE  /\ fault' \in Faults /\ fault'.start
             /\ fault'.stray = fault.stray /\ fault'.poll = fault.poll
             /\ fault'.kernel = fault.kernel
  BY <1>3 DEF Faults
<1> QED BY <1>1, <1>2, <1>3 DEF Back, Succeed, Fail

LEMMA Gone ==
    ASSUME loop \in Loops, NEW step \in {"obtained", "cert", "key", "manage", "down"}, Goto(step)
    PROVE  loop' \in Loops /\ loop'.at = step /\ loop'.by = loop.by /\ loop'.pair = loop.pair
  BY DEF Goto, Loops

\* The loop holds p, and nothing else has changed for the service.
Held(p) ==
    /\ loop' \in Loops /\ loop'.at = "store" /\ loop'.by = loop.by /\ loop'.pair = p
    /\ UNCHANGED fault

LEMMA Holding == ASSUME loop \in Loops, NEW p \in Halves, Hold(p) PROVE Held(p)
  BY DEF Hold, Held, Loops

\* What becomes of the kernel.
LEMMA TakenOrKept ==
    ASSUME TypeOK, TakeMaterial \/ KeepMaterial \/ ApplyChanges
    PROVE  /\ kernel' \in Materials \cup {None} /\ fault' \in Faults
           /\ fault'.start = fault.start /\ fault'.stray = fault.stray
           /\ kernel' \in {mgr.mat, None} \/ (fault'.kernel /\ kernel' = kernel)
<1>1. mgr.mat \in Materials /\ fault \in Faults
  BY Typed DEF Managers
<1>2. CASE TakeMaterial
  BY <1>1, <1>2 DEF TakeMaterial, Faults
<1>3. CASE KeepMaterial
  BY <1>1, <1>3, Typed DEF KeepMaterial, Faults
<1>4. CASE kernel' = None /\ UNCHANGED fault
  BY <1>1, <1>4
<1> QED BY <1>2, <1>3, <1>4 DEF ApplyChanges

\* What a renewal of d changes of the renewals.
LEMMA RenewalStep ==
    ASSUME renewer \in Renewers, NEW d \in Domains, NEW from,
           NEW to \in {"event", "cert", "key", "flag"}, Renewing(d, from, to)
    PROVE  /\ renewer' \in Renewers
           /\ loop.at # "down" /\ renewer[d].at = from
           /\ renewer'[d].at = to
           /\ renewer'[d].domain = renewer[d].domain /\ renewer'[d].pair = renewer[d].pair
           /\ \A e \in Domains \ {d} : renewer'[e] = renewer[e]
  BY DEF Renewing, Renewers, Renewal, At

-----------------------------------------------------------------------------
(* The outcomes of Start *)

Elsewhere == UNCHANGED <<caching, renewer, renewed, users, kernel, pull>>

\* A pair a Start of this configuration may come to hold before it stores it.
Certificates(d) == {Pair("acme", d, n) : n \in 1..MaxIssued}

NamesPEM(cfg) == cfg.mode \in {"file", "content"} /\ cfg.pem # None

Sources(cfg) ==
    {p \in Pairs : /\ cfg.mode = "acme" => p \in Certificates(cfg.domain)
                   /\ NamesPEM(cfg) => p = Pair(cfg.mode, cfg.pem, 0)}

\* Start has a certificate for the domain and has not finished with it.
AcquiringACME ==
    loop.at \in {"obtained", "store", "cert", "key", "manage"} /\ mgr.cfg.mode = "acme"

\* What the loop's place says of the configuration, and when ACME runs: for
\* the configuration there is, once it was started without an error.
Staged ==
    /\ loop.at = "persisted" => mgr.cfg.mode # "acme" /\ ~NamesPEM(mgr.cfg)
    /\ loop.at \in {"obtained", "manage"} => mgr.cfg.mode = "acme"
    /\ loop.at = "obtained" => storage[mgr.cfg.domain] # 0
    /\ AcquiringACME => mgr.acme = None /\ mgr.cfg.domain \in Domains
    /\ mgr.acme # None => /\ mgr.acme = Fingerprint(mgr.cfg)
                          /\ mgr.cfg.mode = "acme" /\ mgr.cfg.domain \in Domains
    /\ loop.at \in {"apply", "idle"} /\ mgr.cfg.mode = "acme" =>
           (fault.start <=> mgr.acme = None)

\* Nothing is stored: nothing is wanted, ACME runs already, or it failed.
NothingStored ==
    /\ UNCHANGED <<mgr, live>>
    /\ Back
    /\ \/ fault'.start
       \/ ~fault'.start /\ (mgr.cfg.mode = "none" \/ (mgr.cfg.mode = "acme" /\ mgr.acme # None))
    /\ mgr.cfg.mode = "acme" => (fault'.start <=> mgr.acme = None)

\* A pair of this configuration is held.
PairHeld ==
    /\ mgr.cfg.mode # "acme"
    /\ \E p \in Sources(mgr.cfg) : Held(p)
    /\ UNCHANGED <<mgr, live>>

\* A mode that names no source looks at the disk.
Looked ==
    /\ mgr.cfg.mode # "acme" /\ ~NamesPEM(mgr.cfg)
    /\ loop' \in Loops /\ loop'.at = "persisted" /\ loop'.by = loop.by
    /\ UNCHANGED <<mgr, live, fault>>

LEMMA FreshOutcomes ==
    ASSUME TypeOK, Fresh, UNCHANGED <<mgr, live>>
    PROVE  used' \in Counters /\ (NothingStored \/ PairHeld)
<1>1. used \in Counters /\ loop \in Loops /\ fault \in Faults /\ mgr.cfg \in CertConfigs
  BY Typed DEF Managers
<1>2. CASE /\ mgr.cfg.mode = "self"
           /\ used.issued < MaxIssued
           /\ Hold(Pair("self", mgr.cfg.domain, used.issued + 1))
           /\ used' = [used EXCEPT !.issued = @ + 1]
  <2> DEFINE p == Pair("self", mgr.cfg.domain, used.issued + 1)
  <2>1. used.issued + 1 \in 0..MaxIssued
    BY <1>1, <1>2, Bounds DEF Counters
  <2>2. p \in Pairs
    BY <1>1, <2>1, Bounds, ConfigFields, PairType
  <2>3. used' \in Counters
    BY <1>1, <1>2, <2>1 DEF Counters
  <2>4. Held(p)
    <3> HIDE DEF p
    <3>1. Hold(p)
      BY <1>2 DEF p
    <3> QED BY <1>1, <2>2, <3>1, Holding DEF Halves
  <2>5. p \in Sources(mgr.cfg)
    <3> HIDE DEF p
    <3> QED BY <1>2, <2>2 DEF Sources, NamesPEM
  <2> QED BY <1>2, <2>3, <2>4, <2>5 DEF PairHeld
<1>3. CASE mgr.cfg.mode = "content" /\ Fail /\ UNCHANGED used
  BY <1>1, <1>3, Returned DEF NothingStored
<1> QED BY <1>2, <1>3 DEF Fresh

LEMMA StartPlainOutcomes ==
    TypeOK /\ StartPlain => /\ loop.at = "start" /\ Elsewhere /\ UNCHANGED <<disk, storage>>
                            /\ used' \in Counters
                            /\ NothingStored \/ PairHeld \/ Looked
<1> SUFFICES ASSUME TypeOK, StartPlain
             PROVE  /\ loop.at = "start" /\ Elsewhere /\ UNCHANGED <<disk, storage>>
                    /\ used' \in Counters
                    /\ NothingStored \/ PairHeld \/ Looked
  OBVIOUS
<1> DEFINE cfg == mgr.cfg
           p == Pair(cfg.mode, cfg.pem, 0)
<1>1. loop.at = "start" /\ Elsewhere /\ UNCHANGED <<mgr, live, disk, storage>>
  BY DEF StartPlain, Elsewhere, At
<1>2. used \in Counters /\ loop \in Loops /\ fault \in Faults /\ cfg \in CertConfigs
      /\ disk \in Materials
  BY Typed DEF Managers
<1>3. CASE /\ \/ cfg.mode = "none" /\ Succeed
              \/ cfg.mode \in {"file", "content", "unknown"} /\ Fail
           /\ UNCHANGED used
  BY <1>1, <1>2, <1>3, Returned DEF NothingStored
<1>4. CASE cfg.mode \in {"file", "content"} /\ cfg.pem # None /\ Hold(p) /\ UNCHANGED used
  <2>1. p \in Pairs
    BY <1>2, <1>4, ConfigFields, PairType
  <2>2. p \in Sources(cfg)
    BY <1>4, <2>1 DEF Sources, NamesPEM
  <2>3. Held(p)
    <3> HIDE DEF p
    <3> QED BY <1>2, <1>4, <2>1, Holding DEF Halves
  <2> QED BY <1>1, <1>2, <1>4, <2>2, <2>3 DEF PairHeld
<1>5. CASE /\ cfg.mode = "self" \/ (cfg.mode = "content" /\ cfg.pem = None)
           /\ IF disk.cert = None THEN Fresh
              ELSE /\ loop' = [loop EXCEPT !.at = "persisted", !.pair = disk.cert]
                   /\ UNCHANGED <<fault, used>>
  <2>1. ~NamesPEM(cfg)
    BY <1>5 DEF NamesPEM
  <2>2. CASE Fresh
    BY <1>1, <2>1, <2>2, FreshOutcomes
  <2>3. CASE /\ loop' = [loop EXCEPT !.at = "persisted", !.pair = disk.cert]
             /\ UNCHANGED <<fault, used>>
    <3>1. loop' \in Loops /\ loop'.at = "persisted" /\ loop'.by = loop.by
      BY <1>2, <2>3 DEF Loops, Materials
    <3> QED BY <1>1, <1>2, <1>5, <2>1, <2>3, <3>1 DEF Looked
  <2> QED BY <1>5, <2>2, <2>3
<1> QED BY <1>1, <1>3, <1>4, <1>5 DEF StartPlain

\* What is read from the disk is taken whole, by a mode that names no source.
Reused ==
    /\ mgr' = [mgr EXCEPT !.mat = [cert |-> loop.pair, key |-> loop.pair]]
    /\ Back
    /\ ~fault'.start
    /\ UNCHANGED <<live, used>>

LEMMA LoadPersistedOutcomes ==
    ASSUME TypeOK, LoadPersisted
    PROVE  /\ loop.at = "persisted" /\ Elsewhere /\ UNCHANGED <<live, disk, storage>>
           /\ \/ Reused
              \/ Fresh /\ UNCHANGED mgr
<1>1. (Succeed => Back /\ ~fault'.start)
  BY Typed, Returned
<1> QED BY <1>1 DEF LoadPersisted, Elsewhere, At, Persisted, Reused

\* A certificate is obtained.
Obtained ==
    /\ mgr.cfg.mode = "acme" /\ mgr.acme = None /\ mgr.cfg.domain \in Domains
    /\ loop' \in Loops /\ loop'.at = "obtained" /\ loop'.by = loop.by
    /\ live' = [live EXCEPT ![mgr.cfg.domain] = @ + 1]
    /\ storage'[mgr.cfg.domain] # 0
    /\ UNCHANGED <<mgr, fault>>

LEMMA ObtainOutcomes ==
    TypeOK /\ Obtain => /\ loop.at = "start" /\ Elsewhere /\ UNCHANGED <<mgr, disk>>
                        /\ used' \in Counters /\ storage' \in [Domains -> 0..MaxIssued]
                        /\ NothingStored \/ Obtained
<1> SUFFICES ASSUME TypeOK, Obtain
             PROVE  /\ loop.at = "start" /\ Elsewhere /\ UNCHANGED <<mgr, disk>>
                    /\ used' \in Counters /\ storage' \in [Domains -> 0..MaxIssued]
                    /\ NothingStored \/ Obtained
  OBVIOUS
<1> DEFINE d == mgr.cfg.domain
           n == IF storage[d] = 0 THEN used.issued + 1 ELSE storage[d]
<1>1. loop.at = "start" /\ Elsewhere /\ UNCHANGED <<mgr, disk>> /\ mgr.cfg.mode = "acme"
  BY DEF Obtain, Elsewhere, At
<1>2. /\ used \in Counters /\ loop \in Loops /\ fault \in Faults /\ mgr.cfg \in CertConfigs
      /\ storage \in [Domains -> 0..MaxIssued]
  BY Typed DEF Managers
<1>3. CASE /\ \/ mgr.acme # None /\ Succeed
              \/ mgr.acme = None /\ Fail
           /\ UNCHANGED <<live, storage, used>>
  BY <1>1, <1>2, <1>3, Returned DEF NothingStored
<1>4. CASE /\ mgr.acme = None
           /\ d # None
           /\ n <= MaxIssued
           /\ storage' = [storage EXCEPT ![d] = n]
           /\ used' = [used EXCEPT !.issued = IF n > @ THEN n ELSE @]
           /\ live' = [live EXCEPT ![d] = @ + 1]
           /\ Goto("obtained")
           /\ UNCHANGED fault
  <2>1. d \in Domains
    BY <1>2, <1>4, ConfigFields
  <2>2. n \in 1..MaxIssued
    BY <1>2, <1>4, <2>1, Bounds DEF Counters
  <2>3. used' \in Counters
    BY <1>2, <1>4, <2>2, Bounds DEF Counters
  <2>4. loop' \in Loops /\ loop'.at = "obtained" /\ loop'.by = loop.by
    BY <1>2, <1>4, Gone
  <2> HIDE DEF n
  <2>5. storage' \in [Domains -> 0..MaxIssued] /\ storage'[d] = n
    BY <1>2, <1>4, <2>1, <2>2
  <2> QED BY <1>1, <1>4, <2>1, <2>2, <2>3, <2>4, <2>5 DEF Obtained
<1> QED BY <1>1, <1>3, <1>4 DEF Obtain

\* It is loaded, or the start is given up.
Loaded ==
    /\ Held(Pair("acme", mgr.cfg.domain, storage[mgr.cfg.domain]))
    /\ UNCHANGED live

GivenUp == Cancel /\ Back /\ fault'.start

LEMMA LoadObtainedOutcomes ==
    ASSUME TypeOK, Staged, LoadObtained
    PROVE  /\ loop.at = "obtained" /\ Elsewhere /\ UNCHANGED <<mgr, disk, storage, used>>
           /\ Loaded \/ GivenUp
           /\ Pair("acme", mgr.cfg.domain, storage[mgr.cfg.domain]) \in Sources(mgr.cfg)
<1> DEFINE d == mgr.cfg.domain
           p == Pair("acme", d, storage[d])
<1>1. loop.at = "obtained" /\ Elsewhere /\ UNCHANGED <<mgr, disk, storage, used>>
  BY DEF LoadObtained, Elsewhere, At
<1>2. storage[d] \in 1..MaxIssued /\ d \in Domains /\ mgr.cfg.mode = "acme"
  BY <1>1, Typed, Bounds DEF Staged, AcquiringACME
<1>3. p \in Pairs /\ p \in Certificates(d)
  BY <1>2, Bounds, PairType DEF Certificates
<1> HIDE DEF p
<1>4. p \in Sources(mgr.cfg)
  BY <1>2, <1>3 DEF Sources, NamesPEM
<1>5. CASE Hold(p) /\ UNCHANGED live
  <2>1. Held(p)
    BY <1>3, <1>5, Typed, Holding DEF Halves
  <2> QED BY <1>1, <1>4, <1>5, <2>1 DEF Loaded, p
<1>6. CASE Cancel /\ Fail
  BY <1>1, <1>4, <1>6, Typed, Returned DEF GivenUp, p
<1> QED BY <1>1, <1>4, <1>5, <1>6 DEF LoadObtained, p

LEMMA Stored ==
    ASSUME mgr \in Managers, loop \in Loops, fault \in Faults, StoreMat
    PROVE  /\ mgr' \in Managers /\ mgr'.mat = Material(loop.pair)
           /\ mgr'.cfg = mgr.cfg /\ mgr'.acme = mgr.acme
           /\ loop.at = "store"
           /\ loop' \in Loops /\ loop'.at = "cert" /\ loop'.by = loop.by
           /\ fault' \in Faults /\ fault'.start = fault.start /\ ~fault'.stray
           /\ fault'.poll = fault.poll /\ fault'.kernel = fault.kernel
<1>1. Material(loop.pair) \in Materials
  BY MaterialType DEF Loops
<1>2. mgr' \in Managers /\ mgr'.mat = Material(loop.pair) /\ mgr'.cfg = mgr.cfg
      /\ mgr'.acme = mgr.acme
  BY <1>1 DEF StoreMat, Managers
<1>3. loop.at = "store" /\ loop' \in Loops /\ loop'.at = "cert" /\ loop'.by = loop.by
  BY Gone DEF StoreMat, At
<1>4. /\ fault' \in Faults /\ fault'.start = fault.start /\ ~fault'.stray
      /\ fault'.poll = fault.poll /\ fault'.kernel = fault.kernel
  BY DEF StoreMat, Faults
<1> QED BY <1>2, <1>3, <1>4

-----------------------------------------------------------------------------
(* Types *)

LEMMA InitTypeOK == Init => TypeOK
<1> SUFFICES ASSUME Init PROVE TypeOK
  OBVIOUS
<1>1. mgr \in Managers
  BY NoMaterialType, ConfigsAreCertConfigs DEF Init, Managers
<1>2. renewer \in Renewers /\ caching \subseteq Domains
  BY NoRenewalType DEF Init, Renewers
<1>3. disk \in Materials /\ kernel \in Materials \cup {None}
  BY NoMaterialType DEF Init
<1>4. storage \in [Domains -> 0..MaxIssued] /\ used \in Counters
  BY Bounds DEF Init, Counters
<1>5. loop \in Loops
  BY LoopType DEF Init
<1>6. fault \in Faults
  BY DEF Init, NoFault, Faults
<1> QED BY <1>1, <1>2, <1>3, <1>4, <1>5, <1>6, Typed

\* Where Start is, or has failed.
Starting ==
    StartPlain \/ LoadPersisted \/ Obtain \/ LoadObtained

\* The steps of Start up to storePEM.
LEMMA StartTypes == TypeOK /\ Staged /\ Starting => TypeOK'
<1> SUFFICES ASSUME TypeOK, Staged, Starting PROVE TypeOK'
  OBVIOUS
<1>1. CASE StartPlain
  <2>1. loop' \in Loops /\ fault' \in Faults /\ UNCHANGED mgr
    BY <1>1, StartPlainOutcomes, Typed DEF NothingStored, PairHeld, Looked, Held, Back
  <2> QED BY <1>1, <2>1, StartPlainOutcomes, Typed, TypedNext DEF Elsewhere
<1>2. CASE LoadPersisted
  <2>1. UNCHANGED <<live, disk, storage>> /\ Elsewhere
    BY <1>2, LoadPersistedOutcomes
  <2>2. CASE Reused
    <3>1. mgr' \in Managers
      BY <2>2, Typed DEF Reused, Managers, Materials, Loops
    <3> QED BY <2>1, <2>2, <3>1, Typed, TypedNext DEF Reused, Back, Elsewhere
  <2>3. CASE Fresh /\ UNCHANGED mgr
    <3>2. used' \in Counters /\ (NothingStored \/ PairHeld)
      BY <2>1, <2>3, FreshOutcomes
    <3>3. loop' \in Loops /\ fault' \in Faults
      BY <3>2, Typed DEF NothingStored, PairHeld, Held, Back
    <3> QED BY <2>1, <2>3, <3>2, <3>3, Typed, TypedNext DEF Elsewhere
  <2> QED BY <1>2, <2>2, <2>3, LoadPersistedOutcomes
<1>3. CASE Obtain
  <2>1. loop' \in Loops /\ fault' \in Faults
    BY <1>3, ObtainOutcomes, Typed DEF NothingStored, Obtained, Back
  <2> QED BY <1>3, <2>1, ObtainOutcomes, Typed, TypedNext DEF Elsewhere
<1>4. CASE LoadObtained
  <2>1. loop' \in Loops /\ fault' \in Faults
    BY <1>4, LoadObtainedOutcomes, Typed DEF Loaded, GivenUp, Held, Back
  <2> QED BY <1>4, <2>1, LoadObtainedOutcomes, Typed, TypedNext DEF Elsewhere
<1> QED BY <1>1, <1>2, <1>3, <1>4 DEF Starting

Persisting == StoreMat \/ StoreCert \/ StoreKey \/ Manage

\* What is written, and certmagic set going.
LEMMA StoreTypes == TypeOK /\ Staged /\ Persisting => TypeOK'
<1> SUFFICES ASSUME TypeOK, Staged, Persisting PROVE TypeOK'
  OBVIOUS
<1>1. CASE StoreMat
  BY <1>1, Typed, TypedNext, Stored DEF StoreMat
<1>2. CASE StoreCert
  <2>1. disk' \in Materials
    BY <1>2, Typed DEF StoreCert, Materials, Loops
  <2>2. loop' \in Loops
    BY <1>2, Typed, Gone DEF StoreCert
  <2> QED BY <1>2, <2>1, <2>2, Typed, TypedNext DEF StoreCert
<1>3. CASE StoreKey
  <2>1. disk' \in Materials
    BY <1>3, Typed DEF StoreKey, Materials, Loops
  <2>2. CASE Goto("manage") /\ UNCHANGED fault
    <3>1. loop' \in Loops
      BY <2>2, Typed, Gone
    <3> QED BY <1>3, <2>1, <2>2, <3>1, Typed, TypedNext DEF StoreKey
  <2>3. CASE Succeed
    <3>1. loop' \in Loops /\ fault' \in Faults
      BY <2>3, Typed, Returned DEF Back
    <3> QED BY <1>3, <2>1, <3>1, Typed, TypedNext DEF StoreKey
  <2> QED BY <1>3, <2>2, <2>3 DEF StoreKey
<1>4. CASE Manage
  <2>1. loop' \in Loops /\ fault' \in Faults
    BY <1>4, Typed, Returned DEF Manage, Back
  <2>2. mgr' \in Managers
    BY <1>4, Typed, ConfigFields DEF Manage, Managers
  <2>3. caching' \subseteq Domains
    BY <1>4, Typed DEF Manage, At, Staged, AcquiringACME
  <2> QED BY <1>4, <2>1, <2>2, <2>3, Typed, TypedNext DEF Manage
<1> QED BY <1>1, <1>2, <1>3, <1>4 DEF Persisting

Serving ==
    Boot \/ FirstStart \/ Apply \/ SyncConfig \/ UpdateUsers \/ Poll \/ PollFails \/ PollApplied

LEMMA ServiceTypes == TypeOK /\ Serving => TypeOK'
<1> SUFFICES ASSUME TypeOK, Serving PROVE TypeOK'
  OBVIOUS
<1>a. Configs \subseteq CertConfigs
  BY ConfigsAreCertConfigs
<1>b. /\ Idle \in Loops
      /\ Loop("start", "setup") \in Loops /\ Loop("start", "event") \in Loops
  BY LoopType DEF Idle
<1>1. CASE Boot
  <2>1. mgr' \in Managers
    BY <1>1, <1>a, Typed, Reconfigured DEF Boot
  <2>2. loop' \in Loops
    BY <1>1, <1>b, Typed, Gone DEF Boot
  <2> QED BY <1>1, <2>1, <2>2, Typed, TypedNext DEF Boot
<1>2. CASE FirstStart
  <2>1. loop' \in Loops
    BY <1>2, <1>b, Typed, Gone DEF FirstStart
  <2>2. kernel' \in Materials \cup {None} /\ fault' \in Faults
    BY <1>2, TakenOrKept DEF FirstStart
  <2> QED BY <1>2, <2>1, <2>2, Typed, TypedNext DEF FirstStart
<1>3. CASE Apply
  <2>1. kernel' \in Materials \cup {None} /\ fault' \in Faults
    BY <1>3, TakenOrKept DEF Apply
  <2> QED BY <1>3, <1>b, <2>1, Typed, TypedNext DEF Apply
<1>4. CASE SyncConfig
  <2>1. mgr' \in Managers
    BY <1>4, <1>a, Typed, Reconfigured DEF SyncConfig
  <2>2. used' \in Counters
    BY <1>4, Typed, Bounds DEF SyncConfig, Counters
  <2> QED BY <1>4, <1>b, <2>1, <2>2, Typed, TypedNext DEF SyncConfig
<1>5. CASE UpdateUsers
  <2>1. kernel' \in Materials \cup {None} /\ fault' \in Faults
    BY <1>5, TakenOrKept, Typed DEF UpdateUsers
  <2> QED BY <1>5, <2>1, Typed, TypedNext DEF UpdateUsers
<1>6. CASE Poll
  BY <1>6, Typed, TypedNext DEF Poll
<1>7. CASE PollFails
  <2>1. fault' \in Faults
    BY <1>7, Typed DEF PollFails, Faults
  <2> QED BY <1>7, <2>1, Typed, TypedNext DEF PollFails
<1>8. CASE PollApplied
  <2>1. CASE ApplyChanges /\ UNCHANGED <<mgr, live, loop, users, used>>
    <3>1. kernel' \in Materials \cup {None} /\ fault' \in Faults
      BY <2>1, TakenOrKept
    <3> QED BY <1>8, <2>1, <3>1, Typed, TypedNext DEF PollApplied
  <2>2. CASE /\ used.edits < MaxEdits
             /\ \E cfg \in Configs : Reconfigure(cfg)
             /\ used' = [used EXCEPT !.edits = @ + 1]
             /\ loop' = Loop("start", "event")
             /\ UNCHANGED <<kernel, fault>>
    <3>1. mgr' \in Managers
      BY <2>2, <1>a, Typed, Reconfigured
    <3>2. used' \in Counters
      BY <2>2, Typed, Bounds DEF Counters
    <3> QED BY <1>8, <1>b, <2>2, <3>1, <3>2, Typed, TypedNext DEF PollApplied
  <2> QED BY <1>8, <2>1, <2>2 DEF PollApplied
<1> QED BY <1>1, <1>2, <1>3, <1>4, <1>5, <1>6, <1>7, <1>8 DEF Serving

RenewalOf(d) ==
    Renew(d) \/ RenewRead(d) \/ RenewLoad(d) \/ RenewStore(d) \/ RenewCert(d) \/ RenewKey(d)
        \/ RenewFlag(d)

LEMMA RenewalTypes == ASSUME TypeOK, NEW d \in Domains, RenewalOf(d) PROVE TypeOK'
<1>a. renewer \in Renewers /\ renewer[d] \in Renewal
  BY Typed DEF Renewers
<1>1. CASE Renew(d)
  <2>1. used.issued + 1 \in 0..MaxIssued
    BY <1>1, Typed, Bounds DEF Renew, Counters
  <2>2. storage' \in [Domains -> 0..MaxIssued]
    BY <1>1, <2>1, Typed DEF Renew
  <2>3. used' \in Counters
    BY <1>1, <2>1, Typed DEF Renew, Counters
  <2>4. renewer' \in Renewers
    BY <1>1, Typed, RenewalStep DEF Renew
  <2> QED BY <1>1, <2>2, <2>3, <2>4, Typed, TypedNext DEF Renew
<1>2. CASE RenewRead(d)
  <2>1. mgr.cfg.domain \in Domains \cup {None}
    BY Typed, ConfigFields DEF Managers
  <2>2. renewer' \in Renewers
    BY <1>2, <1>a, <2>1 DEF RenewRead, Renewers, Renewal
  <2> QED BY <1>2, <2>2, Typed, TypedNext DEF RenewRead
<1>3. CASE RenewLoad(d)
  <2> DEFINE e == renewer[d].domain
             p == Pair("acme", e, storage[e])
  <2>1. renewer' \in Renewers
    <3>1. CASE renewer' = [renewer EXCEPT ![d] = NoRenewal]
      BY <1>a, <3>1, NoRenewalType DEF Renewers
    <3>2. CASE /\ e # None
               /\ renewer' = [renewer EXCEPT ![d].at = "store", ![d].pair = p]
      <4>1. e \in Domains
        BY <1>a, <3>2 DEF Renewal
      <4>2. p \in Halves
        BY <4>1, Typed, Bounds, PairType DEF Halves
      <4> HIDE DEF p
      <4> QED BY <1>a, <3>2, <4>2 DEF Renewers, Renewal
    <3> QED BY <1>3, <3>1, <3>2 DEF RenewLoad
  <2> QED BY <1>3, <2>1, Typed, TypedNext DEF RenewLoad
<1>4. CASE RenewStore(d)
  <2>1. mgr' \in Managers
    <3>1. Material(renewer[d].pair) \in Materials
      BY <1>a, MaterialType DEF Renewal
    <3> QED BY <1>4, <3>1, Typed DEF RenewStore, Managers
  <2>2. fault' \in Faults
    BY <1>4, Typed DEF RenewStore, Faults
  <2>3. renewer' \in Renewers
    BY <1>4, <1>a, RenewalStep DEF RenewStore
  <2> QED BY <1>4, <2>1, <2>2, <2>3, Typed, TypedNext DEF RenewStore
<1>5. CASE RenewCert(d) \/ RenewKey(d)
  <2>1. disk' \in Materials
    BY <1>5, <1>a, Typed DEF RenewCert, RenewKey, Materials, Renewal
  <2>2. renewer' \in Renewers
    BY <1>5, <1>a, RenewalStep DEF RenewCert, RenewKey
  <2> QED BY <1>5, <2>1, <2>2, Typed, TypedNext DEF RenewCert, RenewKey
<1>6. CASE RenewFlag(d)
  <2>1. renewer' \in Renewers
    BY <1>6, <1>a, NoRenewalType DEF RenewFlag, Renewers
  <2> QED BY <1>6, <2>1, Typed, TypedNext DEF RenewFlag
<1> QED BY <1>1, <1>2, <1>3, <1>4, <1>5, <1>6 DEF RenewalOf

LEMMA ProcessTypes == TypeOK /\ (Crash \/ Restart \/ UNCHANGED vars) => TypeOK'
<1> SUFFICES ASSUME TypeOK, Crash \/ Restart \/ UNCHANGED vars PROVE TypeOK'
  OBVIOUS
<1>1. CASE Crash
  <2>1. used' \in Counters
    BY <1>1, Typed, Bounds DEF Crash, Counters
  <2>2. loop' \in Loops
    BY <1>1, Typed, Gone DEF Crash
  <2> QED BY <1>1, <2>1, <2>2, Typed, TypedNext DEF Crash
<1>2. CASE Restart
  <2>1. mgr' \in Managers
    BY <1>2, NoMaterialType, ConfigsAreCertConfigs DEF Restart, Managers
  <2>2. renewer' \in Renewers /\ caching' \subseteq Domains
    BY <1>2, NoRenewalType DEF Restart, Renewers
  <2>3. loop' \in Loops
    BY <1>2, LoopType DEF Restart
  <2>4. fault' \in Faults
    BY <1>2 DEF Restart, NoFault, Faults
  <2> QED BY <1>2, <2>1, <2>2, <2>3, <2>4, Typed, TypedNext DEF Restart
<1>3. CASE UNCHANGED vars
  BY <1>3, Typed, TypedNext DEF vars
<1> QED BY <1>1, <1>2, <1>3

LEMMA Steps ==
    ASSUME [Next]_vars
    PROVE  \/ Starting \/ Persisting \/ Serving \/ (\E d \in Domains : RenewalOf(d))
           \/ Crash \/ Restart \/ UNCHANGED vars
  BY DEF Next, Starting, Persisting, Serving, RenewalOf

-----------------------------------------------------------------------------
(* Where the loop is *)

\* Nothing that matters to Staged changes.
LEMMA StagedFrame ==
    ASSUME Staged, mgr'.cfg = mgr.cfg, mgr'.acme = mgr.acme, UNCHANGED loop,
           fault'.start = fault.start,
           loop.at = "obtained" => storage'[mgr.cfg.domain] # 0
    PROVE  Staged'
  BY DEF Staged, AcquiringACME

\* After Reconfigure, what runs runs for the new configuration.
LEMMA ReconfiguredStaged ==
    ASSUME TypeOK, Staged, NEW cfg \in CertConfigs, Reconfigure(cfg), loop'.at = "start"
    PROVE  Staged'
<1>1. mgr'.cfg = cfg /\ mgr'.acme = IF MustTearDown(cfg) THEN None ELSE mgr.acme
  BY Typed, Reconfigured
<1>2. ~AcquiringACME'
  BY DEF AcquiringACME
<1>3. ASSUME mgr'.acme # None
      PROVE  mgr'.acme = Fingerprint(cfg) /\ cfg.mode = "acme" /\ cfg.domain \in Domains
  <2>1. mgr.acme # None /\ mgr.acme = Fingerprint(cfg) /\ cfg.mode = "acme"
    BY <1>1, <1>3 DEF MustTearDown
  <2>2. mgr.acme = Fingerprint(mgr.cfg) /\ mgr.cfg.domain \in Domains
    BY <2>1 DEF Staged
  <2>3. cfg.domain = mgr.cfg.domain
    BY <2>1, <2>2 DEF Fingerprint
  <2> QED BY <1>1, <1>3, <2>1, <2>2, <2>3
<1> QED BY <1>1, <1>2, <1>3 DEF Staged

\* The outcomes of Start keep it.
LEMMA StartStaged == TypeOK /\ Staged /\ Starting => Staged'
<1> SUFFICES ASSUME TypeOK, Staged, Starting PROVE Staged'
  OBVIOUS
<1>1. ASSUME NothingStored PROVE Staged'
  <2>1. loop'.at = "apply" /\ UNCHANGED mgr
    BY <1>1 DEF NothingStored, Back
  <2> QED BY <1>1, <2>1 DEF NothingStored, Staged, AcquiringACME
<1>2. ASSUME PairHeld PROVE Staged'
  <2>1. loop'.at = "store" /\ UNCHANGED mgr /\ mgr.cfg.mode # "acme"
    BY <1>2 DEF PairHeld, Held
  <2> QED BY <2>1 DEF Staged, AcquiringACME
<1>3. CASE StartPlain
  <2>1. CASE Looked
    BY <2>1 DEF Looked, Staged, AcquiringACME
  <2> QED BY <1>1, <1>2, <1>3, <2>1, StartPlainOutcomes
<1>4. CASE LoadPersisted
  <2>1. loop.at = "persisted" /\ mgr.cfg.mode # "acme"
    BY <1>4, LoadPersistedOutcomes DEF Staged
  <2>2. CASE Reused
    <3>1. mgr'.cfg = mgr.cfg /\ mgr'.acme = mgr.acme /\ loop'.at = "apply"
      BY <2>2, Typed DEF Reused, Back, Managers
    <3> QED BY <2>1, <3>1 DEF Staged, AcquiringACME
  <2>3. CASE Fresh /\ UNCHANGED mgr
    <3>1. UNCHANGED live
      BY <1>4 DEF LoadPersisted
    <3> QED BY <1>1, <1>2, <2>3, <3>1, FreshOutcomes
  <2> QED BY <1>4, <2>2, <2>3, LoadPersistedOutcomes
<1>5. CASE Obtain
  <2>1. CASE Obtained
    BY <2>1 DEF Obtained, Staged, AcquiringACME
  <2> QED BY <1>1, <1>5, <2>1, ObtainOutcomes
<1>6. CASE LoadObtained
  <2>1. loop.at = "obtained" /\ UNCHANGED mgr /\ loop'.at \in {"store", "apply"}
    BY <1>6, LoadObtainedOutcomes DEF Loaded, GivenUp, Held, Back
  <2>2. loop'.at = "apply" => fault'.start
    BY <1>6, LoadObtainedOutcomes DEF Loaded, GivenUp, Held
  <2> QED BY <2>1, <2>2 DEF Staged, AcquiringACME
<1> QED BY <1>3, <1>4, <1>5, <1>6 DEF Starting

\* What Manage does to ACME.
LEMMA Managed ==
    ASSUME TypeOK, Manage
    PROVE  /\ loop.at = "manage" /\ loop'.at = "apply" /\ loop'.by = loop.by
           /\ mgr'.cfg = mgr.cfg /\ mgr'.mat = mgr.mat
           /\ fault'.stray = fault.stray
           /\ \/ mgr'.acme = Fingerprint(mgr.cfg) /\ ~fault'.start /\ UNCHANGED live
              \/ mgr'.acme = mgr.acme /\ fault'.start /\ Cancel
           /\ Fingerprint(mgr.cfg) # None
<1>1. mgr \in Managers /\ loop \in Loops /\ fault \in Faults
  BY Typed
<1>2. Fingerprint(mgr.cfg) # None
  BY <1>1, ConfigFields DEF Managers
<1>3. CASE /\ mgr' = [mgr EXCEPT !.acme = Fingerprint(mgr.cfg)]
           /\ Succeed
           /\ UNCHANGED live
  <2>1. mgr'.cfg = mgr.cfg /\ mgr'.mat = mgr.mat /\ mgr'.acme = Fingerprint(mgr.cfg)
    BY <1>1, <1>3 DEF Managers
  <2> QED BY <1>1, <1>2, <1>3, <2>1, Returned DEF Manage, At, Back
<1>4. CASE Cancel /\ Fail /\ UNCHANGED mgr
  BY <1>1, <1>2, <1>4, Returned DEF Manage, At, Back
<1> QED BY <1>3, <1>4 DEF Manage

LEMMA StoreStaged == TypeOK /\ Staged /\ Persisting => Staged'
<1> SUFFICES ASSUME TypeOK, Staged, Persisting PROVE Staged'
  OBVIOUS
<1>1. CASE StoreMat
  BY <1>1, Typed, Stored DEF Staged, AcquiringACME
<1>2. CASE StoreCert
  <2>1. loop.at = "cert" /\ loop'.at = "key" /\ UNCHANGED mgr
    BY <1>2, Typed, Gone DEF StoreCert, At
  <2> QED BY <2>1 DEF Staged, AcquiringACME
<1>3. CASE StoreKey
  <2>1. loop.at = "key" /\ UNCHANGED mgr
    BY <1>3 DEF StoreKey, At
  <2>2. IF mgr.cfg.mode = "acme" THEN loop'.at = "manage" ELSE loop'.at = "apply"
    BY <1>3, Typed, Gone, Returned DEF StoreKey, Back
  <2> QED BY <2>1, <2>2 DEF Staged, AcquiringACME
<1>4. CASE Manage
  BY <1>4, Managed DEF Staged, AcquiringACME
<1> QED BY <1>1, <1>2, <1>3, <1>4 DEF Persisting

\* The loop is back at rest, or the service is over.
LEMMA RestStaged ==
    ASSUME Staged, UNCHANGED mgr, fault'.start = fault.start,
           loop.at \in {"apply", "idle"}, loop'.at \in {"idle", "down"}
    PROVE  Staged'
  BY DEF Staged, AcquiringACME

LEMMA ServiceStaged == TypeOK /\ Staged /\ Serving => Staged'
<1> SUFFICES ASSUME TypeOK, Staged, Serving PROVE Staged'
  OBVIOUS
<1>a. ASSUME NEW by \in {"run", "setup", "event"}, loop' = Loop("start", by),
             \E cfg \in Configs : Reconfigure(cfg)
      PROVE  Staged'
  <2>1. loop'.at = "start"
    BY <1>a, LoopType
  <2> QED BY <1>a, <2>1, ReconfiguredStaged, ConfigsAreCertConfigs
<1>b. Idle.at = "idle"
  BY LoopType DEF Idle
<1>1. CASE Boot
  <2>1. loop.at = "apply" /\ UNCHANGED fault
    BY <1>1 DEF Boot, At
  <2>2. CASE (Goto("down") \/ loop' = Idle) /\ UNCHANGED mgr
    <3>1. loop'.at \in {"down", "idle"}
      BY <1>b, <2>2, Typed, Gone
    <3> QED BY <2>1, <2>2, <3>1, RestStaged
  <2> QED BY <1>1, <1>a, <2>2 DEF Boot
<1>2. CASE FirstStart \/ Apply
  <2>1. loop.at = "apply" /\ UNCHANGED mgr
    BY <1>2 DEF FirstStart, Apply, At
  <2>2. loop'.at \in {"down", "idle"}
    BY <1>2, <1>b, Typed, Gone DEF FirstStart, Apply
  <2>3. fault'.start = fault.start
    BY <1>2, TakenOrKept DEF FirstStart, Apply
  <2> QED BY <2>1, <2>2, <2>3, RestStaged
<1>3. CASE SyncConfig
  BY <1>3, <1>a DEF SyncConfig
<1>4. CASE UpdateUsers \/ Poll \/ PollFails
  <2>1. UNCHANGED <<mgr, loop, storage>>
    BY <1>4 DEF UpdateUsers, Poll, PollFails
  <2>2. fault'.start = fault.start
    BY <1>4, Typed, TakenOrKept DEF UpdateUsers, Poll, PollFails, Faults
  <2>3. loop.at = "obtained" => storage'[mgr.cfg.domain] # 0
    BY <2>1 DEF Staged
  <2> QED BY <2>1, <2>2, <2>3, StagedFrame
<1>5. CASE PollApplied
  <2>1. CASE ApplyChanges /\ UNCHANGED <<mgr, loop>>
    <3>1. fault'.start = fault.start /\ loop.at = "idle"
      BY <1>5, <2>1, TakenOrKept DEF PollApplied, At
    <3> QED BY <2>1, <3>1, RestStaged
  <2> QED BY <1>5, <1>a, <2>1 DEF PollApplied
<1> QED BY <1>1, <1>2, <1>3, <1>4, <1>5 DEF Serving

\* A renewal changes neither the configuration nor what runs.
LEMMA RenewalLeaves ==
    ASSUME TypeOK, NEW d \in Domains, RenewalOf(d)
    PROVE  /\ UNCHANGED <<live, loop, users, kernel, pull>>
           /\ mgr'.cfg = mgr.cfg /\ mgr'.acme = mgr.acme
           /\ fault'.start = fault.start /\ fault'.poll = fault.poll
           /\ fault'.kernel = fault.kernel
           /\ loop.at # "down"
           /\ \A e \in Domains : storage[e] # 0 => storage'[e] # 0
<1>1. mgr'.cfg = mgr.cfg /\ mgr'.acme = mgr.acme
  BY Typed DEF RenewalOf, Renew, RenewRead, RenewLoad, RenewStore, RenewCert, RenewKey, RenewFlag,
               Managers
<1>2. /\ fault'.start = fault.start /\ fault'.poll = fault.poll
      /\ fault'.kernel = fault.kernel
  BY Typed DEF RenewalOf, Renew, RenewRead, RenewLoad, RenewStore, RenewCert, RenewKey, RenewFlag,
               Faults
<1>3. \A e \in Domains : storage[e] # 0 => storage'[e] # 0
  <2>1. CASE Renew(d)
    <3>1. used.issued + 1 # 0
      BY Typed, Bounds DEF Counters
    <3> QED BY <2>1, <3>1, Typed DEF Renew
  <2>2. CASE UNCHANGED storage
    BY <2>2
  <2> QED BY <2>1, <2>2 DEF RenewalOf, RenewRead, RenewLoad, RenewStore, RenewCert, RenewKey,
                            RenewFlag
<1>4. loop.at # "down" /\ UNCHANGED <<live, loop, users, kernel, pull>>
  BY DEF RenewalOf, Renew, RenewRead, RenewLoad, RenewStore, RenewCert, RenewKey, RenewFlag,
         Renewing, At
<1> QED BY <1>1, <1>2, <1>3, <1>4

LEMMA StepStaged == TypeOK /\ Staged /\ [Next]_vars => Staged'
<1> SUFFICES ASSUME TypeOK, Staged, [Next]_vars PROVE Staged'
  OBVIOUS
<1>1. CASE Starting \/ Persisting \/ Serving
  BY <1>1, StartStaged, StoreStaged, ServiceStaged
<1>2. CASE \E d \in Domains : RenewalOf(d)
  <2>1. loop.at = "obtained" => storage'[mgr.cfg.domain] # 0
    BY <1>2, RenewalLeaves DEF Staged, AcquiringACME
  <2> QED BY <1>2, <2>1, RenewalLeaves, StagedFrame
<1>3. CASE Crash
  <2>1. loop'.at = "down" /\ UNCHANGED mgr
    BY <1>3, Typed, Gone DEF Crash
  <2> QED BY <2>1 DEF Staged, AcquiringACME
<1>4. CASE Restart
  <2>1. loop'.at = "start" /\ mgr'.acme = None
    BY <1>4, LoopType DEF Restart
  <2> QED BY <2>1 DEF Staged, AcquiringACME
<1>5. CASE UNCHANGED vars
  BY <1>5 DEF vars, Staged, AcquiringACME
<1> QED BY <1>1, <1>2, <1>3, <1>4, <1>5, Steps

LEMMA StepTypeOK == TypeOK /\ Staged /\ [Next]_vars => TypeOK'
  BY Steps, StartTypes, StoreTypes, ServiceTypes, RenewalTypes, ProcessTypes

LEMMA InitStaged == Init => Staged
  BY LoopType DEF Init, Staged, AcquiringACME

LEMMA WellStaged == Spec => [](TypeOK /\ Staged)
<1>1. Init => TypeOK /\ Staged
  BY InitTypeOK, InitStaged
<1>2. TypeOK /\ Staged /\ [Next]_vars => TypeOK' /\ Staged'
  BY StepTypeOK, StepStaged
<1> QED BY <1>1, <1>2, PTL DEF Spec

\* The manager, the renewals, the disk and the loop are well-formed, for any
\* certificate configurations and any number of edits, renewals and crashes.
THEOREM TypeCorrect == Spec => []TypeOK
  BY WellStaged, PTL

-----------------------------------------------------------------------------
(* Only pairs are served *)

\* A step preserves it whatever it does to the disk: what is read there has
\* to fit together.
LEMMA StepServes == TypeOK /\ Staged /\ ServesOnlyPairs /\ [Next]_vars => ServesOnlyPairs'
<1> SUFFICES ASSUME TypeOK, Staged, ServesOnlyPairs, [Next]_vars PROVE ServesOnlyPairs'
  OBVIOUS
<1>1. CASE Starting
  <2>1. UNCHANGED kernel
    BY <1>1 DEF Starting, StartPlain, LoadPersisted, Obtain, LoadObtained
  <2>2. mgr'.mat.cert = mgr'.mat.key
    <3>1. CASE LoadPersisted
      <4>1. CASE Reused
        BY <4>1, Typed DEF Reused, Managers
      <4> QED BY <3>1, <4>1, LoadPersistedOutcomes DEF ServesOnlyPairs
    <3>2. CASE UNCHANGED mgr
      BY <3>2 DEF ServesOnlyPairs
    <3> QED BY <1>1, <3>1, <3>2 DEF Starting, StartPlain, Obtain, LoadObtained
  <2> QED BY <2>1, <2>2 DEF ServesOnlyPairs
<1>2. CASE Persisting
  <2>1. UNCHANGED kernel
    BY <1>2 DEF Persisting, StoreMat, StoreCert, StoreKey, Manage
  <2>2. mgr'.mat.cert = mgr'.mat.key
    <3>1. CASE StoreMat
      BY <3>1, Typed, Stored, MaterialType DEF Loops
    <3>2. CASE Manage
      BY <3>2, Managed DEF ServesOnlyPairs
    <3>3. CASE UNCHANGED mgr
      BY <3>3 DEF ServesOnlyPairs
    <3> QED BY <1>2, <3>1, <3>2, <3>3 DEF Persisting, StoreCert, StoreKey
  <2> QED BY <2>1, <2>2 DEF ServesOnlyPairs
<1>3. CASE Serving
  <2>1. kernel' \in {kernel, mgr.mat, None}
    BY <1>3, TakenOrKept DEF Serving, Boot, FirstStart, Apply, SyncConfig, UpdateUsers, Poll,
                             PollFails, PollApplied
  <2>2. mgr'.mat \in {mgr.mat, NoMaterial}
    <3>1. CASE \E cfg \in Configs : Reconfigure(cfg)
      BY <3>1, Typed, Reconfigured, ConfigsAreCertConfigs
    <3> QED BY <1>3, <3>1 DEF Serving, Boot, FirstStart, Apply, SyncConfig, UpdateUsers, Poll,
                              PollFails, PollApplied
  <2> QED BY <2>1, <2>2, NoMaterialType DEF ServesOnlyPairs
<1>4. ASSUME NEW d \in Domains, RenewalOf(d) PROVE ServesOnlyPairs'
  <2>1. UNCHANGED kernel
    BY <1>4, RenewalLeaves
  <2>2. CASE RenewStore(d)
    <3>1. renewer[d].pair \in Halves
      BY Typed DEF Renewers, Renewal
    <3>2. mgr'.mat = Material(renewer[d].pair)
      BY <2>2, Typed DEF RenewStore, Managers
    <3> QED BY <2>1, <3>1, <3>2, MaterialType DEF ServesOnlyPairs
  <2>3. CASE UNCHANGED mgr
    BY <2>1, <2>3 DEF ServesOnlyPairs
  <2> QED BY <1>4, <2>2, <2>3 DEF RenewalOf, Renew, RenewRead, RenewLoad, RenewCert, RenewKey,
                                  RenewFlag
<1>5. CASE Crash \/ UNCHANGED vars
  BY <1>5 DEF Crash, vars, ServesOnlyPairs
<1>6. CASE Restart
  BY <1>6, NoMaterialType DEF Restart, ServesOnlyPairs
<1> QED BY <1>1, <1>2, <1>3, <1>4, <1>5, <1>6, Steps

\* The manager and the kernel never hold halves of different pairs, however
\* crashes, failing writes and several writers leave the disk.
THEOREM OnlyPairsServed == Spec => []ServesOnlyPairs
<1>1. Init => ServesOnlyPairs
  BY NoMaterialType DEF Init, ServesOnlyPairs
<1>2. TypeOK /\ Staged /\ ServesOnlyPairs /\ [Next]_vars => ServesOnlyPairs'
  BY StepServes
<1> QED BY <1>1, <1>2, WellStaged, PTL DEF Spec

-----------------------------------------------------------------------------
(* The contexts follow the configuration *)

Counted(h) == [d \in Domains |-> IF d = h THEN 1 ELSE 0]

\* the domain whose management is paid for
Holder == IF mgr.acme # None \/ AcquiringACME THEN mgr.cfg.domain ELSE None

\* Wherever the loop is, exactly that context lives.
OneContext == loop.at # "down" => live = Counted(Holder)

LEMMA OneMore ==
    ASSUME NEW d \in Domains, live = Counted(None), live' = [live EXCEPT ![d] = @ + 1]
    PROVE  live' = Counted(d)
  BY NoneIsNoDomain DEF Counted

LEMMA OneLess ==
    ASSUME NEW d \in Domains, live = Counted(d), live' = [live EXCEPT ![d] = @ - 1]
    PROVE  live' = Counted(None)
  BY NoneIsNoDomain DEF Counted

LEMMA SameHolder ==
    ASSUME OneContext, UNCHANGED live, loop.at # "down", Holder' = Holder
    PROVE  OneContext'
  BY DEF OneContext, Counted

LEMMA ReconfiguredContext ==
    ASSUME TypeOK, Staged, OneContext, NEW cfg \in CertConfigs, Reconfigure(cfg),
           loop.at \in {"apply", "idle"}, loop'.at = "start"
    PROVE  OneContext'
<1>1. mgr'.cfg = cfg /\ mgr'.acme = IF MustTearDown(cfg) THEN None ELSE mgr.acme
  BY Typed, Reconfigured
<1>2. ~AcquiringACME /\ ~AcquiringACME'
  BY DEF AcquiringACME
<1>3. live = Counted(Holder)
  BY DEF OneContext
<1>4. CASE MustTearDown(cfg)
  <2>1. /\ mgr.acme = Fingerprint(mgr.cfg) /\ mgr.acme # None /\ mgr.cfg.domain \in Domains
        /\ live' = [live EXCEPT ![mgr.acme.domain] = @ - 1]
    BY <1>4 DEF MustTearDown, Staged, Reconfigure
  <2>2. mgr.acme.domain = mgr.cfg.domain
    BY <2>1 DEF Fingerprint
  <2>3. live' = Counted(None)
    BY <1>3, <2>1, <2>2, OneLess DEF Holder
  <2>4. Holder' = None
    BY <1>1, <1>2, <1>4 DEF Holder
  <2> QED BY <2>3, <2>4 DEF OneContext, Counted
<1>5. CASE ~MustTearDown(cfg)
  <2>1. Holder' = Holder
    <3>1. CASE mgr.acme # None
      <4>1. mgr.acme = Fingerprint(cfg) /\ mgr.acme = Fingerprint(mgr.cfg)
        BY <1>5, <3>1 DEF MustTearDown, Staged
      <4>2. cfg.domain = mgr.cfg.domain
        BY <4>1 DEF Fingerprint
      <4> QED BY <1>1, <1>5, <3>1, <4>2 DEF Holder
    <3>2. CASE mgr.acme = None
      BY <1>1, <1>2, <1>5, <3>2 DEF Holder
    <3> QED BY <3>1, <3>2
  <2>2. UNCHANGED live
    BY <1>5 DEF Reconfigure
  <2> QED BY <2>1, <2>2, SameHolder
<1> QED BY <1>4, <1>5

LEMMA StartContext == TypeOK /\ Staged /\ OneContext /\ Starting => OneContext'
<1> SUFFICES ASSUME TypeOK, Staged, OneContext, Starting PROVE OneContext'
  OBVIOUS
<1>1. ASSUME NothingStored \/ PairHeld, loop.at \in {"start", "persisted"} PROVE OneContext'
  <2>1. ~AcquiringACME /\ ~AcquiringACME' /\ UNCHANGED <<mgr, live>>
    BY <1>1 DEF NothingStored, PairHeld, Back, Held, AcquiringACME
  <2> QED BY <1>1, <2>1, SameHolder DEF Holder
<1>2. CASE StartPlain
  <2>1. CASE Looked
    <3>1. /\ loop.at = "start" /\ loop'.at = "persisted" /\ UNCHANGED <<mgr, live>>
          /\ ~AcquiringACME /\ ~AcquiringACME'
      BY <1>2, <2>1, StartPlainOutcomes DEF Looked, AcquiringACME
    <3> QED BY <3>1, SameHolder DEF Holder
  <2> QED BY <1>1, <1>2, <2>1, StartPlainOutcomes
<1>3. CASE LoadPersisted
  <2>1. loop.at = "persisted" /\ UNCHANGED live /\ ~AcquiringACME
    BY <1>3, LoadPersistedOutcomes DEF AcquiringACME
  <2>2. CASE Reused
    <3>1. mgr'.cfg = mgr.cfg /\ mgr'.acme = mgr.acme /\ ~AcquiringACME'
      BY <2>2, Typed DEF Reused, Back, Managers, AcquiringACME
    <3> QED BY <2>1, <3>1, SameHolder DEF Holder
  <2>3. CASE Fresh /\ UNCHANGED mgr
    BY <1>1, <2>1, <2>3, FreshOutcomes
  <2> QED BY <1>3, <2>2, <2>3, LoadPersistedOutcomes
<1>4. CASE Obtain
  <2>1. CASE Obtained
    <3>1. loop.at = "start" /\ mgr.acme = None /\ ~AcquiringACME
      BY <1>4, <2>1, ObtainOutcomes DEF Obtained, AcquiringACME
    <3>2. live = Counted(None)
      BY <3>1 DEF OneContext, Holder
    <3>3. live' = Counted(mgr.cfg.domain)
      BY <2>1, <3>2, OneMore DEF Obtained
    <3>4. Holder' = mgr.cfg.domain
      BY <2>1 DEF Obtained, Holder, AcquiringACME
    <3> QED BY <3>3, <3>4 DEF OneContext, Counted
  <2> QED BY <1>1, <1>4, <2>1, ObtainOutcomes
<1>5. CASE LoadObtained
  <2>1. /\ loop.at = "obtained" /\ UNCHANGED mgr /\ AcquiringACME /\ mgr.acme = None
        /\ mgr.cfg.domain \in Domains
    BY <1>5, LoadObtainedOutcomes DEF Staged, AcquiringACME
  <2>2. CASE Loaded
    <3>1. AcquiringACME'
      BY <2>1, <2>2 DEF Loaded, Held, AcquiringACME
    <3> QED BY <2>1, <2>2, <3>1, SameHolder DEF Loaded, Holder
  <2>3. CASE GivenUp
    <3>1. live = Counted(mgr.cfg.domain)
      BY <2>1 DEF OneContext, Holder
    <3>2. live' = Counted(None)
      BY <2>1, <2>3, <3>1, OneLess DEF GivenUp, Cancel
    <3>3. Holder' = None
      BY <2>1, <2>3 DEF GivenUp, Back, Holder, AcquiringACME
    <3> QED BY <3>2, <3>3 DEF OneContext, Counted
  <2> QED BY <1>5, <2>2, <2>3, LoadObtainedOutcomes
<1> QED BY <1>2, <1>3, <1>4, <1>5 DEF Starting

LEMMA StoreContext == TypeOK /\ Staged /\ OneContext /\ Persisting => OneContext'
<1> SUFFICES ASSUME TypeOK, Staged, OneContext, Persisting PROVE OneContext'
  OBVIOUS
<1>1. CASE StoreMat
  <2>1. UNCHANGED live
    BY <1>1 DEF StoreMat
  <2> QED BY <1>1, <2>1, Typed, Stored, SameHolder DEF Holder, AcquiringACME
<1>2. CASE StoreCert
  <2>1. loop.at = "cert" /\ loop'.at = "key" /\ UNCHANGED <<mgr, live>>
    BY <1>2, Typed, Gone DEF StoreCert, At
  <2> QED BY <2>1, SameHolder DEF Holder, AcquiringACME
<1>3. CASE StoreKey
  <2>1. loop.at = "key" /\ UNCHANGED <<mgr, live>>
    BY <1>3 DEF StoreKey, At
  <2>2. IF mgr.cfg.mode = "acme" THEN loop'.at = "manage" ELSE loop'.at = "apply"
    BY <1>3, Typed, Gone, Returned DEF StoreKey, Back
  <2> QED BY <2>1, <2>2, SameHolder DEF Holder, AcquiringACME
<1>4. CASE Manage
  <2>1. /\ loop.at = "manage" /\ loop'.at = "apply" /\ mgr'.cfg = mgr.cfg
        /\ AcquiringACME /\ ~AcquiringACME'
        /\ mgr.acme = None /\ mgr.cfg.domain \in Domains
    BY <1>4, Managed DEF Staged, AcquiringACME
  <2>2. CASE mgr'.acme = Fingerprint(mgr.cfg) /\ UNCHANGED live
    <3>1. mgr'.acme # None
      BY <1>4, <2>2, Managed
    <3> QED BY <2>1, <2>2, <3>1, SameHolder DEF Holder
  <2>3. CASE mgr'.acme = mgr.acme /\ Cancel
    <3>1. live = Counted(mgr.cfg.domain)
      BY <2>1 DEF OneContext, Holder
    <3>2. live' = Counted(None)
      BY <2>1, <2>3, <3>1, OneLess DEF Cancel
    <3>3. Holder' = None
      BY <2>1, <2>3 DEF Holder
    <3> QED BY <3>2, <3>3 DEF OneContext, Counted
  <2> QED BY <1>4, <2>2, <2>3, Managed
<1> QED BY <1>1, <1>2, <1>3, <1>4 DEF Persisting

LEMMA ServiceContext == TypeOK /\ Staged /\ OneContext /\ Serving => OneContext'
<1> SUFFICES ASSUME TypeOK, Staged, OneContext, Serving PROVE OneContext'
  OBVIOUS
<1>a. ASSUME NEW by \in {"run", "setup", "event"}, loop' = Loop("start", by),
             \E cfg \in Configs : Reconfigure(cfg), loop.at \in {"apply", "idle"}
      PROVE  OneContext'
  <2>1. loop'.at = "start"
    BY <1>a, LoopType
  <2> QED BY <1>a, <2>1, ReconfiguredContext, ConfigsAreCertConfigs
<1>b. ASSUME UNCHANGED <<mgr, live>>, loop.at \in {"apply", "idle"},
             loop'.at \in {"idle", "down"}
      PROVE  OneContext'
  BY <1>b, SameHolder DEF Holder, AcquiringACME
<1>c. Idle.at = "idle"
  BY LoopType DEF Idle
<1>1. CASE Boot \/ FirstStart \/ Apply
  <2>1. loop.at = "apply"
    BY <1>1 DEF Boot, FirstStart, Apply, At
  <2>2. CASE (Goto("down") \/ loop' = Idle) /\ UNCHANGED <<mgr, live>>
    <3>1. loop'.at \in {"down", "idle"}
      BY <1>c, <2>2, Typed, Gone
    <3> QED BY <1>b, <2>1, <2>2, <3>1
  <2> QED BY <1>1, <1>a, <2>1, <2>2 DEF Boot, FirstStart, Apply
<1>2. CASE SyncConfig \/ PollApplied
  <2>1. loop.at = "idle"
    BY <1>2 DEF SyncConfig, PollApplied, At
  <2> QED BY <1>2, <1>a, <1>b, <2>1 DEF SyncConfig, PollApplied
<1>3. CASE UpdateUsers \/ Poll \/ PollFails
  <2>1. UNCHANGED <<mgr, live, loop>>
    BY <1>3 DEF UpdateUsers, Poll, PollFails
  <2> QED BY <2>1 DEF OneContext, Holder, AcquiringACME, Counted
<1> QED BY <1>1, <1>2, <1>3 DEF Serving

LEMMA StepContext == TypeOK /\ Staged /\ OneContext /\ [Next]_vars => OneContext'
<1> SUFFICES ASSUME TypeOK, Staged, OneContext, [Next]_vars PROVE OneContext'
  OBVIOUS
<1>1. CASE Starting \/ Persisting \/ Serving
  BY <1>1, StartContext, StoreContext, ServiceContext
<1>2. CASE \E d \in Domains : RenewalOf(d)
  BY <1>2, RenewalLeaves, SameHolder DEF Holder, AcquiringACME
<1>3. CASE Crash
  <2>1. loop'.at = "down"
    BY <1>3, Typed, Gone DEF Crash
  <2> QED BY <2>1 DEF OneContext
<1>4. CASE Restart
  <2>1. Holder' = None
    BY <1>4, LoopType DEF Restart, Holder, AcquiringACME
  <2>2. live' = Counted(None)
    BY <1>4, NoneIsNoDomain DEF Restart, Counted
  <2> QED BY <2>1, <2>2 DEF OneContext, Counted
<1>5. CASE UNCHANGED vars
  BY <1>5 DEF vars, OneContext, Holder, AcquiringACME, Counted
<1> QED BY <1>1, <1>2, <1>3, <1>4, <1>5, Steps

\* At rest the one context of ManageAsync that lives is for the domain of the
\* configuration, if that is ACME and started without an error, through every
\* change of domain and mode, start that fails half-way, and restart.
THEOREM ContextsFollow == Spec => []AcmeFollowsConfig
<1>1. Init => OneContext
  <2> SUFFICES ASSUME Init PROVE OneContext
    OBVIOUS
  <2>1. Holder = None
    BY LoopType DEF Init, Holder, AcquiringACME
  <2>2. live = Counted(None)
    BY NoneIsNoDomain DEF Init, Counted
  <2> QED BY <2>1, <2>2 DEF OneContext, Counted
<1>2. TypeOK /\ Staged /\ OneContext /\ [Next]_vars => OneContext'
  BY StepContext
<1>3. Staged /\ OneContext => AcmeFollowsConfig
  <2> SUFFICES ASSUME Staged, OneContext, loop.at = "idle"
               PROVE  live = [d \in Domains |-> IF ~fault.start /\ mgr.cfg.mode = "acme"
                                                   /\ mgr.cfg.domain = d THEN 1 ELSE 0]
    BY DEF AcmeFollowsConfig, At
  <2>1. live = Counted(Holder) /\ ~AcquiringACME
    BY DEF OneContext, AcquiringACME
  <2>2. mgr.acme # None <=> ~fault.start /\ mgr.cfg.mode = "acme"
    BY DEF Staged
  <2> QED BY <2>1, <2>2, NoneIsNoDomain DEF Holder, Counted
<1> QED BY <1>1, <1>2, <1>3, WellStaged, PTL DEF Spec

-----------------------------------------------------------------------------
(* The material is the configuration's *)

\* Start has stored what this configuration asks for.
Settled ==
    \/ loop.at \in {"cert", "key", "manage"}
    \/ loop.at \in {"apply", "idle"} /\ ~fault.start
    \/ mgr.acme # None

NamesSource(cfg) == cfg.mode = "acme" \/ NamesPEM(cfg)

\* Whoever stored last, a renewal included, stored for this configuration,
\* and those who are about to store hold what they should.
Sourced ==
    /\ Settled /\ ~fault.stray /\ NamesSource(mgr.cfg) =>
           \E p \in Sources(mgr.cfg) : mgr.mat = Material(p)
    /\ loop.at = "store" => loop.pair \in Sources(mgr.cfg)
    /\ \A d \in Domains : renewer[d].at = "store" =>
           renewer[d].pair \in Pairs \cap Certificates(renewer[d].domain)

LEMMA SourcedFrame ==
    ASSUME Sourced, mgr'.cfg = mgr.cfg, mgr'.mat = mgr.mat, UNCHANGED renewer,
           fault'.stray = fault.stray, Settled' => Settled, loop'.at # "store"
    PROVE  Sourced'
  BY DEF Sourced

\* After Reconfigure there is a promise to keep only if ACME goes on.
LEMMA ReconfiguredSource ==
    ASSUME TypeOK, Staged, Sourced, NEW cfg \in CertConfigs, Reconfigure(cfg),
           loop'.at = "start", UNCHANGED <<renewer, fault>>
    PROVE  Sourced'
<1>1. mgr'.cfg = cfg /\ mgr'.acme = IF MustTearDown(cfg) THEN None ELSE mgr.acme
  BY Typed, Reconfigured
<1>2. ASSUME mgr'.acme # None, ~fault.stray
      PROVE  \E p \in Sources(mgr'.cfg) : mgr'.mat = Material(p)
  <2>1. ~MustTearDown(cfg) /\ mgr.acme # None
    BY <1>1, <1>2
  <2>2. mgr'.mat = mgr.mat
    BY <2>1, Typed, Reconfigured
  <2>3. mgr.acme = Fingerprint(mgr.cfg) /\ mgr.acme = Fingerprint(cfg)
        /\ mgr.cfg.mode = "acme" /\ cfg.mode = "acme"
    BY <2>1 DEF MustTearDown, Staged
  <2>4. cfg.domain = mgr.cfg.domain
    BY <2>3 DEF Fingerprint
  <2>5. Sources(cfg) = Sources(mgr.cfg)
    BY <2>3, <2>4 DEF Sources, NamesPEM
  <2> QED BY <1>1, <1>2, <2>1, <2>2, <2>3, <2>5 DEF Sourced, Settled, NamesSource
<1>3. Settled' => mgr'.acme # None
  BY DEF Settled
<1> QED BY <1>2, <1>3 DEF Sourced

LEMMA StartSource == TypeOK /\ Staged /\ Sourced /\ Starting => Sourced'
<1> SUFFICES ASSUME TypeOK, Staged, Sourced, Starting PROVE Sourced'
  OBVIOUS
<1>a. UNCHANGED renewer
  BY DEF Starting, StartPlain, LoadPersisted, Obtain, LoadObtained
<1>1. ASSUME NothingStored PROVE Sourced'
  <2>1. loop'.at = "apply" /\ UNCHANGED mgr /\ fault'.stray = fault.stray
    BY <1>1 DEF NothingStored, Back
  <2>2. Settled' => Settled \/ ~NamesSource(mgr.cfg)
    BY <1>1, <2>1 DEF NothingStored, Settled, NamesSource, NamesPEM
  <2> QED BY <1>a, <2>1, <2>2 DEF Sourced
<1>2. ASSUME PairHeld PROVE Sourced'
  <2>1. /\ loop'.at = "store" /\ loop'.pair \in Sources(mgr.cfg) /\ UNCHANGED mgr
        /\ mgr.cfg.mode # "acme"
    BY <1>2 DEF PairHeld, Held
  <2>2. ~Settled'
    BY <2>1 DEF Settled, Staged
  <2> QED BY <1>a, <2>1, <2>2 DEF Sourced
<1>3. CASE StartPlain
  <2>1. CASE Looked
    <3>1. loop'.at = "persisted" /\ UNCHANGED <<mgr, fault>> /\ ~NamesSource(mgr.cfg)
      BY <2>1 DEF Looked, NamesSource
    <3> QED BY <1>a, <3>1 DEF Sourced
  <2> QED BY <1>1, <1>2, <1>3, <2>1, StartPlainOutcomes
<1>4. CASE LoadPersisted
  <2>1. CASE Reused
    <3>1. mgr'.cfg = mgr.cfg /\ loop'.at = "apply"
      BY <2>1, Typed DEF Reused, Back, Managers
    <3>2. ~NamesSource(mgr.cfg)
      BY <1>4, LoadPersistedOutcomes DEF Staged, NamesSource
    <3> QED BY <1>a, <3>1, <3>2 DEF Sourced
  <2>2. CASE Fresh /\ UNCHANGED mgr
    <3>1. UNCHANGED live
      BY <1>4 DEF LoadPersisted
    <3> QED BY <1>1, <1>2, <2>2, <3>1, FreshOutcomes
  <2> QED BY <1>4, <2>1, <2>2, LoadPersistedOutcomes
<1>5. CASE Obtain
  <2>1. CASE Obtained
    <3>1. loop'.at = "obtained" /\ UNCHANGED <<mgr, fault>> /\ ~Settled'
      BY <2>1 DEF Obtained, Settled
    <3> QED BY <1>a, <3>1 DEF Sourced
  <2> QED BY <1>1, <1>5, <2>1, ObtainOutcomes
<1>6. CASE LoadObtained
  <2>1. UNCHANGED mgr /\ mgr.acme = None
    BY <1>6, LoadObtainedOutcomes DEF Staged, AcquiringACME
  <2>2. CASE Loaded
    <3>1. loop'.at = "store" /\ loop'.pair \in Sources(mgr.cfg) /\ ~Settled'
      BY <1>6, <2>1, <2>2, LoadObtainedOutcomes DEF Loaded, Held, Settled
    <3> QED BY <1>a, <2>1, <3>1 DEF Sourced
  <2>3. CASE GivenUp
    <3>1. loop'.at = "apply" /\ ~Settled'
      BY <2>1, <2>3 DEF GivenUp, Back, Settled
    <3> QED BY <1>a, <2>1, <3>1 DEF Sourced
  <2> QED BY <1>6, <2>2, <2>3, LoadObtainedOutcomes
<1> QED BY <1>3, <1>4, <1>5, <1>6 DEF Starting

LEMMA StoreSource == TypeOK /\ Staged /\ Sourced /\ Persisting => Sourced'
<1> SUFFICES ASSUME TypeOK, Staged, Sourced, Persisting PROVE Sourced'
  OBVIOUS
<1>1. CASE StoreMat
  <2>1. /\ loop.at = "store" /\ loop'.at = "cert" /\ mgr'.cfg = mgr.cfg
        /\ mgr'.mat = Material(loop.pair)
    BY <1>1, Typed, Stored
  <2>2. UNCHANGED renewer
    BY <1>1 DEF StoreMat
  <2> QED BY <2>1, <2>2 DEF Sourced
<1>2. CASE StoreCert
  <2>1. loop.at = "cert" /\ loop'.at = "key" /\ UNCHANGED <<mgr, renewer, fault>>
    BY <1>2, Typed, Gone DEF StoreCert, At
  <2> QED BY <2>1, SourcedFrame DEF Settled
<1>3. CASE StoreKey
  <2>1. loop.at = "key" /\ UNCHANGED <<mgr, renewer>>
    BY <1>3 DEF StoreKey, At
  <2>2. loop'.at \in {"manage", "apply"} /\ fault'.stray = fault.stray
    BY <1>3, Typed, Gone, Returned DEF StoreKey, Back
  <2> QED BY <2>1, <2>2, SourcedFrame DEF Settled
<1>4. CASE Manage
  <2>1. UNCHANGED renewer
    BY <1>4 DEF Manage
  <2> QED BY <1>4, <2>1, Managed, SourcedFrame DEF Settled
<1> QED BY <1>1, <1>2, <1>3, <1>4 DEF Persisting

LEMMA ServiceSource == TypeOK /\ Staged /\ Sourced /\ Serving => Sourced'
<1> SUFFICES ASSUME TypeOK, Staged, Sourced, Serving PROVE Sourced'
  OBVIOUS
<1>a. UNCHANGED renewer
  BY DEF Serving, Boot, FirstStart, Apply, SyncConfig, UpdateUsers, Poll, PollFails, PollApplied
<1>b. ASSUME NEW by \in {"run", "setup", "event"}, loop' = Loop("start", by),
             \E cfg \in Configs : Reconfigure(cfg), UNCHANGED fault
      PROVE  Sourced'
  <2>1. loop'.at = "start"
    BY <1>b, LoopType
  <2> QED BY <1>a, <1>b, <2>1, ReconfiguredSource, ConfigsAreCertConfigs
<1>c. ASSUME UNCHANGED mgr, fault'.start = fault.start, fault'.stray = fault.stray,
             loop.at \in {"apply", "idle"}, loop'.at \in {"idle", "down"}
      PROVE  Sourced'
  BY <1>a, <1>c, SourcedFrame DEF Settled
<1>d. Idle.at = "idle"
  BY LoopType DEF Idle
<1>1. CASE Boot
  <2>1. loop.at = "apply" /\ UNCHANGED fault
    BY <1>1 DEF Boot, At
  <2>2. CASE (Goto("down") \/ loop' = Idle) /\ UNCHANGED mgr
    <3>1. loop'.at \in {"down", "idle"}
      BY <1>d, <2>2, Typed, Gone
    <3> QED BY <1>c, <2>1, <2>2, <3>1
  <2> QED BY <1>1, <1>b, <2>1, <2>2 DEF Boot
<1>2. CASE FirstStart \/ Apply
  <2>1. loop.at = "apply" /\ UNCHANGED mgr /\ loop'.at \in {"down", "idle"}
    BY <1>2, <1>d, Typed, Gone DEF FirstStart, Apply, At
  <2>2. fault'.start = fault.start /\ fault'.stray = fault.stray
    BY <1>2, TakenOrKept DEF FirstStart, Apply
  <2> QED BY <1>c, <2>1, <2>2
<1>3. CASE SyncConfig
  BY <1>3, <1>b DEF SyncConfig
<1>4. CASE UpdateUsers \/ Poll \/ PollFails
  <2>1. UNCHANGED <<mgr, loop>>
    BY <1>4 DEF UpdateUsers, Poll, PollFails
  <2>2. fault'.start = fault.start /\ fault'.stray = fault.stray
    BY <1>4, Typed, TakenOrKept DEF UpdateUsers, Poll, PollFails, Faults
  <2> QED BY <1>a, <2>1, <2>2 DEF Sourced, Settled
<1>5. CASE PollApplied
  <2>1. CASE ApplyChanges /\ UNCHANGED <<mgr, loop>>
    <3>1. loop.at = "idle" /\ fault'.start = fault.start /\ fault'.stray = fault.stray
      BY <1>5, <2>1, TakenOrKept DEF PollApplied, At
    <3> QED BY <1>c, <2>1, <3>1
  <2> QED BY <1>5, <1>b, <2>1 DEF PollApplied
<1> QED BY <1>1, <1>2, <1>3, <1>4, <1>5 DEF Serving

\* A renewal stores the certificate of the domain it read; if the
\* configuration is another one by now, it is a stray one.
LEMMA RenewalSource ==
    ASSUME TypeOK, Sourced, NEW d \in Domains, RenewalOf(d)
    PROVE  Sourced'
<1>a. renewer \in Renewers /\ renewer[d] \in Renewal
  BY Typed DEF Renewers
<1>b. /\ UNCHANGED loop /\ mgr'.cfg = mgr.cfg /\ mgr'.acme = mgr.acme
      /\ fault'.start = fault.start /\ (Settled' <=> Settled)
  BY RenewalLeaves DEF Settled
<1>1. CASE Renew(d) \/ RenewCert(d) \/ RenewKey(d)
  <2>1. UNCHANGED <<mgr, fault>> /\ renewer'[d].at # "store"
        /\ \A e \in Domains \ {d} : renewer'[e] = renewer[e]
    BY <1>1, <1>a, RenewalStep DEF Renew, RenewCert, RenewKey
  <2> QED BY <1>b, <2>1 DEF Sourced
<1>2. CASE RenewRead(d) \/ RenewFlag(d)
  <2>1. UNCHANGED <<mgr, fault>> /\ renewer'[d].at # "store"
        /\ \A e \in Domains \ {d} : renewer'[e] = renewer[e]
    BY <1>2, <1>a, NoRenewalType DEF RenewRead, RenewFlag, Renewers, Renewal
  <2> QED BY <1>b, <2>1 DEF Sourced
<1>3. CASE RenewLoad(d)
  <2> DEFINE e == renewer[d].domain
             p == Pair("acme", e, storage[e])
  <2>1. UNCHANGED <<mgr, fault>>
    BY <1>3 DEF RenewLoad
  <2>2. CASE renewer' = [renewer EXCEPT ![d] = NoRenewal]
    <3>1. renewer'[d].at # "store" /\ \A f \in Domains \ {d} : renewer'[f] = renewer[f]
      BY <1>a, <2>2, NoRenewalType DEF Renewers
    <3> QED BY <1>b, <2>1, <3>1 DEF Sourced
  <2>3. CASE /\ e # None /\ storage[e] # 0
             /\ renewer' = [renewer EXCEPT ![d].at = "store", ![d].pair = p]
    <3>1. e \in Domains
      BY <1>a, <2>3 DEF Renewal
    <3>2. storage[e] \in 1..MaxIssued
      BY <2>3, <3>1, Typed, Bounds
    <3>3. p \in Pairs \cap Certificates(e)
      BY <3>1, <3>2, Bounds, PairType DEF Certificates
    <3>4. /\ renewer'[d].pair = p /\ renewer'[d].domain = e
          /\ \A f \in Domains \ {d} : renewer'[f] = renewer[f]
      <4> HIDE DEF p
      <4> QED BY <1>a, <2>3 DEF Renewers, Renewal
    <3>5. renewer'[d].pair \in Pairs \cap Certificates(renewer'[d].domain)
      BY <3>3, <3>4
    <3> HIDE DEF p, e
    <3> QED BY <1>b, <2>1, <3>4, <3>5 DEF Sourced
  <2> QED BY <1>3, <2>2, <2>3 DEF RenewLoad
<1>4. CASE RenewStore(d)
  <2>1. /\ renewer[d].at = "store" /\ renewer'[d].at = "cert"
        /\ \A e \in Domains \ {d} : renewer'[e] = renewer[e]
    BY <1>4, <1>a, RenewalStep DEF RenewStore
  <2>2. mgr'.mat = Material(renewer[d].pair)
    BY <1>4, Typed DEF RenewStore, Managers
  <2>3. ~fault'.stray => mgr.cfg.mode = "acme" /\ mgr.cfg.domain = renewer[d].domain
    BY <1>4, Typed DEF RenewStore, Faults
  <2>4. ~fault'.stray => renewer[d].pair \in Sources(mgr.cfg)
    BY <2>1, <2>3 DEF Sourced, Sources, NamesPEM
  <2> QED BY <1>b, <2>1, <2>2, <2>4 DEF Sourced
<1> QED BY <1>1, <1>2, <1>3, <1>4 DEF RenewalOf

LEMMA StepSource == TypeOK /\ Staged /\ Sourced /\ [Next]_vars => Sourced'
<1> SUFFICES ASSUME TypeOK, Staged, Sourced, [Next]_vars PROVE Sourced'
  OBVIOUS
<1>1. CASE Starting \/ Persisting \/ Serving
  BY <1>1, StartSource, StoreSource, ServiceSource
<1>2. CASE \E d \in Domains : RenewalOf(d)
  BY <1>2, RenewalSource
<1>3. CASE Crash
  <2>1. loop'.at = "down" /\ UNCHANGED <<mgr, renewer, fault>>
    BY <1>3, Typed, Gone DEF Crash
  <2> QED BY <2>1, SourcedFrame DEF Settled
<1>4. CASE Restart
  <2>1. loop'.at = "start" /\ mgr'.acme = None
    BY <1>4, LoopType DEF Restart
  <2>2. \A d \in Domains : renewer'[d].at # "store"
    BY <1>4, NoRenewalType DEF Restart
  <2> QED BY <2>1, <2>2 DEF Sourced, Settled
<1>5. CASE UNCHANGED vars
  BY <1>5 DEF vars, Sourced, Settled
<1> QED BY <1>1, <1>2, <1>3, <1>4, <1>5, Steps

\* At rest, after a configuration that names its source was applied without an
\* error, the material comes from there, unless a renewal that was about
\* another configuration was the last to store.
THEOREM MaterialIsConfigured == Spec => []MaterialFollowsConfig
<1>1. Init => Sourced
  BY LoopType, NoRenewalType DEF Init, Sourced, Settled
<1>2. TypeOK /\ Staged /\ Sourced /\ [Next]_vars => Sourced'
  BY StepSource
<1>3. Sourced => MaterialFollowsConfig
  <2> SUFFICES ASSUME Sourced, loop.at = "idle", ~fault.start, ~fault.stray PROVE FromConfig
    BY DEF MaterialFollowsConfig, At
  <2>1. ASSUME NamesSource(mgr.cfg)
        PROVE  \E p \in Sources(mgr.cfg) : mgr.mat = Material(p)
    BY <2>1 DEF Sourced, Settled
  <2>2. ASSUME mgr.cfg.mode = "acme"
        PROVE  \E n \in 1..MaxIssued : mgr.mat = Material(Pair("acme", mgr.cfg.domain, n))
    <3>1. PICK p \in Sources(mgr.cfg) : mgr.mat = Material(p)
      BY <2>1, <2>2 DEF NamesSource
    <3>2. p \in Certificates(mgr.cfg.domain)
      BY <2>2 DEF Sources
    <3> QED BY <3>1, <3>2 DEF Certificates
  <2>3. ASSUME NamesPEM(mgr.cfg)
        PROVE  mgr.mat = Material(Pair(mgr.cfg.mode, mgr.cfg.pem, 0))
    BY <2>1, <2>3 DEF NamesSource, Sources
  <2> QED BY <2>2, <2>3 DEF FromConfig, NamesPEM
<1> QED BY <1>1, <1>2, <1>3, WellStaged, PTL DEF Spec

-----------------------------------------------------------------------------
(* The kernel catches up *)

\* While the service starts there is no kernel.
NoKernelYet == loop.by # "event" => kernel = None /\ loop.at # "idle"

\* Somebody knows that the kernel has to catch up.
Known ==
    \/ renewed \/ pull \/ fault.poll \/ fault.kernel
    \/ \E d \in Domains : renewer[d].at \in {"cert", "key", "flag"}

CatchesUp == loop.at = "idle" /\ kernel # None /\ kernel # mgr.mat => Known

LEMMA ServiceCatchesUp ==
    TypeOK /\ NoKernelYet /\ CatchesUp /\ Serving => NoKernelYet' /\ CatchesUp'
<1> SUFFICES ASSUME TypeOK, NoKernelYet, CatchesUp, Serving PROVE NoKernelYet' /\ CatchesUp'
  OBVIOUS
<1>a. /\ Idle.by = "event"
      /\ Loop("start", "setup").at = "start" /\ Loop("start", "event").at = "start"
      /\ Loop("start", "event").by = "event"
  BY LoopType DEF Idle
<1>1. CASE Boot
  <2>1. kernel = None /\ kernel' = None
    BY <1>1 DEF Boot, NoKernelYet
  <2>2. loop'.at \in {"down", "start"} \/ loop'.by = "event"
    BY <1>1, <1>a, Typed, Gone DEF Boot
  <2> QED BY <2>1, <2>2 DEF NoKernelYet, CatchesUp
<1>2. CASE FirstStart
  <2>1. kernel = None /\ UNCHANGED mgr /\ loop.by = "setup"
    BY <1>2 DEF FirstStart, NoKernelYet
  <2>2. CASE loop' = Idle /\ TakeMaterial
    BY <1>a, <2>1, <2>2 DEF TakeMaterial, NoKernelYet, CatchesUp
  <2>3. CASE Goto("down") /\ KeepMaterial
    <3>1. loop'.at = "down" /\ kernel' = None
      BY <2>1, <2>3, Typed, Gone DEF KeepMaterial
    <3> QED BY <3>1 DEF NoKernelYet, CatchesUp
  <2> QED BY <1>2, <2>2, <2>3 DEF FirstStart
<1>3. CASE Apply
  <2>1. loop'.by = "event" /\ UNCHANGED mgr
    BY <1>3, <1>a DEF Apply
  <2>2. kernel' \in {mgr.mat, None} \/ fault'.kernel
    BY <1>3, TakenOrKept DEF Apply
  <2> QED BY <2>1, <2>2 DEF NoKernelYet, CatchesUp, Known
<1>4. CASE SyncConfig
  BY <1>4, <1>a DEF SyncConfig, NoKernelYet, CatchesUp
<1>5. CASE UpdateUsers
  <2>1. UNCHANGED <<mgr, renewer, renewed, loop, pull>> /\ loop.by = "event"
    BY <1>5 DEF UpdateUsers, At, NoKernelYet
  <2>2. UNCHANGED <<kernel, fault>> \/ kernel' \in {mgr.mat, None} \/ fault'.kernel
    BY <1>5, TakenOrKept DEF UpdateUsers
  <2> QED BY <2>1, <2>2 DEF NoKernelYet, CatchesUp, Known
<1>6. CASE Poll
  BY <1>6 DEF Poll, NoKernelYet, CatchesUp, Known
<1>7. CASE PollFails
  <2>1. fault'.poll
    BY <1>7, Typed DEF PollFails, Faults
  <2> QED BY <1>7, <2>1 DEF PollFails, NoKernelYet, CatchesUp, Known
<1>8. CASE PollApplied
  <2>1. CASE ApplyChanges /\ UNCHANGED <<mgr, loop>>
    <3>1. kernel' \in {mgr.mat, None} \/ fault'.kernel
      BY <2>1, TakenOrKept
    <3>2. loop.by = "event"
      BY <1>8 DEF PollApplied, At, NoKernelYet
    <3> QED BY <2>1, <3>1, <3>2 DEF NoKernelYet, CatchesUp, Known
  <2>2. CASE loop' = Loop("start", "event")
    BY <1>a, <2>2 DEF NoKernelYet, CatchesUp
  <2> QED BY <1>8, <2>1, <2>2 DEF PollApplied
<1> QED BY <1>1, <1>2, <1>3, <1>4, <1>5, <1>6, <1>7, <1>8 DEF Serving

LEMMA StepCatchesUp ==
    TypeOK /\ Staged /\ NoKernelYet /\ CatchesUp /\ [Next]_vars => NoKernelYet' /\ CatchesUp'
<1> SUFFICES ASSUME TypeOK, Staged, NoKernelYet, CatchesUp, [Next]_vars
             PROVE  NoKernelYet' /\ CatchesUp'
  OBVIOUS
<1>1. CASE Starting
  <2>1. UNCHANGED kernel
    BY <1>1 DEF Starting, StartPlain, LoadPersisted, Obtain, LoadObtained
  <2>2. loop'.by = loop.by /\ loop'.at # "idle"
    <3>1. CASE LoadPersisted
      <4>1. CASE Fresh /\ UNCHANGED mgr
        <5>1. UNCHANGED live
          BY <3>1 DEF LoadPersisted
        <5> QED BY <4>1, <5>1, FreshOutcomes DEF NothingStored, PairHeld, Back, Held
      <4> QED BY <3>1, <4>1, LoadPersistedOutcomes DEF Reused, Back
    <3>2. CASE StartPlain \/ Obtain \/ LoadObtained
      BY <3>2, StartPlainOutcomes, ObtainOutcomes, LoadObtainedOutcomes
         DEF NothingStored, PairHeld, Looked, Obtained, Loaded, GivenUp, Back, Held
    <3> QED BY <1>1, <3>1, <3>2 DEF Starting
  <2> QED BY <2>1, <2>2 DEF NoKernelYet, CatchesUp
<1>2. CASE Persisting
  <2>1. loop'.by = loop.by /\ loop'.at \in {"cert", "key", "manage", "apply"}
    BY <1>2, Typed, Stored, Gone, Returned, Managed DEF Persisting, StoreCert, StoreKey, Back
  <2>2. UNCHANGED kernel
    BY <1>2 DEF Persisting, StoreMat, StoreCert, StoreKey, Manage
  <2> QED BY <2>1, <2>2 DEF NoKernelYet, CatchesUp
<1>3. CASE Serving
  BY <1>3, ServiceCatchesUp
<1>4. ASSUME NEW d \in Domains, RenewalOf(d) PROVE NoKernelYet' /\ CatchesUp'
  <2>1. /\ UNCHANGED <<loop, kernel, pull>>
        /\ fault'.poll = fault.poll /\ fault'.kernel = fault.kernel
    BY <1>4, RenewalLeaves
  <2>a. renewer \in Renewers /\ renewer[d] \in Renewal
    BY Typed DEF Renewers
  <2>2. CASE Renew(d) \/ RenewRead(d) \/ RenewLoad(d)
    <3>1. renewer[d].at \notin {"cert", "key", "flag"} /\ UNCHANGED <<mgr, renewed>>
      BY <2>2 DEF Renew, RenewRead, RenewLoad, Renewing
    <3>2. \A e \in Domains \ {d} : renewer'[e] = renewer[e]
      BY <2>2, <2>a DEF Renew, RenewRead, RenewLoad, Renewing, Renewers
    <3> QED BY <2>1, <3>1, <3>2 DEF NoKernelYet, CatchesUp, Known
  <2>3. CASE RenewStore(d) \/ RenewCert(d) \/ RenewKey(d) \/ RenewFlag(d)
    <3>1. renewer'[d].at \in {"cert", "key", "flag"} \/ renewed'
      BY <2>3, <2>a, RenewalStep DEF RenewStore, RenewCert, RenewKey, RenewFlag
    <3> QED BY <2>1, <3>1 DEF NoKernelYet, CatchesUp, Known
  <2> QED BY <1>4, <2>2, <2>3 DEF RenewalOf
<1>5. CASE Crash
  <2>1. loop'.at = "down" /\ UNCHANGED kernel /\ loop'.by = loop.by
    BY <1>5, Typed, Gone DEF Crash
  <2> QED BY <2>1 DEF NoKernelYet, CatchesUp
<1>6. CASE Restart
  BY <1>6, LoopType DEF Restart, NoKernelYet, CatchesUp
<1>7. CASE UNCHANGED vars
  BY <1>7 DEF vars, NoKernelYet, CatchesUp, Known
<1> QED BY <1>1, <1>2, <1>3, <1>4, <1>5, <1>6, <1>7, Steps

\* At rest the kernel has the manager's material, or somebody knows that it has
\* not; only a failed poll and a failed restart forget.
THEOREM KernelIsCaughtUp == Spec => []KernelCatchesUp
<1>1. Init => NoKernelYet /\ CatchesUp
  BY LoopType DEF Init, NoKernelYet, CatchesUp
<1>2. TypeOK /\ Staged /\ NoKernelYet /\ CatchesUp /\ [Next]_vars => NoKernelYet' /\ CatchesUp'
  BY StepCatchesUp
<1>3. CatchesUp => KernelCatchesUp
  BY DEF CatchesUp, Known, KernelCatchesUp, At
<1> QED BY <1>1, <1>2, <1>3, WellStaged, PTL DEF Spec
=============================================================================
