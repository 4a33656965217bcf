---------------------------- MODULE Reload_proofs ----------------------------
(***************************************************************************)
(* Theorems about Reload and ProcessLayout, for any number of nodes and    *)
(* instances, any file contents and any number of changes, signals and     *)
(* failures.                                                               *)
(***************************************************************************)
EXTENDS ProcessLayout, TLAPS

\* All assumptions on the constants.
LEMMA Constants ==
    /\ None \notin Versions /\ Invalid \subseteq Versions /\ Misfits \subseteq Versions
    /\ Nameless \subseteq Misfits
    /\ \A v \in Versions \ (Invalid \cup Misfits) :
          /\ Serving[v] \subseteq Nodes /\ Serving[v] # {}
          /\ Room[v] \in Nat /\ Room[v] > 0 /\ Health[v] \in Nat
    /\ MaxWrites \in Nat /\ MaxSignals \in Nat /\ MaxFailures \in Nat
  BY VersionsAreSorted, LayoutsServe, BoundsAreCounts

Watches == [on : BOOLEAN, armed : BOOLEAN, loaded : (Versions \ Invalid) \cup {None}]

Signals == [notify : BOOLEAN, pending : BOOLEAN, listening : BOOLEAN]

Ghosts == [asked : BOOLEAN, swallowed : BOOLEAN, missed : BOOLEAN, failed : BOOLEAN,
           taken : BOOLEAN]

Healths == [port : Nat, on : BOOLEAN]

Counters == [writes : 0..MaxWrites, signals : 0..MaxSignals, failures : 0..MaxFailures]

LEMMA InitTypeOK == Init => TypeOK
<1> SUFFICES ASSUME Init PROVE TypeOK
  OBVIOUS
<1>1. /\ file \in Versions /\ cancelled \in BOOLEAN /\ killer \in BOOLEAN
      /\ node \in [Nodes -> {"delayed", "starting", "up", "blocked", "done"}]
      /\ reloadCh \in (Versions \ Invalid) \cup {None}
  BY Constants DEF Init
<1>2. watch \in Watches
  BY DEF Init, NoWatch, Watches
<1>3. signal \in Signals
  BY DEF Init, NoSignal, Signals
<1>4. ghost \in Ghosts
  BY DEF Init, Ghosts
<1>5. used \in Counters
  BY Constants DEF Init, Counters
<1>6. main \in [at : {"loop", "launch", "wait", "drain", "stop", "exit"},
               root : Versions \ Invalid, next : (Versions \ Invalid) \cup {None}]
      /\ main.at = "loop"
  BY Constants DEF Init
<1>7. errs \in Nat /\ health \in Healths
  BY Constants DEF Init, Healths
<1> QED BY <1>1, <1>2, <1>3, <1>4, <1>5, <1>6, <1>7
        DEF TypeOK, Watches, Signals, Ghosts, Counters, Healths

LEMMA MainKeepsTypes ==
    TypeOK /\ (BeginRound \/ Launch \/ PortTaken \/ TakeReload \/ AllDone \/ EndRound) => TypeOK'
<1> SUFFICES ASSUME TypeOK, BeginRound \/ Launch \/ PortTaken \/ TakeReload \/ AllDone \/ EndRound
             PROVE  TypeOK'
  OBVIOUS
<1>1. CASE BeginRound
  <2>1. watch' \in Watches
    <3>1. watch' = NoWatch \/ watch' = [NoWatch EXCEPT !.on = TRUE]
      BY <1>1 DEF BeginRound
    <3>2. NoWatch \in Watches
      BY DEF NoWatch, Watches
    <3> QED BY <3>1, <3>2 DEF Watches
  <2>2. signal' \in Signals
    BY <1>1 DEF BeginRound, Signals
  <2>3. main' = [main EXCEPT !.at = "launch"] /\ reloadCh' = None /\ cancelled' = FALSE
    BY <1>1 DEF BeginRound, Goto
  <2> QED BY <1>1, <2>1, <2>2, <2>3, Constants DEF TypeOK, BeginRound, Watches, Signals
<1>2. CASE Launch
  <2>1. health' \in Healths
    <3>1. CASE Fits(main.root)
      <4>1. Health[main.root] \in Nat /\ health \in Healths
        BY <3>1, Constants DEF TypeOK, Fits, Healths
      <4>2. \A port \in Nat : HealthAt(port) \in Healths
        BY <4>1 DEF HealthAt, Healths
      <4> QED BY <1>2, <3>1, <4>1, <4>2 DEF Launch
    <3>2. CASE ~Fits(main.root)
      BY <1>2, <3>2 DEF TypeOK, Launch, Healths
    <3> QED BY <3>1, <3>2
  <2> QED BY <1>2, <2>1, Constants DEF TypeOK, Launch, At, Goto, Fits, Healths
<1>3. CASE TakeReload
  <2>1. main' = [main EXCEPT !.at = "drain", !.next = reloadCh] /\ main.at = "wait"
    BY <1>3 DEF TakeReload, At
  <2>2. UNCHANGED <<file, node, health, errs, watch, signal, killer, ghost, used>>
    BY <1>3 DEF TakeReload
  <2>3. cancelled' = TRUE /\ reloadCh' = None
    BY <1>3 DEF TakeReload
  <2>4. main' \in [at : {"loop", "launch", "wait", "drain", "stop", "exit"},
                   root : Versions \ Invalid, next : (Versions \ Invalid) \cup {None}]
    BY <2>1 DEF TypeOK
  <2>5. main'.root = main.root /\ main.root \notin Misfits /\ errs <= Room[main.root]
    BY <2>1 DEF TypeOK
  <2> QED BY <2>2, <2>3, <2>4, <2>5 DEF TypeOK
<1>4. CASE AllDone
  BY <1>4, Constants DEF TypeOK, AllDone, At, Goto
<1>5. CASE EndRound
  BY <1>5, Constants DEF TypeOK, EndRound, At, NoSignal, NoWatch
<1>6. CASE PortTaken
  <2>1. ghost' \in Ghosts
    BY <1>6 DEF TypeOK, PortTaken, Ghosts
  <2>2. used' \in Counters
    BY <1>6, Constants DEF TypeOK, PortTaken, Counters
  <2>3. health' \in Healths
    BY <1>6 DEF TypeOK, PortTaken, Healths
  <2>4. main' = [main EXCEPT !.at = "exit"]
    BY <1>6 DEF PortTaken, Goto
  <2> QED BY <1>6, <2>1, <2>2, <2>3, <2>4 DEF TypeOK, PortTaken, Ghosts, Counters, Healths
<1> QED BY <1>1, <1>2, <1>3, <1>4, <1>5, <1>6

LEMMA NodesKeepTypes ==
    ASSUME TypeOK, NEW n \in Nodes, Begin(n) \/ Started(n) \/ Fails(n) \/ Finish(n)
    PROVE  TypeOK'
<1>1. CASE Begin(n)
  BY <1>1 DEF TypeOK, Begin
<1>2. CASE Started(n)
  BY <1>2 DEF TypeOK, Started
<1>3. CASE Fails(n)
  <2>1. ghost' \in Ghosts
    BY <1>3 DEF TypeOK, Fails, Ghosts
  <2>2. used' \in Counters
    BY <1>3, Constants DEF TypeOK, Fails, Counters
  <2>3. /\ errs' \in Nat
        /\ main.at \in {"wait", "drain", "stop"} => errs' <= Room[main.root]
    BY <1>3, Constants DEF TypeOK, Fails
  <2>4. node' \in [Nodes -> {"delayed", "starting", "up", "blocked", "done"}]
    BY <1>3 DEF TypeOK, Fails
  <2>5. cancelled' \in BOOLEAN
    BY <1>3 DEF TypeOK, Fails
  <2> QED BY <1>3, <2>1, <2>2, <2>3, <2>4, <2>5 DEF TypeOK, Fails, Ghosts, Counters
<1>4. CASE Finish(n)
  BY <1>4 DEF TypeOK, Finish
<1> QED BY <1>1, <1>2, <1>3, <1>4

LEMMA OthersKeepTypes ==
    TypeOK /\ (Write \/ TimerFires \/ WatchEnds \/ OnChange
                \/ Signal \/ TakeSignal \/ StopListening \/ Kill)
        => TypeOK'
<1> SUFFICES ASSUME TypeOK, Write \/ TimerFires \/ WatchEnds \/ OnChange \/ Signal \/ TakeSignal
                            \/ StopListening \/ Kill
             PROVE  TypeOK'
  OBVIOUS
<1>1. CASE Write
  <2>1. ghost' \in Ghosts
    BY <1>1 DEF TypeOK, Write, Ghosts
  <2>2. used' \in Counters
    BY <1>1, Constants DEF TypeOK, Write, Counters
  <2>3. watch' \in Watches
    BY <1>1 DEF TypeOK, Write, Watches
  <2> QED BY <1>1, <2>1, <2>2, <2>3 DEF TypeOK, Write, Ghosts, Counters, Watches
<1>2. CASE TimerFires
  <2>1. watch' \in Watches
    BY <1>2 DEF TypeOK, TimerFires, Watches, Loads
  <2> QED BY <1>2, <2>1 DEF TypeOK, TimerFires, Watches
<1>3. CASE OnChange
  BY <1>3, Constants DEF TypeOK, OnChange
<1>4. CASE Signal
  <2>1. ghost' \in Ghosts
    BY <1>4 DEF TypeOK, Signal, Ghosts
  <2>2. used' \in Counters
    BY <1>4, Constants DEF TypeOK, Signal, Counters
  <2>3. signal' \in Signals
    BY <1>4 DEF TypeOK, Signal, Signals
  <2>4. UNCHANGED main \/ Goto("exit")
    BY <1>4 DEF Signal
  <2> QED BY <1>4, <2>1, <2>2, <2>3, <2>4 DEF TypeOK, Signal, Goto, Ghosts, Counters, Signals
<1>5. CASE TakeSignal
  <2>1. signal' \in Signals
    BY <1>5 DEF TypeOK, TakeSignal, Signals
  <2> QED BY <1>5, <2>1 DEF TypeOK, TakeSignal, Signals
<1>6. CASE StopListening
  <2>1. signal' \in Signals
    BY <1>6 DEF TypeOK, StopListening, Signals
  <2> QED BY <1>6, <2>1 DEF TypeOK, StopListening, Signals
<1>7. CASE Kill
  BY <1>7 DEF TypeOK, Kill, Goto
<1>8. CASE WatchEnds
  <2>1. watch' \in Watches
    BY <1>8 DEF TypeOK, WatchEnds, Watches
  <2> QED BY <1>8, <2>1 DEF TypeOK, WatchEnds, Watches
<1> QED BY <1>1, <1>2, <1>3, <1>4, <1>5, <1>6, <1>7, <1>8

LEMMA StepTypeOK == TypeOK /\ [Next]_vars => TypeOK'
<1> SUFFICES ASSUME TypeOK, [Next]_vars PROVE TypeOK'
  OBVIOUS
<1>1. CASE BeginRound \/ Launch \/ PortTaken \/ TakeReload \/ AllDone \/ EndRound
  BY <1>1, MainKeepsTypes
<1>2. CASE \E n \in Nodes : Begin(n) \/ Started(n) \/ Fails(n) \/ Finish(n)
  BY <1>2, NodesKeepTypes
<1>3. CASE Write \/ TimerFires \/ WatchEnds \/ OnChange \/ Signal \/ TakeSignal \/ StopListening \/ Kill
  BY <1>3, OthersKeepTypes
<1>4. CASE UNCHANGED vars
  BY <1>4 DEF vars, TypeOK
<1> QED BY <1>1, <1>2, <1>3, <1>4 DEF Next

\* The state of the process, the watcher and the nodes is well-formed.
THEOREM TypeCorrect == Spec => []TypeOK
  BY InitTypeOK, StepTypeOK, PTL DEF Spec

-----------------------------------------------------------------------------
(* One round after the other *)

LEMMA StepRoundsDisjoint == TypeOK /\ RoundsDisjoint /\ [Next]_vars => RoundsDisjoint'
<1> SUFFICES ASSUME TypeOK, RoundsDisjoint, [Next]_vars PROVE RoundsDisjoint'
  OBVIOUS
<1> USE DEF RoundsDisjoint, TypeOK, At, Goto
<1>1. CASE BeginRound
  BY <1>1 DEF BeginRound
<1>2. CASE Launch
  BY <1>2 DEF Launch, Fits
<1>3. CASE TakeReload
  BY <1>3 DEF TakeReload
<1>4. CASE AllDone
  BY <1>4 DEF AllDone
<1>5. CASE EndRound
  BY <1>5 DEF EndRound
\* The nodes of a round that is over are done, and take no step.
<1>6. ASSUME NEW n \in Nodes, Begin(n) \/ Started(n) \/ Fails(n) \/ Finish(n)
      PROVE  RoundsDisjoint'
  BY <1>6 DEF Begin, Started, Fails, Finish
<1>7. CASE Write \/ TimerFires \/ WatchEnds \/ OnChange \/ TakeSignal \/ StopListening \/ UNCHANGED vars
  BY <1>7 DEF Write, TimerFires, WatchEnds, OnChange, TakeSignal, StopListening, vars
<1>8. CASE Signal \/ Kill \/ PortTaken
  BY <1>8 DEF Signal, Kill, PortTaken
<1> QED BY <1>1, <1>2, <1>3, <1>4, <1>5, <1>6, <1>7, <1>8 DEF Next

\* Whatever the file, the signals and the nodes do, no node of a round is
\* left when the next round launches its own.
THEOREM RoundsNeverOverlap == Spec => []RoundsDisjoint
<1>1. Init => RoundsDisjoint
  BY DEF Init, RoundsDisjoint
<1> QED BY <1>1, TypeCorrect, StepRoundsDisjoint, PTL DEF Spec

-----------------------------------------------------------------------------
(* Why the process ends *)

Reason == ghost.asked \/ ghost.failed

\* Who is about to end the process or the round has been given a reason.
Reasons ==
    /\ killer \/ signal.pending => ghost.asked
    /\ main.at \in {"launch", "wait"} /\ cancelled => Reason
    /\ main.at = "wait" => \A n \in Serving[main.root] : node[n] = "done" => cancelled
    /\ main.at = "drain" => main.next # None
    /\ main.at = "stop" /\ main.next = None => Reason

LEMMA StepReasons ==
    TypeOK /\ Reasons /\ ExitHasReason /\ [Next]_vars => Reasons' /\ ExitHasReason'
<1> SUFFICES ASSUME TypeOK, Reasons, ExitHasReason, [Next]_vars
             PROVE  Reasons' /\ ExitHasReason'
  OBVIOUS
<1> USE DEF Reasons, Reason, ExitHasReason, TypeOK, At, Goto
<1>1. CASE BeginRound
  BY <1>1 DEF BeginRound, NoWatch
<1>2. CASE Launch
  BY <1>2, Constants DEF Launch, Fits
<1>3. CASE TakeReload
  BY <1>3 DEF TakeReload
\* There is a node to serve, and it is only done if the round was cancelled.
<1>4. CASE AllDone
  BY <1>4, Constants DEF AllDone
<1>5. CASE EndRound
  <2>1. CASE main.next = None
    BY <1>5, <2>1 DEF EndRound, NoSignal
  <2>2. CASE main.next # None
    <3>1. main'.root = main.next /\ main'.at \in {"loop", "exit"}
      BY <1>5, <2>2 DEF EndRound
    <3>2. main'.at = "exit" => main'.root \in Misfits
      BY <1>5, <2>2, Constants DEF EndRound, Normalizes
    <3> QED BY <1>5, <2>2, <3>1, <3>2 DEF EndRound, NoSignal
  <2> QED BY <2>1, <2>2
<1>6. ASSUME NEW n \in Nodes, Begin(n) \/ Started(n) \/ Fails(n) \/ Finish(n)
      PROVE  Reasons' /\ ExitHasReason'
  <2>0. main.at = "wait" => Serving[main.root] \subseteq Nodes
    BY Constants
  <2>1. CASE Begin(n)
    BY <1>6, <2>0, <2>1 DEF Begin, Alive
  <2>2. CASE Started(n)
    BY <1>6, <2>2 DEF Started, Alive
  <2>3. CASE Fails(n)
    BY <1>6, <2>0, <2>3 DEF Fails, Alive
  <2>4. CASE Finish(n)
    BY <1>6, <2>4 DEF Finish, Alive
  <2> QED BY <1>6, <2>1, <2>2, <2>3, <2>4
<1>7. CASE Write \/ TimerFires \/ WatchEnds \/ OnChange \/ StopListening \/ UNCHANGED vars
  BY <1>7 DEF Write, TimerFires, WatchEnds, OnChange, StopListening, vars
<1>8. CASE Signal
  BY <1>8 DEF Signal, Alive
<1>9. CASE TakeSignal
  BY <1>9 DEF TakeSignal, Alive
<1>10. CASE Kill
  BY <1>10 DEF Kill, Alive
<1>11. CASE PortTaken
  BY <1>11 DEF PortTaken
<1> QED BY <1>1, <1>2, <1>3, <1>4, <1>5, <1>6, <1>7, <1>8, <1>9, <1>10, <1>11 DEF Next

\* The process never ends without a signal, a failed node, a health port that is
\* taken or a layout that is not valid, so a reload otherwise leads to another
\* round.
THEOREM EndsForAReason == Spec => []ExitHasReason
<1>1. Init => Reasons /\ ExitHasReason
  BY DEF Init, Reasons, ExitHasReason, At, NoSignal
<1>2. Spec => [](Reasons /\ ExitHasReason)
  BY <1>1, TypeCorrect, StepReasons, PTL DEF Spec
<1> QED BY <1>2, PTL

-----------------------------------------------------------------------------
(* Layouts: what one file serves *)

\* The instances are those of the file, with their directories.
LEMMA InstanceOf ==
    ASSUME NEW root, NEW i \in DOMAIN Instances(root)
    PROVE  LET c == Instances(root)[i]
               asked == Prepared(root)[i]
               dir == OrElse(asked.dir, InstanceBase(root, i))
           IN  /\ i \in DOMAIN Prepared(root) /\ i \in DOMAIN Loaded(root)
               /\ c.dir = dir
               /\ c.certDir = OrElse(asked.certDir, In(dir, "certs", Unset))
               /\ c.url = asked.url /\ c.machine = asked.machine /\ c.node = asked.node
               /\ c.entries = asked.entries /\ c.custom = asked.custom
               /\ Loaded(root)[i].entries = asked.entries
               /\ Loaded(root)[i].machine = asked.machine
               /\ ~Legacy(root) => c = Loaded(root)[i] /\ c.id = asked.id
<1> DEFINE asked == Prepared(root)[i]
           loaded == Loaded(root)[i]
           dir == OrElse(asked.dir, InstanceBase(root, i))
<1>1. i \in DOMAIN Loaded(root) /\ i \in DOMAIN Prepared(root)
  BY DEF Instances, Loaded
<1>2. loaded = SetDefaultsFrom(asked, InstanceBase(root, i))
  BY <1>1 DEF Loaded
<1>3. /\ loaded.dir = dir
      /\ loaded.certDir = OrElse(asked.certDir, In(dir, "certs", Unset))
      /\ loaded.url = asked.url /\ loaded.machine = asked.machine /\ loaded.node = asked.node
      /\ loaded.entries = asked.entries /\ loaded.custom = asked.custom /\ loaded.id = asked.id
      /\ {"dir", "certDir", "url", "machine", "node", "entries", "custom"} \subseteq DOMAIN loaded
  BY <1>2 DEF SetDefaultsFrom
<1>4. Instances(root)[i] = IF Legacy(root) THEN [loaded EXCEPT !.id = AutoInstanceID(loaded)]
                           ELSE loaded
  BY <1>1 DEF Instances
<1>5. CASE ~Legacy(root)
  <2> HIDE DEF loaded
  <2> QED BY <1>1, <1>3, <1>4, <1>5 DEF loaded
<1>6. CASE Legacy(root)
  <2> DEFINE id == AutoInstanceID(loaded)
             c == [loaded EXCEPT !.id = id]
  <2>1. Instances(root)[i] = c
    BY <1>4, <1>6
  <2> HIDE DEF id, loaded
  <2>2. /\ c.dir = loaded.dir /\ c.certDir = loaded.certDir /\ c.url = loaded.url
        /\ c.machine = loaded.machine /\ c.node = loaded.node /\ c.entries = loaded.entries
        /\ c.custom = loaded.custom
    BY <1>3
  <2> QED BY <1>1, <1>3, <1>6, <2>1, <2>2 DEF loaded
<1> QED BY <1>5, <1>6

\* What the configuration file does not name is derived from its own directory.
LEMMA DirsOf ==
    ASSUME NEW root, Plain(root), NEW i \in DOMAIN Instances(root)
    PROVE  LET c == Instances(root)[i]
           IN  /\ c.dir[1] = "dir" \/ \E id : c.dir = In(Named(BaseDir), "instance", id)
               /\ c.certDir = In(c.dir, "certs", Unset)
               /\ \A k \in DOMAIN c.entries : ~c.entries[k].kernel /\ ~c.entries[k].cert
<1> DEFINE asked == Prepared(root)[i]
           c == Instances(root)[i]
<1>1. /\ i \in DOMAIN Prepared(root)
      /\ c.dir = OrElse(asked.dir, InstanceBase(root, i))
      /\ c.certDir = OrElse(asked.certDir, In(c.dir, "certs", Unset))
      /\ c.entries = asked.entries
  BY InstanceOf
<1> HIDE DEF c
<1>2. /\ asked.dir = Unset \/ asked.dir[1] = "dir"
      /\ asked.certDir = Unset
      /\ \A k \in DOMAIN c.entries : ~c.entries[k].kernel /\ ~c.entries[k].cert
  BY <1>1 DEF Plain
<1>3. c.certDir = In(c.dir, "certs", Unset)
  BY <1>1, <1>2 DEF OrElse
<1>4. \/ InstanceBase(root, i)[1] = "dir"
      \/ \E id : InstanceBase(root, i) = In(Named(BaseDir), "instance", id)
  BY DEF InstanceBase, Named
<1>5. c.dir[1] = "dir" \/ \E id : c.dir = In(Named(BaseDir), "instance", id)
  BY <1>1, <1>2, <1>4 DEF OrElse
<1> QED BY <1>2, <1>3, <1>5 DEF c

\* Two instances have different directories, neither in the other's.
LEMMA InstancesApart ==
    ASSUME NEW root, Plain(root), LoadRoot(root), ValidateStartupLayout(Instances(root)),
           NEW i \in DOMAIN Instances(root), NEW j \in DOMAIN Instances(root), i # j
    PROVE  /\ Instances(root)[i].dir # Instances(root)[j].dir
           /\ \A n : Instances(root)[i].dir # In(Instances(root)[j].dir, "node", n)
<1> DEFINE c == Instances(root)[i]
           e == Instances(root)[j]
<1>1. ~Legacy(root)
  <2>1. SUFFICES ASSUME Legacy(root) PROVE FALSE
    OBVIOUS
  <2>2. i \in DOMAIN Prepared(root) /\ j \in DOMAIN Prepared(root)
    BY InstanceOf
  <2>3. \E x : Prepared(root) = <<x>>
    BY <2>1 DEF Prepared
  <2> QED BY <2>2, <2>3
<1>2. /\ c = Loaded(root)[i] /\ i \in DOMAIN Loaded(root)
      /\ e = Loaded(root)[j] /\ j \in DOMAIN Loaded(root)
  BY <1>1, InstanceOf
<1>3. c.id # e.id
  BY <1>1, <1>2 DEF LoadRoot, ValidateRoot
<1>4. c.dir # e.dir
  BY <1>3 DEF ValidateStartupLayout
<1>5. c.dir[1] = "dir" \/ \E id : c.dir = In(Named(BaseDir), "instance", id)
  BY DirsOf
<1> HIDE DEF c, e
<1>6. \A n : c.dir # In(e.dir, "node", n)
  <2>1. SUFFICES ASSUME NEW n, c.dir = In(e.dir, "node", n) PROVE FALSE
    OBVIOUS
  <2>2. c.dir[1] = "in" /\ c.dir[3] = "node"
    BY <2>1 DEF In
  <2> QED BY <1>5, <2>2 DEF In
<1> QED BY <1>4, <1>6 DEF c, e


\* The directory of what an instance serves is its own or one in it, and so is the one
\* its certificates are in.
LEMMA ServedDirs ==
    ASSUME NEW root, Plain(root), NEW p \in Goroutines(root),
           NEW x \in Served(Instances(root), p)
    PROVE  LET c == Instances(root)[p[1]]
           IN  /\ p[1] \in DOMAIN Instances(root) /\ p = <<p[1], p[2]>>
               /\ p[2] \in DOMAIN ExpandNodes(c)
               /\ x.dir = c.dir \/ \E n : x.dir = In(c.dir, "node", n)
               /\ \E in : /\ x.certDir = In(in, "certs", Unset)
                          /\ in = c.dir \/ \E n : in = In(c.dir, "node", n)
<1> DEFINE c == Instances(root)[p[1]]
<1>1. /\ p[1] \in DOMAIN Instances(root) /\ p = <<p[1], p[2]>>
      /\ p[2] \in DOMAIN ExpandNodes(c)
  BY DEF Goroutines
<1>2. /\ c.certDir = In(c.dir, "certs", Unset)
      /\ \A k \in DOMAIN c.entries : ~c.entries[k].kernel /\ ~c.entries[k].cert
  BY <1>1, DirsOf
<1>3. CASE IsMachineMode(c)
  <2>1. PICK n \in PanelNodes : x = ExpandMachineNode(c, n)
    BY <1>3 DEF Served
  <2>2. /\ x.dir = In(c.dir, "node", n)
        /\ x.certDir = In(In(c.dir, "node", n), "certs", Unset)
    BY <2>1 DEF ExpandMachineNode
  <2> QED BY <1>1, <2>2
<1>4. CASE ~IsMachineMode(c)
  <2>1. x = ExpandNodes(c)[p[2]]
    BY <1>4 DEF Served
  <2> HIDE DEF c
  <2>2. CASE c.entries = <<>>
    <3>1. p[2] \in DOMAIN <<[url |-> c.url, node |-> c.node, custom |-> c.custom,
                             dir |-> c.dir, certDir |-> c.certDir]>>
      BY <1>1, <2>2 DEF ExpandNodes
    <3>2. p[2] = 1
      BY <3>1
    <3>3. x = [url |-> c.url, node |-> c.node, custom |-> c.custom,
               dir |-> c.dir, certDir |-> c.certDir]
      BY <2>1, <2>2, <3>2 DEF ExpandNodes
    <3> QED BY <1>1, <1>2, <3>3 DEF c
  <2>3. CASE c.entries # <<>>
    <3>1. p[2] \in DOMAIN c.entries
      BY <1>1, <2>3 DEF ExpandNodes
    <3>2. /\ x.dir = In(c.dir, "node", c.entries[p[2]].node)
          /\ x.certDir = c.certDir
      BY <1>2, <2>1, <2>3, <3>1 DEF ExpandNodes
    <3> QED BY <1>1, <1>2, <3>2 DEF c
  <2> QED BY <2>2, <2>3
<1> QED BY <1>3, <1>4

\* Nodes of different instances have nothing in common.
LEMMA ApartAcross ==
    ASSUME NEW root, Plain(root), LoadRoot(root), ValidateStartupLayout(Instances(root)),
           NEW p \in Goroutines(root), NEW q \in Goroutines(root), p[1] # q[1],
           NEW x \in Served(Instances(root), p), NEW y \in Served(Instances(root), q)
    PROVE  x.dir # y.dir /\ x.certDir # y.certDir
<1> DEFINE c == Instances(root)[p[1]]
           e == Instances(root)[q[1]]
           Inside(dir, base) == dir = base \/ \E n : dir = In(base, "node", n)
<1>1. /\ p[1] \in DOMAIN Instances(root) /\ q[1] \in DOMAIN Instances(root)
      /\ Inside(x.dir, c.dir) /\ Inside(y.dir, e.dir)
      /\ \E in : x.certDir = In(in, "certs", Unset) /\ Inside(in, c.dir)
      /\ \E in : y.certDir = In(in, "certs", Unset) /\ Inside(in, e.dir)
  BY ServedDirs
<1>2. /\ c.dir # e.dir
      /\ \A n : c.dir # In(e.dir, "node", n)
      /\ \A n : e.dir # In(c.dir, "node", n)
  BY <1>1, InstancesApart
<1> HIDE DEF c, e
<1>3. ASSUME NEW a, NEW b, Inside(a, c.dir), Inside(b, e.dir) PROVE a # b
  BY <1>2, <1>3 DEF In
<1> HIDE DEF Inside
<1>4. x.dir # y.dir
  BY <1>1, <1>3
<1>5. x.certDir # y.certDir
  BY <1>1, <1>3 DEF In
<1> QED BY <1>4, <1>5

\* Nodes of one instance have directories of their own, those of a machine also for
\* certificates.
LEMMA ApartWithin ==
    ASSUME NEW root, Plain(root), LoadRoot(root), ValidateStartupLayout(Instances(root)),
           NEW p \in Goroutines(root), NEW q \in Goroutines(root), p[1] = q[1],
           NEW x \in Served(Instances(root), p), NEW y \in Served(Instances(root), q),
           p # q \/ x # y
    PROVE  /\ x.dir # y.dir
           /\ IsMachineMode(Instances(root)[p[1]]) => x.certDir # y.certDir
<1> DEFINE c == Instances(root)[p[1]]
<1>1. /\ p[1] \in DOMAIN Instances(root) /\ p = <<p[1], p[2]>> /\ q = <<p[1], q[2]>>
      /\ p[2] \in DOMAIN ExpandNodes(c) /\ q[2] \in DOMAIN ExpandNodes(c)
  BY ServedDirs
<1>2. CASE IsMachineMode(c)
  <2>1. PICK n \in PanelNodes, m \in PanelNodes :
            x = ExpandMachineNode(c, n) /\ y = ExpandMachineNode(c, m)
    BY <1>2 DEF Served
  <2>2. c.entries = <<>>
    <3>1. /\ p[1] \in DOMAIN Loaded(root)
          /\ Loaded(root)[p[1]].entries = c.entries
          /\ Loaded(root)[p[1]].machine = c.machine
      BY <1>1, InstanceOf
    <3>2. Validates(Loaded(root)[p[1]])
      BY <3>1 DEF LoadRoot, ValidateRoot
    <3> QED BY <1>2, <3>1, <3>2 DEF Validates, IsMachineMode
  <2> HIDE DEF c
  <2>3. p[2] = 1 /\ q[2] = 1
    <3>1. \E z : ExpandNodes(c) = <<z>>
      BY <2>2 DEF ExpandNodes
    <3> QED BY <1>1, <3>1
  <2>4. n # m
    BY <1>1, <2>1, <2>3
  <2>5. /\ x.dir = In(c.dir, "node", n) /\ x.certDir = In(In(c.dir, "node", n), "certs", Unset)
        /\ y.dir = In(c.dir, "node", m) /\ y.certDir = In(In(c.dir, "node", m), "certs", Unset)
    BY <2>1 DEF ExpandMachineNode
  <2>6. In(c.dir, "node", n) # In(c.dir, "node", m)
    BY <2>4 DEF In
  <2> QED BY <2>5, <2>6 DEF In
<1>3. CASE ~IsMachineMode(c)
  <2>1. x = ExpandNodes(c)[p[2]] /\ y = ExpandNodes(c)[q[2]]
    BY <1>1, <1>3 DEF Served
  <2>2. p[2] # q[2] /\ p # q
    BY <1>1, <2>1
  <2>3. c.entries # <<>>
    <3>1. SUFFICES ASSUME c.entries = <<>> PROVE FALSE
      OBVIOUS
    <3>2. \E z : ExpandNodes(c) = <<z>>
      BY <3>1 DEF ExpandNodes
    <3> QED BY <1>1, <2>2, <3>2
  <2>4. p \in Statics(Instances(root)) /\ q \in Statics(Instances(root))
    BY <1>1, <1>3 DEF Statics
  <2>5. <<x.url, x.node>> # <<y.url, y.node>>
    BY <1>1, <2>1, <2>2, <2>4 DEF ValidateStartupLayout
  <2>6. \A k \in DOMAIN c.entries : ~c.entries[k].kernel /\ ~c.entries[k].cert
    BY <1>1, DirsOf
  <2> HIDE DEF c
  <2>7. p[2] \in DOMAIN c.entries /\ q[2] \in DOMAIN c.entries
    BY <1>1, <2>3 DEF ExpandNodes
  <2>8. /\ x.url = c.url /\ y.url = c.url
        /\ x.dir = In(c.dir, "node", x.node) /\ y.dir = In(c.dir, "node", y.node)
    BY <2>1, <2>3, <2>6, <2>7 DEF ExpandNodes
  <2> QED BY <1>3, <2>5, <2>8 DEF In, c
<1> QED BY <1>2, <1>3

\* What a layout that is valid serves is apart.
LEMMA ValidIsApart ==
    ASSUME NEW root, Plain(root), LoadRoot(root), ValidateStartupLayout(Instances(root)),
           NEW p \in Goroutines(root), NEW q \in Goroutines(root)
    PROVE  Apart(Instances(root), p, q)
<1> DEFINE layout == Instances(root)
<1> SUFFICES ASSUME NEW x \in Served(layout, p), NEW y \in Served(layout, q), p # q \/ x # y
             PROVE  /\ x.dir # y.dir
                    /\ p[1] # q[1] \/ IsMachineMode(layout[p[1]]) => x.certDir # y.certDir
                    /\ ~IsMachineMode(layout[p[1]]) /\ ~IsMachineMode(layout[q[1]])
                          => x.url # y.url \/ x.node # y.node
  BY DEF Apart
<1>1. x.dir # y.dir /\ (p[1] # q[1] \/ IsMachineMode(layout[p[1]]) => x.certDir # y.certDir)
  BY ApartAcross, ApartWithin
<1>2. ASSUME ~IsMachineMode(layout[p[1]]), ~IsMachineMode(layout[q[1]])
      PROVE  x.url # y.url \/ x.node # y.node
  <2>1. /\ p[1] \in DOMAIN layout /\ p = <<p[1], p[2]>> /\ p[2] \in DOMAIN ExpandNodes(layout[p[1]])
        /\ q[1] \in DOMAIN layout /\ q = <<q[1], q[2]>> /\ q[2] \in DOMAIN ExpandNodes(layout[q[1]])
    BY ServedDirs
  <2>2. p \in Statics(layout) /\ q \in Statics(layout)
    BY <1>2, <2>1 DEF Statics
  <2>3. x = ExpandNodes(layout[p[1]])[p[2]] /\ y = ExpandNodes(layout[q[1]])[q[2]]
    BY <1>2 DEF Served
  <2>4. p # q
    BY <2>3
  <2> QED BY <2>2, <2>3, <2>4 DEF ValidateStartupLayout
<1> QED BY <1>1, <1>2

-----------------------------------------------------------------------------
(* What runs is apart *)

\* Only what a valid configuration serves is ever at work.
Working == \A n \in Nodes : node[n] # "done" => main.root \notin Misfits /\ n \in Serving[main.root]

LEMMA StepWorking == TypeOK /\ RoundsDisjoint /\ Working /\ [Next]_vars => Working'
<1> SUFFICES ASSUME TypeOK, RoundsDisjoint, Working, [Next]_vars PROVE Working'
  OBVIOUS
<1> USE DEF RoundsDisjoint, Working, TypeOK, At, Goto
<1>1. CASE BeginRound
  BY <1>1 DEF BeginRound
<1>2. CASE Launch
  BY <1>2 DEF Launch, Fits
<1>3. CASE TakeReload
  BY <1>3 DEF TakeReload
<1>4. CASE AllDone
  BY <1>4 DEF AllDone
\* The configuration only changes while all nodes are done.
<1>5. CASE EndRound
  BY <1>5 DEF EndRound
<1>6. ASSUME NEW n \in Nodes, Begin(n) \/ Started(n) \/ Fails(n) \/ Finish(n)
      PROVE  Working'
  BY <1>6 DEF Begin, Started, Fails, Finish
<1>7. CASE Write \/ TimerFires \/ WatchEnds \/ OnChange \/ TakeSignal \/ StopListening \/ UNCHANGED vars
  BY <1>7 DEF Write, TimerFires, WatchEnds, OnChange, TakeSignal, StopListening, vars
<1>8. CASE Signal \/ Kill \/ PortTaken
  BY <1>8 DEF Signal, Kill, PortTaken
<1> QED BY <1>1, <1>2, <1>3, <1>4, <1>5, <1>6, <1>7, <1>8 DEF Next

LEMMA WorkingIsApart == TypeOK /\ Working => NodesApart
<1> SUFFICES ASSUME TypeOK, Working, Plain(Content[main.root]),
                    NEW p \in Nodes, node[p] # "done", NEW q \in Nodes, node[q] # "done"
             PROVE  Apart(Instances(Content[main.root]), p, q)
  BY DEF NodesApart
<1> DEFINE root == Content[main.root]
<1>1. main.root \in Versions /\ main.root \notin Invalid /\ main.root \notin Misfits
  BY DEF TypeOK, Working
<1>2. /\ LoadRoot(root)
      /\ ValidateStartupLayout(Instances(root))
      /\ Serving[main.root] = Goroutines(root)
  BY <1>1, ContentsDecide
<1>3. p \in Goroutines(root) /\ q \in Goroutines(root)
  BY <1>2 DEF Working
<1> QED BY <1>2, <1>3, ValidIsApart

\* Whatever files are loaded one after the other: as long as they name no
\* directories that are inside each other, no two nodes at work share a kernel
\* directory, and those of two instances or of a machine no directory for
\* certificates.
THEOREM NothingIsShared == Spec => []NodesApart
<1>1. Init => Working
  BY DEF Init, Working
<1>2. Spec => [](TypeOK /\ Working)
  BY <1>1, TypeCorrect, RoundsNeverOverlap, StepWorking, PTL DEF Spec
<1> QED BY <1>2, WorkingIsApart, PTL

LEMMA SameDirs ==
    ASSUME NEW root, NEW root2, Len(root.instances) > 1 <=> Len(root2.instances) > 1
    PROVE  ~Moved(root, root2)
<1> SUFFICES ASSUME NEW i \in DOMAIN Instances(root), NEW j \in DOMAIN Instances(root2),
                    Instances(root)[i].id = Instances(root2)[j].id,
                    Prepared(root)[i].dir = Prepared(root2)[j].dir,
                    Prepared(root)[i].certDir = Prepared(root2)[j].certDir
             PROVE  /\ Instances(root)[i].dir = Instances(root2)[j].dir
                    /\ Instances(root)[i].certDir = Instances(root2)[j].certDir
  BY DEF Moved
<1>1. InstanceBase(root, i) = InstanceBase(root2, j)
  <2>1. CASE Len(root.instances) > 1
    <3>1. ~Legacy(root) /\ ~Legacy(root2)
      <4>1. Len(<<>>) = 0
        OBVIOUS
      <4>2. \A any : Legacy(any) => ~(Len(any.instances) > 1)
        BY <4>1 DEF Legacy
      <4> QED BY <2>1, <4>2
    <3>2. /\ Instances(root)[i].id = Prepared(root)[i].id
          /\ Instances(root2)[j].id = Prepared(root2)[j].id
      BY <3>1, InstanceOf
    <3> QED BY <2>1, <3>2 DEF InstanceBase
  <2>2. CASE ~(Len(root.instances) > 1)
    BY <2>2 DEF InstanceBase
  <2> QED BY <2>1, <2>2
<1> QED BY <1>1, InstanceOf

\* An instance that stays in the file keeps its directories, for every two
\* files with several instances and every two with one.
THEOREM DirectoriesStay == Spec => DirsStay
<1>1. [Next]_vars =>
          [LET root == Content[main.root]
               root2 == Content[main'.root]
           IN  /\ root # root2
               /\ Len(root.instances) > 1 <=> Len(root2.instances) > 1
               => ~Moved(root, root2)]_vars
  BY SameDirs
<1> QED BY <1>1, PTL DEF Spec, DirsStay
=============================================================================
