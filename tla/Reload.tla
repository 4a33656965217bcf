------------------------------- MODULE Reload -------------------------------
(***************************************************************************)
(* The process (cmd/xboard-node/main.go, runWithReload) and the watcher of *)
(* its configuration file (internal/config/watcher.go).  The main          *)
(* goroutine launches one goroutine per machine and per node of the        *)
(* instances under a context of this round, and waits until they are all   *)
(* done or a new configuration arrives, which ends the round and begins    *)
(* another.  It runs beside                                                *)
(*   - the watcher of the round: an event arms a timer, the timer loads    *)
(*     the file, and what was loaded goes to reloadCh unless that is full; *)
(*   - the goroutine for signals: the first one cancels the context, and   *)
(*     the process is forced to exit by the second one or after 15 s;      *)
(*   - the nodes, whose service fails while it starts or runs until the    *)
(*     context is cancelled.  A node that fails reports to errCh, which    *)
(*     has room for one error per instance, and cancels the context.       *)
(* The health server outlives the rounds, unless the port changes.         *)
(* What is in the file is opaque here; ProcessLayout says what it is.      *)
(***************************************************************************)
EXTENDS Naturals, FiniteSets

CONSTANTS Nodes,       \* goroutines a configuration may ask for
          Versions,    \* contents of the configuration file
          Invalid,     \* those LoadRoot refuses
          Misfits,     \* those it takes and whose layout is refused
          Nameless,    \* those of the misfits NormalizeInstances refuses
          Serving,     \* of a version: the goroutines of its nodes
          Room,        \* of a version: capacity of errCh, its instances
          Health,      \* of a version: health port of its first instance, or 0
          None,        \* no version
          MaxWrites,   \* bound on changes of the file
          MaxSignals,  \* bound on signals
          MaxFailures  \* bound on nodes that fail to start and ports that are taken

ASSUME VersionsAreSorted ==
    /\ None \notin Versions
    /\ Invalid \subseteq Versions /\ Misfits \subseteq Versions /\ Invalid \cap Misfits = {}
    /\ Nameless \subseteq Misfits

\* Every layout has an instance, and every instance a machine or a node.
ASSUME LayoutsServe ==
    \A v \in Versions \ (Invalid \cup Misfits) :
        /\ Serving[v] \subseteq Nodes /\ Serving[v] # {}
        /\ Room[v] \in Nat \ {0}
        /\ Health[v] \in Nat

ASSUME BoundsAreCounts == {MaxWrites, MaxSignals, MaxFailures} \subseteq Nat

VARIABLES file,      \* content of the configuration file
          main,      \* the main goroutine: step, root and newRoot
          cancelled, \* the round's context
          node,      \* the node goroutines of the round
          health,    \* healthPort, and is there a healthSrv?
          errs,      \* errors in errCh
          watch,     \* the round's watcher: on, armed, loaded (by a callback)
          reloadCh,
          signal,    \* the round's signal channel and its goroutine
          killer,    \* a goroutine that will force the exit
          ghost,     \* asked, swallowed: a signal came, and was lost;
                     \* missed: a change of the file the loop will not see;
                     \* failed, taken: a node has failed, a health port was taken
          used       \* writes, signals, failures

vars == <<file, main, cancelled, node, health, errs, watch, reloadCh, signal, killer, ghost, used>>

NoWatch == [on |-> FALSE, armed |-> FALSE, loaded |-> None]

NoSignal == [notify |-> FALSE, pending |-> FALSE, listening |-> FALSE]

Init ==
    /\ file \in Versions \ (Invalid \cup Misfits)
    /\ main = [at |-> "loop", root |-> file, next |-> None]
    /\ cancelled = FALSE
    /\ node = [n \in Nodes |-> "done"]
    /\ health = [port |-> Health[file], on |-> Health[file] > 0]
    /\ errs = 0
    /\ watch = NoWatch
    /\ reloadCh = None
    /\ signal = NoSignal
    /\ killer = FALSE
    /\ ghost = [asked |-> FALSE, swallowed |-> FALSE, missed |-> FALSE, failed |-> FALSE,
                taken |-> FALSE]
    /\ used = [writes |-> 0, signals |-> 0, failures |-> 0]

\* LoadRoot: the file can be read and parsed, and every instance is complete.
Loads(version) == version \notin Invalid

\* ValidateStartupLayout: no two instances share a health port, a directory or
\* a node, and the files they name exist.
Fits(version) == version \notin Misfits

\* NormalizeInstances: an instance has, or can be given, an ID.
Normalizes(version) == version \notin Nameless

Alive == main.at # "exit"

At(step) == main.at = step

Goto(step) == main' = [main EXCEPT !.at = step]

-----------------------------------------------------------------------------
(* The main goroutine *)

\* The top of the loop: context, signal channel and goroutine, watcher; without
\* a watcher the round is never reloaded.
BeginRound ==
    /\ At("loop")
    /\ cancelled' = FALSE
    /\ signal' = [notify |-> TRUE, pending |-> FALSE, listening |-> TRUE]
    /\ reloadCh' = None
    /\ watch' \in {NoWatch, [NoWatch EXCEPT !.on = TRUE]}
    /\ Goto("launch")
    /\ UNCHANGED <<file, node, health, errs, killer, ghost, used>>

\* The health server of a round that asks for a port: another port than the one
\* remembered closes the server, and only a port above 0 is opened and remembered.
\* A port that goes and comes back is thus not opened again.
HealthAt(port) ==
    IF port = health.port THEN health
    ELSE IF port > 0 THEN [port |-> port, on |-> TRUE]
    ELSE [health EXCEPT !.on = FALSE]

\* A layout that is not valid ends the process.
Launch ==
    /\ At("launch")
    /\ IF ~Fits(main.root) THEN Goto("exit") /\ UNCHANGED <<node, health, errs>>
       ELSE /\ Goto("wait")
            /\ health' = HealthAt(Health[main.root])
            /\ node' = [n \in Nodes |-> IF n \in Serving[main.root] THEN "delayed" ELSE "done"]
            /\ errs' = 0
    /\ UNCHANGED <<file, cancelled, watch, reloadCh, signal, killer, ghost, used>>

\* startHealth: nothing can listen on the new port, which ends the process.
PortTaken ==
    /\ At("launch")
    /\ Fits(main.root)
    /\ Health[main.root] \notin {0, health.port}
    /\ used.failures < MaxFailures
    /\ used' = [used EXCEPT !.failures = @ + 1]
    /\ health' = [health EXCEPT !.on = FALSE]
    /\ ghost' = [ghost EXCEPT !.taken = TRUE]
    /\ Goto("exit")
    /\ UNCHANGED <<file, cancelled, node, errs, watch, reloadCh, signal, killer>>

\* Mutant of TakeReload: the round is over before its nodes are done.
TakeReload_NoDrain ==
    /\ At("wait")
    /\ reloadCh # None
    /\ main' = [main EXCEPT !.at = "stop", !.next = reloadCh]
    /\ reloadCh' = None
    /\ cancelled' = TRUE
    /\ UNCHANGED <<file, node, health, errs, watch, signal, killer, ghost, used>>

\* Mutant of TakeReload: newRoot is declared anew by the select.
TakeReload_Shadowed ==
    /\ At("wait")
    /\ reloadCh # None
    /\ Goto("drain")
    /\ reloadCh' = None
    /\ cancelled' = TRUE
    /\ UNCHANGED <<file, node, health, errs, watch, signal, killer, ghost, used>>

TakeReload ==
    /\ At("wait")
    /\ reloadCh # None
    /\ main' = [main EXCEPT !.at = "drain", !.next = reloadCh]
    /\ reloadCh' = None
    /\ cancelled' = TRUE
    /\ UNCHANGED <<file, node, health, errs, watch, signal, killer, ghost, used>>

\* doneCh is closed: at the select, or where a reload waits for it.
AllDone ==
    /\ At("wait") \/ At("drain")
    /\ \A n \in Nodes : node[n] = "done"
    /\ Goto("stop")
    /\ UNCHANGED <<file, cancelled, node, health, errs, watch, reloadCh, signal, killer, ghost, used>>

\* Mutant of EndRound: the next round has the old configuration.
EndRound_OldRoot ==
    /\ At("stop")
    /\ signal' = NoSignal
    /\ watch' = NoWatch
    /\ ghost' = [ghost EXCEPT !.swallowed = @ \/ signal.pending]
    /\ main' = [main EXCEPT !.at = IF main.next = None THEN "exit" ELSE "loop", !.next = None]
    /\ UNCHANGED <<file, cancelled, node, health, errs, reloadCh, killer, used>>

\* signal.Stop and watcher.Stop, then the exit or the next round, whose
\* instances must have IDs.  A signal nobody has read by now is lost.
EndRound ==
    /\ At("stop")
    /\ signal' = NoSignal
    /\ watch' = NoWatch
    /\ ghost' = [ghost EXCEPT !.swallowed = @ \/ signal.pending]
    /\ main' = IF main.next = None THEN [main EXCEPT !.at = "exit"]
               ELSE [at |-> IF Normalizes(main.next) THEN "loop" ELSE "exit",
                     root |-> main.next, next |-> None]
    /\ UNCHANGED <<file, cancelled, node, health, errs, reloadCh, killer, used>>

-----------------------------------------------------------------------------
(* The nodes *)

\* The delay of all nodes but the first is over, or the context is cancelled.
Begin(n) ==
    /\ Alive
    /\ node[n] = "delayed"
    /\ \/ node' = [node EXCEPT ![n] = "starting"]
       \/ cancelled /\ node' = [node EXCEPT ![n] = "done"]
    /\ UNCHANGED <<file, main, cancelled, health, errs, watch, reloadCh, signal, killer, ghost, used>>

\* A service that has started returns no error any more.
Started(n) ==
    /\ Alive
    /\ node[n] = "starting"
    /\ node' = [node EXCEPT ![n] = "up"]
    /\ UNCHANGED <<file, main, cancelled, health, errs, watch, reloadCh, signal, killer, ghost, used>>

\* One error more than errCh has room for, and the goroutine sends for ever.
Fails(n) ==
    /\ Alive
    /\ node[n] = "starting"
    /\ used.failures < MaxFailures
    /\ used' = [used EXCEPT !.failures = @ + 1]
    /\ ghost' = [ghost EXCEPT !.failed = TRUE]
    /\ IF errs < Room[main.root]
       THEN /\ errs' = errs + 1
            /\ node' = [node EXCEPT ![n] = "done"]
            /\ cancelled' = TRUE
       ELSE node' = [node EXCEPT ![n] = "blocked"] /\ UNCHANGED <<errs, cancelled>>
    /\ UNCHANGED <<file, main, health, watch, reloadCh, signal, killer>>

Finish(n) ==
    /\ Alive
    /\ node[n] = "up"
    /\ cancelled
    /\ node' = [node EXCEPT ![n] = "done"]
    /\ UNCHANGED <<file, main, cancelled, health, errs, watch, reloadCh, signal, killer, ghost, used>>

-----------------------------------------------------------------------------
(* The file and its watcher *)

\* A change in the parent directory arms the timer or sets it back.
Write ==
    /\ used.writes < MaxWrites
    /\ file' \in Versions \ {file}
    /\ watch' = IF watch.on THEN [watch EXCEPT !.armed = TRUE] ELSE watch
    /\ ghost' = [ghost EXCEPT !.missed = ~(/\ main.at \in {"launch", "wait"} /\ ~cancelled /\ watch.on
                                           /\ watch.loaded = None /\ reloadCh = None)]
    /\ used' = [used EXCEPT !.writes = @ + 1]
    /\ UNCHANGED <<main, cancelled, node, health, errs, reloadCh, signal, killer>>

\* The callback reads the file as it is now.
TimerFires ==
    /\ Alive
    /\ watch.armed
    /\ watch.loaded = None
    /\ watch' = [watch EXCEPT !.armed = FALSE, !.loaded = IF Loads(file) THEN file ELSE None]
    /\ UNCHANGED <<file, main, cancelled, node, health, errs, reloadCh, signal, killer, ghost, used>>

\* The watcher's goroutine ends with the context and stops its timer; a
\* callback that runs goes on.
WatchEnds ==
    /\ Alive
    /\ cancelled
    /\ watch.on
    /\ watch' = [watch EXCEPT !.on = FALSE, !.armed = FALSE]
    /\ UNCHANGED <<file, main, cancelled, node, health, errs, reloadCh, signal, killer, ghost, used>>

\* What does not fit into reloadCh is dropped.
OnChange ==
    /\ Alive
    /\ watch.loaded # None
    /\ watch' = [watch EXCEPT !.loaded = None]
    /\ reloadCh' = IF reloadCh = None THEN watch.loaded ELSE reloadCh
    /\ UNCHANGED <<file, main, cancelled, node, health, errs, signal, killer, ghost, used>>

-----------------------------------------------------------------------------
(* Signals *)

\* SIGINT or SIGTERM.  Between two rounds nothing is registered for it, and
\* it ends the process the default way.
Signal ==
    /\ Alive
    /\ used.signals < MaxSignals
    /\ used' = [used EXCEPT !.signals = @ + 1]
    /\ ghost' = [ghost EXCEPT !.asked = TRUE]
    /\ IF signal.notify
       THEN signal' = [signal EXCEPT !.pending = TRUE] /\ UNCHANGED main
       ELSE Goto("exit") /\ UNCHANGED signal
    /\ UNCHANGED <<file, cancelled, node, health, errs, watch, reloadCh, killer>>

\* Mutant of TakeSignal: the exit is not forced.
TakeSignal_NoDeadline ==
    /\ Alive
    /\ signal.listening
    /\ signal.pending
    /\ signal' = [signal EXCEPT !.pending = FALSE, !.listening = FALSE]
    /\ cancelled' = TRUE
    /\ UNCHANGED <<file, main, node, health, errs, watch, reloadCh, killer, ghost, used>>

TakeSignal ==
    /\ Alive
    /\ signal.listening
    /\ signal.pending
    /\ signal' = [signal EXCEPT !.pending = FALSE, !.listening = FALSE]
    /\ cancelled' = TRUE
    /\ killer' = TRUE
    /\ UNCHANGED <<file, main, node, health, errs, watch, reloadCh, ghost, used>>

\* The round was cancelled by somebody else, and nobody reads signals now.
StopListening ==
    /\ Alive
    /\ signal.listening
    /\ cancelled
    /\ signal' = [signal EXCEPT !.listening = FALSE]
    /\ UNCHANGED <<file, main, cancelled, node, health, errs, watch, reloadCh, killer, ghost, used>>

\* The second signal or the end of the 15 s.
Kill ==
    /\ Alive
    /\ killer
    /\ Goto("exit")
    /\ UNCHANGED <<file, cancelled, node, health, errs, watch, reloadCh, signal, killer, ghost, used>>

Next ==
    \/ BeginRound \/ Launch \/ PortTaken \/ TakeReload \/ AllDone \/ EndRound
    \/ \E n \in Nodes : Begin(n) \/ Started(n) \/ Fails(n) \/ Finish(n)
    \/ Write \/ TimerFires \/ WatchEnds \/ OnChange
    \/ Signal \/ TakeSignal \/ StopListening \/ Kill

\* Goroutines that can run do; a node's start ends one way or the other and
\* its service returns when it is cancelled.  Nobody has to write the file,
\* send a signal or fail, and no port has to be taken.
Fairness ==
    /\ WF_vars(BeginRound) /\ WF_vars(Launch) /\ WF_vars(TakeReload) /\ WF_vars(AllDone)
    /\ WF_vars(EndRound)
    /\ \A n \in Nodes : WF_vars(Begin(n)) /\ WF_vars(Started(n) \/ Fails(n)) /\ WF_vars(Finish(n))
    /\ WF_vars(TimerFires) /\ WF_vars(OnChange)
    /\ WF_vars(TakeSignal \/ StopListening) /\ WF_vars(Kill)

Spec == Init /\ [][Next]_vars /\ Fairness

-----------------------------------------------------------------------------
(* Properties *)

\* The state is well-formed; no configuration that LoadRoot refuses gets past
\* the watcher, and errCh holds no more than it has room for.
TypeOK ==
    /\ file \in Versions
    /\ main \in [at : {"loop", "launch", "wait", "drain", "stop", "exit"},
                 root : Versions \ Invalid, next : (Versions \ Invalid) \cup {None}]
    /\ main.at \in {"wait", "drain", "stop"} => main.root \notin Misfits
    /\ cancelled \in BOOLEAN
    /\ node \in [Nodes -> {"delayed", "starting", "up", "blocked", "done"}]
    /\ health \in [port : Nat, on : BOOLEAN]
    /\ errs \in Nat
    /\ main.at \in {"wait", "drain", "stop"} => errs <= Room[main.root]
    /\ watch \in [on : BOOLEAN, armed : BOOLEAN, loaded : (Versions \ Invalid) \cup {None}]
    /\ reloadCh \in (Versions \ Invalid) \cup {None}
    /\ signal \in [notify : BOOLEAN, pending : BOOLEAN, listening : BOOLEAN]
    /\ killer \in BOOLEAN
    /\ ghost \in [asked : BOOLEAN, swallowed : BOOLEAN, missed : BOOLEAN, failed : BOOLEAN,
                  taken : BOOLEAN]
    /\ used \in [writes : 0..MaxWrites, signals : 0..MaxSignals, failures : 0..MaxFailures]

\* The nodes of one round are all done before those of the next are launched,
\* so that no node is ever served twice by one process, whatever the watcher,
\* the signals and failing nodes do meanwhile.
RoundsDisjoint == main.at \in {"stop", "loop", "launch"} => \A n \in Nodes : node[n] = "done"

\* The process only ends because it was told to, because a node failed, because
\* the layout of the file's configuration is not valid, or because a reload
\* moves the health server to a port on which nothing can listen; a file that
\* cannot be loaded is "logged and ignored" (watcher.go:28), at any moment.
ExitHasReason ==
    At("exit") => ghost.asked \/ ghost.failed \/ ghost.taken \/ main.root \in Misfits

\* The process ends when it has to.  A signal ends it, at the latest through the
\* forced exit, unless it fell into a reload, whose end throws it away.  When a
\* node fails, the process exits or is in a new round for another
\* configuration.  Both unless there are more failures than errCh has room for:
\* then the goroutines that send wait for ever, and main for them.
StopHonoured ==
    /\ ghost.asked ~> \/ At("exit")
                      \/ ghost.swallowed
                      \/ \E n \in Nodes : node[n] = "blocked"
    /\ errs > 0 ~> At("exit") \/ errs = 0 \/ \E n \in Nodes : node[n] = "blocked"

\* The last change of the file takes effect, if it was made while the loop
\* was waiting with nothing loaded before: if LoadRoot takes it, the process
\* comes to run with it, or ends.  A change during a reload is only seen when
\* the file changes again.
LastWriteTakesEffect ==
    <>[](~ghost.missed /\ file \notin Invalid) =>
        <>[](main.root = file \/ At("exit") \/ \E n \in Nodes : node[n] = "blocked")
=============================================================================
