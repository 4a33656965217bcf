# xboard-node in TLA+

xboard-node is an agent that runs a proxy kernel (sing-box or xray) on a host
and keeps it in step with a control panel: which configuration a node has, which
users it admits, and what traffic they used. This directory holds TLA+ models of
it, the TLC configurations that check them on small instances, and proofs that
TLAPS checks for every value of the constants. Sources are quoted as
`file.go:line`, relative to `src/internal/` unless a longer path is given.

    tlc -workers 2 -config PullLoop.cfg MCPullLoop.tla
    tlapm PushNode_proofs.tla

`PROJECT.json` lists the runs, what every definition models (`map`), a mutant of
the code for every property, the hazards of the code and the theorems.

## 1. Inventory

### Service loop and panel pulls (`service/service.go`, `panel/client.go`, `controlplane/panel.go`)

One goroutine per node runs `Service.Run`, a `select` over tickers (pull, track,
push, discovery), channels (`pullResults`, `wsStatusCh`, `wsEvents`,
`machineMailboxCh`) and the context. Handlers run to completion; everything in
`Service` that is not behind `metricsMu` or atomic belongs to this goroutine.

State: `lastConfig`, `lastConfigHash`, `lastUsers`, `lastUserHash`,
`appliedState`, the kernel, `pullActive` (an atomic flag), `pullResults`
(capacity 1), two `apiBackoff`s, the certificate manager's renewal flag, and in
the API client the two stored ETags. Operations: `pullViaAPIAsync` starts a
goroutine that fetches configuration and users and sends them to `pullResults`;
`applyPullResult` adopts them; `applyChanges`, `applyUserUpdate`,
`applyUserDelta`, `ensureRunning` and `reloadKernel` bring the kernel along.

Hard: a pull runs beside the loop, so its result may be older than what the loop
adopted meanwhile; several handlers start pulls; a 304 means "unchanged since the
last answer", not "since the last answer the service adopted"; an answer is compared
with the hash the service had when the pull began; kernel calls fail half-way. Correct when: pulls do not overlap, configurations are adopted in the
order the panel issued them, the running kernel serves what the service records,
nobody is admitted who is not on the list, a renewed certificate is put to use,
and the node converges to the panel's state, which it may not for a
configuration that returns (see the disagreements below).

### sing-box kernel (`kernel/singbox/singbox.go`, `conntracker.go`, `kernel/kernel.go`)

State: the box (running or nil), the user list it was built from, the maps of
users. Operations: `Start`, `Stop`, `Reload`, `AddUsers`, `RemoveUsers`,
`UpdateUsers`, `GetUserTraffic`. Users are swapped by removing and re-creating an
inbound; a failure between the two leaves the box without it. Correct when: the
admitted credentials are those of the list it says it serves.

### WebSocket push (`panel/ws.go`, `controlplane/panel.go`, `service.go:374-640`)

State: the client, its connection, `wsEvents` (16) and `wsStatusCh` (4),
`wsDisconnectAt`, `wsResyncPending`. The read goroutine posts events and statuses
without blocking; what does not fit is dropped, and a dropped event is replaced
by a status that asks for a resync. Hard: three channels served in any order,
dropped messages, events handled after a newer pull, reconnects while pulls are under
way, the panel's endpoint moving. Correct when: a reconnect misses nothing, polling
heals what push missed, channels keep their bounds, the client follows the endpoint.

### Machine mode (`controlplane/mailbox.go`, `controlplane/machine.go`, `machine/machine.go`)

One process serves many nodes over a single WebSocket. Each node has a
`NodeMailbox`: the read goroutine merges events into it under a mutex and posts
a token into a channel of one; the node's loop takes the token and drains the
newest state. `Initial` fetches a REST bootstrap and seeds the mailbox.
`startNode`, `registerNode`, `unregisterNode`, `rediscover` and `stopAll` manage
handles and the maps that route events, under two mutexes; the loop of `Run` and
a goroutine per `sync.nodes` event rediscover nodes. Hard: events before, during
and after the bootstrap; deltas on a base they were not made for; rediscoveries
that overlap, each with its own answer of the panel; a stop that deletes by ID
while the node is started again; shutdown while nodes are being started. Correct
when: no wake-up is lost, the loop is handed whole and newest states, a connected
node reaches the panel's state, every running node can be stopped, removed nodes
end, assigned ones are served and reachable, shutdown ends everything.

### Traffic accounting and reports (`tracker/tracker.go`, `service.go:927-1030`)

State: per user the last counter of the kernel, the pending upload and
download, the report under way; the devices seen at the last tick (`live`), a
hash of those taken last, and the buffer `FlushAliveIPs` answers with. Counters
are read every track tick, pending traffic is taken for a report and given back
if the report fails. Devices go with a report, and over the push channel beside
it. Hard: kernel restarts reset the counters; the report runs beside the loop;
its answer may be lost; shutdown reports once more; two kinds of reports take
devices from one buffer, and the hash is stored before anything was sent.
Correct when: every unit is billed once, and the panel comes to know the devices.

### Connections (`kernel/singbox/conntracker.go`, `limiter/`)

State: per tracker the mapping of credentials to users, per user the connections
in all and per source address, a reference to each connection, the devices other
nodes reported; in the limiter the users and their limits, in the speed tracker
one rate limiter per user. Connections pass through on goroutines of the box,
from one lock to the next, while the loop changes the users, the reports and the
box. Hard: everything a connection has read may be outdated at its next lock; a
connection is closed more than once, after its user was removed or in a box that
was replaced. Correct when: the counts are those of the connections open, a
device that is connected is let in, a user has one rate limiter with the current
speed.

### xray kernel (`kernel/xray/xray.go`)

State: the instance (or nil), its configuration and certificate, the user list
the kernel believes it serves, `lastKernelHash`. Operations: `Start`, `Stop`,
`Reload`, `AddUsers`, `RemoveUsers`, `UpdateUsers`. Where the protocol has a user
manager, accounts change in the running instance; otherwise a new instance is
started, and the old one closed only when that has succeeded. Hard: accounts, the
kernel's list and the dispatcher's limits change one after the other, and each
call may fail; the hash is not touched by hot changes. Correct when: accounts and
limits are those of the service's record, a removed user is out at once, a start
that fails takes nothing down.

### xray device limits (`kernel/xray/dispatcher.go`)

State: `deviceLimits`, `limitedIPs` (a map under `mu`), `unlimitedIPs` (two levels
of `sync.Map` with atomic counters), `connCount`. Operations: `checkDeviceLimit`
and `trackLink` when a connection comes, `delConn` when its link is closed,
`UpdateLimits` from the loop. Hard: a read lock is given up before the write lock
is taken; which table a connection is counted in is decided twice, when it comes
and when it goes; a counter can be deleted between being found and being
incremented; `Close` and `Interrupt` are both called. Correct when: `connCount`,
for whose end a drain waits, is right, the tables hold the devices there are, and
a device that is connected is let in.

### Certificate manager (`cert/cert.go`)

State: the configuration in force, the PEM material, the certmagic context and the
fingerprint it runs under, the renewal flag; a certmagic cache per start of ACME,
whose maintenance nobody stops; on the disk `cert.pem` and `key.pem`, replaced one
after the other, and certmagic's own storage. Operations: `Start`, `Reconfigure`,
`Stop`, `CertRenewed`, and `OnEvent` on goroutines of certmagic. Hard: reconfiguring
tears down before it sets up; a crash, a failed write or a renewal leaves halves of
two pairs; a renewal's handler reads the domain, loads two files and stores them beside
the loop, also for a cache that was given up; the flag is taken by a poll that may
fail, and a kernel that does not restart keeps its old certificate. Correct when: no
certificate is served with another pair's key, one context runs when ACME is
configured, the material is from the source that is configured, and the kernel comes to
have it.

### Process and reload (`cmd/xboard-node/main.go`, `config/watcher.go`)

State: the round's context, its `doneCh` and `errCh`, `reloadCh` (capacity 1), the
watcher's timer, the goroutine for signals, the health server and its port. Operations: a round of
`runWithReload`: launching a goroutine per node, waiting for them, for a new
configuration or a signal, ending the round. Hard: a second change during a
reload, a signal during a reload, more failing nodes than `errCh` has room for, a
health port that changes with the rounds or is taken.
Correct when: no node runs in two rounds, the process ends only for a reason, and
signals, failures and changes have their effect.

### Configuration file (`config/config.go`)

State: none; the main goroutine keeps the `RootConfig` of the round. `LoadRoot`
inherits settings from the top level, applies the environment, derives IDs and
default directories and validates each instance; `NormalizeInstances` and
`ValidateStartupLayout` check the instances side by side; `ExpandNodes` and
`ExpandMachineNode` derive a configuration per node, with directories of its own.
Hard: the steps build on each other and each may be overridden in the file, while
nodes that share a directory destroy each other's database or certificates, and one
whose directory moves asks for new certificates. Correct when: nodes that run at one
time have directories of their own, and keep them over reloads.

### Components not modelled

| component | why |
|---|---|
| standalone mode (`controlplane/local.go`, `config/standalone.go`) | a constant snapshot: nothing changes after the start |
| node specification and validation, kernel configuration builders | pure conversions; the models take the sets of rejected configurations as constants |
| DNS providers, geo data, monitor, logging | tables, I/O and readings of the host; no protocol |
| Telegram bot, `xbctl`, installers | separate programs, I/O and text |

## 2. Modules

| module | models | builds on |
|---|---|---|
| `UserLists` | user lists as functions from IDs to credentials, and what a delta adds, removes and updates | - |
| `SingBoxKernel` | the kernel: what it serves and admits, with failing starts and re-creations | `UserLists` |
| `ServiceState` | the loop's handlers as functions from a service record to the set of records they can leave | `SingBoxKernel` |
| `Backoff` | `apiBackoff` | - |
| `PullLoop` | a node that polls: panel, API client, goroutines, select loop | `ServiceState`, `Backoff` |
| `PanelEvents`, `PanelPush` | events a panel sends, and panel edits that are pushed | `UserLists`; `PullLoop` |
| `PushNode` | `PullLoop` with a WebSocket client of its own | `PanelPush` |
| `Mailbox` | `NodeMailbox` and its token channel, as functions on a record | `PanelEvents` |
| `NodeMailbox` | read goroutine and loop around one mailbox | `Mailbox` |
| `LatestState` | the promise of a mailbox, with no mutex, token or merging | `UserLists` |
| `MachineNode` | a node in machine mode from `startNode` on | `PanelPush`, `Mailbox` |
| `Orchestrator` | `Run`, `rediscover`, `startNode`, `stopNode`, `stopAll` and the goroutines of the nodes | - |
| `Traffic` | counters, tracker, reports, restarts, shutdown | `Backoff` |
| `Reports` | `Traffic` with the devices that go with reports and over the push channel | `Traffic` |
| `Connections` | routing and closing connections against updates of users, limits, reports and the kernel | - |
| `XrayKernel` | the xray kernel: accounts, limits and instances, with failing starts | `UserLists` |
| `XrayNode` | the service's handlers around it, in any order | `XrayKernel` |
| `LimitDispatcher` | admission, tracking and release of connections in the xray dispatcher | - |
| `CertManager` | certificate manager, certmagic's goroutine, the disk and the service's loop | - |
| `Reload` | `runWithReload`, its nodes, the watcher and the goroutine for signals | - |
| `StartupLayout` | from the parsed file and the environment to instances, IDs, directories and nodes | - |
| `ProcessLayout` | `Reload` with the contents of the file | `Reload`, `StartupLayout` |
| `PushNode_proofs`, `Reports_proofs` | theorems about `PullLoop` and `PushNode`, about `Traffic` and `Reports`: the second of each extends the first | `PushNode`; `Reports` |
| `XrayNode_proofs` | theorems about both halves of the xray kernel | `XrayNode`, `LimitDispatcher` |
| other `*_proofs` | theorems | the module of that name |
| `MC*` | constants for TLC | the module of that name |

### How they correspond to the code

**Users and configurations.** A list is a function from user IDs to a
credential or `Absent`; changing a credential is replacing the UUID of a known
user. A configuration is its version number, in the order the panel issues them;
`Content` says which versions say the same: a 304 and a hash compare contents, so a
configuration may return to the panel.
`Unrunnable` versions are rejected by the kernel's `Reload` and `Start`,
`Malformed` ones by the validation of a pull or an event. Hashes are taken to be
injective, so a hash is the value it was computed from.

**Handlers.** A handler of the loop is one action: between two `select`s no
other case of the loop runs, and the goroutines touch only `pullActive`,
`pullResults`, the backoff and the ETags, which the handlers read at one place. That a
goroutine ends between the two pull calls of one handler is not distinguished
from its ending before or after the handler. Handlers have several outcomes
(the library may fail at any call), so `ServiceState` maps a service record and
inputs to a *set* of records.

**A pull goroutine** has the steps the code has: `Fetch` (configuration and users,
two requests that read the panel, each of which may fail, with the ETag stored
between them), `Deliver` (blocked while the channel is full), `Exit` (the flag
is taken down). The panel may change between any two of them, the two
requests included.

**WebSocket.** Bytes in transit are not a state: an event waits in `wsEvents`
instead, whose order is that of the connection. `ConnectReturns` covers a failed
dial and a lost connection. The events of a full sync come with the connection, and each
that does not fit asks for a resync, as far as `wsStatusCh` has room. That ten minutes of disconnection have passed before
`wsDiscovery` runs is left open: it may run at any moment the other conditions
hold.

**Mailbox.** In `NodeMailbox` the read goroutine's merge (under the mutex) and
its token (after it) are two steps, and so are the loop's token and its drain:
that is where a wake-up could be lost. `MachineNode` merges each pair, which
the invariants and the refinement of `NodeMailbox` justify.

**Orchestrator.** Each action is one critical section of `mu` or `eventsMu`, a
request, or a step of a node's goroutine. Two pairs are merged because nothing
can come between that matters: deleting the mailbox and `cancel` in `stopNode`,
and entering the mailbox and starting the goroutine in `startNode`. A handle that
nothing refers to any more is used again for the next node, which keeps the
instance small. `overlapped` is a history variable: two rediscoveries were under
way at a time. The requests `startNode` makes for the kernel's type change nothing
and are left out. The process stops in the end, hence `CHECK_DEADLOCK FALSE`.

**Traffic.** One direction is modelled: uploads and downloads are handled alike
and independently. Traffic of the box that a restart replaces is not counted any
more, as in the code. `pushActive` is cleared last, so one goroutine slot is
enough. The process may exit at any time after shutdown began; hence
`CHECK_DEADLOCK FALSE` there, as in `MachineNode`, whose node goroutine ends when
its bootstrap fails.

**Reports.** `FlushAliveIPs` hands out its own buffer, and the report's goroutine
encodes it later, so a flush in between is a data race: the report then carries
any mixture of the old and the new devices (`Torn`). The devices of all users are
one set, since a report carries all of them. `slipped` is history: what the
tracker takes for reported was lost, dropped or overtaken by older news. The
report at shutdown carries no devices in the model.

**Connections.** Each action is one critical section. A rate limiter is named for
the connection that built it, so that two limiters of one user can be told
apart. What a connection has read is forgotten where the code is done with it.
`peers`, `dropped` and `outdated` are history variables of the properties: the
connections of the same device that were counted when a connection was routed,
the users whose limiter was ever deleted, and those whose limiter was inserted
after `UpdateBuckets` with a speed read before it. A connection that is rejected
and one that is closed do nothing more, hence `CHECK_DEADLOCK FALSE`. UDP
connections differ in having no reference in `connMap` only.

**xray kernel.** As with sing-box an operation maps a kernel record to the set of
its outcomes; only the loop calls them, so each is one step. An account is keyed
by its email, one per ID, which is why a list that changes a credential finds the
email taken. `XrayNode` leaves open what reaches the handlers and in which order:
how it arrives is `PullLoop`'s and `PushNode`'s matter. `rekeyed` is history: the
users whose credential a whole list changed under a running instance.

**xray device limits.** Each step is one hold of `mu` or one operation on a
`sync.Map` or an atomic. The tables of different users share only `connCount`, so
one user is modelled. Releasing the read lock before the write lock can find the
table gone: the increment of a nil map is the step to `crashed`, after which
nothing happens. `listed` is history: a connection was counted under a limit;
`shared` says the same of the lock-free table, whose outer entry is never deleted.

**Certificates.** A pair is named by its source and a serial number, material is
two halves. `Start` and `Reconfigure` are several steps of the loop, between which
the renewals' handlers, a crash or a failed write may come. `live` counts, per domain,
the contexts of `ManageAsync` that are not cancelled; `caching` is the set of domains
that some cache of this process maintains, and only a new process empties it. A
renewal is a step of certmagic (`Renew`), then one step each for reading the domain,
loading the pair, storing it, the two files and the flag; the handlers of different
domains run side by side, those of one domain one after the other. Modes `http` and
`dns` differ in the challenge only and are one mode `acme`. Users come and go
(`UpdateUsers`), and every start and restart of the kernel may fail. `fault` holds four
ghosts: whether the last start of the manager failed, whether a renewal stored for
another configuration than the one in force, whether a poll that knew of a renewal
failed, and whether the kernel's last start did. The end of a service is taken for the
end of its process: after a reload, or when machine mode starts a node again, the old
service's caches would live on beside the new manager and write to the same directory.

**Reload.** A node of `Reload` is a goroutine that may serve one; a version of the
file asks for those in `Serving`, and `errCh` has `Room` for its instances. A
version stands for its content; `Invalid` ones are refused by `LoadRoot`,
`Misfits` by `ValidateStartupLayout` and, the `Nameless` among them, already by
`NormalizeInstances`. `health` is `healthPort` and whether there is a server;
`PortTaken` is the exit of `startHealth`. A port that is taken when the program starts,
before the first round, is not a behaviour of the model. `ghost` records that a signal
was sent, that it was thrown away, that a change fell into a reload, that a node failed
and that a port was taken.

**The configuration file.** `StartupLayout` has one operator per function of
`config.go`, in the order `LoadRoot` calls them, on records with the settings that
a check or a directory depends on. A path is a tuple, a URL a model value whose
panel is `Panels[url]`; whether a file, a standalone section or an interval is
acceptable by itself is the field `complete`. `ProcessLayout` gives every version
of `Reload` a content and assumes (`ContentsDecide`, which TLC evaluates) that
`Invalid`, `Nameless`, `Misfits`, `Serving` and `Room` are what the content makes
them; a goroutine is then named by its instance and its node in it.

## 3. Runs

Constants that appear throughout: `Pulls` = two goroutines (the flag admits one;
a second is needed to see it fail to), one or two users, two credentials where a
replacement matters, `MaxEdits` panel changes, `MaxFaults` failing requests,
`MaxRenewals` certificates, `MaxFlaps` connection losses, `MaxMoves` changes of
the endpoint. `KernelFaults` says which library calls may fail ("start" also
stands for a restart that finds the old port still taken).

| run | shows | bounds, and why they are enough |
|---|---|---|
| `PullLoop` | the kernel is in step; a renewed certificate is running or on its way; results are applied in the panel's order; polling converges to a configuration that is new | 5 edits: the third goes back to the first configuration, one is unrunnable, one malformed, and two are good, so that the service could go back from the last to the one before; a failing request reaches the backoff and, with the next pull, its end; 2 renewals, before a pull and during it; an update in place that fails before it touched the inbound, or after it removed it |
| `PushNode_safety` | pulls exclude each other; nobody admitted who is not on record, although updates in place fail before or after they removed the inbound | 2 users with 2 credentials, 2 edits, as whole lists or deltas; channels of capacity 1, so they overflow at once; a full sync; a renewal, which makes a pull restart the kernel |
| `PushNode_heal` | with push down for good, polling brings a configuration that is news to the node | 2 edits, ETags, a failing request, a start that may fail; one goroutine, since `PushNode_safety` shows that pulls exclude each other; one event can wait, and a full sync of two does not fit |
| `NodeMailbox` | wake-ups; the mailbox implements `LatestState` with its liveness | all events over one user, two credentials and two configurations; the state space is closed, no bound is needed |
| `MachineNode` | from the first request on, a connected node converges on events alone | status channel of 1, a failing bootstrap, a renewal, a lost connection, 2 edits |
| `Reports` | every unit in one place until a restart; never overcharged; all is billed in the end; devices become known | one user, one device, which comes, goes and comes again (3 moves), a restart, a failing report, a lost connection, room for one message in `writeCh` |
| `Orchestrator` | running nodes stoppable under overlap; routed and served without; removed nodes end; shutdown ends all | one node (every section touches the entries of one node; the theorem has any number), two handles (an old and a new one), the main loop and one goroutine of `sync.nodes`, 3 changes of the assignment (away, back and away), 2 `sync.nodes`, one failing request |
| `Connections` | counts exact; a connected device admitted; limiters shared and current | 2 connections, 2 addresses, one user who loses and regains limits; one update (and its rollback), report and restart each; the theorems have any number of each |
| `XrayNode` | accounts and limits in step; revoked at once; stays up | 2 users with 2 credentials and 2 limits, a configuration whose protocol has a user manager and one whose has none, one failing start, one renewal |
| `LimitDispatcher` | links counted; table exact; no phantom; a connected device admitted | 3 connections of 2 devices, TCP and UDP: two of one device and one of the other are what every race here needs; limits 0, 1 and 2 that change at any time |
| `CertManager` | only pairs; a context for the ACME that is configured; material of the configured source unless a renewal strayed; the kernel catches up unless a poll or a restart failed | 7 configurations over 2 domains (interchangeable, hence symmetry) and a pair beside the local one; the bootstrap's and one more are sent, so that ACME is given up for another domain or mode; 3 pairs issued: two domains and a renewal; a crash |
| `Reload` | rounds disjoint; exit has a reason; nodes that run share no directory and keep theirs; signals, failures and changes take effect | 6 contents: two with the same two instances in either order (one of them then with a directory of its own), one without instances and with two nodes, so that `errCh` overflows, and one refused by each of the three checks; two health ports and none; 2 changes, so that one can fall into the reload of the other; a signal (what a second one does, 15 s do too); 2 failures of nodes or ports |

Type invariants are theorems (`TypeCorrect`) and not listed in the runs.

`NoStrangerAdmitted` tells users by their IDs. What is left of `KernelInStep` when
updates in place fail and the panel sends deltas is that nobody is admitted who is
not on record; of a user whose credential a delta replaced the kernel may keep the
old one, as the first of the disagreements below shows. When starts fail as well, not
even that is left: a restart that fails after a failed reload leaves the kernel down
and the record ahead of it, and the two part.
`RenewalNotLost` is stated for runs in which no poll has failed and no
configuration been malformed, because a poll that fails does lose the flag
(see the hazards).
`Routed` and `AssignedNodesServe` have the premise that rediscoveries never
overlap: `unregisterNode` and `stopNode` delete by ID, so a rediscovery that is
overtaken can delete the routes of the node that another one started.
`ShutdownEnds` covers a reload too, where the process goes on with new instances:
a node that a rediscovery starts after `stopAll` ends because its context is
already cancelled, but nobody waits for it.
`ConnectedConverges` has premises: the node has not exited, no delta ever asked
for a reconciliation, and lists do not become empty; the code does need them (see
below).
`DevicesReported` excludes what has slipped: nothing is sent again until the devices
change, because the hash has been stored.
`AccountsInStep` excludes users whose credential a list replaced, and its run has
`Overtaken` FALSE: a pull that brings a configuration that already runs, with other
users, only records them when the hash has not changed since the last start.
`RevokedAtOnce` is checked with one failing start. With two it is false: after the
first the record's configuration is ahead of the kernel's and hot changes go on under
it; a pull back to the list that was started last is taken for nothing new, so the
kernel forgets accounts the instance still has; when the next start fails too, a user
among them who leaves the record stays admitted (8 steps of `XrayNode` with
`MaxFailures` = 2).
`RefsExact` and `ConnectedDeviceAdmitted` are about users that were only counted
under a limit, `NoPhantomDevices` about users that were not counted in both tables:
what was counted in one table may be counted off in the other.
`Converges` is about nodes that have users from the start on and a configuration that
the kernel can run and the panel has not had before, `PollingHealsConfig`
about one that neither the ETag, nor the record, nor a pull or result under way has
heard of once the events queued before the loss are handled. Without these premises both
are false (see below). `ConfigNeverRegresses`
is about versions: what is applied later was issued later.
`AcmeFollowsConfig` counts contexts; the caches outlive them.
`MaterialFollowsConfig` and `KernelCatchesUp` name the renewals, polls and restarts that
break them, `StopHonoured` and `LastWriteTakesEffect` the signals, failures and changes
the code loses.
`NodesApart` is about files that name no directory for certificates and have no
kernel or certificate section for single nodes; what happens with those that do is
listed below. `DirsStay` compares files that both have several instances or both
have not.

### Disagreements with what the code says of itself

The models follow the code where it differs from its comments and documents. Each
of these follows from a few lines, or was met as a counterexample of a property
before its premise was found. Quotation marks stand around what is quoted.

| what the code says or assumes | what happens |
|---|---|
| "User operations (AddUsers/RemoveUsers) are designed to be atomic and non-disruptive" (`kernel.go:38`) | the removal of a replaced credential may fail and the error is ignored (`service.go:809`); `AddUsers` then skips the known ID and succeeds, and the old credential stays admitted: one user and one delta in `PushNode` when an update can fail before it touches the inbound, two users and two edits when it can fail after |
| the same | with one user the xray kernel is stopped by that removal, and neither `AddUsers` nor `UpdateUsers` starts it (`service.go:818`): the node is down until the next list, delta or configuration |
| "kernel will not start until users are available" (`service.go:308`) | a node that bootstraps without users drops lists that come later without a configuration (`service.go:771`) and never starts until its configuration changes: `Converges` is violated after one edit without its premise on users |
| the node is kept in sync by push and by "REST" polling (`README.md:8` of the repository) | the panel goes from A to B and back: a result with B waits in `pullResults` while the next pull captures the hash of A (`service.go:611`), fetches A, stores its ETag and drops it as unchanged (`service.go:628`); B is applied and 304 hides A for good. In `PullLoop` `<>[](Content(svc.cfg) = Content(pcfg))` is violated by two edits, with no failure at all |
| the same | `GetConfig` stores the ETag (`client.go:251`), `GetUsers` fails and the poll is dropped (`panel.go:77`): the configuration is 304 from then on. `Converges` is violated by one edit when `RequestFaults` has "users" |
| "On disconnect: record timestamp, immediately REST poll" (`service.go:442`) | an event that was queued before, and is handled after the poll's result, overwrites the newer configuration (`service.go:556`), which 304 then hides. `PollingHealsConfig` without `NewToNode` is violated by one edit after a full sync |
| "pull once to ensure we haven't missed any updates" (`service.go:458`) | the pull may be skipped, or an older one applied after newer events |
| `SeedBaseline` lets deltas be "applied incrementally" (`mailbox.go:48`) | a delta that arrives before the seeding, and after the REST answer was made, leaves a connected node with wrong users |
| "simple exponential backoff" (`service.go:90`) | each failure skips exactly one tick (theorem `BackoffNeverGrows`) |
| "`appliedState` tracks the configuration and users ... running in the kernel" (`service.go:47`) | hot swaps do not update it |
| "If WS config changed ..., restart with new config" (`service.go:486`) | an existing client is kept |
| "ws state may be stale, scheduling REST reconciliation" (`service.go:426`) | a skipped or failed pull leaves the resync pending |
| events are "drained as a single snapshot" (`mailbox.go:21`) | the list left after removing the last user reads as "no list" |
| "Guard against counter reset (kernel restart)" (`tracker.go:95`) | only a smaller counter is recognised |
| "used only during shutdown to ensure final data is sent" (`service.go:1003`) | traffic since the last track tick is not sent |
| "no-op if already running" (`machine/machine.go:251`) | also a no-op for a node whose `Run` has returned an error: it is not started again |
| "each node service drains the latest state when ready" (`machine/machine.go:41`) | after overlapping rediscoveries a running node may have no mailbox in the map |
| the device gate "rejects connections exceeding device limit" (`conntracker.go:313`) | two connections may pass it before either is counted, and a lower address passes beside those connected |
| "Remove first, then add (order matters for UUID changes on same ID)" (`xray.go:468`) | `UserDiff` names such a user among those to add only: nothing is removed and the old credential stays |
| the xray `Reload` skips a start when `lastKernelHash` says nothing changed | hot changes of users leave the hash alone, so a configuration and list that were started before are only recorded, and accounts and record part |
| "allowing the dispatcher to release device-limit state when the link closes" (`dispatcher.go:156`) | a device counted in one table and released from the other stays in the first |
| a device known under the read lock is incremented under the write lock (`dispatcher.go:292`) | the user's table may be gone since the read lock was given up: a write to a nil map |
| "certificate renewed, kernel restart needed" (`service.go:650`) | a poll that fails forgets it, and so does a restart that fails (`service.go:926`), which is only logged; while push is connected no poll takes the flag at all (`service.go:223`) |
| "HealthPort enables a lightweight HTTP health-check endpoint" (`config.go:32`) | a round without a port closes the server but remembers the old port (`main.go:62`), so that the same port is not served when it comes back (`main.go:144`): in `Reload` `health.on` stays FALSE after two changes |
| `HealthPort` is a setting of every instance (`config.go:32`) | only that of the first instance is listened on (`main.go:149`), and a port that is taken ends the process in the middle of a reload (`main.go:68`) |
| "tearDownACME cancels the running certmagic background goroutines" (`cert.go:165`) | it cancels the context of `ManageAsync`, but the cache of `cert.go:410` is never stopped: its renewals go on, read whatever domain is configured (`cert.go:430`) and store that pair later, perhaps under another configuration. `MaterialFollowsConfig` without `fault.stray` is violated with the constants of `CertManager.cfg` |
| `Reconfigure` returns an error that the service logs (`cert.go:157`) | the configuration's hash has advanced, so the same configuration is not tried again |
| "invalid reloads are logged and ignored" (`watcher.go:28`) | a file that loads but whose layout is not valid ends the process |
| a reload that fails is "logged and ignored" (`watcher.go:28`) | a file without instances whose `panel.url` has no host passes `LoadRoot`, and `NormalizeInstances` ends the process (`main.go:226`) |
| "Auto-derive a unique config_dir per node to avoid conflicts" (`config.go:775`) | not for an entry with a `kernel` section that names none: it has its instance's; and directories named for nodes are compared with nothing (`config.go:876`) |
| a node without a certificate directory has one in its own directory (`config.go:787`) | the instance's default was filled in before (`config.go:575`), so that the nodes of an instance write to the same `cert.pem` and `key.pem` |
| "unique sub-directory per instance to avoid config_dir collisions" (`config.go:272`) | with one instance it is not used, so adding a second one moves the first one's directory |
| IDs are derived from the panel's normalized URL (`config.go:653`) | node bindings compare URLs as they are spelled (`config.go:893`): two spellings serve one node twice |
| `errCh` has room for one error per instance (`main.go:152`) | every node of an instance sends its own: with more failing nodes than instances the process hangs |

### Fairness

Weak fairness of the loop's cases, one by one: Go's `select` picks among the
ready cases at random, so a case that stays ready is served, and tickers keep
firing. Weak fairness of goroutines: they are scheduled, and requests have a
timeout, so a fetch ends. Nothing is assumed of the panel, the network, the
kernel library or the certificate authority;
`StopAll` has strong fairness, since the `select` that is offered a cancelled
context again and again between ticks chooses it in the end; failures are bounded by
`MaxFaults`, and whether a client stays connected is a premise of the property.
`Reports` adds the encoding of a report and the goroutine that writes the push
channel; the ticker of device reports is given no fairness, as the report is a way of
its own. In `Reload` goroutines that can run do, timers fire and a watched file is
noticed; nobody has to write, signal or fail. Services end when they are cancelled, a node
that blocks on `errCh` excepted.

## 4. Proofs

Proved for all values of the constants (`PROJECT.json`, "theorems"):

* **`Orchestrator_proofs`.** `TypeCorrect` (`TypeOK`) is inductive by itself: it
  ties the stage of a goroutine to whether it holds a handle. `NodesStoppable`
  (`NoOrphans`) needs two facts more: a handle about to be launched has not been
  launched and belongs to one `startNode` only (`Launches`), so that a launch
  cannot revive a handle another goroutine has stopped, and a handle in use names
  its node (`Placed`). `EventsReachTheirNode` (`Routed`) adds that whoever runs is
  in `nodes` or being stopped, and that a node being stopped is not in `nodes` any
  more (`Traced`); with one rediscovery at a time (`Alone`) two services of a node
  cannot be alive, so that what `unregisterNode` deletes is the handle's own.
* **`PushNode_proofs`**, for a node that polls (`Spec`) and one with push
  (`PushNodeSpec`). `TypeCorrect` (`TypeOK`) and `PushTypeCorrect` (`PushTypeOK`): the
  latter needs that the channels hold only what the push client posts (`LinkOK`).
  `PullsExclude` and `PushPullsExclude` (`SingleFlight`) need that the flag is up
  exactly while a goroutine is between its start and its exit; whoever starts a pull
  does so by the same step (`Pulling`). `BackoffNeverGrows` shows `BackoffShort`: the
  counter stays at most 1, so failures are never added up. `ConfigMonotone`
  (`ConfigNeverRegresses`) is an action property; it follows from `InOrder`
  (`PullsInOrder`), which relates the configuration in the kernel, in the record, in
  the channel, with the goroutine and at the panel, and is inductive together with
  `SingleFlight`: without it two results could be under way. It holds with polling
  only: events and results do overtake each other.
  `InStep` says that a running kernel has the configuration and the list on record,
  credential by credential, and, unless starts fail, that it runs. Every handler
  keeps it (`KernelAgrees`, `PushKernelAgrees` for `KernelInStep`, `RecordIsRun` for
  `RunsRecord`), because a failure is made good in the same step: by the restart
  after an update in place that fails when no start does, by the old record when a start does. With deltas
  no update in place may fail, for the reason above. `RenewalsKept`
  (`RenewalNotLost`) adds where a renewal can be between the manager and the kernel.
  `StrangersKeptOut` (`NoStrangerAdmitted`) is about the case `InStep` is lost in:
  deltas and updates in place that fail. Its invariant `Known` says
  that the kernel has accounts only for users in its own list, and only users on
  record in its list, whatever was recorded and taken back.
* **`NodeMailbox_proofs`.** `WakeupsKept` (`NoLostWakeup`) and
  `MailboxImplementsLatest`: the initial state maps to `LatestState`'s and every
  step to one of its steps or a stutter. The invariant it needs says that what is
  not marked dirty in the mailbox is what the loop was last handed.
* **`Reports_proofs`.** `NobodyOvercharged` (`NeverOvercharged`) and
  `TrafficAccountedOnce` (`AccountedOnce`) for `Traffic`. The invariant is a ledger:
  the units in the panel, in the report, pending and still in the counters sum to at
  most what was carried, a payload under way has been taken from the
  pending traffic, and a counter of the running kernel is never behind what the
  tracker has seen of that kernel. `NobodyOverchargedByReports` and
  `TrafficAccountedOnceByReports` carry both over to `Reports`: each of its steps is a
  step of `Traffic`, leaves `Traffic`'s state alone, or is the race on the buffer that
  ends the process (`ReportsStep`). `DevicesAccounted` proves the safety half of
  `DevicesReported`: as long as nothing has slipped, the panel knows the devices the
  tracker takes for reported unless a report or a message with them is under way.
* **`Connections_proofs`.** `CountsAreExact` (`CountsMatch`), `OwnDevicesAdmitted`
  (`OwnDeviceAdmitted`), `LimitersShared` (`LimiterShared`) and `BucketsAreCurrent`
  (`BucketsCurrent`), for any number of connections, users, addresses and
  restarts. The invariant adds three things: the companions a connection knew when
  it was routed are counted where it was, or closed, until it has looked at the
  counts, and all closed once it has found its device unknown (`Companions`, which
  needs the counts to be exact); a connection holds its user's bucket unless that
  was deleted (`Holding`), so that a new bucket contradicts nobody; a bucket is
  named for a connection of its own user (`Owned`), so that no two users share a
  limiter and `UpdateBuckets` gives each its own speed.
* **`XrayNode_proofs`**, for `LimitDispatcher`: `LinksAreCounted` (`ConnCountExact`), `TableIsExact`
  (`RefsExact`), `ConnectedAreAdmitted` (`ConnectedDeviceAdmitted`). `RefsExact` needs
  that before `shared` is set no connection holds a lock-free counter or is about to
  count itself off there, and that only TCP connections are counted off at all.
  `NoneIsInvented` (`NoPhantomDevices`) bounds every counter by the connections that
  hold a place in it (`CountersOwned`, `CountersBounded`).
  For `XrayNode`: `XrayTypeCorrect`, and `AccountsAgree` (`AccountsInStep`), whose
  invariant `Agreement` adds that the kernel's own list is the record's, which is what
  every hot change is computed from, and that the hash is of the configuration, so
  that a new configuration is never taken for the old one. `RevocationImmediate`
  (`RevokedAtOnce`) rests on `Known`: a user on record who has an account is in the
  kernel's list, or the removal would not find it. Every handler keeps that, failing
  or not, but a configuration whose start fails: the record has moved on to a list the
  kernel never saw, hence the premise of at most one failure, before which the accounts
  agree, or of none. `OutagesExplained` (`StaysUp`) assumes nothing.
* **`CertManager_proofs`.** `OnlyPairsServed` (`ServesOnlyPairs`), `ContextsFollow`
  (`AcmeFollowsConfig`), `MaterialIsConfigured` (`MaterialFollowsConfig`),
  `KernelIsCaughtUp` (`KernelCatchesUp`). Each is made inductive by saying what holds in
  the middle of a start or a reconfiguration: what the loop's place says of the
  configuration, and when ACME runs (`Staged`); whose context is live while one is being
  made or cancelled (`OneContext`); where the material at hand is from unless a renewal
  strayed, and what the loop and the handlers are about to store (`Sourced`); and that
  material the kernel has not got is known to somebody
  (`CatchesUp`, with no kernel before the first start: `NoKernelYet`). Nothing is
  assumed of how many renewals run, or of which domains the caches have.
* **`Reload_proofs`.** `RoundsNeverOverlap` (`RoundsDisjoint`) and `EndsForAReason`
  (`ExitHasReason`), whose invariant says at every step why the context is cancelled; a
  health port that is taken is one of the reasons.
  `NothingIsShared` (`NodesApart`) needs that whoever is at work is served by the
  round's configuration, which has passed the checks (`Working`: the configuration
  changes only while all are done), and that a layout which passed them is apart
  (`ValidIsApart`): directories of instances differ because their IDs do, a node's
  is inside its instance's and no instance's is inside another's.
  `DirectoriesStay` (`DirsStay`) follows from the ID being all that a default
  directory depends on.

Assumptions are the named ASSUMEs beside the constants: capacities are positive,
bounds are naturals, sets of faults are subsets of the known ones.

Assumptions a theorem makes beside those are in its statement, and each excludes a
case in which the property is false: starts that fail, or updates in place that fail
while the panel sends deltas, for the agreement of kernel and record; overtaken
pulls, and a second failure, for `XrayNode`.

Only model-checked: every liveness property and the liveness of the refinement
(TLAPS proves no fairness or ENABLED), which are `Converges`, `PollingHealsConfig`,
`ConnectedConverges`, `EventuallyBilled`, `DevicesReported`, `RemovedNodesLeave`,
`ShutdownEnds`, `AssignedNodesServe`, `StopHonoured` and `LastWriteTakesEffect`; and
`MachineNode`, whose run checks nothing else. Every safety property of a passing run has its
theorem.

## 5. Not modelled

Inside the components that are modelled, these parts are not:

* service loop: metrics and log levels; standalone mode.
* sing-box: closing connections by ID, the rate-limited reads and writes, recycling
  an old box, the byte counters of single connections (`Traffic` has their sums).
* WebSocket client: authentication, ping, the reconnect delay, the goroutines inside
  `WSClient`; connecting and losing a connection are one step each.
* machine mode: status reports, the changes of intervals.
* reports: online counts, speeds, metrics, the devices of the final report.
* xray: recycling an instance and its counters (`aggregateStats`), `ResetConns` and
  `closeOld`, the iteration of `GetConnectionState`, `xrayCreationMu`.
* certificates: parsing PEM, the ACME challenges, DNS providers; the caches that a service
  leaves behind when its process goes on.
* process: what the health server answers, and the runtime settings.
* configuration file: YAML, how a URL is normalized, `Load`, settings for logging,
  intervals, the push channel and geo data, which nothing here depends on.

The rest of the repository has no protocol to check (see the inventory): most of its
lines are conversions from one record to another, where a model would restate the
code.

## 6. Plan

What could be added, in this order:

1. Proofs: type correctness, `SingleFlight` and the agreement of kernel and record for
   `MachineNode`; what the two failures of `XrayNode` leave of `RevokedAtOnce`.
2. `WSClient`: connect, read, ping and write goroutines, cancellation.
3. Recycling: the drain of an old xray instance or sing-box box against connections
   that still open through it.
