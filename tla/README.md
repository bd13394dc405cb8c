# A verification project for the Kowabunga Ansible collection

TLA+ models of the parts of this collection that keep state and can go wrong,
model-checked with TLC on small instances, and proofs with TLAPS for instances
of any size. Paths below are relative to the repository (`src/`).

## 1. The system

The collection provisions a Kowabunga cloud. It has four sorts of code:

* **Ansible modules** (`plugins/`). 22 modules, one per resource kind of the
  orchestrator (Kahuna), on one base class, `KowabungaModule`. A module run
  is a process of its own that calls the orchestrator's HTTP API.
* **Roles** (`roles/`), run by `playbooks/` on the hosts: packages,
  configuration, and stateful provisioning (Ceph, MongoDB, libvirt).
* **hostctl** (`roles/hostctl/files`), a shell script installed on the hosts
  that starts and stops their services.
* **mitogen** (`roles/mitogen`), the strategy that plays run with: processes,
  threads and messages that take the place of one ssh connection per task. It
  is vendored, but every play goes through it, and it is most of the Python
  code here and nearly all of the concurrency.

### Inventory

| component | state | operations | interacts by | what is hard | correct when |
|---|---|---|---|---|---|
| reconciler: `plugins/module_utils/kowabunga.py` and the `run` of each module | of one run: arguments, IDs resolved, object found, copy read | validate, resolve list arguments, look up, predict, create, update, delete | API calls, one at a time | other runs between any two calls; calls that fail, answers that get lost; retries; stale copies; every error path must leave nothing half done | the effect and the report are those the request calls for; no other object is touched; names stay unique |
| resource modules: `plugins/modules` | none | declare arguments, parents, lists, scope | inherit from the reconciler | 22 variations of one protocol | the documented examples work |
| orchestrator (external) | objects by ID: kind, name, attributes, references, owner | list, read, create, update, delete | answers calls | shared by all runs | - |
| Ceph keyrings: `roles/ceph/tasks/authentication.yml`, `monitor.yml`, `main.yml` | key files on each host, plain and encrypted copies on the controller, monitor stores | stat, bootstrap once, fetch, deploy encrypted, deploy plain, mkfs, copy admin | files; Ansible's lockstep and `run_once` | hosts that fail at any task, interrupted plays, late and reinstalled hosts, reboots (a keyring is in /tmp), encryption between plays | one cluster key; the controller can always rebuild a monitor |
| other Ceph tasks: manager, osd, pools, metadata, filesystems, nfs, clients | cluster objects | `ceph` commands guarded by listings | the monitors | repetition after a partial failure | a further play completes the work |
| MongoDB: `roles/mongodb` | key file, configuration, replica set, accounts | write, start, restart on change, initiate once, create admin on every host, create users once | mongosh on each host, handlers | writes before or without a primary; `rc` 0 on an exception; lost notifications | the accounts exist when the role is done, and mongod runs what is configured |
| KVM: `roles/kvm` | libvirt networks, secret, pool, temporary files | test, define, autostart, start, remove | virsh | guards evaluated once; a play that stops in between | a second play completes the first |
| hostctl lock: `functions.sh` | lock file, process IDs | create, read, test, write, remove | file system, /proc | scripts that start together; crashes; reuse of IDs | one script acts at a time; a crash blocks nobody |
| hostctl actions: `hostctl.sh`, `functions.sh` | services | start, stop, stopstart per module and priority | systemd, ping functions | bounded waits, order across modules | modules are served in order, once, and what is displayed is true |
| hostctl tests: `functions.sh` | none | version comparison, formatting | - | versions of different lengths | an order |
| handlers of all roles | pending notifications, running configuration | notify, flush, restart | Ansible | a failure between change and flush | a daemon runs what is configured |
| network_detector | facts | select interfaces | - | corner cases of the selection | the right interface |
| keepalived, firewall, netplan, packages and services | configuration files | render, restart | - | nothing of their own beyond handlers | - |

The parts of mitogen (`roles/mitogen/mitogen` is the library,
`roles/mitogen/ansible_mitogen` what binds it to Ansible):

| component | state | operations | interacts by | what is hard | correct when |
|---|---|---|---|---|---|
| threads and I/O: `core.py` (Latch, Waker, Broker, Poller, Side, Stream, MitogenProtocol), `parent.py` (EpollPoller) | queues, sleeping readers, deferred functions, registered descriptors, buffers | get, put, close; defer, wake, drain, shut down; register, poll; write, read, frame | locks, pipes, one broker thread per process | wake-ups between check and sleep, timeouts, descriptors that are reused, reads and writes of any size | no reader is left asleep, every deferred function runs, messages arrive whole |
| messages: `core.py` (Router, Dispatcher), `parent.py` (RouteMonitor, CallChain) | routes, messages in flight, errors kept per chain | route, add and drop routes, call, answer, forget | streams of a tree of contexts | contexts that vanish with what they hold; news of it that races with replies | every call is answered, or its caller hears that it cannot be |
| bootstrap and connection: `parent.py` (Connection, Reaper, first stage), `core.py` (ExternalContext, LogHandler), `ssh.py`, `su.py`, `sudo.py`, `doas.py`, `fork.py` | a child, its streams and timers, the bytes between it and its parent | start, prompt and answer, send the core, hand over, reap | pipes, terminals, signals | timers against hang-ups against shutdown; prompts cut in two; pipes that fill up | who connects is told once how it ended, and nothing is left over |
| containers: `docker.py`, `lxc.py`, `kubectl.py`, `setns.py` ... | none | make a command line | the connection above | - | - |
| services: `service.py`, `select.py` | pool, invokers, transfers, pushed files | activate, deliver, invoke; fetch, acknowledge; propagate, get | messages; worker threads | calls that arrive while the pool is made; windows; several workers on one stream's calls | what arrives is served, one at a time; transfers end |
| importer: `core.py`, `parent.py`, `master.py` | sources per context, threads and children that wait | import, forward, answer, push | messages over several hops | answers that cross requests | an import returns |
| contexts: `ansible_mitogen/services.py`, `connection.py` | contexts by hop, references, waiting requests, LRU lists | get, put, reset, evict, forget | a lock, callbacks of the broker | code outside the lock; a context lost while it is used, awaited or answered | contexts in use stay, who waits is served |
| processes: `process.py`, `strategy.py`, `unix.py` | top process, multiplexers, workers, their bindings | fork, listen, connect, close, exit | socket pair, UNIX sockets | ends in any order, forked copies of state | a worker speaks to its host's multiplexer; multiplexers end |
| transport: `transport_config.py`, `connection.py` | settings, discovered interpreters | build a stack of hops | variables of several hosts | which host a value is looked up for | a hop has its own host's settings |
| runners: `planner.py`, `runner.py`, `target.py` | patches of the process, a job's status file | set up, execute, revert; fork, detach, time out | signals, files, the controller | partial set-up; a signal handler between two steps | a task finds a clean process; a job is accounted for |
| tools: `profiler.py`, `minify.py`, `affinity.py`, `loaders.py` ... | none shared | - | - | - | - |

PROJECT.json lists the hazards of this code line by line, and which property
covers each.

## 2. Plan

Most important first; all of it is done, but for what is said below.

1. `ResourceKinds`, `KowabungaModule`: the reconciler and its 22 kinds.
2. `EnsureResource`, `KowabungaRefinement`: what a task promises, and that the
   reconciler implements it.
3. `CephKeyrings`: where a mistake costs the cluster.
4. `HostctlLock`.
5. `MongoReplicaSet`: configuration with its notifications, initiation,
   election, accounts. (A module for handlers alone would have said the same:
   it is part of this one.)
6. `LibvirtProvision`: networks and pool across interrupted plays.
7. `HostctlActions`: priorities and bounded waits.
8. `VersionOrder`: a pure algorithm against its definition.
9. The eighteen machines of mitogen: what threads share (`MitogenLatch`,
   `MitogenBroker`, `MitogenPoller`, `MitogenStream`); what contexts say to
   each other (`MitogenRouting`, `MitogenCalls`, `MitogenImporter`,
   `MitogenPool`, `MitogenFiles`, `MitogenPush`); how they come to be
   (`MitogenConnection`, `MitogenBootstrap`, `MitogenLogin`); how plays use
   them (`MitogenProcess`, `MitogenContexts`, `MitogenTransport`,
   `MitogenRunner`, `MitogenAsync`).
10. Proofs, in the same order: the reconciler and that it implements its
    promise, the Ceph keyrings, the lock, the machines of the roles, and fifteen
    of the machines of mitogen.

Left to TLC: what section 5 lists as only model-checked. The network
detector is not modelled: it is a choice over gathered facts, made in one
expression.

## 3. What is modelled

### ResourceKinds

One record per module: the kinds its `_create` looks up as parents, the kinds
of its list arguments (`resource_arg_maps`), what an empty list argument does,
whether it is looked up globally or below a parent, and its arguments declared
`immutable`, mutable, without either, and `required`. `record` counts twice: a
task of it names a project or a region.

### KowabungaModule

`object`, `live` and `witness` are the orchestrator's store: contents by ID,
the IDs that exist, and, as history, what each object's creator had listed.
`run[r]` is the process `r`: its `step` is where it is in `run()`.

| code | actions |
|---|---|
| a task starts; `AnsibleModule(...)` checks required arguments | `Start`, `Validate` |
| `_build_kwargs`, `_find_resources_by_name` | `SkipRefs`, `List`, `ReadRef`, `ReadOther`, `RefsEnd` |
| `_read`, `_find_resource_by_name`, `_find_*_in_*` | `List`, `ListGone`, `ReadHit`, `ReadOther`, `NotFound` |
| an object is gone between list and read | `ReadGone` |
| `_build_update`, `_will_change`, check mode | `Conflict`, `Predict`, `LeaveAlone`, `Prepare` |
| parents in `_create` (and, for `kawaii_ipsec`, in `_update` and `_delete`) | `List` ... `NotFound` with `goal = "parents"` |
| the mutating call, its answer lost or not | `Create`, `Update`, `Delete`, `Rejected` |
| `OpenApiException` in `__call__` | `Fault` |

Each API call is one step; what a process computes between two calls is part
of the step before. Abstractions: scalar attributes are a few
fields with a few values, only the name is data of its own (a task may give an
ID for it); the orchestrator refuses a call on an object, or below a parent, that is gone,
and otherwise accepts it. IDs are never reused.

### EnsureResource and KowabungaRefinement

`EnsureResource` states a task's promise in one atomic step on the store: no
listing and no copy. The mapping collapses a run to its mutating call or exit
and forgets the order of list attributes. It is implemented when tasks do not
overlap and listings keep their order: that is the case of one play, and the
property `ImplementsEnsure`. Overlapping tasks do not implement it (their
writes may undo each other); for those there are the properties of `race`.

### CephKeyrings

`key[h]` are the three keyring files of host `h`, `mon[h]` the key its monitor
store was made with, `plain` and `sops` the controller's copies, as the
number of the bootstrap that generated them; `task`, `playing` and `todo`
are Ansible's lockstep over the tasks `stat`, `bootstrap` (the five
ceph-authtool commands: nobody else looks at the files until they are
fetched), `fetch`, `sops`, `plain`, `mkfs`, `admin`. A `run_once` task executes on the
first host that has not failed, looks at that host's condition, and fails the
play if it fails. Loops that copy several files may stop after any of them.
Between plays hosts join, reboot (which empties /tmp), are reinstalled, and the
operator encrypts what was fetched, keeping the plain files or not.

### HostctlLock

One action per command on the lock file, from `exitIfScriptIsAlreadyRunning` to
`endScript`; the redirection that writes the ID empties the file first. A crash
may come at any step. Process IDs are a small set, reused once free;
`raced`, `used` and `reused` are history.

### MongoReplicaSet, LibvirtProvision

`MongoReplicaSet` is the mongodb role over the hosts of a set. `wanted`,
`conf` and `running` are the configuration that the inventory describes, that
is on a host's disk, and that its mongod was started with; `notified` are the
handlers pending. A play is again lockstep over tasks (`NextTask`); `Write`,
`EnsureStarted`, `Flush`, `Initiate`, `CreateAdmin` and `Users` are the tasks,
`HostFails` and `Interrupted` may hit any of them, and `Reconfigure` changes the
inventory between plays. mongod is external: `Elect`, `StepDown`, and `Dies`, which may come
in the middle of a play. A host whose mongod is down when the administrator is created leaves the play
(`AdminUnreachable`); the replica set and the users are `run_once`, where the failure of the
first host ends it (`Unreachable`, `UsersFail`).
`stale` are the hosts whose notification a failing play lost.

`LibvirtProvision` is one action per task that speaks to libvirt or writes the
files it reads: `default`, `net`, `secret`, `rbdPool` are libvirt's objects, `absent`
and `undefined` the answers of the `virsh` queries that guard the tasks after
them. A play may `Break` at any task, and the host may `Reboot`; `cut` is what
it broke at.

### HostctlActions, VersionOrder

`HostctlActions` runs the commands `cmds` of a script over the registered
modules, `prio` by `prio` (`StopService`, `StartService`, `Skip`, `NextPriority`,
`NextCmd`), with the loops that wait for a service and give up (`Wait`,
`Waited`). What systemd does with a service is an outcome, failures included; one that is slow
may `Settle` at any time. `told` is what the script displayed of each service:
`stopService` displays success whatever happened, as its loop is never entered. `VersionOrder` runs the loop of `version_ge`
on two versions, part by part (`Split`, `Same`, ...), up to its `result`, and
the property compares that with the definition by the first part that differs.

### The machines of mitogen

Each is a module of its own, and steps are as small as another thread,
process or message can tell apart. What an operating system, a terminal or a child's
program does is a choice.

| module | code | state | actions |
|---|---|---|---|
| `MitogenLatch` | `Latch` (core.py) | queue, sleeping readers with their socket pairs and cookies, `_waking` | the blocks under the lock: `GetNow`, `GetClosed`, `GetNothing`, `Sleep`, `TimesOut`, `Woken`, `PutItem`, `CloseLatch`; the write after it: `WakeReader` |
| `MitogenBroker` | `Waker`, `Broker` (core.py) | deque, bytes in the pipe, phase of the loop, readers | a thread's `Check`, `Enqueue`, `Wake`, `Return`; the broker's `LoopOnce`, `Drain`, `BeginShutdown`, `BrokerExit`; `HangsUp` of a child |
| `MitogenPoller` | `Poller` (core.py), `EpollPoller` (parent.py), `Side` | who has which descriptor, `_rfds`, `_wfds`, `_registered_fds`, epoll's own, events not yet yielded | `StartReceive`, `StartTransmit`, `StopTransmit`, `Disconnect`, `Poll`, `Yield` |
| `MitogenStream` | `BufferedWriter`, `Stream`, `MitogenProtocol` (core.py) | bytes in the writer, the pipe and the receiver's chunks; messages that arrived | `WriteMessage`, `Transmit`, `TransmitFails`, `Receive`, `ReceiveOne`, `ReceivesMore`, `Refuse`, `ReceiveEnd`, `Hangup` |
| `MitogenRouting` | `Router._async_route` (core.py), `RouteMonitor` (parent.py) | streams, routes and egress IDs of each context, what is in flight | `SendCall`, `Attach`, `Departs`, `Cut`; `Handle`, which is one of `TakeReply`, `HandleCall`, `Forward`, `Bounce`, `AddRoute`, `DelRoute`, `StreamLost` |
| `MitogenCalls` | `CallChain` (parent.py), `Dispatcher` (core.py) | calls, replies, errors per chain | `Issue`, `Lose`, `Deliver`, `Dispatch`, `Forget`, `ReceiveAnswer`, `CloseCallee` |
| `MitogenConnection` | `Connection`, `Reaper`, `TimerList` (parent.py), `_signals` | thread in `connect()`, streams, timers, listeners, child, shutdown | `AsyncConnect`, `Complete`, `DetachChild`, `ChildHangsUp`, `Exits`, `ConnectTimeout`, `ReapAgain`, `ConnShutdown`, `FireNext`, `BeginGrace`, `End`, `Answer` |
| `MitogenBootstrap` | `_first_stage`, `BootstrapProtocol` (parent.py), `ExternalContext`, `LogHandler` (core.py), fork.py | two processes, the pipes between them, the log's buffer, what the parent has read | the statements of both processes that read, write or fork (`Hello` ... `SayReady`, `Exec` ... `Flush`), of which the decompression fails if the preamble was cut (`ReadTruncated`, and then `RunNothing`), the parent's `ReadBootstrap`, `ReceiveLogs`, `ConnectionFails`; `Emit`, `Die`, `Reconfigure` |
| `MitogenLogin` | ssh.py, su.py, sudo.py, doas.py, `RegexProtocol` | terminal, unfinished line, what was sent, the outcome | the program's `Keys`, `Confirm`, `LetIn`, `AskPassword`, `Enter`, `Reject`, and `TurnAway`, which refuses without asking; `ReadTerminal` of any piece; `LoggedIn`, `Eof` |
| `MitogenContexts` | `ContextService` (services.py), `Connection` (connection.py) | the service's tables, each request's place, contexts alive | `Connect`, the steps of a request (`GetProgress`), `PutConnection`, `Reset`, `OnContextDisconnect` |
| `MitogenProcess` | process.py, strategy.py, unix.py | top process, multiplexers, a worker, their bindings and identity | `BeginPlay`, `Start`, `ForkWorker`, `Boot`, `GetBinding`, `Leave`, `Join`, `Close`, `WakeListener`, `Dies`, `Kill` ... |
| `MitogenTransport` | transport_config.py, connection.py, interpreter discovery | inventory, facts, the calls of `_stack_from_spec()` that have not returned, the stack so far, the stacks built | one task at a time: `BuildStack`; down the way to a host that is reached directly, `StackFromSpec`; back to the target, `Login`, `BecomeAccount`, `CallReturns`; `RunTask` |
| `MitogenPool` | `Receiver`, `Dispatcher` (core.py), `Select`, `Pool`, `SerializedInvoker` | receivers' latches, the Select's, invokers with their queues, workers | the broker's `Arrive`, `PutMessage`, `Notify`; the main thread's `TakeStub` ... `StartWorkers`; a worker's `TakeEntry` ... `Leaves`, with `ActivateFails`; `Stop` |
| `MitogenFiles` | `FileService` (service.py), `transfer_file` (target.py) | transfers, chunks and acknowledgements in flight, jobs, `unacked` | `Ask`, `Fetch`, `Requestee`, `Acknowledge`, `Pump`, `Pumped`, `Lost`, `Shutdown` |
| `MitogenPush` | `PushFileService` (service.py) | caches, waiters, `_sent_by_stream`, calls in flight | `PropagateTo`, the steps of a call (`Progress`), `Get` |
| `MitogenImporter` | `Importer` (core.py), `ModuleForwarder` (parent.py), `ModuleResponder` (master.py) | caches, callbacks, messages between a context and its parent, `sent_modules` | `Import`, `ForwardModule`, and the handling of each message (`Answer`) |
| `MitogenRunner` | planner.py, runner.py | what of the process is patched, and by whom | `InvokeModule`, `SetupStep`, `SetupFails`, `SetupEnds`, `Execute`, `RevertStep`, `RevertFails`, `RevertEnds` |
| `MitogenAsync` | `AsyncRunner` (target.py), planner.py, `ExternalContext` | main thread, status file and its temporary name, timer, parent | `OpenTmp`, `CloseTmp`, `Rename` ... `Finish`, with `UpdateFails`; `Detach`, `AskToDetach`; `Alarm`, `AlarmFails`, `OnBrokerExit`, `Killed`, `LoseParent` |

They meet in what one takes for granted of another: a Latch is behind each
queue that `MitogenPool` and `MitogenCalls` read from, deferred functions and
readiness are what every step of a broker thread elsewhere stands on, messages that arrive
whole and answers that come are what routing and calls assume of a stream.
Composing their states would multiply them; each is checked with the weakest
neighbour (`Lose`, `Cut`, `Dies`, late or reordered messages).

`MCPlaybook`, `MCRace` and `MCMitogen` put machines side by side for TLC: `which` names the
one that runs, the others stay in an initial state. A step of a machine changes
only its own variables, so a machine's behaviours are its own. The machines that
theorems are about are extended, with their constants in the cfg, so that the
run and the theorem speak of the same definition and TLC evaluates the
assumptions of the proofs; the others are instances.

### Slips

Modules also hold, next to a definition, variants of it marked "Slip": a
mistake one could make in the code. Nothing uses them; each property of the
passing runs fails when one of them takes the definition's place (PROJECT.json
pairs them), which shows that the property has something to say.
`ProcessesAnswer` and `NeededArrives` are conjunctions over several machines,
which have a slip each: `ExecOpen` (bootstrap), `TopIsGoneWithAll` (process),
`ForwardNow` (pushed files) and `OnGetOnce` (importer), besides those that
PROJECT.json names.

## 4. What is checked

| run | configuration | shows |
|---|---|---|
| `playbook` | MCPlaybook, Playbook.cfg | tasks of one play, with failing calls, lost answers and retries: every task has the effect and the report of its request (`ImplementsEnsure`), names stay unique. The mongodb and kvm roles: a finished mongodb play has provisioned the set (`DoneMeansProvisioned`), what libvirt is left with is explained by where plays stopped (`BreaksDecide`). hostctl: modules are served in order and once, and what is displayed of a start is true (`OrdersAreServed`), versions compare by the first part that differs (`ResultIsTheOrder`), and under its lock scripts act one at a time unless they raced, the holder is named, only reuse blocks (`OneAtATimeUnlessRaced`, `ActorHoldsTheLock`, `CrashBlocksOnlyByReuse`). Repeated plays and scripts end (`PlaysEnd`) |
| `race` | MCRace, Race.cfg | two operators' tasks interleaved call by call, listings in any order: no duplicates but by simultaneous lookups, true reports, only the named object is touched, identity survives stale writes, every task ends. The ceph role, over two monitors and another host of which only the first is safe: one cluster key, admins can talk to every monitor, the controller keeps the keys |
| `mitogen` | MCMitogen, Mitogen.cfg | the eighteen machines: fifteen safety properties, one for each that has any, and that who waits is answered (`ProcessesAnswer`, `ArrivedIsServed`, `NeededArrives`) |
| `examples` | MCExamples, Examples.cfg | **violated**: a documented deletion is refused |
| `ungiven` | MCUngiven, Ungiven.cfg | **violated**: a list that is not given is emptied |
| `first_host` | MCKeyrings, FirstHost.cfg | **violated**: keys are generated while a monitor has some |
| `two_at_once` | MCLock, TwoAtOnce.cfg | **violated**: two scripts act at once |
| `stale_pid` | MCLock, StalePid.cfg | **violated**: a leftover lock file blocks |
| `stop` | MCStop, Stop.cfg | **violated**: a service is displayed as stopped while it runs |
| `padded` | VersionOrder, Padded.cfg | **violated**: 1 and 1.0 are not equal |
| `latch` | MitogenLatch, Latch.cfg | **violated**: a put() wakes nobody though a reader sleeps, after a get() that timed out between the two halves of an earlier put() |
| `chain` | MCCalls, Chain.cfg | **violated**: a call of a pipelined chain runs after one that failed because its function is not there |

The violated properties quote what the repository says of itself; PROJECT.json's
findings give the lines.

**What properties leave open.** Where the code itself does what a hazard fears, and nothing
in the repository promises otherwise, the property excepts it by name, and
says that nothing else has that effect; PROJECT.json's notes say so at each hazard.
`NoBlindDuplicate` permits the duplicate of two simultaneous lookups; `ReportIsTrue` is checked
without lost answers (`ImplementsEnsure` is with them). `DoneMeansProvisioned` excepts hosts whose
notification was lost (`stale`), `DeferredIsRun` what is deferred during the shutdown (`late`),
`LoginIsExplained` prompts that were answered twice (`twice`) and what a refusal does not tell,
`ContextsAreKept` waiters dropped with a lost context (`dropped`), `HopsAreTheirOwn` the settings of a
host on the way that the code takes from elsewhere (`Elsewhere`), `NeededArrives` a window that lost chunks
keep full (`WindowIsLost`), `TasksFindItClean` a setup that failed and a module that
replaced `atexit.register` (`failed`, `replaced`), and `JobIsAccountedFor` a parent that is lost before the
job has detached, a status that could not be written and a kill (`early`, `lost`).

**Bounds of `playbook`** (210 000 states). The tasks: one process, `MaxStarts = 4` of 17 over
ten kinds: four in a row suffice for create, failed update, retry and delete of one object.
Two MongoDB hosts, so that the first
host of the inventory, on which `run_once` runs, need not be the primary; `MaxConf = 2`
changes of the inventory and `MaxFaults = 2` failures, so that one may hit the
play that repairs the other. Two bridges, one of which is done when the other
breaks, and `MaxBreaks = 2`. Four modules of priorities 3, 0, 1 and 3: one that
is not registered, a tie, and a gap; `Timeout = 2` tries. All pairs of
versions of at most three parts out of 0..2: different lengths, equal
prefixes, and zeros at the end. Three scripts that are launched once each, and three
process IDs, which other processes take as well: two scripts at work, and an ID that is reused
after a crash.

**Bounds of `race`** (421 000 states). Two processes with two tasks each of nine: one may finish,
and start again, inside the other. Three hosts, two of them monitors, and
`MaxKeys = 2` bootstraps: two generations are what the properties tell apart.

**Bounds of the violated runs.** As small as shows the violation. Scripts and IDs are interchangeable in
`HostctlLock`, and no liveness is checked there, so that the symmetry of `two_at_once` and
`stale_pid` is sound.

**Bounds of `mitogen`** (206 000 states). Latch: two readers that call `get()`
twice, two items. Broker: two threads, a pipe of one byte, so that it is full.
Poller: three streams for two descriptors, so that one is reused while events
are pending. Stream: messages of 0, 1 and 4 bytes and one that is too long
(`MaxSize = 4`), a header of 2, a pipe with room for 3: headers and messages are cut everywhere.
Routing: a tree of root, a child with a child of its own, and another child,
with one context that connects late, and a call through the root, from the late one or
to it (`OneCall`; the module and its proofs let any calls be under way at once).
Calls: a chain that is pipelined and one that is not, over each sort of failure.
Connection: two, of which one never speaks; tries to signal a
child and to give up are 2 and 3 instead of 2, 6 and 20. Bootstrap: two log records.
Contexts: two clients of the same host with different accounts, three contexts,
room for one become context. Pool: two messages, two workers. Files: three requestees
that share a window of two chunks, one of a file that cannot be read.
Push and importer: trees of depth two, three modules, one that does not compile. Process: two
multiplexers, two hosts that hash to different ones. Transport: three hosts,
reached over each other in every way, cycles and unknown hosts included.
Runner: plans of five and of three tasks, of every kind. Async needs no bound.

**Ends.** No run looks for deadlocks: machines stop where their
script, play, program or threads have ended, or at a bound. That nobody is left waiting is what
the liveness properties say.

**Fairness.** `FairSpec` of `KowabungaModule`: a started process goes on
(`WF` on its own steps). It is a process of the operating system and the
client's calls return or raise; nothing makes an operator start a task, and
faults are never forced. `EveryTaskEnds` rests on it: each loop goes through a
listing made once, so other runs cannot prolong it (`race` has the same fairness in its `MCSpec`). `MCSpec` of `MCPlaybook`: the
controller, or the script, goes on, and an election that stays possible is
held, as mongod's own timers see to; hosts and plays need not fail. `MCSpec` of
`MCMitogen`: a thread or process that has something to do goes on
(`Progress` of each machine: the broker's loop handles what it was given,
blocking calls return when what they wait for is there, timers expire). One
`WF` over all of them is enough: once nothing more comes from outside, what is
left to do in a machine is finite, and each of its steps brings the machine closer
to its end, so none of its threads can be passed over for ever. What comes from outside is never
forced: new messages, losses, kills, `Lost`, `Dies`, `Stop`.

## 5. What is proved

`*_proofs.tla`, for every value of the constants that satisfies the named
assumptions of the modules (which TLC evaluates for the values of the runs).
Each theorem follows the same way: an inductive invariant that implies the
property, checked by TLC on the run's instance before it was proved, that the
initial states satisfy and each action preserves.

The reconciler:

* `KowabungaModule_proofs`. `TypeCorrect` is not inductive as it stands: the
  invariant adds that what a process has resolved so far fits the kind's
  declaration and its goal. `DuplicatesNeedARace`: while an object is
  looked up, what was listed is either still to be read or was read and did
  not match, and names and kinds never change (`IdentityIsForLife`), so it
  still does not match when the object is created. `NamedObjectOnly`: the target
  found at lookup matches the request, for the same reason. `ReportsAreTrue`:
  a run reports a change exactly if it is past its mutating call, or predicts
  one in check mode. No fairness and no bound on the number of processes.
* `KowabungaRefinement_proofs`. `TasksAreAtomic` is the refinement: every step
  of a run is a step of `EnsureResource` or none. The invariant (`RightSoFar`)
  says that what a task's loops have gathered is a part of what `EnsureResource`
  states over the store as it is: nobody else touches it meanwhile. Its
  hypotheses are what the promise needs: `OneAfterAnother`, where listings keep their
  order because a parent may be looked up twice; `ListsByName`, as an object
  that a list gives by its name and by its ID is written twice; and `TidyStart`,
  that the objects there at the start look as if tasks had made them.
  `NamesAreUnique` needs `UniqueStart` besides: a create happens only
  after a lookup without a hit, or one whose answer was lost is found by the
  retry. MCPlaybook assumes all four of the instance that `playbook` checks, so
  that TLC shows them to be satisfied.

The roles:

* `CephKeyrings_proofs`, under `LeaderIsSafe` (the first host of the inventory
  is a founding monitor that never fails a task and is never reinstalled):
  `OneKeyWhileLeaderIsSafe`, `AdminKnownWhileLeaderIsSafe` and
  `KeysKeptWhileLeaderIsSafe`. The invariant has
  three parts: types (`KeyringTypes`, without the assumption); the first host takes part in plays to the end
  (`PlayInv`), so every `run_once` looks at it; and as soon as it has a keyring
  the controller holds the current generation completely, and what the loops
  have brought so far is of that generation (`KeyInv`). TLC shows with
  `first_host` that the assumption is needed.
* `HostctlLock_proofs`: types, `ExclusionUnlessRaced`, `HolderIsNamed` and
  `OnlyReuseBlocks`, from one invariant on who is between reading and writing
  the file, and on which IDs a file can name.
* `Hosts_proofs`, about the two roles and hostctl's commands and comparison, for any finite set of
  hosts, any bridges (at least one, with file names of their own), any modules
  and integer priorities, and versions of any length whose parts are numbers.
  `PlaysProvision`: a host whose mongod runs something else than is
  configured is notified, or was and lost it (`OthersAreNotified`), and the
  hosts that take part have done the tasks before the current one (`TasksBehind`), on which
  the type of the play rests as well. `StopsDecide`: the guards that a play
  evaluates once still tell the truth when their tasks come (`AbsentAreMade`,
  `FoundAreUp`), networks are started last (`StartedLast`), and what a task
  reads was written and not removed (`DescriptionIsRemoved`).
  `ServedByPriority`: the calls made are those of the modules that the loop has
  passed (`CallsAreThosePassed`), once each (`CalledOnce`), and a start is waited
  for (`StartIsAwaited`) and displayed as it is (`StartsSoFar`). `VersionsAreOrdered`: what the loop has
  taken off both versions is equal (`EqualSoFar`); it leaves open how versions
  compare that differ in zeros at their end, on which the code and its comment disagree (run `padded`). `HostsAreTyped` collects the types.

mitogen:

* `MitogenThreads_proofs`, the threads of a process.
  `EveryDeferredRuns`, for any threads and child
  streams and a pipe of at least one byte: `NoLostWakeup` is inductive with the types, as
  a function is appended before its byte is written, and a byte that finds the
  pipe full is one of several. That a shutdown loses only late functions needs
  `ShutdownInv`: once `_alive` has fallen, outside a drain the deque holds only
  what was deferred after it fell.
  `ReadinessOwned`, for any streams and any descriptors that
  are natural numbers: both tables name the stream that has the
  descriptor (`TablesInv`); they, `_registered_fds` and epoll agree
  (`KernelInv`); and a pending event whose entry is old is of the stream that was
  ready (`EventsInv`), as whoever got the descriptor since has an entry that is not old.
  That the lowest of the free descriptors exists (`MinOfNat`) rests on the
  well-foundedness of the natural numbers.
  `OneCallAtATime`, for any workers and requests: an invoker is running exactly
  when one worker runs it, and has queued calls only then (`InvokerInv`). It needs that
  workers begin only when the pool is made and have an invoker from
  `get_invoker()` on (`WorkerInv`), and that what they take is of a receiver that
  there is (`DeliveryInv`).
  `MessagesAreKept`, for messages of any sizes, and any header, pipe and
  limit: the bytes of what arrived, of the receiver's chunks and of the pipe are, in this
  order, the first of what was written, and the rest is what the writer holds
  while both ends are open (`BytesInv`); the writer's count is that of its chunks
  (`WriterInv`); and between two reads less than a message is there, of which the
  first chunk, if there are several, has at least a header (`ChunksInv`). Joined sequences are
  unfolded by induction over their length, which here is the absence of a shortest
  counterexample (`LeastOfNat`).
  `LoginsAreExplained`, for any number of tries, any pieces that the
  terminal is read in, and programs that may turn the user away before they ask: which lines
  the terminal holds, and what made the program print them
  (`TerminalInv`); at what point ssh's question was answered, and how often (`YesInv`); that
  a password which was right is refused only after an answer that was given twice, or to a
  user who is turned away (`RightInv`); and that the last line of a program that is gone says why, but for
  sudo's, and but for a user whom su or doas turns away (`GoneInv`).
  `LogsAllArrive`, for any number of records: where both processes can be when the
  log is corked and when the last line of the bootstrap was written (`PlaceInv`); and this line is in
  front of every record and behind every other line (`OutputInv`), so that what the parent's
  second protocol is handed is records only.
* `MitogenWaits_proofs`, those who wait for others.
  `SleepersServed`, for any readers, items and number of calls: who sleeps has one
  entry in the list, and a socket pair of its own (`SleepersInv`); a pair in the
  pool is empty and nobody's (`SpareInv`); the first `_waking` sleepers, and they
  only, have their cookie or one put() that is about to write it (`WokenInv`); and an
  item that nobody is to have would have woken the sleepers after them
  (`QueueInv`). The invariant holds until a reader times out between the two halves of
  a put(), which the property excepts and the run `latch` shows to matter.
  `OutcomeStands`, for any number of connections: a connection that was
  answered has no timer and nothing that listens for the broker's shutdown, so
  nothing is left that could fail it, and one that failed has both streams closed and a reaper
  (`Stands`). It needs that a listener is there at most once, since
  `unlisten()` removes one.
  `CallsAndRoutesSettle`, for any finite tree, any calls that are under way at once, and either
  value of `unidirectional`. The routes (`RoutesInv`): a connection that is not cut has
  both its ends (`StreamsInv`); news that climbs is of a context below the one that sends it, and
  says that it is gone only if a connection between the two was cut (`MessagesIn`); a context
  routes to exactly those that are listed as below one of its streams (`TablesInv`); and what a
  parent will believe of a context once it has read all that is under way to it is
  what its child believes now (`BelievedInv`), which is the conjunct that makes the
  routes come right: when nothing is under way, both believe the same, all the way down.
  The calls (`WaitInv`): who waits is cut off itself (`Doomed`), or something is on its way to it.
  The call climbs to contexts that will know the caller and not the callee when they read
  it (`OnItsWayUp`); or an answer, or the news of the callee's end, comes down to the caller
  (`ComesBack`, `NewsComesBack`); or there is a context, the caller or one above it, that routes to the
  callee by another stream (`Turned`), and below it the call goes down, its answer climbs, or a
  connection is cut, which will become news. That news comes down exactly to the streams that
  something for the callee came from, so the alternatives that may come to need it say that
  all streams down to the caller are among these (`AsksUp`). The
  assumptions (`RoutingAssumption`) are that the contexts are a finite tree,
  that whoever has children is upgraded, as `connect()` makes it, that the contexts that run
  at first are the root, which stays, and some of its children, and that nobody calls itself. The last is
  no restriction of the program's: such a call is no message on a stream.
* `MitogenPlays_proofs`, what plays do with them.
  `SpeaksToOwnMux`, for any number of multiplexers,
  any hosts and any hash of their names to multiplexers: a process without a
  binding has the state of one that never had any (`BindingInv`), which is what
  `Close` restores and a fork copies; a multiplexer that was up never comes back
  once it is not (`MuxInv`).
  `JobAccounted`, without constants: which of the two files the main thread has open, and that the
  temporary one is missing only after the timer's handler renamed it, as what a failed
  `_update()` leaves there is cut by the next (`FilesInv`); that the status is final once the main
  thread is past it, unless it could not be written (`TimerInv`); and that the
  process is asked to stop by its timer, its own end or the early loss of its parent (`EndInv`).
  `FoundAsBefore`, for any sequence of tasks: what a task has patched so far was
  found clean and is saved so, and the rest is clean (`FoundClean`). A step
  patches one thing, each once (`SetupOnce`, `RevertOnce`), and `revert()` takes back what
  `setup()` patched, but for the importer (`RevertsAll`) and the working directory, which it
  restores if it can. Two accidents leave less (`Watched`): after a failed setup, for which nothing is
  reverted, `excepthook` and `atexit` are left of this, which are patched last (`FailsEarly`,
  `AtExitLast`);
  and a module that replaced `atexit.register` fails the assertion that `revert()` comes to
  first, so that nothing is taken back. Until then, what is
  installed is the task's function or a module's in its place (`WrapperInv`); afterwards the
  module's stays, at which the setup of every later Python module fails (`ReplacedInv`).
  `ErrorsStopChains`, for any chains, programs and moments at which the context is lost:
  while it is up, each chain has a number of calls that were dispatched, the
  others wait in order (`InOrder`), and the error that is kept for the chain is
  that of its first call that raised since it was reset (`Kept`); from there the
  answer to the next call is the promised one, or, behind a call that could not be parsed, of which
  the property leaves open whether it cancels, its error (`ResultIsPromised`). The number is
  no variable of the model, but exists (`\E done`).
  `StacksAreTheirOwn`, for any inventories, lists of tasks and interpreters: on the way down, each
  call is for the host that the one before it names, and a set of hosts that leads nowhere
  from the target holds the host that is looked at (`WayInv`); on the way back, the hops so
  far each have settings of their own host, and the last is of the call at
  work or of the one it made (`StackInv`). A way that ends in a cycle, or before an
  unknown host, is such a set itself; one that ends in a host that is reached
  directly is in none.
  `ContextsStay`, for any finite set of clients, any stacks, any number of contexts and
  of interpreters kept: what a request has made or was given, by its place
  (`RequestInv`); a context that is being made is known to the one who makes it and to nobody
  else (`FreshInv`); those who were answered with a context, or reach another by it,
  are no more than its references and those whom its maker has told and will
  count (`CoverInv`); who waits without an answer is listed, unless the context
  was lost meanwhile, and a list in which someone is has someone
  who connects (`ListInv`). An answer is covered from the moment it is given although it
  is counted later, since the maker knows how many it told.

Where a machine is both checked and proved about, the run's module
extends it and the theorem states the property of the run itself, or, where
the property speaks of one machine of several, that machine's.

Only model-checked, of the safety properties: `MitogenTypeOK`, which is about all
eighteen machines at once, those with recursive operators among them (the types that the proofs need are in their
invariants; its conjunct for the routing tree is `RoutingTypes`). Out of the prover's reach are
`MitogenImporter` and `MitogenPush`, which walk trees with recursive operators,
as the code does; and all liveness (`EveryTaskEnds`, `PlaysEnd`,
`ProcessesAnswer`, `ArrivedIsServed`, `NeededArrives`), since it rests on
fairness and `ENABLED`.

## 6. What is not modelled

* The SDK's import, version checks and connection: they precede everything and
  only fail.
* Values of attributes beyond equality; the server's validation of them.
* An attribute that the server does not return: an immutable one that is
  given then raises `KeyError` (kowabunga.py:264).
* Ceph's daemons, pools and file systems: each command is guarded by a listing
  made right before it, as in the kvm role, and what it does is Ceph's own.
* What is packages, directories and configuration files: keepalived, firewall,
  netplan, and the rest of the roles. What can go wrong there between two plays
  is what `MongoReplicaSet` says of notifications.
* A MongoDB server without a replica set, its backups and status script.
* hostctl's `restart`, `reboot`, `status` and `collect`, and the helpers that test one property of the
  host or format output.
* network_detector: no state and no step that another could come between.
* Of mitogen: containers (command lines for the connection that is modelled), name
  spaces, tools, pickling and message policies, `kqueue` and `poll(2)` (the
  bookkeeping is that of epoll), how a module's source is found, minified or
  rewritten for its runner, terminals and process creation themselves. A
  multiplexer that dies before it listens leaves the top process waiting
  in `MuxProcess.start()`: nothing in the code or its documentation promises
  otherwise, and `MuxesEnd` is silent about it.
