# Panex: a verification project

Panex is a development runtime for browser extensions: `panex dev` watches the
sources of one or more extensions, builds them, and runs a WebSocket daemon that
connects the build loop, an agent inside the browser, a simulator of the `chrome.*`
API and an inspector page, over an SQLite event store; `panex plan`, `panex apply`
and their relatives (also offered as MCP tools to agents) change a project under a
file lock and leave run records behind.

This directory holds TLA+ models of the parts of it whose correctness is hard to
test, the configurations TLC checks them with, and proofs checked by TLAPS.  Paths
below are relative to the repository (`internal/`, `cmd/`, `docs/`, `shared/`,
`inspector/`, `agent/`).  `PROJECT.json` maps every definition to the lines it
models, and lists runs, properties, wrong variants ("mutants"), hazards, findings
and theorems.


## 1. Inventory

### 1.1 The event store (`internal/store`)

*State.* Table `protocol_events`, an append-only log whose row id orders all
history; table `storage_items`, one row per extension, area and key.
*Operations.* `Append`, `RecentForExtension`/`RecentBefore…` (paging backwards, with
clamped limits), `SetStorageItem`, `RemoveStorageItem`, `ClearStorageArea` (each in
a transaction that also appends a `storage.diff` when something changed),
`StorageSnapshots`; a schema migration on open.
*Used by* the daemon, from every connection's goroutine; SQLite serialises.
*Hard.* A mutation is two writes; a page boundary is an off-by-one; a crash in the
middle of the migration, which is not transactional.
*Correct when* the diffs in the log replay to the stored rows, no diff is written for
a mutation that changed nothing, and pages are contiguous.

### 1.2 The daemon (`internal/daemon/websocket_server.go`)

*State.* The session table, per connection a socket and a write mutex, a read loop
and a ping loop; the store; a shutdown context.
*Operations.* The handshake (persist `hello`, negotiate, persist and send
`hello.ack`, register), one command at a time per session (`query.events`,
`query.storage`, `storage.*`, `chrome.api.call`), broadcasts (persist a row, copy
the session table under the mutex, write to each copy, close the sessions whose
write failed), pings, `Run`'s and `Close`'s shutdown.
*Interactions.* The build loop calls `Broadcast`; clients send commands and get live
rows; all of them share the store and the table.
*Hard.* Persisting and delivering are separate, and sessions come and go in between;
the loops of two clients deliver in another order than they commit; one client's
dead socket; a handshake that ends during shutdown.
*Correct when* no row a session is owed is lost, an inspector's timeline has no hole,
build events arrive in order, a client's storage view is the store unless something old
reached it on top of something newer (which the code lets happen, section 5), a success
means the call was carried out, nobody gets what was not negotiated, and everything ends
when it should.

### 1.3 The watcher and the build loop (`file_watcher.go`, `runBuildLoop`)

*State.* What is watched, the pending paths and a debounce timer, re-walk budgets of
new directories; a channel of capacity 64 with a flag for what did not fit; the
running build.
*Operations.* Attach, event, tree-sync tick, flush, build, the extra build for the
flag.
*Hard.* Sources change while a build reads them; events are dropped by the channel,
and events of a directory that is new can be missing altogether; directories are
deleted and created again.
*Correct when* every change ends up in a build, and builds stop when changes stop.

### 1.4 The lock manager (`internal/lock`)

*State.* A file per lock, an advisory flock on whatever inode the path names.
*Operations.* `Acquire`, `Release`, `IsHeld`, `StaleInfo`, `RecoverStale`.
*Hard.* Unlock and unlink are two steps, a holder may die anywhere, looking at a lock
takes it for a moment.
*Correct when* at most one caller holds the lock, a lock is never left without an
owner, and the metadata names the holder once that has written it.

### 1.5 Plan, apply, run ledger (`internal/plan`, `internal/ledger`, `internal/core`)

*State.* The plan file, the generated manifests, `run.json` of every run.
*Operations.* `plan` (load the project, compute, write); `apply` (load, read the
plan, refuse on drift, lock, execute actions one by one, roll back in reverse on
failure, record, release); `resume`.
*Hard.* Everything before the lock can be stale when the lock is held; an undo can
fail; the record is written once, at the end, and its error is dropped; a crash.
A plan has an action for each target its version of the project has, and a later version
may have fewer.
*Correct when* what two plans write to targets they share does not mix, records say what
is on disk, and an old plan does not silently replace a newer one.

### 1.6 The three clients of the daemon

*The chrome.\* simulator's transport (`shared/chrome-sim/src/transport.ts`).*  State:
a current socket, the promise of a handshake under way, a reconnect timer, the
capabilities, the pending calls.  Sockets close late, and their close handler does not
ask whether they are still the current one.  Correct when a call is carried out at most
once and settled exactly once, and the page always ends up with a connection again.
*The inspector's connection and timeline (`inspector/src/connection.ts`,
`timeline.ts`).*  State: one socket, a list of rows that is cut at both ends, one
pending request, live rows kept back while the newest page is loaded.  Live rows carry
no id.  Correct when the list skips nothing it does not admit to have trimmed.
*The agent (`agent/src`).*  A service worker in the extension being built: connects,
shakes hands, restarts the extension on `command.reload`.  A reload is broadcast once.
The browser may end the worker at any time, with socket and timers, and nothing in the
code starts it again.  Correct when the extension runs the last build unless it missed a
reload, and the agent comes back as long as its worker is left alone.

### 1.7 The project's files and the commands (`internal/fsmodel`, `cli`, `mcp`, `doctor`, ...)

*State.* `.panex/` with `state.json`, `project.graph.json` and the runs; the config
(`panex.config.ts` or `.json`) and the policy beside it.
*Operations.* The MCP tools `initialize_project` and `repair_failure`, add-target
(config, then policy, then graph), package (record, then state); `plan` and `apply`
above.
*Hard.* Nothing but `apply` takes a lock; JSON files go through one `path.tmp` each,
the policy is truncated and written; commands of several processes interleave, a
process may die between two files, and the errors of some writes are ignored.
*Correct when* a file is always whole, a package that answers "ok" has its run on record,
and config, policy and graph agree after a command that could write them, whatever an
earlier one left behind.

### 1.8 Browser sessions and the doctor (`internal/session`, `internal/doctor`)

A session holds a file lock from the start of its `Launch` to `Terminate`, a failed
launch included; `remove_stale_lock` removes every lock file.  Correct when two
sessions never drive a browser at the same time.

### 1.9 The directories of `panex dev` (`internal/config`, `cmd/panex`, `internal/build`)

Paths come from `panex.toml` (or are inferred), are checked for overlaps by `Validate`
relative to the process's directory, are then taken relative to the config's, and are
walked by the builder and the watcher, each with its own idea of what to skip.
Correct when no build writes where a watcher looks, nor where another build writes.

### 1.10 The rest

Presentation (`inspector/src/workbench.ts` and its neighbours), the wrappers of
`shared/chrome-sim` over the transport, release and packaging are not modelled; parsing,
the MCP protocol and the reports only as far as they decide what happens next.
`PROJECT.json` lists the components one by one.


## 2. Modules

| Module | What it is |
| --- | --- |
| `EventStore` | the two tables; `Append`, mutations, paging. Composed into Daemon by EXTENDS |
| `Daemon` | the WebSocket server, its clients and the build goroutine's publishing |
| `DaemonProperties` | what the daemon owes its clients, and liveness |
| `RemoteCall` | abstract specification: what a caller of the transport is promised |
| `ChromeSimTransport` | the simulator's transport, which implements `RemoteCall` |
| `InspectorSync` | the inspector's connection, timeline and paging |
| `AgentReload` | the agent's connection, reload and restart |
| `DevLoop` | developer, file system events, watcher, channel, builds |
| `DevPaths` | from the paths in a configuration to the directories dev reads, watches, writes |
| `FileLock` | one lock file: paths, inodes, flocks, callers, sweepers, probers |
| `DevSession` | browser sessions and the doctor, over `FileLock` by EXTENDS |
| `PlanApply` | plan and apply of several processes, over an instance of `FileLock` |
| `AtomicFile` | one file written through `path.tmp` by writers that overlap, fail and die |
| `Rules` | graphs, resolutions, permissions, manifests, the verdict of verify, as operators |
| `Workspace` | the project's files and the commands that change them, over `Rules` |
| `EventStore_proofs`, `Daemon_proofs`, `FileLock_proofs`, `DevSession_proofs`, `PlanApply_proofs`, `DevLoop_proofs` | theorems about the module of that name |
| `Host_proofs` | theorems about `AtomicFile`, `DevPaths` and `Workspace` |
| `Clients_proofs` | theorems about `ChromeSimTransport`, `AgentReload` and `InspectorSync` |
| `MC*` | the instances for TLC |

### 2.1 Correspondence with the code

**EventStore.** `events` is `protocol_events` (its index is the row id), `items` is
`storage_items`.  A transaction is one step, or does nothing when the database
fails.  Areas are folded into keys.  The diffs are kept in the row (keys and the new
value) instead of in JSON.

**Daemon.** A step is what a goroutine does between two points where another can see
it: one transaction, one critical section of `WebSocketServer.mu`, one socket write.
`handler[c]`, `loop[c]`, `ping[c]` are the program counters of a connection's three
goroutines, `job[c]` the locals of the command being handled, `fan[t]` the locals of
`broadcastLiveMessage` in goroutine `t` (a read loop, or `Dev`, the build loop),
`dev` the build loop, `server` and `drain` the shutdown.  `seen[c]` is what client
`c` has received, with the storage view an inspector derives from it
(`inspector/src/storage.ts`).  `since[c]` and parts of `seen` are observations and
guard nothing.  Faults: a socket whose client is gone (a write may fail or time
out), a database that fails, a client that disconnects at any time.

**FileLock.** `path` is the inode the lock file's name leads to (or none), `fd` each
caller's descriptor, `ex` and `shared` the flocks, `info` the content.  `pc` is where
a caller is between the system calls of `Acquire`, `Release`, `RecoverStale` and
`IsHeld`/`StaleInfo`.  `raced` records that an unlink has hit a file which another
caller had open to lock it; it guards nothing.

**DevLoop.** The tree is a root and direct subdirectories with a file each, whose
content is a version number; deeper nesting repeats the same walk.  A build reads all
files one after the other, whatever events it was told about, as esbuild does.
`Lossy` says that events in a directory whose watch is new, and its creation, may be
lost (the code has its re-walks for this, `file_watcher.go:73-75,86-89`).

**PlanApply.** `work[p]` is the command process `p` is running: its phase, the graph
it loaded, the plan it read, the actions executed, those left to undo, the run's
status, and the steps on record.  The lock's states are those of `FileLock` through
`INSTANCE FileLock WITH pc <- lockPc`: an apply's `Start`, `Refused`, `Finish` and
`Die` contain the lock's own steps.  `half` (the targets whose manifest a run left that
did not succeed) and `lost` (a run ended without its record) guard nothing.  A project
version stands for its graph hash, and `outputs` gives each version the targets it has:
`ComputePlan` makes one action per output of the version's graph (`plan.go:76`), and the
action of target `t` writes `t`'s manifest.  A target that a later version dropped keeps
the manifest it had, so `ManifestsAgree` compares only targets that the plans of both
manifests have.  (The registry at this commit has the Chrome adapter alone, with which a
plan has one action at most; the code, and the model, are for any number.)  `Apply` takes
no lock when it is given no manager, which its one caller, `internal/core`, never does.

**ChromeSimTransport.** JavaScript runs a callback, with the continuations of the
promises it settles, to its end, so a step is one event handler, one timer or one
call.  `socket`, `promise`, `timer`, `caps` and `state` are the closure's variables
(`connectPromise`, `reconnectTimer`, `capabilitiesSupported`), `ready[s]`,
`settled[s]`, `guard[s]` belong to one `connect`.  Between `ready = "closing"` and
the close event the socket delivers nothing.  `negotiated` and `overlapped` are
observations.  The refinement maps a call's life to `outcome`.

**InspectorSync.** `status` and the variables of `screen` are the provider's signals
and flags, with the trimmed counts as "more than none".  A row is its id; an entry is
a row and whether the inspector knows its id.  The daemon's side is what `Daemon` says
of it: a page is read in one step and written in another, broadcasts go in between.

**AgentReload.** `agent` is where the worker is, `inbox` what its socket has yet to
deliver, `session` the daemon's side, registered after the acknowledgement was
written.  `chrome.runtime.reload()` ends the worker and starts it from disk.
`WorkerEnds` is the browser ending the worker, idle or not; `ConnectThrows` a
configuration that cannot be read or a socket that cannot be made, after which nobody
schedules a reconnect, because `connect()` is called with `void`; `WorkerStarts` what
starts the worker again, which is outside of this code.

**AtomicFile.** Names refer to inodes; a writer keeps the inode it opened.  Opening
truncates, one `write` puts the content there or fails, `rename` moves whatever the
temporary name stands for.  This is `writeJSON` of `internal/fsmodel`, and its copies in
graph, configloader, manifest, ledger and plan do the same.  `writeJSONFile` of
`internal/cli` does not: it ignores the error of the write and renames all the same; the
writers that use it are `Careless`.

**DevSession.** `session[p]` is the state of caller `p`'s session, `driven` whose
browser runs.  `Launch`, `Terminate` and the sweeps contain the steps of `FileLock`
system call by system call.  A session made without a lock manager launches without a
lock; `internal/cli` and `internal/mcp`, which make all the sessions there are, give it
one, and no launcher of the model is without.

**Workspace.** A file that goes through `AtomicFile` changes in one step, the policy in
two.  `job[u]` is the command process `u` is at, and what it has read.  A command that
looks at the error of a write ends there (`Stops`).  Two do not: package puts the error of
the record or of the state into its answer and goes on, and add-target does not look
whether the policy was written; both are alternatives of the step, and `lost` says which
it was.  `alone` is an observation: who has been the only one to do anything since its
command began.
Reports and configs are records of what `Rules` tells apart: targets, capabilities,
whether there are entries.

**DevPaths.** A directory is the sequence of names on the way to it, a written path is
absolute or not.  `Loads` is `Validate`, which lets the process's directory stand in
for relative paths; `LoadDevConfig` then uses the config's.  A build writes, below its
output, a copy of each directory its walk meets.  What a build wrote may be read by
the next one.


## 3. What TLC checks

| Run | Question | Properties |
| --- | --- | --- |
| `daemon_timeline` | a build publishes while an inspector connects, bootstraps, and an agent leaves; one database fault | NoLostBroadcast, TimelineHasNoGap, BuildEventsInOrder, OnlyNegotiatedFrames |
| `daemon_storage` | an inspector and a simulator set, remove and clear the same keys; one database fault | TypeOK, ReplayMatchesItems, ViewFollowsStore, SuccessMeansCommitted, NoIdleDiff |
| `daemon_live` | does a command end, is a client that is gone noticed, does stopping at any moment end every connection? | EveryCommandEnds, GoneIsClosed, ClosedIsForgotten, ShutdownEndsEverything |
| `clients` | each client against a daemon that breaks connections, refuses, answers late or never; and pages of the log | CallsAreAtMostOnce, EveryCallSettles, OneConnection, ReachesDaemon (transport); PagesInOrderUnlessOverrun, TimelineIsComplete, OlderIsOffered, RequestsEnd (inspector); RunsLastBuild, AgentComesBack (agent); PagesContiguous (log) |
| `dev_loop` | edits during builds, dropped and lost events | NoChangeForgotten, EveryChangeIsBuilt, BuildsSettle |
| `host` | sessions, sweeps and the doctor over a lock file; writers of one file; the project's commands, with writes that fail; every configuration of up to two extensions | LocksHaveOwners, InfoNamesHolder, ExclusionUnlessRaced, OneBrowserUnlessRaced; ReadsLastWrite; PackageIsOnRecord, AddTargetAgrees; BuildsStayApart |
| `plan_apply` | two processes plan and apply, with edits that drop targets, failures, failed undo, deaths | ManifestsAgree, RunOwnsManifests, ManifestsAreRecorded, RecordsAreFinal, OnlyAnEditHidesDrift |

`clients` and `host` each put together components that share nothing (the clients
have the daemon's side in their own module; the tools touch different files).  A
behaviour belongs to one of them while the others do nothing, so the state space is
the sum of theirs and every property is checked on each.

Five runs show that the code does not keep what one of the repository's documents
says; each is expected to find its one property violated:

| Run | Property | What happens |
| --- | --- | --- |
| `daemon_unnegotiated` | CommandsAreNegotiated | The read loop looks its session up again (`websocket_server.go:557`); if a failed broadcast has unregistered it after the message was read, the capability check is skipped and the command is carried out, for extension "default" |
| `daemon_reload` | ReloadFollowsBuildComplete | `cmd/panex/main.go:617`: the error of broadcasting `build.complete` is ignored and `command.reload` is published all the same |
| `file_lock_shared` | MutualExclusion | `Release` unlocks and then unlinks: a caller that opened the old file and one that creates a new one both get a lock |
| `dev_loop_recreated` | NewDirectoriesAreWatched | `watchedDirs` is never pruned: a directory that is deleted and created again gets no watch |
| `host_config` | AutomationReadsConfig | `LoadProjectGraph` takes `project.graph.json` whenever it is there (`internal/cli/cli.go:859`): after an edit of the config, plan, verify and package go on with the old graph |

For each property of a passing run `PROJECT.json` names a wrong variant of one
definition (a dropped guard, a swapped order, a missing entry; the comments in the
modules call them variants) under which the same run finds the property violated.

### 3.1 Bounds, and why they are enough

*EventStore* (in `clients`): 2 extensions, logs of at most 4 rows, limits 0, 1, 2 and
one above the maximum: a full page, the row before it, and both ends of `boundLimit`.
In `daemon_storage` the two keys, two values and two extensions distinguish "this one"
from "another".

*Daemon*: two connections.  Every property speaks of one client, or of one client
and a goroutine that acts against it, and both roles are taken by each run: an
inspector with an agent of the built extension (timeline), or with a simulator
(storage, liveness).  Sessions in `Established` begin registered, which is the state
their own handshakes lead to; `daemon_timeline` and `daemon_live` explore the other
client's handshake against it.  At most two commands per client, one build (two build
events and a reload), one database fault at any point, one client that may leave.  A
second build or fault repeats what the first can do, because neither the build loop
nor the store keep state beyond the log.  `daemon_live` has two instances in one run
(`OneEnding`, an action constraint): either the server stops while one client is still
shaking hands, or it stays up, a command is broadcast and one client may go.  The
constraint takes away only receiving, leaving and stopping, none of which fairness
speaks of.

*ChromeSimTransport*: two calls (one that is sent, one that waits or is sent later),
two faults, and six sockets, which is enough: a transport that ran out of them could not
connect any more and `ReachesDaemon` would fail.  *InspectorSync*: pages of 2, a list of 4,
a log that grows from 4 rows to 7, one lost connection: two pages fill the list, a third
or three live rows overflow it on either side.  *AgentReload*: three builds of any
extension and three faults: lost connections, refusals, ended workers, a `connect()` that
throws.

*FileLock, DevSession* (in `host`): three callers, two of which run sessions while
the third sweeps and probes, and three inodes.  *AtomicFile*: two writers, one of which
ignores errors, four writes, one inode more than writers.  *Workspace*: two processes,
three commands, one save by the developer, one target with an adapter and one without,
three capabilities (native with and without a permission, and blocked), two configs and
two reports.  A run begins in a clone with one config at most (the save makes the other),
and with a policy beside one of the two reports only: no step reads both.  Three
commands are two that interfere and one that finds what they left.  *DevPaths*
(`MaxExtensions` = 2): every configuration of one or two extensions over nine paths (absolute and relative, nested,
hidden), started in the project or above it, and four files built.

*DevLoop*: the root and one subdirectory, four versions of the tree (create, write,
delete, create again), channel capacity 1 (64 in the code) so that it is full while
a build runs, re-walk budget 2 (4 in the code): one tick more than it takes for the
watch to work, which is the relation the code relies on.

*PlanApply*: two processes, two inodes, two targets (one executed and one not is
already "half-way"), two versions of the project, of which the second has both targets,
one or none (`Histories`), three applies: one that leaves something behind, and two that
interfere.

Runs with bounded inputs stop when the inputs are used up, so they do not check for
deadlock; `EveryCommandEnds`, `ShutdownEndsEverything`, `BuildsSettle`,
`EveryCallSettles`, `RequestsEnd` and `AgentComesBack` are the statements that what
should go on does.

### 3.2 Fairness

*Daemon* (`Fairness`): weak fairness of each goroutine.  The Go scheduler runs every
goroutine that is ready; reads have the pong deadline and writes a write deadline, so
a socket operation succeeds or fails; a database call returns.  Nothing is assumed of
clients (they may never send, or be gone), of the build triggers, of faults, or of
somebody telling the daemon to stop.

*DevLoop* (`DevFairness`): weak fairness of the watcher's steps and of a build's.  Go
picks a ready case of a `select` at random, so no case is put off for ever, ticker
and timer run, and a build ends.  Nothing is assumed of the developer or of errors.

*ChromeSimTransport* (`TransportFairness`): timers fire; a socket that is opened opens,
breaks or times out; one that is closing closes; a daemon that is there answers a
hello.  The daemon need not carry a call out or answer it: `EveryCallSettles` rests on
the call's own timer.  Faults are bounded, which is what "ends up" in `ReachesDaemon`
means; a daemon that is gone for good (`mute`) is excused.
*InspectorSync* (`InspectorFairness`): the daemon reads and answers, the socket
delivers, the reconnect timer fires.  Nothing is assumed of the user or of live rows.
*AgentReload* (`AgentFairness`): the worker's callbacks and timer run, and the daemon
acknowledges, registers and publishes what it has begun; not that builds happen, and not
that the browser starts a worker it has ended (`WorkerStarts` is not fair): nothing in the
manifest or the code asks it to, so `AgentComesBack` excuses an agent whose worker has
ended, or whose `connect()` threw.  ADR 007 (`docs/adr/007-dev-agent-mv3-websocket.md`,
line 19) knows of such teardowns.

*FileLock*, *DevSession*, *AtomicFile*, *Workspace*, *DevPaths*, *PlanApply*: only
safety is stated.


## 4. What is proved

All theorems hold for any values of the constants that satisfy the module's named
assumption (`StoreAssumption`, `DaemonAssumption`, `LockAssumption`, `PlanAssumption`,
`DevLoopAssumption`, `RulesAssumption`, `WorkspaceAssumption`, `AtomicFileAssumption`,
`SessionAssumption`, `PathsAssumption`, `TransportConstants`, `AgentConstants`,
`InspectorConstants`): any number of clients, commands, builds, faults, callers, inodes,
processes, targets, edits, calls, sockets, writers, sessions, directories, extensions and
rows, and pages and lists of any length.  The assumptions say that special values ("no
file", "nobody", "default") are what they are called, that bounds are numbers, and, of
`DaemonAssumption`, that a command does what `handleClientMessage` does for a message of
its name (`Does`).

**EventStore_proofs.**  `StoreTypes`, `ReplayIsStorage` (`ReplayMatchesItems`),
`DiffsChangeSomething` (`NoIdleDiff`) and `PagesLoseNothing` (`PagesContiguous`, and the
same for every limit and not only those on both sides of the cut-off).  The invariant is
the replay equation itself with the types; the lemma about a mutation shows how appending
a diff changes the last writer of each key.  Paging needs no invariant but the types; its
lemmas are about `Newest`, the n greatest of a finite set: it is what lies above some
element, it is the whole set unless it has n elements, and the newest of the newest are
the newest.  The prover cannot do induction over the log, but that the natural numbers
are well founded under < is a fact it can use: a nonempty set of rows has an oldest one
(`HasOldest`), which is induction by the least counterexample.

**Daemon_proofs.**  `DaemonTypes`, `BroadcastsReachSessions`, `FramesAreNegotiated`,
`BuildEventsArriveInOrder`, `ReplayIsStorageInDaemon`.  The inductive invariant
`DInv` adds to them: `Attached` (a session's loops and its place in the table come
with the handshake), `FanOwners` (a fan-out is under way exactly while its goroutine
waits for it), `FanRows` (what it carries is a row of the log, its recipients want it,
and read loops carry no build events), `SinceInLog` (sessions are registered at a
position of the log), and `OutInOrder` (a client about to be sent a build event has got
the older ones).  `NoLostBroadcast` needs `FanOwners` and `FanRows`: a goroutine
overwrites its fan-out only when it is done.  `BuildEventsInOrder` needs `OutInOrder`,
which in turn rests on `NoLostBroadcast`: when the build goroutine copies the session
table, no other goroutine carries a build event, so each older one has arrived.

Three more theorems rest on a second invariant, `LInv`, of what each read loop has
read, holds and has answered.  `SuccessIsCommitted` (`SuccessMeansCommitted`): every key
that `chrome.storage.set` is done with has a diff of its value behind the row its command
began at (`SetsKeys`); every key that `remove` is done with was absent at some moment
since, after `clear` all of them were at one moment, and the message of
`runtime.sendMessage` is in the log (`Empties`; with `ReplayMatchesItems` a row that is
not in the table is absent in the log); and no successful answer is written before
nothing is left to do.
`TimelinesHaveNoGap` (`TimelineHasNoGap`): a page is a suffix of the rows of its
extension up to the one it was asked for (`HoldsPages`, with `PageIsSuffix`), it
is read after the session was registered, and from there on `NoLostBroadcast` has the
rest.  `ViewsFollowStore` (`ViewFollowsStore`): the snapshot shows the log as it
was when it was read (`HoldsSnapshot`, which takes `ReplayMatchesItems` to get from the
table to the log), and a view that got everything in order shows the log up to the last
row it reflects (`FollowsLog`); with nothing on its way that is the table again.  It says
nothing of a view that was sent a diff out of commit order, or a snapshot older than a
diff (`late`), nor of keys that the diffs of another extension touched.

`DaemonImplementsStore` is a refinement: every step of the daemon is one of the store's
operations or leaves both tables alone.  `AppendIsAllowed` and `MutateIsAllowed` are its
steps; the second needs of `LInv` that a read loop at work has a command that was really
sent, for only of those is it known that a set has a value.  With it the store's theorems
hold of the daemon: `NoIdleDiffInDaemon` (`NoIdleDiff`) and `PagesLoseNothingInDaemon`.

**FileLock_proofs.**  `LockTypes`, `LocksAreOwned`, `InfoIsTheHolders`,
`OnlyTheRaceBreaksExclusion`.  The inductive invariant `IInv` says besides that a
descriptor is open exactly between open and close, that who was told it has a flock
has it, and, as long as no unlink raced, that who wants or has the lock has the file
the path names.  Exclusion follows from the last two: both holders have the same
inode, and an inode has one exclusive owner.  So the race that `file_lock_shared`
exhibits is the only one.  `InfoIsTheHolders` leaves out the moments in which a locked
file may name somebody else: from a new holder's flock to its truncation of the file, and
during a sweep; from the truncation on it rests on `HoldersAreNamed`, that nobody writes
into a file which another has locked.

**PlanApply_proofs.**  `PlanTypes`, `AppliesDoNotMix` (`ManifestsAgree`),
`RunsAreIsolated` (`RunOwnsManifests`), `NothingIsUnaccounted`
(`ManifestsAreRecorded`), `RecordsAreTerminal` (`RecordsAreFinal`), `DriftNeedsAnEdit`
(`OnlyAnEditHidesDrift`).  The lock's
invariant is taken over from `FileLock_proofs` by INSTANCE: every step of a process is
a step of the lock or leaves it alone (`StepsUseTheLock`, and as a refinement
`ApplyUsesTheLock`).  On top of it `ApplyInv`
has, for every command, where it is relative to its lock (`Fits`) and what it has
executed, undone and recorded (`Shaped`), the exclusion of holders, that a holder's
manifests are those it wrote (`Owned`), and `Apart`: of two targets whose manifests no
unsuccessful run wrote (`Clean`: not in `half`, and of no run under way), the manifests
are of one plan if the plans of both have both (`Agree`); and what a rollback has passed
by is in `half` (`LeftBehind`).  `ManifestsAgree` speaks of quiet moments only and is not
inductive without `Clean`.  The step that adds to the clean targets is the end of a run
that succeeds: all targets of its plan are its own by `Owned`, so two of them agree, and
of a target its plan does not have `Agree` asks nothing.

`OnlyAnEditHidesDrift` needs that nothing a command holds, and nothing on disk, is from
a later state of the project than the present one, and that it is the present one
between the look for drift and the first edit after it (`NothingFromTheFuture`).

**DevLoop_proofs.**  `ChangesAreKept` (`NoChangeForgotten`).  The property is not
inductive: it lists re-walks of the watcher that may turn out to find nothing.  `Sure`
counts only what cannot be lost any more (an event, a timer, a report in the channel, a build that has
yet to read the place and has seen no directory disappear) and counts a re-walk only
where a file is left to find.  The rest of `DevInv` is what makes that hold through
each step: files are in directories that exist, everything before the watcher is attached
is `early`, a walk has nothing left to do but its new directory, and while a watch may
miss events re-walks of its directory are left (`FreshIsRewalked`).

**DevSession_proofs.**  `OneBrowser` (`OneBrowserUnlessRaced`) and `ExclusionWithDoctor`
(`ExclusionUnlessRaced` of the specification with sessions and the doctor).  A session's
step is a step of `FileLock` or leaves the lock alone (`SessionStepOnLock`), so
`IInv` of `FileLock_proofs` carries over, and the doctor's removal keeps it because it
counts as a race; `DriversHoldLock` says that who drives a browser holds the lock.

**Host_proofs.**  `FileIsWhole` (`ReadsLastWrite`).  `FileInv` adds why: as long as
no two writes have overlapped, the path's inode is not the temporary file's, a writer's
inode is the temporary file and nobody else is at it; so filling it cannot disturb the
path, and what is renamed is the writer's own, whole, or that of a writer which went on
after a failure (`blind`, which the property leaves out).
`BuildsAreApart` (`BuildsStayApart`), for any tree and any number of extensions (a
configuration has any number up to `MaxExtensions`, which is any number).  The lemmas are about prefixes of sequences: which of two relative paths is
above the other does not depend on the directory they are taken from, so the checks
carry over from the process's directory to the config's (`CheckCarriesOver`) as long as
no relative path stands beside an absolute one; and what an infrastructure name shields
is not watched (`ShieldedIsNotWatched`).
`WorkspaceTypes`, `PackagesAreOnRecord` (`PackageIsOnRecord`) and `AddTargetsAgree`
(`AddTargetAgrees`): the invariant `WInv` says what each process has read and written at
each of its places, or could not (`Fits`), and that as long as nobody else has done
anything since its command began, that is still what the files say (`Undisturbed`).  Both
properties speak of commands that went on after a write that failed: the first because
the answer says so, the second with the policy excepted.

**Clients_proofs.**  `TransportIsSound` (types, and that what is under way
for a call fits what it went through) and `TransportKeepsPromise`: the transport
implements `RemoteCall` (`CallsAreAtMostOnce`).  The invariant `WireFitsCalls` is what
the refinement needs: a command under way has not been carried out, so carrying it out
is `CarryOut`; a success under way was carried out, so delivering it is `Succeed`; and
nothing is under way for a call that was not sent.  Every handler that rejects calls
settles only calls without outcome, and is `Fail` of that set, or a stutter.
`ConnectionIsOne` (`OneConnection`) adds what each socket may still do
(`SocketsInOrder`) and, as long as none was opened while another was closing, that
whichever is alive is the current one (`OneAtATime`).
`LastBuildRuns` (`RunsLastBuild`): code that is not the last build's has a reload on its
way that the agent will obey, unless one was missed (`StaleIsToldOrMissed`); for that
the acknowledgment has to be the first message of a connection and nothing but reloads
to follow it.

`PagesAreInOrder` (`PagesInOrderUnlessOverrun`), `TimelinesAreComplete`
(`TimelineIsComplete`) and `OlderPagesAreOffered` (`OlderIsOffered`) share the invariant
`InspectorInv`.  At most one query is under way, and only while the list waits for its
answer (`OneRequest`); a page under way answers what was asked (`Answers`): an older one
ends where the list begins, unless the list was overrun since (`Continues`), and of the
live rows newer than a newest one none is lost: each is on its way, or listed, or kept
for the page, or there was no room for it, which the header will say (`Kept`).  Each
connection begins with nothing under way (`Beginning`).  The list itself is `Ordered`
and `Gapless`, and `Complete` and `Offered` are the two other properties where they do
not depend on being at rest.  That merging never takes an entry for one already listed
follows: live entries carry no id, and an older page ends before the first id listed.
`NotHeld` is recursive; what is needed of it is that it leaves out nothing when nothing
is held (`NothingHeld`), found by following the recursion down to the least position
where it would differ.  `PagesComeFromTheStore` ties the two models of a page together:
what `ReadPage` sends is what `Recent` of the event store returns.

**Only model-checked.**  Liveness (`EveryCommandEnds`, `GoneIsClosed`,
`ClosedIsForgotten`, `ShutdownEndsEverything`, `EveryChangeIsBuilt`, `BuildsSettle`,
`EveryCallSettles`, `ReachesDaemon`, `RequestsEnd`, `AgentComesBack`) is out of the
prover's reach, as is everything about ENABLED.


## 5. Observations

Besides the five disagreements of section 3:

- In `DevLoop` changes need the dropped-events flag less than one would think: the
  event in the full channel starts a build that reads every file, so it covers the
  dropped one.  The flag costs a build and loses nothing.
- A file that is edited after the startup build has read it and before the watcher
  has reached its directory is not built until the next change (`early`, which
  `NoChangeForgotten` excludes).
- A directory that disappears while the watcher adds it, and an error of fsnotify,
  end `panex dev` (`wpc = "failed"`).
- Drift is looked for before the lock is taken.  `OnlyAnEditHidesDrift` says exactly
  how far that goes: without `--force` an older manifest replaces a newer one only if
  the project was edited while that apply was running.
- Rollback removes a manifest, whatever had been there before the apply: after a
  failed apply the earlier manifest is gone, and no record says so, because the earlier
  record still claims it.  `ManifestsAreRecorded` is one direction only.
- `resume` moves a run to "running", which the table allows from "created",
  "planned", "paused" and "awaiting-policy"; `apply` writes records that are
  "succeeded" or "failed" (`RecordsAreFinal`), so none of its runs can be resumed.
- After the race of the lock file two applies may run at once, and then every
  exclusion property of `PlanApply` is off: `~raced` is their hypothesis.
- The transport's close handler clears the capabilities and rejects the pending calls of
  whichever connection is current.  A socket that was given up after a handshake timeout
  and closes after its successor was opened leaves an open connection without
  capabilities, on which every call fails until it breaks.  `OneConnection` says that
  this needs such an overlap.
- Rows that the inspector trimmed can be out of reach: an older page that is prepended
  to a list which live rows have cut meanwhile leaves a hole (`overrun`), and "load
  older" starts from the oldest row that is listed.
- `state.json` is read, changed and written without a lock, so of two commands one loses
  its update.  Package goes on when the record could not be written, and the state then
  names a run without one (`internal/cli/cli.go:450-461`); its answer lists the error, so
  what holds is `PackageIsOnRecord`, of packages that answer "ok".  A state that cannot
  be read is not an error at all: the answer is "ok", and `state.json` does not name the
  run.
- add-target drops the error of writing the policy (`internal/cli/cli.go:1110`) and reports
  success, with the target in the config and the graph and not in the policy.
- `writeJSONFile` (`internal/cli/cli.go:1125-1131`) renames the temporary file also when
  writing it failed, which publishes a part of it without any overlap (`blind`).  Its one
  caller, `CmdInit`, has none outside tests.
- An inspector's view may stay behind the store: two read loops broadcast their diffs in
  another order than they committed them (`websocket_server.go:1374`), or the snapshot it
  asked for was read before, and written after, a newer diff (`websocket_server.go:613`).
  `late` marks such a view, and `ViewFollowsStore` says that these are the only ways,
  besides the diffs of another extension, which carry no extension.
- Between the flock of `Acquire` (`lock.go:64`) and its truncation (`lock.go:84`) the file
  names an earlier holder, maybe a dead one, and whoever is refused at that moment reports
  that one.  `InfoNamesHolder` says that this window, and a sweep, are the only ones.
- A manifest of a target that a later version of the project does not have stays on disk:
  no action of a plan removes one, and the record of the earlier run accounts for it.
- When the browser ends the agent's worker (`agent/src/background.ts:156`: "MV3 service
  workers are short-lived"), its socket and its reconnect timer go with it; there is no
  alarm and no listener that starts it again.  `connect()` that throws, because the
  configuration cannot be read or the URL is not one, is not tried again either.
- Overlapping writers of one file share `path.tmp` and may publish each other's empty
  file: "atomically" (`internal/fsmodel/fsmodel.go:231`) is true of writers that do not
  overlap (`ReadsLastWrite`).
- add-target writes the whole policy from constants, and in place: a death in
  `writePolicyFile` leaves a policy that is empty or does not parse, and in the second
  case every later add-target is refused.
- `initialize_project` takes any target it is given as resolved, also one without an
  adapter; verify passes such a graph, `panex plan` refuses it, and the MCP tool of the same
  name ignores the manifest errors and plans the rest.  What it was given is lost
  when add-target bootstraps a config, which takes the requested targets.
- After the doctor has made `.panex`, or an initialization has been cut short,
  `initialize_project` says that the project is initialized, and there is no graph.
- The doctor removes every lock file when one of them is old, held ones included.
- The check for overlapping directories and their use take relative paths from
  different directories (`CheckedAsUsed` is the hypothesis of `BuildsStayApart`): with
  `--cwd` or `--config` elsewhere and an absolute path beside a relative one, two
  extensions may write into, or watch, each other's directories.  Each builder looks
  again, at its own two only.
- A source directory whose own name starts with a dot is watched, but no build finds
  anything in it.
- `server.event_store_path` is not compared with anything: a store inside a watched source
  directory has every event trigger a build, which records events.
- The migration of `storage_items` renames, creates, copies and drops without a
  transaction: after a crash behind the rename the next start creates a table that has
  the column, and the old rows stay in `storage_items_old`.
- `CmdInit`, `CmdDev` and `CmdDoctor` of `internal/cli`, and a session's `Launch` and
  `Terminate`, have no caller outside tests at this commit; DevSession models the package
  as its own callers would use it.


## 6. What is not modelled

Payload encoding and validation (a message that does not decode takes the path of a
command that is refused); the check of a message's sender role; `Run`'s path for a
failing listener; how the store opens and migrates an old database (one sequence at
startup with nothing beside it); what a manifest contains besides permissions; what
esbuild makes of the sources; symbolic links; a second watcher and build loop at once
(the loops of several extensions share only `Broadcast`, which Daemon has for any number
of goroutines but runs with one, and directories, which are DevPaths); Windows locking;
the package action of a plan and `resume`, which no run can be given; host permissions,
versions and the other rules of a policy; the MCP protocol, `inspect`, `test`, `report`
and `start_dev_session`, which read, or make a session and launch none; the
wrappers of `chrome-sim` over its transport; the inspector's presentation; release and
packaging, which write files once and keep no state.


## 7. Where to go on

1. An abstract "one plan at a time" register that PlanApply implements while no unlink
   races.
2. Models: `start_dev_session` over DevSession once the session package has a caller;
   the plan's package action.

A run that shows a disagreement goes when the code is mended.
