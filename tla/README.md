# TLA+ models of neals

neals runs several `devenv` projects at once on one machine: each gets a network
namespace, a loopback address of its own per TCP service, a reverse-proxy route and
host names. The daemon `nealsd` (crates/daemon) keeps that state; the CLI `neals`
(crates/cli) talks to it over a UNIX socket; both share crates/common. This directory
models the state machines of that code, checks them with TLC on small instances and
proves the central properties with TLAPS.

## The system

| Component | State | Operations | What is hard | What makes it correct |
|---|---|---|---|---|
| Request core: `daemon/handler.rs`, `daemon/state.rs` | `AppState.projects`; the children, slirp and helpers of each up | `Up`, `Down`, `Status`, the reaper (`reap_exited`), `stop_all` | an `up` takes the lock four times and works without it in between; a teardown holds it across awaits; every step can fail | one owner per address; nothing runs that no request or project owns; the map, the hosts file and Caddy agree |
| Loopback leases: `daemon/ports.rs` | `LoopbackLeases.used` | `allocate`, `release`, the port search | partial failures, exhaustion, u16 edge | an address in use has one user |
| Caddy manager: `daemon/caddy.rs` | child, admin socket, loaded routes | `apply_routes`, `respawn`, `shutdown` | Caddy dies with its routes, a POST fails halfway | no route to somebody else's address |
| Process tree: `daemon/state.rs:256-393` | the processes of a project | `stop_process_group`, `sweep_project_processes` | forks between the reading of /proc and the kill, children that leave the group | what was read is dead when the teardown returns |
| Session commands: `cli/shell.rs`, `cli/refresh.rs` | none of their own | `shell`, `exec`, `refresh` | the daemon's answer is old when used | wipes only stopped projects; a shell leaves with its project |
| Hosts: `daemon/hosts.rs`, `common/hosts.rs` | state fragment, `/run/neals/hosts`, `/etc/hosts` | `sync_host_aliases`, `merge_hosts_file`, `apply_hosts_file` | files rewritten in place by several writers, root path unit | the user's lines survive; the block is what was published |
| Network: `daemon/netns.rs` | bwrap, slirp4netns, proxy helpers | `start_slirp`, `start_proxies`, `splice` | processes dying at any time, probe-then-bind | helpers serve only their own guest |
| Daemon lifetime: `daemon/lib.rs`, `cli/daemon_client.rs`, `common/xdg.rs`, the unit | the socket files of the unit and of the user, tasks, signal | `prepare_socket`, accept and reap loops, shutdown, `daemon_socket`, `ensure_daemon` | two daemons starting, a path chosen anew at each look, a shutdown racing requests | one daemon per path and one that is reached; nothing left behind |
| Registry: `common/registry.rs` and the CLI commands on it | `projects.json`, `projects.json.tmp` | `register`, `unregister`, `prune` | several CLIs load, change and save without a lock | no update is lost, the file parses |
| Configuration: `common/devenv.rs`, `cli/init.rs` | `devenv.nix` | `parse_neals_name`, `parse_neals_services`, `inject_neals_stanza` | the same attributes written in many ways; two readers of one file; a file rewritten in place | declared services are found, once; init changes nothing the user wrote |
| Live view and logs: `cli/live.rs`, `cli/logs.rs` | file offsets, recent lines | `follow_loop`, `LogFollower`, `tail_lines`, `CrossDeduper` | rotation, half lines, the same line from two sources | no line is lost or shown twice; the view ends with its project |
| doctor, style, argument parsing, packaging | - | diagnosis, text, installation | - | no state machine |

Components call each other like this: a CLI command sends one request per
connection; `handle_connection` spawns a task per connection; all tasks and the
reaper share `AppState` behind one tokio `Mutex`; under it the core calls the leases,
posts the whole route table to Caddy and rewrites the hosts fragment. The process
trees, the symlinks under `.neals`, Caddy itself, `/etc/hosts`, `devenv.nix`, the logs
and other CLIs change without the lock.

The models follow these seams. Nealsd composes the request core with the leases, Caddy's
routes and the hosts fragment, because one critical section changes all of them;
NealsdShutdown puts the daemon's end around it. Session looks closer at what Nealsd
takes for one step, the end of a process tree, and adds the commands that rely on it.
HostsSync starts where Nealsd's `hosts` ends. LogView and LiveView share the log: the
one follows files, the other merges what is followed.

## Modules

### Nealsd.tla: the request core

The state is `AppState` and what it is about:

| Variable | Code |
|---|---|
| `lock` | who holds the tokio Mutex across an await (`down`'s connection or the reaper); critical sections nobody can look into are one step |
| `projects` | `AppState.projects`, the RunningProject named by the connection whose `up` inserted it |
| `leases` | `LoopbackLeases.used` |
| `pc`, `target`, `bound` | how far a request is, its project, its `Vec<BoundRoute>` |
| `stage`, `victim`, `queue` | the teardown under way: next step of `finish_cleanup`, the removed RunningProject, the reaper's remaining `dead` list |
| `alive`, `slirp`, `listeners` | process tree, slirp4netns and proxy helpers of an up |
| `linked`, `caddy`, `routes`, `hosts` | `.neals` symlinks, the Caddy process and the routes it serves, the hosts fragment |
| `lost` | history variable: addresses in `leases` that no code will release |

Each action is a stretch of a handler between two points at which another task, the
reaper or the world can act. `up_project` is `UpCheck` (first look at the map),
`UpResolve` (registry, tools, symlinks), `UpBind`, `UpRoute`, `UpSpawn`, `UpNetwork`,
`UpProxies`, `UpInsert`, and a failure action for each `return Err`: `UpBindFails`,
`UpRouteFails`, `UpLogFails` (the `?` that keeps the leases), `UpPrepFails` (release
without telling Caddy), `UpNetworkFails` and `UpAbort` (release and re-apply),
`UpLoses` and `UpDropHelpers` (name taken; helpers dropped after the guard). A
teardown is `Down` then `StopProcessGroup`, or `ReapScan` and `ReapNext`, followed by
`Sweep`, `Release`, `FinishCleanup`. The world has `TreeExits` and `CaddyDies`.

Abstractions. Services of a project are constant (`devenv.nix` is not edited between
ups). Ports are not modelled, only addresses; a busy port is the failure "proxies".
The process tree is one unit that SIGKILL ends at once (Session looks inside), and so
are helpers and slirp when they are dropped or stopped. `next_ip` may settle on any free
address, because
the host decides which probes it accepts. Loose mode (`NEALS_CADDY_CMD`) and disabled
Caddy, where routes do not exist, are left out. `Status` and `Ping` change nothing.

### LeaseTable.tla: what the leases promise

An address is free, held by one holder, or leaked. `Nealsd!LeaseTableSpec` states
that the daemon implements it with `free <- Ip \ leases`, `held <- BoundIps`,
`leaked <- lost`.

### NealsdShutdown.tla: the end of nealsd

Extends Nealsd by `life`, how far `run` is after its `select!`. `ShutdownSignal` drops
the accept loop and the reaper at the await they are in. If the reaper was in
`finish_cleanup` (`DropReaper`), its guard is released, the RunningProject it had taken
out of the map is dropped with its slirp and helpers, and whatever the cleanup had not
reached yet stays undone: `cut` remembers the project. `StopAll`, `StopNext`,
`StopFinish` are `stop_all`, `CaddyShutdown` the end of Caddy under the same lock,
`Exits` the removal of the socket and the return. The tasks of the connections accepted
before are not cancelled: `ShutdownNext` lets every handler of Nealsd go on until the
process exits, also after `stop_all` (`late`). The exit itself kills helpers and slirp
(`kill_on_drop`), but no tree: `--die-with-parent` reaches bwrap and its child, so any of
the trees that are alive may live on, until they end by themselves (`World`, which goes on
after the exit). `DropReaper` may also cut the restart of a dead Caddy in two, which then
runs without routes.

### Session.tla: the processes of a project, refresh and shell

| Variable | Code |
|---|---|
| `proc`, `used` | the processes, each with the `up` it stems from, the process among whose main thread's children it is listed, whether it is in bwrap's group and whether it carries `NEALS_RUNTIME` |
| `lock`, `project`, `pc`, `root` | AppState's mutex while a teardown holds it, the map, how far each `up` is, its child |
| `marked`, `targets`, `scanned` | the lists of pids `stop_process_group` and `sweep_project_processes` work on; when /proc was read |
| `refresh`, `session` | `neals refresh` and `neals shell` |

`Fork` and `Exit` are the project's processes, at any time: a child may leave the group,
lose the environment, or be forked by a thread whose children `collect_descendants` does
not read. `Ask`, `Spawn`, `Insert`, `ExitsEarly`, `GivesUp`, `LosesRace`
are `up_project` as far as processes see it. A teardown is `Down` (or `Reap`, which
starts at the sweep), `RootExits` or `Recollect` and `KillTree`, `KillSurvivors`, `Scan`,
`KillStrays`; between any two of them processes fork and exit. SIGTERM needs no state:
whoever may exit on it may exit anyway. `AsksStatus`, `RefreshDown`, `DownAnswered`,
`Wipe` are `refresh --hard`; `RequireNetnsPid`, `Enter`, `WatchShell`, `Leaves` are a
shell and the loop that watches the session for it.

Abstractions. Pids are not used again. A deadline may pass at any time. Processes that
`nsenter` starts in the namespaces (shell, exec) are not descendants of bwrap and carry
no `NEALS_RUNTIME`; they are `session`, not members of a tree.

### Registry.tla: projects.json and its commands

| Variable | Code |
|---|---|
| `file`, `tmp`, `content` | the inodes `projects.json` and `projects.json.tmp` name, and what is in each inode |
| `dirs` | the project directories for which `is_dir` holds |
| `pc`, `cmd`, `mem`, `fd` | per process: how far it is, its command, its `Registry`, the file `fs::write` has open |
| `missing`, `behind`, `lost`, `overlap`, `broken` | history: what a prune could have seen, copies older than the file, saves of such copies, overlapping saves, deaths |

`Register`, `Unregister`, `Prune` load the file (`Registry::load`) and change the copy,
`Confirm` and `Decline` answer the prompt, `OpenTmp`, `WriteTmp`, `WriteFails` are
`fs::write`, `Rename` and `RenameFails` are `fs::rename`; `Crash` ends the process
anywhere. `MakeDir` and `RemoveDir` are the user. A write of a shorter text over a
longer one leaves a tail (`LandsAs`); lengths are taken to grow with the number of
entries.

`RegistryTable.tla` is the abstract registry: one map that each command changes in one
step, whatever becomes of the process. `Registry!TableSpec` is the refinement
`table <- Loaded`, up to the moment when two saves overlap or an old copy is saved
(`Collide`): that far, and no further, the code keeps the promise.

### HostsSync.tla: from nealsd to /etc/hosts

`hosts`, `fragment` and `mirror` are the three files as sequences of lines. In mode
"direct" nealsd may write the hosts file, in mode "system" it renames a mirror under
`/run/neals`, whose change makes the path unit start a root service. `Sync`,
`WriteFragment`, `Mirror`, `Apply` are `sync_host_aliases`; `ServiceStarts` and
`SudoApply` start the two other writers; `ReadExisting`, `OpenHosts`, `WriteHosts` are
the three system calls of a merge, which all three writers interleave. `Dies` may leave a
beginning of the text, `NealsdRestarts` removes the mirror. The user's editor adds a line
or deletes a marker. `merge_hosts_file`, `strip_neals_block` are operators on whole
texts, their loops over lines recursive functions. `spoilt` and `disturbed` remember the
events for which the code promises nothing: a writer that died or was overtaken while it
wrote in place, and what keeps a publication from its way. A block lists one entry.

### Devenv.tla and ProjectConfig.tla: devenv.nix

Devenv is pure: a file is the syntax tree that rnix makes of it, and
`collect_neals_literals`, `parse_neals_name`, `parse_neals_services`,
`inject_neals_stanza` are operators on it, errors included. The recursion of
`walk_attrset` has become an attribute: a set carries `leaves`, what a walk of it finds,
and `repeats`, whether `insert_lit` refuses a path in it, both computed by `AttrSet` from
its bindings when it is made. ProjectConfig is one
file under edit: `UserWrites` appends a binding, `Regroup` writes the same attributes
another way (`a.b = v`, `a = { b = v; }`, one set or two), `InitReads`, `InitNames`,
`InitOpens`, `InitWrites`, `InitDies` are `neals init`, which rewrites the file in place
from a text it read before, with a name from a second reading. What the readers ought to
find is not asked of the walk: `written` keeps every binding as it was written, and
`ServicesFound` compares the services with the attributes in these (`Written`), one by one,
those excepted that the code passes over (`Overlooked`). Which names and socket files are well formed is a constant; the result
of `devenv eval`, which the readers fall back on in other code, is not looked at.

### LogView.tla: following a log

| Variable | Code |
|---|---|
| `data`, `path` | the inodes of a log and the one its path names |
| `gen`, `listed`, `out`, `count` | the project: its namespace, the daemon's map, the file it writes to, bytes written |
| `fd`, `offset`, `pending` | `LogFollower` |
| `pc`, `from`, `seen`, `len` | how far the command is, `log_offset` of `neals up`, `netns_pid` of the loop, the length poll_lines got |
| `shown` | bytes of the lines printed |

One of three commands looks at the log (`kind`): `neals up` from the length it took
before it asked for the up (`TakeLen`, `AskUp`, `OpenFromOffset`), `neals logs -f` with a
tail of the merged log, or of one process (`ShowTail`, `OpenAtEnd`, `FileAppears`).
`tail_lines` reads backwards in blocks (`TailLoop`, a recursive function of where a block
ends). `PollStat` and `PollRead` are the two steps of
`poll_lines`, between which the log grows, is truncated or renamed; `SeesDead`,
`Discover` and `Keys` are the ends of `follow_loop`. The project starts (`Starts`, with
`open_log`'s rotation, or `StartElsewhere`), writes bytes and newlines, dies, and is
removed from the map. Bytes are numbered, so that a byte shown twice or never is seen.

### LiveView.tla: one line from two logs

`process` and `merged` are the unread lines, `fromProcess` and `fromMerged` the two
`RecentLines` of `CrossDeduper`. `ProcessPrints` puts a line into both logs,
`DevenvSays` into the merged one only, `Attach` is `ProcessLogMux::refresh`,
`TakeProcess` and `TakeMerged` are the two methods of the deduper with `insert`,
`remove` and eviction. The counters are history variables. The process logs are one
log: their lines do not interact. Following the files is LogView's.

### Lifetime.tla: how nealsd starts, is found and stops

| Variable | Code |
|---|---|
| `sock`, `listening` | who bound the file at each socket path, `/run/neals/nealsd.sock` ("system") and that under the user's runtime directory ("user"); whose listener is open |
| `at`, `dpc` | the path a daemon has chosen; a daemon in `daemon_socket`, `prepare_socket`, `bind`, `CaddyManager::start`, the accept loop, the shutdown |
| `main`, `unit` | the daemon systemd runs, until its directory is removed; what systemd knows of the unit |
| `ups` | daemons with projects |
| `cpc`, `peer`, `started` | a command in `with_daemon`, the daemon it is connected to, whether it ran `start_nealsd` |
| `faults`, `system`, `overlap` | number of faults, whether the unit is installed (chosen once), history: starts or ends that overlapped at a path |

`daemon_socket` is asked anew by every ping, every request and every daemon: the unit's
path counts while there is a file at it (`NEALS_SOCKET` is left out). `ChoosesPath` is
`run` up to it, `Exists`, `Connect`, `Unlink`, `Bind`, `Listen` are the system calls of
`prepare_socket` and `UnixListener::bind`; `CaddyStarts` and `CaddyFails` come before
the first `accept`; `Term`, `StopAll`, `RemoveSock` are the end of `run`. On the other
side `Dial`, `Pong`, `PingFails`, `SystemDown`, `StartNealsd`, `Retry`, `GiveUp` are
`ensure_daemon`, `Call`, `Served`, `NotServed` the request. A command whose ping failed
looks at the path again: with a file of the unit's it gives up (`SystemDown`), without one
it starts a daemon, where the unit is installed too; that daemon may serve next to the
unit's. `SystemdStarts` is a boot, a `systemctl start` or `Restart=on-failure`, and
`SystemdCleans` the end of `RuntimeDirectory`, with whatever file is in it by then. A
SIGTERM is no failure: nobody has to start the unit again after it.

### Proof modules

| Module | Of | Contains |
|---|---|---|
| `NealsdProofs` | Nealsd, NealsdShutdown, LeaseTable | the inductive invariant, one lemma per action; leases and their refinement; map, processes, routes, listeners; the same through the shutdown, hosts and routes, the exit |
| `SessionProofs` | Session | teardown and refresh |
| `RegistryProofs` | Registry, RegistryTable | the files; the refinement and prune |
| `HostsSyncProofs` | HostsSync | the merge on any text, the user's lines, the block |
| `LogViewProofs` | LogView | the tail of any log, the follower |
| `ProjectConfigProofs` | Devenv, ProjectConfig | the readers on any file, regrouping, `neals init` |
| `LiveViewProofs` | LiveView | the deduper |
| `LifetimeProofs` | Lifetime | the socket path |

## Runs

| Run | Instance | Shows |
|---|---|---|
| `nealsd_three` | 3 connections, 2 projects with 3 services, 3 addresses; every failure of a handler, Caddy dying, a hosts file that cannot be written; symmetric in connections and addresses | leases, processes, the map, routes and listeners stay consistent |
| `nealsd_live` | 3 connections contending for one project that may die | every `up` and `down` is answered, the dead leave the map and the hosts file |
| `nealsd_shutdown` | 2 connections, 2 projects, 2 addresses; the signal anywhere; the failures the handlers clean up after | what is published is about live ups also through the shutdown, the exit leaves only what an interrupted `up` or cleanup had, the daemon exits; no step hands out an address in use |
| `nealsd_unrouted` | 2 connections, no failure | counterexample: a running project without route |
| `session_trees` | 2 ups, 4 processes | what a teardown read is dead when it returns, `refresh --hard` wipes only what is stopped, a shell leaves |
| `hosts_sync` | both modes, 1 host entry, 1 line of the user, 2 syncs, 2 edits, 1 death | merging is sound on every text that occurs, the user's lines stay, the block is whole, what is published arrives |
| `registry_shared` | 2 commands, 2 names, 2 directories, crashes and failing writes | the file parses, is a table; a prune drops ghosts |
| `live_two` | 3 texts, each written at most twice, memory of 2 lines | nothing is lost, an echo is dropped |
| `logs_follow` | all three commands; logs of up to 4 bytes more, blocks of 2 bytes, tails of 1 line, rotation from 2 bytes on, 2 ups | the tail is right, no byte is skipped or repeated, `neals up` shows its up, lines appear, the view ends |
| `life_modes` | 3 daemons; 2 commands without the unit, 1 with it; at most one fault | one daemon per path, all daemons settle on one that is reached, commands end and get through |
| `life_unseen` | 1 command, a stop | counterexample: a daemon nobody can reach runs projects |
| `config_edits` | files of up to 3 bindings of 14 kinds, right and wrong | the services found are those written, once, the two readers fail together, grouping is neutral, init changes nothing |

Each property of a passing run has a variant of some action or helper, next to it in
the module and marked `Variant`, that violates it, as a plausible mistake in the code
would: a release that is forgotten, a guard dropped, a file written in place.

Bounds, and why they are enough:

- Three connections are what the races of the core need: an `up` under way, one that
  overtakes it, and a `down` of the latter. The reaper comes on top. Two projects with a
  service of the same name tell "other project" from "other service"; three addresses
  are as many as the two projects need together, so that a third `up` exhausts the
  pool. In the run about one project two addresses do.
- `nealsd_shutdown` adds the end of the daemon and gives up a connection and an address
  for it: one project whose cleanup is cut short and an `up` that is late are two
  connections. It leaves out the failures after which the code knowingly publishes
  something stale for good ("prep", "apply", "log", "hosts"): what it does then is
  in `nealsd_three`.
- `session_trees`: bwrap, its child, and a fork of each kind; or two trees of two. `MaxPids`
  is reached by forks, so that a fork happens in every gap of a teardown.
- `hosts_sync`: `MaxSyncs` gives one publication that overtakes another or takes it back,
  `MaxEdits` also bounds `sudo neals hosts apply`, `MaxDeaths` the deaths and restarts.
- `registry_shared`: three inodes suffice: the registry, the temporary file and an
  unlinked one that is open. `SmallAfterOverlap` follows runs in which saves have
  overlapped only with registries of at most one entry; before, all are followed.
- `live_two`: with three texts and a memory of two something is forgotten; a text
  written twice is the shortest repetition. `MaxLines` bounds it.
- `logs_follow`: four bytes (`MaxBytes`) over blocks of two (`Block`) put newlines at the
  beginning, in the middle and at the end of a block; a log as long as `LogMax` is renamed
  at the next up, of which there are `MaxUps`. Every log of the length and shape is
  also a log to begin with.
- `life_modes`: a starting daemon, the one it finds and a second that starts; a command
  begins only when enough daemons are left for all commands and one for systemd
  (`DaemonsLeft`). `Asking` says which commands run: two that start daemons at once without
  the unit; with it one, whose daemon meets systemd's, and a third daemon for a restart.
  One fault (`MaxFaults`) is what separates a healthy history from one with a leftover.
- `config_edits`: a project name, a service's field and a conflicting or broken third
  binding (`MaxBindings`, the template's included); wrapping and merging them reaches every grouping.
- Symmetry is used only in runs without liveness (the PROPERTIES of `registry_shared` are
  about single steps), over sets of model values nothing else names. `CHECK_DEADLOCK
  FALSE` stands where the world may stop: no more lines, commands, edits or daemons, or
  a daemon that has exited.

## Fairness

- Core: each handler, once it can go on, goes on (WF): it is a tokio task whose awaits
  have deadlines (`start_slirp`, `stop_process_group`, the admin socket), except for
  the POST to Caddy, of which an answer is assumed. Steps behind the lock get strong
  fairness because tokio's Mutex is first come, first served, and the reaper's tick too:
  it comes every second. No client has to send anything.
- Shutdown: the steps of a cleanup under way are weakly fair; `stop_all` and what comes
  after it strongly, because it queues for the same Mutex. Nothing is assumed of the
  requests: the daemon exits whether they go on or not.
- Session: every teardown goes on (WF per `up`: its waits have deadlines), and so do
  `refresh` and the loop that watches a shell. No process has to exit by itself.
- HostsSync: nealsd and each writer go on, systemd starts a unit that is due.
- LogView: the view polls and reads (WF); the look at the daemon, which is asked every
  few rounds, is strongly fair, because a busy log disables it again and again; the daemon
  inserts and reaps. The project need not write.
- Lifetime: processes run (WF per daemon and command), systemd clears the unit's
  directory and restarts the unit after a failure, not after a stop
  (`Restart=on-failure`); nobody has to start it at all. The
  40 pings in ten seconds are taken to be long enough for daemons to have bound or
  given up (guard of `GiveUp`); how long Caddy takes is left open, as the code does.
  `StartLimitBurst` of systemd is left out: with one fault it is not reached.

## What is proved

TLAPS proves for all values of the constants that satisfy the modules' assumptions:

| Theorem | Statement |
|---|---|
| `NealsdProofs!Invariance`, `TypeCorrect` | the inductive invariant and the types of the core |
| `NealsdProofs!LeaseSafety` | `LeasesAccounted` and `ServicesApart`: one user per address, one address per service |
| `NealsdProofs!ImplementsLeaseTable` | the core implements LeaseTable |
| `NealsdProofs!MapSafety` | `MapMatchesRequests`: who is in the map was answered for that very project and is not torn down |
| `NealsdProofs!NothingOrphaned` | `NoOrphans` |
| `NealsdProofs!RoutesSafe` | `RoutesReachOwnProject` |
| `NealsdProofs!ListenersSafe` | `ListenersApart` |
| `NealsdProofs!ShutdownInvariance` | the core's inductive invariant through the shutdown, and what each stage of the end implies (`Ending`) |
| `NealsdProofs!HostsOutliveShutdown` | `HostsOutlive`, if `"hosts"` is not in `Failures` |
| `NealsdProofs!RoutesOutliveShutdown` | `RoutesOutlive`, if neither `"prep"`, `"apply"` nor `"log"` is in `Failures` |
| `NealsdProofs!ShutdownLeavesNothing` | `ExitIsClean`, if `"hosts"` is not in `Failures`: no Caddy, no project, no tree of one that was started |
| `NealsdProofs!ShutdownImplementsLeaseTable` | nealsd with its shutdown implements LeaseTable |
| `NealsdProofs!ShutdownLeaseSafety`, `ShutdownMapSafety`, `ShutdownOrphansNothing`, `ShutdownRoutesSafe`, `ShutdownListenersSafe` | the core's safety properties through the shutdown, for every set of failures |
| `SessionProofs!TypeCorrect`, `TreesDie` | the types, and `NothingSurvives` |
| `SessionProofs!WipeIsSafe` | `WipesOnlyStopped` |
| `RegistryProofs!RegistryParses`, `NoTmpLeft` | the file parses unless saves overlapped; commands that ended by themselves leave no `.tmp` |
| `RegistryProofs!ImplementsTable` | the registry implements RegistryTable |
| `RegistryProofs!PruneIsSafe` | `PruneDropsGhosts` |
| `HostsSyncProofs!Invariance`, `HostsTypeOK` | the inductive invariant of the hosts file, and the types |
| `HostsSyncProofs!MergeAlwaysSound` | `MergeIsSound`: a merge leaves one whole block, keeps the rest, and merging again changes nothing |
| `HostsSyncProofs!UserLinesSafe` | `UserLinesKept` |
| `HostsSyncProofs!BlockSafe` | `BlockIsWhole` |
| `LogViewProofs!Invariance` | the inductive invariant of the follower |
| `LogViewProofs!TailAlwaysLastLines` | `TailIsLastLines`, for every block size |
| `LogViewProofs!NeverSkips` | `NothingSkipped` |
| `LogViewProofs!UpShowsAll` | `UpShowsItsLines` |
| `ProjectConfigProofs!Invariance` | what is below a set is what it carries, at any depth; what init is about to write |
| `ProjectConfigProofs!ServicesAlwaysFound` | `ServicesFound`: found is what was written, but for what is `Overlooked` |
| `ProjectConfigProofs!MisnamedNeverStarts` | `MisnamedCannotStart` |
| `ProjectConfigProofs!UserTextSafe` | `UserTextKept` |
| `ProjectConfigProofs!RegroupingAlwaysNeutral` | `RegroupingIsNeutral` |
| `ProjectConfigProofs!InitAlwaysNeutral` | `InitIsNeutral` |
| `LiveViewProofs!RecentsSound`, `OnlyOneSide`, `NothingLost` | the deduper's sets agree, never overlap, and swallow nothing |
| `LiveViewProofs!EchoShownOnce` | `EchoDropped`: a line written once is shown once |
| `LifetimeProofs!ServedAtPath` | `ServesAlone`: who serves is at the path it chose unless starts, ends and systemd's clearing overlap there |
| `LifetimeProofs!SettledReachable` | `SettlesReachable`: of daemons that started together one is where commands look |

All safety properties of every passing run hold thus for any number of connections,
projects, addresses, processes, commands, daemons, host entries, lines and bytes of a log
or a hosts file, and bindings of a devenv.nix. Assumptions are the modules' ASSUMEs, which
the runs evaluate: distinct null values, kinds of failures, natural bounds, blocks of at
least one byte (`LogAssumption`), user's lines that are neither markers, nor blank, nor
what nealsd writes (`LineAssumption`), keys that are strings, among which an interpolation
is none of those neals writes (`KeyAssumption`), and users' bindings with a path and at
most one set nested at once (`BindingAssumption`: deeper nesting comes of regrouping). Three theorems about the shutdown exclude failures, those
after which the code goes on with something stale: a fragment that could not be written
stays, and routes stay in Caddy when it refuses them or an `up` returns its error without
telling it. The run excludes them too (`CleanFailures`); the other theorems allow them.

The arguments:

- Core. None of the safety properties is inductive: which addresses an `up` may hold
  depends on its label, and a teardown works on what it took from the map long before.
  `IInv` says that the map names exactly the connections that are up, each under
  its own project; that the lock, the stage and the victim of a teardown go together;
  and that a connection whose handler has nothing to release holds nothing. There is
  one lemma per action. For the leases, every step is first shown to be one of five
  `LeaseStep`s (nothing, grant, give back, lose, abandon); accounting, uniqueness and
  the refinement then need only these.
- Routes and listeners rest on the leases. `RoutesReachOwnProject` is inductive given that
  no address has two users: a step adds no routes but those of ups to addresses they hold
  (`OwnRoutes`), and an up comes under the property only with a table that has nothing else
  (`RouteStep`): a route that a failed up left behind is gone when its address is used again.
  For the listeners, `Listening` says at which labels an up can have helpers, and that
  those are on its own addresses unless it is "losing" or the victim of a teardown.
- Shutdown. Every step is a handler's, the end of the dropped reaper, or one of `stop_all`,
  of Caddy's end and of the exit (`ShutdownSteps`), so Nealsd's lemmas serve for the first
  kind. `Ending` says that `stop_all` holds the lock and queues what is running, and that
  after the unlink, unless an `up` was late, lock, map and Caddy are clear. For hosts and
  routes the properties say nothing inside a teardown; `Published` and `Witnessed` do: what
  is there is of a project in the map, of an `up` under way (routes), or the victim's, or
  the cleanup was cut short. `NoOrphans` needs `Buried`: whom the reaper takes up is dead,
  so that dropping it in between leaves no process.
- Teardown. `marked` is what was below the root when the call began. `Hunted` says that
  none of it lives past the kill, and that between the scan and the second kill whoever
  carries the environment and was there is a target; `PidsInOrder` that what is forked
  later has a higher pid, so that `scanned` separates whom the sweep saw from whom it
  could not. `Held`: an up that was in the map is in it, hunted under the lock, or cleaned.
  With that `Awaited` carries from the answer of Status to the wipe that every up in the map
  by then is the one refresh waits for, or cleaned.
- Registry. Before two saves overlap there is at most one save, and the temporary file
  is what this save has made of it (`InTurn`); two names never name one inode
  (`NamesApart`), so a rename gives the registry a complete text. For the refinement,
  `Copies`: the copy of a command that is not behind is the present registry, changed as the
  command says (`Fresh`), and a prune has missed whatever is missing now. Every step
  but a rename leaves what can be loaded as it is (`LoadedKept`), so it is a stutter; a
  rename is the table's step of the same name.
- Hosts file. `Holds` says of a text that the user's lines are what is left when at most one
  whole block is taken out. The file holds them when nobody writes (`Intact`), is empty
  between opening and writing (`EmptyMeanwhile`), and what a writer is about to write holds
  them too, unless another has the file open, whose end spoils it (`MergedIntact`).
  That a merge keeps `Holds` is about the loops: they are recursive functions of the number
  of lines read, shown to be defined, and what they have put out after `n` lines is
  shown by induction on `n`.
- Log. Until the log is replaced the follower has it open, and neither its offset nor the
  length it got is beyond the end (`Follows`); what it showed, keeps and has not read
  are together an end of the log (`Gapless`), for `neals up` one before which all is
  older than the up (`SkipsOlder`). For `tail_lines`: the newline to cut at is the only one
  with so many behind it (`LargerTells`), exists if there are enough (`LargerReaches`),
  and is found in whichever block it is (`TailCut`); otherwise the whole log is the tail.
- Configuration. Regrouping nests sets as deep as the user likes, so the values of a file
  are in no set known beforehand. The invariant says that there is a set of values, closed
  under what its members contain (`Nested`), from which the file, the text that init will
  write and the user's bindings are made; each step extends it by the sets it makes.
  `Grouping` and `Joining` show that wrapping, unwrapping and merging keep what is below a
  binding and whether a path repeats, hence all that the readers look at (`SameReading`).
  For `ServicesFound`, a file without repeated paths has at most one literal for a path
  (`Single`), so the fields of a draft are unique; `Recorded` says that the file declares
  nothing that was not written, and `UserTextKept` that it has all that was, so that what
  the readers find in the text (`Finding`) is what somebody wrote (`FileIsNoted`). For init, a file in which
  `has_neals_config` sees nothing shows nothing of neals at any depth (`NoConfig`), and
  with the stanza only the folder's name (`OnlyNamed`), which is what the readers had
  answered.
- Live view. A line that waits for its echo was shown once more than the other log has
  it (`Owed`); so dropping the echo does not swallow it. That needs the queue and the set of
  each side to agree, and no line to be on both sides. For a line written once, `Tracked`
  says which side it waits on from which logs it is still unread in.
- Lifetime. Without overlap at most one daemon per path is between its first look and
  listening, or between the end of listening and the removal of the path (`Apart`);
  then who has bound is at the path (`AtPath`) and nobody is about to remove it
  (`NobodyToRemove`). Without a fault, also with overlap, the file at a path is that of a
  daemon which goes on to serve, or there is none and one is about to bind, or none has
  (`PathSettles`); and the unit's daemon is the first at its path, because no daemon of a
  command goes there before it has bound (`UnitFirst`), so it never gives up.

The inductions over texts are made by hand: the library's theorems on induction take an
operator as a parameter, which the provers cannot instantiate. `Counting` derives from the
well-foundedness of `<` that a set with 0 and every successor holds all numbers, and an
induction is an instance of it with a set of the numbers for which the claim holds.

Only model-checked: all liveness properties, which the prover does not reach.

## What was found

Two runs refute what the documentation says; PROJECT.json quotes both sides.

1. `nealsd_unrouted`: an `up` gives Caddy its routes before it is in the map. An `up`,
   `down` or reap in between posts the routes of the map only, and the project that is
   then inserted has no route until the next change.
2. `life_unseen`: a daemon that stops removes the socket last, possibly its
   successor's, whose projects then run unseen.

The properties that hold name more limits of the code in their exceptions:

- The loser of two `up`s returns its addresses before it ends its helpers
  (`ListenersApart`), and a `down` of the name removes the `.neals` symlinks an `up`
  under way has made (variable `linked`).
- A signal during a reap leaves host aliases, and strays that nobody sweeps, behind
  (`Uncut`); an `up` in flight may restart Caddy after `stop_all`, and that Caddy outlives
  the daemon (`late` in `ExitIsClean`). Nothing kills the tree of an `up` that the exit
  cuts short: what bwrap's child has started may live on (`alive` in `ExitIsClean`).
- An `up` whose child exits at once sweeps nothing; the next `down`'s sweep does, by
  `NEALS_RUNTIME`, and with it kills the tree of another `up` of the name in flight, which is
  then answered Ok and reaped a moment later. A process without the variable that left its
  parents, or one forked after /proc was read, escapes (`NothingSurvives`).
- Two commands that save the registry at once may leave it unreadable
  (`ParsesUnlessOverlap`), and one that saves after a prompt undoes what others saved
  meanwhile (`TableSpec`).
- A line printed twice within one poll may be shown three times; `EchoDropped` is about
  lines written once.
- A log that is replaced and has outgrown the old offset by the next poll is read from the
  middle (`cut`); what is written between a tail and the opening after it is not shown
  (`lost`); a view ends with its project without reading on.
- Writers of `/etc/hosts` do not exclude each other, and a death while one writes loses
  lines (`spoilt`); a change the path unit misses waits for the next (`disturbed`).
- Daemons whose starts overlap can both serve, one of them out of reach (`ServesAlone`).
  Without any overlap the unit's daemon and one that a command started while the unit's
  file was missing serve side by side, each at its path, and commands see the unit's only.
  A daemon of a command that decided for the unit's path can take it when systemd restarts
  its own; once it dies there, commands find a file nobody answers at and start nothing,
  although the unit runs (`Robbed` in `TriesSucceed`).
- An attribute with an interpolated key, an empty service and what is below a route are
  passed over without an error (`Overlooked` in `ServicesFound`).

## Not modelled

- The search for a port (`bind_preferred`) and for the ports of Caddy: which ports are
  free is the kernel's and other programs' affair, decided anew at each probe; in Nealsd a
  search that fails is a failure of the step.
- What a proxy helper does with a connection (`splice`), mounts and what bwrap does.
- Serialisation, path names, tables, colours, `doctor`, argument parsing, installation:
  no state that a later step depends on. `open_log` of xdg.rs is in LogView.
- The text between two bindings: `find_imports_list` takes the first `;` behind `]`, which
  could be in a comment.
- The parser of Nix, devenv itself, Caddy, slirp4netns and systemd, beyond what the code
  relies on.

## Plan

1. `NetnsProxy`: the two directions of a spliced connection, half closes.
2. Ports: the probe and the later bind against other programs, over u16.
3. Several projects in Session, for the sweep by runtime directory.
