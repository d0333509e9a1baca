--------------------------------- MODULE Nealsd ---------------------------------
(***************************************************************************)
(* The request core of nealsd: the `up` and `down` handlers, the reaper,   *)
(* and the state they share behind one tokio Mutex (AppState): the map of  *)
(* running projects, the loopback leases and the Caddy manager.  The hosts *)
(* file, Caddy's loaded routes, the `.neals` symlinks and the process      *)
(* trees are the world outside the lock.                                   *)
(*                                                                         *)
(* A connection carries one request.  A connection that served an `up`     *)
(* stands for the RunningProject it inserted until that project is torn    *)
(* down; a connection with nothing to do any more is used again for the    *)
(* next request.  An action is a stretch of a handler during which nobody  *)
(* else can see or change the state it works on; a handler that awaits     *)
(* while others act is several actions.                                    *)
(***************************************************************************)
EXTENDS FiniteSets

CONSTANTS
    Project,        \* registered project names
    Service,        \* service names
    Ip,             \* the 127.53.x.y pool
    Conn,           \* connections: how many requests and projects at once
    TcpServices,    \* TcpServices[p]: services of p with a port
    UnixServices,   \* UnixServices[p]: services of p with a socket file
    ProxyTcp,       \* ProxyTcp[p]: TCP services of p with `proxy = true`
    Failures,       \* the steps of the handlers that may fail
    NoIp, NoConn, NoProject, Reaper, Nobody

FailureKinds ==
    {"resolve", "bind", "apply", "log", "prep", "spawn", "net", "proxies",
     "hosts", "caddy", "exit"}

ASSUME DeclAssumption ==
    /\ TcpServices \in [Project -> SUBSET Service]
    /\ UnixServices \in [Project -> SUBSET Service]
    /\ ProxyTcp \in [Project -> SUBSET Service]
    /\ \A p \in Project : /\ TcpServices[p] \intersect UnixServices[p] = {}
                          /\ ProxyTcp[p] \subseteq TcpServices[p]

ASSUME NullAssumption ==
    /\ NoIp \notin Ip
    /\ NoConn \notin Conn
    /\ NoProject \notin Project
    /\ Reaper \notin Conn
    /\ Nobody \notin Conn
    /\ Reaper # Nobody

ASSUME FailureAssumption == Failures \subseteq FailureKinds

VARIABLES
    (* AppState, and the tokio Mutex around it *)
    lock,       \* who holds it across an await; Nobody when it is free
    projects,   \* the `up` whose RunningProject is in the map, per project
    leases,     \* LoopbackLeases::used
    (* the requests *)
    pc,         \* how far each connection's handler is
    target,     \* the project it is about
    bound,      \* the address each service was bound to: Vec<BoundRoute>
    (* the teardown run by the holder of the lock *)
    stage,      \* its next step
    victim,     \* the removed RunningProject
    queue,      \* the dead projects the reaper has still to clean up
    (* the world *)
    alive,      \* ups whose process tree is running
    slirp,      \* ups whose slirp4netns is running
    listeners,  \* host addresses the proxy helpers of an up listen on
    linked,     \* projects whose .neals directory has its symlinks
    caddy,      \* "up" or "down"
    routes,     \* <<project, service, address>> Caddy serves
    hosts,      \* <<project, service, address>> in the hosts fragment
    lost        \* history: leased addresses that nobody will release

requestVars == <<pc, target, bound>>
teardownVars == <<stage, victim, queue>>
processVars == <<alive, slirp, listeners>>
vars == <<lock, projects, leases, requestVars, teardownVars, processVars,
          linked, caddy, routes, hosts, lost>>

-----------------------------------------------------------------------------
(* What the handlers read off the state *)

Unbound == [s \in Service |-> NoIp]

BoundIps(c) == {bound[c][s] : s \in Service} \ {NoIp}

ProxiedServices(p) == ProxyTcp[p] \union UnixServices[p]

ProxiedRoutes(c) ==
    {<<target[c], s, bound[c][s]>> : s \in ProxiedServices(target[c])}

HostAliases(c) ==
    {<<target[c], s, bound[c][s]>> : s \in TcpServices[target[c]]}

RunningConns == {projects[p] : p \in Project} \ {NoConn}

ProxySnapshot == UNION {ProxiedRoutes(c) : c \in RunningConns}

HostEntries(conns) == UNION {HostAliases(c) : c \in conns}

IsRunning(p) == projects[p] # NoConn

\* Variant: next_ip forgets to look at `used`.
AssignmentsOfAny(p) == {f \in [TcpServices[p] -> Ip] :
                          \A s, t \in TcpServices[p] : f[s] = f[t] => s = t}

(***************************************************************************)
(* The ways bind_services can give every TCP service of p an address: the  *)
(* address next_ip settles on depends on which probes the host refuses.    *)
(***************************************************************************)
Assignments(p) ==
    {f \in [TcpServices[p] -> Ip \ leases] :
        \A s, t \in TcpServices[p] : f[s] = f[t] => s = t}

\* Variant: the new routes are added to those Caddy has.
ApplyRoutesAdds(snapshot) ==
    /\ caddy' = "up"
    /\ routes' = routes \union snapshot

(***************************************************************************)
(* apply_routes: POST the routes to Caddy, which is started anew (with no  *)
(* routes) when its admin socket does not answer.  A failed POST may or    *)
(* may not have reached Caddy.                                             *)
(***************************************************************************)
ApplyRoutes(snapshot) ==
    /\ caddy' = "up"
    /\ routes' = snapshot

ApplyFails(snapshot) ==
    /\ "apply" \in Failures
    /\ \/ /\ caddy = "up"
          /\ caddy' = "up"
          /\ routes' \in {routes, snapshot}
       \/ /\ caddy = "down"
          /\ caddy' = "up"
          /\ routes' \in {{}, snapshot}
       \/ /\ caddy = "down"
          /\ UNCHANGED <<caddy, routes>>

\* `let _ = apply_routes(..)`: the handler goes on in either case.
TryApplyRoutes(snapshot) == ApplyRoutes(snapshot) \/ ApplyFails(snapshot)

\* Variant: the fragment is appended to.
SyncHostsAppends(conns) == hosts' = hosts \union HostEntries(conns)

\* sync_hosts rewrites the fragment; a failed write is only logged.
SyncHosts(conns) ==
    \/ hosts' = HostEntries(conns)
    \/ "hosts" \in Failures /\ UNCHANGED hosts

Goto(c, label) == pc' = [pc EXCEPT ![c] = label]

\* The response is written; the connection is closed.
Answer(c) ==
    /\ Goto(c, "idle")
    /\ target' = [target EXCEPT ![c] = NoProject]

\* The end of a request whose addresses are no longer its own.
ReleaseBound(c) ==
    /\ leases' = leases \ BoundIps(c)
    /\ bound' = [bound EXCEPT ![c] = Unbound]

-----------------------------------------------------------------------------
Init ==
    /\ lock = Nobody
    /\ projects = [p \in Project |-> NoConn]
    /\ leases = {}
    /\ pc = [c \in Conn |-> "idle"]
    /\ target = [c \in Conn |-> NoProject]
    /\ bound = [c \in Conn |-> Unbound]
    /\ stage = "none" /\ victim = NoConn /\ queue = {}
    /\ alive = {} /\ slirp = {} /\ listeners = [c \in Conn |-> {}]
    /\ linked = {}
    /\ caddy = "up" /\ routes = {} /\ hosts = {}
    /\ lost = {}

-----------------------------------------------------------------------------
(* up_project *)

\* The first look at the map; nothing is reserved for the name.
UpCheck(c, p) ==
    /\ pc[c] = "idle" /\ lock = Nobody
    /\ ~IsRunning(p)
    /\ Goto(c, "checked")
    /\ target' = [target EXCEPT ![c] = p]
    /\ UNCHANGED <<lock, projects, leases, bound, teardownVars, processVars,
                   linked, caddy, routes, hosts, lost>>

\* ensure_neals_symlinks: a project with UNIX sockets gets its links anew; a
\* failure on the way may leave some, or have removed the old ones.
Linked(p) == IF UnixServices[p] = {} THEN linked ELSE linked \union {p}
PartlyLinked(p) == {linked, Linked(p), linked \ {p}}

\* Registry, tools and devenv.nix are read without the lock, then the
\* symlinks are made.
UpResolve(c) ==
    /\ pc[c] = "checked"
    /\ \/ /\ Goto(c, "linked")
          /\ UNCHANGED target
          /\ linked' = Linked(target[c])
       \/ /\ "resolve" \in Failures
          /\ Answer(c)
          /\ linked' \in PartlyLinked(target[c])
    /\ UNCHANGED <<lock, projects, leases, bound, teardownVars, processVars,
                   caddy, routes, hosts, lost>>

UpBind(c) ==
    /\ pc[c] = "linked" /\ lock = Nobody
    /\ \E f \in Assignments(target[c]) :
          /\ bound' = [bound EXCEPT ![c] =
                [s \in Service |-> IF s \in TcpServices[target[c]]
                                   THEN f[s] ELSE NoIp]]
          /\ leases' = leases \union {f[s] : s \in TcpServices[target[c]]}
    /\ Goto(c, "bound")
    /\ UNCHANGED <<lock, projects, target, teardownVars, processVars, linked,
                   caddy, routes, hosts, lost>>

\* No address left, or a bind that fails after next_ip marked its address
\* used: the addresses of the services before it are released, not that one.
UpBindFails(c) ==
    /\ pc[c] = "linked" /\ lock = Nobody
    /\ \/ /\ Assignments(target[c]) = {}
          /\ UNCHANGED <<leases, lost>>
       \/ /\ "bind" \in Failures /\ TcpServices[target[c]] # {}
          /\ \E ip \in Ip \ leases : /\ leases' = leases \union {ip}
                                     /\ lost' = lost \union {ip}
    /\ Answer(c)
    /\ UNCHANGED <<lock, projects, bound, teardownVars, processVars,
                   linked, caddy, routes, hosts>>

\* The routes of the projects in the map, and this one's own.
UpRoute(c) ==
    /\ pc[c] = "bound" /\ lock = Nobody
    /\ ApplyRoutes(ProxySnapshot \union ProxiedRoutes(c))
    /\ Goto(c, "routed")
    /\ UNCHANGED <<lock, projects, leases, target, bound, teardownVars,
                   processVars, linked, hosts, lost>>

UpRouteFails(c) ==
    /\ pc[c] = "bound" /\ lock = Nobody
    /\ ApplyFails(ProxySnapshot \union ProxiedRoutes(c))
    /\ ReleaseBound(c)
    /\ Answer(c)
    /\ UNCHANGED <<lock, projects, teardownVars, processVars, linked,
                   hosts, lost>>

\* `?` on the log file: the request ends and keeps its leases.
UpLogFails(c) ==
    /\ pc[c] = "routed" /\ "log" \in Failures
    /\ lost' = lost \union BoundIps(c)
    /\ bound' = [bound EXCEPT ![c] = Unbound]
    /\ Answer(c)
    /\ UNCHANGED <<lock, projects, leases, teardownVars, processVars,
                   linked, caddy, routes, hosts>>

\* runtime_dir, resolv.conf or the guest hosts file: leases are released,
\* Caddy is not told.
UpPrepFails(c) ==
    /\ pc[c] = "routed" /\ "prep" \in Failures /\ lock = Nobody
    /\ ReleaseBound(c)
    /\ Answer(c)
    /\ UNCHANGED <<lock, projects, teardownVars, processVars, linked,
                   caddy, routes, hosts, lost>>

UpSpawn(c) ==
    /\ pc[c] = "routed"
    /\ \/ /\ Goto(c, "spawned")
          /\ alive' = alive \union {c}
       \/ /\ "spawn" \in Failures
          /\ Goto(c, "aborting")
          /\ UNCHANGED alive
    /\ UNCHANGED <<lock, projects, leases, target, bound, teardownVars, slirp,
                   listeners, linked, caddy, routes, hosts, lost>>

\* The child is still there after 50 ms, its namespace and slirp came up.
UpNetwork(c) ==
    /\ pc[c] = "spawned" /\ c \in alive
    /\ Goto(c, "networked")
    /\ slirp' = slirp \union {c}
    /\ UNCHANGED <<lock, projects, leases, target, bound, teardownVars, alive,
                   listeners, linked, caddy, routes, hosts, lost>>

UpNetworkFails(c) ==
    /\ pc[c] = "spawned" /\ (c \notin alive \/ "net" \in Failures)
    /\ Goto(c, "aborting")
    /\ alive' = alive \ {c}
    /\ UNCHANGED <<lock, projects, leases, target, bound, teardownVars, slirp,
                   listeners, linked, caddy, routes, hosts, lost>>

UpProxies(c) ==
    /\ pc[c] = "networked"
    /\ \/ /\ Goto(c, "proxied")
          /\ listeners' = [listeners EXCEPT ![c] = BoundIps(c)]
          /\ UNCHANGED <<alive, slirp>>
       \/ /\ "proxies" \in Failures
          /\ Goto(c, "aborting")
          /\ alive' = alive \ {c}
          /\ slirp' = slirp \ {c}
          /\ UNCHANGED listeners
    /\ UNCHANGED <<lock, projects, leases, target, bound, teardownVars, linked,
                   caddy, routes, hosts, lost>>

\* Variant: Caddy is not told.
UpAbortKeepsRoutes(c) ==
    /\ pc[c] = "aborting" /\ lock = Nobody
    /\ ReleaseBound(c)
    /\ Answer(c)
    /\ UNCHANGED <<lock, projects, teardownVars, processVars, linked, caddy,
                   routes, hosts, lost>>

\* The common end of the failures after the spawn: release, then put back
\* the routes of the projects in the map.
UpAbort(c) ==
    /\ pc[c] = "aborting" /\ lock = Nobody
    /\ ReleaseBound(c)
    /\ TryApplyRoutes(ProxySnapshot)
    /\ Answer(c)
    /\ UNCHANGED <<lock, projects, teardownVars, processVars, linked,
                   hosts, lost>>

\* Variant: the map is not looked at again.
UpInsertAnyway(c) ==
    /\ pc[c] = "proxied" /\ lock = Nobody
    /\ projects' = [projects EXCEPT ![target[c]] = c]
    /\ SyncHosts(RunningConns \union {c})
    /\ Goto(c, "up")
    /\ UNCHANGED <<lock, leases, target, bound, teardownVars, processVars,
                   linked, caddy, routes, lost>>

\* The second look at the map: the project is inserted, its hosts published.
UpInsert(c) ==
    /\ pc[c] = "proxied" /\ lock = Nobody
    /\ ~IsRunning(target[c])
    /\ projects' = [projects EXCEPT ![target[c]] = c]
    /\ SyncHosts(RunningConns \union {c})
    /\ Goto(c, "up")
    /\ UNCHANGED <<lock, leases, target, bound, teardownVars, processVars,
                   linked, caddy, routes, lost>>

\* Variants: the loser's tree is left running; it waits for the name.
UpLosesLeavesTree(c) ==
    /\ pc[c] = "proxied" /\ lock = Nobody
    /\ IsRunning(target[c])
    /\ slirp' = slirp \ {c}
    /\ ReleaseBound(c)
    /\ TryApplyRoutes(ProxySnapshot)
    /\ Goto(c, "losing")
    /\ UNCHANGED <<lock, projects, target, teardownVars, alive, listeners,
                   linked, hosts, lost>>
UpLosesWaits(c) ==
    /\ pc[c] = "proxied" /\ lock = Nobody
    /\ IsRunning(target[c])
    /\ UNCHANGED vars

\* Another `up` of the same name was faster.  Its own proxy helpers are
\* locals declared before the lock guard, hence dropped after it.
UpLoses(c) ==
    /\ pc[c] = "proxied" /\ lock = Nobody
    /\ IsRunning(target[c])
    /\ slirp' = slirp \ {c}
    /\ alive' = alive \ {c}
    /\ ReleaseBound(c)
    /\ TryApplyRoutes(ProxySnapshot)
    /\ Goto(c, "losing")
    /\ UNCHANGED <<lock, projects, target, teardownVars, listeners, linked,
                   hosts, lost>>

UpDropHelpers(c) ==
    /\ pc[c] = "losing"
    /\ listeners' = [listeners EXCEPT ![c] = {}]
    /\ Answer(c)
    /\ UNCHANGED <<lock, projects, leases, bound, teardownVars, alive,
                   slirp, linked, caddy, routes, hosts, lost>>

-----------------------------------------------------------------------------
(* Request::Down, reap_exited and the cleanup they share *)

\* AppState::remove, then stop_process_group.
Down(c, p) ==
    /\ pc[c] = "idle" /\ lock = Nobody
    /\ IsRunning(p)
    /\ lock' = c
    /\ victim' = projects[p]
    /\ stage' = "kill"
    /\ projects' = [projects EXCEPT ![p] = NoConn]
    /\ pc' = [pc EXCEPT ![c] = "stopping", ![projects[p]] = "removed"]
    /\ UNCHANGED <<leases, target, bound, queue, processVars, linked, caddy,
                   routes, hosts, lost>>

StopProcessGroup ==
    /\ stage = "kill"
    /\ alive' = alive \ {victim}
    /\ stage' = "sweep"
    /\ UNCHANGED <<lock, projects, leases, requestVars, victim, queue, slirp,
                   listeners, linked, caddy, routes, hosts, lost>>

\* Variant: a project whose slirp still runs is not taken for dead.
ReapScanAsksSlirp ==
    /\ lock = Nobody
    /\ LET dead == {p \in Project :
                      IsRunning(p) /\ projects[p] \notin alive \union slirp}
       IN  /\ dead # {}
           /\ queue' = dead
    /\ lock' = Reaper
    /\ stage' = "next"
    /\ UNCHANGED <<projects, leases, requestVars, victim, processVars, linked,
                   caddy, routes, hosts, lost>>

\* The scan of try_wait over the map; the list is not computed again.
ReapScan ==
    /\ lock = Nobody
    /\ LET dead == {p \in Project : IsRunning(p) /\ projects[p] \notin alive}
       IN  /\ dead # {}
           /\ queue' = dead
    /\ lock' = Reaper
    /\ stage' = "next"
    /\ UNCHANGED <<projects, leases, requestVars, victim, processVars, linked,
                   caddy, routes, hosts, lost>>

ReapNext(p) ==
    /\ stage = "next" /\ p \in queue
    /\ queue' = queue \ {p}
    /\ victim' = projects[p]
    /\ stage' = "sweep"
    /\ projects' = [projects EXCEPT ![p] = NoConn]
    /\ Goto(projects[p], "removed")
    /\ UNCHANGED <<lock, leases, target, bound, processVars, linked, caddy,
                   routes, hosts, lost>>

\* Everything whose environment names the project's NEALS_RUNTIME is killed:
\* the trees of other ups of the same project as well.
Sweep ==
    /\ stage = "sweep"
    /\ alive' = {c \in alive : target[c] # target[victim]}
    /\ stage' = "release"
    /\ UNCHANGED <<lock, projects, leases, requestVars, victim, queue, slirp,
                   listeners, linked, caddy, routes, hosts, lost>>

\* Variant: the addresses of every up of that name return.
ReleaseByName ==
    /\ stage = "release"
    /\ LET named == {c \in Conn : target[c] = target[victim]}
       IN  leases' = leases \ UNION {BoundIps(c) : c \in named}
    /\ slirp' = slirp \ {victim}
    /\ bound' = [bound EXCEPT ![victim] = Unbound]
    /\ linked' = linked \ {target[victim]}
    /\ stage' = "apply"
    /\ UNCHANGED <<lock, projects, pc, target, victim, queue, alive, listeners,
                   caddy, routes, hosts, lost>>

\* slirp is stopped, the leases return, .neals is emptied.
Release ==
    /\ stage = "release"
    /\ slirp' = slirp \ {victim}
    /\ ReleaseBound(victim)
    /\ linked' = linked \ {target[victim]}
    /\ stage' = "apply"
    /\ UNCHANGED <<lock, projects, pc, target, victim, queue, alive, listeners,
                   caddy, routes, hosts, lost>>

\* Variant: the proxy helpers live on.
DropVictimOnly ==
    /\ UNCHANGED listeners
    /\ victim' = NoConn
    /\ pc' = [c \in Conn |-> IF c \in {victim, lock} THEN "idle" ELSE pc[c]]
    /\ target' = [target EXCEPT ![victim] = NoProject]
    /\ IF queue = {}
       THEN lock' = Nobody /\ stage' = "none"
       ELSE UNCHANGED lock /\ stage' = "next"

\* The RunningProject is dropped, and with it its proxy helpers; the lock is
\* released when the handler has no further project to tear down.
DropVictim ==
    /\ listeners' = [listeners EXCEPT ![victim] = {}]
    /\ victim' = NoConn
    /\ pc' = [c \in Conn |-> IF c \in {victim, lock} THEN "idle" ELSE pc[c]]
    /\ target' = [target EXCEPT ![victim] = NoProject]
    /\ IF queue = {}
       THEN lock' = Nobody /\ stage' = "none"
       ELSE UNCHANGED lock /\ stage' = "next"

\* Routes and hosts of the remaining projects, then the end.
FinishCleanup ==
    /\ stage = "apply"
    /\ TryApplyRoutes(ProxySnapshot)
    /\ SyncHosts(RunningConns)
    /\ DropVictim
    /\ UNCHANGED <<projects, leases, bound, queue, alive, slirp, linked, lost>>

-----------------------------------------------------------------------------
(* The world *)

\* A project's process tree ends on its own.
TreeExits(c) ==
    /\ "exit" \in Failures
    /\ c \in alive
    /\ alive' = alive \ {c}
    /\ UNCHANGED <<lock, projects, leases, requestVars, teardownVars, slirp,
                   listeners, linked, caddy, routes, hosts, lost>>

\* Caddy dies; nobody notices before the next apply_routes.
CaddyDies ==
    /\ "caddy" \in Failures
    /\ caddy = "up"
    /\ caddy' = "down"
    /\ routes' = {}
    /\ UNCHANGED <<lock, projects, leases, requestVars, teardownVars,
                   processVars, linked, hosts, lost>>

-----------------------------------------------------------------------------
Teardown ==
    StopProcessGroup \/ (\E p \in Project : ReapNext(p)) \/ Sweep \/ Release
    \/ FinishCleanup

\* What an `up` does without the lock, and what it needs the lock for.
UpUnlocked(c) ==
    UpResolve(c) \/ UpLogFails(c) \/ UpSpawn(c) \/ UpNetwork(c)
    \/ UpNetworkFails(c) \/ UpProxies(c) \/ UpDropHelpers(c)

UpLocked(c) ==
    UpBind(c) \/ UpBindFails(c) \/ UpRoute(c) \/ UpRouteFails(c)
    \/ UpPrepFails(c) \/ UpAbort(c) \/ UpInsert(c) \/ UpLoses(c)

Next ==
    \/ \E c \in Conn : \/ \E p \in Project : UpCheck(c, p) \/ Down(c, p)
                       \/ UpUnlocked(c)
                       \/ UpLocked(c)
                       \/ TreeExits(c)
    \/ ReapScan
    \/ Teardown
    \/ CaddyDies

Spec == Init /\ [][Next]_vars

(***************************************************************************)
(* The awaits of a handler all have a deadline, so a handler that can go   *)
(* on does.  The tokio Mutex is first come, first served: whoever waits    *)
(* for it gets it although others take it in between (strong fairness).    *)
(* The reaper ticks every second.  No client has to send a request.        *)
(***************************************************************************)
Fairness ==
    /\ \A c \in Conn : WF_vars(UpUnlocked(c)) /\ SF_vars(UpLocked(c))
    /\ WF_vars(Teardown)
    /\ SF_vars(ReapScan)

FairSpec == Spec /\ Fairness

-----------------------------------------------------------------------------
(* Properties *)

PcLabels ==
    {"idle", "checked", "linked", "bound", "routed", "spawned", "networked",
     "proxied", "aborting", "losing", "up", "stopping", "removed"}

Entry == Project \X Service \X (Ip \union {NoIp})

\* Every variable keeps its shape.
TypeOK ==
    /\ lock \in Conn \union {Reaper, Nobody}
    /\ projects \in [Project -> Conn \union {NoConn}]
    /\ leases \subseteq Ip
    /\ pc \in [Conn -> PcLabels]
    /\ target \in [Conn -> Project \union {NoProject}]
    /\ bound \in [Conn -> [Service -> Ip \union {NoIp}]]
    /\ stage \in {"none", "next", "kill", "sweep", "release", "apply"}
    /\ victim \in Conn \union {NoConn}
    /\ queue \subseteq Project
    /\ alive \subseteq Conn
    /\ slirp \subseteq Conn
    /\ listeners \in [Conn -> SUBSET Ip]
    /\ linked \subseteq Project
    /\ caddy \in {"up", "down"}
    /\ routes \subseteq Entry
    /\ hosts \subseteq Entry
    /\ lost \subseteq Ip

\* The addresses in use are those of the ups that hold some and the lost
\* ones, and no address has two uses (LoopbackLeases and the BoundRoutes
\* never disagree, whichever handlers interleave or fail).
LeasesAccounted ==
    /\ \A ip \in Ip :
          ip \in leases <=> ip \in lost \/ \E c \in Conn : ip \in BoundIps(c)
    /\ \A ip \in lost : \A c \in Conn : ip \notin BoundIps(c)
    /\ \A c, d \in Conn : \A ip \in BoundIps(c) : ip \in BoundIps(d) => c = d

\* Within one project too, every TCP service has an address of its own.
ServicesApart ==
    \A c \in Conn : \A s, t \in Service :
        bound[c][s] = bound[c][t] /\ bound[c][s] # NoIp => s = t

\* No process tree and no slirp outlives the request or the RunningProject
\* it belongs to, whichever step fails.
NoOrphans ==
    \A c \in Conn :
        /\ c \in alive => \/ pc[c] \in {"spawned", "networked", "proxied", "up"}
                          \/ c = victim /\ stage \in {"kill", "sweep"}
        /\ c \in slirp => \/ pc[c] \in {"networked", "proxied", "up"}
                          \/ c = victim /\ stage # "apply"

\* The map and the handlers agree: the connection in the map under a name is
\* one that answered Ok for that very project, and every other, the one whose
\* project is being torn down included, is not in the map.
MapMatchesRequests ==
    /\ \A c \in Conn, p \in Project :
          projects[p] = c <=> pc[c] = "up" /\ target[c] = p
    /\ victim \notin RunningConns

\* The labels of an `up` that got its routes into Caddy and its addresses
\* not yet back to the pool.
AppliedLabels == {"routed", "spawned", "networked", "proxied", "aborting",
                  "up", "removed"}

\* A route never leads to an address at which another project, or another
\* service, is started: routes left behind by a failed `up` or a failed
\* apply are gone before their address is in use again.
RoutesReachOwnProject ==
    \A r \in routes : \A c \in Conn : \A s \in Service :
        pc[c] \in AppliedLabels /\ bound[c][s] = r[3] /\ r[3] # NoIp
            => r[1] = target[c] /\ r[2] = s

\* A project in the map is served by a running Caddy under each of its
\* proxied services (docs/services.md:11).
RunningIsRouted ==
    caddy = "up" => \A c \in RunningConns : ProxiedRoutes(c) \subseteq routes

\* Only the helpers of the up an address is bound to listen on it
\* (docs/services.md:4-6), but for those of an up that lost its name: it
\* returns its addresses before it ends its helpers.
ListenersApart ==
    \A c, d \in Conn :
        c # d /\ BoundIps(c) \intersect listeners[d] # {} => pc[d] = "losing"

\* The pool of addresses as clients of the leases see it.
Leases == INSTANCE LeaseTable
    WITH Holder <- Conn, free <- Ip \ leases,
         held <- [c \in Conn |-> BoundIps(c)], leaked <- lost

LeaseTableSpec == Leases!Spec

\* Every `up` is answered, Ok or not, and every `down`.
RequestsAnswered ==
    \A c \in Conn : /\ pc[c] = "checked" ~> pc[c] \in {"idle", "up"}
                    /\ pc[c] = "stopping" ~> pc[c] = "idle"

\* A project whose process tree is gone leaves the map, and then the hosts
\* file, which names just the projects in the map (unless writing it fails).
DeadIsReaped ==
    \A c \in Conn : pc[c] = "up" /\ c \notin alive ~>
        /\ c \notin RunningConns
        /\ "hosts" \in Failures \/ hosts = HostEntries(RunningConns)

=============================================================================
