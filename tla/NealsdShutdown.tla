----------------------------- MODULE NealsdShutdown -----------------------------
(***************************************************************************)
(* nealsd from the signal to its exit, around the handlers of Nealsd.  The *)
(* signal drops the reaper and the accept loop at the await they are in,   *)
(* and with the reaper's future the lock and the RunningProject it was     *)
(* cleaning up; the tasks of the connections accepted before go on: in     *)
(* between stop_all and the end of the process, too.                       *)
(***************************************************************************)
EXTENDS Nealsd

VARIABLES
    life,       \* how far the daemon's own end is
    cut,        \* history: the projects whose cleanup the signal cut short
    late        \* history: an `up` took the lock after stop_all

allVars == <<vars, life, cut, late>>

Lives == {"serving", "stopping", "stopall", "unlinking", "exited"}

ShutdownInit == Init /\ life = "serving" /\ cut = {} /\ late = FALSE

-----------------------------------------------------------------------------
\* Variant: the guard outlives the future.
DropsNoGuard == UNCHANGED lock

DropsGuard == lock' = Nobody

\* The reaper that held the lock leaves its victim half cleaned up; what the
\* RunningProject owns is killed when it is dropped, its leases are lost.
\* apply_routes may be anywhere, in the respawn of a dead Caddy as well.
DropReaper ==
    /\ stage \in {"sweep", "release", "apply"}
    /\ DropsGuard
    /\ stage' = "none" /\ queue' = {} /\ victim' = NoConn
    /\ cut' = cut \union {target[victim]}
    /\ slirp' = slirp \ {victim}
    /\ listeners' = [listeners EXCEPT ![victim] = {}]
    /\ lost' = lost \union BoundIps(victim)
    /\ bound' = [bound EXCEPT ![victim] = Unbound]
    /\ Answer(victim)
    /\ \/ UNCHANGED <<caddy, routes>>
       \/ stage = "apply" /\ ApplyRoutes(ProxySnapshot)
       \/ stage = "apply" /\ caddy = "down" /\ caddy' = "up" /\ routes' = {}
    /\ alive' \in IF stage = "sweep"
                  THEN {alive, {c \in alive : target[c] # target[victim]}}
                  ELSE {alive}
    /\ UNCHANGED <<projects, leases, linked, hosts>>

ShutdownSignal ==
    /\ life = "serving"
    /\ life' = "stopping"
    /\ \/ lock # Reaper /\ UNCHANGED <<vars, cut>>
       \/ lock = Reaper /\ DropReaper
    /\ UNCHANGED late

(***************************************************************************)
(* stop_all: the names are listed once, each is stopped like a `down`, and *)
(* the lock is held until Caddy is stopped as well.                        *)
(***************************************************************************)
StopAll ==
    /\ life = "stopping" /\ lock = Nobody
    /\ life' = "stopall"
    /\ lock' = Reaper
    /\ queue' = {p \in Project : IsRunning(p)}
    /\ stage' = "next"
    /\ UNCHANGED <<projects, leases, requestVars, victim, processVars, linked,
                   caddy, routes, hosts, lost, cut, late>>

\* Variant: the trees are left to bwrap's --die-with-parent.
StopNextLeavesTree(p) ==
    /\ life = "stopall" /\ stage = "next" /\ p \in queue
    /\ queue' = queue \ {p}
    /\ victim' = projects[p]
    /\ stage' = "release"
    /\ projects' = [projects EXCEPT ![p] = NoConn]
    /\ Goto(projects[p], "removed")
    /\ UNCHANGED <<lock, leases, target, bound, processVars, linked, caddy,
                   routes, hosts, lost, life, cut, late>>

StopNext(p) ==
    /\ life = "stopall" /\ stage = "next" /\ p \in queue
    /\ queue' = queue \ {p}
    /\ victim' = projects[p]
    /\ stage' = "kill"
    /\ projects' = [projects EXCEPT ![p] = NoConn]
    /\ Goto(projects[p], "removed")
    /\ UNCHANGED <<lock, leases, target, bound, processVars, linked, caddy,
                   routes, hosts, lost, life, cut, late>>

StopFinish ==
    /\ life = "stopall" /\ stage = "apply"
    /\ TryApplyRoutes(ProxySnapshot)
    /\ SyncHosts(RunningConns)
    /\ listeners' = [listeners EXCEPT ![victim] = {}]
    /\ victim' = NoConn
    /\ stage' = "next"
    /\ Answer(victim)
    /\ UNCHANGED <<lock, projects, leases, bound, queue, alive, slirp, linked,
                   lost, life, cut, late>>

CaddyShutdown ==
    /\ life = "stopall" /\ stage = "next" /\ queue = {}
    /\ caddy' = "down" /\ routes' = {}
    /\ lock' = Nobody /\ stage' = "none"
    /\ life' = "unlinking"
    /\ UNCHANGED <<projects, leases, requestVars, victim, queue, processVars,
                   linked, hosts, lost, cut, late>>

(***************************************************************************)
(* The socket is removed and run returns: the tasks end where they are.    *)
(* Helpers and slirp are killed on drop.  Nothing kills the trees: bwrap   *)
(* and its child die with their parent, what they started may live on (or  *)
(* die with the unit's cgroup).  Caddy and the hosts fragment stay.        *)
(***************************************************************************)
Exits ==
    /\ life = "unlinking"
    /\ life' = "exited"
    /\ alive' \in SUBSET alive
    /\ slirp' = {} /\ listeners' = [c \in Conn |-> {}]
    /\ UNCHANGED <<lock, projects, leases, requestVars, teardownVars, linked,
                   caddy, routes, hosts, lost, cut, late>>

-----------------------------------------------------------------------------
\* What the handlers of Nealsd still do.
Serves == life # "exited" /\ UNCHANGED <<life, cut>>

Unlocked(c) == UpUnlocked(c) /\ Serves /\ UNCHANGED late

Locked(c) == UpLocked(c) /\ Serves /\ late' = (late \/ life = "unlinking")

Reaping ==
    /\ life = "serving"
    /\ ReapScan \/ \E p \in Project : ReapNext(p)
    /\ UNCHANGED <<life, cut, late>>

Cleaning ==
    /\ \/ StopProcessGroup \/ Sweep \/ Release
       \/ life # "stopall" /\ FinishCleanup
    /\ Serves /\ UNCHANGED late

\* What happens of itself does so after the exit, too.
World ==
    /\ CaddyDies \/ \E c \in Conn : TreeExits(c)
    /\ UNCHANGED <<life, cut, late>>

Stopping ==
    \/ StopAll \/ (\E p \in Project : StopNext(p)) \/ StopFinish
    \/ CaddyShutdown \/ Exits

ShutdownNext ==
    \/ \E c \in Conn :
         \/ /\ \E p \in Project : UpCheck(c, p) \/ Down(c, p)
            /\ Serves /\ UNCHANGED late
         \/ Unlocked(c) \/ Locked(c)
    \/ Reaping \/ Cleaning \/ ShutdownSignal \/ Stopping \/ World

\* As in Nealsd; the main task runs on after the signal.
ShutdownFairness ==
    /\ WF_allVars(Cleaning)
    /\ SF_allVars(Stopping)

ShutdownSpec == ShutdownInit /\ [][ShutdownNext]_allVars /\ ShutdownFairness

-----------------------------------------------------------------------------
Uncut(entries) == {e \in entries : e[1] \notin cut}

\* The hosts fragment lists the projects in the map, and at most those of
\* others whose cleanup the signal interrupted.
HostsOutlive ==
    lock = Nobody => /\ HostEntries(RunningConns) \subseteq hosts
                     /\ Uncut(hosts) \subseteq HostEntries(RunningConns)

\* Caddy's routes outside a teardown are those of a project in the map, of
\* an `up` under way, or of a project whose cleanup the signal interrupted.
RoutesOutlive ==
    lock = Nobody =>
        \A r \in Uncut(routes) : \E c \in Conn :
            /\ pc[c] \in AppliedLabels
            /\ r \in ProxiedRoutes(c)

\* A daemon that exited after a signal, with no `up` that took the lock
\* between stop_all and the exit, stopped Caddy and took back every project,
\* with its tree: what may live on is the tree of an `up` that the exit cut
\* short, what may stay in the hosts file an alias of an interrupted cleanup.
ExitIsClean ==
    life = "exited" /\ ~late =>
        /\ caddy = "down"
        /\ \A c \in alive : pc[c] \in {"spawned", "networked", "proxied"}
        /\ Uncut(hosts) = {}
        /\ RunningConns = {}

\* A daemon that got the signal exits, whatever requests are under way.
ShutdownEnds == (life = "stopping") ~> (life = "exited")
=================================================================================
