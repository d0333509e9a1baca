-------------------------------- MODULE Session --------------------------------
(***************************************************************************)
(* The processes of one project and the commands that count on their end:  *)
(* an `up` spawns a tree under bwrap, a `down`, a failing `up` or the      *)
(* reaper takes it away again, `neals refresh` stops the project before it *)
(* wipes what the processes use, and a `neals shell` inside the project's  *)
(* namespaces leaves with it.                                              *)
(*                                                                         *)
(* A tree is hunted by what can be read of it: the children of the child   *)
(* nealsd spawned, that child's process group, and NEALS_RUNTIME in        *)
(* the environment.  Processes fork and exit between the reading and the   *)
(* kill.  SIGTERM needs no state of its own: any process may exit at any   *)
(* time, or outlive every deadline until SIGKILL.  Pids are not used       *)
(* again, and a process is gone once it was killed.                        *)
(***************************************************************************)
EXTENDS Naturals

CONSTANTS
    MaxUps,     \* `up` requests
    MaxPids     \* processes ever started

ASSUME BoundAssumption == MaxUps \in Nat \ {0} /\ MaxPids \in Nat

Up == 1 .. MaxUps
Pid == 1 .. MaxPids

VARIABLES
    proc,       \* the processes; a pid without one has proc[p] = Gone
    used,       \* pids handed out so far
    lock,       \* the `up` whose teardown holds AppState's mutex, or 0
    project,    \* the `up` in the map of running projects, or 0
    ran,        \* history: the ups that have been in the map
    pc,         \* how far each `up` and its teardown is
    root,       \* the pid of bwrap; the namespace's process is the next one
    marked,     \* stop_process_group's first list of descendants
    targets,    \* the list that the next signals go to
    scanned,    \* history: `used` when the sweep read /proc
    refresh,    \* `neals refresh`: how far, the `up` it stops, who ran before
    session     \* `neals shell`: how far, and in the tree of which `up`

teardownVars == <<marked, targets, scanned>>
daemonVars == <<lock, project, ran, pc, root, teardownVars>>
vars == <<proc, used, daemonVars, refresh, session>>

Gone == [up |-> 0, parent |-> 0, grouped |-> FALSE, env |-> FALSE]

\* parent: the process under whose main thread /proc lists this one, or 0.
Process == [up : Up, parent : 0 .. MaxPids, grouped : BOOLEAN, env : BOOLEAN]

UpStages ==
    {"none", "passed", "spawned", "listed", "termed", "kill", "survivors",
     "sweep", "strays", "early", "failed", "cleaned"}

\* Everything has its type.
TypeOK ==
    /\ proc \in [Pid -> Process \union {Gone}]
    /\ used \in 0 .. MaxPids
    /\ lock \in 0 .. MaxUps /\ project \in 0 .. MaxUps
    /\ ran \subseteq Up
    /\ pc \in [Up -> UpStages]
    /\ root \in [Up -> 0 .. MaxPids]
    /\ marked \in [Up -> SUBSET Pid] /\ targets \in [Up -> SUBSET Pid]
    /\ scanned \in [Up -> 0 .. MaxPids]
    /\ refresh \in
         [at : {"idle", "down", "waiting", "stopped", "done"},
          up : 0 .. MaxUps, before : SUBSET Up]
    /\ session \in [at : {"off", "asked", "in"}, up : 0 .. MaxUps]

Alive == {p \in Pid : proc[p] # Gone}

IsAlive(p) == p \in Alive

NetnsPid(u) == root[u] + 1

(***************************************************************************)
(* collect_descendants: who is listed below p.  A process is younger than  *)
(* its parent, the children of a dead one belong to init, and those that   *)
(* another thread forked are not read.                                     *)
(***************************************************************************)
CollectDescendants(p) ==
    LET below[q \in 0 .. MaxPids] ==
            /\ q > p
            /\ proc[q].parent = p \/ below[proc[q].parent]
    IN {q \in Alive : below[q]}

\* find_stragglers: who carries this project's NEALS_RUNTIME.
FindStragglers == {p \in Alive : proc[p].env}

Group(u) == {p \in Alive : proc[p].up = u /\ proc[p].grouped}

Die(S) == proc' = [p \in Pid |->
    IF p \in S \/ proc[p] = Gone THEN Gone
    ELSE IF proc[p].parent \in S THEN [proc[p] EXCEPT !.parent = 0]
    ELSE proc[p]]

-----------------------------------------------------------------------------
(* The processes *)

\* By the main thread or by another.
Fork(p) ==
    /\ IsAlive(p) /\ used < MaxPids
    /\ used' = used + 1
    /\ \E grouped, env \in BOOLEAN, parent \in {p, 0} :
         proc' = [proc EXCEPT ![used + 1] =
             [up |-> proc[p].up, parent |-> parent,
              grouped |-> grouped /\ proc[p].grouped,
              env |-> env /\ proc[p].env]]
    /\ UNCHANGED <<daemonVars, refresh, session>>

Exit(p) ==
    /\ IsAlive(p)
    /\ Die({p})
    /\ UNCHANGED <<used, daemonVars, refresh, session>>

-----------------------------------------------------------------------------
(* up_project, seen from its processes *)

Ask(u) ==
    /\ pc[u] = "none" /\ \A v \in Up : v < u => pc[v] # "none"
    /\ lock = 0 /\ project = 0
    /\ pc' = [pc EXCEPT ![u] = "passed"]
    /\ UNCHANGED <<proc, used, lock, project, ran, root, teardownVars, refresh,
                   session>>

Spawn(u) ==
    /\ pc[u] = "passed" /\ used + 2 <= MaxPids
    /\ used' = used + 2
    /\ root' = [root EXCEPT ![u] = used + 1]
    /\ LET started(parent) == [up |-> u, parent |-> parent, grouped |-> TRUE,
                               env |-> TRUE]
       IN proc' = [proc EXCEPT ![used + 1] = started(0),
                               ![used + 2] = started(used + 1)]
    /\ pc' = [pc EXCEPT ![u] = "spawned"]
    /\ UNCHANGED <<lock, project, ran, teardownVars, refresh, session>>

\* The child was gone 50 ms later: nothing is stopped and nothing is swept.
ExitsEarly(u) ==
    /\ pc[u] = "spawned" /\ ~IsAlive(root[u])
    /\ pc' = [pc EXCEPT ![u] = "early"]
    /\ UNCHANGED <<proc, used, lock, project, ran, root, teardownVars, refresh,
                   session>>

Insert(u) ==
    /\ pc[u] = "spawned" /\ lock = 0 /\ project = 0
    /\ pc' = [pc EXCEPT ![u] = "listed"]
    /\ project' = u
    /\ ran' = ran \union {u}
    /\ UNCHANGED <<proc, used, lock, root, teardownVars, refresh, session>>

-----------------------------------------------------------------------------
(* stop_process_group and sweep_project_processes *)

StopProcessGroup(u) ==
    /\ marked' = [marked EXCEPT ![u] = CollectDescendants(root[u])]
    /\ pc' = [pc EXCEPT ![u] = "termed"]
    /\ UNCHANGED <<targets, scanned>>

\* No namespace, no slirp4netns or no proxy: the tree is stopped unlocked.
GivesUp(u) ==
    /\ pc[u] = "spawned"
    /\ StopProcessGroup(u)
    /\ UNCHANGED <<proc, used, lock, project, ran, root, refresh, session>>

\* Another `up` was faster: the tree is stopped with the lock held.
LosesRace(u) ==
    /\ pc[u] = "spawned" /\ lock = 0 /\ project # 0
    /\ lock' = u
    /\ StopProcessGroup(u)
    /\ UNCHANGED <<proc, used, project, ran, root, refresh, session>>

Stop(u) ==
    /\ lock = 0 /\ project = u
    /\ lock' = u
    /\ project' = 0
    /\ StopProcessGroup(u)
    /\ UNCHANGED <<proc, used, ran, root>>

Down(u) == Stop(u) /\ UNCHANGED <<refresh, session>>

Reap(u) ==
    /\ lock = 0 /\ project = u /\ ~IsAlive(root[u])
    /\ lock' = u
    /\ project' = 0
    /\ pc' = [pc EXCEPT ![u] = "sweep"]
    /\ UNCHANGED <<proc, used, ran, root, teardownVars, refresh, session>>

RootExits(u) ==
    /\ pc[u] = "termed" /\ ~IsAlive(root[u])
    /\ pc' = [pc EXCEPT ![u] = "survivors"]
    /\ UNCHANGED <<proc, used, lock, project, ran, root, teardownVars, refresh,
                   session>>

Recollect(u) ==
    /\ pc[u] = "termed" /\ IsAlive(root[u])
    /\ targets' = [targets EXCEPT ![u] =
                     marked[u] \union CollectDescendants(root[u])]
    /\ pc' = [pc EXCEPT ![u] = "kill"]
    /\ UNCHANGED <<proc, used, lock, project, ran, root, marked, scanned,
                   refresh, session>>

KillTree(u) ==
    /\ pc[u] = "kill"
    /\ Die(Group(u) \union targets[u] \union {root[u]})
    /\ targets' = [targets EXCEPT ![u] = {}]
    /\ pc' = [pc EXCEPT ![u] = "survivors"]
    /\ UNCHANGED <<used, lock, project, ran, root, marked, scanned, refresh,
                   session>>

Unlock(u) == lock' = IF lock = u THEN 0 ELSE lock

\* Variant: a descendant that left the process group is not waited for.
KillsNoSurvivors(u) ==
    /\ pc[u] = "survivors"
    /\ Die({})
    /\ IF u \in ran THEN /\ pc' = [pc EXCEPT ![u] = "sweep"]
                         /\ UNCHANGED lock
                    ELSE /\ pc' = [pc EXCEPT ![u] = "failed"]
                         /\ Unlock(u)
    /\ UNCHANGED <<used, project, ran, root, teardownVars, refresh, session>>

(***************************************************************************)
(* Three seconds for the first list, then SIGKILL.  A `down` goes on to    *)
(* sweep; a failing `up` returns its error.                                *)
(***************************************************************************)
KillSurvivors(u) ==
    /\ pc[u] = "survivors"
    /\ Die(marked[u])
    /\ IF u \in ran THEN /\ pc' = [pc EXCEPT ![u] = "sweep"]
                         /\ UNCHANGED lock
                    ELSE /\ pc' = [pc EXCEPT ![u] = "failed"]
                         /\ Unlock(u)
    /\ UNCHANGED <<used, project, ran, root, teardownVars, refresh, session>>

Scan(u) ==
    /\ pc[u] = "sweep"
    /\ targets' = [targets EXCEPT ![u] = FindStragglers]
    /\ scanned' = [scanned EXCEPT ![u] = used]
    /\ pc' = [pc EXCEPT ![u] = "strays"]
    /\ UNCHANGED <<proc, used, lock, project, ran, root, marked, refresh,
                   session>>

\* Two seconds for the strays, then SIGKILL; then the rest of finish_cleanup.
KillStrays(u) ==
    /\ pc[u] = "strays"
    /\ Die(targets[u])
    /\ targets' = [targets EXCEPT ![u] = {}]
    /\ pc' = [pc EXCEPT ![u] = "cleaned"]
    /\ Unlock(u)
    /\ UNCHANGED <<used, project, ran, root, marked, scanned, refresh, session>>

Teardown(u) ==
    \/ RootExits(u) \/ Recollect(u) \/ KillTree(u) \/ KillSurvivors(u)
    \/ Scan(u) \/ KillStrays(u)

-----------------------------------------------------------------------------
(* neals refresh *)

RefreshTo(at) ==
    /\ refresh' = [refresh EXCEPT !.at = at]
    /\ UNCHANGED <<proc, used, daemonVars, session>>

\* Variant: Status is answered while a teardown holds the lock.
AsksStatusUnlocked ==
    /\ refresh.at = "idle"
    /\ refresh' = [refresh EXCEPT
                     !.at = IF project # 0 THEN "down" ELSE "stopped",
                     !.before = ran]
    /\ UNCHANGED <<proc, used, daemonVars, session>>

AsksStatus ==
    /\ refresh.at = "idle" /\ lock = 0
    /\ refresh' = [refresh EXCEPT
                     !.at = IF project # 0 THEN "down" ELSE "stopped",
                     !.before = ran]
    /\ UNCHANGED <<proc, used, daemonVars, session>>

RefreshDown ==
    /\ refresh.at = "down"
    /\ \E u \in Up :
         /\ Stop(u)
         /\ refresh' = [refresh EXCEPT !.at = "waiting", !.up = u]
    /\ UNCHANGED session

\* The project went away in between: cmd_down's error ends the command.
RefreshFails ==
    /\ refresh.at = "down" /\ lock = 0 /\ project = 0
    /\ refresh' = [at |-> "done", up |-> 0, before |-> {}]
    /\ UNCHANGED <<proc, used, daemonVars, session>>

DownAnswered ==
    /\ refresh.at = "waiting" /\ pc[refresh.up] = "cleaned"
    /\ RefreshTo("stopped")

\* `--hard`: .devenv, .neals and the runtime directories are removed.
Wipe ==
    /\ refresh.at = "stopped"
    /\ refresh' = [at |-> "done", up |-> 0, before |-> {}]
    /\ UNCHANGED <<proc, used, daemonVars, session>>

Refresh == RefreshDown \/ RefreshFails \/ DownAnswered \/ Wipe

-----------------------------------------------------------------------------
(* neals shell; neals exec enters the same way and only waits *)

SessionIs(s) ==
    /\ session' = s
    /\ UNCHANGED <<proc, used, daemonVars, refresh>>

Off == [at |-> "off", up |-> 0]

RequireNetnsPid ==
    /\ session.at = "off" /\ lock = 0 /\ project # 0
    /\ SessionIs([at |-> "asked", up |-> project])

\* nsenter: into the namespaces of the pid that Status named, if it is there.
Enter ==
    /\ session.at = "asked"
    /\ SessionIs(IF IsAlive(NetnsPid(session.up))
                 THEN [session EXCEPT !.at = "in"] ELSE Off)

Leaves == session.at = "in" /\ SessionIs(Off)

\* Variant: the loop asks only whether the project is listed.
SessionByName == project # 0

(***************************************************************************)
(* project_session_alive: the namespace's process exists, and Status, when *)
(* it is answered, lists the name.                                         *)
(***************************************************************************)
ProjectSessionAlive ==
    /\ IsAlive(NetnsPid(session.up))
    /\ lock # 0 \/ project # 0

\* run_watched_shell looks twice a second.
WatchShell ==
    /\ session.at = "in"
    /\ ~ProjectSessionAlive
    /\ SessionIs(Off)

-----------------------------------------------------------------------------

Init ==
    /\ proc = [p \in Pid |-> Gone]
    /\ used = 0
    /\ lock = 0 /\ project = 0 /\ ran = {}
    /\ pc = [u \in Up |-> "none"]
    /\ root = [u \in Up |-> 0]
    /\ marked = [u \in Up |-> {}] /\ targets = [u \in Up |-> {}]
    /\ scanned = [u \in Up |-> 0]
    /\ refresh = [at |-> "idle", up |-> 0, before |-> {}]
    /\ session = Off

UpStep(u) ==
    \/ Ask(u) \/ Spawn(u) \/ ExitsEarly(u) \/ Insert(u) \/ GivesUp(u)
    \/ LosesRace(u) \/ Down(u) \/ Reap(u) \/ Teardown(u)

Next ==
    \/ \E p \in Pid : Fork(p) \/ Exit(p)
    \/ \E u \in Up : UpStep(u)
    \/ AsksStatus \/ Refresh
    \/ RequireNetnsPid \/ Enter \/ Leaves \/ WatchShell

(***************************************************************************)
(* Every wait of a teardown has a deadline and its task runs on tokio, the *)
(* mutex is fair, and the two commands are loops of their own.  Nothing is *)
(* asked of the processes, the user, or a request that was not sent.       *)
(***************************************************************************)
Fairness ==
    /\ \A u \in Up : WF_vars(Teardown(u))
    /\ WF_vars(Refresh)
    /\ WF_vars(WatchShell)

Spec == Init /\ [][Next]_vars /\ Fairness

-----------------------------------------------------------------------------
(* What the teardown is for *)

(***************************************************************************)
(* Where the first list was collected it is dead when the call returns;    *)
(* and once a `down` or the reaper is through, whoever existed when /proc  *)
(* was read and carries NEALS_RUNTIME is dead, of whichever `up`: a        *)
(* leaf that left the group, an orphan of an `up` that exited early.       *)
(* (state.rs: "devenv setsid()s every task process, so leaves live outside *)
(* bwrap's process group and used to survive `down` as orphans".)          *)
(***************************************************************************)
NothingSurvives ==
    \A u \in Up :
        /\ pc[u] \in {"failed", "cleaned"} => marked[u] \intersect Alive = {}
        /\ pc[u] = "cleaned" =>
             \A p \in Alive : p <= scanned[u] => ~proc[p].env

(***************************************************************************)
(* `refresh --hard` removes the state of a project only when every tree    *)
(* that had been listed by the time it asked for Status is taken down:     *)
(* of those, only processes that nothing told apart, or that were forked   *)
(* after the sweep had read /proc, can be left.                            *)
(***************************************************************************)
WipesOnlyStopped ==
    [][(refresh.at = "stopped" /\ refresh'.at = "done") =>
         \A p \in Alive : proc[p].up \in refresh.before =>
             LET u == proc[p].up IN
             /\ pc[u] = "cleaned"
             /\ p \notin marked[u]
             /\ p > scanned[u] \/ ~proc[p].env]_vars

(***************************************************************************)
(* A shell in a project that is being taken down, or is gone, is left,     *)
(* even when the project is up again by the time the loop looks.           *)
(***************************************************************************)
ShellLeaves ==
    (session.at = "in" /\ pc[session.up] # "listed") ~> (session.at = "off")
===============================================================================
