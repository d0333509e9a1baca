----------------------------- MODULE SessionProofs -----------------------------
(***************************************************************************)
(* What Session promises of a teardown and of `neals refresh --hard`, for  *)
(* any number of ups and processes.                                        *)
(***************************************************************************)
EXTENDS Session, TLAPS

USE DEF Up, Pid

-----------------------------------------------------------------------------
(* The inductive invariant *)

\* Pids are handed out in order, and nothing names one in advance.
PidsInOrder ==
    /\ \A p \in Alive : p <= used
    /\ \A u \in Up : scanned[u] <= used /\ \A p \in marked[u] : p <= used

Before == {"none", "passed", "spawned", "listed", "early"}
Hunting == {"termed", "kill", "survivors", "sweep", "strays"}
PastKill == {"sweep", "strays", "failed", "cleaned"}

\* The lists of the teardown, and who of them is left at which point.
HuntedAt(u) ==
    /\ pc[u] \in Before => marked[u] = {}
    /\ pc[u] \in PastKill => marked[u] \intersect Alive = {}
    /\ pc[u] = "strays" =>
         \A p \in Alive : p <= scanned[u] /\ proc[p].env => p \in targets[u]
    /\ pc[u] = "cleaned" => \A p \in Alive : p <= scanned[u] => ~proc[p].env

Hunted == \A u \in Up : HuntedAt(u)

\* An up that was in the map is in it, being taken down under the lock, or
\* taken down.
HeldBy(u) ==
    \/ pc[u] = "listed" /\ project = u
    \/ pc[u] \in Hunting /\ lock = u
    \/ pc[u] = "cleaned"

Held ==
    /\ project # 0 => pc[project] = "listed"
    /\ \A u \in ran : HeldBy(u)

\* How far those are that ran when refresh asked.
Awaited ==
    /\ refresh.before \subseteq ran
    /\ refresh.at = "waiting" =>
         \A u \in refresh.before : u = refresh.up \/ pc[u] = "cleaned"
    /\ refresh.at = "stopped" => \A u \in refresh.before : pc[u] = "cleaned"

IInv == TypeOK /\ PidsInOrder /\ Hunted /\ Held /\ Awaited

-----------------------------------------------------------------------------
(* What becomes of the processes *)

\* Nobody comes back, and nobody's environment changes.
NoneReturn ==
    \A p \in Alive' : p <= used => p \in Alive /\ proc'[p].env = proc[p].env

ProcessesKept ==
    /\ proc' \in [Pid -> Process \union {Gone}]
    /\ used' \in 0 .. MaxPids
    /\ used <= used' /\ \A q \in Alive' : q <= used'
    /\ NoneReturn

LEMMA AliveIsProcess ==
    ASSUME TypeOK
    PROVE  \A p \in Pid : p \in Alive <=> proc[p] \in Process
  BY DEF TypeOK, Alive, Process, Gone

LEMMA Death ==
    ASSUME TypeOK, NEW S, Die(S)
    PROVE  /\ proc' \in [Pid -> Process \union {Gone}]
           /\ Alive' = Alive \ S
           /\ \A p \in Alive' : proc'[p].env = proc[p].env
<1>1. ASSUME NEW p \in Pid, p \notin S, proc[p] # Gone
      PROVE  /\ proc'[p] \in Process
             /\ proc'[p].env = proc[p].env
  <2>1. proc[p] \in Process
    BY <1>1 DEF TypeOK
  <2>2. CASE proc[p].parent \in S
    <3>1. proc'[p] = [proc[p] EXCEPT !.parent = 0]
      BY <1>1, <2>2 DEF Die
    <3> QED  BY <2>1, <3>1, BoundAssumption DEF Process
  <2>3. CASE proc[p].parent \notin S
    BY <1>1, <2>1, <2>3 DEF Die
  <2> QED  BY <2>2, <2>3
<1>2. ASSUME NEW p \in Pid, p \in S \/ proc[p] = Gone
      PROVE  proc'[p] = Gone
  BY <1>2 DEF Die
<1>3. proc' = [p \in Pid |-> proc'[p]]
  BY DEF Die
<1>4. \A p \in Pid : proc'[p] \in Process \union {Gone}
  BY <1>1, <1>2
<1>5. Gone \notin Process
  BY DEF Gone, Process
<1>6. Alive' = Alive \ S
  BY <1>1, <1>2, <1>5 DEF Alive
<1> QED  BY <1>1, <1>3, <1>4, <1>6 DEF Alive

LEMMA Birth ==
    ASSUME IInv, NEW p \in Pid, Fork(p)
    PROVE  ProcessesKept
<1> USE BoundAssumption
<1>1. PICK grouped \in BOOLEAN, env \in BOOLEAN, parent \in {p, 0} :
        proc' = [proc EXCEPT ![used + 1] =
                   [up |-> proc[p].up, parent |-> parent,
                    grouped |-> grouped /\ proc[p].grouped,
                    env |-> env /\ proc[p].env]]
  BY DEF Fork
<1>2. proc[p] \in Process
  BY AliveIsProcess DEF IInv, Fork, IsAlive
<1>3. /\ used \in 0 .. MaxPids /\ used' = used + 1 /\ used' \in 0 .. MaxPids
      /\ used + 1 \in Pid
  BY DEF IInv, TypeOK, Fork
<1>4. [up |-> proc[p].up, parent |-> parent,
       grouped |-> grouped /\ proc[p].grouped, env |-> env /\ proc[p].env]
        \in Process
  <2>1. /\ (grouped /\ proc[p].grouped) \in BOOLEAN
        /\ (env /\ proc[p].env) \in BOOLEAN
    BY <1>2 DEF Process
  <2>2. proc[p].up \in Up /\ parent \in 0 .. MaxPids
    BY <1>2, <1>1 DEF Process, Pid
  <2> DEFINE g == grouped /\ proc[p].grouped
             e == env /\ proc[p].env
  <2>3. g \in BOOLEAN /\ e \in BOOLEAN
    BY <2>1
  <2> HIDE DEF g, e
  <2>4. [up |-> proc[p].up, parent |-> parent, grouped |-> g, env |-> e] \in Process
    BY <2>2, <2>3 DEF Process
  <2> QED  BY <2>4 DEF g, e
<1>5. proc \in [Pid -> Process \union {Gone}]
  BY DEF IInv, TypeOK
<1>6. proc' \in [Pid -> Process \union {Gone}]
  BY <1>1, <1>3, <1>4, <1>5
<1>7. \A q \in Pid : q # used + 1 => proc'[q] = proc[q]
  BY <1>1, <1>5
<1>8. \A q \in Alive' : q <= used'
  BY <1>3, <1>7 DEF Alive, IInv, PidsInOrder
<1>9. NoneReturn
  BY <1>3, <1>7 DEF NoneReturn, Alive
<1> QED  BY <1>3, <1>6, <1>8, <1>9 DEF ProcessesKept

LEMMA Spawned ==
    ASSUME IInv, NEW u \in Up, Spawn(u)
    PROVE  ProcessesKept
<1> USE BoundAssumption
<1> DEFINE started(parent) == [up |-> u, parent |-> parent, grouped |-> TRUE,
                               env |-> TRUE]
<1>1. proc' = [proc EXCEPT ![used + 1] = started(0), ![used + 2] = started(used + 1)]
  BY DEF Spawn
<1>2. /\ used \in 0 .. MaxPids /\ used' = used + 2 /\ used' \in 0 .. MaxPids
      /\ used + 1 \in Pid /\ used + 2 \in Pid
  BY DEF IInv, TypeOK, Spawn
<1>3. started(0) \in Process /\ started(used + 1) \in Process
  BY <1>2 DEF Process
<1>4. proc \in [Pid -> Process \union {Gone}]
  BY DEF IInv, TypeOK
<1> HIDE DEF started
<1>5. proc' \in [Pid -> Process \union {Gone}]
  BY <1>1, <1>2, <1>3, <1>4
<1>6. \A q \in Pid : q # used + 1 /\ q # used + 2 => proc'[q] = proc[q]
  BY <1>1, <1>4
<1>7. \A q \in Alive' : q <= used'
  BY <1>2, <1>6 DEF Alive, IInv, PidsInOrder
<1>8. NoneReturn
  BY <1>2, <1>6 DEF NoneReturn, Alive
<1> QED  BY <1>2, <1>5, <1>7, <1>8 DEF ProcessesKept

LEMMA Killed ==
    ASSUME IInv, NEW S, Die(S), used' = used
    PROVE  ProcessesKept /\ Alive' = Alive \ S
  BY Death DEF IInv, TypeOK, PidsInOrder, ProcessesKept, NoneReturn

LEMMA Untouched ==
    ASSUME IInv, UNCHANGED <<proc, used>>
    PROVE  ProcessesKept /\ Alive' = Alive
  BY DEF IInv, TypeOK, PidsInOrder, ProcessesKept, NoneReturn, Alive

LEMMA Descendants ==
    ASSUME NEW p
    PROVE  CollectDescendants(p) \subseteq Alive
  BY DEF CollectDescendants

-----------------------------------------------------------------------------
(* The steps, by what they do to the daemon's variables *)

Teardowns(u) ==
    \/ GivesUp(u) \/ LosesRace(u) \/ Stop(u) \/ Reap(u) \/ RootExits(u)
    \/ Recollect(u) \/ KillTree(u) \/ KillSurvivors(u) \/ Scan(u)
    \/ KillStrays(u)

DaemonStep(u) ==
    Ask(u) \/ Spawn(u) \/ ExitsEarly(u) \/ Insert(u) \/ Teardowns(u)

LEMMA Steps ==
    ASSUME [Next]_vars
    PROVE  UNCHANGED daemonVars \/ \E u \in Up : DaemonStep(u)
<1>1. CASE Next
  <2>1. ASSUME NEW p \in Pid, Fork(p) \/ Exit(p)
        PROVE  UNCHANGED daemonVars
    BY <2>1 DEF Fork, Exit
  <2>2. ASSUME NEW u \in Up, UpStep(u)
        PROVE  DaemonStep(u)
    BY <2>2 DEF UpStep, Down, Teardown, DaemonStep, Teardowns
  <2>3. CASE AsksStatus \/ RefreshFails \/ DownAnswered \/ Wipe
    BY <2>3 DEF AsksStatus, RefreshFails, DownAnswered, RefreshTo, Wipe
  <2>4. CASE RefreshDown
    BY <2>4 DEF RefreshDown, DaemonStep, Teardowns
  <2>5. CASE RequireNetnsPid \/ Enter \/ Leaves \/ WatchShell
    BY <2>5 DEF RequireNetnsPid, Enter, Leaves, WatchShell, SessionIs
  <2> QED  BY <1>1, <2>1, <2>2, <2>3, <2>4, <2>5 DEF Next, Refresh
<1>2. CASE UNCHANGED vars
  BY <1>2 DEF vars
<1> QED  BY <1>1, <1>2

LEMMA StepProcesses ==
    ASSUME IInv, [Next]_vars
    PROVE  ProcessesKept
<1>1. CASE UNCHANGED <<proc, used>>
  BY <1>1, Untouched
<1>2. ASSUME NEW p \in Pid, Fork(p)
      PROVE  ProcessesKept
  BY <1>2, Birth
<1>3. ASSUME NEW p \in Pid, Exit(p)
      PROVE  ProcessesKept
  BY <1>3, Killed DEF Exit
<1>4. ASSUME NEW u \in Up, Spawn(u)
      PROVE  ProcessesKept
  BY <1>4, Spawned
<1>5. ASSUME NEW u \in Up, KillTree(u)
      PROVE  ProcessesKept
  BY <1>5, Killed DEF KillTree
<1>6. ASSUME NEW u \in Up, KillSurvivors(u)
      PROVE  ProcessesKept
  BY <1>6, Killed DEF KillSurvivors
<1>7. ASSUME NEW u \in Up, KillStrays(u)
      PROVE  ProcessesKept
  BY <1>7, Killed DEF KillStrays
<1>8. \/ UNCHANGED <<proc, used>>
      \/ \E p \in Pid : Fork(p) \/ Exit(p)
      \/ \E u \in Up : Spawn(u) \/ KillTree(u) \/ KillSurvivors(u) \/ KillStrays(u)
  <2>1. ASSUME NEW u \in Up, UpStep(u)
        PROVE  \/ UNCHANGED <<proc, used>>
               \/ Spawn(u) \/ KillTree(u) \/ KillSurvivors(u) \/ KillStrays(u)
    BY <2>1 DEF UpStep, Ask, ExitsEarly, Insert, GivesUp, LosesRace, Down, Stop,
                Reap, Teardown, RootExits, Recollect, Scan
  <2>2. CASE AsksStatus \/ Refresh
    BY <2>2 DEF AsksStatus, Refresh, RefreshFails, DownAnswered, RefreshTo, Wipe,
                RefreshDown, Stop
  <2>3. CASE RequireNetnsPid \/ Enter \/ Leaves \/ WatchShell
    BY <2>3 DEF RequireNetnsPid, Enter, Leaves, WatchShell, SessionIs
  <2>4. CASE UNCHANGED vars
    BY <2>4 DEF vars
  <2> QED  BY <2>1, <2>2, <2>3, <2>4 DEF Next
<1> QED  BY <1>1, <1>2, <1>3, <1>4, <1>5, <1>6, <1>7, <1>8

-----------------------------------------------------------------------------
(* Each part of the invariant is kept *)

DaemonTypes ==
    /\ lock \in 0 .. MaxUps /\ project \in 0 .. MaxUps
    /\ ran \subseteq Up
    /\ pc \in [Up -> UpStages]
    /\ root \in [Up -> 0 .. MaxPids]
    /\ marked \in [Up -> SUBSET Pid] /\ targets \in [Up -> SUBSET Pid]
    /\ scanned \in [Up -> 0 .. MaxPids]

LEMMA StepDaemonTypes ==
    ASSUME IInv, NEW u \in Up, DaemonStep(u)
    PROVE  DaemonTypes'
<1> USE BoundAssumption
<1>1. DaemonTypes /\ u \in 0 .. MaxUps
  BY DEF IInv, TypeOK, DaemonTypes
<1>2. /\ CollectDescendants(root[u]) \subseteq Pid
      /\ FindStragglers \subseteq Pid
      /\ used \in 0 .. MaxPids
  BY Descendants DEF IInv, TypeOK, FindStragglers, Alive
<1>3. CASE Ask(u) \/ ExitsEarly(u) \/ Insert(u)
  BY <1>1, <1>3 DEF Ask, ExitsEarly, Insert, DaemonTypes, teardownVars, UpStages
<1>4. CASE Spawn(u)
  <2>1. used + 1 \in 0 .. MaxPids
    BY <1>2, <1>4 DEF Spawn
  <2> QED  BY <1>1, <1>4, <2>1 DEF Spawn, DaemonTypes, teardownVars, UpStages
<1>5. CASE GivesUp(u) \/ LosesRace(u) \/ Stop(u)
  <2>1. StopProcessGroup(u) /\ UNCHANGED root
    BY <1>5 DEF GivesUp, LosesRace, Stop
  <2>2. /\ pc' \in [Up -> UpStages] /\ marked' \in [Up -> SUBSET Pid]
        /\ UNCHANGED <<targets, scanned>>
    BY <1>1, <1>2, <2>1 DEF StopProcessGroup, DaemonTypes, UpStages
  <2>3. lock' \in 0 .. MaxUps /\ project' \in 0 .. MaxUps /\ UNCHANGED ran
    BY <1>1, <1>5 DEF GivesUp, LosesRace, Stop, DaemonTypes
  <2> QED  BY <1>1, <2>1, <2>2, <2>3 DEF DaemonTypes
<1>6. CASE Reap(u) \/ RootExits(u)
  BY <1>1, <1>6 DEF Reap, RootExits, DaemonTypes, teardownVars, UpStages
<1>7. CASE Recollect(u)
  BY <1>1, <1>2, <1>7 DEF Recollect, DaemonTypes, UpStages
<1>8. CASE KillTree(u)
  BY <1>1, <1>8 DEF KillTree, DaemonTypes, UpStages
<1>9. CASE KillSurvivors(u)
  <2>1. pc' \in [Up -> UpStages] /\ lock' \in 0 .. MaxUps
    <3>1. CASE u \in ran
      BY <1>1, <1>9, <3>1 DEF KillSurvivors, DaemonTypes, UpStages
    <3>2. CASE u \notin ran
      <4>1. pc' = [pc EXCEPT ![u] = "failed"] /\ Unlock(u)
        BY <1>9, <3>2 DEF KillSurvivors
      <4>2. pc' \in [Up -> UpStages]
        BY <1>1, <4>1 DEF DaemonTypes, UpStages
      <4>3. lock' \in 0 .. MaxUps
        BY <1>1, <4>1 DEF Unlock, DaemonTypes
      <4> QED  BY <4>2, <4>3
    <3> QED  BY <3>1, <3>2
  <2>2. UNCHANGED <<project, ran, root, marked, targets, scanned>>
    BY <1>9 DEF KillSurvivors, teardownVars
  <2> QED  BY <1>1, <2>1, <2>2 DEF DaemonTypes
<1>10. CASE Scan(u)
  BY <1>1, <1>2, <1>10 DEF Scan, DaemonTypes, UpStages
<1>11. CASE KillStrays(u)
  BY <1>1, <1>11 DEF KillStrays, Unlock, DaemonTypes, UpStages
<1> QED
  BY <1>3, <1>4, <1>5, <1>6, <1>7, <1>8, <1>9, <1>10, <1>11
     DEF DaemonStep, Teardowns, Insert

RefreshTypes ==
    refresh \in
      [at : {"idle", "down", "waiting", "stopped", "done"},
       up : 0 .. MaxUps, before : SUBSET Up]

\* What the refresh command does next, seen from its own variable.
RefreshMoves ==
    \/ UNCHANGED refresh
    \/ AsksStatus
    \/ RefreshDown
    \/ refresh' = [at |-> "done", up |-> 0, before |-> {}]
    \/ DownAnswered

LEMMA StepRefresh ==
    ASSUME [Next]_vars
    PROVE  RefreshMoves
<1>1. ASSUME NEW u \in Up, UpStep(u)
      PROVE  UNCHANGED refresh
  BY <1>1 DEF UpStep, Ask, Spawn, ExitsEarly, Insert, GivesUp, LosesRace, Down, Reap,
              Teardown, RootExits, Recollect, KillTree, KillSurvivors, Scan, KillStrays
<1>2. ASSUME NEW p \in Pid, Fork(p) \/ Exit(p)
      PROVE  UNCHANGED refresh
  BY <1>2 DEF Fork, Exit
<1>3. CASE RequireNetnsPid \/ Enter \/ Leaves \/ WatchShell
  BY <1>3 DEF RequireNetnsPid, Enter, Leaves, WatchShell, SessionIs, RefreshMoves
<1>4. CASE AsksStatus \/ Refresh
  BY <1>4 DEF RefreshMoves, Refresh, RefreshFails, Wipe
<1>5. CASE UNCHANGED vars
  BY <1>5 DEF vars, RefreshMoves
<1> QED  BY <1>1, <1>2, <1>3, <1>4, <1>5 DEF Next, RefreshMoves

LEMMA StepTypes ==
    ASSUME IInv, [Next]_vars
    PROVE  TypeOK'
<1> USE BoundAssumption
<1>1. TypeOK
  BY DEF IInv
<1>2. DaemonTypes'
  <2>1. CASE UNCHANGED daemonVars
    BY <1>1, <2>1 DEF TypeOK, DaemonTypes, daemonVars, teardownVars
  <2> QED  BY <2>1, Steps, StepDaemonTypes
<1>3. RefreshTypes'
  <2>1. RefreshTypes /\ ran \subseteq Up
    BY <1>1 DEF TypeOK, RefreshTypes
  <2>2. CASE AsksStatus
    BY <2>1, <2>2 DEF AsksStatus, RefreshTypes
  <2>3. CASE RefreshDown
    <3>1. PICK u \in Up : refresh' = [refresh EXCEPT !.at = "waiting", !.up = u]
      BY <2>3 DEF RefreshDown
    <3>2. u \in 0 .. MaxUps
      OBVIOUS
    <3> QED  BY <2>1, <3>1, <3>2 DEF RefreshTypes
  <2>4. CASE DownAnswered
    BY <2>1, <2>4 DEF DownAnswered, RefreshTo, RefreshTypes
  <2>5. CASE UNCHANGED refresh \/ refresh' = [at |-> "done", up |-> 0, before |-> {}]
    BY <2>1, <2>5 DEF RefreshTypes
  <2> QED  BY <2>2, <2>3, <2>4, <2>5, StepRefresh DEF RefreshMoves
<1>4. session' \in [at : {"off", "asked", "in"}, up : 0 .. MaxUps]
  <2>1. session \in [at : {"off", "asked", "in"}, up : 0 .. MaxUps] /\ project \in 0 .. MaxUps
    BY <1>1 DEF TypeOK
  <2>2. CASE RequireNetnsPid \/ Enter \/ Leaves \/ WatchShell
    BY <2>1, <2>2 DEF RequireNetnsPid, Enter, Leaves, WatchShell, SessionIs, Off
  <2>3. CASE UNCHANGED session
    BY <2>1, <2>3
  <2>4. ASSUME NEW u \in Up, UpStep(u)
        PROVE  UNCHANGED session
    BY <2>4 DEF UpStep, Ask, Spawn, ExitsEarly, Insert, GivesUp, LosesRace, Down, Reap,
                Teardown, RootExits, Recollect, KillTree, KillSurvivors, Scan, KillStrays
  <2>5. CASE AsksStatus \/ Refresh
    BY <2>3, <2>5 DEF AsksStatus, Refresh, RefreshDown, RefreshFails, DownAnswered, RefreshTo,
                      Wipe
  <2>6. ASSUME NEW p \in Pid, Fork(p) \/ Exit(p)
        PROVE  UNCHANGED session
    BY <2>6 DEF Fork, Exit
  <2>7. CASE UNCHANGED vars
    BY <2>3, <2>7 DEF vars
  <2> QED  BY <2>2, <2>3, <2>4, <2>5, <2>6, <2>7 DEF Next
<1> QED
  BY <1>2, <1>3, <1>4, StepProcesses DEF ProcessesKept, DaemonTypes, RefreshTypes, TypeOK

LEMMA StepLists ==
    ASSUME NEW u \in Up, DaemonStep(u)
    PROVE  /\ \/ UNCHANGED marked
              \/ marked' = [marked EXCEPT ![u] = CollectDescendants(root[u])]
           /\ \/ UNCHANGED scanned
              \/ scanned' = [scanned EXCEPT ![u] = used]
  BY DEF DaemonStep, Teardowns, Ask, Spawn, ExitsEarly, Insert, GivesUp, LosesRace, Stop,
         StopProcessGroup, Reap, RootExits, Recollect, KillTree, KillSurvivors, Scan,
         KillStrays, teardownVars

LEMMA StepPids ==
    ASSUME IInv, [Next]_vars
    PROVE  PidsInOrder'
<1>1. ProcessesKept /\ PidsInOrder /\ TypeOK
  BY StepProcesses DEF IInv
<1>2. \A v \in Up : scanned'[v] <= used /\ \A p \in marked'[v] : p <= used
  <2>1. CASE UNCHANGED daemonVars
    BY <1>1, <2>1 DEF PidsInOrder, daemonVars, teardownVars
  <2>2. ASSUME NEW u \in Up, DaemonStep(u)
        PROVE  \A v \in Up : scanned'[v] <= used /\ \A p \in marked'[v] : p <= used
    <3>1. \A p \in CollectDescendants(root[u]) : p <= used
      BY <1>1, Descendants DEF PidsInOrder
    <3>2. /\ marked \in [Up -> SUBSET Pid] /\ scanned \in [Up -> 0 .. MaxPids]
          /\ used \in 0 .. MaxPids
      BY <1>1 DEF TypeOK
    <3>3. \A v \in Up : marked'[v] = marked[v] \/ marked'[v] = CollectDescendants(root[u])
      BY <2>2, <3>2, StepLists
    <3>4. \A v \in Up : scanned'[v] = scanned[v] \/ scanned'[v] = used
      BY <2>2, <3>2, StepLists
    <3>5. used <= used
      BY <3>2, BoundAssumption
    <3> QED  BY <1>1, <3>1, <3>3, <3>4, <3>5 DEF PidsInOrder
  <2> QED  BY <2>1, <2>2, Steps
<1>3. /\ used \in 0 .. MaxPids /\ used' \in 0 .. MaxPids
      /\ scanned' \in [Up -> 0 .. MaxPids] /\ marked' \in [Up -> SUBSET Pid]
  BY <1>1, StepTypes DEF TypeOK
<1> QED  BY <1>1, <1>2, <1>3, BoundAssumption DEF ProcessesKept, PidsInOrder

LEMMA Others ==
    ASSUME IInv, ProcessesKept, NEW v \in Up,
           pc'[v] = pc[v], marked'[v] = marked[v], targets'[v] = targets[v],
           scanned'[v] = scanned[v]
    PROVE  HuntedAt(v)'
<1>1. HuntedAt(v) /\ scanned[v] <= used /\ \A p \in marked[v] : p <= used
  BY DEF IInv, Hunted, PidsInOrder
<1>2. /\ scanned[v] \in 0 .. MaxPids /\ used \in 0 .. MaxPids
      /\ Alive' \subseteq Pid
  BY DEF IInv, TypeOK, Alive
<1>3. \A p \in Alive' : p <= scanned[v] => p <= used
  BY <1>1, <1>2, BoundAssumption
<1> QED  BY <1>1, <1>3 DEF HuntedAt, ProcessesKept, NoneReturn

LEMMA StepHuntedAt ==
    ASSUME IInv, [Next]_vars, NEW u \in Up, DaemonStep(u)
    PROVE  HuntedAt(u)'
<1>1. /\ pc \in [Up -> UpStages] /\ marked \in [Up -> SUBSET Pid]
      /\ targets \in [Up -> SUBSET Pid] /\ scanned \in [Up -> 0 .. MaxPids]
      /\ HuntedAt(u)
  BY DEF IInv, TypeOK, Hunted
<1>2. CASE Ask(u) \/ Spawn(u) \/ ExitsEarly(u) \/ Insert(u)
  <2>1. pc[u] \in Before /\ pc'[u] \in Before /\ marked'[u] = marked[u]
    BY <1>1, <1>2 DEF Ask, Spawn, ExitsEarly, Insert, teardownVars, Before
  <2> QED  BY <1>1, <2>1 DEF HuntedAt, Before, PastKill
<1>3. CASE GivesUp(u) \/ LosesRace(u) \/ Stop(u) \/ RootExits(u) \/ Recollect(u)
             \/ KillTree(u)
  <2>1. pc'[u] \in {"termed", "survivors", "kill"}
    BY <1>1, <1>3 DEF GivesUp, LosesRace, Stop, StopProcessGroup, RootExits, Recollect,
                      KillTree
  <2> QED  BY <2>1 DEF HuntedAt, Before, PastKill
<1>4. CASE Reap(u)
  <2>1. pc[u] = "listed"
    BY <1>4 DEF Reap, IInv, Held
  <2>2. pc'[u] = "sweep" /\ marked'[u] = marked[u]
    BY <1>1, <1>4 DEF Reap, teardownVars
  <2>3. marked'[u] \intersect Alive' = {}
    BY <1>1, <2>1, <2>2 DEF HuntedAt, Before
  <2> QED  BY <2>2, <2>3 DEF HuntedAt, Before
<1>5. CASE KillSurvivors(u)
  <2>1. Alive' = Alive \ marked[u]
    BY <1>5, Killed DEF KillSurvivors
  <2>2. pc'[u] \in {"sweep", "failed"} /\ marked'[u] = marked[u]
    BY <1>1, <1>5 DEF KillSurvivors, teardownVars
  <2>3. marked'[u] \intersect Alive' = {}
    BY <2>1, <2>2
  <2> QED  BY <2>2, <2>3 DEF HuntedAt, Before
<1>6. CASE Scan(u)
  <2>1. Alive' = Alive /\ proc' = proc
    BY <1>6, Untouched DEF Scan
  <2>2. /\ pc[u] = "sweep" /\ pc'[u] = "strays" /\ marked'[u] = marked[u]
        /\ targets'[u] = FindStragglers
    BY <1>1, <1>6 DEF Scan
  <2>3. marked'[u] \intersect Alive' = {}
    BY <1>1, <2>1, <2>2 DEF HuntedAt, PastKill
  <2>4. \A p \in Alive' : p <= scanned'[u] /\ proc'[p].env => p \in targets'[u]
    BY <2>1, <2>2 DEF FindStragglers
  <2> QED  BY <2>2, <2>3, <2>4 DEF HuntedAt, Before
<1>7. CASE KillStrays(u)
  <2>1. Alive' = Alive \ targets[u] /\ \A p \in Alive' : proc'[p].env = proc[p].env
    BY <1>7, Death DEF KillStrays, IInv
  <2>2. /\ pc[u] = "strays" /\ pc'[u] = "cleaned" /\ marked'[u] = marked[u]
        /\ scanned'[u] = scanned[u]
    BY <1>1, <1>7 DEF KillStrays
  <2>3. marked'[u] \intersect Alive' = {}
    BY <1>1, <2>1, <2>2 DEF HuntedAt, PastKill
  <2>4. \A p \in Alive' : p <= scanned'[u] => ~proc'[p].env
    BY <1>1, <2>1, <2>2 DEF HuntedAt
  <2> QED  BY <2>2, <2>3, <2>4 DEF HuntedAt, Before
<1> QED
  BY <1>2, <1>3, <1>4, <1>5, <1>6, <1>7 DEF DaemonStep, Teardowns

LEMMA StepHunted ==
    ASSUME IInv, [Next]_vars
    PROVE  Hunted'
<1> USE BoundAssumption
<1>1. ProcessesKept
  BY StepProcesses
<1>2. CASE UNCHANGED daemonVars
  BY <1>1, <1>2, Others DEF daemonVars, teardownVars, Hunted
<1>3. ASSUME NEW u \in Up, DaemonStep(u)
      PROVE  Hunted'
  <2>1. /\ pc \in [Up -> UpStages] /\ marked \in [Up -> SUBSET Pid]
        /\ targets \in [Up -> SUBSET Pid] /\ scanned \in [Up -> 0 .. MaxPids]
    BY DEF IInv, TypeOK
  <2>2. ASSUME NEW v \in Up, v # u
        PROVE  HuntedAt(v)'
    <3>1. /\ pc'[v] = pc[v] /\ marked'[v] = marked[v]
          /\ targets'[v] = targets[v] /\ scanned'[v] = scanned[v]
      BY <1>3, <2>1, <2>2
         DEF DaemonStep, Teardowns, Ask, Spawn, ExitsEarly, Insert, GivesUp, LosesRace, Stop,
             StopProcessGroup, Reap, RootExits, Recollect, KillTree, KillSurvivors, Scan,
             KillStrays, teardownVars
    <3> QED  BY <1>1, <3>1, Others
  <2> QED  BY <1>3, <2>2, StepHuntedAt DEF Hunted
<1> QED  BY <1>2, <1>3, Steps

LEMMA StepHeldBy ==
    ASSUME IInv, NEW u \in Up, DaemonStep(u),
           NEW v \in ran'
    PROVE  HeldBy(v)'
<1> USE BoundAssumption
<1>1. /\ pc \in [Up -> UpStages] /\ ran \subseteq Up /\ lock \in 0 .. MaxUps
      /\ project \in 0 .. MaxUps
      /\ u # 0 /\ \A w \in ran : HeldBy(w) /\ w # 0
      /\ project # 0 => pc[project] = "listed"
  BY DEF IInv, TypeOK, Held, HeldBy
<1>2. CASE Ask(u) \/ Spawn(u) \/ ExitsEarly(u) \/ GivesUp(u)
  <2>1. /\ pc[u] \in {"none", "passed", "spawned"} /\ UNCHANGED <<lock, project, ran>>
        /\ \A w \in Up : w # u => pc'[w] = pc[w]
    BY <1>1, <1>2 DEF Ask, Spawn, ExitsEarly, GivesUp, StopProcessGroup
  <2>2. u \notin ran
    BY <1>1, <2>1 DEF HeldBy, Hunting
  <2> QED  BY <1>1, <2>1, <2>2 DEF HeldBy
<1>3. CASE LosesRace(u)
  <2>1. /\ pc[u] = "spawned" /\ lock = 0 /\ UNCHANGED <<project, ran>>
        /\ \A w \in Up : w # u => pc'[w] = pc[w]
    BY <1>1, <1>3 DEF LosesRace, StopProcessGroup
  <2>2. u \notin ran
    BY <1>1, <2>1 DEF HeldBy, Hunting
  <2> QED  BY <1>1, <2>1, <2>2 DEF HeldBy
<1>4. CASE Insert(u)
  <2>1. /\ lock = 0 /\ project = 0 /\ project' = u /\ ran' = ran \union {u}
        /\ pc'[u] = "listed" /\ \A w \in Up : w # u => pc'[w] = pc[w]
    BY <1>1, <1>4 DEF Insert
  <2>2. CASE v = u
    BY <2>1, <2>2 DEF HeldBy
  <2>3. CASE v # u
    <3>1. v \in ran /\ pc[v] = "cleaned"
      BY <1>1, <2>1, <2>3 DEF HeldBy
    <3> QED  BY <1>1, <2>1, <2>3, <3>1 DEF HeldBy
  <2> QED  BY <2>2, <2>3
<1>5. CASE Stop(u) \/ Reap(u)
  <2>1. /\ lock = 0 /\ project = u /\ lock' = u /\ project' = 0 /\ UNCHANGED ran
        /\ pc'[u] \in {"termed", "sweep"} /\ \A w \in Up : w # u => pc'[w] = pc[w]
    BY <1>1, <1>5 DEF Stop, Reap, StopProcessGroup
  <2>2. CASE v = u
    BY <2>1, <2>2 DEF HeldBy, Hunting
  <2>3. CASE v # u
    <3>1. v \in ran /\ pc[v] = "cleaned"
      BY <1>1, <2>1, <2>3 DEF HeldBy
    <3> QED  BY <1>1, <2>1, <2>3, <3>1 DEF HeldBy
  <2> QED  BY <2>2, <2>3
<1>6. CASE RootExits(u) \/ Recollect(u) \/ KillTree(u) \/ Scan(u)
  <2>1. /\ pc[u] \in Hunting /\ pc'[u] \in Hunting /\ UNCHANGED <<lock, project, ran>>
        /\ \A w \in Up : w # u => pc'[w] = pc[w]
    BY <1>1, <1>6 DEF RootExits, Recollect, KillTree, Scan, Hunting
  <2> QED  BY <1>1, <2>1 DEF HeldBy, Hunting
<1>7. CASE KillSurvivors(u)
  <2>1. pc[u] = "survivors" /\ UNCHANGED <<project, ran>>
    BY <1>7 DEF KillSurvivors
  <2>2. CASE u \in ran
    <3>1. pc'[u] = "sweep" /\ lock' = lock /\ \A w \in Up : w # u => pc'[w] = pc[w]
      BY <1>1, <1>7, <2>2 DEF KillSurvivors
    <3> QED  BY <1>1, <2>1, <2>2, <3>1 DEF HeldBy, Hunting
  <2>3. CASE u \notin ran
    <3>1. (\A w \in Up : w # u => pc'[w] = pc[w]) /\ Unlock(u)
      BY <1>1, <1>7, <2>3 DEF KillSurvivors
    <3>2. v # u /\ v \in ran /\ (lock = v => lock' = v)
      BY <2>1, <2>3, <3>1 DEF Unlock
    <3> QED  BY <1>1, <2>1, <3>1, <3>2 DEF HeldBy
  <2> QED  BY <2>2, <2>3
<1>8. CASE KillStrays(u)
  <2>1. /\ pc'[u] = "cleaned" /\ UNCHANGED <<project, ran>> /\ Unlock(u)
        /\ \A w \in Up : w # u => pc'[w] = pc[w]
    BY <1>1, <1>8 DEF KillStrays
  <2>2. CASE v = u
    BY <2>1, <2>2 DEF HeldBy
  <2>3. CASE v # u
    <3>1. v \in ran /\ (lock = v => lock' = v)
      BY <2>1, <2>3 DEF Unlock
    <3> QED  BY <1>1, <2>1, <2>3, <3>1 DEF HeldBy
  <2> QED  BY <2>2, <2>3
<1> QED
  BY <1>2, <1>3, <1>4, <1>5, <1>6, <1>7, <1>8 DEF DaemonStep, Teardowns

LEMMA StepListed ==
    ASSUME IInv, NEW u \in Up, DaemonStep(u)
    PROVE  project' # 0 => pc'[project'] = "listed"
<1>1. /\ pc \in [Up -> UpStages] /\ project \in 0 .. MaxUps /\ u # 0
      /\ project # 0 => pc[project] = "listed"
  BY BoundAssumption DEF IInv, TypeOK, Held
<1>2. CASE Insert(u)
  BY <1>1, <1>2 DEF Insert
<1>3. CASE Stop(u) \/ Reap(u)
  BY <1>3 DEF Stop, Reap
<1>4. CASE \/ Ask(u) \/ Spawn(u) \/ ExitsEarly(u) \/ GivesUp(u) \/ LosesRace(u)
           \/ RootExits(u) \/ Recollect(u) \/ KillTree(u) \/ KillSurvivors(u)
           \/ Scan(u) \/ KillStrays(u)
  <2>1. pc[u] # "listed" /\ project' = project
    BY <1>4 DEF Ask, Spawn, ExitsEarly, GivesUp, LosesRace, RootExits, Recollect, KillTree,
                KillSurvivors, Scan, KillStrays
  <2>2. \A w \in Up : w # u => pc'[w] = pc[w]
    BY <1>1, <1>4 DEF Ask, Spawn, ExitsEarly, GivesUp, LosesRace, StopProcessGroup, RootExits,
                      Recollect, KillTree, KillSurvivors, Scan, KillStrays
  <2>3. project # 0 => project \in Up
    BY <1>1, BoundAssumption
  <2> QED  BY <1>1, <2>1, <2>2, <2>3
<1> QED  BY <1>2, <1>3, <1>4 DEF DaemonStep, Teardowns

LEMMA StepHeld ==
    ASSUME IInv, [Next]_vars
    PROVE  Held'
<1>1. CASE UNCHANGED daemonVars
  BY <1>1 DEF IInv, Held, HeldBy, daemonVars
<1>2. ASSUME NEW u \in Up, DaemonStep(u)
      PROVE  Held'
  BY <1>2, StepHeldBy, StepListed DEF Held, HeldBy
<1> QED  BY <1>1, <1>2, Steps

\* Whoever ran, ran; and who is taken down stays so.
LEMMA StepCleaned ==
    ASSUME IInv, [Next]_vars
    PROVE  /\ ran \subseteq ran'
           /\ \A v \in Up : pc[v] = "cleaned" => pc'[v] = "cleaned"
<1>1. CASE UNCHANGED daemonVars
  BY <1>1 DEF daemonVars
<1>2. ASSUME NEW u \in Up, DaemonStep(u)
      PROVE  /\ ran \subseteq ran'
             /\ \A v \in Up : pc[v] = "cleaned" => pc'[v] = "cleaned"
  <2>1. pc \in [Up -> UpStages] /\ u # 0 /\ (project # 0 => pc[project] = "listed")
    BY BoundAssumption DEF IInv, TypeOK, Held
  <2>2. ran \subseteq ran'
    BY <1>2 DEF DaemonStep, Teardowns, Ask, Spawn, ExitsEarly, Insert, GivesUp, LosesRace, Stop,
                Reap, RootExits, Recollect, KillTree, KillSurvivors, Scan, KillStrays
  <2>3. pc[u] # "cleaned"
    BY <1>2, <2>1
       DEF DaemonStep, Teardowns, Ask, Spawn, ExitsEarly, Insert, GivesUp, LosesRace, Stop,
           Reap, RootExits, Recollect, KillTree, KillSurvivors, Scan, KillStrays
  <2>4. \A v \in Up : v # u => pc'[v] = pc[v]
    BY <1>2, <2>1
       DEF DaemonStep, Teardowns, Ask, Spawn, ExitsEarly, Insert, GivesUp, LosesRace, Stop,
           StopProcessGroup, Reap, RootExits, Recollect, KillTree, KillSurvivors, Scan,
           KillStrays
  <2> QED  BY <2>2, <2>3, <2>4
<1> QED  BY <1>1, <1>2, Steps

LEMMA StepAwaited ==
    ASSUME IInv, [Next]_vars
    PROVE  Awaited'
<1> USE BoundAssumption
<1>1. /\ RefreshTypes /\ Awaited /\ ran \subseteq Up
      /\ \A v \in ran : HeldBy(v) /\ v # 0
  BY DEF IInv, TypeOK, RefreshTypes, Held, HeldBy
<1>2. /\ ran \subseteq ran'
      /\ \A v \in Up : pc[v] = "cleaned" => pc'[v] = "cleaned"
  BY StepCleaned
<1>3. CASE UNCHANGED refresh
  BY <1>1, <1>2, <1>3 DEF Awaited
<1>4. CASE AsksStatus
  <2>1. /\ lock = 0 /\ UNCHANGED <<ran, pc>> /\ refresh'.before = ran
        /\ refresh'.at = IF project # 0 THEN "down" ELSE "stopped"
    BY <1>1, <1>4 DEF AsksStatus, daemonVars, RefreshTypes
  <2>2. CASE project # 0
    BY <2>1, <2>2 DEF Awaited
  <2>3. CASE project = 0
    <3>1. \A v \in ran : pc[v] = "cleaned"
      BY <1>1, <2>1, <2>3 DEF HeldBy
    <3> QED  BY <2>1, <2>3, <3>1 DEF Awaited
  <2> QED  BY <2>2, <2>3
<1>5. CASE RefreshDown
  <2>1. PICK u \in Up : Stop(u) /\ refresh' = [refresh EXCEPT !.at = "waiting", !.up = u]
    BY <1>5 DEF RefreshDown
  <2>2. refresh'.at = "waiting" /\ refresh'.up = u /\ refresh'.before = refresh.before
    BY <1>1, <2>1 DEF RefreshTypes
  <2>3. lock = 0 /\ project = u
    BY <2>1 DEF Stop
  <2>4. \A v \in ran : v = u \/ pc[v] = "cleaned"
    BY <1>1, <2>3 DEF HeldBy
  <2> QED  BY <1>1, <1>2, <2>2, <2>4 DEF Awaited
<1>6. CASE refresh' = [at |-> "done", up |-> 0, before |-> {}]
  BY <1>6 DEF Awaited
<1>7. CASE DownAnswered
  <2>1. /\ refresh.at = "waiting" /\ pc[refresh.up] = "cleaned"
        /\ refresh'.at = "stopped" /\ refresh'.before = refresh.before
    BY <1>1, <1>7 DEF DownAnswered, RefreshTo, RefreshTypes
  <2> QED  BY <1>1, <1>2, <2>1 DEF Awaited
<1> QED  BY <1>3, <1>4, <1>5, <1>6, <1>7, StepRefresh DEF RefreshMoves

-----------------------------------------------------------------------------
(* The theorems *)

LEMMA Initially ==
    ASSUME Init
    PROVE  IInv
<1> USE BoundAssumption
<1>1. TypeOK
  BY DEF Init, TypeOK, UpStages, Off
<1>2. Alive = {}
  BY DEF Init, Alive
<1>3. PidsInOrder
  BY <1>2 DEF Init, PidsInOrder
<1>4. Hunted
  BY DEF Init, Hunted, HuntedAt, PastKill
<1>5. Held /\ Awaited
  BY DEF Init, Held, Awaited
<1> QED  BY <1>1, <1>3, <1>4, <1>5 DEF IInv

LEMMA Invariance == Spec => []IInv
<1>1. Init => IInv
  BY Initially
<1>2. IInv /\ [Next]_vars => IInv'
  BY StepTypes, StepPids, StepHunted, StepHeld, StepAwaited DEF IInv
<1> QED  BY <1>1, <1>2, PTL DEF Spec

(***************************************************************************)
(* Every variable keeps its type.                                          *)
(***************************************************************************)
THEOREM TypeCorrect == Spec => []TypeOK
<1>1. IInv => TypeOK
  BY DEF IInv
<1> QED  BY <1>1, Invariance, PTL

(***************************************************************************)
(* stop_process_group and sweep_project_processes: when the teardown of an *)
(* up returns, everyone on its first list of descendants is dead, and      *)
(* after the sweep so is everyone who existed when /proc was read and      *)
(* carries NEALS_RUNTIME, however the processes forked and exited in       *)
(* between.                                                                *)
(***************************************************************************)
THEOREM TreesDie == Spec => []NothingSurvives
<1>1. IInv => NothingSurvives
  BY DEF IInv, Hunted, HuntedAt, PastKill, NothingSurvives
<1> QED  BY <1>1, Invariance, PTL

(***************************************************************************)
(* `neals refresh --hard` wipes a project's state only when every up that  *)
(* had been in the map when it asked for Status has been taken down.       *)
(***************************************************************************)
THEOREM WipeIsSafe == Spec => WipesOnlyStopped
<1>1. ASSUME IInv, refresh.at = "stopped"
      PROVE  \A p \in Alive : proc[p].up \in refresh.before =>
               LET u == proc[p].up IN
               /\ pc[u] = "cleaned"
               /\ p \notin marked[u]
               /\ p > scanned[u] \/ ~proc[p].env
  <2> SUFFICES ASSUME NEW p \in Alive, NEW u, u = proc[p].up, u \in refresh.before
               PROVE  /\ pc[u] = "cleaned"
                      /\ p \notin marked[u]
                      /\ p > scanned[u] \/ ~proc[p].env
    OBVIOUS
  <2>1. u \in Up /\ pc[u] = "cleaned"
    BY <1>1 DEF IInv, Awaited, TypeOK
  <2>2. HuntedAt(u) /\ scanned[u] \in 0 .. MaxPids /\ p \in Pid
    BY <1>1, <2>1 DEF IInv, Hunted, TypeOK, Alive
  <2>3. marked[u] \intersect Alive = {} /\ (p <= scanned[u] => ~proc[p].env)
    BY <2>1, <2>2 DEF HuntedAt, PastKill
  <2> QED  BY <2>1, <2>2, <2>3, BoundAssumption
<1>2. IInv /\ [Next]_vars =>
        [(refresh.at = "stopped" /\ refresh'.at = "done") =>
           \A p \in Alive : proc[p].up \in refresh.before =>
             LET u == proc[p].up IN
             /\ pc[u] = "cleaned"
             /\ p \notin marked[u]
             /\ p > scanned[u] \/ ~proc[p].env]_vars
  BY <1>1
<1> QED  BY <1>2, Invariance, PTL DEF Spec, WipesOnlyStopped
=============================================================================
