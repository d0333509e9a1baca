------------------------------ MODULE NealsdProofs ------------------------------
(***************************************************************************)
(* Theorems about Nealsd.tla, for every pool, every set of projects and    *)
(* connections, and every subset of the failures: the lock and the map,    *)
(* the leases and the table they implement, the process trees, the routes  *)
(* and the listeners. The second half is about NealsdShutdown.tla: from    *)
(* the signal to its exit nealsd keeps all that, and what it leaves behind *)
(* (a theorem that needs a failure not to happen says so).                 *)
(***************************************************************************)
EXTENDS NealsdShutdown, TLAPS

-----------------------------------------------------------------------------
(* The inductive invariant *)

\* A request that is about a project knows which one.
Assigned ==
    \A c \in Conn : pc[c] \notin {"idle", "stopping"} => target[c] \in Project

\* The map holds only ups that were answered, under their own name.
MapHoldsUps ==
    \A p \in Project : projects[p] # NoConn =>
        pc[projects[p]] = "up" /\ target[projects[p]] = p

\* A teardown is under way exactly while somebody holds the lock across an
\* await, and it is about the one RunningProject that left the map.
LockDiscipline ==
    /\ lock = Nobody <=> stage = "none"
    /\ stage \in {"none", "next"} <=> victim = NoConn
    /\ \A c \in Conn : pc[c] = "removed" <=> victim = c
    /\ \A c \in Conn : pc[c] = "stopping" <=> lock = c
    /\ queue # {} => lock = Reaper
    /\ \A p \in queue : projects[p] # NoConn
    /\ stage = "next" => lock = Reaper

\* Only a request between its bind and its release holds addresses.
NothingHeldElsewhere ==
    \A c \in Conn :
        \/ pc[c] \in {"idle", "checked", "linked", "losing", "stopping"}
        \/ c = victim /\ stage = "apply"
        => bound[c] = Unbound

IInv ==
    /\ TypeOK
    /\ Assigned
    /\ MapHoldsUps
    /\ LockDiscipline
    /\ NothingHeldElsewhere

-----------------------------------------------------------------------------
(* What the handlers compute has the right shape *)

\* The routes and the aliases of an up under way or in the map are entries.
LEMMA EntryTypes ==
    ASSUME TypeOK, NEW c \in Conn, target[c] \in Project
    PROVE  ProxiedRoutes(c) \subseteq Entry /\ HostAliases(c) \subseteq Entry
<1>1. /\ ProxiedServices(target[c]) \subseteq Service
      /\ TcpServices[target[c]] \subseteq Service
  BY DeclAssumption DEF ProxiedServices
<1>2. \A s \in Service : bound[c][s] \in Ip \union {NoIp}
  BY DEF TypeOK
<1> QED BY <1>1, <1>2 DEF ProxiedRoutes, HostAliases, Entry

\* So are those of all the projects in the map.
LEMMA SnapshotTypes ==
    ASSUME TypeOK, MapHoldsUps
    PROVE  /\ ProxySnapshot \subseteq Entry
           /\ HostEntries(RunningConns) \subseteq Entry
           /\ RunningConns \subseteq Conn
<1>1. \A c \in RunningConns : c \in Conn /\ target[c] \in Project
  BY DEF TypeOK, MapHoldsUps, RunningConns
<1>2. \A c \in RunningConns : /\ ProxiedRoutes(c) \subseteq Entry
                             /\ HostAliases(c) \subseteq Entry
  BY <1>1, EntryTypes
<1> QED BY <1>1, <1>2 DEF ProxySnapshot, HostEntries

\* An apply, failed or not, leaves Caddy with entries.
LEMMA ApplyTypes ==
    ASSUME TypeOK, NEW snapshot \in SUBSET Entry, TryApplyRoutes(snapshot)
    PROVE  caddy' \in {"up", "down"} /\ routes' \subseteq Entry
BY DEF TypeOK, TryApplyRoutes, ApplyRoutes, ApplyFails

\* The addresses of an up are addresses.
LEMMA BoundIpsType ==
    ASSUME TypeOK, NEW c \in Conn
    PROVE  BoundIps(c) \subseteq Ip
BY DEF TypeOK, BoundIps

\* Giving an up's addresses back keeps the shapes.
LEMMA ReleaseTypes ==
    ASSUME TypeOK, NEW c \in Conn, ReleaseBound(c)
    PROVE  /\ leases' \subseteq Ip
           /\ bound' \in [Conn -> [Service -> Ip \union {NoIp}]]
           /\ \A d \in Conn : bound'[d] = IF d = c THEN Unbound ELSE bound[d]
<1>1. Unbound \in [Service -> Ip \union {NoIp}]
  BY DEF Unbound
<1> QED BY <1>1 DEF TypeOK, ReleaseBound

-----------------------------------------------------------------------------
(* The invariant is inductive *)

LEMMA InitIInv == Init => IInv
<1> SUFFICES ASSUME Init PROVE IInv
  OBVIOUS
<1>1. TypeOK
  BY DEF Init, TypeOK, PcLabels, Unbound
<1>2. Assigned /\ MapHoldsUps /\ NothingHeldElsewhere
  BY <1>1 DEF Init, TypeOK, Assigned, MapHoldsUps, NothingHeldElsewhere
<1>3. LockDiscipline
  BY NullAssumption DEF Init, LockDiscipline
<1> QED BY <1>1, <1>2, <1>3 DEF IInv

\* The first look at the map keeps the invariant.
LEMMA UpCheckStep ==
    ASSUME IInv, NEW c \in Conn, NEW p \in Project, UpCheck(c, p)
    PROVE  IInv'
<1> USE NullAssumption DEF UpCheck, IInv, Goto, IsRunning,
        requestVars, teardownVars, processVars
<1>1. TypeOK'
  BY DEF TypeOK, PcLabels
<1>2. Assigned'
  BY DEF TypeOK, Assigned, MapHoldsUps, LockDiscipline
<1>3. MapHoldsUps'
  BY DEF TypeOK, MapHoldsUps, LockDiscipline
<1>4. LockDiscipline'
  BY DEF TypeOK, LockDiscipline, MapHoldsUps
<1>5. NothingHeldElsewhere'
  BY DEF TypeOK, NothingHeldElsewhere, LockDiscipline, MapHoldsUps
<1> QED BY <1>1, <1>2, <1>3, <1>4, <1>5

\* So does reading the registry and making the symlinks, or failing to.
LEMMA UpResolveStep ==
    ASSUME IInv, NEW c \in Conn, UpResolve(c)
    PROVE  IInv'
<1> USE NullAssumption DEF UpResolve, IInv, Goto, Answer,
        requestVars, teardownVars, processVars
<1>a. linked' \subseteq Project
  BY DEF TypeOK, PcLabels, Assigned, Linked, PartlyLinked
<1>1. TypeOK'
  BY <1>a DEF TypeOK, PcLabels
<1>2. Assigned'
  <2>1. CASE Goto(c, "linked") /\ UNCHANGED target
    BY <2>1 DEF TypeOK, Assigned
  <2>2. CASE Answer(c)
    BY <2>2 DEF TypeOK, Assigned
  <2> QED BY <2>1, <2>2
<1>3. MapHoldsUps'
  BY DEF TypeOK, MapHoldsUps, LockDiscipline
<1>4. LockDiscipline'
  BY DEF TypeOK, LockDiscipline, MapHoldsUps
<1>5. NothingHeldElsewhere'
  BY DEF TypeOK, NothingHeldElsewhere, LockDiscipline, MapHoldsUps
<1> QED BY <1>1, <1>2, <1>3, <1>4, <1>5

\* Binding the services gives them addresses of the pool.
LEMMA UpBindStep ==
    ASSUME IInv, NEW c \in Conn, UpBind(c)
    PROVE  IInv'
<1> USE NullAssumption DEF UpBind, IInv, Goto,
        requestVars, teardownVars, processVars
<1>a. PICK f \in Assignments(target[c]) :
         /\ bound' = [bound EXCEPT ![c] =
                [s \in Service |-> IF s \in TcpServices[target[c]]
                                   THEN f[s] ELSE NoIp]]
         /\ leases' = leases \union {f[s] : s \in TcpServices[target[c]]}
  OBVIOUS
<1>b. \A s \in TcpServices[target[c]] : f[s] \in Ip
  BY DEF Assignments
<1> DEFINE b == [s \in Service |-> IF s \in TcpServices[target[c]]
                                     THEN f[s] ELSE NoIp]
<1>e. b \in [Service -> Ip \union {NoIp}]
  BY <1>b
<1>f. bound' = [bound EXCEPT ![c] = b]
  BY <1>a
<1> HIDE DEF b
<1>c. bound' \in [Conn -> [Service -> Ip \union {NoIp}]] /\ leases' \subseteq Ip
  BY <1>a, <1>b, <1>e, <1>f DEF TypeOK
<1>1. TypeOK'
  BY <1>c DEF TypeOK, PcLabels
<1>2. Assigned'
  BY DEF TypeOK, Assigned, MapHoldsUps, LockDiscipline
<1>3. MapHoldsUps'
  BY DEF TypeOK, MapHoldsUps, LockDiscipline
<1>4. LockDiscipline'
  BY DEF TypeOK, LockDiscipline, MapHoldsUps
<1>5. NothingHeldElsewhere'
  BY DEF TypeOK, NothingHeldElsewhere, LockDiscipline, MapHoldsUps
<1> QED BY <1>1, <1>2, <1>3, <1>4, <1>5

\* A bind that fails loses at most one address of the pool.
LEMMA UpBindFailsStep ==
    ASSUME IInv, NEW c \in Conn, UpBindFails(c)
    PROVE  IInv'
<1> USE NullAssumption DEF UpBindFails, IInv, Goto, Answer,
        requestVars, teardownVars, processVars
<1>1. TypeOK'
  BY DEF TypeOK, PcLabels
<1>2. Assigned'
  BY DEF TypeOK, Assigned, MapHoldsUps, LockDiscipline
<1>3. MapHoldsUps'
  BY DEF TypeOK, MapHoldsUps, LockDiscipline
<1>4. LockDiscipline'
  BY DEF TypeOK, LockDiscipline, MapHoldsUps
<1>5. NothingHeldElsewhere'
  BY DEF TypeOK, NothingHeldElsewhere, LockDiscipline, MapHoldsUps
<1> QED BY <1>1, <1>2, <1>3, <1>4, <1>5

\* A successful apply of the project's routes.
LEMMA UpRouteStep ==
    ASSUME IInv, NEW c \in Conn, UpRoute(c)
    PROVE  IInv'
<1> USE NullAssumption DEF UpRoute, IInv, Goto,
        requestVars, teardownVars, processVars
<1>a. caddy' \in {"up", "down"} /\ routes' \subseteq Entry
  BY SnapshotTypes, EntryTypes, ApplyTypes DEF TryApplyRoutes, Assigned
<1>1. TypeOK'
  BY <1>a DEF TypeOK, PcLabels
<1>2. Assigned'
  BY DEF TypeOK, Assigned, MapHoldsUps, LockDiscipline
<1>3. MapHoldsUps'
  BY DEF TypeOK, MapHoldsUps, LockDiscipline
<1>4. LockDiscipline'
  BY DEF TypeOK, LockDiscipline, MapHoldsUps
<1>5. NothingHeldElsewhere'
  BY DEF TypeOK, NothingHeldElsewhere, LockDiscipline, MapHoldsUps
<1> QED BY <1>1, <1>2, <1>3, <1>4, <1>5

\* A failed one, after which the addresses are released.
LEMMA UpRouteFailsStep ==
    ASSUME IInv, NEW c \in Conn, UpRouteFails(c)
    PROVE  IInv'
<1> USE NullAssumption DEF UpRouteFails, IInv, Goto, Answer,
        requestVars, teardownVars, processVars
<1>a. caddy' \in {"up", "down"} /\ routes' \subseteq Entry
  BY SnapshotTypes, EntryTypes, ApplyTypes DEF TryApplyRoutes, Assigned
<1>1. TypeOK'
  BY <1>a, ReleaseTypes DEF TypeOK, PcLabels
<1>2. Assigned'
  BY DEF TypeOK, Assigned, MapHoldsUps, LockDiscipline
<1>3. MapHoldsUps'
  BY DEF TypeOK, MapHoldsUps, LockDiscipline
<1>4. LockDiscipline'
  BY DEF TypeOK, LockDiscipline, MapHoldsUps
<1>5. NothingHeldElsewhere'
  BY ReleaseTypes DEF TypeOK, NothingHeldElsewhere, LockDiscipline, MapHoldsUps
<1> QED BY <1>1, <1>2, <1>3, <1>4, <1>5

\* A log file that cannot be opened: the addresses are lost.
LEMMA UpLogFailsStep ==
    ASSUME IInv, NEW c \in Conn, UpLogFails(c)
    PROVE  IInv'
<1> USE NullAssumption DEF UpLogFails, IInv, Goto, Answer,
        requestVars, teardownVars, processVars
<1>a. Unbound \in [Service -> Ip \union {NoIp}]
  BY DEF Unbound
<1>1. TypeOK'
  BY <1>a, BoundIpsType DEF TypeOK, PcLabels
<1>2. Assigned'
  BY DEF TypeOK, Assigned, MapHoldsUps, LockDiscipline
<1>3. MapHoldsUps'
  BY DEF TypeOK, MapHoldsUps, LockDiscipline
<1>4. LockDiscipline'
  BY DEF TypeOK, LockDiscipline, MapHoldsUps
<1>5. NothingHeldElsewhere'
  BY DEF TypeOK, NothingHeldElsewhere, LockDiscipline, MapHoldsUps
<1> QED BY <1>1, <1>2, <1>3, <1>4, <1>5

\* A runtime file that cannot be written.
LEMMA UpPrepFailsStep ==
    ASSUME IInv, NEW c \in Conn, UpPrepFails(c)
    PROVE  IInv'
<1> USE NullAssumption DEF UpPrepFails, IInv, Goto, Answer,
        requestVars, teardownVars, processVars
<1>1. TypeOK'
  BY ReleaseTypes DEF TypeOK, PcLabels
<1>2. Assigned'
  BY DEF TypeOK, Assigned, MapHoldsUps, LockDiscipline
<1>3. MapHoldsUps'
  BY DEF TypeOK, MapHoldsUps, LockDiscipline
<1>4. LockDiscipline'
  BY DEF TypeOK, LockDiscipline, MapHoldsUps
<1>5. NothingHeldElsewhere'
  BY ReleaseTypes DEF TypeOK, NothingHeldElsewhere, LockDiscipline, MapHoldsUps
<1> QED BY <1>1, <1>2, <1>3, <1>4, <1>5

\* Starting bwrap, or failing to.
LEMMA UpSpawnStep ==
    ASSUME IInv, NEW c \in Conn, UpSpawn(c)
    PROVE  IInv'
<1> USE NullAssumption DEF UpSpawn, IInv, Goto,
        requestVars, teardownVars, processVars
<1>1. TypeOK'
  BY DEF TypeOK, PcLabels
<1>2. Assigned'
  BY DEF TypeOK, Assigned, MapHoldsUps, LockDiscipline
<1>3. MapHoldsUps'
  BY DEF TypeOK, MapHoldsUps, LockDiscipline
<1>4. LockDiscipline'
  BY DEF TypeOK, LockDiscipline, MapHoldsUps
<1>5. NothingHeldElsewhere'
  BY DEF TypeOK, NothingHeldElsewhere, LockDiscipline, MapHoldsUps
<1> QED BY <1>1, <1>2, <1>3, <1>4, <1>5

\* The network namespace and slirp.
LEMMA UpNetworkStep ==
    ASSUME IInv, NEW c \in Conn, UpNetwork(c)
    PROVE  IInv'
<1> USE NullAssumption DEF UpNetwork, IInv, Goto,
        requestVars, teardownVars, processVars
<1>1. TypeOK'
  BY DEF TypeOK, PcLabels
<1>2. Assigned'
  BY DEF TypeOK, Assigned, MapHoldsUps, LockDiscipline
<1>3. MapHoldsUps'
  BY DEF TypeOK, MapHoldsUps, LockDiscipline
<1>4. LockDiscipline'
  BY DEF TypeOK, LockDiscipline, MapHoldsUps
<1>5. NothingHeldElsewhere'
  BY DEF TypeOK, NothingHeldElsewhere, LockDiscipline, MapHoldsUps
<1> QED BY <1>1, <1>2, <1>3, <1>4, <1>5

\* A child that exits early, or a network that does not come up.
LEMMA UpNetworkFailsStep ==
    ASSUME IInv, NEW c \in Conn, UpNetworkFails(c)
    PROVE  IInv'
<1> USE NullAssumption DEF UpNetworkFails, IInv, Goto,
        requestVars, teardownVars, processVars
<1>1. TypeOK'
  BY DEF TypeOK, PcLabels
<1>2. Assigned'
  BY DEF TypeOK, Assigned, MapHoldsUps, LockDiscipline
<1>3. MapHoldsUps'
  BY DEF TypeOK, MapHoldsUps, LockDiscipline
<1>4. LockDiscipline'
  BY DEF TypeOK, LockDiscipline, MapHoldsUps
<1>5. NothingHeldElsewhere'
  BY DEF TypeOK, NothingHeldElsewhere, LockDiscipline, MapHoldsUps
<1> QED BY <1>1, <1>2, <1>3, <1>4, <1>5

\* The proxy helpers.
LEMMA UpProxiesStep ==
    ASSUME IInv, NEW c \in Conn, UpProxies(c)
    PROVE  IInv'
<1> USE NullAssumption DEF UpProxies, IInv, Goto,
        requestVars, teardownVars, processVars
<1>a. BoundIps(c) \subseteq Ip
  BY BoundIpsType
<1>b. listeners' \in [Conn -> SUBSET Ip]
  BY <1>a DEF TypeOK
<1>c. alive' \subseteq Conn /\ slirp' \subseteq Conn
  BY DEF TypeOK
<1>d. pc' \in [Conn -> PcLabels]
  BY DEF TypeOK, PcLabels
<1>1. TypeOK'
  BY <1>b, <1>c, <1>d DEF TypeOK, PcLabels
<1>2. Assigned'
  BY DEF TypeOK, Assigned, MapHoldsUps, LockDiscipline
<1>3. MapHoldsUps'
  BY DEF TypeOK, MapHoldsUps, LockDiscipline
<1>4. LockDiscipline'
  BY DEF TypeOK, LockDiscipline, MapHoldsUps
<1>5. NothingHeldElsewhere'
  BY DEF TypeOK, NothingHeldElsewhere, LockDiscipline, MapHoldsUps
<1> QED BY <1>1, <1>2, <1>3, <1>4, <1>5

\* The common end of the failures after the spawn.
LEMMA UpAbortStep ==
    ASSUME IInv, NEW c \in Conn, UpAbort(c)
    PROVE  IInv'
<1> USE NullAssumption DEF UpAbort, IInv, Goto, Answer,
        requestVars, teardownVars, processVars
<1>a. caddy' \in {"up", "down"} /\ routes' \subseteq Entry
  BY SnapshotTypes, ApplyTypes
<1>1. TypeOK'
  BY <1>a, ReleaseTypes DEF TypeOK, PcLabels
<1>2. Assigned'
  BY DEF TypeOK, Assigned, MapHoldsUps, LockDiscipline
<1>3. MapHoldsUps'
  BY DEF TypeOK, MapHoldsUps, LockDiscipline
<1>4. LockDiscipline'
  BY DEF TypeOK, LockDiscipline, MapHoldsUps
<1>5. NothingHeldElsewhere'
  BY ReleaseTypes DEF TypeOK, NothingHeldElsewhere, LockDiscipline, MapHoldsUps
<1> QED BY <1>1, <1>2, <1>3, <1>4, <1>5

\* Inserting the project into the map.
LEMMA UpInsertStep ==
    ASSUME IInv, NEW c \in Conn, UpInsert(c)
    PROVE  IInv'
<1> USE NullAssumption DEF UpInsert, IInv, Goto, IsRunning,
        requestVars, teardownVars, processVars
<1>a. hosts' \subseteq Entry
  BY SnapshotTypes, EntryTypes DEF SyncHosts, HostEntries, Assigned, TypeOK
<1>1. TypeOK'
  BY <1>a DEF TypeOK, PcLabels
<1>2. Assigned'
  BY DEF TypeOK, Assigned, MapHoldsUps, LockDiscipline
<1>3. MapHoldsUps'
  BY DEF TypeOK, MapHoldsUps, LockDiscipline
<1>4. LockDiscipline'
  BY DEF TypeOK, LockDiscipline, MapHoldsUps
<1>5. NothingHeldElsewhere'
  BY DEF TypeOK, NothingHeldElsewhere, LockDiscipline, MapHoldsUps
<1> QED BY <1>1, <1>2, <1>3, <1>4, <1>5

\* Finding the name taken by another up.
LEMMA UpLosesStep ==
    ASSUME IInv, NEW c \in Conn, UpLoses(c)
    PROVE  IInv'
<1> USE NullAssumption DEF UpLoses, IInv, Goto,
        requestVars, teardownVars, processVars
<1>a. caddy' \in {"up", "down"} /\ routes' \subseteq Entry
  BY SnapshotTypes, ApplyTypes
<1>1. TypeOK'
  BY <1>a, ReleaseTypes DEF TypeOK, PcLabels
<1>2. Assigned'
  BY DEF TypeOK, Assigned, MapHoldsUps, LockDiscipline
<1>3. MapHoldsUps'
  BY DEF TypeOK, MapHoldsUps, LockDiscipline
<1>4. LockDiscipline'
  BY DEF TypeOK, LockDiscipline, MapHoldsUps
<1>5. NothingHeldElsewhere'
  BY ReleaseTypes DEF TypeOK, NothingHeldElsewhere, LockDiscipline, MapHoldsUps
<1> QED BY <1>1, <1>2, <1>3, <1>4, <1>5

\* Dropping the loser's helpers.
LEMMA UpDropHelpersStep ==
    ASSUME IInv, NEW c \in Conn, UpDropHelpers(c)
    PROVE  IInv'
<1> USE NullAssumption DEF UpDropHelpers, IInv, Goto, Answer,
        requestVars, teardownVars, processVars
<1>1. TypeOK'
  BY DEF TypeOK, PcLabels
<1>2. Assigned'
  BY DEF TypeOK, Assigned, MapHoldsUps, LockDiscipline
<1>3. MapHoldsUps'
  BY DEF TypeOK, MapHoldsUps, LockDiscipline
<1>4. LockDiscipline'
  BY DEF TypeOK, LockDiscipline, MapHoldsUps
<1>5. NothingHeldElsewhere'
  BY DEF TypeOK, NothingHeldElsewhere, LockDiscipline, MapHoldsUps
<1> QED BY <1>1, <1>2, <1>3, <1>4, <1>5

\* Taking a project out of the map to stop it.
LEMMA DownStep ==
    ASSUME IInv, NEW c \in Conn, NEW p \in Project, Down(c, p)
    PROVE  IInv'
<1> USE NullAssumption DEF Down, IInv, IsRunning,
        requestVars, teardownVars, processVars
<1>1. TypeOK'
  BY DEF TypeOK, PcLabels
<1>2. Assigned'
  BY DEF TypeOK, Assigned, MapHoldsUps, LockDiscipline
<1>3. MapHoldsUps'
  BY DEF TypeOK, MapHoldsUps, LockDiscipline
<1>4. LockDiscipline'
  BY DEF TypeOK, LockDiscipline, MapHoldsUps
<1>5. NothingHeldElsewhere'
  BY DEF TypeOK, NothingHeldElsewhere, LockDiscipline, MapHoldsUps
<1> QED BY <1>1, <1>2, <1>3, <1>4, <1>5

\* Killing its process group.
LEMMA StopProcessGroupStep ==
    ASSUME IInv, StopProcessGroup
    PROVE  IInv'
<1> USE NullAssumption DEF StopProcessGroup, IInv,
        requestVars, teardownVars, processVars
<1>1. TypeOK'
  BY DEF TypeOK, PcLabels
<1>2. Assigned'
  BY DEF TypeOK, Assigned, MapHoldsUps, LockDiscipline
<1>3. MapHoldsUps'
  BY DEF TypeOK, MapHoldsUps, LockDiscipline
<1>4. LockDiscipline'
  BY DEF TypeOK, LockDiscipline, MapHoldsUps
<1>5. NothingHeldElsewhere'
  BY DEF TypeOK, NothingHeldElsewhere, LockDiscipline, MapHoldsUps
<1> QED BY <1>1, <1>2, <1>3, <1>4, <1>5

\* Listing the dead projects.
LEMMA ReapScanStep ==
    ASSUME IInv, ReapScan
    PROVE  IInv'
<1> USE NullAssumption DEF ReapScan, IInv, IsRunning,
        requestVars, teardownVars, processVars
<1>1. TypeOK'
  BY DEF TypeOK, PcLabels
<1>2. Assigned'
  BY DEF TypeOK, Assigned, MapHoldsUps, LockDiscipline
<1>3. MapHoldsUps'
  BY DEF TypeOK, MapHoldsUps, LockDiscipline
<1>4. LockDiscipline'
  BY DEF TypeOK, LockDiscipline, MapHoldsUps
<1>5. NothingHeldElsewhere'
  BY DEF TypeOK, NothingHeldElsewhere, LockDiscipline, MapHoldsUps
<1> QED BY <1>1, <1>2, <1>3, <1>4, <1>5

\* Taking the next one out of the map.
LEMMA ReapNextStep ==
    ASSUME IInv, NEW p \in Project, ReapNext(p)
    PROVE  IInv'
<1> USE NullAssumption DEF ReapNext, IInv, Goto,
        requestVars, teardownVars, processVars
<1>1. TypeOK'
  BY DEF TypeOK, PcLabels
<1>2. Assigned'
  BY DEF TypeOK, Assigned, MapHoldsUps, LockDiscipline
<1>3. MapHoldsUps'
  BY DEF TypeOK, MapHoldsUps, LockDiscipline
<1>4. LockDiscipline'
  BY DEF TypeOK, LockDiscipline, MapHoldsUps
<1>5. NothingHeldElsewhere'
  BY DEF TypeOK, NothingHeldElsewhere, LockDiscipline, MapHoldsUps
<1> QED BY <1>1, <1>2, <1>3, <1>4, <1>5

\* Killing what carries the project's NEALS_RUNTIME.
LEMMA SweepStep ==
    ASSUME IInv, Sweep
    PROVE  IInv'
<1> USE NullAssumption DEF Sweep, IInv,
        requestVars, teardownVars, processVars
<1>1. TypeOK'
  BY DEF TypeOK, PcLabels
<1>2. Assigned'
  BY DEF TypeOK, Assigned, MapHoldsUps, LockDiscipline
<1>3. MapHoldsUps'
  BY DEF TypeOK, MapHoldsUps, LockDiscipline
<1>4. LockDiscipline'
  BY DEF TypeOK, LockDiscipline, MapHoldsUps
<1>5. NothingHeldElsewhere'
  BY DEF TypeOK, NothingHeldElsewhere, LockDiscipline, MapHoldsUps
<1> QED BY <1>1, <1>2, <1>3, <1>4, <1>5

\* Returning the addresses of the project that is torn down.
LEMMA ReleaseStep ==
    ASSUME IInv, Release
    PROVE  IInv'
<1> USE NullAssumption DEF Release, IInv,
        requestVars, teardownVars, processVars
<1>a. victim \in Conn
  BY DEF TypeOK, LockDiscipline
<1>1. TypeOK'
  BY <1>a, ReleaseTypes DEF TypeOK, PcLabels
<1>2. Assigned'
  BY DEF TypeOK, Assigned, MapHoldsUps, LockDiscipline
<1>3. MapHoldsUps'
  BY DEF TypeOK, MapHoldsUps, LockDiscipline
<1>4. LockDiscipline'
  BY DEF TypeOK, LockDiscipline, MapHoldsUps
<1>5. NothingHeldElsewhere'
  BY <1>a, ReleaseTypes DEF TypeOK, NothingHeldElsewhere, LockDiscipline, MapHoldsUps
<1> QED BY <1>1, <1>2, <1>3, <1>4, <1>5

\* The end of a teardown.
LEMMA FinishCleanupStep ==
    ASSUME IInv, FinishCleanup
    PROVE  IInv'
<1> USE NullAssumption DEF FinishCleanup, IInv, DropVictim,
        requestVars, teardownVars, processVars
<1>a. caddy' \in {"up", "down"} /\ routes' \subseteq Entry
  BY SnapshotTypes, ApplyTypes
<1>b. hosts' \subseteq Entry
  BY SnapshotTypes DEF SyncHosts, TypeOK
<1>c. victim \in Conn
  BY DEF TypeOK, LockDiscipline
<1>1. TypeOK'
  BY <1>a, <1>b, <1>c DEF TypeOK, PcLabels
<1>2. Assigned'
  BY <1>c DEF TypeOK, Assigned, MapHoldsUps, LockDiscipline
<1>3. MapHoldsUps'
  BY <1>c DEF TypeOK, MapHoldsUps, LockDiscipline
<1>4. LockDiscipline'
  BY <1>c DEF TypeOK, LockDiscipline, MapHoldsUps
<1>5. NothingHeldElsewhere'
  BY <1>c DEF TypeOK, NothingHeldElsewhere, LockDiscipline, MapHoldsUps
<1> QED BY <1>1, <1>2, <1>3, <1>4, <1>5

\* A process tree that ends.
LEMMA TreeExitsStep ==
    ASSUME IInv, NEW c \in Conn, TreeExits(c)
    PROVE  IInv'
<1> USE NullAssumption DEF TreeExits, IInv,
        requestVars, teardownVars, processVars
<1>1. TypeOK'
  BY DEF TypeOK, PcLabels
<1>2. Assigned'
  BY DEF TypeOK, Assigned, MapHoldsUps, LockDiscipline
<1>3. MapHoldsUps'
  BY DEF TypeOK, MapHoldsUps, LockDiscipline
<1>4. LockDiscipline'
  BY DEF TypeOK, LockDiscipline, MapHoldsUps
<1>5. NothingHeldElsewhere'
  BY DEF TypeOK, NothingHeldElsewhere, LockDiscipline, MapHoldsUps
<1> QED BY <1>1, <1>2, <1>3, <1>4, <1>5

\* Caddy dying.
LEMMA CaddyDiesStep ==
    ASSUME IInv, CaddyDies
    PROVE  IInv'
<1> USE NullAssumption DEF CaddyDies, IInv,
        requestVars, teardownVars, processVars
<1>1. TypeOK'
  BY DEF TypeOK, PcLabels
<1>2. Assigned'
  BY DEF TypeOK, Assigned, MapHoldsUps, LockDiscipline
<1>3. MapHoldsUps'
  BY DEF TypeOK, MapHoldsUps, LockDiscipline
<1>4. LockDiscipline'
  BY DEF TypeOK, LockDiscipline, MapHoldsUps
<1>5. NothingHeldElsewhere'
  BY DEF TypeOK, NothingHeldElsewhere, LockDiscipline, MapHoldsUps
<1> QED BY <1>1, <1>2, <1>3, <1>4, <1>5

\* A step that changes nothing keeps it.
LEMMA StutterStep == IInv /\ UNCHANGED vars => IInv'
<1> SUFFICES ASSUME IInv, UNCHANGED vars PROVE IInv'
  OBVIOUS
<1> USE DEF vars, requestVars, teardownVars, processVars, IInv
<1>1. TypeOK' /\ Assigned' /\ MapHoldsUps'
  BY DEF TypeOK, Assigned, MapHoldsUps
<1>2. LockDiscipline' /\ NothingHeldElsewhere'
  BY DEF LockDiscipline, NothingHeldElsewhere
<1> QED BY <1>1, <1>2

\* Every step of the daemon and of its world keeps the invariant.
LEMMA NextIInv == IInv /\ [Next]_vars => IInv'
<1> SUFFICES ASSUME IInv, [Next]_vars PROVE IInv'
  OBVIOUS
<1>1. ASSUME NEW c \in Conn, UpUnlocked(c) PROVE IInv'
  BY <1>1, UpResolveStep, UpLogFailsStep, UpSpawnStep, UpNetworkStep,
     UpNetworkFailsStep, UpProxiesStep, UpDropHelpersStep DEF UpUnlocked
<1>2. ASSUME NEW c \in Conn, UpLocked(c) PROVE IInv'
  BY <1>2, UpBindStep, UpBindFailsStep, UpRouteStep, UpRouteFailsStep,
     UpPrepFailsStep, UpAbortStep, UpInsertStep, UpLosesStep DEF UpLocked
<1>3. CASE Teardown
  BY <1>3, StopProcessGroupStep, ReapNextStep, SweepStep, ReleaseStep,
     FinishCleanupStep DEF Teardown
<1>4. CASE UNCHANGED vars
  BY <1>4, StutterStep
<1> QED BY <1>1, <1>2, <1>3, <1>4, UpCheckStep, DownStep, TreeExitsStep,
           ReapScanStep, CaddyDiesStep DEF Next

\* IInv holds in every reachable state.
THEOREM Invariance == Spec => []IInv
<1>1. Init => IInv
  BY InitIInv
<1>2. IInv /\ [Next]_vars => IInv'
  BY NextIInv
<1> QED BY <1>1, <1>2, PTL DEF Spec

\* Every variable of the daemon keeps its shape.
THEOREM TypeCorrect == Spec => []TypeOK
<1>1. IInv => TypeOK
  BY DEF IInv
<1> QED BY <1>1, Invariance, PTL

-----------------------------------------------------------------------------
(* The five things a step can do to the leases *)

LeasesUntouched == UNCHANGED <<leases, bound, lost>>

Released(c) == ReleaseBound(c) /\ UNCHANGED lost

Granted(c, f) ==
    /\ bound[c] = Unbound
    /\ bound' = [bound EXCEPT ![c] =
          [s \in Service |-> IF s \in TcpServices[target[c]]
                             THEN f[s] ELSE NoIp]]
    /\ leases' = leases \union {f[s] : s \in TcpServices[target[c]]}
    /\ UNCHANGED lost

LostUnheld(ip) ==
    /\ leases' = leases \union {ip}
    /\ lost' = lost \union {ip}
    /\ UNCHANGED bound

LostHeld(c) ==
    /\ lost' = lost \union BoundIps(c)
    /\ bound' = [bound EXCEPT ![c] = Unbound]
    /\ UNCHANGED leases

LeaseStep ==
    \/ LeasesUntouched
    \/ \E c \in Conn : Released(c) \/ LostHeld(c)
    \/ \E c \in Conn : /\ target[c] \in Project
                       /\ \E f \in Assignments(target[c]) : Granted(c, f)
    \/ \E ip \in Ip \ leases : LostUnheld(ip)

\* Nothing else happens to them.
LEMMA EveryStepIsALeaseStep == IInv /\ [Next]_vars => LeaseStep
<1> SUFFICES ASSUME IInv, [Next]_vars PROVE LeaseStep
  OBVIOUS
<1> USE DEF LeaseStep, LeasesUntouched, requestVars, teardownVars, processVars
<1>1. ASSUME NEW c \in Conn, UpUnlocked(c) PROVE LeaseStep
  <2>1. CASE UpLogFails(c)
    BY <2>1 DEF UpLogFails, LostHeld
  <2>2. CASE UpResolve(c) \/ UpSpawn(c) \/ UpNetwork(c) \/ UpNetworkFails(c)
             \/ UpProxies(c) \/ UpDropHelpers(c)
    BY <2>2 DEF UpResolve, UpSpawn, UpNetwork, UpNetworkFails, UpProxies,
                UpDropHelpers
  <2> QED BY <1>1, <2>1, <2>2 DEF UpUnlocked
<1>2. ASSUME NEW c \in Conn, UpLocked(c) PROVE LeaseStep
  <2>1. CASE UpBind(c)
    BY <2>1 DEF UpBind, Granted, IInv, NothingHeldElsewhere, Assigned
  <2>2. CASE UpBindFails(c)
    BY <2>2 DEF UpBindFails, LostUnheld
  <2>3. CASE UpRouteFails(c) \/ UpPrepFails(c) \/ UpAbort(c) \/ UpLoses(c)
    BY <2>3 DEF UpRouteFails, UpPrepFails, UpAbort, UpLoses, Released
  <2>4. CASE UpRoute(c) \/ UpInsert(c)
    BY <2>4 DEF UpRoute, UpInsert
  <2> QED BY <1>2, <2>1, <2>2, <2>3, <2>4 DEF UpLocked
<1>3. CASE Teardown
  <2>1. CASE Release
    BY <2>1 DEF Release, Released, IInv, LockDiscipline, TypeOK
  <2>2. CASE StopProcessGroup \/ Sweep \/ FinishCleanup
             \/ \E p \in Project : ReapNext(p)
    BY <2>2 DEF StopProcessGroup, Sweep, FinishCleanup, ReapNext,
                DropVictim
  <2> QED BY <1>3, <2>1, <2>2 DEF Teardown
<1>4. CASE \E c \in Conn : \/ \E p \in Project : UpCheck(c, p) \/ Down(c, p)
                           \/ TreeExits(c)
  BY <1>4 DEF UpCheck, Down, TreeExits
<1>5. CASE ReapScan \/ CaddyDies \/ UNCHANGED vars
  BY <1>5 DEF ReapScan, CaddyDies, vars
<1> QED BY <1>1, <1>2, <1>3, <1>4, <1>5 DEF Next

-----------------------------------------------------------------------------
(* What a step does to the addresses of each up *)

LEMMA HeldUnbound ==
    ASSUME NEW c \in Conn, bound[c] = Unbound
    PROVE  BoundIps(c) = {}
BY DEF BoundIps, Unbound

\* An up that becomes unbound holds nothing; the others keep what they hold.
LEMMA HeldAfterUnbind ==
    ASSUME TypeOK, NEW c \in Conn, bound' = [bound EXCEPT ![c] = Unbound]
    PROVE  \A d \in Conn : BoundIps(d)' = IF d = c THEN {} ELSE BoundIps(d)
BY DEF TypeOK, BoundIps, Unbound

\* An up that is granted the assignment f holds exactly the addresses of f,
\* all of them free until then.
LEMMA HeldAfterGrant ==
    ASSUME TypeOK, NEW c \in Conn, target[c] \in Project,
           NEW f \in Assignments(target[c]), Granted(c, f)
    PROVE  LET taken == {f[s] : s \in TcpServices[target[c]]}
           IN  /\ taken \subseteq Ip \ leases
               /\ \A d \in Conn :
                     BoundIps(d)' = IF d = c THEN taken ELSE BoundIps(d)
<1> DEFINE taken == {f[s] : s \in TcpServices[target[c]]}
<1>1. TcpServices[target[c]] \subseteq Service
  BY DeclAssumption
<1>2. \A s \in TcpServices[target[c]] : f[s] \in Ip \ leases
  BY DEF Assignments
<1>3. \A s \in Service : bound'[c][s] = IF s \in TcpServices[target[c]]
                                        THEN f[s] ELSE NoIp
  BY DEF TypeOK, Granted
<1>4. BoundIps(c)' = taken
  BY <1>1, <1>2, <1>3, NullAssumption DEF BoundIps
<1>5. \A d \in Conn : d # c => BoundIps(d)' = BoundIps(d)
  BY DEF TypeOK, Granted, BoundIps
<1> QED BY <1>2, <1>4, <1>5

-----------------------------------------------------------------------------
(* Exclusive use of addresses *)

\* What a step does to the leases keeps them accounted for.
LEMMA LeaseStepAccounted ==
    ASSUME TypeOK, LeasesAccounted, LeaseStep
    PROVE  LeasesAccounted'
<1> DEFINE used(ip) == ip \in leases
           gone(ip) == ip \in lost
           has(c, ip) == ip \in BoundIps(c)
<1>a. /\ \A ip \in Ip : used(ip) <=> gone(ip) \/ \E c \in Conn : has(c, ip)
      /\ \A c \in Conn : \A ip : ~(has(c, ip) /\ gone(ip))
      /\ \A c, d \in Conn : \A ip : has(c, ip) /\ has(d, ip) => c = d
  BY DEF LeasesAccounted
<1> DEFINE Goal ==
        /\ \A ip \in Ip : used(ip)' <=> gone(ip)' \/ \E c \in Conn : has(c, ip)'
        /\ \A c \in Conn : \A ip : ~(has(c, ip)' /\ gone(ip)')
        /\ \A c, d \in Conn : \A ip : has(c, ip)' /\ has(d, ip)' => c = d
<1>b. SUFFICES Goal
  BY DEF LeasesAccounted
<1>c. \A ip : used(ip) \/ gone(ip) => ip \in Ip
  BY DEF TypeOK
<1>d. \A c \in Conn : \A ip : has(c, ip) => used(ip)
  BY <1>a, BoundIpsType
<1>1. CASE LeasesUntouched
  <2>1. \A d \in Conn : \A ip : has(d, ip)' <=> has(d, ip)
    BY <1>1 DEF LeasesUntouched, BoundIps
  <2>2. \A ip : (used(ip)' <=> used(ip)) /\ (gone(ip)' <=> gone(ip))
    BY <1>1 DEF LeasesUntouched
  <2> HIDE DEF used, gone, has
  <2> QED BY <1>a, <2>1, <2>2
<1>2. ASSUME NEW c \in Conn, Released(c) PROVE Goal
  <2>1. \A d \in Conn : \A ip : has(d, ip)' <=> d # c /\ has(d, ip)
    BY <1>2, HeldAfterUnbind DEF Released, ReleaseBound
  <2>2. \A ip : /\ used(ip)' <=> used(ip) /\ ~has(c, ip)
                /\ gone(ip)' <=> gone(ip)
    BY <1>2 DEF Released, ReleaseBound
  <2> HIDE DEF used, gone, has
  <2> QED BY <1>a, <2>1, <2>2
<1>3. ASSUME NEW c \in Conn, LostHeld(c) PROVE Goal
  <2>1. \A d \in Conn : \A ip : has(d, ip)' <=> d # c /\ has(d, ip)
    BY <1>3, HeldAfterUnbind DEF LostHeld
  <2>2. \A ip : /\ used(ip)' <=> used(ip)
                /\ gone(ip)' <=> gone(ip) \/ has(c, ip)
    BY <1>3 DEF LostHeld
  <2> HIDE DEF used, gone, has
  <2> QED BY <1>a, <2>1, <2>2
<1>4. ASSUME NEW c \in Conn, target[c] \in Project,
             NEW f \in Assignments(target[c]), Granted(c, f)
      PROVE  Goal
  <2> DEFINE taken == {f[s] : s \in TcpServices[target[c]]}
  <2>1. /\ taken \subseteq Ip \ leases
        /\ \A d \in Conn : BoundIps(d)' = IF d = c THEN taken ELSE BoundIps(d)
    BY <1>4, HeldAfterGrant
  <2>2. leases' = leases \union taken /\ lost' = lost
    BY <1>4 DEF Granted
  <2>3. BoundIps(c) = {}
    BY <1>4, HeldUnbound DEF Granted
  <2> HIDE DEF taken
  <2>4. \A d \in Conn : \A ip :
          has(d, ip)' <=> IF d = c THEN ip \in taken ELSE has(d, ip)
    BY <2>1
  <2>5. \A ip : /\ used(ip)' <=> used(ip) \/ ip \in taken
                /\ gone(ip)' <=> gone(ip)
                /\ ip \in taken => ~used(ip)
                /\ ~has(c, ip)
    BY <2>1, <2>2, <2>3
  <2> HIDE DEF used, gone, has
  <2> QED BY <1>a, <1>c, <1>d, <2>4, <2>5
<1>5. ASSUME NEW ip \in Ip \ leases, LostUnheld(ip) PROVE Goal
  <2>1. \A d \in Conn : \A i : has(d, i)' <=> has(d, i)
    BY <1>5 DEF LostUnheld, BoundIps
  <2>2. \A i : /\ used(i)' <=> used(i) \/ i = ip
               /\ gone(i)' <=> gone(i) \/ i = ip
               /\ i = ip => ~used(i)
    BY <1>5 DEF LostUnheld
  <2> HIDE DEF used, gone, has
  <2> QED BY <1>a, <1>c, <1>d, <2>1, <2>2
<1> QED BY <1>1, <1>2, <1>3, <1>4, <1>5 DEF LeaseStep

\* Nor do two services of one up ever share an address.
LEMMA LeaseStepApart ==
    ASSUME TypeOK, ServicesApart, LeaseStep
    PROVE  ServicesApart'
<1>1. CASE LeasesUntouched
  BY <1>1 DEF LeasesUntouched, ServicesApart
<1>2. ASSUME NEW c \in Conn, bound' = [bound EXCEPT ![c] = Unbound]
      PROVE  ServicesApart'
  BY <1>2 DEF TypeOK, ServicesApart, Unbound
<1>3. ASSUME NEW c \in Conn, target[c] \in Project,
             NEW f \in Assignments(target[c]), Granted(c, f)
      PROVE  ServicesApart'
  <2>1. \A s \in Service : bound'[c][s] = IF s \in TcpServices[target[c]]
                                          THEN f[s] ELSE NoIp
    BY <1>3 DEF TypeOK, Granted
  <2>2. \A s, t \in TcpServices[target[c]] : f[s] = f[t] => s = t
    BY DEF Assignments
  <2>3. \A d \in Conn : d # c => bound'[d] = bound[d]
    BY <1>3 DEF TypeOK, Granted
  <2> QED BY <2>1, <2>2, <2>3 DEF ServicesApart
<1>4. ASSUME NEW ip \in Ip \ leases, LostUnheld(ip) PROVE ServicesApart'
  BY <1>4 DEF LostUnheld, ServicesApart
<1> QED BY <1>1, <1>2, <1>3, <1>4
        DEF LeaseStep, Released, ReleaseBound, LostHeld

LEMMA InitLeases == Init => LeasesAccounted /\ ServicesApart
<1> SUFFICES ASSUME Init PROVE LeasesAccounted /\ ServicesApart
  OBVIOUS
<1>1. \A c \in Conn : bound[c] = Unbound /\ BoundIps(c) = {}
  BY DEF Init, BoundIps, Unbound
<1> QED BY <1>1 DEF Init, LeasesAccounted, ServicesApart, Unbound

\* An address in use has one user: the address sets of the ups are disjoint
\* and together with the lost ones they are exactly the `used` set of
\* LoopbackLeases; inside an up each TCP service has its own.
THEOREM LeaseSafety == Spec => [](LeasesAccounted /\ ServicesApart)
<1>1. Init => LeasesAccounted /\ ServicesApart
  BY InitLeases
<1>2. IInv /\ LeasesAccounted /\ ServicesApart /\ [Next]_vars
      => LeasesAccounted' /\ ServicesApart'
  BY EveryStepIsALeaseStep, LeaseStepAccounted, LeaseStepApart DEF IInv
<1> QED BY <1>1, <1>2, Invariance, PTL DEF Spec

-----------------------------------------------------------------------------
(* The daemon implements the lease table *)

Held == [c \in Conn |-> BoundIps(c)]

LEMMA InitRefines == Init => Leases!Init
<1> SUFFICES ASSUME Init PROVE Leases!Init
  OBVIOUS
<1>1. \A c \in Conn : BoundIps(c) = {}
  BY DEF Init, BoundIps, Unbound
<1> QED BY <1>1 DEF Init, Leases!Init

\* Each of the five lease steps is a step of the table, or none.
LEMMA LeaseStepRefines ==
    ASSUME TypeOK, LeasesAccounted, LeaseStep
    PROVE  [Leases!Next]_(Leases!vars)
<1>1. CASE LeasesUntouched
  BY <1>1 DEF LeasesUntouched, BoundIps, Leases!vars
<1>2. ASSUME NEW c \in Conn, Released(c) PROVE Leases!Next
  <2>1. Held' = [Held EXCEPT ![c] = {}]
    BY <1>2, HeldAfterUnbind DEF Released, ReleaseBound, Held
  <2>2. Ip \ leases' = (Ip \ leases) \union Held[c]
    BY <1>2, BoundIpsType DEF Released, ReleaseBound, LeasesAccounted, Held
  <2>3. Leases!GiveBack(c)
    BY <1>2, <2>1, <2>2 DEF Released, Leases!GiveBack, Held
  <2> QED BY <2>3 DEF Leases!Next
<1>3. ASSUME NEW c \in Conn, LostHeld(c) PROVE Leases!Next
  <2>1. Held' = [Held EXCEPT ![c] = {}]
    BY <1>3, HeldAfterUnbind DEF LostHeld, Held
  <2>2. Leases!Abandon(c)
    BY <1>3, <2>1 DEF LostHeld, Leases!Abandon, Held
  <2> QED BY <2>2 DEF Leases!Next
<1>4. ASSUME NEW c \in Conn, target[c] \in Project,
             NEW f \in Assignments(target[c]), Granted(c, f)
      PROVE  Leases!Next
  <2> DEFINE taken == {f[s] : s \in TcpServices[target[c]]}
  <2>1. /\ taken \subseteq Ip \ leases
        /\ \A d \in Conn : BoundIps(d)' = IF d = c THEN taken ELSE BoundIps(d)
    BY <1>4, HeldAfterGrant
  <2>2. leases' = leases \union taken /\ lost' = lost
    BY <1>4 DEF Granted
  <2>3. Held[c] = {}
    BY <1>4, HeldUnbound DEF Granted, Held
  <2> HIDE DEF taken
  <2>4. Held' = [Held EXCEPT ![c] = taken]
    BY <2>1 DEF Held
  <2>5. Leases!Take(c, taken)
    BY <2>1, <2>2, <2>3, <2>4 DEF Leases!Take, Held
  <2> QED BY <2>1, <2>5 DEF Leases!Next
<1>5. ASSUME NEW ip \in Ip \ leases, LostUnheld(ip) PROVE Leases!Next
  <2>1. Held' = Held
    BY <1>5 DEF LostUnheld, BoundIps, Held
  <2>2. Leases!Lose(ip)
    BY <1>5, <2>1 DEF LostUnheld, Leases!Lose, Held
  <2> QED BY <2>2 DEF Leases!Next
<1> QED BY <1>1, <1>2, <1>3, <1>4, <1>5 DEF LeaseStep

\* nealsd implements LeaseTable.tla: free addresses are those outside
\* LoopbackLeases::used, an up holds the addresses of its BoundRoutes.
THEOREM ImplementsLeaseTable == Spec => LeaseTableSpec
<1>1. Init => Leases!Init
  BY InitRefines
<1>2. IInv /\ LeasesAccounted /\ [Next]_vars => [Leases!Next]_(Leases!vars)
  BY EveryStepIsALeaseStep, LeaseStepRefines DEF IInv
<1> QED BY <1>1, <1>2, Invariance, LeaseSafety, PTL
        DEF Spec, LeaseTableSpec, Leases!Spec

-----------------------------------------------------------------------------
(* The map and the requests *)

\* An up that was answered is in the map, under its own name.
UpsMapped == \A c \in Conn : pc[c] = "up" => projects[target[c]] = c

\* A step after which the map is what it was, and nobody has come up.
NobodyComesUp ==
    /\ UNCHANGED projects
    /\ \A c \in Conn : pc'[c] = "up" => pc[c] = "up" /\ target'[c] = target[c]

\* Every step is such a step, or one of three.
LEMMA MapSteps ==
    ASSUME IInv, [Next]_vars
    PROVE  \/ NobodyComesUp
           \/ \E c \in Conn : UpInsert(c)
           \/ \E c \in Conn, p \in Project : Down(c, p)
           \/ \E p \in Project : ReapNext(p)
<1> USE DEF requestVars, teardownVars, processVars, Goto, Answer
<1>1. pc \in [Conn -> PcLabels] /\ target \in [Conn -> Project \union {NoProject}]
  BY DEF IInv, TypeOK
<1>2. ASSUME NEW c \in Conn, UpUnlocked(c)
      PROVE  NobodyComesUp
  BY <1>1, <1>2
     DEF NobodyComesUp, UpUnlocked, UpResolve, UpLogFails, UpSpawn, UpNetwork,
         UpNetworkFails, UpProxies, UpDropHelpers
<1>3. ASSUME NEW c \in Conn, UpLocked(c)
      PROVE  NobodyComesUp \/ UpInsert(c)
  BY <1>1, <1>3
     DEF NobodyComesUp, UpLocked, UpBind, UpBindFails, UpRoute, UpRouteFails,
         UpPrepFails, UpAbort, UpLoses
<1>4. ASSUME NEW c \in Conn, NEW p \in Project, UpCheck(c, p)
      PROVE  NobodyComesUp
  BY <1>1, <1>4 DEF NobodyComesUp, UpCheck
<1>5. CASE FinishCleanup
  <2>1. /\ UNCHANGED projects
        /\ \A c \in Conn : pc'[c] = "up" => pc[c] = "up"
        /\ \A c \in Conn : c # victim => target'[c] = target[c]
    BY <1>1, <1>5 DEF FinishCleanup, DropVictim
  <2>2. \A c \in Conn : pc'[c] = "up" => c # victim
    BY <1>1, <1>5 DEF FinishCleanup, DropVictim
  <2> QED  BY <2>1, <2>2 DEF NobodyComesUp
<1>6. CASE StopProcessGroup \/ Sweep \/ Release
  BY <1>6 DEF NobodyComesUp, StopProcessGroup, Sweep, Release
<1>7. CASE ReapScan \/ CaddyDies \/ (\E c \in Conn : TreeExits(c)) \/ UNCHANGED vars
  BY <1>7 DEF NobodyComesUp, ReapScan, CaddyDies, TreeExits, vars
<1> QED  BY <1>2, <1>3, <1>4, <1>5, <1>6, <1>7 DEF Next, Teardown

LEMMA UpsMappedStep ==
    ASSUME IInv, UpsMapped, [Next]_vars
    PROVE  UpsMapped'
<1>1. /\ pc \in [Conn -> PcLabels] /\ projects \in [Project -> Conn \union {NoConn}]
      /\ \A c \in Conn : pc[c] = "up" => target[c] \in Project
  BY DEF IInv, TypeOK, Assigned
<1>2. CASE NobodyComesUp
  BY <1>2 DEF NobodyComesUp, UpsMapped
<1>3. ASSUME NEW c \in Conn, UpInsert(c)
      PROVE  UpsMapped'
  <2>1. target[c] \in Project
    BY <1>3 DEF UpInsert, IInv, Assigned
  <2>2. /\ projects' = [projects EXCEPT ![target[c]] = c]
        /\ projects[target[c]] = NoConn
        /\ pc' = [pc EXCEPT ![c] = "up"] /\ UNCHANGED target
    BY <1>3 DEF UpInsert, Goto, IsRunning
  <2>3. ASSUME NEW d \in Conn, pc'[d] = "up"
        PROVE  projects'[target[d]] = d
    <3>1. CASE d = c
      BY <1>1, <2>1, <2>2, <3>1
    <3>2. CASE d # c
      <4>1. pc[d] = "up" /\ projects[target[d]] = d
        BY <1>1, <2>2, <2>3, <3>2 DEF UpsMapped
      <4> QED  BY <1>1, <2>2, <4>1, NullAssumption
    <3> QED  BY <3>1, <3>2
  <2> QED  BY <2>2, <2>3 DEF UpsMapped
<1>4. ASSUME NEW p \in Project, ReapNext(p) \/ \E c \in Conn : Down(c, p)
      PROVE  UpsMapped'
  <2>1. /\ projects' = [projects EXCEPT ![p] = NoConn] /\ UNCHANGED target
        /\ projects[p] # NoConn
    BY <1>4 DEF Down, ReapNext, requestVars, IsRunning, IInv, LockDiscipline
  <2>2. projects[p] \in Conn /\ target[projects[p]] = p
    BY <1>1, <2>1 DEF IInv, MapHoldsUps
  <2>3. \A d \in Conn : pc'[d] = "up" => pc[d] = "up" /\ d # projects[p]
    BY <1>1, <1>4, <2>2 DEF Down, ReapNext, Goto
  <2>4. \A d \in Conn : pc[d] = "up" /\ d # projects[p] => target[d] # p
    BY DEF UpsMapped
  <2> QED  BY <1>1, <2>1, <2>3, <2>4 DEF UpsMapped
<1> QED  BY <1>2, <1>3, <1>4, MapSteps

LEMMA UpsMappedSuffices == IInv /\ UpsMapped => MapMatchesRequests
<1> SUFFICES ASSUME IInv, UpsMapped PROVE MapMatchesRequests
  OBVIOUS
<1>1. ASSUME NEW c \in Conn, NEW p \in Project
      PROVE  projects[p] = c <=> pc[c] = "up" /\ target[c] = p
  BY <1>1, NullAssumption DEF UpsMapped, IInv, MapHoldsUps
<1>2. \A c \in RunningConns : c \in Conn /\ pc[c] = "up"
  BY DEF RunningConns, IInv, TypeOK, MapHoldsUps
<1>3. \A c \in Conn : victim = c => pc[c] = "removed"
  BY DEF IInv, LockDiscipline
<1> QED BY <1>1, <1>2, <1>3 DEF MapMatchesRequests

(***************************************************************************)
(* handler.rs, state.rs: the RunningProjects in AppState.projects are      *)
(* exactly those of the ups that were answered Ok and not yet taken down,  *)
(* each under the name its up was asked for, and the one that is torn down *)
(* is not among them.                                                      *)
(***************************************************************************)
THEOREM MapSafety == Spec => []MapMatchesRequests
<1>1. Init => UpsMapped
  BY DEF Init, UpsMapped
<1>2. IInv /\ UpsMapped /\ [Next]_vars => UpsMapped'
  BY UpsMappedStep
<1> QED  BY <1>1, <1>2, UpsMappedSuffices, Invariance, PTL DEF Spec

-----------------------------------------------------------------------------
(* The processes and their owners *)

LEMMA UnlockedKeepsOwners ==
    ASSUME IInv, NoOrphans, NEW c \in Conn, UpUnlocked(c)
    PROVE  NoOrphans'
<1>1. /\ pc \in [Conn -> PcLabels] /\ alive \subseteq Conn /\ slirp \subseteq Conn
      /\ pc[c] # "removed" => c # victim
  BY DEF IInv, TypeOK, LockDiscipline
<1>2. /\ UNCHANGED <<stage, victim>>
      /\ \A d \in Conn : d # c => pc'[d] = pc[d]
      /\ alive' \subseteq alive \union {c} /\ slirp' \subseteq slirp \union {c}
  BY <1>1 DEF UpUnlocked, UpResolve, UpLogFails, UpSpawn, UpNetwork, UpNetworkFails,
              UpProxies, UpDropHelpers, Goto, Answer, requestVars, teardownVars, processVars
<1>3. /\ c \in alive' => pc'[c] \in {"spawned", "networked", "proxied", "up"}
      /\ c \in slirp' => pc'[c] \in {"networked", "proxied", "up"}
  <2>1. CASE UpResolve(c) \/ UpLogFails(c) \/ UpDropHelpers(c)
    BY <1>1, <2>1
       DEF UpResolve, UpLogFails, UpDropHelpers, processVars, NoOrphans
  <2>2. CASE UpSpawn(c)
    BY <1>1, <2>2 DEF UpSpawn, NoOrphans, Goto
  <2>3. CASE UpNetwork(c)
    BY <1>1, <2>3 DEF UpNetwork, NoOrphans, Goto
  <2>4. CASE UpNetworkFails(c)
    BY <1>1, <2>4 DEF UpNetworkFails, NoOrphans
  <2>5. CASE UpProxies(c)
    BY <1>1, <2>5 DEF UpProxies, NoOrphans, Goto
  <2> QED  BY <2>1, <2>2, <2>3, <2>4, <2>5 DEF UpUnlocked
<1> QED  BY <1>1, <1>2, <1>3 DEF NoOrphans

LEMMA LockedKeepsOwners ==
    ASSUME IInv, NoOrphans, NEW c \in Conn, UpLocked(c)
    PROVE  NoOrphans'
<1>1. /\ pc \in [Conn -> PcLabels]
      /\ pc[c] # "removed" => c # victim
  BY DEF IInv, TypeOK, LockDiscipline
<1>2. /\ UNCHANGED <<stage, victim>>
      /\ \A d \in Conn : d # c => pc'[d] = pc[d]
      /\ alive' \subseteq alive /\ slirp' \subseteq slirp
  BY <1>1 DEF UpLocked, UpBind, UpBindFails, UpRoute, UpRouteFails, UpPrepFails, UpAbort,
              UpInsert, UpLoses, Goto, Answer, requestVars, teardownVars, processVars
<1>3. CASE UpInsert(c)
  BY <1>1, <1>2, <1>3 DEF UpInsert, NoOrphans, Goto
<1>4. CASE UpLoses(c)
  BY <1>1, <1>2, <1>4 DEF UpLoses, NoOrphans
<1>5. CASE UpBind(c) \/ UpBindFails(c) \/ UpRoute(c) \/ UpRouteFails(c) \/ UpPrepFails(c)
           \/ UpAbort(c)
  <2>1. pc[c] \in {"linked", "bound", "routed", "aborting"}
    BY <1>5 DEF UpBind, UpBindFails, UpRoute, UpRouteFails, UpPrepFails, UpAbort
  <2> QED  BY <1>1, <1>2, <2>1 DEF NoOrphans
<1> QED  BY <1>3, <1>4, <1>5 DEF UpLocked

LEMMA TeardownKeepsOwners ==
    ASSUME IInv, NoOrphans, Teardown
    PROVE  NoOrphans'
<1> USE DEF requestVars, processVars
<1>1. /\ pc \in [Conn -> PcLabels]
      /\ projects \in [Project -> Conn \union {NoConn}]
  BY DEF IInv, TypeOK
<1>2. CASE StopProcessGroup
  BY <1>2 DEF StopProcessGroup, NoOrphans
<1>3. CASE Sweep
  BY <1>3 DEF Sweep, NoOrphans
<1>4. CASE Release
  BY <1>4 DEF Release, NoOrphans
<1>5. CASE FinishCleanup
  <2>1. stage = "apply" /\ UNCHANGED <<alive, slirp>>
    BY <1>5 DEF FinishCleanup
  <2>2. \A c \in Conn : c \in {victim, lock} => pc[c] \in {"removed", "stopping"}
    BY DEF IInv, LockDiscipline
  <2>3. \A c \in Conn : c \notin {victim, lock} => pc'[c] = pc[c]
    BY <1>1, <1>5 DEF FinishCleanup, DropVictim
  <2> QED  BY <2>1, <2>2, <2>3 DEF NoOrphans
<1>6. ASSUME NEW p \in Project, ReapNext(p)
      PROVE  NoOrphans'
  <2>1. /\ stage = "next" /\ victim = NoConn
        /\ victim' = projects[p] /\ stage' = "sweep" /\ UNCHANGED <<alive, slirp>>
        /\ \A c \in Conn : c # projects[p] => pc'[c] = pc[c]
    BY <1>1, <1>6 DEF ReapNext, Goto, IInv, LockDiscipline
  <2> QED  BY <2>1, NullAssumption DEF NoOrphans
<1> QED  BY <1>2, <1>3, <1>4, <1>5, <1>6 DEF Teardown

LEMMA StepKeepsOwners ==
    ASSUME IInv, NoOrphans, [Next]_vars
    PROVE  NoOrphans'
<1> USE DEF requestVars, teardownVars, processVars
<1>1. pc \in [Conn -> PcLabels] /\ projects \in [Project -> Conn \union {NoConn}]
  BY DEF IInv, TypeOK
<1>2. ASSUME NEW c \in Conn, NEW p \in Project, UpCheck(c, p)
      PROVE  NoOrphans'
  BY <1>1, <1>2 DEF UpCheck, Goto, NoOrphans
<1>3. ASSUME NEW c \in Conn, NEW p \in Project, Down(c, p)
      PROVE  NoOrphans'
  <2>1. /\ pc[c] = "idle" /\ victim = NoConn
        /\ victim' = projects[p] /\ stage' = "kill" /\ UNCHANGED <<alive, slirp>>
        /\ \A d \in Conn : d \notin {c, projects[p]} => pc'[d] = pc[d]
    BY <1>1, <1>3 DEF Down, IInv, LockDiscipline
  <2> QED  BY <2>1, NullAssumption DEF NoOrphans
<1>4. ASSUME NEW c \in Conn, TreeExits(c)
      PROVE  NoOrphans'
  BY <1>4 DEF TreeExits, NoOrphans
<1>5. CASE ReapScan
  <2>1. victim = NoConn /\ UNCHANGED <<pc, victim, alive, slirp>>
    BY <1>5 DEF ReapScan, IInv, LockDiscipline
  <2> QED  BY <2>1, NullAssumption DEF NoOrphans
<1>6. CASE CaddyDies \/ UNCHANGED vars
  BY <1>6 DEF CaddyDies, vars, NoOrphans
<1> QED
  BY <1>2, <1>3, <1>4, <1>5, <1>6, UnlockedKeepsOwners, LockedKeepsOwners,
     TeardownKeepsOwners DEF Next

(***************************************************************************)
(* handler.rs: whichever step of an up fails, and however it is taken      *)
(* down, its process tree and its slirp4netns end before the request or    *)
(* the RunningProject does.                                                *)
(***************************************************************************)
THEOREM NothingOrphaned == Spec => []NoOrphans
<1>1. Init => NoOrphans
  BY DEF Init, NoOrphans
<1>2. IInv /\ NoOrphans /\ [Next]_vars => NoOrphans'
  BY StepKeepsOwners
<1> QED  BY <1>1, <1>2, Invariance, PTL DEF Spec

-----------------------------------------------------------------------------
(* The routes *)

\* Every up's own routes, whether Caddy has them or not.
OwnRoutes ==
    UNION {ProxiedRoutes(c) : c \in {d \in Conn : target[d] \in Project}}

\* What a step may make of the routes, and who gets to have some.
RouteStep ==
    /\ routes' \subseteq routes \union OwnRoutes
    /\ \A c \in Conn : pc'[c] \in AppliedLabels =>
          /\ target'[c] = target[c]
          /\ bound'[c] \in {bound[c], Unbound}
          /\ pc[c] \in AppliedLabels \/ routes' \subseteq OwnRoutes

LEMMA SnapshotIsOwn ==
    ASSUME IInv
    PROVE  ProxySnapshot \subseteq OwnRoutes
<1>1. \A c \in RunningConns : c \in Conn /\ target[c] \in Project
  BY DEF IInv, TypeOK, MapHoldsUps, RunningConns
<1> QED  BY <1>1 DEF ProxySnapshot, OwnRoutes

LEMMA EveryStepIsARouteStep ==
    ASSUME IInv, [Next]_vars
    PROVE  RouteStep
<1> USE DEF requestVars, teardownVars, processVars
<1>1. /\ pc \in [Conn -> PcLabels] /\ target \in [Conn -> Project \union {NoProject}]
      /\ bound \in [Conn -> [Service -> Ip \union {NoIp}]]
      /\ ProxySnapshot \subseteq OwnRoutes
      /\ \A c \in Conn : pc[c] = "bound" => ProxiedRoutes(c) \subseteq OwnRoutes
  BY SnapshotIsOwn DEF IInv, TypeOK, Assigned, OwnRoutes
<1>2. ASSUME NEW c \in Conn, UpUnlocked(c)
      PROVE  RouteStep
  <2>1. /\ UNCHANGED routes
        /\ \A d \in Conn : d # c => UNCHANGED <<pc[d], target[d], bound[d]>>
    BY <1>1, <1>2 DEF UpUnlocked, UpResolve, UpLogFails, UpSpawn, UpNetwork, UpNetworkFails,
                      UpProxies, UpDropHelpers, Goto, Answer
  <2>2. pc'[c] \in AppliedLabels =>
          pc[c] \in AppliedLabels /\ UNCHANGED <<target[c], bound[c]>>
    BY <1>1, <1>2 DEF UpUnlocked, UpResolve, UpLogFails, UpSpawn, UpNetwork, UpNetworkFails,
                      UpProxies, UpDropHelpers, Goto, Answer, AppliedLabels
  <2> QED  BY <2>1, <2>2 DEF RouteStep
<1>3. ASSUME NEW c \in Conn, UpLocked(c)
      PROVE  RouteStep
  <2>1. \A d \in Conn : d # c => UNCHANGED <<pc[d], target[d], bound[d]>>
    BY <1>1, <1>3 DEF UpLocked, UpBind, UpBindFails, UpRoute, UpRouteFails, UpPrepFails,
                      UpAbort, UpInsert, UpLoses, Goto, Answer, ReleaseBound
  <2>2. CASE UpBind(c) \/ UpBindFails(c) \/ UpPrepFails(c) \/ UpInsert(c)
    <3>1. UNCHANGED routes
      BY <2>2 DEF UpBind, UpBindFails, UpPrepFails, UpInsert
    <3>2. pc'[c] \in AppliedLabels =>
            pc[c] \in AppliedLabels /\ UNCHANGED <<target[c], bound[c]>>
      BY <1>1, <2>2 DEF UpBind, UpBindFails, UpPrepFails, UpInsert, Goto, Answer, AppliedLabels
    <3> QED  BY <2>1, <3>1, <3>2 DEF RouteStep
  <2>3. CASE UpRoute(c)
    <3>1. routes' \subseteq OwnRoutes /\ UNCHANGED <<target, bound>>
      BY <1>1, <2>3 DEF UpRoute, ApplyRoutes
    <3> QED  BY <3>1 DEF RouteStep
  <2>4. CASE UpRouteFails(c)
    <3>1. routes' \subseteq routes \union OwnRoutes
      BY <1>1, <2>4 DEF UpRouteFails, ApplyFails
    <3>2. pc'[c] \notin AppliedLabels
      BY <1>1, <2>4 DEF UpRouteFails, Answer, Goto, AppliedLabels
    <3> QED  BY <2>1, <3>1, <3>2 DEF RouteStep
  <2>5. CASE UpAbort(c) \/ UpLoses(c)
    <3>1. routes' \subseteq routes \union OwnRoutes
      BY <1>1, <2>5 DEF UpAbort, UpLoses, TryApplyRoutes, ApplyRoutes, ApplyFails
    <3>2. pc'[c] \notin AppliedLabels
      BY <1>1, <2>5 DEF UpAbort, UpLoses, Answer, Goto, AppliedLabels
    <3> QED  BY <2>1, <3>1, <3>2 DEF RouteStep
  <2> QED  BY <1>3, <2>2, <2>3, <2>4, <2>5 DEF UpLocked
<1>4. ASSUME NEW c \in Conn, NEW p \in Project, UpCheck(c, p)
      PROVE  RouteStep
  BY <1>1, <1>4 DEF UpCheck, Goto, RouteStep, AppliedLabels
<1>5. ASSUME NEW p \in Project, ReapNext(p) \/ \E c \in Conn : Down(c, p)
      PROVE  RouteStep
  <2>1. projects[p] \in Conn /\ pc[projects[p]] = "up"
    BY <1>5 DEF Down, ReapNext, IsRunning, IInv, TypeOK, MapHoldsUps, LockDiscipline
  <2>2. UNCHANGED <<target, bound, routes>>
    BY <1>5 DEF Down, ReapNext
  <2>3. \A d \in Conn : pc'[d] \in AppliedLabels => pc[d] \in AppliedLabels
    BY <1>1, <1>5, <2>1 DEF Down, ReapNext, Goto, AppliedLabels
  <2> QED  BY <2>2, <2>3 DEF RouteStep
<1>6. CASE FinishCleanup
  <2>1. routes' \subseteq routes \union OwnRoutes /\ UNCHANGED bound
    BY <1>1, <1>6 DEF FinishCleanup, TryApplyRoutes, ApplyRoutes, ApplyFails
  <2>2. \A c \in Conn : pc'[c] \in AppliedLabels =>
          pc[c] \in AppliedLabels /\ target'[c] = target[c]
    BY <1>1, <1>6 DEF FinishCleanup, DropVictim, AppliedLabels
  <2> QED  BY <2>1, <2>2 DEF RouteStep
<1>7. CASE Release
  BY <1>1, <1>7 DEF Release, ReleaseBound, RouteStep
<1>8. CASE StopProcessGroup \/ Sweep \/ ReapScan \/ CaddyDies \/ (\E c \in Conn : TreeExits(c))
           \/ UNCHANGED vars
  BY <1>8 DEF StopProcessGroup, Sweep, ReapScan, CaddyDies, TreeExits, vars, RouteStep
<1> QED
  BY <1>2, <1>3, <1>4, <1>5, <1>6, <1>7, <1>8 DEF Next, Teardown

\* An up's own route leads to an address that no other up and no other service has.
LEMMA OwnRouteReaches ==
    ASSUME TypeOK, LeasesAccounted, ServicesApart, NEW r \in OwnRoutes,
           NEW c \in Conn, NEW s \in Service, bound[c][s] = r[3], r[3] # NoIp
    PROVE  r[1] = target[c] /\ r[2] = s
<1>1. PICK d \in Conn : target[d] \in Project /\ r \in ProxiedRoutes(d)
  BY DEF OwnRoutes
<1>2. PICK t \in ProxiedServices(target[d]) : r = <<target[d], t, bound[d][t]>>
  BY <1>1 DEF ProxiedRoutes
<1>3. t \in Service
  BY <1>1, DeclAssumption DEF ProxiedServices
<1>4. bound[c][s] \in BoundIps(c) /\ bound[d][t] \in BoundIps(d)
  BY <1>2, <1>3 DEF BoundIps
<1>5. c = d
  BY <1>2, <1>4 DEF LeasesAccounted
<1>6. t = s
  BY <1>2, <1>3, <1>5 DEF ServicesApart
<1> QED  BY <1>2, <1>5, <1>6

LEMMA StepKeepsRoutes ==
    ASSUME IInv, LeasesAccounted, ServicesApart, RoutesReachOwnProject, RouteStep
    PROVE  RoutesReachOwnProject'
<1> SUFFICES ASSUME NEW r \in routes', NEW c \in Conn, NEW s \in Service,
                    pc'[c] \in AppliedLabels, bound'[c][s] = r[3], r[3] # NoIp
             PROVE  r[1] = target'[c] /\ r[2] = s
  BY DEF RoutesReachOwnProject, AppliedLabels
<1>2. target'[c] = target[c] /\ bound'[c] = bound[c]
  BY DEF RouteStep, Unbound
<1>3. CASE r \in OwnRoutes
  BY <1>2, <1>3, OwnRouteReaches DEF IInv
<1>4. CASE r \notin OwnRoutes
  <2>1. r \in routes /\ pc[c] \in AppliedLabels
    BY <1>4 DEF RouteStep
  <2> QED  BY <1>2, <2>1 DEF RoutesReachOwnProject
<1> QED  BY <1>3, <1>4

(***************************************************************************)
(* caddy.rs, handler.rs: whatever an up or an apply that failed has left   *)
(* in Caddy, no route leads to an address at which another project or      *)
(* another service is started.                                             *)
(***************************************************************************)
THEOREM RoutesSafe == Spec => []RoutesReachOwnProject
<1>1. Init => RoutesReachOwnProject
  BY DEF Init, RoutesReachOwnProject
<1>2. IInv /\ LeasesAccounted /\ ServicesApart /\ RoutesReachOwnProject /\ [Next]_vars
        => RoutesReachOwnProject'
  BY EveryStepIsARouteStep, StepKeepsRoutes
<1> QED  BY <1>1, <1>2, Invariance, LeaseSafety, PTL DEF Spec

-----------------------------------------------------------------------------
(* The listeners *)

\* Helpers listen where their up has addresses; those of a loser and of a project that
\* returned its addresses a moment ago listen where nobody does.
Listening ==
    /\ \A d \in Conn : pc[d] \notin {"proxied", "up", "removed", "losing"} => listeners[d] = {}
    /\ \A d \in Conn :
          pc[d] # "losing" /\ ~(d = victim /\ stage = "apply") => listeners[d] \subseteq BoundIps(d)
    /\ stage = "apply" => \A c \in Conn : BoundIps(c) \intersect listeners[victim] = {}

LEMMA ListeningSuffices ==
    ASSUME Listening, LeasesAccounted
    PROVE  ListenersApart
  BY DEF Listening, LeasesAccounted, ListenersApart

LEMMA UnlockedKeepsListening ==
    ASSUME IInv, Listening, NEW c \in Conn, UpUnlocked(c)
    PROVE  Listening'
<1> USE DEF requestVars, teardownVars, processVars
<1>1. /\ pc \in [Conn -> PcLabels] /\ listeners \in [Conn -> SUBSET Ip]
      /\ bound \in [Conn -> [Service -> Ip \union {NoIp}]]
      /\ pc[c] # "removed" => c # victim
      /\ stage = "apply" => victim \in Conn
  BY DEF IInv, TypeOK, LockDiscipline
<1>2. /\ UNCHANGED <<stage, victim>> /\ c # victim
      /\ \A d \in Conn : d # c => UNCHANGED <<pc[d], bound[d], listeners[d]>>
      /\ bound'[c] \in {bound[c], Unbound}
  BY <1>1 DEF UpUnlocked, UpResolve, UpLogFails, UpSpawn, UpNetwork, UpNetworkFails,
              UpProxies, UpDropHelpers, Goto, Answer
<1>3. /\ \A d \in Conn : d # c => BoundIps(d)' = BoundIps(d)
      /\ BoundIps(c)' \subseteq BoundIps(c)
  BY <1>2 DEF BoundIps, Unbound
<1>4. /\ pc'[c] \notin {"proxied", "up", "removed", "losing"} => listeners'[c] = {}
      /\ pc'[c] # "losing" => listeners'[c] \subseteq BoundIps(c)'
  <2>1. CASE UpResolve(c) \/ UpLogFails(c) \/ UpSpawn(c) \/ UpNetwork(c) \/ UpNetworkFails(c)
             \/ UpDropHelpers(c)
    <3>1. listeners'[c] = {}
      BY <1>1, <2>1 DEF UpResolve, UpLogFails, UpSpawn, UpNetwork, UpNetworkFails,
                        UpDropHelpers, Listening
    <3> QED  BY <3>1
  <2>2. CASE UpProxies(c)
    <3>1. \/ pc'[c] = "proxied" /\ listeners'[c] = BoundIps(c) /\ bound'[c] = bound[c]
          \/ listeners'[c] = {}
      BY <1>1, <2>2 DEF UpProxies, Goto, Listening
    <3> QED  BY <3>1 DEF BoundIps
  <2> QED  BY <2>1, <2>2 DEF UpUnlocked
<1> QED  BY <1>1, <1>2, <1>3, <1>4 DEF Listening

LEMMA LockedKeepsListening ==
    ASSUME IInv, Listening, NEW c \in Conn, UpLocked(c)
    PROVE  Listening'
<1> USE DEF requestVars, teardownVars, processVars
<1>1. /\ pc \in [Conn -> PcLabels] /\ listeners \in [Conn -> SUBSET Ip]
      /\ bound \in [Conn -> [Service -> Ip \union {NoIp}]]
      /\ pc[c] # "removed" => c # victim
      /\ lock = Nobody => stage = "none"
  BY DEF IInv, TypeOK, LockDiscipline
<1>2. /\ UNCHANGED <<stage, victim, listeners>> /\ c # victim /\ stage = "none"
      /\ \A d \in Conn : d # c => UNCHANGED <<pc[d], bound[d]>>
  BY <1>1 DEF UpLocked, UpBind, UpBindFails, UpRoute, UpRouteFails, UpPrepFails, UpAbort,
              UpInsert, UpLoses, Goto, Answer, ReleaseBound
<1>3. \A d \in Conn : d # c => BoundIps(d)' = BoundIps(d)
  BY <1>2 DEF BoundIps
<1>4. /\ pc'[c] \notin {"proxied", "up", "removed", "losing"} => listeners'[c] = {}
      /\ pc'[c] # "losing" => listeners'[c] \subseteq BoundIps(c)'
  <2>1. CASE UpInsert(c)
    BY <1>1, <1>2, <2>1 DEF UpInsert, Goto, Listening, BoundIps
  <2>2. CASE UpLoses(c)
    BY <1>1, <2>2 DEF UpLoses, Goto
  <2>3. CASE UpBind(c) \/ UpBindFails(c) \/ UpRoute(c) \/ UpRouteFails(c) \/ UpPrepFails(c)
             \/ UpAbort(c)
    <3>1. listeners'[c] = {}
      BY <1>2, <2>3 DEF UpBind, UpBindFails, UpRoute, UpRouteFails, UpPrepFails, UpAbort,
                        Listening
    <3> QED  BY <3>1
  <2> QED  BY <2>1, <2>2, <2>3 DEF UpLocked
<1> QED  BY <1>2, <1>3, <1>4 DEF Listening

LEMMA TeardownKeepsListening ==
    ASSUME IInv, LeasesAccounted, Listening, Teardown
    PROVE  Listening'
<1> USE DEF requestVars, teardownVars, processVars
<1>1. /\ pc \in [Conn -> PcLabels] /\ listeners \in [Conn -> SUBSET Ip]
      /\ bound \in [Conn -> [Service -> Ip \union {NoIp}]]
      /\ projects \in [Project -> Conn \union {NoConn}]
  BY DEF IInv, TypeOK
<1>2. CASE StopProcessGroup \/ Sweep
  <2>1. UNCHANGED <<pc, victim, listeners, bound>> /\ stage # "apply" /\ stage' # "apply"
    BY <1>2 DEF StopProcessGroup, Sweep
  <2> QED  BY <2>1 DEF Listening, BoundIps
<1>3. CASE Release
  <2>1. /\ victim \in Conn /\ stage = "release" /\ stage' = "apply" /\ pc[victim] = "removed"
        /\ UNCHANGED <<pc, victim, listeners>>
        /\ bound' = [bound EXCEPT ![victim] = Unbound]
    BY <1>3 DEF Release, ReleaseBound, IInv, TypeOK, LockDiscipline
  <2>2. \A d \in Conn : BoundIps(d)' = IF d = victim THEN {} ELSE BoundIps(d)
    BY <2>1, HeldAfterUnbind DEF IInv
  <2>3. listeners[victim] \subseteq BoundIps(victim)
    BY <2>1 DEF Listening
  <2>4. \A c \in Conn : BoundIps(c)' \intersect listeners[victim] = {}
    BY <2>1, <2>2, <2>3 DEF LeasesAccounted
  <2> QED  BY <2>1, <2>2, <2>4 DEF Listening
<1>4. CASE FinishCleanup
  <2>1. /\ victim \in Conn /\ stage = "apply" /\ stage' # "apply" /\ UNCHANGED bound
        /\ listeners' = [listeners EXCEPT ![victim] = {}]
        /\ \A c \in Conn : pc'[c] = IF c \in {victim, lock} THEN "idle" ELSE pc[c]
    BY <1>1, <1>4 DEF FinishCleanup, DropVictim, IInv, TypeOK, LockDiscipline
  <2>2. \A c \in Conn : c = lock => pc[c] = "stopping"
    BY DEF IInv, LockDiscipline
  <2> QED  BY <1>1, <2>1, <2>2 DEF Listening, BoundIps
<1>5. ASSUME NEW p \in Project, ReapNext(p)
      PROVE  Listening'
  <2>1. /\ stage = "next" /\ stage' = "sweep" /\ UNCHANGED <<bound, listeners>>
        /\ projects[p] \in Conn /\ pc[projects[p]] = "up"
        /\ pc' = [pc EXCEPT ![projects[p]] = "removed"]
    BY <1>1, <1>5 DEF ReapNext, Goto, IInv, LockDiscipline, MapHoldsUps
  <2> QED  BY <1>1, <2>1 DEF Listening, BoundIps
<1> QED  BY <1>2, <1>3, <1>4, <1>5 DEF Teardown

LEMMA StepKeepsListening ==
    ASSUME IInv, LeasesAccounted, Listening, [Next]_vars
    PROVE  Listening'
<1> USE DEF requestVars, teardownVars, processVars
<1>1. pc \in [Conn -> PcLabels] /\ projects \in [Project -> Conn \union {NoConn}]
  BY DEF IInv, TypeOK
<1>2. ASSUME NEW c \in Conn, NEW p \in Project, UpCheck(c, p)
      PROVE  Listening'
  BY <1>1, <1>2 DEF UpCheck, Goto, Listening, BoundIps
<1>3. ASSUME NEW c \in Conn, NEW p \in Project, Down(c, p)
      PROVE  Listening'
  <2>1. /\ pc[c] = "idle" /\ stage = "none" /\ stage' = "kill" /\ UNCHANGED <<bound, listeners>>
        /\ projects[p] \in Conn /\ pc[projects[p]] = "up"
        /\ pc' = [pc EXCEPT ![c] = "stopping", ![projects[p]] = "removed"]
    BY <1>1, <1>3 DEF Down, IsRunning, IInv, LockDiscipline, MapHoldsUps
  <2> QED  BY <1>1, <2>1 DEF Listening, BoundIps
<1>4. CASE ReapScan
  <2>1. stage = "none" /\ stage' = "next" /\ UNCHANGED <<pc, bound, listeners, victim>>
    BY <1>4 DEF ReapScan, IInv, LockDiscipline
  <2> QED  BY <2>1 DEF Listening, BoundIps
<1>5. CASE CaddyDies \/ (\E c \in Conn : TreeExits(c)) \/ UNCHANGED vars
  BY <1>5 DEF CaddyDies, TreeExits, vars, Listening, BoundIps
<1> QED
  BY <1>2, <1>3, <1>4, <1>5, UnlockedKeepsListening, LockedKeepsListening,
     TeardownKeepsListening DEF Next

(***************************************************************************)
(* netns.rs: nobody listens on an address that is bound to another up, but *)
(* the helpers of an up that lost its name and is about to drop them.      *)
(***************************************************************************)
THEOREM ListenersSafe == Spec => []ListenersApart
<1>1. Init => Listening
  BY DEF Init, Listening
<1>2. IInv /\ LeasesAccounted /\ Listening /\ [Next]_vars => Listening'
  BY StepKeepsListening
<1>3. Listening /\ LeasesAccounted => ListenersApart
  BY ListeningSuffices
<1> QED  BY <1>1, <1>2, <1>3, Invariance, LeaseSafety, PTL DEF Spec

-----------------------------------------------------------------------------
(* How far the end is, and what that says about the lock and the map *)

Ending ==
    /\ life \in Lives
    /\ life = "stopall" => lock = Reaper /\ \A p \in Project : IsRunning(p) => p \in queue
    /\ life \in {"stopping", "unlinking", "exited"} => lock # Reaper
    /\ life \in {"unlinking", "exited"} /\ ~late =>
          lock = Nobody /\ caddy = "down" /\ \A p \in Project : ~IsRunning(p)


\* A step is one that a handler of Nealsd takes, or belongs to the shutdown.
LEMMA ShutdownSteps ==
    ASSUME [ShutdownNext]_allVars
    PROVE  \/ [Next]_vars /\ UNCHANGED cut
           \/ lock = Reaper /\ DropReaper
           \/ StopAll \/ (\E p \in Project : StopNext(p)) \/ StopFinish
           \/ CaddyShutdown \/ Exits
<1>1. CASE UNCHANGED allVars
  BY <1>1 DEF allVars
<1>2. CASE Reaping
  BY <1>2 DEF Reaping, Next, Teardown
<1>3. CASE Cleaning
  BY <1>3 DEF Cleaning, Serves, Next, Teardown
<1>4. CASE ShutdownSignal
  BY <1>4 DEF ShutdownSignal
<1>5. CASE Stopping
  BY <1>5 DEF Stopping
<1>6. CASE World
  BY <1>6 DEF World, Next
<1>7. ASSUME NEW c \in Conn, Unlocked(c) \/ Locked(c)
      PROVE  Next /\ UNCHANGED cut
  BY <1>7 DEF Unlocked, Locked, Serves, Next
<1>8. ASSUME NEW c \in Conn, NEW p \in Project, UpCheck(c, p) \/ Down(c, p), Serves
      PROVE  Next /\ UNCHANGED cut
  BY <1>8 DEF Serves, Next
<1> QED BY <1>1, <1>2, <1>3, <1>4, <1>5, <1>6, <1>7, <1>8 DEF ShutdownNext

-----------------------------------------------------------------------------
(* The invariant of Nealsd holds through the shutdown *)

\* The signal that drops the reaper in the middle of a cleanup.
LEMMA DropReaperStep ==
    ASSUME IInv, DropReaper, lock = Reaper
    PROVE  IInv'
<1> USE NullAssumption DEF DropReaper, DropsGuard, IInv, Goto, Answer
<1>a. victim \in Conn
  BY DEF TypeOK, LockDiscipline
<1>b. routes' \subseteq Entry /\ caddy' \in {"up", "down"}
  BY SnapshotTypes DEF TypeOK, ApplyRoutes
<1>c. alive' \subseteq Conn
  BY DEF TypeOK
<1>d. /\ bound' \in [Conn -> [Service -> Ip \union {NoIp}]]
      /\ \A c \in Conn : bound'[c] = IF c = victim THEN Unbound ELSE bound[c]
  BY <1>a DEF TypeOK, Unbound
<1>e. /\ listeners' \in [Conn -> SUBSET Ip]
      /\ lost' \subseteq Ip
  BY <1>a, BoundIpsType DEF TypeOK
<1>f. /\ pc' = [pc EXCEPT ![victim] = "idle"]
      /\ target' = [target EXCEPT ![victim] = NoProject]
      /\ lock' = Nobody /\ stage' = "none" /\ queue' = {} /\ victim' = NoConn
      /\ slirp' = slirp \ {victim}
      /\ UNCHANGED <<projects, leases, linked, hosts>>
  OBVIOUS
<1>1. TypeOK'
  BY <1>a, <1>b, <1>c, <1>d, <1>e, <1>f DEF TypeOK, PcLabels
<1>2. Assigned'
  BY <1>f DEF TypeOK, Assigned
<1>3. MapHoldsUps'
  BY <1>a, <1>f DEF TypeOK, MapHoldsUps, LockDiscipline
<1>4. LockDiscipline'
  BY <1>a, <1>f DEF TypeOK, LockDiscipline
<1>5. NothingHeldElsewhere'
  BY <1>d, <1>f DEF TypeOK, NothingHeldElsewhere, LockDiscipline
<1> QED BY <1>1, <1>2, <1>3, <1>4, <1>5

\* stop_all takes the lock and lists the names.
LEMMA StopAllStep ==
    ASSUME IInv, StopAll
    PROVE  IInv'
<1> USE NullAssumption DEF StopAll, IInv, IsRunning, requestVars, processVars
<1>1. TypeOK'
  BY DEF TypeOK
<1>2. Assigned' /\ MapHoldsUps'
  BY DEF TypeOK, Assigned, MapHoldsUps
<1>3. LockDiscipline'
  BY DEF TypeOK, LockDiscipline
<1>4. NothingHeldElsewhere'
  BY DEF TypeOK, NothingHeldElsewhere, LockDiscipline
<1> QED BY <1>1, <1>2, <1>3, <1>4

\* It takes the next one out of the map, to kill its process group.
LEMMA StopNextStep ==
    ASSUME IInv, NEW p \in Project, StopNext(p)
    PROVE  IInv'
<1> USE NullAssumption DEF StopNext, IInv, Goto, processVars
<1>1. TypeOK'
  BY DEF TypeOK, PcLabels, LockDiscipline
<1>2. Assigned'
  BY DEF TypeOK, Assigned, MapHoldsUps, LockDiscipline
<1>3. MapHoldsUps'
  BY DEF TypeOK, MapHoldsUps, LockDiscipline
<1>4. LockDiscipline'
  BY DEF TypeOK, LockDiscipline, MapHoldsUps
<1>5. NothingHeldElsewhere'
  BY DEF TypeOK, NothingHeldElsewhere, LockDiscipline, MapHoldsUps
<1> QED BY <1>1, <1>2, <1>3, <1>4, <1>5

\* It drops the one it stopped, and keeps the lock.
LEMMA StopFinishStep ==
    ASSUME IInv, StopFinish, lock = Reaper
    PROVE  IInv'
<1> USE NullAssumption DEF StopFinish, IInv, Goto, Answer
<1>a. caddy' \in {"up", "down"} /\ routes' \subseteq Entry
  BY SnapshotTypes, ApplyTypes
<1>b. hosts' \subseteq Entry
  BY SnapshotTypes DEF SyncHosts, TypeOK
<1>c. victim \in Conn
  BY DEF TypeOK, LockDiscipline
<1>1. TypeOK'
  BY <1>a, <1>b, <1>c DEF TypeOK, PcLabels
<1>2. Assigned'
  BY <1>c DEF TypeOK, Assigned
<1>3. MapHoldsUps'
  BY <1>c DEF TypeOK, MapHoldsUps, LockDiscipline
<1>4. LockDiscipline'
  BY <1>c DEF TypeOK, LockDiscipline
<1>5. NothingHeldElsewhere'
  BY <1>c DEF TypeOK, NothingHeldElsewhere, LockDiscipline
<1> QED BY <1>1, <1>2, <1>3, <1>4, <1>5

\* Caddy is stopped, the lock is free again.
LEMMA CaddyShutdownStep ==
    ASSUME IInv, CaddyShutdown, lock = Reaper
    PROVE  IInv'
<1> USE NullAssumption DEF CaddyShutdown, IInv, requestVars, processVars
<1>1. TypeOK'
  BY DEF TypeOK
<1>2. Assigned' /\ MapHoldsUps'
  BY DEF TypeOK, Assigned, MapHoldsUps
<1>3. LockDiscipline'
  BY DEF TypeOK, LockDiscipline
<1>4. NothingHeldElsewhere'
  BY DEF TypeOK, NothingHeldElsewhere, LockDiscipline
<1> QED BY <1>1, <1>2, <1>3, <1>4

\* The process ends.
LEMMA ExitsStep ==
    ASSUME IInv, Exits
    PROVE  IInv'
<1> USE DEF Exits, IInv, requestVars, teardownVars
<1>1. TypeOK'
  BY DEF TypeOK
<1>2. Assigned' /\ MapHoldsUps'
  BY DEF Assigned, MapHoldsUps
<1>3. LockDiscipline' /\ NothingHeldElsewhere'
  BY DEF LockDiscipline, NothingHeldElsewhere
<1> QED BY <1>1, <1>2, <1>3

-----------------------------------------------------------------------------
\* Who may do what at which point of the shutdown.
LEMMA EndingStep ==
    ASSUME IInv, Ending, [ShutdownNext]_allVars
    PROVE  Ending'
<1> USE NullAssumption DEF Ending, Lives, IsRunning, requestVars, teardownVars, processVars
<1>a. lock = Nobody <=> stage = "none"
  BY DEF IInv, LockDiscipline
<1>1. ASSUME NEW c \in Conn, NEW p \in Project, UpCheck(c, p), Serves, UNCHANGED late
      PROVE  Ending'
  BY <1>1 DEF UpCheck, Serves
<1>2. ASSUME NEW c \in Conn, NEW p \in Project, Down(c, p), Serves, UNCHANGED late
      PROVE  Ending'
  BY <1>2 DEF Down, Serves
<1>3. ASSUME NEW c \in Conn, Unlocked(c)
      PROVE  Ending'
  <2>1. UNCHANGED <<lock, projects, queue, caddy, life, late>>
    BY <1>3 DEF Unlocked, Serves, UpUnlocked, UpResolve, UpLogFails, UpSpawn, UpNetwork,
                UpNetworkFails, UpProxies, UpDropHelpers
  <2> QED BY <2>1
<1>4. ASSUME NEW c \in Conn, Locked(c)
      PROVE  Ending'
  <2>1. lock = Nobody /\ UNCHANGED lock /\ life # "exited" /\ UNCHANGED life
        /\ late' = (late \/ life = "unlinking")
    BY <1>4 DEF Locked, Serves, UpLocked, UpBind, UpBindFails, UpRoute, UpRouteFails,
                UpPrepFails, UpAbort, UpInsert, UpLoses
  <2> QED BY <2>1
<1>5. CASE World
  <2>1. UNCHANGED <<lock, projects, queue, life, late>> /\ caddy' \in {caddy, "down"}
    BY <1>5 DEF World, TreeExits, CaddyDies
  <2> QED BY <2>1
<1>6. CASE Reaping
  BY <1>6 DEF Reaping
<1>7. CASE Cleaning
  <2>1. CASE StopProcessGroup \/ Sweep \/ Release
    BY <1>7, <2>1 DEF Cleaning, Serves, StopProcessGroup, Sweep, Release
  <2>2. CASE life # "stopall" /\ FinishCleanup
    <3>1. stage = "apply" /\ lock' \in {lock, Nobody}
      BY <2>2 DEF FinishCleanup, DropVictim
    <3> QED BY <1>a, <1>7, <2>2, <3>1 DEF Cleaning, Serves
  <2> QED BY <1>7, <2>1, <2>2 DEF Cleaning
<1>8. CASE ShutdownSignal
  BY <1>8 DEF ShutdownSignal, DropReaper, DropsGuard, vars
<1>9. CASE StopAll
  BY <1>9 DEF StopAll
<1>10. ASSUME NEW p \in Project, StopNext(p)
       PROVE  Ending'
  BY <1>10 DEF StopNext, IInv, TypeOK
<1>11. CASE StopFinish
  BY <1>11 DEF StopFinish
<1>12. CASE CaddyShutdown
  BY <1>12 DEF CaddyShutdown
<1>13. CASE Exits
  BY <1>13 DEF Exits
<1>14. CASE UNCHANGED allVars
  BY <1>14 DEF allVars, vars
<1> QED BY <1>1, <1>2, <1>3, <1>4, <1>5, <1>6, <1>7, <1>8, <1>9, <1>10, <1>11, <1>12,
           <1>13, <1>14 DEF ShutdownNext, Stopping

\* Both invariants, through every step.
LEMMA ShutdownStep ==
    ASSUME IInv, Ending, [ShutdownNext]_allVars
    PROVE  IInv' /\ Ending'
<1>1. StopFinish \/ CaddyShutdown => lock = Reaper
  BY DEF StopFinish, CaddyShutdown, Ending
<1> QED BY <1>1, EndingStep, ShutdownSteps, NextIInv, DropReaperStep, StopAllStep,
           StopNextStep, StopFinishStep, CaddyShutdownStep, ExitsStep

LEMMA ShutdownInits == ShutdownInit => IInv /\ Ending
BY InitIInv, NullAssumption DEF ShutdownInit, Init, Ending, Lives, IsRunning

\* The inductive invariant of Nealsd holds through the shutdown; the lock and
\* the map are where the end of the daemon needs them.
THEOREM ShutdownInvariance == ShutdownSpec => [](IInv /\ Ending)
BY ShutdownInits, ShutdownStep, PTL DEF ShutdownSpec

-----------------------------------------------------------------------------
(* The hosts fragment *)

\* Outside a teardown the fragment is that of the map, but for the projects
\* whose cleanup was cut short; in one, the victim's entries may be in it.
Published ==
    /\ HostEntries(RunningConns) \subseteq hosts
    /\ \A e \in Uncut(hosts) : \/ e \in HostEntries(RunningConns)
                               \/ victim # NoConn /\ e[1] = target[victim]

\* The three things a step can do about it.
Publishes ==
    /\ hosts' = HostEntries(RunningConns)'
    /\ cut \subseteq cut'

KeepsVictim == victim # NoConn => victim' = victim /\ UNCHANGED target[victim]

LeavesMap ==
    /\ UNCHANGED <<hosts, projects, cut>>
    /\ KeepsVictim
    /\ \A c \in RunningConns : UNCHANGED <<target[c], bound[c]>>

TakesOut ==
    /\ UNCHANGED <<hosts, target, bound, cut>>
    /\ victim = NoConn
    /\ \E p \in Project : /\ projects[p] # NoConn /\ victim' = projects[p]
                          /\ projects' = [projects EXCEPT ![p] = NoConn]

CutsShort ==
    /\ UNCHANGED <<hosts, projects>>
    /\ victim # NoConn /\ cut' = cut \union {target[victim]}
    /\ \A c \in RunningConns : UNCHANGED <<target[c], bound[c]>>

HostsStep == Publishes \/ LeavesMap \/ TakesOut \/ CutsShort

\* Those in the map are neither the victim nor a request under way.
LEMMA RunningAreUp ==
    ASSUME IInv
    PROVE  \A c \in RunningConns : c \in Conn /\ pc[c] = "up" /\ c # victim /\ c # lock
BY NullAssumption DEF IInv, TypeOK, MapHoldsUps, LockDiscipline, RunningConns

LEMMA NextHostsStep ==
    ASSUME IInv, "hosts" \notin Failures, [Next]_vars, UNCHANGED cut
    PROVE  HostsStep
<1> USE NullAssumption DEF HostsStep, requestVars, teardownVars, processVars
<1>a. /\ pc \in [Conn -> PcLabels] /\ target \in [Conn -> Project \union {NoProject}]
      /\ bound \in [Conn -> [Service -> Ip \union {NoIp}]]
      /\ projects \in [Project -> Conn \union {NoConn}]
      /\ \A c \in Conn : pc[c] = "removed" <=> victim = c
      /\ stage \in {"none", "next"} <=> victim = NoConn
      /\ lock = Nobody <=> stage = "none"
  BY DEF IInv, TypeOK, LockDiscipline
<1>b. \A c \in RunningConns : c \in Conn /\ pc[c] = "up" /\ c # victim /\ c # lock
  BY RunningAreUp
<1>c. victim # NoConn => victim \in Conn
  BY DEF IInv, TypeOK
<1>1. ASSUME NEW c \in Conn, UpUnlocked(c)
      PROVE  LeavesMap
  <2>1. /\ UNCHANGED <<hosts, projects, victim>>
        /\ pc[c] \notin {"up", "removed"}
        /\ \A d \in Conn : d # c => UNCHANGED <<target[d], bound[d]>>
    BY <1>1, <1>a DEF UpUnlocked, UpResolve, UpLogFails, UpSpawn, UpNetwork,
                UpNetworkFails, UpProxies, UpDropHelpers, Answer
  <2> QED BY <1>a, <1>b, <1>c, <2>1 DEF LeavesMap, KeepsVictim
<1>2. ASSUME NEW c \in Conn, UpInsert(c)
      PROVE  Publishes
  <2>1. target[c] \in Project /\ projects[target[c]] = NoConn
    BY <1>2 DEF UpInsert, IInv, Assigned, IsRunning
  <2>2. RunningConns' = RunningConns \union {c}
    BY <1>2, <1>a, <2>1 DEF UpInsert, RunningConns
  <2>3. hosts' = HostEntries(RunningConns \union {c}) /\ UNCHANGED <<target, bound>>
    BY <1>2 DEF UpInsert, SyncHosts
  <2> QED BY <2>2, <2>3 DEF Publishes, HostEntries, HostAliases
<1>3. ASSUME NEW c \in Conn, UpLocked(c), ~UpInsert(c)
      PROVE  LeavesMap
  <2>1. /\ UNCHANGED <<hosts, projects, victim>>
        /\ pc[c] \notin {"up", "removed"}
        /\ \A d \in Conn : d # c => UNCHANGED <<target[d], bound[d]>>
    BY <1>3, <1>a DEF UpLocked, UpBind, UpBindFails, UpRoute, UpRouteFails,
                UpPrepFails, UpAbort, UpLoses, Answer, ReleaseBound
  <2> QED BY <1>a, <1>b, <1>c, <2>1 DEF LeavesMap, KeepsVictim
<1>4. ASSUME NEW c \in Conn, NEW p \in Project, UpCheck(c, p)
      PROVE  LeavesMap
  BY <1>4, <1>a, <1>b, <1>c DEF UpCheck, LeavesMap, KeepsVictim
<1>5. ASSUME NEW c \in Conn, NEW p \in Project, Down(c, p)
      PROVE  TakesOut
  BY <1>5, <1>a DEF Down, TakesOut, IsRunning
<1>6. ASSUME NEW p \in Project, ReapNext(p)
      PROVE  TakesOut
  BY <1>6, <1>a DEF ReapNext, TakesOut, IInv, LockDiscipline
<1>7. CASE Release
  BY <1>7, <1>a, <1>b, <1>c DEF Release, ReleaseBound, LeavesMap, KeepsVictim
<1>8. CASE FinishCleanup
  <2>1. /\ hosts' = HostEntries(RunningConns) /\ UNCHANGED <<projects, bound>>
        /\ target' = [target EXCEPT ![victim] = NoProject]
    BY <1>8 DEF FinishCleanup, SyncHosts, DropVictim
  <2>2. \A c \in RunningConns : HostAliases(c)' = HostAliases(c)
    BY <1>a, <1>b, <2>1 DEF HostAliases
  <2>3. RunningConns' = RunningConns
    BY <2>1 DEF RunningConns
  <2> QED BY <2>1, <2>2, <2>3 DEF Publishes, HostEntries
<1>9. CASE StopProcessGroup \/ Sweep \/ ReapScan \/ CaddyDies
           \/ (\E c \in Conn : TreeExits(c)) \/ UNCHANGED vars
  BY <1>9, <1>a DEF StopProcessGroup, Sweep, ReapScan, CaddyDies, TreeExits, vars,
              LeavesMap, KeepsVictim
<1> QED BY <1>1, <1>2, <1>3, <1>4, <1>5, <1>6, <1>7, <1>8, <1>9 DEF Next, Teardown

LEMMA ShutdownHostsStep ==
    ASSUME IInv, "hosts" \notin Failures, [ShutdownNext]_allVars
    PROVE  HostsStep
<1> USE NullAssumption DEF HostsStep, requestVars, teardownVars, processVars
<1>a. /\ pc \in [Conn -> PcLabels] /\ target \in [Conn -> Project \union {NoProject}]
      /\ bound \in [Conn -> [Service -> Ip \union {NoIp}]]
      /\ projects \in [Project -> Conn \union {NoConn}]
      /\ stage \in {"none", "next"} <=> victim = NoConn
  BY DEF IInv, TypeOK, LockDiscipline
<1>b. \A c \in RunningConns : c \in Conn /\ pc[c] = "up" /\ c # victim /\ c # lock
  BY RunningAreUp
<1>1. CASE DropReaper
  BY <1>1, <1>a, <1>b DEF DropReaper, CutsShort, Answer
<1>2. CASE StopAll
  BY <1>2, <1>a DEF StopAll, LeavesMap, KeepsVictim
<1>3. ASSUME NEW p \in Project, StopNext(p)
      PROVE  TakesOut
  BY <1>3, <1>a DEF StopNext, TakesOut, IInv, LockDiscipline
<1>4. CASE StopFinish
  <2>1. /\ hosts' = HostEntries(RunningConns) /\ UNCHANGED <<projects, bound, cut>>
        /\ target' = [target EXCEPT ![victim] = NoProject]
    BY <1>4 DEF StopFinish, SyncHosts, Answer
  <2>2. \A c \in RunningConns : HostAliases(c)' = HostAliases(c)
    BY <1>a, <1>b, <2>1 DEF HostAliases
  <2>3. RunningConns' = RunningConns
    BY <2>1 DEF RunningConns
  <2> QED BY <2>1, <2>2, <2>3 DEF Publishes, HostEntries
<1>5. CASE CaddyShutdown \/ Exits
  BY <1>5, <1>a DEF CaddyShutdown, Exits, LeavesMap, KeepsVictim
<1> QED BY <1>1, <1>2, <1>3, <1>4, <1>5, NextHostsStep, ShutdownSteps

LEMMA PublishedStep ==
    ASSUME IInv, Published, HostsStep
    PROVE  Published'
<1>a. \A c, e : e \in HostAliases(c) => e[1] = target[c]
  BY DEF HostAliases
<1>b. \A e : e \in HostEntries(RunningConns) <=> \E c \in RunningConns : e \in HostAliases(c)
  BY DEF HostEntries
<1>c. \A e : e \in HostEntries(RunningConns)'
                <=> \E c \in RunningConns' : e \in HostAliases(c)'
  BY DEF HostEntries
<1>1. CASE Publishes
  BY <1>1 DEF Publishes, Published, Uncut
<1>2. CASE LeavesMap \/ CutsShort
  <2>1. \A c \in RunningConns : HostAliases(c)' = HostAliases(c)
    BY <1>2 DEF LeavesMap, CutsShort, HostAliases
  <2>2. RunningConns' = RunningConns /\ UNCHANGED hosts
    BY <1>2 DEF LeavesMap, CutsShort, RunningConns
  <2>3. HostEntries(RunningConns)' = HostEntries(RunningConns)
    BY <2>1, <2>2 DEF HostEntries
  <2>4. CASE LeavesMap
    BY <2>2, <2>3, <2>4 DEF LeavesMap, KeepsVictim, Published, Uncut
  <2>5. CASE CutsShort
    BY <2>2, <2>3, <2>5 DEF CutsShort, Published, Uncut
  <2> QED BY <1>2, <2>4, <2>5
<1>3. CASE TakesOut
  <2>1. PICK p \in Project : /\ projects[p] # NoConn /\ victim' = projects[p]
                             /\ projects' = [projects EXCEPT ![p] = NoConn]
    BY <1>3 DEF TakesOut
  <2>2. /\ UNCHANGED <<hosts, target, bound, cut>> /\ victim = NoConn
        /\ projects \in [Project -> Conn \union {NoConn}]
    BY <1>3 DEF TakesOut, IInv, TypeOK
  <2>3. \A c : HostAliases(c)' = HostAliases(c)
    BY <2>2 DEF HostAliases
  <2>a. /\ RunningConns' \subseteq RunningConns
        /\ RunningConns \subseteq RunningConns' \union {projects[p]}
    BY <2>1, <2>2 DEF RunningConns
  <2>4. ASSUME NEW e PROVE e \in HostEntries(RunningConns)' => e \in HostEntries(RunningConns)
    BY <1>b, <1>c, <2>3, <2>a
  <2>5. ASSUME NEW e, e \in HostEntries(RunningConns), e \notin HostEntries(RunningConns)'
        PROVE  e[1] = target[projects[p]]
    BY <1>a, <1>b, <1>c, <2>3, <2>5, <2>a
  <2> QED BY <2>1, <2>2, <2>4, <2>5 DEF Published, Uncut
<1> QED BY <1>1, <1>2, <1>3 DEF HostsStep

LEMMA InitPublished == ShutdownInit => Published
BY DEF ShutdownInit, Init, Published, HostEntries, RunningConns, Uncut

\* daemon/hosts.rs, main.rs: as long as the fragment can be written, it lists
\* the projects in the map whenever the lock is free, before, during and after
\* the shutdown, and no other but those whose cleanup the signal interrupted.
THEOREM HostsOutliveShutdown ==
    ASSUME "hosts" \notin Failures
    PROVE  ShutdownSpec => []HostsOutlive
<1>1. ShutdownInit => Published
  BY InitPublished
<1>2. IInv /\ Published /\ [ShutdownNext]_allVars => Published'
  BY ShutdownHostsStep, PublishedStep
<1>3. IInv /\ Published => HostsOutlive
  BY DEF IInv, LockDiscipline, Published, HostsOutlive
<1> QED BY <1>1, <1>2, <1>3, ShutdownInvariance, PTL DEF ShutdownSpec

-----------------------------------------------------------------------------
(* Caddy's routes *)

\* A route is that of an up under way or in the map, or of the victim.
Witnessed ==
    \A r \in Uncut(routes) :
        \/ \E c \in Conn : pc[c] \in AppliedLabels /\ r \in ProxiedRoutes(c)
        \/ victim # NoConn /\ r[1] = target[victim]

\* The three things a step can do to the routes and to those they are of.
Reloads ==
    /\ \A r \in routes' : \E c \in Conn : pc'[c] \in AppliedLabels /\ r \in ProxiedRoutes(c)'
    /\ UNCHANGED cut

KeepsRoutes ==
    /\ UNCHANGED <<routes, cut>>
    /\ KeepsVictim
    /\ \A c \in Conn : pc[c] \in AppliedLabels =>
          /\ pc'[c] \in AppliedLabels
          /\ UNCHANGED target[c]
          /\ c # victim => UNCHANGED bound[c]

CutsRoutes ==
    /\ routes' \subseteq routes \union ProxySnapshot
    /\ victim # NoConn /\ cut' = cut \union {target[victim]}
    /\ \A c \in Conn : c # victim => UNCHANGED <<pc[c], target[c], bound[c]>>

WitnessStep == Reloads \/ KeepsRoutes \/ CutsRoutes

\* The failures of an `up` after which Caddy is not told, or told in vain.
Untold == {"apply", "log", "prep"}

\* A step after which Caddy has the routes of the map, and of one up more.
LEMMA SnapshotReloads ==
    ASSUME IInv, UNCHANGED cut,
           \A r \in routes' : \/ r \in ProxySnapshot
                              \/ \E c \in Conn : /\ pc'[c] \in AppliedLabels
                                                 /\ r \in ProxiedRoutes(c)',
           \A c \in RunningConns : /\ pc'[c] \in AppliedLabels
                                   /\ UNCHANGED <<target[c], bound[c]>>
    PROVE  Reloads
<1>1. \A c \in RunningConns : c \in Conn /\ ProxiedRoutes(c)' = ProxiedRoutes(c)
  BY RunningAreUp DEF ProxiedRoutes
<1> QED BY <1>1 DEF Reloads, ProxySnapshot

LEMMA NextWitnessStep ==
    ASSUME IInv, Failures \intersect Untold = {}, [Next]_vars, UNCHANGED cut
    PROVE  WitnessStep
<1> USE NullAssumption DEF WitnessStep, requestVars, teardownVars, processVars
<1>a. /\ pc \in [Conn -> PcLabels] /\ target \in [Conn -> Project \union {NoProject}]
      /\ bound \in [Conn -> [Service -> Ip \union {NoIp}]]
      /\ projects \in [Project -> Conn \union {NoConn}]
      /\ \A c \in Conn : pc[c] = "removed" <=> victim = c
      /\ \A c \in Conn : pc[c] = "stopping" <=> lock = c
      /\ stage \in {"none", "next"} <=> victim = NoConn
      /\ lock = Nobody <=> stage = "none"
      /\ victim # NoConn => victim \in Conn
  BY DEF IInv, TypeOK, LockDiscipline
<1>b. \A c \in RunningConns : c \in Conn /\ pc[c] = "up" /\ c # victim /\ c # lock
  BY RunningAreUp
<1>c. "apply" \notin Failures /\ "log" \notin Failures /\ "prep" \notin Failures
  BY DEF Untold
<1>1. ASSUME NEW c \in Conn, UpUnlocked(c)
      PROVE  KeepsRoutes
  <2>1. /\ UNCHANGED <<routes, victim>>
        /\ pc[c] # "removed"
        /\ \A d \in Conn : d # c => UNCHANGED <<pc[d], target[d], bound[d]>>
    BY <1>1, <1>a, <1>c DEF UpUnlocked, UpResolve, UpLogFails, UpSpawn, UpNetwork,
                UpNetworkFails, UpProxies, UpDropHelpers, Answer, Goto
  <2>2. pc[c] \in AppliedLabels =>
          pc'[c] \in AppliedLabels /\ UNCHANGED <<target[c], bound[c]>>
    BY <1>1, <1>a, <1>c DEF UpUnlocked, UpResolve, UpLogFails, UpSpawn, UpNetwork,
                UpNetworkFails, UpProxies, UpDropHelpers, Answer, Goto, AppliedLabels
  <2> QED BY <1>a, <2>1, <2>2 DEF KeepsRoutes, KeepsVictim
<1>2. ASSUME NEW c \in Conn, UpBind(c) \/ UpBindFails(c) \/ UpInsert(c)
      PROVE  KeepsRoutes
  <2>1. /\ UNCHANGED <<routes, victim>>
        /\ pc[c] # "removed"
        /\ \A d \in Conn : d # c => UNCHANGED <<pc[d], target[d], bound[d]>>
    BY <1>2, <1>a DEF UpBind, UpBindFails, UpInsert, Answer, Goto
  <2>2. pc[c] \in AppliedLabels =>
          pc'[c] \in AppliedLabels /\ UNCHANGED <<target[c], bound[c]>>
    BY <1>2, <1>a DEF UpBind, UpBindFails, UpInsert, Answer, Goto, AppliedLabels
  <2> QED BY <1>a, <2>1, <2>2 DEF KeepsRoutes, KeepsVictim
<1>3. ASSUME NEW c \in Conn, UpRoute(c)
      PROVE  Reloads
  <2>1. /\ routes' = ProxySnapshot \union ProxiedRoutes(c)
        /\ pc' = [pc EXCEPT ![c] = "routed"] /\ UNCHANGED <<target, bound>>
        /\ pc[c] = "bound"
    BY <1>3 DEF UpRoute, ApplyRoutes, Goto
  <2>2. ProxiedRoutes(c)' = ProxiedRoutes(c) /\ pc'[c] \in AppliedLabels
    BY <1>a, <2>1 DEF ProxiedRoutes, AppliedLabels
  <2>3. \A d \in RunningConns : pc'[d] \in AppliedLabels
    BY <1>a, <1>b, <2>1 DEF AppliedLabels
  <2> QED BY <2>1, <2>2, <2>3, SnapshotReloads
<1>4. ASSUME NEW c \in Conn, UpAbort(c) \/ UpLoses(c)
      PROVE  Reloads
  <2>1. /\ routes' = ProxySnapshot /\ pc[c] \in {"aborting", "proxied"}
        /\ \A d \in Conn : d # c => UNCHANGED <<pc[d], target[d], bound[d]>>
    BY <1>4, <1>a, <1>c DEF UpAbort, UpLoses, TryApplyRoutes, ApplyRoutes, ApplyFails,
                Answer, Goto, ReleaseBound
  <2>2. \A d \in RunningConns :
          pc'[d] \in AppliedLabels /\ UNCHANGED <<target[d], bound[d]>>
    BY <1>b, <2>1 DEF AppliedLabels
  <2> QED BY <2>1, <2>2, SnapshotReloads
<1>5. ASSUME NEW c \in Conn, UpRouteFails(c) \/ UpPrepFails(c)
      PROVE  FALSE
  BY <1>5, <1>c DEF UpRouteFails, UpPrepFails, ApplyFails
<1>6. ASSUME NEW c \in Conn, NEW p \in Project, UpCheck(c, p)
      PROVE  KeepsRoutes
  BY <1>6, <1>a DEF UpCheck, Goto, KeepsRoutes, KeepsVictim, AppliedLabels
<1>7. ASSUME NEW c \in Conn, NEW p \in Project, Down(c, p)
      PROVE  KeepsRoutes
  <2>1. projects[p] \in Conn
    BY <1>7, <1>a DEF Down, IsRunning
  <2> QED BY <1>7, <1>a, <2>1 DEF Down, KeepsRoutes, KeepsVictim, AppliedLabels
<1>8. ASSUME NEW p \in Project, ReapNext(p)
      PROVE  KeepsRoutes
  <2>1. projects[p] \in Conn
    BY <1>8, <1>a DEF ReapNext, IInv, LockDiscipline
  <2> QED BY <1>8, <1>a, <2>1 DEF ReapNext, Goto, KeepsRoutes, KeepsVictim, AppliedLabels
<1>9. CASE Release
  BY <1>9, <1>a DEF Release, ReleaseBound, KeepsRoutes, KeepsVictim
<1>10. CASE FinishCleanup
  <2>1. /\ routes' = ProxySnapshot /\ UNCHANGED bound
        /\ \A d \in Conn : d \notin {victim, lock} => UNCHANGED <<pc[d], target[d]>>
    BY <1>10, <1>a, <1>c DEF FinishCleanup, TryApplyRoutes, ApplyRoutes, ApplyFails, DropVictim
  <2>2. \A d \in RunningConns :
          pc'[d] \in AppliedLabels /\ UNCHANGED <<target[d], bound[d]>>
    BY <1>b, <2>1 DEF AppliedLabels
  <2> QED BY <2>1, <2>2, SnapshotReloads
<1>11. CASE CaddyDies
  BY <1>11 DEF CaddyDies, Reloads
<1>12. CASE StopProcessGroup \/ Sweep \/ ReapScan
            \/ (\E c \in Conn : TreeExits(c)) \/ UNCHANGED vars
  BY <1>12, <1>a DEF StopProcessGroup, Sweep, ReapScan, TreeExits, vars,
              KeepsRoutes, KeepsVictim
<1> QED BY <1>1, <1>2, <1>3, <1>4, <1>5, <1>6, <1>7, <1>8, <1>9, <1>10, <1>11, <1>12
        DEF Next, Teardown, UpLocked

LEMMA ShutdownWitnessStep ==
    ASSUME IInv, Failures \intersect Untold = {}, [ShutdownNext]_allVars
    PROVE  WitnessStep
<1> USE NullAssumption DEF WitnessStep, requestVars, teardownVars, processVars
<1>a. /\ pc \in [Conn -> PcLabels] /\ target \in [Conn -> Project \union {NoProject}]
      /\ bound \in [Conn -> [Service -> Ip \union {NoIp}]]
      /\ projects \in [Project -> Conn \union {NoConn}]
      /\ stage \in {"none", "next"} <=> victim = NoConn
  BY DEF IInv, TypeOK, LockDiscipline
<1>b. \A c \in RunningConns : c \in Conn /\ pc[c] = "up" /\ c # victim /\ c # lock
  BY RunningAreUp
<1>1. CASE DropReaper
  <2>1. /\ stage \in {"sweep", "release", "apply"}
        /\ routes' \subseteq routes \union ProxySnapshot
        /\ cut' = cut \union {target[victim]}
        /\ bound' = [bound EXCEPT ![victim] = Unbound]
        /\ pc' = [pc EXCEPT ![victim] = "idle"]
        /\ target' = [target EXCEPT ![victim] = NoProject]
    BY <1>1 DEF DropReaper, ApplyRoutes, Answer, Goto
  <2> QED BY <1>a, <2>1 DEF CutsRoutes
<1>2. CASE StopAll
  BY <1>2, <1>a DEF StopAll, KeepsRoutes, KeepsVictim
<1>3. ASSUME NEW p \in Project, StopNext(p)
      PROVE  KeepsRoutes
  <2>1. projects[p] \in Conn
    BY <1>3, <1>a DEF StopNext, IInv, LockDiscipline
  <2> QED BY <1>3, <1>a, <2>1 DEF StopNext, Goto, KeepsRoutes, KeepsVictim, AppliedLabels
<1>4. CASE StopFinish
  <2>1. /\ routes' = ProxySnapshot /\ UNCHANGED <<bound, cut>>
        /\ \A d \in Conn : d # victim => UNCHANGED <<pc[d], target[d]>>
    BY <1>4, <1>a DEF StopFinish, TryApplyRoutes, ApplyRoutes, ApplyFails, Untold, Answer, Goto
  <2>2. \A d \in RunningConns :
          pc'[d] \in AppliedLabels /\ UNCHANGED <<target[d], bound[d]>>
    BY <1>b, <2>1 DEF AppliedLabels
  <2> QED BY <2>1, <2>2, SnapshotReloads
<1>5. CASE CaddyShutdown
  BY <1>5 DEF CaddyShutdown, Reloads
<1>6. CASE Exits
  BY <1>6, <1>a DEF Exits, KeepsRoutes, KeepsVictim
<1> QED BY <1>1, <1>2, <1>3, <1>4, <1>5, <1>6, NextWitnessStep, ShutdownSteps

LEMMA WitnessedStep ==
    ASSUME IInv, Witnessed, WitnessStep
    PROVE  Witnessed'
<1>a. \A c, r : r \in ProxiedRoutes(c) => r[1] = target[c]
  BY DEF ProxiedRoutes
<1>b. \A c \in RunningConns : c \in Conn /\ pc[c] = "up" /\ c # victim
  BY RunningAreUp
<1>1. CASE Reloads
  BY <1>1 DEF Reloads, Witnessed, Uncut
<1>2. CASE KeepsRoutes
  <2> SUFFICES ASSUME NEW r \in Uncut(routes)
               PROVE  \/ \E c \in Conn : pc'[c] \in AppliedLabels /\ r \in ProxiedRoutes(c)'
                      \/ victim' # NoConn /\ r[1] = target'[victim']
    BY <1>2 DEF KeepsRoutes, Witnessed, Uncut
  <2>1. CASE victim # NoConn /\ r[1] = target[victim]
    BY <1>2, <2>1 DEF KeepsRoutes, KeepsVictim
  <2>2. ASSUME NEW c \in Conn, pc[c] \in AppliedLabels, r \in ProxiedRoutes(c)
        PROVE  \/ pc'[c] \in AppliedLabels /\ r \in ProxiedRoutes(c)'
               \/ victim # NoConn /\ r[1] = target[victim]
    <3>1. CASE c = victim
      BY <1>a, <2>2, <3>1, NullAssumption
    <3>2. CASE c # victim
      BY <1>2, <2>2, <3>2 DEF KeepsRoutes, ProxiedRoutes
    <3> QED BY <3>1, <3>2
  <2> QED BY <2>1, <2>2 DEF Witnessed
<1>3. CASE CutsRoutes
  <2> SUFFICES ASSUME NEW r \in routes', r[1] \notin cut'
               PROVE  \E c \in Conn : pc'[c] \in AppliedLabels /\ r \in ProxiedRoutes(c)'
    BY DEF Witnessed, Uncut
  <2>1. r[1] \notin cut /\ r[1] # target[victim]
    BY <1>3 DEF CutsRoutes
  <2>2. PICK c \in Conn : pc[c] \in AppliedLabels /\ r \in ProxiedRoutes(c)
    <3>1. CASE r \in routes
      BY <2>1, <3>1 DEF Witnessed, Uncut
    <3>2. CASE r \in ProxySnapshot
      BY <1>b, <3>2 DEF ProxySnapshot, AppliedLabels
    <3> QED BY <1>3, <3>1, <3>2 DEF CutsRoutes
  <2>3. c # victim
    BY <1>a, <2>1, <2>2
  <2> QED BY <1>3, <2>2, <2>3 DEF CutsRoutes, ProxiedRoutes
<1> QED BY <1>1, <1>2, <1>3 DEF WitnessStep

\* caddy.rs, handler.rs: as long as every `up` whose request fails tells Caddy,
\* the routes Caddy has outside a teardown are those of a project in the map or
\* of an `up` under way, through the shutdown, but for an interrupted cleanup.
THEOREM RoutesOutliveShutdown ==
    ASSUME Failures \intersect Untold = {}
    PROVE  ShutdownSpec => []RoutesOutlive
<1>1. ShutdownInit => Witnessed
  BY DEF ShutdownInit, Init, Witnessed, Uncut
<1>2. IInv /\ Witnessed /\ [ShutdownNext]_allVars => Witnessed'
  BY ShutdownWitnessStep, WitnessedStep
<1>3. IInv /\ Witnessed => RoutesOutlive
  BY DEF IInv, LockDiscipline, Witnessed, RoutesOutlive
<1> QED BY <1>1, <1>2, <1>3, ShutdownInvariance, PTL DEF ShutdownSpec

-----------------------------------------------------------------------------
(* What Nealsd.tla promises, kept through the shutdown *)

\* The leases see nothing new: a cleanup that is cut short loses addresses.
LEMMA ShutdownLeaseStep ==
    ASSUME IInv, [ShutdownNext]_allVars
    PROVE  LeaseStep
<1> USE DEF requestVars, teardownVars, processVars
<1>1. CASE DropReaper
  <2>1. victim \in Conn
    BY <1>1 DEF DropReaper, IInv, TypeOK, LockDiscipline
  <2> QED BY <1>1, <2>1 DEF DropReaper, LeaseStep, LostHeld
<1>2. CASE StopAll \/ (\E p \in Project : StopNext(p)) \/ StopFinish \/ CaddyShutdown \/ Exits
  BY <1>2 DEF StopAll, StopNext, StopFinish, CaddyShutdown, Exits, LeaseStep, LeasesUntouched
<1> QED BY <1>1, <1>2, ShutdownSteps, EveryStepIsALeaseStep

\* Addresses in use have one user, in the daemon that is going down as well.
THEOREM ShutdownLeaseSafety == ShutdownSpec => [](LeasesAccounted /\ ServicesApart)
<1>1. ShutdownInit => LeasesAccounted /\ ServicesApart
  BY InitLeases DEF ShutdownInit
<1>2. IInv /\ LeasesAccounted /\ ServicesApart /\ [ShutdownNext]_allVars
        => LeasesAccounted' /\ ServicesApart'
  BY ShutdownLeaseStep, LeaseStepAccounted, LeaseStepApart DEF IInv
<1> QED BY <1>1, <1>2, ShutdownInvariance, PTL DEF ShutdownSpec

\* netns.rs, main.rs: nealsd with its shutdown implements LeaseTable.tla.
THEOREM ShutdownImplementsLeaseTable == ShutdownSpec => LeaseTableSpec
<1>1. ShutdownInit => Leases!Init
  BY InitRefines DEF ShutdownInit
<1>2. IInv /\ LeasesAccounted /\ [ShutdownNext]_allVars => [Leases!Next]_(Leases!vars)
  BY ShutdownLeaseStep, LeaseStepRefines DEF IInv
<1> QED BY <1>1, <1>2, ShutdownInvariance, ShutdownLeaseSafety, PTL
        DEF ShutdownSpec, LeaseTableSpec, Leases!Spec

\* The reaper's victims are dead when it takes them up, and stay so.
Buried ==
    /\ life = "serving" /\ lock = Reaper => \A p \in queue : projects[p] \notin alive
    /\ victim # NoConn /\ stage # "kill" => victim \notin alive

LEMMA BuriedStep ==
    ASSUME IInv, Ending, Buried, [ShutdownNext]_allVars
    PROVE  Buried'
<1> USE NullAssumption DEF Buried, requestVars, teardownVars, processVars
<1>a. /\ pc \in [Conn -> PcLabels] /\ projects \in [Project -> Conn \union {NoConn}]
      /\ queue \subseteq Project
      /\ \A c \in Conn : pc[c] = "removed" <=> victim = c
      /\ \A p \in queue : projects[p] \in Conn /\ pc[projects[p]] = "up"
      /\ lock = Nobody <=> stage = "none"
      /\ stage \in {"none", "next"} <=> victim = NoConn
      /\ queue # {} => lock = Reaper
  BY DEF IInv, TypeOK, LockDiscipline, MapHoldsUps
<1>1. ASSUME NEW c \in Conn, Unlocked(c)
      PROVE  Buried'
  <2>1. /\ UNCHANGED <<life, lock, queue, projects, stage, victim>>
        /\ alive' \subseteq alive \/ (alive' = alive \union {c} /\ pc[c] = "routed")
    BY <1>1 DEF Unlocked, Serves, UpUnlocked, UpResolve, UpLogFails, UpSpawn, UpNetwork,
                UpNetworkFails, UpProxies, UpDropHelpers
  <2> QED BY <1>a, <2>1
<1>2. ASSUME NEW c \in Conn, Locked(c)
      PROVE  Buried'
  <2>1. /\ lock = Nobody /\ UNCHANGED <<life, lock, stage, victim, queue>>
        /\ alive' \subseteq alive
    BY <1>2 DEF Locked, Serves, UpLocked, UpBind, UpBindFails, UpRoute, UpRouteFails,
                UpPrepFails, UpAbort, UpInsert, UpLoses
  <2> QED BY <1>a, <2>1
<1>3. ASSUME NEW c \in Conn, NEW p \in Project, UpCheck(c, p) \/ Down(c, p)
      PROVE  Buried'
  BY <1>3, <1>a DEF UpCheck, Down
<1>4. CASE World
  BY <1>4 DEF World, TreeExits, CaddyDies
<1>5. CASE Reaping
  <2>1. CASE ReapScan
    BY <2>1, <1>a DEF ReapScan
  <2>2. ASSUME NEW p \in Project, ReapNext(p), life = "serving", UNCHANGED life
        PROVE  Buried'
    <3>1. /\ p \in queue /\ queue' = queue \ {p} /\ victim' = projects[p]
          /\ projects' = [projects EXCEPT ![p] = NoConn]
          /\ lock = Reaper /\ UNCHANGED <<lock, alive>>
      BY <2>2, <1>a DEF ReapNext
    <3> QED BY <2>2, <3>1, <1>a
  <2> QED BY <1>5, <2>1, <2>2 DEF Reaping
<1>6. CASE Cleaning
  <2>1. CASE StopProcessGroup \/ Sweep \/ Release
    BY <1>6, <2>1 DEF Cleaning, Serves, StopProcessGroup, Sweep, Release
  <2>2. CASE FinishCleanup
    BY <1>6, <2>2, <1>a DEF Cleaning, Serves, FinishCleanup, DropVictim
  <2> QED BY <1>6, <2>1, <2>2 DEF Cleaning
<1>7. CASE ShutdownSignal
  BY <1>7 DEF ShutdownSignal, DropReaper, vars
<1>8. CASE Stopping
  BY <1>8, <1>a DEF Stopping, StopAll, StopNext, StopFinish, CaddyShutdown, Exits
<1>9. CASE UNCHANGED allVars
  BY <1>9 DEF allVars, vars
<1> QED BY <1>1, <1>2, <1>3, <1>4, <1>5, <1>6, <1>7, <1>8, <1>9 DEF ShutdownNext

LEMMA ShutdownKeepsOwners ==
    ASSUME IInv, Buried, NoOrphans, [ShutdownNext]_allVars
    PROVE  NoOrphans'
<1> USE NullAssumption DEF requestVars, teardownVars, processVars
<1>a. /\ pc \in [Conn -> PcLabels] /\ projects \in [Project -> Conn \union {NoConn}]
      /\ \A c \in Conn : pc[c] = "removed" <=> victim = c
      /\ stage \in {"none", "next"} <=> victim = NoConn
  BY DEF IInv, TypeOK, LockDiscipline
<1>1. CASE DropReaper
  <2>1. /\ stage \in {"sweep", "release", "apply"} /\ victim # NoConn
        /\ alive' \subseteq alive /\ slirp' = slirp \ {victim}
        /\ \A c \in Conn : c # victim => UNCHANGED pc[c]
    BY <1>1, <1>a DEF DropReaper, Answer, Goto
  <2>2. victim \notin alive
    BY <2>1 DEF Buried
  <2> QED BY <2>1, <2>2 DEF NoOrphans
<1>2. ASSUME NEW p \in Project, StopNext(p)
      PROVE  NoOrphans'
  <2>1. /\ victim = NoConn /\ victim' = projects[p] /\ stage' = "kill"
        /\ UNCHANGED <<alive, slirp>>
        /\ \A c \in Conn : c # projects[p] => pc'[c] = pc[c]
    BY <1>2, <1>a DEF StopNext, Goto
  <2> QED BY <2>1 DEF NoOrphans
<1>3. CASE StopFinish
  <2>1. /\ stage = "apply" /\ UNCHANGED <<alive, slirp>>
        /\ \A c \in Conn : c # victim => pc'[c] = pc[c]
    BY <1>3, <1>a DEF StopFinish, Answer, Goto
  <2>2. \A c \in Conn : c = victim => pc[c] = "removed"
    BY <1>a
  <2> QED BY <2>1, <2>2 DEF NoOrphans
<1>4. CASE StopAll \/ CaddyShutdown
  <2>1. /\ victim = NoConn /\ UNCHANGED <<pc, victim, alive, slirp>>
    BY <1>4, <1>a DEF StopAll, CaddyShutdown, IInv, LockDiscipline
  <2> QED BY <2>1 DEF NoOrphans
<1>5. CASE Exits
  BY <1>5 DEF Exits, NoOrphans
<1> QED BY <1>1, <1>2, <1>3, <1>4, <1>5, ShutdownSteps, StepKeepsOwners

\* main.rs, state.rs: nor does a process tree or a slirp4netns outlive its
\* owner when the signal comes in the middle of a reaper's cleanup (whom the
\* reaper takes up is dead by then), while stop_all empties the map, or after
\* the exit, which kills no tree: an `up` that it cut short, or one answered
\* after stop_all, may leave its tree; a project that was stopped leaves none.
THEOREM ShutdownOrphansNothing == ShutdownSpec => []NoOrphans
<1>1. ShutdownInit => Buried /\ NoOrphans
  BY DEF ShutdownInit, Init, Buried, NoOrphans
<1>2. IInv /\ Ending /\ Buried /\ NoOrphans /\ [ShutdownNext]_allVars => Buried' /\ NoOrphans'
  BY BuriedStep, ShutdownKeepsOwners
<1> QED BY <1>1, <1>2, ShutdownInvariance, PTL DEF ShutdownSpec

\* The shutdown changes routes and bindings in the ways an `up` does.
LEMMA ShutdownRouteStep ==
    ASSUME IInv, [ShutdownNext]_allVars
    PROVE  RouteStep
<1> USE DEF requestVars, teardownVars, processVars
<1>a. /\ pc \in [Conn -> PcLabels] /\ target \in [Conn -> Project \union {NoProject}]
      /\ bound \in [Conn -> [Service -> Ip \union {NoIp}]]
      /\ ProxySnapshot \subseteq OwnRoutes
      /\ \A p \in Project : projects[p] # NoConn => pc[projects[p]] = "up"
      /\ \A p \in queue : projects[p] # NoConn /\ p \in Project
  BY SnapshotIsOwn DEF IInv, TypeOK, MapHoldsUps, LockDiscipline
<1>1. CASE DropReaper
  <2>1. /\ routes' \subseteq routes \union OwnRoutes
        /\ bound' = [bound EXCEPT ![victim] = Unbound]
        /\ pc' = [pc EXCEPT ![victim] = "idle"]
        /\ target' = [target EXCEPT ![victim] = NoProject]
    BY <1>1, <1>a DEF DropReaper, ApplyRoutes, Answer, Goto
  <2> QED BY <1>a, <2>1 DEF RouteStep, AppliedLabels
<1>2. ASSUME NEW p \in Project, StopNext(p)
      PROVE  RouteStep
  BY <1>2, <1>a DEF StopNext, Goto, RouteStep, AppliedLabels
<1>3. CASE StopFinish
  <2>1. routes' \subseteq routes \union OwnRoutes
    BY <1>3, <1>a DEF StopFinish, TryApplyRoutes, ApplyRoutes, ApplyFails
  <2>2. /\ pc' = [pc EXCEPT ![victim] = "idle"] /\ UNCHANGED bound
        /\ target' = [target EXCEPT ![victim] = NoProject]
    BY <1>3 DEF StopFinish, Answer, Goto
  <2> QED BY <1>a, <2>1, <2>2 DEF RouteStep, AppliedLabels
<1>4. CASE StopAll \/ CaddyShutdown \/ Exits
  BY <1>4 DEF StopAll, CaddyShutdown, Exits, RouteStep
<1> QED BY <1>1, <1>2, <1>3, <1>4, ShutdownSteps, EveryStepIsARouteStep

\* Nor does a route that the interrupted cleanup left in Caddy ever lead to
\* an address at which another project is started.
THEOREM ShutdownRoutesSafe == ShutdownSpec => []RoutesReachOwnProject
<1>1. ShutdownInit => RoutesReachOwnProject
  BY DEF ShutdownInit, Init, RoutesReachOwnProject
<1>2. IInv /\ LeasesAccounted /\ ServicesApart /\ RoutesReachOwnProject
        /\ [ShutdownNext]_allVars => RoutesReachOwnProject'
  BY ShutdownRouteStep, StepKeepsRoutes
<1> QED BY <1>1, <1>2, ShutdownInvariance, ShutdownLeaseSafety, PTL DEF ShutdownSpec

LEMMA ShutdownKeepsListening ==
    ASSUME IInv, LeasesAccounted, Listening, [ShutdownNext]_allVars
    PROVE  Listening'
<1> USE NullAssumption DEF requestVars, teardownVars, processVars
<1>a. /\ pc \in [Conn -> PcLabels] /\ projects \in [Project -> Conn \union {NoConn}]
      /\ bound \in [Conn -> [Service -> Ip \union {NoIp}]]
      /\ listeners \in [Conn -> SUBSET Ip]
      /\ \A p \in Project : projects[p] # NoConn => pc[projects[p]] = "up"
      /\ \A p \in queue : projects[p] # NoConn /\ p \in Project
      /\ \A c \in Conn : pc[c] = "removed" <=> victim = c
      /\ stage \in {"none", "next"} <=> victim = NoConn
      /\ lock = Nobody <=> stage = "none"
  BY DEF IInv, TypeOK, LockDiscipline, MapHoldsUps
<1>1. CASE DropReaper
  <2>1. /\ pc' = [pc EXCEPT ![victim] = "idle"]
        /\ listeners' = [listeners EXCEPT ![victim] = {}]
        /\ stage \in {"sweep", "release", "apply"} /\ stage' = "none"
    BY <1>1 DEF DropReaper, Answer, Goto
  <2>2. \A c \in Conn : c # victim => BoundIps(c)' = BoundIps(c)
    BY <1>1, <1>a DEF DropReaper, BoundIps
  <2> QED BY <1>a, <2>1, <2>2 DEF Listening
<1>2. ASSUME NEW p \in Project, StopNext(p)
      PROVE  Listening'
  <2>1. /\ pc' = [pc EXCEPT ![projects[p]] = "removed"] /\ UNCHANGED <<listeners, bound>>
        /\ victim = NoConn /\ stage = "next" /\ stage' = "kill"
        /\ pc[projects[p]] = "up"
    BY <1>2, <1>a DEF StopNext, Goto
  <2>2. \A c : BoundIps(c)' = BoundIps(c)
    BY <2>1 DEF BoundIps
  <2> QED BY <1>a, <2>1, <2>2 DEF Listening
<1>3. CASE StopFinish
  <2>1. /\ pc' = [pc EXCEPT ![victim] = "idle"] /\ UNCHANGED bound
        /\ listeners' = [listeners EXCEPT ![victim] = {}]
        /\ stage = "apply" /\ stage' = "next"
    BY <1>3 DEF StopFinish, Answer, Goto
  <2>2. \A c : BoundIps(c)' = BoundIps(c)
    BY <2>1 DEF BoundIps
  <2> QED BY <1>a, <2>1, <2>2 DEF Listening
<1>4. CASE StopAll \/ CaddyShutdown
  <2>1. /\ UNCHANGED <<pc, listeners, bound, victim>> /\ victim = NoConn
        /\ stage # "apply" /\ stage' # "apply"
    BY <1>4, <1>a DEF StopAll, CaddyShutdown
  <2>2. \A c : BoundIps(c)' = BoundIps(c)
    BY <2>1 DEF BoundIps
  <2> QED BY <2>1, <2>2 DEF Listening
<1>5. CASE Exits
  <2>1. UNCHANGED <<pc, bound, victim, stage>> /\ listeners' = [c \in Conn |-> {}]
    BY <1>5 DEF Exits
  <2>2. stage = "apply" => victim \in Conn
    BY <1>a DEF IInv, TypeOK
  <2> QED BY <2>1, <2>2 DEF Listening
<1> QED BY <1>1, <1>2, <1>3, <1>4, <1>5, ShutdownSteps, StepKeepsListening

\* Helpers listen only where their own up has addresses, to the last.
THEOREM ShutdownListenersSafe == ShutdownSpec => []ListenersApart
<1>1. ShutdownInit => Listening
  BY DEF ShutdownInit, Init, Listening
<1>2. IInv /\ LeasesAccounted /\ Listening /\ [ShutdownNext]_allVars => Listening'
  BY ShutdownKeepsListening
<1> QED BY <1>1, <1>2, ListeningSuffices, ShutdownInvariance, ShutdownLeaseSafety, PTL
        DEF ShutdownSpec

LEMMA ShutdownUpsMapped ==
    ASSUME IInv, UpsMapped, [ShutdownNext]_allVars
    PROVE  UpsMapped'
<1> USE NullAssumption DEF requestVars, teardownVars, processVars
<1>a. /\ pc \in [Conn -> PcLabels] /\ projects \in [Project -> Conn \union {NoConn}]
      /\ target \in [Conn -> Project \union {NoProject}]
      /\ \A c \in Conn : pc[c] = "up" => target[c] \in Project
      /\ \A p \in Project : projects[p] # NoConn => target[projects[p]] = p
      /\ \A p \in queue : projects[p] # NoConn /\ p \in Project
  BY DEF IInv, TypeOK, Assigned, MapHoldsUps, LockDiscipline
<1>1. CASE DropReaper \/ StopFinish
  <2>1. /\ UNCHANGED projects
        /\ pc' = [pc EXCEPT ![victim] = "idle"]
        /\ target' = [target EXCEPT ![victim] = NoProject]
    BY <1>1 DEF DropReaper, StopFinish, Answer, Goto
  <2> QED BY <1>a, <2>1 DEF UpsMapped
<1>2. ASSUME NEW p \in Project, StopNext(p)
      PROVE  UpsMapped'
  <2>1. /\ projects' = [projects EXCEPT ![p] = NoConn] /\ UNCHANGED target
        /\ pc' = [pc EXCEPT ![projects[p]] = "removed"]
        /\ projects[p] \in Conn /\ target[projects[p]] = p
    BY <1>2, <1>a DEF StopNext, Goto
  <2>2. \A c \in Conn : pc'[c] = "up" => pc[c] = "up" /\ c # projects[p]
    BY <1>a, <2>1
  <2>3. \A c \in Conn : pc[c] = "up" /\ c # projects[p] => target[c] # p
    BY DEF UpsMapped
  <2> QED BY <1>a, <2>1, <2>2, <2>3 DEF UpsMapped
<1>3. CASE StopAll \/ CaddyShutdown \/ Exits
  BY <1>3 DEF StopAll, CaddyShutdown, Exits, UpsMapped
<1> QED BY <1>1, <1>2, <1>3, ShutdownSteps, UpsMappedStep

\* The map holds the ups that were answered, no more and no fewer, while
\* stop_all empties it and requests still come in.
THEOREM ShutdownMapSafety == ShutdownSpec => []MapMatchesRequests
<1>1. ShutdownInit => UpsMapped
  BY DEF ShutdownInit, Init, UpsMapped
<1>2. IInv /\ UpsMapped /\ [ShutdownNext]_allVars => UpsMapped'
  BY ShutdownUpsMapped
<1> QED BY <1>1, <1>2, UpsMappedSuffices, ShutdownInvariance, PTL DEF ShutdownSpec

\* main.rs, handler.rs: a daemon that exited after a signal, with no `up` that
\* took the lock between stop_all and the exit, has stopped Caddy, has nothing
\* in the map, nothing in the hosts but what an interrupted cleanup left there,
\* and leaves no tree of a project it had started: the trees that live on are
\* those of ups that were not answered yet.
THEOREM ShutdownLeavesNothing ==
    ASSUME "hosts" \notin Failures
    PROVE  ShutdownSpec => []ExitIsClean
<1>1. IInv /\ Ending /\ HostsOutlive /\ NoOrphans /\ MapMatchesRequests => ExitIsClean
  <2> SUFFICES ASSUME IInv, Ending, HostsOutlive, NoOrphans, MapMatchesRequests,
                      life = "exited", ~late
               PROVE  /\ caddy = "down" /\ Uncut(hosts) = {} /\ RunningConns = {}
                      /\ \A c \in alive : pc[c] \in {"spawned", "networked", "proxied"}
    BY DEF ExitIsClean
  <2>1. lock = Nobody /\ caddy = "down" /\ RunningConns = {}
        /\ \A p \in Project : projects[p] = NoConn
    BY DEF Ending, IsRunning, RunningConns
  <2>2. HostEntries(RunningConns) = {}
    BY <2>1 DEF HostEntries
  <2>3. ASSUME NEW c \in alive
        PROVE  pc[c] \in {"spawned", "networked", "proxied"}
    <3>1. c \in Conn /\ stage = "none"
      BY <2>1, <2>3 DEF IInv, TypeOK, LockDiscipline
    <3>2. pc[c] # "up"
      BY <2>1, <3>1, NullAssumption DEF MapMatchesRequests, IInv, Assigned, TypeOK
    <3> QED BY <2>3, <3>1, <3>2 DEF NoOrphans
  <2> QED BY <2>1, <2>2, <2>3 DEF HostsOutlive
<1> QED BY <1>1, HostsOutliveShutdown, ShutdownOrphansNothing, ShutdownMapSafety,
           ShutdownInvariance, PTL
=================================================================================
