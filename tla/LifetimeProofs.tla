----------------------------- MODULE LifetimeProofs -----------------------------
(***************************************************************************)
(* Daemons that do not get ready or end at the same time leave one of them *)
(* at each socket path, for any number of daemons, commands and faults,    *)
(* whether systemd or commands start them.                                 *)
(***************************************************************************)
EXTENDS Lifetime, TLAPS

\* It bound the path and nobody has reason to remove it.
Settled == {"listen", "caddy", "serve"}

\* It is about to bind or to remove the path.
Claiming == {"unlink", "bind", "stop", "remove"}

Apart == \A d, e \in Daemon :
    at[d] = at[e] /\ dpc[d] \in Unsettled /\ dpc[e] \in Unsettled => d = e

AtPath == \A d \in Daemon :
    /\ dpc[d] \in Settled => sock[at[d]] = d
    /\ dpc[d] \in {"caddy", "serve"} => d \in listening

NobodyToRemove == \A d, e \in Daemon :
    at[d] = at[e] /\ dpc[d] \in Claiming => dpc[e] \notin Settled

Alone == overlap \/ (Apart /\ AtPath /\ NobodyToRemove)

IInv == TypeOK /\ Alone

(***************************************************************************)
(* The variables keep their shapes.                                        *)
(***************************************************************************)
LEMMA TypeStep == TypeOK /\ [Next]_vars => TypeOK'
<1> SUFFICES ASSUME TypeOK, [Next]_vars PROVE TypeOK'
    OBVIOUS
<1> USE LifetimeAssumption DEF TypeOK, cliVars, unitVars, DaemonGoto, CliGoto, Path
<1>1. CASE UNCHANGED vars
    BY <1>1 DEF vars
<1>2. ASSUME NEW d \in Daemon, NEW outcome \in {"failed", "inactive"},
             Gone(d, outcome), sock' \in [Path -> Daemon \union {NoDaemon}],
             faults' \in 0..MaxFaults, overlap' \in BOOLEAN
      PROVE  TypeOK'
    BY <1>2 DEF Gone
<1>3. ASSUME NEW d \in Daemon, DaemonStep(d) PROVE TypeOK'
    <2>0. CASE Exit(d)
        BY <1>2, <2>0 DEF Exit
    <2>1. CASE ChoosesPath(d)
        BY <2>1 DEF ChoosesPath, daemon_socket
    <2>2. CASE Exists(d)
        BY <2>2 DEF Exists, Unsettles
    <2>3. CASE Connect(d)
        BY <2>0, <2>3 DEF Connect, TakesForStale
    <2>4. CASE Unlink(d)
        BY <2>0, <2>4 DEF Unlink
    <2>5. CASE Bind(d)
        BY <2>0, <2>5 DEF Bind
    <2>6. CASE Listen(d) \/ CaddyStarts(d) \/ StopAll(d)
        BY <2>6 DEF Listen, CaddyStarts, StopAll
    <2>7. CASE RemoveSock(d)
        BY <1>2, <2>7 DEF RemoveSock
    <2> QED
        BY <1>3, <2>1, <2>2, <2>3, <2>4, <2>5, <2>6, <2>7 DEF DaemonStep
<1>4. ASSUME NEW d \in Daemon, CaddyFails(d) \/ Term(d) \/ Crash(d) \/ SystemdStarts(d)
      PROVE  TypeOK'
    <2>1. CASE CaddyFails(d) \/ Crash(d)
        <3>1. faults' \in 0..MaxFaults
            BY <2>1 DEF CaddyFails, Crash, Fault
        <3> QED
            BY <1>2, <2>1, <3>1 DEF CaddyFails, Crash
    <2>2. CASE Term(d)
        BY <2>2 DEF Term, Fault, Unsettles
    <2>3. CASE SystemdStarts(d)
        BY <2>3 DEF SystemdStarts
    <2> QED
        BY <1>4, <2>1, <2>2, <2>3
<1>5. CASE SystemdCleans
    BY <1>5 DEF SystemdCleans
<1>6. ASSUME NEW c \in Cli, Begin(c) \/ CliStep(c) PROVE TypeOK'
    <2>1. CASE Begin(c)
        BY <2>1 DEF Begin
    <2>2. CASE Dial(c) \/ Call(c)
        <3>1. sock[daemon_socket] \in Daemon \union {NoDaemon}
            BY DEF daemon_socket
        <3> QED
            BY <2>2, <3>1 DEF Dial, Call, Connects, Hangs
    <2>3. CASE Pong(c) \/ PingFails(c) \/ SystemDown(c) \/ Retry(c) \/ GiveUp(c)
        BY <2>3 DEF Pong, PingFails, SystemDown, Retry, GiveUp, Hangs
    <2>4. CASE Served(c) \/ NotServed(c)
        BY <2>4 DEF Served, NotServed, Hangs
    <2>5. CASE \E d \in Daemon : StartNealsd(c, d)
        BY <2>5 DEF StartNealsd, Hangs
    <2> QED
        BY <1>6, <2>1, <2>2, <2>3, <2>4, <2>5 DEF CliStep
<1> QED
    BY <1>1, <1>3, <1>4, <1>5, <1>6 DEF Next

(***************************************************************************)
(* A daemon that ends takes nothing from the others: it did not hold a     *)
(* place anybody else relies on.                                           *)
(***************************************************************************)
LEMMA GoneStep ==
    ASSUME TypeOK, Alone, NEW d \in Daemon, NEW outcome, Gone(d, outcome),
           overlap' = overlap,
           \/ sock' = sock
           \/ sock' = [sock EXCEPT ![at[d]] = NoDaemon] /\ dpc[d] \in Claiming
    PROVE  Alone'
<1> SUFFICES ASSUME ~overlap PROVE (Apart /\ AtPath /\ NobodyToRemove)'
    BY DEF Alone
<1>1. /\ dpc' = [dpc EXCEPT ![d] = "off"] /\ at' = [at EXCEPT ![d] = "user"]
      /\ listening' = listening \ {d}
      /\ Apart /\ AtPath /\ NobodyToRemove
    BY DEF Gone, DaemonGoto, Alone
<1>2. \A e \in Daemon : IF e = d THEN dpc'[e] = "off"
                        ELSE dpc'[e] = dpc[e] /\ at'[e] = at[e]
    BY <1>1 DEF TypeOK
<1>3. \A e \in Daemon \ {d} : dpc[e] \in Settled => sock'[at[e]] = sock[at[e]]
    BY <1>1 DEF TypeOK, NobodyToRemove
<1> QED
    BY <1>1, <1>2, <1>3 DEF Apart, AtPath, NobodyToRemove, Settled, Unsettled, Claiming

(***************************************************************************)
(* While starts and ends do not overlap, each path names the daemon that   *)
(* listens there, and nobody is about to remove it.                        *)
(***************************************************************************)
LEMMA AloneStep == TypeOK /\ Alone /\ [Next]_vars => Alone'
<1> SUFFICES ASSUME TypeOK, Alone, [Next]_vars, ~overlap' PROVE Alone'
    BY DEF Alone
<1> USE LifetimeAssumption DEF TypeOK, Alone, Apart, AtPath, NobodyToRemove,
        Settled, Unsettled, Claiming, DaemonGoto
<1>1. CASE UNCHANGED <<dpc, at, sock, listening, overlap>>
    BY <1>1
<1>2. ASSUME NEW d \in Daemon, DaemonStep(d) PROVE Alone'
    <2>0. CASE Exit(d)
        BY <2>0, GoneStep DEF Exit
    <2>1. CASE ChoosesPath(d)
        BY <2>1 DEF ChoosesPath
    <2>2. CASE Exists(d)
        <3>1. ~overlap /\ \A e \in Daemon \ {d} : at[e] = at[d] => dpc[e] \notin Unsettled
            BY <2>2 DEF Exists, Unsettles
        <3>2. /\ dpc' = [dpc EXCEPT ![d] = IF sock[at[d]] = NoDaemon THEN "bind"
                                           ELSE "connect"]
              /\ UNCHANGED <<sock, at, listening>> /\ dpc[d] = "exists"
            BY <2>2 DEF Exists
        <3> QED
            BY <3>1, <3>2
    <2>3. CASE Connect(d) /\ ~Exit(d)
        <3>1. dpc[d] = "connect" /\ sock[at[d]] \notin listening
            BY <2>3 DEF Connect, Refused
        <3>2. /\ dpc' = [dpc EXCEPT ![d] = "unlink"]
              /\ UNCHANGED <<sock, at, listening, overlap>>
            BY <2>3 DEF Connect, TakesForStale
        <3>3. ASSUME ~overlap, NEW e \in Daemon, at[e] = at[d] PROVE dpc[e] \notin Settled
            BY <3>1, <3>3
        <3> QED
            BY <3>1, <3>2, <3>3
    <2>4. CASE Unlink(d) /\ ~Exit(d)
        BY <2>4 DEF Unlink
    <2>5. CASE Bind(d) /\ ~Exit(d)
        BY <2>5 DEF Bind
    <2>6. CASE Listen(d) \/ CaddyStarts(d) \/ StopAll(d)
        BY <2>6 DEF Listen, CaddyStarts, StopAll
    <2>7. CASE RemoveSock(d)
        BY <2>7, GoneStep DEF RemoveSock
    <2> QED
        BY <1>2, <2>0, <2>1, <2>2, <2>3, <2>4, <2>5, <2>6, <2>7 DEF DaemonStep
<1>3. ASSUME NEW d \in Daemon, CaddyFails(d) \/ Term(d) \/ Crash(d) \/ SystemdStarts(d)
      PROVE  Alone'
    <2>1. CASE CaddyFails(d) \/ Crash(d)
        BY <2>1, GoneStep DEF CaddyFails, Crash
    <2>2. CASE Term(d)
        <3>1. ~overlap /\ \A e \in Daemon \ {d} : at[e] = at[d] => dpc[e] \notin Unsettled
            BY <2>2 DEF Term, Unsettles
        <3>2. dpc' = [dpc EXCEPT ![d] = "stop"]
              /\ UNCHANGED <<sock, at>> /\ dpc[d] = "serve"
              /\ listening' = listening \ {d}
            BY <2>2 DEF Term
        <3> QED
            BY <3>1, <3>2
    <2>3. CASE SystemdStarts(d)
        BY <2>3 DEF SystemdStarts
    <2> QED
        BY <1>3, <2>1, <2>2, <2>3
<1>4. CASE SystemdCleans
    <2>1. /\ UNCHANGED <<dpc, at, listening>> /\ ~overlap
          /\ sock' = [sock EXCEPT !["system"] = NoDaemon]
          /\ \A d \in Daemon : dpc[d] \in Settled => at[d] # "system"
        BY <1>4 DEF SystemdCleans
    <2> QED
        BY <2>1
<1>5. ASSUME NEW c \in Cli, Begin(c) \/ CliStep(c) PROVE Alone'
    <2>1. ASSUME NEW d \in Daemon, StartNealsd(c, d) PROVE Alone'
        <3>1. UNCHANGED <<sock, at, listening, overlap>> /\ dpc[d] = "off"
              /\ dpc' = [dpc EXCEPT ![d] = "path"]
            BY <2>1 DEF StartNealsd, Hangs
        <3> QED
            BY <3>1
    <2>2. CASE \/ Begin(c) \/ Dial(c) \/ Pong(c) \/ PingFails(c) \/ SystemDown(c)
               \/ Retry(c) \/ GiveUp(c) \/ Call(c) \/ Served(c) \/ NotServed(c)
        BY <1>1, <2>2 DEF Begin, Dial, Pong, PingFails, SystemDown, Retry, GiveUp,
                          Call, Served, NotServed, Hangs, Connects
    <2> QED
        BY <1>5, <2>1, <2>2 DEF CliStep
<1> QED
    BY <1>1, <1>2, <1>3, <1>4, <1>5 DEF Next, vars

(***************************************************************************)
(* The inductive invariant of the daemons' lifetimes.                      *)
(***************************************************************************)
THEOREM LifetimeInvariance == Spec => []IInv
<1>1. Init => IInv
    <2>1. Init => TypeOK
        <3> SUFFICES ASSUME Init PROVE TypeOK
            OBVIOUS
        <3>1. faults \in 0..MaxFaults /\ system \in BOOLEAN
            BY LifetimeAssumption DEF Init, LifetimeAssumption
        <3> QED
            BY <3>1 DEF Init, TypeOK, Path
    <2>2. Init => Alone
        BY DEF Init, Alone, Apart, AtPath, NobodyToRemove, Settled, Unsettled,
               Claiming
    <2> QED
        BY <2>1, <2>2 DEF IInv
<1>2. IInv /\ [Next]_vars => IInv'
    BY TypeStep, AloneStep DEF IInv
<1> QED
    BY <1>1, <1>2, PTL DEF Spec

(***************************************************************************)
(* As long as no daemon gets ready while another gets ready or ends at its *)
(* path, and systemd clears its directory under none, every daemon that    *)
(* serves is the one at the path it chose, the unit's or the user's.       *)
(***************************************************************************)
THEOREM ServedAtPath == Spec => []ServesAlone
<1>1. IInv => ServesAlone
    BY DEF IInv, Alone, AtPath, Settled, ServesAlone, Serving
<1> QED
    BY <1>1, LifetimeInvariance, PTL

-----------------------------------------------------------------------------
(* Daemons that start together *)

\* The unit's daemon is the first at its path: who comes from a command goes
\* there only when it has bound.
UnitFirst ==
    \/ /\ main = NoDaemon
       /\ sock["system"] = NoDaemon
       /\ \A d \in Daemon : at[d] = "user"
    \/ main # NoDaemon /\ dpc[main] \in Settled
    \/ /\ main # NoDaemon /\ dpc[main] \in {"path", "exists", "bind"}
       /\ dpc[main] # "path" => at[main] = "system"
       /\ sock["system"] = NoDaemon
       /\ \A d \in Daemon \ {main} : at[d] = "user"

\* What is at a path is a daemon's that got it, and without a file one is
\* about to bind, or none has.
PathSettles(p) ==
    /\ sock[p] # NoDaemon => sock[p] \in Daemon /\ dpc[sock[p]] \in Settled
    /\ sock[p] = NoDaemon => \/ \E d \in Daemon : at[d] = p /\ dpc[d] = "bind"
                             \/ \A d \in Daemon : at[d] = p => dpc[d] \notin Settled

\* Until something goes wrong nobody ends who has bound.
Settling ==
    faults = 0 =>
        /\ \A d \in Daemon : dpc[d] \notin {"stop", "remove"}
        /\ UnitFirst
        /\ \A p \in Path : PathSettles(p)

\* A daemon that gives up leaves the paths to others, and is not the unit's.
LEMMA ExitSettles ==
    ASSUME TypeOK, Settling, faults = 0, NEW d \in Daemon, d # main, Exit(d),
           \/ dpc[d] \in {"connect", "unlink"}
           \/ dpc[d] = "bind" /\ ~BindsAt(at[d])
    PROVE  Settling'
<1>1. /\ dpc' = [dpc EXCEPT ![d] = "off"] /\ at' = [at EXCEPT ![d] = "user"]
      /\ UNCHANGED <<sock, main, faults>>
      /\ \A e \in Daemon : dpc[e] \notin {"stop", "remove"}
      /\ UnitFirst /\ \A p \in Path : PathSettles(p)
    BY DEF Exit, Gone, DaemonGoto, Settling
<1>2. /\ \A e \in Daemon \ {d} : dpc'[e] = dpc[e] /\ at'[e] = at[e]
      /\ dpc'[d] = "off" /\ at'[d] = "user"
      /\ main \in Daemon \union {NoDaemon} /\ NoDaemon \notin Daemon
      /\ dpc[d] \notin Settled
    BY <1>1, LifetimeAssumption DEF TypeOK, Settled
<1>3. UnitFirst'
    BY <1>1, <1>2 DEF UnitFirst, Settled
<1>4. dpc[d] = "bind" => sock[at[d]] # NoDaemon
    BY <1>1, <1>2 DEF BindsAt, UnitFirst
<1>5. ASSUME NEW p \in Path PROVE PathSettles(p)'
    BY <1>1, <1>2, <1>4 DEF PathSettles, Settled
<1> QED
    BY <1>1, <1>2, <1>3, <1>5 DEF Settling

LEMMA SettlingStep == TypeOK /\ Settling /\ [Next]_vars => Settling'
<1> SUFFICES ASSUME TypeOK, Settling, [Next]_vars, faults' = 0 PROVE Settling'
    BY DEF Settling
<1>1. /\ faults \in Nat /\ NoDaemon \notin Daemon
      /\ dpc = [d \in Daemon |-> dpc[d]] /\ at = [d \in Daemon |-> at[d]]
      /\ sock = [p \in Path |-> sock[p]] /\ \A d \in Daemon : at[d] \in Path
      /\ main \in Daemon \union {NoDaemon}
    BY LifetimeAssumption DEF TypeOK
<1>2. CASE UNCHANGED <<dpc, at, sock, main, faults>>
    BY <1>2 DEF Settling, UnitFirst, PathSettles
<1>3. ASSUME NEW d \in Daemon, DaemonStep(d) PROVE Settling'
    <2>1. /\ faults = 0
          /\ \A e \in Daemon : dpc[e] \notin {"stop", "remove"}
          /\ UnitFirst /\ \A p \in Path : PathSettles(p)
        <3>1. faults' = faults
            BY <1>3 DEF DaemonStep, ChoosesPath, Exists, Connect, TakesForStale,
               Unlink, Bind, Listen, CaddyStarts, StopAll, RemoveSock, Exit
        <3> QED
            BY <3>1 DEF Settling
    <2>2. CASE ChoosesPath(d)
        BY <1>1, <2>1, <2>2
           DEF ChoosesPath, DaemonGoto, daemon_socket, Settling, UnitFirst, PathSettles,
               Settled, Path, unitVars
    <2>3. CASE Exists(d)
        <3>1. /\ dpc' = [dpc EXCEPT ![d] = IF sock[at[d]] = NoDaemon THEN "bind"
                                           ELSE "connect"]
              /\ dpc[d] = "exists" /\ UNCHANGED <<sock, at, main, faults>>
            BY <2>3 DEF Exists, DaemonGoto, unitVars
        <3>2. UnitFirst'
            BY <1>1, <2>1, <3>1 DEF UnitFirst, Settled
        <3>3. ASSUME NEW p \in Path PROVE PathSettles(p)'
            BY <1>1, <2>1, <3>1 DEF PathSettles, Settled
        <3> QED
            BY <1>1, <2>1, <3>1, <3>2, <3>3 DEF Settling
    <2>4. CASE Connect(d)
        <3>1. dpc[d] = "connect" /\ d # main
            BY <1>1, <2>1, <2>4 DEF Connect, UnitFirst, Settled
        <3>2. CASE Exit(d)
            BY <2>1, <3>1, <3>2, ExitSettles
        <3>3. CASE TakesForStale(d)
            BY <1>1, <2>1, <3>1, <3>3
               DEF TakesForStale, DaemonGoto, Settling, UnitFirst, PathSettles, Settled,
                   unitVars
        <3> QED
            BY <2>4, <3>2, <3>3 DEF Connect
    <2>5. CASE Unlink(d)
        <3>1. dpc[d] = "unlink" /\ d # main
            BY <1>1, <2>1, <2>5 DEF Unlink, UnitFirst, Settled
        <3>2. CASE Exit(d)
            BY <2>1, <3>1, <3>2, ExitSettles
        <3>3. CASE ~Exit(d)
            <4>1. /\ dpc' = [dpc EXCEPT ![d] = "bind"]
                  /\ sock' = [sock EXCEPT ![at[d]] = NoDaemon]
                  /\ UNCHANGED <<at, main, faults>>
                BY <2>5, <3>3 DEF Unlink, DaemonGoto, unitVars
            <4>2. UnitFirst'
                BY <1>1, <2>1, <3>1, <4>1 DEF UnitFirst, Settled
            <4>3. ASSUME NEW p \in Path PROVE PathSettles(p)'
                BY <1>1, <2>1, <3>1, <4>1 DEF PathSettles, Settled
            <4> QED
                BY <1>1, <2>1, <4>1, <4>2, <4>3 DEF Settling
        <3> QED
            BY <3>2, <3>3
    <2>6. CASE Bind(d)
        <3>1. CASE ~BindsAt(at[d])
            <4>1. d # main
                BY <1>1, <2>1, <2>6, <3>1 DEF Bind, BindsAt, UnitFirst, Settled
            <4> QED
                BY <2>1, <2>6, <3>1, <4>1, ExitSettles DEF Bind
        <3>2. CASE BindsAt(at[d])
            <4>1. /\ dpc' = [dpc EXCEPT ![d] = "listen"] /\ dpc[d] = "bind"
                  /\ sock' = [sock EXCEPT ![at[d]] = d]
                  /\ UNCHANGED <<at, main, faults>>
                BY <2>6, <3>2 DEF Bind, DaemonGoto, unitVars
            <4>2. UnitFirst'
                <5>0. /\ \A e \in Daemon \ {d} : dpc'[e] = dpc[e]
                      /\ dpc'[d] = "listen"
                      /\ at[d] = "user" => sock'["system"] = sock["system"]
                    BY <1>1, <4>1 DEF Path
                <5>1. CASE main = NoDaemon
                    BY <1>1, <2>1, <4>1, <5>0, <5>1 DEF UnitFirst
                <5>2. CASE main # NoDaemon /\ dpc[main] \in Settled
                    BY <1>1, <4>1, <5>0, <5>2 DEF UnitFirst, Settled
                <5>3. CASE main # NoDaemon /\ dpc[main] \notin Settled
                    <6>1. CASE d = main
                        BY <1>1, <4>1, <5>0, <5>3, <6>1 DEF UnitFirst, Settled
                    <6>2. CASE d # main
                        BY <1>1, <2>1, <4>1, <5>0, <5>3, <6>2 DEF UnitFirst
                    <6> QED
                        BY <6>1, <6>2
                <5> QED
                    BY <5>1, <5>2, <5>3
            <4>3. ASSUME NEW p \in Path PROVE PathSettles(p)'
                <5>1. CASE p = at[d]
                    BY <1>1, <4>1, <5>1 DEF PathSettles, Settled
                <5>2. CASE p # at[d]
                    <6>1. sock'[p] = sock[p] /\ sock[at[d]] = NoDaemon
                        BY <1>1, <3>2, <4>1, <5>2 DEF BindsAt
                    <6>2. \A e \in Daemon : at[e] = p => dpc'[e] = dpc[e]
                        BY <1>1, <4>1, <5>2
                    <6>3. \A e \in Daemon : dpc[e] \in Settled => dpc'[e] = dpc[e]
                        BY <1>1, <4>1 DEF Settled
                    <6> QED
                        BY <2>1, <4>1, <6>1, <6>2, <6>3 DEF PathSettles
                <5> QED
                    BY <5>1, <5>2
            <4>4. \A e \in Daemon : dpc'[e] \notin {"stop", "remove"}
                BY <1>1, <2>1, <4>1
            <4> QED
                BY <4>2, <4>3, <4>4 DEF Settling
        <3> QED
            BY <3>1, <3>2
    <2>7. CASE Listen(d) \/ CaddyStarts(d)
        BY <1>1, <2>1, <2>7
           DEF Listen, CaddyStarts, DaemonGoto, Settling, UnitFirst, PathSettles, Settled,
               unitVars
    <2>8. CASE StopAll(d) \/ RemoveSock(d)
        BY <2>1, <2>8 DEF StopAll, RemoveSock
    <2> QED
        BY <1>3, <2>2, <2>3, <2>4, <2>5, <2>6, <2>7, <2>8 DEF DaemonStep
<1>4. ASSUME NEW d \in Daemon, CaddyFails(d) \/ Term(d) \/ Crash(d) PROVE FALSE
    BY <1>1, <1>4 DEF CaddyFails, Term, Crash, Fault
<1>5. ASSUME NEW d \in Daemon, SystemdStarts(d) PROVE Settling'
    BY <1>1, <1>5
       DEF SystemdStarts, DaemonGoto, Settling, UnitFirst, PathSettles, Settled
<1>6. CASE SystemdCleans
    BY <1>1, <1>6 DEF SystemdCleans, Leftover, Settling, UnitFirst, Settled
<1>7. ASSUME NEW c \in Cli, Begin(c) \/ CliStep(c) PROVE Settling'
    <2>1. ASSUME NEW d \in Daemon, StartNealsd(c, d) PROVE Settling'
        BY <1>1, <2>1
           DEF StartNealsd, Hangs, DaemonGoto, Settling, UnitFirst, PathSettles, Settled,
               unitVars
    <2>2. CASE \/ Begin(c) \/ Dial(c) \/ Pong(c) \/ PingFails(c) \/ SystemDown(c)
               \/ Retry(c) \/ GiveUp(c) \/ Call(c) \/ Served(c) \/ NotServed(c)
        BY <1>2, <2>2 DEF Begin, Dial, Pong, PingFails, SystemDown, Retry, GiveUp,
                          Call, Served, NotServed, Hangs, Connects, unitVars
    <2> QED
        BY <1>7, <2>1, <2>2 DEF CliStep
<1> QED
    BY <1>2, <1>3, <1>4, <1>5, <1>6, <1>7 DEF Next, vars, unitVars

(***************************************************************************)
(* lib.rs, prepare_socket: when nothing goes wrong, however many daemons   *)
(* commands and systemd start at once and remove each other's files, once  *)
(* they have settled one of those that serve is where commands look.       *)
(***************************************************************************)
THEOREM SettledReachable == Spec => []SettlesReachable
<1>1. Init => Settling
    BY DEF Init, Settling, UnitFirst, PathSettles, Settled, Path
<1>2. TypeOK /\ Settling => SettlesReachable
    <2> SUFFICES ASSUME TypeOK, Settling, faults = 0, NEW d \in Daemon, dpc[d] = "serve",
                        \A e \in Daemon : dpc[e] \in {"off", "serve"}
                 PROVE  /\ sock[daemon_socket] \in Daemon
                        /\ dpc[sock[daemon_socket]] = "serve"
        BY DEF SettlesReachable, Serving
    <2>1. \A p \in Path : PathSettles(p)
        BY DEF Settling
    <2>2. sock[at[d]] # NoDaemon /\ at[d] \in Path
        BY <2>1 DEF TypeOK, PathSettles, Settled
    <2>3. daemon_socket \in Path /\ sock[daemon_socket] # NoDaemon
        BY <2>2 DEF daemon_socket, Path
    <2> QED
        BY <2>1, <2>3 DEF PathSettles, Settled
<1>3. IInv => TypeOK
    BY DEF IInv
<1> QED
    BY <1>1, <1>2, <1>3, SettlingStep, LifetimeInvariance, PTL DEF Spec
=============================================================================
