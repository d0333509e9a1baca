-------------------------------- MODULE Lifetime --------------------------------
(***************************************************************************)
(* How nealsd starts, becomes reachable and stops, and how the CLI finds   *)
(* or starts one.  There are two socket paths: that of the systemd unit    *)
(* counts whenever there is a file at it, else that of the user.  Daemons  *)
(* and commands find out for themselves, and again each time.  A daemon    *)
(* decides with a few separate system calls whether another one runs at    *)
(* its path, and removes the path when it ends.                            *)
(*                                                                         *)
(* Where the unit is installed, systemd runs one daemon.  A command that   *)
(* gets no answer and finds no file of the unit's starts a daemon itself,  *)
(* there too, and asks again.                                              *)
(***************************************************************************)
EXTENDS Naturals, FiniteSets

CONSTANTS
    Daemon,         \* nealsd processes, living or not
    Cli,            \* commands that need the daemon
    NoDaemon,
    Modes,          \* may the unit be installed: a set of Booleans
    Asking,         \* bound: the commands that run, with the unit and without
    Faults,         \* what may happen to a daemon: "term", "crash", "caddy"
    MaxFaults       \* bound: how often

ASSUME LifetimeAssumption ==
    /\ NoDaemon \notin Daemon
    /\ Modes \subseteq BOOLEAN
    /\ Asking \in [BOOLEAN -> SUBSET Cli]
    /\ Faults \subseteq {"term", "crash", "caddy"}
    /\ MaxFaults \in Nat

Path == {"system", "user"}

VARIABLES
    sock,           \* the daemon that bound the file at each socket path
    at,             \* the path a daemon has chosen
    listening,      \* daemons whose listener is open
    dpc,            \* how far each daemon is
    ups,            \* daemons that run projects
    cpc,            \* how far each command is
    peer,           \* the daemon at the other end of its connection
    started,        \* it has started a daemon
    main,           \* the daemon of the unit; until its directory is removed
    unit,           \* what systemd knows of it: "active", "failed", "inactive"
    faults,         \* how many faults happened
    system,         \* the unit is installed; never changes
    overlap         \* history: at one path, a daemon got ready while another
                    \* got ready or ended

cliVars == <<cpc, peer, started>>
unitVars == <<main, unit>>
vars == <<sock, at, listening, dpc, ups, cliVars, unitVars, faults, overlap, system>>

-----------------------------------------------------------------------------
DaemonGoto(d, label) == dpc' = [dpc EXCEPT ![d] = label]

CliGoto(c, label) == cpc' = [cpc EXCEPT ![c] = label]

\* Where a command, or a daemon not run by systemd, looks for the socket.
daemon_socket == IF sock["system"] # NoDaemon THEN "system" ELSE "user"

\* Nobody answers at a path.
Refused(p) == sock[p] \notin listening

Init ==
    /\ sock = [p \in Path |-> NoDaemon] /\ listening = {}
    /\ at = [d \in Daemon |-> "user"]
    /\ dpc = [d \in Daemon |-> "off"]
    /\ ups = {}
    /\ cpc = [c \in Cli |-> "idle"]
    /\ peer = [c \in Cli |-> NoDaemon]
    /\ started = [c \in Cli |-> FALSE]
    /\ main = NoDaemon /\ unit = "inactive"
    /\ faults = 0
    /\ overlap = FALSE
    /\ system \in Modes

-----------------------------------------------------------------------------
(* nealsd *)

\* Between the first look at the path and listening at it, and between the end
\* of listening and the removal of the path.
Unsettled == {"connect", "unlink", "bind", "listen", "stop", "remove"}

Unsettles(d) ==
    overlap' = (overlap
        \/ \E e \in Daemon \ {d} : at[e] = at[d] /\ dpc[e] \in Unsettled)

\* The process is gone: its listener, its connections and its projects
\* (bwrap runs with --die-with-parent) are too, but not the socket file.
Gone(d, outcome) ==
    /\ DaemonGoto(d, "off")
    /\ at' = [at EXCEPT ![d] = "user"]
    /\ listening' = listening \ {d}
    /\ ups' = ups \ {d}
    /\ peer' = [c \in Cli |-> IF peer[c] = d THEN NoDaemon ELSE peer[c]]
    /\ unit' = IF d = main THEN outcome ELSE unit
    /\ UNCHANGED <<main, cpc, started, system>>

\* Variant: whoever ends removes the path.
ExitRemoves(d) ==
    /\ Gone(d, "failed")
    /\ sock' = [sock EXCEPT ![at[d]] = NoDaemon]
    /\ UNCHANGED <<faults, overlap>>

\* run returns an error.
Exit(d) == Gone(d, "failed") /\ UNCHANGED <<sock, faults, overlap>>

\* Each daemon asks for the path once; the unit's own is XDG_RUNTIME_DIR=/run,
\* the same file.
ChoosesPath(d) ==
    /\ dpc[d] = "path"
    /\ at' = [at EXCEPT ![d] = IF d = main THEN "system" ELSE daemon_socket]
    /\ DaemonGoto(d, "exists")
    /\ UNCHANGED <<sock, listening, ups, cliVars, unitVars, faults, overlap, system>>

\* prepare_socket: is there a file at the path?
Exists(d) ==
    /\ dpc[d] = "exists"
    /\ DaemonGoto(d, IF sock[at[d]] = NoDaemon THEN "bind" ELSE "connect")
    /\ Unsettles(d)
    /\ UNCHANGED <<sock, at, listening, ups, cliVars, unitVars, faults, system>>

TakesForStale(d) ==
    /\ DaemonGoto(d, "unlink")
    /\ UNCHANGED <<sock, at, listening, ups, cliVars, unitVars, faults, overlap, system>>

\* Variant: a file that refuses connections is left alone.
ConnectOnly(d) ==
    /\ dpc[d] = "connect"
    /\ \/ /\ Refused(at[d])
          /\ DaemonGoto(d, "bind")
          /\ UNCHANGED <<sock, at, listening, ups, cliVars, unitVars, faults, overlap,
                         system>>
       \/ ~Refused(at[d]) /\ Exit(d)

\* Variant: the file is taken for stale without asking.
ConnectNever(d) == dpc[d] = "connect" /\ TakesForStale(d)

\* Does somebody listen?  Then "nealsd already running".
Connect(d) ==
    /\ dpc[d] = "connect"
    /\ \/ Refused(at[d]) /\ TakesForStale(d)
       \/ ~Refused(at[d]) /\ Exit(d)

\* The stale file is removed, or whatever has taken its place.
Unlink(d) ==
    /\ dpc[d] = "unlink"
    /\ \/ /\ sock[at[d]] # NoDaemon
          /\ sock' = [sock EXCEPT ![at[d]] = NoDaemon]
          /\ DaemonGoto(d, "bind")
          /\ UNCHANGED <<at, listening, ups, cliVars, unitVars, faults, overlap, system>>
       \/ sock[at[d]] = NoDaemon /\ Exit(d)

\* The unit's directory is there from its start until it is removed.
BindsAt(p) == sock[p] = NoDaemon /\ (p = "system" => main # NoDaemon)

\* UnixListener::bind makes the file,
Bind(d) ==
    /\ dpc[d] = "bind"
    /\ \/ /\ BindsAt(at[d])
          /\ sock' = [sock EXCEPT ![at[d]] = d]
          /\ DaemonGoto(d, "listen")
          /\ UNCHANGED <<at, listening, ups, cliVars, unitVars, faults, overlap, system>>
       \/ ~BindsAt(at[d]) /\ Exit(d)

\* and listens with its next system call.
Listen(d) ==
    /\ dpc[d] = "listen"
    /\ listening' = listening \union {d}
    /\ DaemonGoto(d, "caddy")
    /\ UNCHANGED <<sock, at, ups, cliVars, unitVars, faults, overlap, system>>

\* CaddyManager::start; connections wait until it is done.
CaddyStarts(d) ==
    /\ dpc[d] = "caddy"
    /\ DaemonGoto(d, "serve")
    /\ UNCHANGED <<sock, at, listening, ups, cliVars, unitVars, faults, overlap, system>>

Fault(kind) ==
    /\ kind \in Faults
    /\ faults < MaxFaults
    /\ faults' = faults + 1

\* Variant: the daemon lingers without Caddy.
CaddyHangs(d) ==
    /\ dpc[d] = "caddy"
    /\ Fault("caddy")
    /\ DaemonGoto(d, "hung")
    /\ UNCHANGED <<sock, at, listening, ups, cliVars, unitVars, overlap, system>>

CaddyFails(d) ==
    /\ dpc[d] = "caddy"
    /\ Fault("caddy")
    /\ Gone(d, "failed")
    /\ UNCHANGED <<sock, overlap>>

\* SIGTERM: select! drops the accept loop and with it the listener.  Requests
\* that were accepted are tasks of their own and go on.
Term(d) ==
    /\ dpc[d] = "serve"
    /\ Fault("term")
    /\ Unsettles(d)
    /\ DaemonGoto(d, "stop")
    /\ listening' = listening \ {d}
    /\ UNCHANGED <<sock, at, ups, cliVars, unitVars, system>>

StopAll(d) ==
    /\ dpc[d] = "stop"
    /\ ups' = ups \ {d}
    /\ DaemonGoto(d, "remove")
    /\ UNCHANGED <<sock, at, listening, cliVars, unitVars, faults, overlap, system>>

\* remove_file, of whatever is at the path; then the process ends, without an
\* error.
RemoveSock(d) ==
    /\ dpc[d] = "remove"
    /\ sock' = [sock EXCEPT ![at[d]] = NoDaemon]
    /\ Gone(d, "inactive")
    /\ UNCHANGED <<faults, overlap>>

\* Killed; also by a SIGTERM that comes before run() waits for it, which
\* systemd does not call a failure.
Crash(d) ==
    /\ dpc[d] # "off"
    /\ Fault("crash")
    /\ \E outcome \in {"failed", "inactive"} : Gone(d, outcome)
    /\ UNCHANGED <<sock, overlap>>

-----------------------------------------------------------------------------
(* systemd *)

\* The unit's process is gone, its directory still there.
Leftover == main # NoDaemon /\ dpc[main] = "off"

\* RuntimeDirectory=neals goes when the process is gone, whatever is in it and
\* whoever has put it there.
SystemdCleans ==
    /\ Leftover
    /\ main' = NoDaemon
    /\ sock' = [sock EXCEPT !["system"] = NoDaemon]
    /\ overlap' = (overlap
          \/ \E d \in Daemon : at[d] = "system" /\ dpc[d] \notin {"off", "exists"})
    /\ UNCHANGED <<at, listening, dpc, ups, cliVars, unit, faults, system>>

\* At boot, by `systemctl start`, or again after a failure.
SystemdStarts(d) ==
    /\ system
    /\ main = NoDaemon /\ dpc[d] = "off"
    /\ main' = d /\ unit' = "active"
    /\ DaemonGoto(d, "path")
    /\ UNCHANGED <<sock, at, listening, ups, cliVars, faults, overlap, system>>

\* Restart=on-failure
SystemdRestarts == unit = "failed" /\ \E d \in Daemon : SystemdStarts(d)

-----------------------------------------------------------------------------
(* The CLI: with_daemon *)

\* Bounds the model: a command begins only if all can start a daemon, and
\* systemd its own.
DaemonsLeft ==
    Cardinality({c \in Cli : cpc[c] # "idle" /\ ~started[c]})
          + (IF system /\ main = NoDaemon THEN 1 ELSE 0)
      < Cardinality({d \in Daemon \ {main} : dpc[d] = "off"})

Begin(c) ==
    /\ c \in Asking[system] /\ DaemonsLeft
    /\ cpc[c] = "idle"
    /\ CliGoto(c, "connect")
    /\ started' = [started EXCEPT ![c] = FALSE]
    /\ UNCHANGED <<sock, at, listening, dpc, ups, peer, unitVars, faults, overlap, system>>

\* The connection, if there was one, is closed.
Hangs(c, label) ==
    /\ CliGoto(c, label)
    /\ peer' = [peer EXCEPT ![c] = NoDaemon]
    /\ UNCHANGED <<sock, at, listening, unitVars, faults, overlap, system>>

Connects(c, label) ==
    /\ CliGoto(c, label)
    /\ peer' = [peer EXCEPT ![c] = sock[daemon_socket]]
    /\ UNCHANGED <<sock, at, listening, dpc, ups, started, unitVars, faults, overlap,
                   system>>

\* ping_ok connects and waits for the answer, without a deadline.
Dial(c) ==
    /\ cpc[c] = "connect"
    /\ ~Refused(daemon_socket)
    /\ Connects(c, "ping")

Answers(d) == dpc[d] \in {"serve", "stop", "remove"}

Pong(c) ==
    /\ cpc[c] = "ping" /\ peer[c] # NoDaemon
    /\ Answers(peer[c])
    /\ Hangs(c, "call")
    /\ UNCHANGED <<dpc, ups, started>>

\* Nobody listens, or the listener was closed before it accepted.
NoPong(c) ==
    \/ cpc[c] = "connect" /\ Refused(daemon_socket)
    \/ cpc[c] = "ping" /\ peer[c] \notin listening

\* The first ping failed.
PingFails(c) ==
    /\ NoPong(c) /\ ~started[c]
    /\ Hangs(c, "nopong")
    /\ UNCHANGED <<dpc, ups, started>>

\* There is a file of the unit's (by now): "system nealsd is not running".
SystemDown(c) ==
    /\ cpc[c] = "nopong" /\ daemon_socket = "system"
    /\ Hangs(c, "idle")
    /\ UNCHANGED <<dpc, ups, started>>

\* There is none: start_nealsd, and the loop of pings.
StartNealsd(c, d) ==
    /\ cpc[c] = "nopong" /\ daemon_socket = "user"
    /\ dpc[d] = "off" /\ d # main
    /\ DaemonGoto(d, "path")
    /\ started' = [started EXCEPT ![c] = TRUE]
    /\ Hangs(c, "connect")
    /\ UNCHANGED ups

\* The next of the 40 pings.
Retry(c) ==
    /\ cpc[c] = "ping" /\ NoPong(c) /\ started[c]
    /\ Hangs(c, "connect")
    /\ UNCHANGED <<dpc, ups, started>>

\* Variant: one ping after the start.
GiveUpEarly(c) ==
    /\ NoPong(c) /\ started[c]
    /\ Hangs(c, "idle")
    /\ UNCHANGED <<dpc, ups, started>>

\* Ten seconds have gone: the daemons that were starting have bound or ended.
GiveUp(c) ==
    /\ NoPong(c) /\ started[c]
    /\ \A d \in Daemon :
          dpc[d] \notin {"path", "exists", "connect", "unlink", "bind", "listen"}
    /\ Hangs(c, "idle")
    /\ UNCHANGED <<dpc, ups, started>>

\* call_daemon with the request itself; it is not sent twice.
Call(c) ==
    /\ cpc[c] = "call"
    /\ \/ ~Refused(daemon_socket) /\ Connects(c, "request")
       \/ Refused(daemon_socket) /\ Hangs(c, "idle") /\ UNCHANGED <<dpc, ups, started>>

\* The request is served: an `up`, a `down` or one that changes nothing.
Served(c) ==
    /\ cpc[c] = "request" /\ peer[c] # NoDaemon
    /\ Answers(peer[c])
    /\ ups' \in {ups, ups \union {peer[c]}, ups \ {peer[c]}}
    /\ Hangs(c, "idle")
    /\ UNCHANGED <<dpc, started>>

NotServed(c) ==
    /\ cpc[c] = "request" /\ peer[c] \notin listening
    /\ Hangs(c, "idle")
    /\ UNCHANGED <<dpc, ups, started>>

-----------------------------------------------------------------------------
DaemonStep(d) ==
    ChoosesPath(d) \/ Exists(d) \/ Connect(d) \/ Unlink(d) \/ Bind(d) \/ Listen(d)
      \/ CaddyStarts(d) \/ StopAll(d) \/ RemoveSock(d)

CliStep(c) ==
    \/ Dial(c) \/ Pong(c) \/ PingFails(c) \/ SystemDown(c) \/ Retry(c) \/ GiveUp(c)
    \/ Call(c) \/ Served(c) \/ NotServed(c)
    \/ \E d \in Daemon : StartNealsd(c, d)

Next ==
    \/ \E d \in Daemon : DaemonStep(d) \/ CaddyFails(d) \/ Term(d) \/ Crash(d)
                           \/ SystemdStarts(d)
    \/ SystemdCleans
    \/ \E c \in Cli : Begin(c) \/ CliStep(c)

Spec == Init /\ [][Next]_vars

\* Processes run, and systemd clears and restarts its unit.  Nobody has to start
\* a unit that was stopped.
FairSpec ==
    /\ Spec
    /\ \A d \in Daemon : WF_vars(DaemonStep(d))
    /\ \A c \in Cli : WF_vars(CliStep(c))
    /\ WF_vars(SystemdCleans) /\ WF_vars(SystemdRestarts)

-----------------------------------------------------------------------------
(* Properties *)

TypeOK ==
    /\ sock \in [Path -> Daemon \union {NoDaemon}]
    /\ at \in [Daemon -> Path]
    /\ listening \subseteq Daemon
    /\ dpc \in [Daemon -> {"off", "path", "exists", "connect", "unlink", "bind",
                           "listen", "caddy", "serve", "stop", "remove"}]
    /\ ups \subseteq Daemon
    /\ cpc \in [Cli -> {"idle", "connect", "ping", "nopong", "call", "request"}]
    /\ peer \in [Cli -> Daemon \union {NoDaemon}]
    /\ started \in [Cli -> BOOLEAN]
    /\ main \in Daemon \union {NoDaemon}
    /\ unit \in {"active", "failed", "inactive"}
    /\ faults \in 0..MaxFaults
    /\ overlap \in BOOLEAN
    /\ system \in BOOLEAN

Serving == {d \in Daemon : dpc[d] = "serve"}

(***************************************************************************)
(* As long as no daemon gets ready while another one gets ready or ends at *)
(* the same path, and systemd does not clear its directory under one that  *)
(* commands have started, a daemon that serves is the one at the path it   *)
(* chose: at most one per path.  One that comes later finds it and gives   *)
(* up, one that comes after a crash clears what is left.                   *)
(***************************************************************************)
ServesAlone == overlap \/ \A d \in Serving : sock[at[d]] = d

(***************************************************************************)
(* When nothing goes wrong, daemons that started at the same time, systemd *)
(* or commands starting them, settle on one that can be reached, also when *)
(* they remove each other's files.                                         *)
(***************************************************************************)
SettlesReachable ==
    faults = 0 /\ Serving # {} /\ (\A d \in Daemon : dpc[d] \in {"off", "serve"})
      => sock[daemon_socket] \in Serving

(***************************************************************************)
(* `neals status` asks the daemon that runs the projects.                  *)
(***************************************************************************)
StatusSeesProjects == \A d \in ups : dpc[d] = "serve" => sock[daemon_socket] = d

(***************************************************************************)
(* Every command ends: no ping or request waits for ever on a daemon that  *)
(* starts, fails, stops or dies, although neither has a deadline.          *)
(***************************************************************************)
CommandsEnd == \A c \in Cli : cpc[c] # "idle" ~> cpc[c] = "idle"

(***************************************************************************)
(* Without the unit, and when nothing goes wrong, every command reaches a  *)
(* daemon, even if all of them start daemons at once.                      *)
(***************************************************************************)
CommandsAsk ==
    ~system /\ [](faults = 0) =>
      \A c \in Cli : cpc[c] = "connect" ~> cpc[c] = "call"

\* The unit's daemon runs, but the file at its path is another daemon's.
Robbed == unit = "active" /\ sock["system"] \notin {main, NoDaemon}

(***************************************************************************)
(* Who tries again and again gets through again and again, whatever daemons*)
(* that died, failed or stopped have left at the socket paths, and also    *)
(* after the unit was stopped for good; but not past the dead file of an   *)
(* ad-hoc daemon that has taken the unit's path from a running one.        *)
(***************************************************************************)
TriesSucceed ==
    \A c \in Cli : []<>(cpc[c] = "connect") => []<>(cpc[c] = "call" \/ Robbed)
=============================================================================
