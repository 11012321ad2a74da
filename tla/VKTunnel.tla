------------------------------- MODULE VKTunnel -------------------------------
(***************************************************************************)
(* The vk-tunnel process that makes the server reachable from outside      *)
(* (src/src/vk_tunnel.cpp), and the starts and ends of the server process  *)
(* that launches it, reads its address and is meant to stop it.            *)
(*                                                                         *)
(* The server, the shell it launches and the tunnel share only the file    *)
(* vk_tunnel.log and a sleep of five seconds.  The file and the tunnels    *)
(* outlive the server.  Starts of the server are numbered, and a tunnel    *)
(* has the number of the start that launched it.                           *)
(***************************************************************************)
EXTENDS Naturals

CONSTANT MaxStarts     \* bound: how often the server is started

ASSUME StartsAssumption == MaxStarts \in Nat \ {0}

VARIABLES
    phase,       \* of the server process, see Phases
    start,       \* the number of its last start, 0 before the first
    launcher,    \* tunnel_thread, see Launchers
    result,      \* setup_tunnel's result # 0: the command could not be run
    url,         \* cloud_tunnel_url_: the tunnel whose address it is, or 0
    tunnels,     \* the vk-tunnel processes that run
    log,         \* the tunnels whose addresses are in vk_tunnel.log
    fresh        \* history: addresses written since the server was started

tunnelVars == <<phase, start, launcher, result, url, tunnels, log, fresh>>

(***************************************************************************)
(* "off": there is no server process.  "setup": the constructor listens    *)
(* and sleeps in setup_tunnel.  "serving": in run() of the io_context.     *)
(* "unwinding": an exception has left run(), and main has destroyed what   *)
(* it owns.                                                                *)
(***************************************************************************)
Phases == {"off", "setup", "serving", "unwinding"}

\* The detached thread has yet to run the command, ran it while setup_tunnel
\* waited, or ran it later.
Launchers == {"none", "pending", "launched", "late"}

Starts == 1..MaxStarts

TunnelTypeOK ==
    /\ phase \in Phases
    /\ start \in 0..MaxStarts
    /\ launcher \in Launchers
    /\ result \in BOOLEAN
    /\ url \in 0..MaxStarts
    /\ tunnels \subseteq Starts
    /\ log \subseteq Starts
    /\ fresh \subseteq Starts

TunnelInit ==
    /\ phase = "off"
    /\ start = 0
    /\ launcher = "none"
    /\ result = FALSE
    /\ url = 0
    /\ tunnels = {}
    /\ log = {}
    /\ fresh = {}

-----------------------------------------------------------------------------
StartProcess ==
    /\ phase = "off"
    /\ start < MaxStarts
    /\ start' = start + 1
    /\ url' = 0
    /\ result' = FALSE
    /\ fresh' = {}
    /\ UNCHANGED <<tunnels, log>>

\* The certificate does not load or the port is taken: main returns at once.
StartFails ==
    /\ StartProcess
    /\ UNCHANGED <<phase, launcher>>

\* vk-tunnel is not installed: "Direct connection only".
StartDirect ==
    /\ StartProcess
    /\ phase' = "serving"
    /\ UNCHANGED launcher

\* setup_tunnel starts its thread and goes to sleep.
StartWithTunnel ==
    /\ StartProcess
    /\ phase' = "setup"
    /\ launcher' = "pending"

Moment == IF phase = "setup" THEN "launched" ELSE "late"

\* ">>" instead of ">".
LaunchAppends ==
    /\ launcher = "pending"
    /\ launcher' = Moment
    /\ tunnels' = tunnels \union {start}
    /\ UNCHANGED <<phase, start, result, url, log, fresh>>

\* The shell truncates the log and starts the tunnel in the background.
\* system() returns 0, which result holds already.  After setup_tunnel has
\* returned this is a write to a dead stack frame: if it does harm the process
\* dies, which Kill allows at any time.
Launch ==
    /\ launcher = "pending"
    /\ launcher' = Moment
    /\ tunnels' = tunnels \union {start}
    /\ log' = {}
    /\ UNCHANGED <<phase, start, result, url, fresh>>

\* There is no shell, or no process to run it.
LaunchFails ==
    /\ launcher = "pending"
    /\ launcher' = Moment
    /\ result' = (result \/ phase = "setup")
    /\ UNCHANGED <<phase, start, url, tunnels, log, fresh>>

\* A tunnel is up, or up again, and writes its address to the log.
Announce(t) ==
    /\ t \in tunnels
    /\ log' = log \union {t}
    /\ fresh' = fresh \union {t}
    /\ UNCHANGED <<phase, start, launcher, result, url, tunnels>>

TunnelEnds(t) ==
    /\ t \in tunnels
    /\ tunnels' = tunnels \ {t}
    /\ UNCHANGED <<phase, start, launcher, result, url, log, fresh>>

\* What setup_tunnel can return: an address that the log holds, if the command
\* could be run.
FoundUrl == IF result \/ log = {} THEN {0} ELSE log

\* The five seconds are over; setup_tunnel and the constructor return.
SetupEnds ==
    /\ phase = "setup"
    /\ phase' = "serving"
    /\ url' \in FoundUrl
    /\ UNCHANGED <<start, launcher, result, tunnels, log, fresh>>

\* VKTunnel::cleanup without pkill.
CleanupLog ==
    /\ log' = {}
    /\ UNCHANGED tunnels

\* VKTunnel::cleanup stops every vk-tunnel process.
CleanupTunnels ==
    /\ tunnels' = {}
    /\ log' = {}

\* An exception leaves run().  ~Server runs unless something still refers to
\* the server, and cleans up if it had an address.
Unwind(retained) ==
    /\ phase = "serving"
    /\ phase' = "unwinding"
    /\ IF url # 0 /\ ~retained THEN CleanupTunnels ELSE UNCHANGED <<tunnels, log>>
    /\ UNCHANGED <<start, launcher, result, url, fresh>>

\* main returns 1, and the detached thread ends with the process.
Exit ==
    /\ phase = "unwinding"
    /\ phase' = "off"
    /\ launcher' = "none"
    /\ UNCHANGED <<start, result, url, tunnels, log, fresh>>

\* A signal ends the process (none is handled, so Ctrl-C does): no destructors.
Kill ==
    /\ phase # "off"
    /\ phase' = "off"
    /\ launcher' = "none"
    /\ UNCHANGED <<start, result, url, tunnels, log, fresh>>

Outside == Launch \/ LaunchFails \/ \E t \in Starts : Announce(t) \/ TunnelEnds(t)

-----------------------------------------------------------------------------
\* When the command ran in time, the address the server takes was written
\* since its start: the truncation has removed what a killed predecessor left.
\* Late, the five seconds are no synchronisation and the log is an old one.
UrlNotStale ==
    [][phase = "setup" /\ phase' = "serving" /\ url' # 0 /\ launcher = "launched"
           => url' \in fresh]_tunnelVars

\* With this it is inductive.
LogIsFresh == phase = "setup" /\ launcher = "launched" /\ ~result => log \subseteq fresh
=============================================================================
