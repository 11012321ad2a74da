-------------------------------- MODULE Server --------------------------------
(***************************************************************************)
(* The server process from its start to its end (main.cpp, server.cpp):    *)
(* the accept loop, the HttpSession of each connection                     *)
(* (http_session.cpp), the references that decide whether ~Server runs,    *)
(* and the tunnel (VKTunnel).                                              *)
(*                                                                         *)
(* One thread runs all handlers, and each action of the server is one.     *)
(* http::write is synchronous: while a client does not take its answer,    *)
(* the thread stands in the handler and nothing else runs.  It throws when *)
(* the client has gone, as remote_endpoint() does, and nothing between     *)
(* these calls and main catches it.                                        *)
(***************************************************************************)
EXTENDS VKTunnel, Sequences, FiniteSets

CONSTANTS
    Conns,       \* connections that clients make during a behaviour
    NoConn,      \* none of them
    MaxOpen      \* the descriptors left for connections

ASSUME NoConnAssumption == NoConn \notin Conns
ASSUME MaxOpenAssumption == MaxOpen \in Nat \ {0}
ASSUME ObjectsAssumption == Conns \intersect {"server", "controller", "player"} = {}

VARIABLES
    peer,              \* each client: before its connection, connected, gone
    session,           \* the session of each connection, see SessionStates
    backlog,           \* established connections that wait in the kernel
    accepting,         \* an async_accept is pending
    writing,           \* the connection whose http::write holds the thread
    playback_session,  \* the connection whose session playback_session_ keeps
    frame_callback     \* who made the player set frame_callback_, which stays set

vars == <<tunnelVars, peer, session, backlog, accepting, writing,
          playback_session, frame_callback>>

(***************************************************************************)
(* "none" before accept; "handshake" and "reading" of an HttpSession;      *)
(* "websocket" after the upgrade; "kept": the WebSocketSession's do_run    *)
(* has ended but playback_session_ holds it, and with it the socket and    *)
(* the Server; "over".                                                     *)
(***************************************************************************)
SessionStates == {"none", "handshake", "reading", "websocket", "kept", "over"}

TypeOK ==
    /\ TunnelTypeOK
    /\ peer \in [Conns -> {"away", "here", "gone"}]
    /\ session \in [Conns -> SessionStates]
    /\ backlog \in Seq(Conns)
    /\ accepting \in BOOLEAN
    /\ writing \in Conns \union {NoConn}
    /\ playback_session \in Conns \union {NoConn}
    /\ frame_callback \in Conns \union {NoConn}

Init ==
    /\ TunnelInit
    /\ peer = [c \in Conns |-> "away"]
    /\ session = [c \in Conns |-> "none"]
    /\ backlog = <<>>
    /\ accepting = FALSE
    /\ writing = NoConn
    /\ playback_session = NoConn
    /\ frame_callback = NoConn

players == <<playback_session, frame_callback>>

connections == <<peer, session, backlog, accepting, writing, players>>

-----------------------------------------------------------------------------
(* Clients and the kernel. *)

\* The constructor listens before it sets the tunnel up; from then on the
\* kernel completes connections.
Connect(c) ==
    /\ phase \in {"setup", "serving"}
    /\ peer[c] = "away"
    /\ peer' = [peer EXCEPT ![c] = "here"]
    /\ backlog' = Append(backlog, c)
    /\ UNCHANGED <<tunnelVars, session, accepting, writing, players>>

\* The client resets the connection or its host is lost.
PeerLeaves(c) ==
    /\ peer[c] = "here" /\ session[c] # "over"
    /\ peer' = [peer EXCEPT ![c] = "gone"]
    /\ UNCHANGED <<tunnelVars, session, backlog, accepting, writing, players>>

-----------------------------------------------------------------------------
(* The process. *)

\* make_server calls run() when the constructor has returned.
Started == accepting' = (phase' = "serving")

StartServer ==
    /\ StartFails \/ StartDirect \/ StartWithTunnel
    /\ Started
    /\ UNCHANGED <<peer, session, backlog, writing, players>>

ServeAfterSetup ==
    /\ SetupEnds
    /\ Started
    /\ UNCHANGED <<peer, session, backlog, writing, players>>

TunnelStep ==
    /\ Outside
    /\ UNCHANGED connections

\* The sockets go with the io_context: every client sees a reset.
DropSockets ==
    /\ session' = [c \in Conns |-> IF peer[c] = "away" THEN session[c] ELSE "over"]
    /\ backlog' = <<>>
    /\ accepting' = FALSE
    /\ writing' = NoConn

(***************************************************************************)
(* What decides whether ~Server runs when main has let go of the Server    *)
(* and the io_context of its handlers: the shared_ptrs that the objects    *)
(* hold to each other.  The player's frame_callback_ captures the          *)
(* controller, and stop_playback does not clear it.                        *)
(***************************************************************************)
Objects == {"server", "controller", "player"} \union Conns

Unless(c, none) == {c} \ {none}

\* The callback captures the session as well.
RefsWithSession(o) ==
    CASE o = "server"     -> {"controller"}
      [] o = "controller" -> {"player"} \union Unless(playback_session, NoConn)
      [] o = "player"     -> IF frame_callback = NoConn THEN {}
                                                       ELSE {"controller", frame_callback}
      [] OTHER            -> {"server", "controller"}

\* A WebSocketSession refers to the Server and its controller.  (An HttpSession
\* refers to the Server, and nothing but a handler to it.)
Refs(o) ==
    CASE o = "server"     -> {"controller"}
      [] o = "controller" -> {"player"} \union Unless(playback_session, NoConn)
      [] o = "player"     -> IF frame_callback = NoConn THEN {} ELSE {"controller"}
      [] OTHER            -> {"server", "controller"}

\* Objects that something among them refers to are never destroyed.
KeptByCycle(S) == \A o \in S : \E p \in S : o \in Refs(p)

ServerRetained == \E S \in SUBSET Objects : "server" \in S /\ KeptByCycle(S)

Die ==
    /\ Unwind(ServerRetained)
    /\ DropSockets
    /\ UNCHANGED <<peer, players>>

EndProcess ==
    /\ Exit
    /\ playback_session' = NoConn /\ frame_callback' = NoConn
    /\ UNCHANGED <<peer, session, backlog, accepting, writing>>

KillServer ==
    /\ Kill
    /\ DropSockets
    /\ playback_session' = NoConn /\ frame_callback' = NoConn
    /\ UNCHANGED peer

-----------------------------------------------------------------------------
(* Server::do_accept *)

Idle == phase = "serving" /\ writing = NoConn

Open == {c \in Conns : session[c] \in {"handshake", "reading", "websocket", "kept"}}

DescriptorLeft == Cardinality(Open) < MaxOpen

Accept ==
    /\ Idle /\ accepting /\ backlog # <<>> /\ DescriptorLeft
    /\ session' = [session EXCEPT ![Head(backlog)] = "handshake"]
    /\ backlog' = Tail(backlog)
    /\ UNCHANGED <<tunnelVars, peer, accepting, writing, players>>

\* remote_endpoint() of a connection that was reset while it waited.
AcceptThrows ==
    /\ Idle /\ accepting /\ backlog # <<>> /\ DescriptorLeft
    /\ peer[Head(backlog)] = "gone"
    /\ Die

\* do_accept is called for a new connection only.
GivesUp ==
    /\ Idle /\ accepting /\ backlog # <<>> /\ ~DescriptorLeft
    /\ accepting' = FALSE
    /\ UNCHANGED <<tunnelVars, peer, session, backlog, writing, players>>

\* accept reports an error: it is logged and do_accept is called again at once,
\* so the thread spins until a session ends.
AcceptFails ==
    /\ Idle /\ accepting /\ backlog # <<>> /\ ~DescriptorLeft
    /\ UNCHANGED vars

-----------------------------------------------------------------------------
(* HttpSession: one request for each connection. *)

\* The last reference to the session goes, and its socket with it.
Finish(c) ==
    /\ session' = [session EXCEPT ![c] = "over"]
    /\ UNCHANGED <<tunnelVars, peer, backlog, accepting, players>>

HandshakeDone(c) ==
    /\ Idle
    /\ session[c] = "handshake" /\ peer[c] = "here"
    /\ session' = [session EXCEPT ![c] = "reading"]
    /\ UNCHANGED <<tunnelVars, peer, backlog, accepting, writing, players>>

\* async_handshake or async_read reports an error (the client has gone, or
\* speaks no TLS or HTTP): the handler logs it and forgets the session.
SessionFails(c) ==
    /\ Idle
    /\ session[c] \in {"handshake", "reading"}
    /\ Finish(c)
    /\ UNCHANGED writing

Upgrade(c) ==
    /\ Idle
    /\ session[c] = "reading"
    /\ session' = [session EXCEPT ![c] = "websocket"]
    /\ UNCHANGED <<tunnelVars, peer, backlog, accepting, writing, players>>

Methods == {"GET", "DELETE", "OPTIONS"}
Targets == {"/cameras", "/api", "/tunnel_status", "/test_tunnel", "/recordings",
            "/recordings/file", "/page"}

\* handle_request's tests, in its order.
Route(method, target) ==
    CASE method = "OPTIONS" -> "preflight"
      [] method # "OPTIONS" /\ target \in Targets \ {"/recordings/file", "/page"} -> target
      [] method = "DELETE" /\ target = "/recordings/file" -> "delete"
      [] OTHER -> "file"

\* Answers longer than the socket's send buffer.
Long == {"/recordings", "file"}

\* exists() and remove() throw, on an error of the disk or for a name such as the
\* empty one, which names the directory itself.  The errors of the listing are
\* caught, and those of reading a page end in 404 or an empty answer.
ThrowsOnDisk(route) == route = "delete"

\* The answer fits in the send buffer, or the client takes it.
Respond(c, route) ==
    /\ Idle
    /\ session[c] = "reading"
    /\ Finish(c)
    /\ UNCHANGED writing

RespondBlocks(c, route) ==
    /\ Idle
    /\ session[c] = "reading" /\ peer[c] = "here"
    /\ route \in Long
    /\ writing' = c
    /\ UNCHANGED <<tunnelVars, peer, session, backlog, accepting,
                   players>>

\* The client takes the rest of its answer.
WriteEnds(c) ==
    /\ phase = "serving"
    /\ writing = c /\ peer[c] = "here"
    /\ writing' = NoConn
    /\ Finish(c)

\* http::write finds the connection reset, or the file cannot be removed: the
\* exception leaves the read handler.
RespondThrows(c, route) ==
    /\ Idle
    /\ session[c] = "reading"
    /\ peer[c] = "gone" \/ ThrowsOnDisk(route)
    /\ Die

WriteThrows(c) ==
    /\ phase = "serving"
    /\ writing = c /\ peer[c] = "gone"
    /\ Die

Routes == {Route(method, target) : method \in Methods, target \in Targets}

Answer(c) == \E route \in Routes :
    Respond(c, route) \/ RespondBlocks(c, route) \/ RespondThrows(c, route)

-----------------------------------------------------------------------------
(* WebSocketSession, as far as the sockets and the Server depend on it. *)

\* The session that was kept is not let go.
Unreleased == session

\* playback_session_ is given up: a session that only it kept is destroyed.
Released == [c \in Conns |-> IF session[c] = "kept" THEN "over" ELSE session[c]]

\* playback_start, with a file that loads or does not.
StartPlayback(c) ==
    /\ Idle
    /\ session[c] = "websocket"
    /\ \/ playback_session' = c /\ frame_callback' = c
       \/ playback_session' = NoConn /\ UNCHANGED frame_callback
    /\ session' = Released
    /\ UNCHANGED <<tunnelVars, peer, backlog, accepting, writing>>

StopPlayback(c) ==
    /\ Idle
    /\ session[c] = "websocket"
    /\ playback_session' = NoConn
    /\ session' = Released
    /\ UNCHANGED <<tunnelVars, peer, backlog, accepting, writing, frame_callback>>

\* The player reads the header of a recording that was cut there (stoul): the
\* exception leaves its timer's handler, see Playback.
PlaybackThrows ==
    /\ Idle
    /\ playback_session # NoConn
    /\ Die

\* do_run ends: the client closed, or the stream's timeout closed the socket.
SocketEnds(c) ==
    /\ Idle
    /\ session[c] = "websocket"
    /\ session' = [session EXCEPT ![c] = IF playback_session = c THEN "kept" ELSE "over"]
    /\ UNCHANGED <<tunnelVars, peer, backlog, accepting, writing, players>>

-----------------------------------------------------------------------------
\* The server is off for good.
Over == phase = "off" /\ start = MaxStarts /\ UNCHANGED vars

Client(c) == Connect(c) \/ PeerLeaves(c)

Process == StartServer \/ ServeAfterSetup \/ EndProcess \/ KillServer

AcceptHandler == Accept \/ AcceptThrows \/ AcceptFails

Handler(c) ==
    \/ HandshakeDone(c) \/ SessionFails(c) \/ Upgrade(c) \/ Answer(c)
    \/ WriteEnds(c) \/ WriteThrows(c)
    \/ StartPlayback(c) \/ StopPlayback(c) \/ SocketEnds(c)

Next ==
    \/ Process \/ TunnelStep
    \/ AcceptHandler \/ PlaybackThrows
    \/ \E c \in Conns : Client(c) \/ Handler(c)
    \/ Over

Spec == Init /\ [][Next]_vars

\* The io_context takes ready handlers in turn, so a connection that can be
\* accepted again and again is.
FairSpec == Spec /\ SF_vars(Accept)

-----------------------------------------------------------------------------
\* When an exception ends a server that knows its address and plays nothing, no
\* tunnel is left behind, its own or a predecessor's, whatever has been played
\* before: no shared_ptr keeps ~Server from running.  Only a launch that came
\* too late for the five seconds may still follow, with its own tunnel.
TunnelsEndWithServer ==
    phase = "unwinding" /\ url # 0 /\ playback_session = NoConn
        => tunnels \subseteq IF launcher = "late" THEN {start} ELSE {}

Waiting(c) == \E i \in 1..Len(backlog) : backlog[i] = c

(***************************************************************************)
(* No connection is lost between the kernel, its session and the player.   *)
(***************************************************************************)

\* The kernel has each connection once, until it has a session.
BacklogHoldsOnce == \A i, j \in 1..Len(backlog) : backlog[i] = backlog[j] => i = j

EveryClientPlaced ==
    \A c \in Conns :
        /\ Waiting(c) <=> peer[c] # "away" /\ session[c] = "none"
        /\ session[c] # "none" => peer[c] # "away"

\* Descriptors are given back: those in use never exceed the limit.
DescriptorsBounded == IsFiniteSet(Open) /\ Cardinality(Open) <= MaxOpen

\* Only a session that is being answered holds the thread.
WriterIsReading ==
    writing # NoConn => phase = "serving" /\ session[writing] = "reading"

\* One session at most outlives its connection: the one the player keeps.
OnlyPlayerKeeps ==
    /\ \A c \in Conns : session[c] = "kept" => playback_session = c
    /\ playback_session # NoConn =>
        phase = "unwinding" \/ session[playback_session] \in {"websocket", "kept"}

NothingOutlivesRun ==
    phase \in {"off", "unwinding"} => backlog = <<>> /\ Open = {}

\* A client that has connected waits in the kernel exactly until it has a
\* session, and its session's descriptor counts until the session is over,
\* through every end of the process and whatever fails or throws.
ConnectionsAccounted ==
    /\ BacklogHoldsOnce
    /\ EveryClientPlaced
    /\ DescriptorsBounded
    /\ WriterIsReading
    /\ OnlyPlayerKeeps
    /\ NothingOutlivesRun

\* While the server is able to accept again and again, no connection is left
\* waiting: neither failed accepts nor other sessions break the accept loop.
NewcomersServed ==
    []<>(Idle /\ DescriptorLeft) => \A c \in Conns : Waiting(c) ~> ~Waiting(c)
=============================================================================
