---------------------------- MODULE Server_proofs ----------------------------
(***************************************************************************)
(* Proofs of the safety properties of Server for every number of clients,  *)
(* descriptors and starts.  Most handlers leave the tunnel and the accept  *)
(* loop alone; StepCases says so once, and the inductive steps look at the *)
(* other actions only.                                                     *)
(***************************************************************************)
EXTENDS Server, FiniteSetTheorems, TLAPS

USE DEF players

\* The accept loop is armed exactly while the server serves: the safety half of
\* NewcomersServed (the self->do_accept() that ends every accept handler).
AcceptLoopAlive == accepting <=> phase = "serving"

\* The handlers that neither touch the tunnel nor end the server.
Undisturbed ==
    /\ UNCHANGED <<tunnelVars, accepting>>
    /\ phase # "serving" => UNCHANGED playback_session

\* A step is one of the process or its tunnel, or leaves both undisturbed.
LEMMA StepCases ==
    ASSUME [Next]_vars
    PROVE  Undisturbed \/ StartServer \/ ServeAfterSetup \/ TunnelStep
               \/ Die \/ EndProcess \/ KillServer
<1> USE DEF Undisturbed, vars, connections
<1>1. CASE Process \/ TunnelStep \/ Over \/ UNCHANGED vars
  BY <1>1 DEF Process, Over
<1>2. CASE AcceptHandler \/ PlaybackThrows
  BY <1>2 DEF AcceptHandler, Accept, AcceptThrows, AcceptFails, PlaybackThrows
<1>3. CASE \E c \in Conns : Client(c)
  BY <1>3 DEF Client, Connect, PeerLeaves
<1>4. CASE \E c \in Conns : Handler(c)
  <2> PICK c \in Conns : Handler(c)
    BY <1>4
  <2>1. CASE HandshakeDone(c) \/ SessionFails(c) \/ Upgrade(c)
    BY <2>1 DEF HandshakeDone, SessionFails, Upgrade, Finish
  <2>2. CASE Answer(c)
    <3> PICK route \in Routes :
          Respond(c, route) \/ RespondBlocks(c, route) \/ RespondThrows(c, route)
      BY <2>2 DEF Answer
    <3> QED
      BY DEF Respond, RespondBlocks, RespondThrows, Finish
  <2>3. CASE WriteEnds(c) \/ WriteThrows(c)
    BY <2>3 DEF WriteEnds, WriteThrows, Finish
  <2>4. CASE StartPlayback(c) \/ StopPlayback(c) \/ SocketEnds(c)
    BY <2>4 DEF StartPlayback, StopPlayback, SocketEnds, Idle
  <2> QED
    BY <2>1, <2>2, <2>3, <2>4 DEF Handler
<1> QED
  BY <1>1, <1>2, <1>3, <1>4 DEF Next

-----------------------------------------------------------------------------
(* Types *)

\* The thread that is about to launch a tunnel belongs to a start.
Numbered == launcher = "pending" => start \in Starts

TypeInv == TypeOK /\ Numbered

LEMMA ZeroIsNone == 0 \in 0..MaxStarts
BY StartsAssumption

LEMMA TypeInit == Init => TypeInv
<1> SUFFICES ASSUME Init
             PROVE  TypeInv
  OBVIOUS
<1>1. TunnelTypeOK /\ Numbered
  <2>1. url \in 0..MaxStarts /\ start \in 0..MaxStarts
    BY ZeroIsNone DEF Init, TunnelInit
  <2> QED
    BY <2>1 DEF Init, TunnelInit, TunnelTypeOK, Numbered, Phases, Launchers
<1>2. backlog \in Seq(Conns)
  BY DEF Init
<1> QED
  BY <1>1, <1>2 DEF Init, TypeOK, TypeInv, SessionStates

\* The tunnel's variables keep their types in its own steps; only the steps that
\* change them are named.
LEMMA TunnelTypeStep ==
    ASSUME TunnelTypeOK, Numbered,
           \/ StartFails \/ StartDirect \/ StartWithTunnel
           \/ SetupEnds \/ Outside \/ Exit \/ Kill
           \/ \E retained \in BOOLEAN : Unwind(retained)
           \/ UNCHANGED tunnelVars
    PROVE  TunnelTypeOK' /\ Numbered'
<1> USE StartsAssumption DEF TunnelTypeOK, Numbered, Phases, Launchers, Starts
<1>1. CASE StartFails \/ StartDirect \/ StartWithTunnel
  <2>1. StartProcess
    BY <1>1 DEF StartFails, StartDirect, StartWithTunnel
  <2>2. start' \in 1..MaxStarts
    BY <2>1 DEF StartProcess
  <2>3. result' \in BOOLEAN /\ url' \in 0..MaxStarts
    BY <2>1, ZeroIsNone DEF StartProcess
  <2>5. tunnels' \subseteq Starts /\ log' \subseteq Starts /\ fresh' \subseteq Starts
    BY <2>1 DEF StartProcess
  <2>4. phase' \in Phases /\ launcher' \in Launchers
    BY <1>1 DEF StartFails, StartDirect, StartWithTunnel
  <2> QED
    BY <2>2, <2>3, <2>4, <2>5
<1>2. CASE SetupEnds
  BY <1>2 DEF SetupEnds, FoundUrl
<1>3. CASE Outside
  <2>1. CASE Launch \/ LaunchFails
    BY <2>1 DEF Launch, LaunchFails, Moment
  <2>2. CASE \E t \in Starts : Announce(t) \/ TunnelEnds(t)
    BY <2>2 DEF Announce, TunnelEnds
  <2> QED
    BY <1>3, <2>1, <2>2 DEF Outside
<1>4. CASE Exit \/ Kill \/ UNCHANGED tunnelVars
  BY <1>4 DEF Exit, Kill, tunnelVars
<1>5. CASE \E retained \in BOOLEAN : Unwind(retained)
  BY <1>5 DEF Unwind, CleanupTunnels
<1> QED
  BY <1>1, <1>2, <1>3, <1>4, <1>5

\* Every step of the server is one of the tunnel's or leaves it alone.
LEMMA TunnelType ==
    ASSUME TypeInv, [Next]_vars
    PROVE  TunnelTypeOK' /\ Numbered'
<1>1. ServerRetained \in BOOLEAN
  BY DEF ServerRetained
<1>2. \/ StartFails \/ StartDirect \/ StartWithTunnel
      \/ SetupEnds \/ Outside \/ Exit \/ Kill
      \/ \E retained \in BOOLEAN : Unwind(retained)
      \/ UNCHANGED tunnelVars
  BY <1>1, StepCases DEF Undisturbed, StartServer, ServeAfterSetup, TunnelStep,
     Die, EndProcess, KillServer
<1> QED
  BY <1>2, TunnelTypeStep DEF TypeInv, TypeOK

\* The variables of connections.
ConnTypeOK ==
    /\ peer \in [Conns -> {"away", "here", "gone"}]
    /\ session \in [Conns -> SessionStates]
    /\ backlog \in Seq(Conns)
    /\ accepting \in BOOLEAN
    /\ writing \in Conns \union {NoConn}
    /\ playback_session \in Conns \union {NoConn}
    /\ frame_callback \in Conns \union {NoConn}

LEMMA ProcessConnType ==
    ASSUME ConnTypeOK, Process \/ TunnelStep \/ Die \/ UNCHANGED vars
    PROVE  ConnTypeOK'
<1> USE DEF ConnTypeOK, SessionStates, connections
<1>1. CASE StartServer \/ ServeAfterSetup
  BY <1>1 DEF StartServer, ServeAfterSetup, Started
<1>2. CASE EndProcess \/ TunnelStep \/ UNCHANGED vars
  BY <1>2 DEF EndProcess, TunnelStep, vars
<1>3. CASE Die \/ KillServer
  <2>1. DropSockets /\ peer' = peer
    BY <1>3 DEF Die, KillServer
  <2>2. backlog' \in Seq(Conns)
    BY <2>1 DEF DropSockets
  <2>3. session' \in [Conns -> SessionStates]
    BY <2>1 DEF DropSockets
  <2>4. /\ playback_session' \in Conns \union {NoConn}
        /\ frame_callback' \in Conns \union {NoConn}
    BY <1>3 DEF Die, KillServer
  <2> QED
    BY <2>1, <2>2, <2>3, <2>4 DEF DropSockets
<1> QED
  BY <1>1, <1>2, <1>3 DEF Process

LEMMA AcceptConnType ==
    ASSUME ConnTypeOK, Accept \/ AcceptFails
    PROVE  ConnTypeOK'
<1> USE DEF ConnTypeOK, SessionStates
<1>1. CASE Accept
  <2>1. backlog # <<>> /\ backlog \in Seq(Conns)
    BY <1>1 DEF Accept
  <2>2. Tail(backlog) \in Seq(Conns)
    BY <2>1
  <2> QED
    BY <1>1, <2>2 DEF Accept
<1>2. CASE AcceptFails
  BY <1>2 DEF AcceptFails, vars
<1> QED
  BY <1>1, <1>2

LEMMA ClientConnType ==
    ASSUME ConnTypeOK, NEW c \in Conns, Client(c)
    PROVE  ConnTypeOK'
<1> USE DEF ConnTypeOK, SessionStates
<1>1. CASE Connect(c)
  <2>1. Append(backlog, c) \in Seq(Conns)
    OBVIOUS
  <2> QED
    BY <1>1, <2>1 DEF Connect
<1>2. CASE PeerLeaves(c)
  BY <1>2 DEF PeerLeaves
<1> QED
  BY <1>1, <1>2 DEF Client

\* A handler keeps the types, or throws.
LEMMA HandlerConnType ==
    ASSUME ConnTypeOK, NEW c \in Conns, Handler(c), ~Die
    PROVE  ConnTypeOK'
<1> USE DEF ConnTypeOK, SessionStates, Finish
<1>1. CASE HandshakeDone(c) \/ SessionFails(c) \/ Upgrade(c)
  BY <1>1 DEF HandshakeDone, SessionFails, Upgrade
<1>2. CASE Answer(c)
  <2> PICK route \in Routes :
        Respond(c, route) \/ RespondBlocks(c, route) \/ RespondThrows(c, route)
    BY <1>2 DEF Answer
  <2>1. CASE Respond(c, route)
    BY <2>1 DEF Respond
  <2>2. CASE RespondBlocks(c, route)
    BY <2>2 DEF RespondBlocks
  <2> QED
    BY <2>1, <2>2 DEF RespondThrows
<1>3. CASE WriteEnds(c) \/ WriteThrows(c)
  BY <1>3 DEF WriteEnds, WriteThrows
<1>4. CASE StartPlayback(c) \/ StopPlayback(c) \/ SocketEnds(c)
  BY <1>4 DEF StartPlayback, StopPlayback, SocketEnds, Released
<1> QED
  BY <1>1, <1>2, <1>3, <1>4 DEF Handler

LEMMA TypeStep == TypeInv /\ [Next]_vars => TypeInv'
<1> SUFFICES ASSUME TypeInv, [Next]_vars
             PROVE  TypeInv'
  OBVIOUS
<1>1. ConnTypeOK
  BY DEF TypeInv, TypeOK, ConnTypeOK
<1>2. CASE Process \/ TunnelStep \/ Die \/ Over \/ UNCHANGED vars
  <2>1. ConnTypeOK'
    BY <1>1, <1>2, ProcessConnType DEF Over
  <2> QED
    BY <2>1, TunnelType DEF TypeInv, TypeOK, ConnTypeOK
<1>3. CASE AcceptHandler \/ PlaybackThrows
  <2>1. ConnTypeOK'
    BY <1>1, <1>3, AcceptConnType, ProcessConnType
    DEF AcceptHandler, AcceptThrows, PlaybackThrows
  <2> QED
    BY <2>1, TunnelType DEF TypeInv, TypeOK, ConnTypeOK
<1>4. CASE ~Die /\ \E c \in Conns : Client(c) \/ Handler(c)
  <2>1. ConnTypeOK'
    BY <1>1, <1>4, ClientConnType, HandlerConnType
  <2> QED
    BY <2>1, TunnelType DEF TypeInv, TypeOK, ConnTypeOK
<1> QED
  BY <1>2, <1>3, <1>4 DEF Next

\* Every variable keeps its type; url is 0 or the number of a tunnel, and the
\* backlog holds connections (server.cpp, vk_tunnel.cpp, http_session.cpp).
THEOREM TypeCorrect == Spec => []TypeOK
<1>1. Init => TypeInv
  BY TypeInit
<1>2. TypeInv /\ [Next]_vars => TypeInv'
  BY TypeStep
<1>3. TypeInv => TypeOK
  BY DEF TypeInv
<1> QED
  BY <1>1, <1>2, <1>3, PTL DEF Spec

-----------------------------------------------------------------------------
(* The accept loop *)

\* The accept loop never breaks: an async_accept is pending exactly while the
\* server serves, whatever becomes of the connections and of failed accepts.
THEOREM LoopNeverBreaks == Spec => []AcceptLoopAlive
<1>1. Init => AcceptLoopAlive
  BY DEF Init, TunnelInit, AcceptLoopAlive
<1>2. AcceptLoopAlive /\ [Next]_vars => AcceptLoopAlive'
  <2> SUFFICES ASSUME AcceptLoopAlive, [Next]_vars
               PROVE  AcceptLoopAlive'
    OBVIOUS
  <2> USE DEF AcceptLoopAlive
  <2>1. CASE Undisturbed
    BY <2>1 DEF Undisturbed, tunnelVars
  <2>2. CASE StartServer \/ ServeAfterSetup
    BY <2>2 DEF StartServer, ServeAfterSetup, Started
  <2>3. CASE TunnelStep
    BY <2>3 DEF TunnelStep, connections, Outside, Launch, LaunchFails, Announce, TunnelEnds
  <2>4. CASE Die \/ KillServer
    BY <2>4 DEF Die, KillServer, DropSockets, Unwind, Kill
  <2>5. CASE EndProcess
    BY <2>5 DEF EndProcess, Exit
  <2> QED
    BY <2>1, <2>2, <2>3, <2>4, <2>5, StepCases
<1> QED
  BY <1>1, <1>2, PTL DEF Spec

-----------------------------------------------------------------------------
(* The tunnel *)

LEMMA FreshStep == LogIsFresh /\ [Next]_vars => LogIsFresh'
<1> SUFFICES ASSUME LogIsFresh, [Next]_vars
             PROVE  LogIsFresh'
  OBVIOUS
<1> USE DEF LogIsFresh
<1>1. CASE Undisturbed
  BY <1>1 DEF Undisturbed, tunnelVars
<1>2. CASE StartServer \/ ServeAfterSetup
  <2>1. phase' = "setup" => launcher' = "pending"
    BY <1>2 DEF StartServer, ServeAfterSetup, StartFails, StartDirect,
       StartWithTunnel, StartProcess, SetupEnds
  <2> QED
    BY <2>1
<1>3. CASE TunnelStep
  <2>1. CASE Launch \/ LaunchFails
    BY <2>1 DEF Launch, LaunchFails
  <2>2. CASE \E t \in Starts : Announce(t) \/ TunnelEnds(t)
    BY <2>2 DEF Announce, TunnelEnds
  <2> QED
    BY <1>3, <2>1, <2>2 DEF TunnelStep, Outside
<1>4. CASE Die \/ EndProcess \/ KillServer
  BY <1>4 DEF Die, EndProcess, KillServer, Unwind, Exit, Kill
<1> QED
  BY <1>1, <1>2, <1>3, <1>4, StepCases

LEMMA UrlFreshStep ==
    LogIsFresh /\ [Next]_vars =>
        [phase = "setup" /\ phase' = "serving" /\ url' # 0 /\ launcher = "launched"
             => url' \in fresh]_tunnelVars
<1> SUFFICES ASSUME LogIsFresh, [Next]_vars,
                    phase = "setup", phase' = "serving", url' # 0,
                    launcher = "launched"
             PROVE  url' \in fresh
  OBVIOUS
<1>1. ServeAfterSetup
  BY StepCases DEF Undisturbed, tunnelVars, StartServer, StartFails, StartDirect,
     StartWithTunnel, StartProcess, TunnelStep, Outside, Launch, LaunchFails,
     Announce, TunnelEnds, Die, Unwind, EndProcess, Exit, KillServer, Kill
<1>2. url' \in FoundUrl
  BY <1>1 DEF ServeAfterSetup, SetupEnds
<1>3. ~result /\ url' \in log
  BY <1>2 DEF FoundUrl
<1> QED
  BY <1>3 DEF LogIsFresh

\* When the command ran in time, the address that the server takes was written
\* since it started (the ">" of vk_tunnel.cpp:48 removes a predecessor's).
THEOREM UrlIsNotStale == Spec => UrlNotStale
<1>1. Init => LogIsFresh
  BY DEF Init, TunnelInit, LogIsFresh
<1>2. LogIsFresh /\ [Next]_vars => LogIsFresh'
  BY FreshStep
<1>3. LogIsFresh /\ [Next]_vars =>
          [phase = "setup" /\ phase' = "serving" /\ url' # 0
               /\ launcher = "launched" => url' \in fresh]_tunnelVars
  BY UrlFreshStep
<1> QED
  BY <1>1, <1>2, <1>3, PTL DEF Spec, UrlNotStale

\* While nothing plays, the shared_ptrs to the Server lie on no cycle: only a
\* session refers to it, only the controller to a session, and that is the one in
\* playback_session_.
LEMMA OnlyPlaybackRetains ==
    ASSUME playback_session \in Conns \union {NoConn}, ServerRetained
    PROVE  playback_session # NoConn
<1> PICK S \in SUBSET Objects : "server" \in S /\ KeptByCycle(S)
  BY DEF ServerRetained
<1>1. \A c \in Conns : c # "server" /\ c # "controller" /\ c # "player"
  BY ObjectsAssumption
<1>2. PICK p \in S : "server" \in Refs(p)
  BY DEF KeptByCycle
<1>3. p \in Conns
  <2>1. p \in {"server", "controller", "player"} \union Conns
    BY DEF Objects
  <2>2. p # "server" /\ p # "player"
    BY <1>2 DEF Refs
  <2>3. p # "controller"
    BY <1>1, <1>2 DEF Refs, Unless
  <2> QED
    BY <2>1, <2>2, <2>3
<1>4. PICK q \in S : p \in Refs(q)
  BY DEF KeptByCycle
<1>5. q = "controller"
  BY <1>1, <1>3, <1>4 DEF Refs
<1> QED
  BY <1>1, <1>3, <1>4, <1>5 DEF Refs, Unless

LEMMA CleanStep ==
    TypeInv /\ TunnelsEndWithServer /\ [Next]_vars => TunnelsEndWithServer'
<1> SUFFICES ASSUME TypeInv, TunnelsEndWithServer, [Next]_vars
             PROVE  TunnelsEndWithServer'
  OBVIOUS
<1> USE DEF TunnelsEndWithServer
<1>1. CASE Undisturbed
  BY <1>1 DEF Undisturbed, tunnelVars
<1>2. CASE StartServer \/ ServeAfterSetup \/ EndProcess \/ KillServer
  <2>1. phase' # "unwinding"
    BY <1>2 DEF StartServer, ServeAfterSetup, StartFails, StartDirect,
       StartWithTunnel, StartProcess, SetupEnds, EndProcess, Exit, KillServer, Kill
  <2> QED
    BY <2>1
<1>3. CASE TunnelStep
  <2>1. UNCHANGED <<phase, start, url, playback_session>>
    BY <1>3 DEF TunnelStep, connections, Outside, Launch, LaunchFails, Announce,
       TunnelEnds
  <2>2. CASE Launch \/ LaunchFails
    <3>1. /\ launcher = "pending"
          /\ phase = "unwinding" => launcher' = "late"
          /\ tunnels' \subseteq tunnels \union {start}
      BY <2>2 DEF Launch, LaunchFails, Moment
    <3> QED
      BY <2>1, <3>1
  <2>3. CASE \E t \in Starts : Announce(t) \/ TunnelEnds(t)
    <3>1. launcher' = launcher /\ tunnels' \subseteq tunnels
      BY <2>3 DEF Announce, TunnelEnds
    <3> QED
      BY <2>1, <3>1
  <2> QED
    BY <1>3, <2>2, <2>3 DEF TunnelStep, Outside
<1>4. CASE Die
  <2>1. playback_session' = NoConn => ~ServerRetained
    BY <1>4, OnlyPlaybackRetains DEF Die, TypeInv, TypeOK
  <2>2. url' # 0 /\ ~ServerRetained => tunnels' = {}
    BY <1>4 DEF Die, Unwind, CleanupTunnels
  <2> QED
    BY <2>1, <2>2
<1> QED
  BY <1>1, <1>2, <1>3, <1>4, StepCases

\* An exception that ends a server which knows its address and plays nothing
\* leaves no tunnel behind, however many sessions are open and whatever has been
\* played: the Server is on no cycle of shared_ptrs, so ~Server stops the tunnels
\* (server.cpp:60), and only a late launch can follow (vk_tunnel.cpp:51).
THEOREM NoTunnelLeftBehind == Spec => []TunnelsEndWithServer
<1>1. Init => TypeInv /\ TunnelsEndWithServer
  BY TypeInit DEF Init, TunnelInit, TunnelsEndWithServer
<1>2. TypeInv /\ TunnelsEndWithServer /\ [Next]_vars
          => TypeInv' /\ TunnelsEndWithServer'
  BY TypeStep, CleanStep
<1> QED
  BY <1>1, <1>2, PTL DEF Spec

-----------------------------------------------------------------------------
(* Connections *)

LEMMA AccountedInit == Init => ConnectionsAccounted
<1> SUFFICES ASSUME Init PROVE ConnectionsAccounted
  OBVIOUS
<1>1. Open = {} /\ Cardinality({}) = 0 /\ IsFiniteSet({})
  BY FS_EmptySet DEF Init, Open
<1>2. DescriptorsBounded
  BY <1>1, MaxOpenAssumption DEF DescriptorsBounded
<1>3. Len(backlog) = 0
  BY DEF Init
<1> QED
  BY <1>1, <1>2, <1>3 DEF Init, TunnelInit, ConnectionsAccounted, BacklogHoldsOnce,
     EveryClientPlaced, Waiting, WriterIsReading, OnlyPlayerKeeps,
     NothingOutlivesRun

\* Descriptors that are closed, or kept, leave the number of them bounded.
LEMMA FewerOpen ==
    ASSUME DescriptorsBounded, Open' \subseteq Open
    PROVE  DescriptorsBounded'
<1>1. /\ IsFiniteSet(Open') /\ Cardinality(Open') <= Cardinality(Open)
      /\ Cardinality(Open) \in Nat /\ Cardinality(Open') \in Nat
  BY FS_Subset, FS_CardinalityType DEF DescriptorsBounded
<1> QED
  BY <1>1, MaxOpenAssumption DEF DescriptorsBounded

\* The sockets go, by an exception or a signal.
LEMMA DropKeeps ==
    ASSUME ConnTypeOK, ConnectionsAccounted, Die \/ KillServer
    PROVE  ConnectionsAccounted'
<1>1. DropSockets /\ UNCHANGED peer
  BY DEF Die, KillServer
<1>2. \A c \in Conns : session'[c] = IF peer[c] = "away" THEN session[c] ELSE "over"
  BY <1>1 DEF DropSockets
<1>3. \A c \in Conns : peer[c] = "away" => session[c] = "none"
  BY DEF ConnectionsAccounted, EveryClientPlaced
<1>4. Open' = {} /\ \A c \in Conns : session'[c] # "kept"
  BY <1>2, <1>3 DEF Open
<1>5. DescriptorsBounded'
  BY <1>4, FewerOpen DEF ConnectionsAccounted
<1>6. backlog' = <<>> /\ Len(<<>>) = 0 /\ writing' = NoConn
  BY <1>1 DEF DropSockets
<1>7. BacklogHoldsOnce' /\ EveryClientPlaced'
  BY <1>1, <1>2, <1>3, <1>6 DEF BacklogHoldsOnce, EveryClientPlaced, Waiting
<1>8. playback_session' # NoConn => phase' = "unwinding"
  BY DEF Die, Unwind, KillServer
<1> QED
  BY <1>4, <1>5, <1>6, <1>7, <1>8
  DEF ConnectionsAccounted, WriterIsReading, OnlyPlayerKeeps, NothingOutlivesRun

\* Starts, the tunnel's steps and the end of main leave the connections alone.
LEMMA ProcessKeeps ==
    ASSUME ConnTypeOK, ConnectionsAccounted,
           \/ StartServer \/ ServeAfterSetup \/ EndProcess
           \/ TunnelStep \/ UNCHANGED vars
    PROVE  ConnectionsAccounted'
<1>1. UNCHANGED <<peer, session, backlog, writing>>
  BY DEF StartServer, ServeAfterSetup, EndProcess, TunnelStep, vars,
     connections
<1>2. UNCHANGED Open
  BY <1>1 DEF Open
<1>3. BacklogHoldsOnce' /\ EveryClientPlaced' /\ DescriptorsBounded'
  BY <1>1, <1>2
  DEF ConnectionsAccounted, BacklogHoldsOnce, EveryClientPlaced, Waiting,
      DescriptorsBounded
<1>4. CASE StartServer \/ ServeAfterSetup
  <2>1. /\ phase \in {"off", "setup"}
        /\ phase' \in {"off", "unwinding"} => phase = phase'
        /\ UNCHANGED playback_session
    BY <1>4 DEF StartServer, StartFails, StartDirect, StartWithTunnel, StartProcess,
       ServeAfterSetup, SetupEnds
  <2> QED
    BY <1>1, <1>2, <1>3, <2>1
    DEF ConnectionsAccounted, WriterIsReading, OnlyPlayerKeeps, NothingOutlivesRun
<1>5. CASE EndProcess
  <2>1. phase = "unwinding" /\ playback_session' = NoConn /\ Open = {}
    BY <1>5 DEF EndProcess, Exit, ConnectionsAccounted, NothingOutlivesRun
  <2>2. \A c \in Conns : session[c] # "kept"
    BY <2>1 DEF Open
  <2> QED
    BY <1>1, <1>2, <1>3, <2>1, <2>2
    DEF ConnectionsAccounted, WriterIsReading, OnlyPlayerKeeps, NothingOutlivesRun
<1>6. CASE TunnelStep \/ UNCHANGED vars
  <2>1. UNCHANGED <<phase, playback_session>>
    BY <1>6 DEF TunnelStep, Outside, Launch, LaunchFails, Announce, TunnelEnds,
       vars, tunnelVars, connections
  <2> QED
    BY <1>1, <1>2, <1>3, <2>1
    DEF ConnectionsAccounted, WriterIsReading, OnlyPlayerKeeps, NothingOutlivesRun
<1> QED
  BY <1>4, <1>5, <1>6

LEMMA ClientKeeps ==
    ASSUME ConnTypeOK, ConnectionsAccounted, NEW c \in Conns, Client(c)
    PROVE  ConnectionsAccounted'
<1>1. UNCHANGED <<phase, session, writing, playback_session>> /\ UNCHANGED Open
  BY DEF Client, Connect, PeerLeaves, tunnelVars, Open
<1>2. DescriptorsBounded' /\ WriterIsReading' /\ OnlyPlayerKeeps'
  BY <1>1
  DEF ConnectionsAccounted, DescriptorsBounded, WriterIsReading, OnlyPlayerKeeps
<1>3. CASE Connect(c)
  <2>1. /\ phase \notin {"off", "unwinding"} /\ peer[c] = "away"
        /\ peer' = [peer EXCEPT ![c] = "here"] /\ backlog' = Append(backlog, c)
    BY <1>3 DEF Connect
  <2>2. ~Waiting(c) /\ session[c] = "none"
    BY <2>1 DEF ConnectionsAccounted, EveryClientPlaced
  <2>3. /\ backlog \in Seq(Conns) /\ Len(backlog) \in Nat
        /\ Len(backlog') = Len(backlog) + 1
        /\ \A i \in 1..Len(backlog) : backlog'[i] = backlog[i]
        /\ backlog'[Len(backlog) + 1] = c
    BY <2>1 DEF ConnTypeOK
  <2>4. BacklogHoldsOnce'
    BY <2>2, <2>3 DEF ConnectionsAccounted, BacklogHoldsOnce, Waiting
  <2>5. \A d \in Conns : Waiting(d)' <=> Waiting(d) \/ d = c
    BY <2>3 DEF Waiting
  <2>6. EveryClientPlaced'
    BY <1>1, <2>1, <2>2, <2>5 DEF ConnectionsAccounted, EveryClientPlaced, ConnTypeOK
  <2> QED
    BY <1>1, <1>2, <2>1, <2>4, <2>6 DEF ConnectionsAccounted, NothingOutlivesRun
<1>4. CASE PeerLeaves(c)
  <2>1. /\ peer[c] = "here" /\ peer' = [peer EXCEPT ![c] = "gone"]
        /\ UNCHANGED backlog
    BY <1>4 DEF PeerLeaves
  <2>2. BacklogHoldsOnce' /\ EveryClientPlaced'
    BY <1>1, <2>1
    DEF ConnectionsAccounted, BacklogHoldsOnce, EveryClientPlaced, Waiting, ConnTypeOK
  <2> QED
    BY <1>1, <1>2, <2>1, <2>2 DEF ConnectionsAccounted, NothingOutlivesRun
<1> QED
  BY <1>3, <1>4 DEF Client

LEMMA AcceptKeeps ==
    ASSUME ConnTypeOK, ConnectionsAccounted, Accept
    PROVE  ConnectionsAccounted'
<1> PICK h \in Conns : h = Head(backlog)
  BY DEF Accept, ConnTypeOK
<1>1. /\ phase = "serving" /\ writing = NoConn /\ backlog # <<>>
      /\ session' = [session EXCEPT ![h] = "handshake"]
      /\ backlog' = Tail(backlog)
      /\ UNCHANGED <<phase, peer, writing, playback_session>>
  BY DEF Accept, Idle, tunnelVars
<1>2. /\ Len(backlog) \in Nat \ {0} /\ Len(backlog') = Len(backlog) - 1
      /\ backlog[1] = h
      /\ \A i \in 1..Len(backlog') : backlog'[i] = backlog[i + 1]
  BY <1>1 DEF ConnTypeOK
<1>3. Waiting(h)
  BY <1>2 DEF Waiting
<1>4. session[h] = "none" /\ peer[h] # "away"
  BY <1>3 DEF ConnectionsAccounted, EveryClientPlaced
<1>5. BacklogHoldsOnce'
  <2> SUFFICES ASSUME NEW i \in 1..Len(backlog'), NEW j \in 1..Len(backlog'),
                      backlog'[i] = backlog'[j]
               PROVE  i = j
    BY DEF BacklogHoldsOnce
  <2>1. i + 1 \in 1..Len(backlog) /\ j + 1 \in 1..Len(backlog)
    BY <1>2
  <2>2. backlog[i + 1] = backlog[j + 1]
    BY <1>2
  <2>3. i + 1 = j + 1
    BY <2>1, <2>2 DEF ConnectionsAccounted, BacklogHoldsOnce
  <2> QED
    BY <2>3
<1>6. \A d \in Conns : Waiting(d)' <=> Waiting(d) /\ d # h
  <2> SUFFICES ASSUME NEW d \in Conns PROVE Waiting(d)' <=> Waiting(d) /\ d # h
    OBVIOUS
  <2>1. ASSUME Waiting(d)' PROVE Waiting(d) /\ d # h
    <3>1. PICK i \in 1..Len(backlog') : backlog'[i] = d
      BY <2>1 DEF Waiting
    <3>2. i + 1 \in 1..Len(backlog) /\ 1 \in 1..Len(backlog) /\ i + 1 # 1
      BY <1>2
    <3>3. backlog[i + 1] = d
      BY <1>2, <3>1
    <3> QED
      BY <1>2, <3>2, <3>3 DEF ConnectionsAccounted, BacklogHoldsOnce, Waiting
  <2>2. ASSUME Waiting(d), d # h PROVE Waiting(d)'
    <3>1. PICK i \in 1..Len(backlog) : backlog[i] = d
      BY <2>2 DEF Waiting
    <3>2. i # 1
      BY <1>2, <2>2, <3>1
    <3>3. i - 1 \in 1..Len(backlog') /\ (i - 1) + 1 = i
      BY <1>2, <3>2
    <3>4. backlog'[i - 1] = d
      BY <1>2, <3>1, <3>3
    <3> QED
      BY <3>3, <3>4 DEF Waiting
  <2> QED
    BY <2>1, <2>2
<1>7. EveryClientPlaced'
  BY <1>1, <1>4, <1>6 DEF ConnectionsAccounted, EveryClientPlaced, ConnTypeOK
<1>8. DescriptorsBounded'
  <2>1. Open' = Open \union {h}
    BY <1>1 DEF Open, ConnTypeOK
  <2>2. IsFiniteSet(Open) /\ Cardinality(Open) \in Nat /\ Cardinality(Open) < MaxOpen
    BY FS_CardinalityType DEF Accept, DescriptorLeft, ConnectionsAccounted,
       DescriptorsBounded
  <2>3. /\ IsFiniteSet(Open \union {h})
        /\ \/ Cardinality(Open \union {h}) = Cardinality(Open)
           \/ Cardinality(Open \union {h}) = Cardinality(Open) + 1
    BY <2>2, FS_AddElement
  <2> QED
    BY <2>1, <2>2, <2>3, MaxOpenAssumption DEF DescriptorsBounded
<1>9. OnlyPlayerKeeps'
  BY <1>1, <1>4 DEF ConnectionsAccounted, OnlyPlayerKeeps, ConnTypeOK
<1> QED
  BY <1>1, <1>5, <1>7, <1>8, <1>9
  DEF ConnectionsAccounted, WriterIsReading, NothingOutlivesRun

\* A handler moves sessions that have been accepted, and opens none.
LEMMA SessionsMove ==
    ASSUME ConnectionsAccounted, phase = "serving",
           UNCHANGED <<phase, peer, backlog>>,
           \A d \in Conns : session'[d] = "none" <=> session[d] = "none",
           Open' \subseteq Open, WriterIsReading', OnlyPlayerKeeps'
    PROVE  ConnectionsAccounted'
<1>1. DescriptorsBounded'
  BY FewerOpen DEF ConnectionsAccounted
<1>2. BacklogHoldsOnce' /\ EveryClientPlaced'
  BY DEF ConnectionsAccounted, BacklogHoldsOnce, EveryClientPlaced, Waiting
<1> QED
  BY <1>1, <1>2 DEF ConnectionsAccounted, NothingOutlivesRun

\* One session goes on while nobody is being answered: the player's only when
\* its connection ends.
LEMMA OneMoves ==
    ASSUME ConnTypeOK, ConnectionsAccounted, NEW c \in Conns, NEW state,
           phase = "serving", writing' = NoConn,
           UNCHANGED <<tunnelVars, peer, backlog, playback_session>>,
           session' = [session EXCEPT ![c] = state],
           \/ /\ session[c] \in {"handshake", "reading"}
              /\ state \in {"reading", "websocket", "over"}
           \/ /\ session[c] = "websocket"
              /\ state = IF playback_session = c THEN "kept" ELSE "over"
    PROVE  ConnectionsAccounted'
<1>1. \A d \in Conns : session'[d] = IF d = c THEN state ELSE session[d]
  BY DEF ConnTypeOK
<1>2. UNCHANGED phase
  BY DEF tunnelVars
<1>3. Open' \subseteq Open
  BY <1>1 DEF Open
<1>4. OnlyPlayerKeeps'
  BY <1>1, <1>2 DEF ConnectionsAccounted, OnlyPlayerKeeps, ConnTypeOK
<1>5. WriterIsReading'
  BY DEF WriterIsReading
<1> QED
  BY <1>1, <1>2, <1>3, <1>4, <1>5, SessionsMove

LEMMA AnswerKeeps ==
    ASSUME ConnTypeOK, ConnectionsAccounted, NEW c \in Conns, Answer(c), ~Die
    PROVE  ConnectionsAccounted'
<1> PICK route \in Routes : Respond(c, route) \/ RespondBlocks(c, route)
  BY DEF Answer, RespondThrows
<1>1. CASE Respond(c, route)
  BY <1>1, OneMoves DEF Respond, Finish, Idle
<1>2. CASE RespondBlocks(c, route)
  <2>1. /\ phase = "serving" /\ session[c] = "reading" /\ writing' = c
        /\ UNCHANGED <<phase, peer, session, backlog, playback_session>>
    BY <1>2 DEF RespondBlocks, Idle, tunnelVars
  <2>2. UNCHANGED Open
    BY <2>1 DEF Open
  <2>3. OnlyPlayerKeeps' /\ WriterIsReading'
    BY <2>1 DEF ConnectionsAccounted, OnlyPlayerKeeps, WriterIsReading
  <2> QED
    BY <2>1, <2>2, <2>3, SessionsMove
<1> QED
  BY <1>1, <1>2

LEMMA HandlerKeeps ==
    ASSUME ConnTypeOK, ConnectionsAccounted, NEW c \in Conns, Handler(c), ~Die
    PROVE  ConnectionsAccounted'
<1>1. CASE HandshakeDone(c)
  BY <1>1, OneMoves DEF HandshakeDone, Idle
<1>2. CASE SessionFails(c)
  BY <1>2, OneMoves DEF SessionFails, Finish, Idle
<1>3. CASE Upgrade(c)
  BY <1>3, OneMoves DEF Upgrade, Idle
<1>4. CASE Answer(c)
  BY <1>4, AnswerKeeps
<1>5. CASE WriteEnds(c) \/ WriteThrows(c)
  <2>1. WriteEnds(c) /\ session[c] = "reading"
    BY <1>5, NoConnAssumption
    DEF WriteThrows, WriteEnds, ConnectionsAccounted, WriterIsReading
  <2> QED
    BY <2>1, OneMoves DEF WriteEnds, Finish
<1>6. CASE StartPlayback(c) \/ StopPlayback(c)
  <2>1. /\ phase = "serving" /\ writing' = NoConn /\ session[c] = "websocket"
        /\ playback_session' \in {c, NoConn} /\ session' = Released
        /\ UNCHANGED <<phase, peer, backlog>>
    BY <1>6 DEF StartPlayback, StopPlayback, Idle, tunnelVars
  <2>2. \A d \in Conns :
            session'[d] = IF session[d] = "kept" THEN "over" ELSE session[d]
    BY <2>1 DEF Released
  <2>3. Open' \subseteq Open
    BY <2>2 DEF Open
  <2>4. OnlyPlayerKeeps' /\ WriterIsReading'
    BY <2>1, <2>2 DEF OnlyPlayerKeeps, WriterIsReading
  <2> QED
    BY <2>1, <2>2, <2>3, <2>4, SessionsMove
<1>7. CASE SocketEnds(c)
  BY <1>7, OneMoves DEF SocketEnds, Idle
<1> QED
  BY <1>1, <1>2, <1>3, <1>4, <1>5, <1>6, <1>7 DEF Handler

LEMMA AccountedStep ==
    TypeInv /\ ConnectionsAccounted /\ [Next]_vars => ConnectionsAccounted'
<1> SUFFICES ASSUME ConnTypeOK, ConnectionsAccounted, [Next]_vars
             PROVE  ConnectionsAccounted'
  BY DEF TypeInv, TypeOK, ConnTypeOK
<1>1. CASE Process \/ TunnelStep \/ Die \/ Over \/ UNCHANGED vars
  BY <1>1, ProcessKeeps, DropKeeps DEF Process, Over
<1>2. CASE AcceptHandler \/ PlaybackThrows
  BY <1>2, AcceptKeeps, DropKeeps, ProcessKeeps
  DEF AcceptHandler, AcceptThrows, AcceptFails, PlaybackThrows
<1>3. CASE ~Die /\ \E c \in Conns : Client(c) \/ Handler(c)
  BY <1>3, ClientKeeps, HandlerKeeps
<1> QED
  BY <1>1, <1>2, <1>3 DEF Next

\* No client is lost between the accept queue and its session, no descriptor
\* leaks, and only the player keeps a session whose connection has ended
\* (do_accept, HttpSession, and playback_session_ of stream_controller.cpp:246).
THEOREM NoConnectionIsLost == Spec => []ConnectionsAccounted
<1>1. Init => TypeInv /\ ConnectionsAccounted
  BY TypeInit, AccountedInit
<1>2. TypeInv /\ ConnectionsAccounted /\ [Next]_vars
          => TypeInv' /\ ConnectionsAccounted'
  BY TypeStep, AccountedStep
<1> QED
  BY <1>1, <1>2, PTL DEF Spec
=============================================================================
