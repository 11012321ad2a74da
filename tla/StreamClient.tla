----------------------------- MODULE StreamClient -----------------------------
(***************************************************************************)
(* The page that starts and stops the stream (src/web/app.js,              *)
(* AsciiStreamer) against the sessions that its sockets have on the        *)
(* server.                                                                 *)
(*                                                                         *)
(* Each start makes a socket, numbered in order; the handlers of all of    *)
(* them, and the timers of all stops, use this.ws, which by then may be    *)
(* another one.  An action is one task of the browser, or one message at   *)
(* the server.  The server is cut down to what StreamController promises:  *)
(* a stop ends the broadcast, and so does the loss of a controller's       *)
(* session.  A full write queue may lose any reply.  The record button is  *)
(* left out.                                                               *)
(***************************************************************************)
EXTENDS Naturals, Sequences

CONSTANTS
    MaxSockets,    \* bound: how many sockets the page makes
    MaxTimers      \* bound: the user does not press stop with so many pending

ASSUME BoundsAssumption == MaxSockets \in Nat \ {0} /\ MaxTimers \in Nat \ {0}

VARIABLES
    isStreaming,   \* what the button shows
    ws,            \* this.ws, 0 for null
    api_key,       \* the page has the key
    fetching,      \* calls of start that wait for getApiKey
    timers,        \* calls of stop whose 300 ms are not over
    made,          \* sockets made so far
    readyState,    \* of each socket; "none" before it is made
    toServer,      \* messages under way in each direction
    toClient,
    session,       \* of each socket at the server, see Sessions
    broadcast,     \* the server broadcasts
    raced          \* history: a start and a stop have overlapped

page == <<isStreaming, ws, api_key, fetching, timers, made, readyState, raced>>
server == <<session, broadcast>>
vars == <<page, toServer, toClient, server>>

Sockets == 1..MaxSockets
ReadyStates == {"none", "connecting", "open", "closing", "closed"}
Sessions == {"none", "guest", "controller", "over"}
Messages == {"auth", "config", "stop"}
Replies == {"AUTH_CONTROLLER_SUCCESS", "STREAM_STOPPED", "other"}

TypeOK ==
    /\ isStreaming \in BOOLEAN /\ api_key \in BOOLEAN
    /\ broadcast \in BOOLEAN /\ raced \in BOOLEAN
    /\ fetching \in Nat /\ timers \in Nat
    /\ made \in 0..MaxSockets
    /\ readyState \in [Sockets -> ReadyStates]
    /\ \A s \in Sockets : readyState[s] = "none" <=> s > made
    /\ ws \in 0..made
    /\ toServer \in [Sockets -> Seq(Messages)]
    /\ toClient \in [Sockets -> Seq(Replies)]
    /\ session \in [Sockets -> Sessions]

Init ==
    /\ isStreaming = FALSE
    /\ ws = 0
    /\ api_key = FALSE
    /\ fetching = 0
    /\ timers = 0
    /\ made = 0
    /\ readyState = [s \in Sockets |-> "none"]
    /\ toServer = [s \in Sockets |-> <<>>]
    /\ toClient = [s \in Sockets |-> <<>>]
    /\ session = [s \in Sockets |-> "none"]
    /\ broadcast = FALSE
    /\ raced = FALSE

-----------------------------------------------------------------------------
(* start *)

\* new WebSocket(...)
NewSocket ==
    /\ made < MaxSockets
    /\ made' = made + 1
    /\ ws' = made + 1
    /\ readyState' = [readyState EXCEPT ![made + 1] = "connecting"]

\* start without its first line.
MayAlwaysStart == TRUE

MayStart == ~isStreaming

\* The user presses the button, up to the await if the key is not known.
Start ==
    /\ MayStart
    /\ made + fetching < MaxSockets
    /\ isStreaming' = TRUE
    /\ raced' = (raced \/ timers > 0 \/ fetching > 0)
    /\ IF api_key
       THEN NewSocket /\ UNCHANGED fetching
       ELSE fetching' = fetching + 1 /\ UNCHANGED <<made, ws, readyState>>
    /\ UNCHANGED <<api_key, timers, toServer, toClient, server>>

\* getApiKey returns, with '' if it failed; start goes on in any case.
Fetched ==
    /\ fetching > 0
    /\ fetching' = fetching - 1
    /\ api_key' \in {api_key, TRUE}
    /\ NewSocket
    /\ UNCHANGED <<isStreaming, timers, raced, toServer, toClient, server>>

-----------------------------------------------------------------------------
(* stop and the events of sockets; rs is readyState as the handler finds it *)

Usable(rs) == ws # 0 /\ rs[ws] = "open"

\* send throws on a socket that is connecting, and does nothing on one that is
\* closing or closed.
Send(rs, messages) ==
    toServer' = IF Usable(rs) THEN [toServer EXCEPT ![ws] = @ \o messages] ELSE toServer

\* stop, called n times in a row (n > 0).
Stops(rs, n) ==
    /\ Send(rs, [i \in 1..n |-> "stop"])
    /\ IF Usable(rs)
       THEN timers' = timers + n /\ UNCHANGED <<isStreaming, raced>>
       ELSE /\ isStreaming' = FALSE
            /\ raced' = (raced \/ fetching > 0 \/ (ws # 0 /\ rs[ws] = "connecting"))
            /\ UNCHANGED timers

Stop ==
    /\ isStreaming
    /\ timers < MaxTimers
    /\ Stops(readyState, 1)
    /\ UNCHANGED <<ws, api_key, fetching, made, readyState, toClient, server>>

\* The 300 ms are over, and only the button changes.
TimerKeepsSocket ==
    /\ timers > 0
    /\ timers' = timers - 1
    /\ isStreaming' = FALSE
    /\ UNCHANGED <<ws, api_key, fetching, made, readyState, raced, toServer,
                   toClient, server>>

\* The 300 ms of a stop are over: whatever this.ws is now is closed.
Timer ==
    /\ timers > 0
    /\ timers' = timers - 1
    /\ isStreaming' = FALSE
    /\ ws' = 0
    /\ readyState' =
           IF ws # 0 /\ readyState[ws] \in {"connecting", "open"}
           THEN [readyState EXCEPT ![ws] = "closing"] ELSE readyState
    /\ UNCHANGED <<api_key, fetching, made, raced, toServer, toClient, server>>

\* onopen
Opened(s) ==
    /\ readyState[s] = "connecting"
    /\ readyState' = [readyState EXCEPT ![s] = "open"]
    /\ session' = [session EXCEPT ![s] = "guest"]
    /\ Send(readyState', <<"auth">>)
    /\ UNCHANGED <<isStreaming, ws, api_key, fetching, timers, made, raced,
                   toClient, broadcast>>

\* onclose, and before it onerror if the connection failed: the second calls
\* stop in any case, the first if isStreaming still is.
Closes(s, failed) ==
    /\ readyState' = [readyState EXCEPT ![s] = "closed"]
    /\ IF failed
       THEN Stops(readyState', IF Usable(readyState') /\ isStreaming THEN 2 ELSE 1)
       ELSE IF isStreaming THEN Stops(readyState', 1)
                           ELSE UNCHANGED <<toServer, isStreaming, raced, timers>>
    /\ toClient' = [toClient EXCEPT ![s] = <<>>]
    /\ UNCHANGED <<ws, api_key, fetching, made, server>>

\* The answer to close(); closing before the connection stood is a failure.
CloseDone(s) ==
    /\ readyState[s] = "closing"
    /\ Closes(s, session[s] = "none")

\* There is no connection, or the network or the server ends it.
Lost(s) ==
    /\ readyState[s] \in {"connecting", "open"}
    /\ \E failed \in BOOLEAN :
        /\ readyState[s] = "connecting" => failed
        /\ Closes(s, failed)

\* onmessage, which is called while the socket is open only.
Receive(s) ==
    /\ readyState[s] = "open"
    /\ toClient[s] # <<>>
    /\ toClient' = [toClient EXCEPT ![s] = Tail(@)]
    /\ isStreaming' = (isStreaming /\ Head(toClient[s]) # "STREAM_STOPPED")
    /\ IF Head(toClient[s]) = "AUTH_CONTROLLER_SUCCESS"
       THEN Send(readyState, <<"config">>) ELSE UNCHANGED toServer
    /\ UNCHANGED <<ws, api_key, fetching, timers, made, readyState, raced, server>>

-----------------------------------------------------------------------------
(* The server *)

\* The reply of s, unless a full queue loses it or the socket is not open.
Reply(s, reply) ==
    \/ UNCHANGED toClient
    \/ /\ readyState[s] = "open"
       /\ toClient' = [toClient EXCEPT ![s] = Append(@, reply)]

Up(s) == session[s] \in {"guest", "controller"}

\* handle_message
Handle(s) ==
    /\ Up(s)
    /\ toServer[s] # <<>>
    /\ toServer' = [toServer EXCEPT ![s] = Tail(@)]
    /\ LET message == Head(toServer[s])
       IN  \/ /\ message = "auth" /\ api_key
              /\ session' = [session EXCEPT ![s] = "controller"]
              /\ Reply(s, "AUTH_CONTROLLER_SUCCESS")
              /\ UNCHANGED broadcast
           \/ /\ message = "config" /\ session[s] = "controller"
              /\ broadcast' \in {broadcast, TRUE}
              /\ Reply(s, "other")
              /\ UNCHANGED session
           \/ /\ message = "stop" /\ session[s] = "controller"
              /\ broadcast' = FALSE
              /\ Reply(s, "STREAM_STOPPED")
              /\ UNCHANGED session
           \/ /\ \/ message = "auth" /\ ~api_key
                 \/ message # "auth" /\ session[s] = "guest"
              /\ Reply(s, "other")
              /\ UNCHANGED server
    /\ UNCHANGED page

\* The destructor of a session leaves the broadcast to others.
SessionEndsQuietly(s) ==
    /\ Up(s)
    /\ readyState[s] = "closed" \/ (readyState[s] = "closing" /\ toServer[s] = <<>>)
    /\ session' = [session EXCEPT ![s] = "over"]
    /\ toServer' = [toServer EXCEPT ![s] = <<>>]
    /\ UNCHANGED <<page, toClient, broadcast>>

\* The session reads the close, or finds the connection lost with what was under
\* way; its destructor stops the broadcast of a controller.
SessionEnds(s) ==
    /\ Up(s)
    /\ readyState[s] = "closed" \/ (readyState[s] = "closing" /\ toServer[s] = <<>>)
    /\ session' = [session EXCEPT ![s] = "over"]
    /\ broadcast' = (broadcast /\ session[s] # "controller")
    /\ toServer' = [toServer EXCEPT ![s] = <<>>]
    /\ UNCHANGED <<page, toClient>>

-----------------------------------------------------------------------------
Events(s) == Opened(s) \/ CloseDone(s) \/ Lost(s) \/ Receive(s)

Next ==
    \/ Start \/ Stop \/ Fetched \/ Timer
    \/ \E s \in Sockets : Events(s) \/ Handle(s) \/ SessionEnds(s)

\* Timers and answers come, and the server reads and notices what it is sent; the
\* user need not do anything, and a connection need not be made or lost.
Fairness ==
    /\ WF_vars(Timer)
    /\ \A s \in Sockets : WF_vars(CloseDone(s)) /\ WF_vars(Handle(s))
                          /\ WF_vars(SessionEnds(s))

Spec == Init /\ [][Next]_vars /\ Fairness

-----------------------------------------------------------------------------
Live(s) == readyState[s] \in {"connecting", "open"}

\* A socket that the page no longer knows, or keeps while it shows "Start Stream"
\* with no stop under way, comes only from a stop that found a start under way or
\* the other way round: while they are kept apart there is none.
LeakNeedsRace ==
    ~raced => \A s \in Sockets : Live(s) => s = ws /\ (isStreaming \/ timers > 0)

\* While they are kept apart, a page that shows "Start Stream" soon has no
\* broadcast, though STREAM_STOPPED may be lost and a stop may overtake the
\* configuration: what the stop does not end, the closing of the socket does.
StopEndsBroadcast ==
    []~raced => (~isStreaming ~> (~broadcast \/ isStreaming))

\* The safety half of it: when the page shows "Start Stream" and a broadcast runs
\* all the same, its controller's socket is closed, or about to be by a timer.
EndIsDue ==
    ~raced /\ ~isStreaming /\ broadcast =>
        \E s \in Sockets :
            /\ session[s] = "controller"
            /\ readyState[s] \in {"closing", "closed"} \/ (s = ws /\ timers > 0)
=============================================================================
