-------------------------- MODULE StreamClient_proofs --------------------------
(***************************************************************************)
(* The safety properties of StreamClient for any number of sockets and     *)
(* timers.  LeakNeedsRace is strengthened by what is under way: while      *)
(* starts and stops are kept apart, a stop on its way to or from an open   *)
(* socket has its timer pending, and a start that waits for the key has    *)
(* neither socket nor timer.                                               *)
(***************************************************************************)
EXTENDS StreamClient, TLAPS

Has(q, m) == \E i \in 1..Len(q) : q[i] = m

LEMMA HasConcat ==
    ASSUME NEW S, NEW p \in Seq(S), NEW q \in Seq(S), NEW m
    PROVE  Has(p \o q, m) <=> Has(p, m) \/ Has(q, m)
<1>1. Len(p \o q) = Len(p) + Len(q) /\ Len(p) \in Nat /\ Len(q) \in Nat
  OBVIOUS
<1>2. \A i \in 1..Len(p) + Len(q) :
          (p \o q)[i] = IF i <= Len(p) THEN p[i] ELSE q[i - Len(p)]
  OBVIOUS
<1>3. ASSUME Has(p \o q, m)
      PROVE  Has(p, m) \/ Has(q, m)
  <2> PICK i \in 1..Len(p) + Len(q) : (p \o q)[i] = m
    BY <1>1, <1>3 DEF Has
  <2>1. CASE i <= Len(p)
    BY <1>1, <1>2, <2>1 DEF Has
  <2>2. CASE i > Len(p)
    <3>1. i - Len(p) \in 1..Len(q) /\ q[i - Len(p)] = m
      BY <1>1, <1>2, <2>2
    <3> QED
      BY <3>1 DEF Has
  <2> QED
    BY <1>1, <2>1, <2>2
<1>4. ASSUME Has(p, m)
      PROVE  Has(p \o q, m)
  BY <1>1, <1>2, <1>4 DEF Has
<1>5. ASSUME Has(q, m)
      PROVE  Has(p \o q, m)
  <2> PICK i \in 1..Len(q) : q[i] = m
    BY <1>5 DEF Has
  <2>1. Len(p) + i \in 1..Len(p) + Len(q) /\ (p \o q)[Len(p) + i] = m
    BY <1>1, <1>2
  <2> QED
    BY <1>1, <2>1 DEF Has
<1> QED
  BY <1>3, <1>4, <1>5

LEMMA HasTail ==
    ASSUME NEW S, NEW q \in Seq(S), q # <<>>, NEW m, Has(Tail(q), m)
    PROVE  Has(q, m)
<1>1. Len(Tail(q)) = Len(q) - 1 /\ Len(q) \in Nat
  OBVIOUS
<1>2. \A i \in 1..Len(q) - 1 : Tail(q)[i] = q[i + 1]
  OBVIOUS
<1> QED
  BY <1>1, <1>2 DEF Has

LEMMA HasHead ==
    ASSUME NEW S, NEW q \in Seq(S), q # <<>>
    PROVE  Has(q, Head(q))
BY DEF Has

LEMMA HasAppend ==
    ASSUME NEW S, NEW q \in Seq(S), NEW e \in S, NEW m
    PROVE  Has(Append(q, e), m) <=> Has(q, m) \/ e = m
<1>1. Len(Append(q, e)) = Len(q) + 1 /\ Len(q) \in Nat
  OBVIOUS
<1>2. \A i \in 1..Len(q) + 1 :
          Append(q, e)[i] = IF i <= Len(q) THEN q[i] ELSE e
  OBVIOUS
<1> QED
  BY <1>1, <1>2 DEF Has

LEMMA HasNothing == \A m : ~Has(<<>>, m)
BY DEF Has

-----------------------------------------------------------------------------
(* The invariant *)

\* Nothing is under way on a socket that has not opened.
Unopened ==
    \A s \in Sockets : readyState[s] \in {"none", "connecting"} =>
        toServer[s] = <<>> /\ toClient[s] = <<>>

\* A stop that is under way on an open socket has a timer.
StopTimed ==
    \A s \in Sockets :
        readyState[s] = "open"
            /\ (Has(toServer[s], "stop") \/ Has(toClient[s], "STREAM_STOPPED"))
        => timers > 0

\* A call of start that waits for the key is the only thing under way.
FetchAlone ==
    fetching > 0 => /\ isStreaming /\ fetching = 1 /\ timers = 0
                    /\ \A s \in Sockets : ~Live(s)

Tracked == \A s \in Sockets : Live(s) => s = ws /\ (isStreaming \/ timers > 0)

Apart == ~raced => StopTimed /\ FetchAlone /\ Tracked

IInv == TypeOK /\ Unopened /\ Apart

LEMMA InvInit == Init => IInv
<1> SUFFICES ASSUME Init
             PROVE  IInv
  OBVIOUS
<1> USE BoundsAssumption DEF Init
<1>1. TypeOK
  <2>1. /\ made \in 0..MaxSockets /\ ws \in 0..made
        /\ \A s \in Sockets : readyState[s] = "none" <=> s > made
    BY DEF Sockets
  <2>2. toServer \in [Sockets -> Seq(Messages)] /\ toClient \in [Sockets -> Seq(Replies)]
    OBVIOUS
  <2>3. readyState \in [Sockets -> ReadyStates] /\ session \in [Sockets -> Sessions]
    BY DEF ReadyStates, Sessions
  <2> QED
    BY <2>1, <2>2, <2>3 DEF TypeOK
<1>2. Unopened
  BY DEF Unopened
<1>3. Apart
  BY DEF Apart, StopTimed, FetchAlone, Tracked, Live
<1> QED
  BY <1>1, <1>2, <1>3 DEF IInv

-----------------------------------------------------------------------------
(* Helpers of the actions *)

\* What stop, auth and config do to the queues.
LEMMA SendEffect ==
    ASSUME TypeOK, NEW rs \in [Sockets -> ReadyStates],
           NEW messages \in Seq(Messages), Send(rs, messages)
    PROVE  /\ toServer' \in [Sockets -> Seq(Messages)]
           /\ \A s \in Sockets : toServer'[s] # toServer[s] => s = ws /\ rs[s] = "open"
           /\ \A s \in Sockets : Has(toServer'[s], "stop") =>
                 Has(toServer[s], "stop") \/ (Usable(rs) /\ Has(messages, "stop"))
<1>1. CASE ~Usable(rs)
  BY <1>1 DEF Send, TypeOK
<1>2. CASE Usable(rs)
  <2>1. ws \in Sockets /\ rs[ws] = "open"
    BY <1>2, BoundsAssumption DEF Usable, TypeOK, Sockets
  <2>2. toServer' = [toServer EXCEPT ![ws] = toServer[ws] \o messages]
    BY <1>2 DEF Send
  <2>3. toServer[ws] \in Seq(Messages)
    BY <2>1 DEF TypeOK
  <2>4. toServer[ws] \o messages \in Seq(Messages)
    BY <2>3
  <2>5. toServer \in [Sockets -> Seq(Messages)]
    BY DEF TypeOK
  <2>6. Has(toServer[ws] \o messages, "stop")
            => Has(toServer[ws], "stop") \/ Has(messages, "stop")
    BY <2>3, HasConcat
  <2> QED
    BY <1>2, <2>1, <2>2, <2>4, <2>5, <2>6
<1> QED
  BY <1>1, <1>2

LEMMA StopsTyped ==
    ASSUME NEW n \in {1, 2}
    PROVE  [i \in 1..n |-> "stop"] \in Seq(Messages)
BY DEF Messages

\* A socket is made: nothing else may be alive.
LEMMA NewSocketType ==
    ASSUME TypeOK, NewSocket
    PROVE  /\ made' \in 0..MaxSockets /\ ws' \in 0..made'
           /\ readyState' \in [Sockets -> ReadyStates]
           /\ \A s \in Sockets : readyState'[s] = "none" <=> s > made'
           /\ ws' \in Sockets /\ readyState[ws'] = "none"
           /\ \A s \in Sockets : readyState'[s] = IF s = ws' THEN "connecting"
                                                  ELSE readyState[s]
<1>1. made \in Nat /\ made + 1 \in Sockets
  BY BoundsAssumption DEF TypeOK, NewSocket, Sockets
<1>2. /\ readyState \in [Sockets -> ReadyStates]
      /\ \A s \in Sockets : readyState[s] = "none" <=> s > made
  BY DEF TypeOK
<1>3. /\ readyState' = [readyState EXCEPT ![made + 1] = "connecting"]
      /\ made' = made + 1 /\ ws' = made + 1
  BY DEF NewSocket
<1>4. \A s \in Sockets : readyState'[s] = IF s = made + 1 THEN "connecting"
                                          ELSE readyState[s]
  BY <1>1, <1>2, <1>3
<1>5. readyState' \in [Sockets -> ReadyStates]
  BY <1>2, <1>3 DEF ReadyStates
<1>6. \A s \in Sockets : readyState'[s] = "none" <=> s > made'
  BY <1>1, <1>2, <1>3, <1>4 DEF Sockets
<1> QED
  BY <1>1, <1>2, <1>3, <1>4, <1>5, <1>6, BoundsAssumption DEF Sockets

-----------------------------------------------------------------------------
(* Starts *)

LEMMA StartStep ==
    ASSUME IInv, Start
    PROVE  IInv'
<1> USE DEF IInv
<1>1. /\ ~isStreaming /\ isStreaming' = TRUE
      /\ raced' = (raced \/ timers > 0 \/ fetching > 0)
      /\ UNCHANGED <<api_key, timers, toServer, toClient, session, broadcast>>
  BY DEF Start, MayStart, server
<1>2. timers \in Nat /\ fetching \in Nat /\ raced \in BOOLEAN
  BY DEF TypeOK
<1>3. ~raced' => timers = 0 /\ fetching = 0 /\ ~raced
  <2>1. ~raced' => ~(timers > 0) /\ ~(fetching > 0) /\ ~raced
    BY <1>1, Zenon
  <2> QED
    BY <1>2, <2>1
<1>4. ~raced' => \A s \in Sockets : ~Live(s)
  BY <1>1, <1>3 DEF Apart, Tracked
<1>5. CASE api_key
  <2>1. NewSocket /\ fetching' = fetching
    BY <1>5 DEF Start
  <2>2. TypeOK'
    BY <1>1, <1>2, <2>1, NewSocketType DEF TypeOK
  <2>3. Unopened'
    BY <1>1, <2>1, NewSocketType DEF Unopened
  <2>4. Apart'
    <3> SUFFICES ASSUME ~raced'
                 PROVE  StopTimed' /\ FetchAlone' /\ Tracked'
      BY DEF Apart
    <3>1. \A s \in Sockets : readyState'[s] # "open"
      BY <1>4, <2>1, NewSocketType DEF Live
    <3>2. \A s \in Sockets : Live(s)' => s = ws'
      BY <1>4, <2>1, NewSocketType DEF Live
    <3> QED
      BY <1>1, <1>2, <1>3, <2>1, <3>1, <3>2 DEF StopTimed, FetchAlone, Tracked
  <2> QED
    BY <2>2, <2>3, <2>4
<1>6. CASE ~api_key
  <2>1. fetching' = fetching + 1 /\ UNCHANGED <<made, ws, readyState>>
    BY <1>6 DEF Start
  <2>2. TypeOK'
    BY <1>1, <1>2, <2>1 DEF TypeOK
  <2>3. Unopened'
    BY <1>1, <2>1 DEF Unopened
  <2>4. Apart'
    BY <1>1, <1>2, <1>3, <1>4, <2>1 DEF Apart, StopTimed, FetchAlone, Tracked, Live
  <2> QED
    BY <2>2, <2>3, <2>4
<1> QED
  BY <1>5, <1>6

LEMMA FetchedStep ==
    ASSUME IInv, Fetched
    PROVE  IInv'
<1> USE DEF IInv
<1>1. /\ fetching > 0 /\ fetching' = fetching - 1 /\ api_key' \in {api_key, TRUE}
      /\ NewSocket
      /\ UNCHANGED <<isStreaming, timers, raced, toServer, toClient, session, broadcast>>
  BY DEF Fetched, server
<1>2. TypeOK'
  <2>1. fetching' \in Nat /\ timers' \in Nat
    BY <1>1 DEF TypeOK
  <2>2. /\ toServer' \in [Sockets -> Seq(Messages)]
        /\ toClient' \in [Sockets -> Seq(Replies)]
        /\ session' \in [Sockets -> Sessions]
    BY <1>1 DEF TypeOK
  <2>3. /\ isStreaming' \in BOOLEAN /\ api_key' \in BOOLEAN
        /\ broadcast' \in BOOLEAN /\ raced' \in BOOLEAN
    BY <1>1, Zenon DEF TypeOK
  <2> QED
    BY <1>1, <2>1, <2>2, <2>3, NewSocketType DEF TypeOK
<1>3. Unopened'
  BY <1>1, NewSocketType DEF Unopened
<1>4. Apart'
  <2> SUFFICES ASSUME ~raced
               PROVE  StopTimed' /\ FetchAlone' /\ Tracked'
    BY <1>1 DEF Apart
  <2>1. isStreaming /\ fetching = 1 /\ \A s \in Sockets : ~Live(s)
    BY <1>1 DEF Apart, FetchAlone
  <2>2. \A s \in Sockets : readyState'[s] # "open" /\ (Live(s)' => s = ws')
    BY <1>1, <2>1, NewSocketType DEF Live
  <2> QED
    BY <1>1, <2>1, <2>2 DEF StopTimed, FetchAlone, Tracked
<1> QED
  BY <1>2, <1>3, <1>4

-----------------------------------------------------------------------------
(* Stops.  Both callers of Stops leave readyState as it is or close a socket. *)

LEMMA StopsStep ==
    ASSUME IInv, NEW rs \in [Sockets -> ReadyStates], readyState' = rs,
           \A s \in Sockets : rs[s] = readyState[s]
               \/ (rs[s] = "closed" /\ readyState[s] # "none"),
           NEW n \in {1, 2}, Stops(rs, n),
           \A s \in Sockets : toClient'[s] = toClient[s] \/ toClient'[s] = <<>>,
           toClient' \in [Sockets -> Seq(Replies)],
           UNCHANGED <<ws, api_key, fetching, made, server>>
    PROVE  IInv'
<1> USE DEF IInv, server
<1> DEFINE stops == [i \in 1..n |-> "stop"]
<1>1. /\ toServer' \in [Sockets -> Seq(Messages)]
      /\ \A s \in Sockets : toServer'[s] # toServer[s] => s = ws /\ rs[s] = "open"
      /\ \A s \in Sockets : Has(toServer'[s], "stop") =>
            Has(toServer[s], "stop") \/ Usable(rs)
  <2>1. stops \in Seq(Messages) /\ Send(rs, stops)
    BY StopsTyped DEF Stops
  <2> HIDE DEF stops
  <2> QED
    BY <2>1, SendEffect
<1>2. timers \in Nat /\ fetching \in Nat /\ raced \in BOOLEAN /\ isStreaming \in BOOLEAN
  BY DEF TypeOK
<1>3. /\ timers' \in Nat /\ raced' \in BOOLEAN /\ isStreaming' \in BOOLEAN
      /\ Usable(rs) => timers' > 0 /\ isStreaming' = isStreaming /\ raced' = raced
      /\ ~Usable(rs) => /\ isStreaming' = FALSE /\ timers' = timers
                        /\ raced' = (raced \/ fetching > 0
                                           \/ (ws # 0 /\ rs[ws] = "connecting"))
  <2>1. CASE Usable(rs)
    <3>1. timers' = timers + n /\ isStreaming' = isStreaming /\ raced' = raced
      BY <2>1 DEF Stops
    <3>2. timers' \in Nat /\ timers' > 0
      BY <1>2, <3>1
    <3> QED
      BY <1>2, <2>1, <3>1, <3>2, Zenon
  <2>2. CASE ~Usable(rs)
    <3>1. /\ isStreaming' = FALSE /\ timers' = timers
          /\ raced' = (raced \/ fetching > 0 \/ (ws # 0 /\ rs[ws] = "connecting"))
      BY <2>2 DEF Stops
    <3> QED
      BY <1>2, <2>2, <3>1, Zenon
  <2> QED
    BY <2>1, <2>2
<1>4. TypeOK'
  <2>1. \A s \in Sockets : rs[s] = "none" <=> s > made
    BY DEF TypeOK
  <2> QED
    BY <1>1, <1>2, <1>3, <2>1 DEF TypeOK
<1>5. Unopened'
  <2> SUFFICES ASSUME NEW s \in Sockets, rs[s] \in {"none", "connecting"}
               PROVE  toServer'[s] = <<>> /\ toClient'[s] = <<>>
    BY DEF Unopened
  <2>1. readyState[s] \in {"none", "connecting"}
    OBVIOUS
  <2>2. toServer[s] = <<>> /\ toClient[s] = <<>>
    BY <2>1 DEF Unopened
  <2> QED
    BY <1>1, <2>2
<1>6. Apart'
  <2> SUFFICES ASSUME ~raced'
               PROVE  StopTimed' /\ FetchAlone' /\ Tracked'
    BY DEF Apart
  <2>1. ~raced /\ StopTimed /\ FetchAlone /\ Tracked
    BY <1>2, <1>3 DEF Apart
  <2>2. \A s \in Sockets : Live(s)' => Live(s) /\ s = ws
    BY <2>1 DEF Live, Tracked
  <2>3. CASE Usable(rs)
    <3>1. ws \in Sockets /\ Live(ws)
      BY <2>3, BoundsAssumption DEF Usable, TypeOK, Sockets, Live
    <3>2. ~(fetching > 0)
      BY <2>1, <3>1 DEF FetchAlone
    <3> QED
      BY <1>3, <2>2, <2>3, <3>2 DEF StopTimed, FetchAlone, Tracked
  <2>4. CASE ~Usable(rs)
    <3>1. ~(fetching > 0) /\ ~(ws # 0 /\ rs[ws] = "connecting")
      BY <1>3, <2>4
    <3>2. \A s \in Sockets : ~Live(s)'
      BY <2>2, <2>4, <3>1 DEF Live, Usable, Sockets
    <3> QED
      BY <1>3, <2>4, <3>1, <3>2 DEF StopTimed, FetchAlone, Tracked, Live
  <2> QED
    BY <2>3, <2>4
<1> QED
  BY <1>4, <1>5, <1>6

LEMMA StopStep ==
    ASSUME IInv, Stop
    PROVE  IInv'
<1>1. /\ Stops(readyState, 1) /\ readyState' = readyState
      /\ UNCHANGED <<ws, api_key, fetching, made, toClient, server>>
  BY DEF Stop
<1>2. /\ readyState \in [Sockets -> ReadyStates]
      /\ toClient' \in [Sockets -> Seq(Replies)]
  BY <1>1 DEF IInv, TypeOK
<1>3. /\ 1 \in {1, 2}
      /\ \A s \in Sockets : readyState[s] = readyState[s]
      /\ \A s \in Sockets : toClient'[s] = toClient[s]
  BY <1>1
<1> QED
  BY <1>1, <1>2, <1>3, StopsStep

LEMMA ClosesStep ==
    ASSUME IInv, NEW s \in Sockets, readyState[s] \notin {"none"},
           NEW failed \in BOOLEAN, Closes(s, failed)
    PROVE  IInv'
<1> DEFINE rs == [readyState EXCEPT ![s] = "closed"]
<1>1. /\ readyState' = rs
      /\ toClient' = [toClient EXCEPT ![s] = <<>>]
      /\ UNCHANGED <<ws, api_key, fetching, made, server>>
  BY DEF Closes
<1>2. /\ rs \in [Sockets -> ReadyStates]
      /\ \A t \in Sockets : rs[t] = readyState[t]
            \/ (rs[t] = "closed" /\ readyState[t] # "none")
  <2>1. "closed" \in ReadyStates /\ readyState \in [Sockets -> ReadyStates]
    BY DEF IInv, TypeOK, ReadyStates
  <2> QED
    BY <2>1
<1>3. /\ toClient' \in [Sockets -> Seq(Replies)]
      /\ \A t \in Sockets : toClient'[t] = toClient[t] \/ toClient'[t] = <<>>
  BY <1>1 DEF IInv, TypeOK
<1>4. CASE \E n \in {1, 2} : Stops(rs, n)
  <2> HIDE DEF rs
  <2> QED
    BY <1>1, <1>2, <1>3, <1>4, StopsStep
<1>5. CASE UNCHANGED <<toServer, isStreaming, raced, timers>>
  <2>1. TypeOK'
    <3>1. \A t \in Sockets : rs[t] = "none" <=> t > made
      BY <1>2 DEF IInv, TypeOK
    <3> HIDE DEF rs
    <3> QED
      BY <1>1, <1>2, <1>3, <1>5, <3>1 DEF IInv, TypeOK, server
  <2>2. Unopened'
    BY <1>1, <1>2, <1>3, <1>5 DEF IInv, Unopened, TypeOK
  <2>3. Apart'
    <3> HIDE DEF rs
    <3> SUFFICES ASSUME ~raced
                 PROVE  StopTimed' /\ FetchAlone' /\ Tracked'
      BY <1>5 DEF Apart
    <3>1. StopTimed /\ FetchAlone /\ Tracked
      BY DEF IInv, Apart
    <3>2. \A t \in Sockets : (Live(t)' => Live(t)) /\ (rs[t] = "open" => readyState[t] = "open")
      BY <1>1, <1>2 DEF Live
    <3>3. \A t \in Sockets : Has(toClient'[t], "STREAM_STOPPED")
                                => Has(toClient[t], "STREAM_STOPPED")
      BY <1>3, HasNothing
    <3> QED
      BY <1>1, <1>5, <3>1, <3>2, <3>3 DEF StopTimed, FetchAlone, Tracked
  <2> QED
    BY <2>1, <2>2, <2>3 DEF IInv
<1> QED
  BY <1>1, <1>4, <1>5 DEF Closes

LEMMA TimerStep ==
    ASSUME IInv, Timer
    PROVE  IInv'
<1> USE DEF IInv
<1>1. /\ timers > 0 /\ timers' = timers - 1 /\ isStreaming' = FALSE /\ ws' = 0
      /\ UNCHANGED <<api_key, fetching, made, raced, toServer, toClient, session, broadcast>>
  BY DEF Timer, server
<1>2. /\ readyState' \in [Sockets -> ReadyStates]
      /\ \A s \in Sockets : readyState'[s] =
            IF s = ws /\ readyState[s] \in {"connecting", "open"} THEN "closing"
            ELSE readyState[s]
  <2>1. /\ readyState \in [Sockets -> ReadyStates] /\ "closing" \in ReadyStates
        /\ ws # 0 => ws \in Sockets
        /\ 0 \notin Sockets
    BY BoundsAssumption DEF TypeOK, ReadyStates, Sockets
  <2>2. readyState' = IF ws # 0 /\ readyState[ws] \in {"connecting", "open"}
                      THEN [readyState EXCEPT ![ws] = "closing"] ELSE readyState
    BY DEF Timer
  <2> QED
    BY <2>1, <2>2
<1>3. TypeOK'
  <2>1. timers' \in Nat /\ ws' \in 0..made'
    BY <1>1 DEF TypeOK
  <2>2. \A s \in Sockets : readyState'[s] = "none" <=> s > made
    BY <1>2 DEF TypeOK
  <2> QED
    BY <1>1, <1>2, <2>1, <2>2 DEF TypeOK
<1>4. Unopened'
  BY <1>1, <1>2 DEF Unopened
<1>5. Apart'
  <2> SUFFICES ASSUME ~raced
               PROVE  StopTimed' /\ FetchAlone' /\ Tracked'
    BY <1>1 DEF Apart
  <2>1. \A s \in Sockets : ~Live(s)'
    BY <1>2 DEF Apart, Tracked, Live
  <2>2. ~(fetching > 0)
    BY <1>1 DEF Apart, FetchAlone, TypeOK
  <2> QED
    BY <1>1, <2>1, <2>2 DEF StopTimed, FetchAlone, Tracked, Live
<1> QED
  BY <1>3, <1>4, <1>5

-----------------------------------------------------------------------------
(* Messages *)

LEMMA NoStopInside ==
    /\ <<"auth">> \in Seq(Messages) /\ ~Has(<<"auth">>, "stop")
    /\ <<"config">> \in Seq(Messages) /\ ~Has(<<"config">>, "stop")
BY DEF Messages, Has

LEMMA OpenedStep ==
    ASSUME IInv, NEW s \in Sockets, Opened(s)
    PROVE  IInv'
<1> USE DEF IInv
<1> DEFINE rs == [readyState EXCEPT ![s] = "open"]
<1>1. /\ readyState[s] = "connecting" /\ readyState' = rs
      /\ session' = [session EXCEPT ![s] = "guest"]
      /\ Send(rs, <<"auth">>)
      /\ UNCHANGED <<isStreaming, ws, api_key, fetching, timers, made, raced,
                     toClient, broadcast>>
  BY DEF Opened
<1>2. /\ rs \in [Sockets -> ReadyStates]
      /\ \A t \in Sockets : rs[t] = IF t = s THEN "open" ELSE readyState[t]
  BY DEF TypeOK, ReadyStates
<1> HIDE DEF rs
<1>3. /\ toServer' \in [Sockets -> Seq(Messages)]
      /\ \A t \in Sockets : toServer'[t] # toServer[t] => t = ws /\ rs[t] = "open"
      /\ \A t \in Sockets : Has(toServer'[t], "stop") => Has(toServer[t], "stop")
  BY <1>1, <1>2, SendEffect, NoStopInside
<1>4. TypeOK'
  <2>1. session' \in [Sockets -> Sessions]
    BY <1>1 DEF TypeOK, Sessions
  <2>2. \A t \in Sockets : rs[t] = "none" <=> t > made
    BY <1>1, <1>2 DEF TypeOK
  <2> QED
    BY <1>1, <1>2, <1>3, <2>1, <2>2 DEF TypeOK
<1>5. Unopened'
  BY <1>1, <1>2, <1>3 DEF Unopened
<1>6. Apart'
  <2> SUFFICES ASSUME ~raced
               PROVE  StopTimed' /\ FetchAlone' /\ Tracked'
    BY <1>1 DEF Apart
  <2>1. StopTimed /\ FetchAlone /\ Tracked
    BY DEF Apart
  <2>2. \A t \in Sockets : Live(t)' <=> Live(t)
    BY <1>1, <1>2 DEF Live
  <2>3. toServer[s] = <<>> /\ toClient[s] = <<>>
    BY <1>1 DEF Unopened
  <2>4. StopTimed'
    BY <1>1, <1>2, <1>3, <2>1, <2>3, HasNothing DEF StopTimed
  <2> QED
    BY <1>1, <2>1, <2>2, <2>4 DEF FetchAlone, Tracked
<1> QED
  BY <1>4, <1>5, <1>6

LEMMA ReceiveStep ==
    ASSUME IInv, NEW s \in Sockets, Receive(s)
    PROVE  IInv'
<1> USE DEF IInv
<1>1. /\ readyState[s] = "open" /\ toClient[s] # <<>>
      /\ toClient' = [toClient EXCEPT ![s] = Tail(toClient[s])]
      /\ isStreaming' = (isStreaming /\ Head(toClient[s]) # "STREAM_STOPPED")
      /\ UNCHANGED <<ws, api_key, fetching, timers, made, readyState, raced,
                     session, broadcast>>
  BY DEF Receive, server
<1>2. toClient[s] \in Seq(Replies) /\ readyState \in [Sockets -> ReadyStates]
  BY DEF TypeOK
<1>3. /\ toServer' \in [Sockets -> Seq(Messages)]
      /\ \A t \in Sockets : toServer'[t] # toServer[t] => readyState[t] = "open"
      /\ \A t \in Sockets : Has(toServer'[t], "stop") => Has(toServer[t], "stop")
  <2>1. CASE Send(readyState, <<"config">>)
    BY <1>2, <2>1, SendEffect, NoStopInside
  <2>2. CASE UNCHANGED toServer
    BY <2>2 DEF TypeOK
  <2> QED
    BY <2>1, <2>2 DEF Receive
<1>4. Tail(toClient[s]) \in Seq(Replies)
  BY <1>1, <1>2
<1>5. TypeOK'
  BY <1>1, <1>3, <1>4 DEF TypeOK
<1>6. Unopened'
  BY <1>1, <1>3 DEF Unopened, TypeOK
<1>7. Apart'
  <2> SUFFICES ASSUME ~raced
               PROVE  StopTimed' /\ FetchAlone' /\ Tracked'
    BY <1>1 DEF Apart
  <2>1. StopTimed /\ FetchAlone /\ Tracked
    BY DEF Apart
  <2>2. \A t \in Sockets : Has(toClient'[t], "STREAM_STOPPED")
                              => Has(toClient[t], "STREAM_STOPPED")
    BY <1>1, <1>2, HasTail DEF TypeOK
  <2>3. StopTimed'
    BY <1>1, <1>3, <2>1, <2>2 DEF StopTimed
  <2>4. Live(s)
    BY <1>1 DEF Live
  <2>5. FetchAlone'
    BY <1>1, <2>1, <2>4 DEF FetchAlone
  <2>6. Head(toClient[s]) = "STREAM_STOPPED" => timers > 0
    BY <1>1, <1>2, <2>1, HasHead DEF StopTimed
  <2>7. Tracked'
    BY <1>1, <2>1, <2>6 DEF Tracked, Live, TypeOK
  <2> QED
    BY <2>3, <2>5, <2>7
<1> QED
  BY <1>5, <1>6, <1>7

\* The replies keep to open sockets, and STREAM_STOPPED answers a stop.
LEMMA ReplyEffect ==
    ASSUME TypeOK, NEW s \in Sockets, NEW reply \in Replies, Reply(s, reply)
    PROVE  /\ toClient' \in [Sockets -> Seq(Replies)]
           /\ \A t \in Sockets : toClient'[t] # toClient[t]
                 => t = s /\ readyState[t] = "open"
           /\ \A t \in Sockets : Has(toClient'[t], "STREAM_STOPPED") =>
                 Has(toClient[t], "STREAM_STOPPED")
                     \/ (t = s /\ reply = "STREAM_STOPPED")
<1>1. CASE UNCHANGED toClient
  <2>1. toClient' = toClient /\ toClient \in [Sockets -> Seq(Replies)]
    BY <1>1 DEF TypeOK
  <2> QED
    BY <2>1, Zenon
<1>2. CASE /\ readyState[s] = "open"
           /\ toClient' = [toClient EXCEPT ![s] = Append(toClient[s], reply)]
  <2>1. toClient[s] \in Seq(Replies) /\ toClient \in [Sockets -> Seq(Replies)]
    BY DEF TypeOK
  <2>2. Append(toClient[s], reply) \in Seq(Replies)
    BY <2>1
  <2>3. Has(Append(toClient[s], reply), "STREAM_STOPPED") =>
            Has(toClient[s], "STREAM_STOPPED") \/ reply = "STREAM_STOPPED"
    BY <2>1, HasAppend
  <2>4. toClient'[s] = Append(toClient[s], reply)
    BY <1>2, <2>1
  <2>5. \A t \in Sockets : t # s => toClient'[t] = toClient[t]
    BY <1>2, <2>1
  <2>6. toClient' \in [Sockets -> Seq(Replies)]
    BY <1>2, <2>1, <2>2
  <2> QED
    BY <1>2, <2>3, <2>4, <2>5, <2>6, Zenon
<1> QED
  BY <1>1, <1>2 DEF Reply

LEMMA HandleStep ==
    ASSUME IInv, NEW s \in Sockets, Handle(s)
    PROVE  IInv'
<1> USE DEF IInv
<1>1. /\ toServer[s] # <<>> /\ toServer[s] \in Seq(Messages)
      /\ toServer' = [toServer EXCEPT ![s] = Tail(toServer[s])]
      /\ UNCHANGED page
  BY DEF Handle, TypeOK
<1>2. PICK reply \in Replies :
          /\ Reply(s, reply)
          /\ reply = "STREAM_STOPPED" => Head(toServer[s]) = "stop"
          /\ session' = session \/ session' = [session EXCEPT ![s] = "controller"]
          /\ broadcast' \in BOOLEAN
  BY DEF Handle, Replies, TypeOK, server
<1>3. /\ toClient' \in [Sockets -> Seq(Replies)]
      /\ \A t \in Sockets : toClient'[t] # toClient[t] => t = s /\ readyState[t] = "open"
      /\ \A t \in Sockets : Has(toClient'[t], "STREAM_STOPPED") =>
            Has(toClient[t], "STREAM_STOPPED") \/ (t = s /\ reply = "STREAM_STOPPED")
  BY <1>2, ReplyEffect
<1>4. /\ Tail(toServer[s]) \in Seq(Messages)
      /\ Has(Tail(toServer[s]), "stop") => Has(toServer[s], "stop")
      /\ Has(toServer[s], Head(toServer[s]))
  BY <1>1, HasTail, HasHead
<1>5. TypeOK'
  <2>1. session' \in [Sockets -> Sessions]
    BY <1>2 DEF TypeOK, Sessions
  <2>2. toServer' \in [Sockets -> Seq(Messages)]
    BY <1>1, <1>4 DEF TypeOK
  <2> QED
    BY <1>1, <1>2, <1>3, <2>1, <2>2 DEF TypeOK, page
<1>6. Unopened'
  <2>1. readyState[s] \notin {"none", "connecting"}
    BY <1>1 DEF Unopened
  <2> QED
    BY <1>1, <1>3, <2>1 DEF Unopened, page, TypeOK
<1>7. Apart'
  <2> SUFFICES ASSUME ~raced
               PROVE  StopTimed' /\ FetchAlone' /\ Tracked'
    BY <1>1 DEF Apart, page
  <2>1. StopTimed /\ FetchAlone /\ Tracked
    BY DEF Apart
  <2>2. \A t \in Sockets : Has(toServer'[t], "stop") => Has(toServer[t], "stop")
    BY <1>1, <1>4 DEF TypeOK
  <2>3. \A t \in Sockets : Has(toClient'[t], "STREAM_STOPPED") =>
            Has(toClient[t], "STREAM_STOPPED") \/ Has(toServer[t], "stop")
    BY <1>2, <1>3, <1>4
  <2>4. StopTimed'
    BY <1>1, <2>1, <2>2, <2>3 DEF StopTimed, page
  <2> QED
    BY <1>1, <2>1, <2>4 DEF FetchAlone, Tracked, Live, page
<1> QED
  BY <1>5, <1>6, <1>7

LEMMA SessionEndsStep ==
    ASSUME IInv, NEW s \in Sockets, SessionEnds(s)
    PROVE  IInv'
<1> USE DEF IInv
<1>1. /\ readyState[s] \in {"closed", "closing"}
      /\ session' = [session EXCEPT ![s] = "over"]
      /\ broadcast' \in BOOLEAN
      /\ toServer' = [toServer EXCEPT ![s] = <<>>]
      /\ UNCHANGED <<page, toClient>>
  BY DEF SessionEnds, TypeOK
<1>2. TypeOK'
  <2>1. session' \in [Sockets -> Sessions] /\ toServer' \in [Sockets -> Seq(Messages)]
    BY <1>1 DEF TypeOK, Sessions
  <2> QED
    BY <1>1, <2>1 DEF TypeOK, page
<1>3. Unopened'
  BY <1>1 DEF Unopened, page, TypeOK
<1>4. Apart'
  <2>1. \A t \in Sockets : readyState[t] = "open" => toServer'[t] = toServer[t]
    BY <1>1 DEF TypeOK
  <2> QED
    BY <1>1, <2>1 DEF Apart, StopTimed, FetchAlone, Tracked, Live, page
<1> QED
  BY <1>2, <1>3, <1>4

-----------------------------------------------------------------------------
LEMMA InvStep == IInv /\ [Next]_vars => IInv'
<1> SUFFICES ASSUME IInv, [Next]_vars
             PROVE  IInv'
  OBVIOUS
<1>1. CASE Start \/ Stop \/ Fetched \/ Timer
  BY <1>1, StartStep, StopStep, FetchedStep, TimerStep
<1>2. ASSUME NEW s \in Sockets, Events(s)
      PROVE  IInv'
  <2>1. CASE Opened(s) \/ Receive(s)
    BY <2>1, OpenedStep, ReceiveStep
  <2>2. CASE CloseDone(s)
    <3>1. (session[s] = "none") \in BOOLEAN /\ readyState[s] \notin {"none"}
      BY <2>2 DEF CloseDone
    <3> QED
      BY <2>2, <3>1, ClosesStep DEF CloseDone
  <2>3. CASE Lost(s)
    BY <2>3, ClosesStep DEF Lost
  <2> QED
    BY <1>2, <2>1, <2>2, <2>3 DEF Events
<1>3. ASSUME NEW s \in Sockets, Handle(s) \/ SessionEnds(s)
      PROVE  IInv'
  BY <1>3, HandleStep, SessionEndsStep
<1>4. CASE UNCHANGED vars
  BY <1>4 DEF vars, page, server, IInv, TypeOK, Unopened, Apart, StopTimed,
     FetchAlone, Tracked, Live
<1> QED
  BY <1>1, <1>2, <1>3, <1>4 DEF Next

\* Every variable keeps its type, and this.ws is a socket that was made.
THEOREM TypeCorrect == Spec => []TypeOK
<1>1. IInv => TypeOK
  BY DEF IInv
<1> QED
  BY <1>1, InvInit, InvStep, PTL DEF Spec

\* While no start overlaps a stop, the page loses track of no socket
\* (app.js:126, 206 and 211-218).
THEOREM OnlyRacesLeak == Spec => []LeakNeedsRace
<1>1. IInv => LeakNeedsRace
  BY DEF IInv, Apart, Tracked, LeakNeedsRace
<1> QED
  BY <1>1, InvInit, InvStep, PTL DEF Spec

-----------------------------------------------------------------------------
(* Whose broadcast it is *)

Owned ==
    /\ broadcast => \E s \in Sockets : session[s] = "controller"
    /\ \A s \in Sockets :
           readyState[s] \in {"none", "connecting"} => session[s] = "none"

LEMMA OwnedStep == IInv /\ Owned /\ [Next]_vars => Owned'
<1> SUFFICES ASSUME TypeOK, Owned, [Next]_vars PROVE Owned'
  BY DEF IInv
<1>1. CASE Start \/ Fetched \/ Stop \/ Timer \/ UNCHANGED vars
  <2>1. UNCHANGED server
    BY <1>1 DEF Start, Fetched, Stop, Timer, vars
  <2>2. CASE Start \/ Fetched
    <3>1. NewSocket \/ UNCHANGED readyState
      BY <2>2 DEF Start, Fetched
    <3>2. CASE NewSocket
      <4>1. /\ made + 1 \in Sockets /\ made + 1 > made
            /\ readyState' = [readyState EXCEPT ![made + 1] = "connecting"]
        BY <3>2, BoundsAssumption DEF NewSocket, TypeOK, Sockets
      <4>2. readyState[made + 1] = "none"
        BY <4>1 DEF TypeOK
      <4> QED
        BY <2>1, <4>1, <4>2 DEF Owned, server, TypeOK
    <3> QED
      BY <2>1, <3>1, <3>2 DEF Owned, server
  <2>3. CASE Stop \/ UNCHANGED vars
    BY <2>1, <2>3 DEF Stop, vars, page, Owned, server
  <2>4. CASE Timer
    BY <2>1, <2>4 DEF Timer, Owned, server, TypeOK
  <2> QED
    BY <1>1, <2>2, <2>3, <2>4
<1>2. ASSUME NEW s \in Sockets, Events(s)
      PROVE  Owned'
  <2>1. CASE Opened(s)
    BY <2>1 DEF Opened, Owned, TypeOK
  <2>2. CASE CloseDone(s) \/ Lost(s)
    <3>1. UNCHANGED server /\ readyState' = [readyState EXCEPT ![s] = "closed"]
      BY <2>2 DEF CloseDone, Lost, Closes
    <3> QED
      BY <3>1 DEF Owned, server, TypeOK
  <2>3. CASE Receive(s)
    BY <2>3 DEF Receive, Owned, server
  <2> QED
    BY <1>2, <2>1, <2>2, <2>3 DEF Events
<1>3. ASSUME NEW s \in Sockets, Handle(s)
      PROVE  Owned'
  <2>1. /\ Up(s) /\ UNCHANGED readyState
        /\ \/ session' = session
           \/ session' = [session EXCEPT ![s] = "controller"]
        /\ broadcast' => (broadcast \/ session[s] = "controller")
    <3>1. Up(s) /\ UNCHANGED readyState
      BY <1>3 DEF Handle, page
    <3>2. \/ /\ session' = [session EXCEPT ![s] = "controller"]
             /\ UNCHANGED broadcast
          \/ session[s] = "controller" /\ UNCHANGED session
          \/ broadcast' = FALSE /\ UNCHANGED session
          \/ UNCHANGED server
      BY <1>3 DEF Handle
    <3>3. UNCHANGED server => UNCHANGED <<session, broadcast>>
      BY DEF server
    <3> QED
      BY <3>1, <3>2, <3>3
  <2>2. \A t \in Sockets :
            /\ session'[t] = session[t] \/ (t = s /\ session'[t] = "controller")
            /\ session[t] = "controller" => session'[t] = "controller"
    BY <2>1 DEF TypeOK
  <2>3. session[s] # "none"
    BY <2>1 DEF Up
  <2> QED
    BY <2>1, <2>2, <2>3 DEF Owned
<1>4. ASSUME NEW s \in Sockets, SessionEnds(s)
      PROVE  Owned'
  <2>1. /\ Up(s) /\ UNCHANGED readyState
        /\ session' = [session EXCEPT ![s] = "over"]
        /\ broadcast' => broadcast /\ session[s] # "controller"
    BY <1>4 DEF SessionEnds, page
  <2> QED
    BY <2>1 DEF Owned, Up, TypeOK
<1> QED
  BY <1>1, <1>2, <1>3, <1>4 DEF Next

\* Whatever is lost or overtaken, a broadcast that the page no longer shows has
\* its end under way, as long as starts and stops are kept apart (app.js:200-220
\* and the destructor of the session).
THEOREM BroadcastEndIsDue == Spec => []EndIsDue
<1>1. Init => Owned
  BY DEF Init, Owned
<1>2. IInv /\ Owned => EndIsDue
  <2> SUFFICES ASSUME IInv, Owned, ~raced, ~isStreaming, broadcast
               PROVE  \E s \in Sockets :
                          /\ session[s] = "controller"
                          /\ \/ readyState[s] \in {"closing", "closed"}
                             \/ s = ws /\ timers > 0
    BY DEF EndIsDue
  <2>1. PICK s \in Sockets : session[s] = "controller"
    BY DEF Owned
  <2>2. readyState[s] \in {"open", "closing", "closed"}
    BY <2>1 DEF Owned, IInv, TypeOK, ReadyStates
  <2>3. readyState[s] = "open" => s = ws /\ timers > 0
    BY DEF IInv, Apart, Tracked, Live
  <2> QED
    BY <2>1, <2>2, <2>3
<1> QED
  BY <1>1, <1>2, InvInit, InvStep, OwnedStep, PTL DEF Spec
=============================================================================
