----------------------- MODULE StreamController_proofs -----------------------
(***************************************************************************)
(* Theorems about StreamController, for any set of sessions, any bound on  *)
(* registrations and any set of commands.                                  *)
(***************************************************************************)
EXTENDS StreamController, TLAPS

-----------------------------------------------------------------------------
(* Type correctness *)

LEMMA PointsExist ==
    "entering" \in LoopPoints /\ "waiting" \in LoopPoints /\ "ticking" \in LoopPoints
  BY DEF LoopPoints

LEMMA InitTypeOK == Init => TypeOK
<1>1. Init => DataTyped
  BY DEF Init, DataTyped, PCs, Calls, Roles, Replies
<1>2. Init => FlagsTyped
  BY DEF Init, FlagsTyped
<1> QED BY <1>1, <1>2 DEF TypeOK

LEMMA StepDataTyped == TypeOK /\ [Next]_vars => DataTyped'
<1> SUFFICES ASSUME TypeOK, [Next]_vars PROVE DataTyped'
  OBVIOUS
<1> USE DEF TypeOK, DataTyped, PCs, Calls, Roles, Replies, stream, session
<1>1. ASSUME NEW s \in Sessions, Client(s) PROVE DataTyped'
  <2>1. CASE Connect(s)
    BY <2>1 DEF Connect
  <2>2. ASSUME NEW as \in {"viewer", "controller"}, Authenticate(s, as)
        PROVE  DataTyped'
    <3>1. reply' \in [Sessions -> Replies]
      BY <2>2 DEF Authenticate
    <3>2. joining' \in [Sessions -> Nat]
      BY <2>2 DEF Authenticate
    <3>3. role' \in [Sessions -> Roles]
      BY <2>2 DEF Authenticate
    <3>4. UNCHANGED <<pc, call, viewers, camera, loops, playback_session>>
      BY <2>2 DEF Authenticate
    <3> QED BY <3>1, <3>2, <3>3, <3>4
  <2>3. CASE Refuse(s)
    BY <2>3 DEF Refuse
  <2>4. ASSUME NEW op \in Commands, Call(s, op) PROVE DataTyped'
    BY <2>4, CommandsAssumption DEF Call, AllowedCalls
  <2>5. CASE HangUp(s)
    BY <2>5 DEF HangUp
  <2> QED BY <1>1, <2>1, <2>2, <2>3, <2>4, <2>5 DEF Client
<1>2. ASSUME NEW s \in Sessions, AddViewer(s) PROVE DataTyped'
  BY <1>2 DEF AddViewer
<1>3. ASSUME NEW s \in Sessions, Serve(s) PROVE DataTyped'
  <2> USE DEF Return
  <2>1. CASE RemoveViewer(s)
    BY <2>1 DEF RemoveViewer
  <2>2. CASE StartAgain(s)
    BY <2>2 DEF StartAgain
  <2>3. CASE StartStreaming(s)
    BY <2>3, PointsExist DEF StartStreaming
  <2>4. CASE StartFails(s)
    BY <2>4 DEF StartFails
  <2>5. CASE StopNothing(s)
    BY <2>5 DEF StopNothing
  <2>6. CASE RequestStop(s)
    BY <2>6 DEF RequestStop
  <2>7. CASE StartPlayback(s)
    BY <2>7 DEF StartPlayback
  <2>8. CASE StopPlayback(s)
    BY <2>8 DEF StopPlayback
  <2> QED BY <1>3, <2>1, <2>2, <2>3, <2>4, <2>5, <2>6, <2>7, <2>8 DEF Serve
<1>4. ASSUME NEW s \in Sessions, FinishStop(s) PROVE DataTyped'
  BY <1>4 DEF FinishStop, Cleanup, Return
<1>5. ASSUME NEW s \in Sessions, Destroy(s) PROVE DataTyped'
  BY <1>5 DEF Destroy, DestructorCalls
<1>6. CASE EnterLoop
  BY <1>6, PointsExist DEF EnterLoop, LoopTop
<1>7. CASE FrameTimer
  BY <1>7, PointsExist DEF FrameTimer
<1>8. CASE CaptureFrame
  <2>1. /\ viewers' \in [Sessions -> Nat]
        /\ reply' \in [Sessions -> Replies]
    BY <1>8 DEF CaptureFrame, Broadcast, Pruned
  <2>2. loops' \in [LoopPoints -> Nat]
    BY <1>8, PointsExist DEF CaptureFrame, LoopTop
  <2>3. UNCHANGED <<pc, call, role, joining, camera, playback_session>>
    BY <1>8 DEF CaptureFrame
  <2> QED BY <2>1, <2>2, <2>3
<1>9. CASE CaptureFails
  BY <1>9, PointsExist DEF CaptureFails
<1>10. CASE UNCHANGED vars
  BY <1>10 DEF vars
<1> QED BY <1>1, <1>2, <1>3, <1>4, <1>5, <1>6, <1>7, <1>8, <1>9, <1>10
        DEF Next, CaptureLoop, AllDone

LEMMA StepFlagsTyped == TypeOK /\ [Next]_vars => FlagsTyped'
<1> SUFFICES ASSUME TypeOK, [Next]_vars PROVE FlagsTyped'
  OBVIOUS
<1> USE DEF TypeOK, FlagsTyped, stream, session
<1>1. ASSUME NEW s \in Sessions, Client(s) PROVE FlagsTyped'
  <2>1. CASE Connect(s)
    BY <2>1 DEF Connect
  <2>2. ASSUME NEW as \in {"viewer", "controller"}, Authenticate(s, as)
        PROVE  FlagsTyped'
    BY <2>2 DEF Authenticate
  <2>3. CASE Refuse(s)
    BY <2>3 DEF Refuse
  <2>4. ASSUME NEW op \in Commands, Call(s, op) PROVE FlagsTyped'
    BY <2>4 DEF Call, AllowedCalls
  <2>5. CASE HangUp(s)
    BY <2>5 DEF HangUp
  <2> QED BY <1>1, <2>1, <2>2, <2>3, <2>4, <2>5 DEF Client
<1>2. ASSUME NEW s \in Sessions, AddViewer(s) PROVE FlagsTyped'
  BY <1>2 DEF AddViewer
<1>3. ASSUME NEW s \in Sessions, Serve(s) PROVE FlagsTyped'
  <2> USE DEF Return
  <2>1. CASE RemoveViewer(s)
    BY <2>1 DEF RemoveViewer
  <2>2. CASE StartAgain(s)
    BY <2>2 DEF StartAgain
  <2>3. CASE StartStreaming(s)
    BY <2>3 DEF StartStreaming
  <2>4. CASE StartFails(s)
    BY <2>4 DEF StartFails
  <2>5. CASE StopNothing(s)
    BY <2>5 DEF StopNothing
  <2>6. CASE RequestStop(s)
    BY <2>6 DEF RequestStop
  <2>7. CASE StartPlayback(s)
    BY <2>7 DEF StartPlayback
  <2>8. CASE StopPlayback(s)
    BY <2>8 DEF StopPlayback
  <2> QED BY <1>3, <2>1, <2>2, <2>3, <2>4, <2>5, <2>6, <2>7, <2>8 DEF Serve
<1>4. ASSUME NEW s \in Sessions, FinishStop(s) PROVE FlagsTyped'
  BY <1>4 DEF FinishStop, Cleanup, Return
<1>5. ASSUME NEW s \in Sessions, Destroy(s) PROVE FlagsTyped'
  BY <1>5 DEF Destroy, DestructorCalls
<1>6. CASE EnterLoop
  BY <1>6 DEF EnterLoop, LoopTop
<1>7. CASE FrameTimer
  BY <1>7 DEF FrameTimer
<1>8. CASE CaptureFrame
  BY <1>8 DEF CaptureFrame, LoopTop
<1>9. CASE CaptureFails
  BY <1>9 DEF CaptureFails
<1>10. CASE UNCHANGED vars
  BY <1>10 DEF vars
<1> QED BY <1>1, <1>2, <1>3, <1>4, <1>5, <1>6, <1>7, <1>8, <1>9, <1>10
        DEF Next, CaptureLoop, AllDone

\* Every variable keeps its type.
THEOREM TypeCorrect == Spec => []TypeOK
<1>1. TypeOK /\ [Next]_vars => TypeOK'
  BY StepDataTyped, StepFlagsTyped DEF TypeOK
<1> QED BY InitTypeOK, <1>1, PTL DEF Spec

-----------------------------------------------------------------------------
(* The inductive invariant *)

LEMMA InitIInv == Init => IInv
<1> SUFFICES ASSUME Init PROVE IInv
  OBVIOUS
<1>1. TypeOK
  BY InitTypeOK
<1>2. CallsMatch
  BY DEF Init, CallsMatch
<1>3. OneCaptureLoop
  BY PointsExist DEF Init, OneCaptureLoop
<1>4. StreamingHasCamera /\ EndingHasStopper /\ NoOrphanStream
  BY DEF Init, StreamingHasCamera, EndingHasStopper, NoOrphanStream
<1>5. IdleCameraReleased
  BY DEF Init, IdleCameraReleased
<1> QED BY <1>1, <1>2, <1>3, <1>4, <1>5 DEF IInv

LEMMA StepCallsMatch == IInv /\ [Next]_vars => CallsMatch'
<1> SUFFICES ASSUME IInv, [Next]_vars PROVE CallsMatch'
  OBVIOUS
<1>0. DataTyped
  BY DEF IInv, TypeOK
<1> USE <1>0 DEF IInv, CallsMatch, DataTyped, stream, session
<1>1. ASSUME NEW s \in Sessions, Client(s) PROVE CallsMatch'
  <2>1. CASE Connect(s)
    BY <2>1 DEF Connect
  <2>2. ASSUME NEW as \in {"viewer", "controller"}, Authenticate(s, as)
        PROVE  CallsMatch'
    BY <2>2 DEF Authenticate
  <2>3. CASE Refuse(s)
    BY <2>3 DEF Refuse
  <2>4. ASSUME NEW op \in Commands, Call(s, op) PROVE CallsMatch'
    BY <2>4, CommandsAssumption DEF Call, AllowedCalls
  <2>5. CASE HangUp(s)
    BY <2>5 DEF HangUp
  <2> QED BY <1>1, <2>1, <2>2, <2>3, <2>4, <2>5 DEF Client
<1>2. ASSUME NEW s \in Sessions, AddViewer(s) PROVE CallsMatch'
  BY <1>2 DEF AddViewer
<1>3. ASSUME NEW s \in Sessions, Serve(s) PROVE CallsMatch'
  <2> USE DEF Return, Hopped
  <2>1. CASE RemoveViewer(s)
    BY <2>1 DEF RemoveViewer
  <2>2. CASE StartAgain(s)
    BY <2>2 DEF StartAgain
  <2>3. CASE StartStreaming(s)
    BY <2>3 DEF StartStreaming
  <2>4. CASE StartFails(s)
    BY <2>4 DEF StartFails
  <2>5. CASE StopNothing(s)
    BY <2>5 DEF StopNothing
  <2>6. CASE RequestStop(s)
    BY <2>6 DEF RequestStop
  <2>7. CASE StartPlayback(s)
    BY <2>7 DEF StartPlayback
  <2>8. CASE StopPlayback(s)
    BY <2>8 DEF StopPlayback
  <2> QED BY <1>3, <2>1, <2>2, <2>3, <2>4, <2>5, <2>6, <2>7, <2>8 DEF Serve
<1>4. ASSUME NEW s \in Sessions, FinishStop(s) PROVE CallsMatch'
  BY <1>4 DEF FinishStop, Cleanup, Return
<1>5. ASSUME NEW s \in Sessions, Destroy(s) PROVE CallsMatch'
  BY <1>5 DEF Destroy, DestructorCalls
<1>6. CASE CaptureLoop
  BY <1>6 DEF CaptureLoop, EnterLoop, FrameTimer, CaptureFrame, CaptureFails
<1>7. CASE UNCHANGED vars
  BY <1>7 DEF vars
<1> QED BY <1>1, <1>2, <1>3, <1>4, <1>5, <1>6, <1>7 DEF Next, AllDone

(***************************************************************************)
(* Most steps leave the broadcast's variables alone.  StreamStep names the *)
(* others; a quiet step keeps whoever polls in stop_streaming, and while a *)
(* broadcast runs no controller is done.                                   *)
(***************************************************************************)
StreamStep ==
    \/ \E s \in Sessions :
        StartStreaming(s) \/ StartFails(s) \/ RequestStop(s) \/ FinishStop(s)
    \/ CaptureLoop

Pollers == {s \in Sessions : pc[s] \in {"stopping", "dtorStopping"}}
Controllers == {s \in Sessions : role[s] = "controller" /\ pc[s] # "done"}

QuietStep ==
    /\ UNCHANGED stream
    /\ Pollers \subseteq Pollers'
    /\ is_streaming => Controllers \subseteq Controllers'

LEMMA StepsAreQuiet == IInv /\ [Next]_vars => StreamStep \/ QuietStep
<1> SUFFICES ASSUME IInv, [Next]_vars PROVE StreamStep \/ QuietStep
  OBVIOUS
<1>0. DataTyped /\ CallsMatch
  BY DEF IInv, TypeOK
<1> USE <1>0 DEF Pollers, Controllers, QuietStep, CallsMatch, DataTyped, stream, session
<1>1. ASSUME NEW s \in Sessions, Client(s) PROVE QuietStep
  <2>1. CASE Connect(s)
    BY <2>1 DEF Connect
  <2>2. ASSUME NEW as \in {"viewer", "controller"}, Authenticate(s, as)
        PROVE  QuietStep
    BY <2>2 DEF Authenticate
  <2>3. CASE Refuse(s)
    BY <2>3 DEF Refuse
  <2>4. ASSUME NEW op \in Commands, Call(s, op) PROVE QuietStep
    BY <2>4, CommandsAssumption DEF Call, AllowedCalls
  <2>5. CASE HangUp(s)
    BY <2>5 DEF HangUp
  <2> QED BY <1>1, <2>1, <2>2, <2>3, <2>4, <2>5 DEF Client
<1>2. ASSUME NEW s \in Sessions, AddViewer(s) PROVE QuietStep
  BY <1>2 DEF AddViewer
<1>3. ASSUME NEW s \in Sessions, Serve(s) PROVE StreamStep \/ QuietStep
  <2> USE DEF Return, Hopped
  <2>1. CASE RemoveViewer(s)
    BY <2>1 DEF RemoveViewer
  <2>2. CASE StartAgain(s)
    BY <2>2 DEF StartAgain
  <2>3. CASE StopNothing(s)
    BY <2>3 DEF StopNothing
  <2>4. CASE StartPlayback(s)
    BY <2>4 DEF StartPlayback
  <2>5. CASE StopPlayback(s)
    BY <2>5 DEF StopPlayback
  <2> QED BY <1>3, <2>1, <2>2, <2>3, <2>4, <2>5 DEF Serve, StreamStep
<1>4. ASSUME NEW s \in Sessions, Destroy(s) PROVE QuietStep
  BY <1>4 DEF Destroy, DestructorCalls
<1>5. CASE UNCHANGED vars
  BY <1>5 DEF vars
<1> QED BY <1>1, <1>2, <1>3, <1>4, <1>5 DEF Next, AllDone, StreamStep

LEMMA StepOneCaptureLoop == IInv /\ [Next]_vars => OneCaptureLoop'
<1> SUFFICES ASSUME IInv, [Next]_vars PROVE OneCaptureLoop'
  OBVIOUS
<1>0. DataTyped /\ OneCaptureLoop
  BY DEF IInv, TypeOK
<1> USE <1>0, PointsExist DEF DataTyped, OneCaptureLoop, session
<1>1. CASE QuietStep
  BY <1>1 DEF QuietStep, stream, Pollers, Controllers
<1>2. ASSUME NEW s \in Sessions, StartStreaming(s) PROVE OneCaptureLoop'
  BY <1>2 DEF StartStreaming, MayStart, Return, Hopped
<1>3. ASSUME NEW s \in Sessions, StartFails(s) PROVE OneCaptureLoop'
  BY <1>3 DEF StartFails, MayStart, Return, Hopped
<1>4. ASSUME NEW s \in Sessions, RequestStop(s) PROVE OneCaptureLoop'
  BY <1>4 DEF RequestStop, Hopped
<1>5. ASSUME NEW s \in Sessions, FinishStop(s) PROVE OneCaptureLoop'
  BY <1>5 DEF FinishStop, StopIsOver, Cleanup, Return
<1>6. CASE EnterLoop
  BY <1>6 DEF EnterLoop, LoopTop, KeepsCapturing
<1>7. CASE FrameTimer
  BY <1>7 DEF FrameTimer
<1>8. CASE CaptureFrame
  BY <1>8 DEF CaptureFrame, LoopTop, KeepsCapturing
<1>9. CASE CaptureFails
  BY <1>9 DEF CaptureFails
<1> QED BY StepsAreQuiet, <1>1, <1>2, <1>3, <1>4, <1>5, <1>6, <1>7, <1>8, <1>9
        DEF StreamStep, CaptureLoop

LEMMA StepStreamingHasCamera == IInv /\ [Next]_vars => StreamingHasCamera'
<1> SUFFICES ASSUME IInv, [Next]_vars PROVE StreamingHasCamera'
  OBVIOUS
<1>0. DataTyped /\ OneCaptureLoop /\ StreamingHasCamera
  BY DEF IInv, TypeOK
<1> USE <1>0, PointsExist DEF DataTyped, OneCaptureLoop, StreamingHasCamera, session
<1>1. CASE QuietStep
  BY <1>1 DEF QuietStep, stream, Pollers, Controllers
<1>2. ASSUME NEW s \in Sessions, StartStreaming(s) PROVE StreamingHasCamera'
  BY <1>2 DEF StartStreaming, MayStart, Return, Hopped
<1>3. ASSUME NEW s \in Sessions, StartFails(s) PROVE StreamingHasCamera'
  BY <1>3 DEF StartFails, MayStart, Return, Hopped
<1>4. ASSUME NEW s \in Sessions, RequestStop(s) PROVE StreamingHasCamera'
  BY <1>4 DEF RequestStop, Hopped
<1>5. ASSUME NEW s \in Sessions, FinishStop(s) PROVE StreamingHasCamera'
  BY <1>5 DEF FinishStop, StopIsOver, Cleanup, Return
<1>6. CASE EnterLoop
  BY <1>6 DEF EnterLoop, LoopTop, KeepsCapturing
<1>7. CASE FrameTimer
  BY <1>7 DEF FrameTimer
<1>8. CASE CaptureFrame
  BY <1>8 DEF CaptureFrame, LoopTop, KeepsCapturing
<1>9. CASE CaptureFails
  BY <1>9 DEF CaptureFails
<1> QED BY StepsAreQuiet, <1>1, <1>2, <1>3, <1>4, <1>5, <1>6, <1>7, <1>8, <1>9
        DEF StreamStep, CaptureLoop

LEMMA StepEndingHasStopper == IInv /\ [Next]_vars => EndingHasStopper'
<1> SUFFICES ASSUME IInv, [Next]_vars PROVE EndingHasStopper'
  OBVIOUS
<1>0. DataTyped /\ EndingHasStopper /\ OneCaptureLoop
  BY DEF IInv, TypeOK
<1> USE <1>0, PointsExist DEF DataTyped, EndingHasStopper, OneCaptureLoop, session
<1>1. CASE QuietStep
  BY <1>1 DEF QuietStep, stream, Pollers, Controllers
<1>2. ASSUME NEW s \in Sessions, StartStreaming(s) PROVE EndingHasStopper'
  BY <1>2 DEF StartStreaming, MayStart, Return, Hopped
<1>3. ASSUME NEW s \in Sessions, StartFails(s) PROVE EndingHasStopper'
  BY <1>3 DEF StartFails, MayStart, Return, Hopped
<1>4. ASSUME NEW s \in Sessions, RequestStop(s) PROVE EndingHasStopper'
  BY <1>4 DEF RequestStop, Hopped
<1>5. ASSUME NEW s \in Sessions, FinishStop(s) PROVE EndingHasStopper'
  BY <1>5 DEF FinishStop, StopIsOver, Cleanup, Return
<1>6. CASE EnterLoop
  BY <1>6 DEF EnterLoop, LoopTop, KeepsCapturing
<1>7. CASE FrameTimer
  BY <1>7 DEF FrameTimer
<1>8. CASE CaptureFrame
  BY <1>8 DEF CaptureFrame, LoopTop, KeepsCapturing
<1>9. CASE CaptureFails
  BY <1>9 DEF CaptureFails
<1> QED BY StepsAreQuiet, <1>1, <1>2, <1>3, <1>4, <1>5, <1>6, <1>7, <1>8, <1>9
        DEF StreamStep, CaptureLoop

LEMMA StepNoOrphanStream == IInv /\ [Next]_vars => NoOrphanStream'
<1> SUFFICES ASSUME IInv, [Next]_vars PROVE NoOrphanStream'
  OBVIOUS
<1>0. DataTyped /\ NoOrphanStream /\ CallsMatch /\ OneCaptureLoop
  BY DEF IInv, TypeOK
<1> USE <1>0, PointsExist DEF DataTyped, NoOrphanStream, CallsMatch, OneCaptureLoop, session
<1>1. CASE QuietStep
  BY <1>1 DEF QuietStep, stream, Pollers, Controllers
<1>2. ASSUME NEW s \in Sessions, StartStreaming(s) PROVE NoOrphanStream'
  BY <1>2 DEF StartStreaming, MayStart, Return, Hopped
<1>3. ASSUME NEW s \in Sessions, StartFails(s) PROVE NoOrphanStream'
  BY <1>3 DEF StartFails, MayStart, Return, Hopped
<1>4. ASSUME NEW s \in Sessions, RequestStop(s) PROVE NoOrphanStream'
  BY <1>4 DEF RequestStop, Hopped
<1>5. ASSUME NEW s \in Sessions, FinishStop(s) PROVE NoOrphanStream'
  BY <1>5 DEF FinishStop, StopIsOver, Cleanup, Return
<1>6. CASE EnterLoop
  BY <1>6 DEF EnterLoop, LoopTop, KeepsCapturing
<1>7. CASE FrameTimer
  BY <1>7 DEF FrameTimer
<1>8. CASE CaptureFrame
  BY <1>8 DEF CaptureFrame, LoopTop, KeepsCapturing
<1>9. CASE CaptureFails
  BY <1>9 DEF CaptureFails
<1> QED BY StepsAreQuiet, <1>1, <1>2, <1>3, <1>4, <1>5, <1>6, <1>7, <1>8, <1>9
        DEF StreamStep, CaptureLoop

LEMMA StepIdleCameraReleased == IInv /\ [Next]_vars => IdleCameraReleased'
<1> SUFFICES ASSUME IInv, [Next]_vars PROVE IdleCameraReleased'
  OBVIOUS
<1>0. DataTyped /\ IdleCameraReleased /\ EndingHasStopper /\ OneCaptureLoop
  BY DEF IInv, TypeOK
<1> USE <1>0, PointsExist DEF DataTyped, IdleCameraReleased, EndingHasStopper, OneCaptureLoop, session
<1>1. CASE QuietStep
  BY <1>1 DEF QuietStep, stream, Pollers, Controllers
<1>2. ASSUME NEW s \in Sessions, StartStreaming(s) PROVE IdleCameraReleased'
  BY <1>2 DEF StartStreaming, MayStart, Return, Hopped
<1>3. ASSUME NEW s \in Sessions, StartFails(s) PROVE IdleCameraReleased'
  BY <1>3 DEF StartFails, MayStart, Return, Hopped
<1>4. ASSUME NEW s \in Sessions, RequestStop(s) PROVE IdleCameraReleased'
  BY <1>4 DEF RequestStop, Hopped
<1>5. ASSUME NEW s \in Sessions, FinishStop(s) PROVE IdleCameraReleased'
  BY <1>5 DEF FinishStop, StopIsOver, Cleanup, Return
<1>6. CASE EnterLoop
  BY <1>6 DEF EnterLoop, LoopTop, KeepsCapturing
<1>7. CASE FrameTimer
  BY <1>7 DEF FrameTimer
<1>8. CASE CaptureFrame
  BY <1>8 DEF CaptureFrame, LoopTop, KeepsCapturing
<1>9. CASE CaptureFails
  BY <1>9 DEF CaptureFails
<1> QED BY StepsAreQuiet, <1>1, <1>2, <1>3, <1>4, <1>5, <1>6, <1>7, <1>8, <1>9
        DEF StreamStep, CaptureLoop

LEMMA Inductive == Spec => []IInv
<1>1. IInv /\ [Next]_vars => IInv'
  BY StepDataTyped, StepFlagsTyped, StepCallsMatch, StepOneCaptureLoop,
     StepStreamingHasCamera, StepEndingHasStopper, StepNoOrphanStream,
     StepIdleCameraReleased
     DEF IInv, TypeOK
<1> QED BY InitIInv, <1>1, PTL DEF Spec
-----------------------------------------------------------------------------
(* Safety *)

\* capture_loop runs once while is_streaming_ holds and not at all otherwise.
THEOREM OneLoop == Spec => []OneCaptureLoop
<1> QED BY Inductive, PTL DEF IInv

\* No cleanup, failed start or capture error closes a broadcast's camera.
THEOREM BroadcastHasCamera == Spec => []StreamingHasCamera
<1> QED BY Inductive, PTL DEF IInv

\* Some controller's session is alive, or still in its destructor's
\* stop_streaming, as long as there is a broadcast.
THEOREM NoOrphan == Spec => []NoOrphanStream
<1> QED BY Inductive, PTL DEF IInv

\* The camera is given back except after a capture error.
THEOREM CameraGivenBack == Spec => []IdleCameraReleased
<1> QED BY Inductive, PTL DEF IInv

\* STREAM_STOPPED is never sent under a running broadcast: the two steps that
\* send it, StopNothing and FinishStop, find is_streaming_ off.
THEOREM StopConfirmed == Spec => StopConfirmedMeansStopped
<1> DEFINE A == \A s \in Sessions :
        pc[s] \in {"calling", "stopping"} /\ pc'[s] = "reading"
            /\ reply'[s] = "STREAM_STOPPED" => ~is_streaming'
<1>1. IInv /\ [Next]_vars => [A]_vars
  <2> SUFFICES ASSUME IInv, Next PROVE A
    BY DEF vars
  <2>0. DataTyped
    BY DEF IInv, TypeOK
  <2> USE <2>0 DEF DataTyped, session, stream
  <2>1. ASSUME NEW t \in Sessions, Client(t) PROVE A
    BY <2>1 DEF Client, Connect, Authenticate, Refuse, Call, HangUp
  <2>2. ASSUME NEW t \in Sessions, AddViewer(t) PROVE A
    BY <2>2 DEF AddViewer
  <2>3. ASSUME NEW t \in Sessions, Serve(t) PROVE A
    <3> USE DEF Return
    <3>1. CASE RemoveViewer(t)
      BY <3>1 DEF RemoveViewer
    <3>2. CASE StartAgain(t) \/ StartStreaming(t)
      BY <3>2 DEF StartAgain, StartStreaming
    <3>3. CASE StartFails(t)
      BY <3>3 DEF StartFails
    <3>4. CASE StopNothing(t)
      BY <3>4 DEF StopNothing
    <3>5. CASE RequestStop(t)
      BY <3>5 DEF RequestStop
    <3>6. CASE StartPlayback(t) \/ StopPlayback(t)
      BY <3>6 DEF StartPlayback, StopPlayback
    <3> QED BY <2>3, <3>1, <3>2, <3>3, <3>4, <3>5, <3>6 DEF Serve
  <2>4. ASSUME NEW t \in Sessions, FinishStop(t) PROVE A
    BY <2>4 DEF FinishStop, Cleanup
  <2>5. ASSUME NEW t \in Sessions, Destroy(t) PROVE A
    BY <2>5 DEF Destroy
  <2>6. CASE CaptureLoop
    BY <2>6 DEF CaptureLoop, EnterLoop, FrameTimer, CaptureFrame, CaptureFails
  <2>7. CASE AllDone
    BY <2>7 DEF AllDone, vars
  <2> QED BY <2>1, <2>2, <2>3, <2>4, <2>5, <2>6, <2>7 DEF Next
<1> QED BY Inductive, <1>1, PTL DEF Spec, StopConfirmedMeansStopped

\* A live session leaves viewers_ only when cleanup drops everybody between
\* broadcasts.  A destructor that removes its session is expired itself.
THEOREM ViewersKept == Spec => LiveViewerKept
<1> DEFINE A == \A s \in Sessions :
        viewers'[s] < viewers[s] /\ ~Expired(s) =>
            ~is_streaming /\ \A v \in Sessions : viewers'[v] = 0
<1>1. IInv /\ [Next]_vars => [A]_vars
  <2> SUFFICES ASSUME IInv, Next PROVE A
    BY DEF vars
  <2>0. DataTyped /\ CallsMatch
    BY DEF IInv, TypeOK
  <2> USE <2>0 DEF DataTyped
  <2>1. CASE UNCHANGED viewers
    BY <2>1
  <2>2. ASSUME NEW t \in Sessions, AddViewer(t) PROVE A
    BY <2>2 DEF AddViewer
  <2>3. ASSUME NEW t \in Sessions, RemoveViewer(t) PROVE A
    <3>1. Expired(t)
      BY <2>3 DEF RemoveViewer, Hopped, CallsMatch, Expired
    <3> QED BY <2>3, <3>1 DEF RemoveViewer, Removes
  <2>4. ASSUME NEW t \in Sessions, FinishStop(t) PROVE A
    BY <2>4 DEF FinishStop, StopIsOver, Cleanup
  <2>5. CASE CaptureFrame
    BY <2>5 DEF CaptureFrame, Broadcast, Pruned
  <2>6. ASSUME NEW t \in Sessions, Client(t) \/ Destroy(t) PROVE UNCHANGED viewers
    BY <2>6 DEF Client, Connect, Authenticate, Refuse, Call, HangUp, Destroy
  <2>7. ASSUME NEW t \in Sessions, Serve(t) PROVE RemoveViewer(t) \/ UNCHANGED viewers
    BY <2>7 DEF Serve, StartAgain, StartStreaming, StartFails, StopNothing,
                RequestStop, StartPlayback, StopPlayback
  <2>8. CASE CaptureLoop
    BY <2>1, <2>5, <2>8 DEF CaptureLoop, EnterLoop, FrameTimer, CaptureFails
  <2>9. CASE AllDone
    BY <2>1, <2>9 DEF AllDone, vars
  <2> QED BY <2>1, <2>2, <2>3, <2>4, <2>6, <2>7, <2>8, <2>9 DEF Next
<1> QED BY Inductive, <1>1, PTL DEF Spec, LiveViewerKept

-----------------------------------------------------------------------------
(* Refinement *)

LEMMA ServiceStep == IInv /\ [Next]_vars => [Service!Next]_(Service!vars)
<1> SUFFICES ASSUME IInv, [Next]_vars PROVE [Service!Next]_(Service!vars)
  OBVIOUS
<1>0. DataTyped /\ OneCaptureLoop
  BY DEF IInv, TypeOK
<1> USE <1>0 DEF DataTyped, stream, session, Service!vars
<1>1. CASE UNCHANGED <<is_streaming, stop_requested, camera, viewers>>
  BY <1>1 DEF Phase, Audience
<1>2. ASSUME NEW s \in Sessions, AddViewer(s) PROVE Service!Next
  <2>1. Audience' = Audience \union {s}
    BY <1>2 DEF AddViewer, Audience
  <2>2. UNCHANGED <<Phase, camera>>
    BY <1>2 DEF AddViewer, Phase
  <2> QED BY <2>1, <2>2 DEF Service!Next, Service!Join
<1>3. ASSUME NEW s \in Sessions, RemoveViewer(s) PROVE Service!Next
  <2>1. Audience' \in SUBSET Audience
    BY <1>3 DEF RemoveViewer, Audience
  <2>2. UNCHANGED <<Phase, camera>>
    BY <1>3 DEF RemoveViewer, Phase
  <2> QED BY <2>1, <2>2 DEF Service!Next, Service!Leave
<1>4. ASSUME NEW s \in Sessions, StartStreaming(s) PROVE Service!Next
  <2>1. Phase = "idle" /\ Phase' = "live" /\ camera' = "open"
    BY <1>4 DEF StartStreaming, MayStart, Phase
  <2>2. UNCHANGED Audience
    BY <1>4 DEF StartStreaming, Audience
  <2> QED BY <2>1, <2>2 DEF Service!Next, Service!Begin
<1>5. ASSUME NEW s \in Sessions, StartFails(s) PROVE [Service!Next]_(Service!vars)
  <2>1. Phase = "idle" /\ UNCHANGED Phase
    BY <1>5 DEF StartFails, MayStart, Phase
  <2>2. UNCHANGED Audience
    BY <1>5 DEF StartFails, Audience
  <2>3. camera' = "closed" \/ UNCHANGED camera
    BY <1>5 DEF StartFails
  <2> QED BY <2>1, <2>2, <2>3 DEF Service!Next, Service!FailToBegin
<1>6. ASSUME NEW s \in Sessions, RequestStop(s) PROVE [Service!Next]_(Service!vars)
  <2>1. Phase \in {"live", "ending"} /\ Phase' = "ending"
    BY <1>6 DEF RequestStop, Phase
  <2>2. UNCHANGED <<camera, Audience>>
    BY <1>6 DEF RequestStop, Audience
  <2> QED BY <2>1, <2>2 DEF Service!Next, Service!RequestEnd
<1>7. ASSUME NEW s \in Sessions, FinishStop(s) PROVE Service!Next
  <2>1. Phase = "idle" /\ UNCHANGED Phase
    BY <1>7 DEF FinishStop, StopIsOver, Cleanup, Phase
  <2>2. camera' = "closed" /\ Audience' = {}
    BY <1>7 DEF FinishStop, Cleanup, Audience
  <2> QED BY <2>1, <2>2 DEF Service!Next, Service!Release
<1>8. ASSUME NEW from \in LoopPoints, is_streaming, LoopTop(from),
             UNCHANGED <<stop_requested, camera>>, Audience' \in SUBSET Audience
      PROVE  Service!Next
  <2>1. CASE KeepsCapturing
    <3>1. UNCHANGED <<Phase, camera>>
      BY <1>8, <2>1 DEF LoopTop, Phase
    <3> QED BY <1>8, <3>1 DEF Service!Next, Service!Leave
  <2>2. CASE ~KeepsCapturing
    <3>1. Phase \in {"live", "ending"} /\ Phase' = "idle" /\ UNCHANGED camera
      BY <1>8, <2>2 DEF LoopTop, Phase
    <3> QED BY <1>8, <3>1 DEF Service!Next, Service!End
  <2> QED BY <2>1, <2>2
<1>9. CASE EnterLoop
  <2>1. Audience' \in SUBSET Audience
    BY <1>9 DEF EnterLoop, Audience
  <2>2. is_streaming
    BY <1>9, PointsExist DEF EnterLoop, OneCaptureLoop
  <2> QED BY <1>8, <1>9, <2>1, <2>2, PointsExist DEF EnterLoop
<1>10. CASE CaptureFrame
  <2>1. Audience' \in SUBSET Audience
    BY <1>10 DEF CaptureFrame, Broadcast, Pruned, Audience
  <2>2. is_streaming
    BY <1>10, PointsExist DEF CaptureFrame, OneCaptureLoop
  <2> QED BY <1>8, <1>10, <2>1, <2>2, PointsExist DEF CaptureFrame
<1>11. CASE CaptureFails
  <2>1. is_streaming
    BY <1>11, PointsExist DEF CaptureFails, OneCaptureLoop
  <2>2. Phase \in {"live", "ending"} /\ Phase' = "idle"
    BY <1>11, <2>1 DEF CaptureFails, Phase
  <2>3. UNCHANGED <<camera, Audience>>
    BY <1>11 DEF CaptureFails, Audience
  <2> QED BY <2>2, <2>3 DEF Service!Next, Service!End
<1>12. ASSUME NEW s \in Sessions, Client(s) \/ Destroy(s)
       PROVE  UNCHANGED <<is_streaming, stop_requested, camera, viewers>>
  BY <1>12 DEF Client, Connect, Authenticate, Refuse, Call, HangUp, Destroy
<1>13. ASSUME NEW s \in Sessions, Serve(s)
       PROVE  \/ RemoveViewer(s) \/ StartStreaming(s) \/ StartFails(s) \/ RequestStop(s)
              \/ UNCHANGED <<is_streaming, stop_requested, camera, viewers>>
  BY <1>13 DEF Serve, StartAgain, StopNothing, StartPlayback, StopPlayback
<1>14. CASE FrameTimer
  BY <1>1, <1>14 DEF FrameTimer
<1>15. CASE UNCHANGED vars
  BY <1>1, <1>15 DEF vars
<1> QED BY <1>1, <1>2, <1>3, <1>4, <1>5, <1>6, <1>7, <1>9, <1>10, <1>11, <1>12,
           <1>13, <1>14, <1>15
        DEF Next, CaptureLoop, AllDone

\* StreamController's coroutines implement the abstract broadcast service.
THEOREM Refinement == Spec => ImplementsService
<1>1. Init => Service!Init
  BY DEF Init, Service!Init, Phase, Audience
<1> QED BY Inductive, ServiceStep, <1>1, PTL DEF Spec, ImplementsService, Service!Spec
-----------------------------------------------------------------------------
(* The end of a session *)

\* A destroyed session's own coroutine makes no call but its destructor's.
LEMMA FreeStep == IInv /\ ExpiredIsFree /\ [Next]_vars => ExpiredIsFree'
<1> SUFFICES ASSUME IInv, ExpiredIsFree, [Next]_vars PROVE ExpiredIsFree'
  OBVIOUS
<1>0. DataTyped /\ CallsMatch
  BY DEF IInv, TypeOK
<1> USE <1>0, NobodyAssumption
    DEF DataTyped, CallsMatch, ExpiredIsFree, Expired, session, stream
<1>1. ASSUME NEW s \in Sessions, Client(s) PROVE ExpiredIsFree'
  BY <1>1 DEF Client, Connect, Authenticate, Refuse, Call, HangUp
<1>2. ASSUME NEW s \in Sessions, AddViewer(s) PROVE ExpiredIsFree'
  BY <1>2 DEF AddViewer
<1>3. ASSUME NEW s \in Sessions, Serve(s) PROVE ExpiredIsFree'
  <2> USE DEF Hopped, Return
  <2>1. CASE RemoveViewer(s)
    BY <2>1 DEF RemoveViewer
  <2>2. CASE StartAgain(s) \/ StartStreaming(s) \/ StartFails(s)
    BY <2>2 DEF StartAgain, StartStreaming, StartFails
  <2>3. CASE StopNothing(s) \/ RequestStop(s)
    BY <2>3 DEF StopNothing, RequestStop
  <2>4. CASE StartPlayback(s)
    BY <2>4 DEF StartPlayback
  <2>5. CASE StopPlayback(s)
    BY <2>5 DEF StopPlayback
  <2> QED BY <1>3, <2>1, <2>2, <2>3, <2>4, <2>5 DEF Serve
<1>4. ASSUME NEW s \in Sessions, FinishStop(s) PROVE ExpiredIsFree'
  BY <1>4 DEF FinishStop, Cleanup, Return
<1>5. ASSUME NEW s \in Sessions, Destroy(s) PROVE ExpiredIsFree'
  BY <1>5 DEF Destroy, DestructorCalls
<1>6. CASE CaptureLoop
  BY <1>6 DEF CaptureLoop, EnterLoop, FrameTimer, CaptureFrame, CaptureFails
<1>7. CASE UNCHANGED vars
  BY <1>7 DEF vars
<1> QED BY <1>1, <1>2, <1>3, <1>4, <1>5, <1>6, <1>7 DEF Next, AllDone

\* No shared_ptr to a session outlives it: the add_viewer jobs on the strand and
\* playback_session_ are those that the controller holds.
THEOREM NothingHoldsExpired == Spec => []ExpiredIsFree
<1>1. Init => ExpiredIsFree
  BY DEF Init, ExpiredIsFree, Expired
<1> QED BY Inductive, FreeStep, <1>1, PTL DEF Spec

LEMMA StoppersStep == IInv /\ OnlyControllersStop /\ [Next]_vars => OnlyControllersStop'
<1> SUFFICES ASSUME IInv, OnlyControllersStop, [Next]_vars
             PROVE  OnlyControllersStop'
  OBVIOUS
<1>0. DataTyped
  BY DEF IInv, TypeOK
<1> USE <1>0 DEF DataTyped, OnlyControllersStop, session, stream
<1>1. ASSUME NEW s \in Sessions, Client(s) PROVE OnlyControllersStop'
  <2>1. CASE Connect(s) \/ Refuse(s) \/ HangUp(s)
    BY <2>1 DEF Connect, Refuse, HangUp
  <2>2. ASSUME NEW as \in {"viewer", "controller"}, Authenticate(s, as)
        PROVE  OnlyControllersStop'
    BY <2>2 DEF Authenticate
  <2>3. ASSUME NEW op \in Commands, Call(s, op) PROVE OnlyControllersStop'
    BY <2>3 DEF Call, AllowedCalls
  <2> QED BY <1>1, <2>1, <2>2, <2>3 DEF Client
<1>2. ASSUME NEW s \in Sessions, AddViewer(s) PROVE OnlyControllersStop'
  BY <1>2 DEF AddViewer
<1>3. ASSUME NEW s \in Sessions, Serve(s) PROVE OnlyControllersStop'
  <2> USE DEF Hopped, Return
  <2>1. CASE RemoveViewer(s)
    BY <2>1 DEF RemoveViewer
  <2>2. CASE StartAgain(s) \/ StartStreaming(s) \/ StartFails(s)
    BY <2>2 DEF StartAgain, StartStreaming, StartFails
  <2>3. CASE StopNothing(s)
    BY <2>3 DEF StopNothing
  <2>4. CASE RequestStop(s)
    BY <2>4 DEF RequestStop
  <2>5. CASE StartPlayback(s) \/ StopPlayback(s)
    BY <2>5 DEF StartPlayback, StopPlayback
  <2> QED BY <1>3, <2>1, <2>2, <2>3, <2>4, <2>5 DEF Serve
<1>4. ASSUME NEW s \in Sessions, FinishStop(s) PROVE OnlyControllersStop'
  BY <1>4 DEF FinishStop, Cleanup, Return
<1>5. ASSUME NEW s \in Sessions, Destroy(s) PROVE OnlyControllersStop'
  BY <1>5 DEF Destroy, DestructorCalls
<1>6. CASE CaptureLoop
  BY <1>6 DEF CaptureLoop, EnterLoop, FrameTimer, CaptureFrame, CaptureFails
<1>7. CASE UNCHANGED vars
  BY <1>7 DEF vars
<1> QED BY <1>1, <1>2, <1>3, <1>4, <1>5, <1>6, <1>7 DEF Next, AllDone

\* No viewer ever stops a broadcast, neither by a message nor in its destructor.
THEOREM StopNeedsController == Spec => []OnlyControllersStop
<1>1. Init => OnlyControllersStop
  BY DEF Init, OnlyControllersStop
<1> QED BY Inductive, StoppersStep, <1>1, PTL DEF Spec

\* Which steps bring a session to the end of its destructor.
LEMMA WhoIsDone ==
    ASSUME IInv, OnlyControllersStop, [Next]_vars, NEW v \in Sessions,
           pc'[v] = "done", role'[v] = "viewer"
    PROVE  \/ pc[v] = "done" /\ role[v] = "viewer"
           \/ RemoveViewer(v)
<1>0. DataTyped /\ CallsMatch /\ OnlyControllersStop
  BY DEF IInv, TypeOK
<1> USE <1>0 DEF DataTyped, CallsMatch, OnlyControllersStop, session, stream
<1>1. ASSUME NEW s \in Sessions, Client(s)
      PROVE  pc[v] = "done" /\ role[v] = "viewer"
  BY <1>1 DEF Client, Connect, Authenticate, Refuse, Call, HangUp
<1>2. ASSUME NEW s \in Sessions, AddViewer(s)
      PROVE  pc[v] = "done" /\ role[v] = "viewer"
  BY <1>2 DEF AddViewer
<1>3. ASSUME NEW s \in Sessions, Destroy(s)
      PROVE  pc[v] = "done" /\ role[v] = "viewer"
  BY <1>3 DEF Destroy, DestructorCalls
<1>4. ASSUME NEW s \in Sessions, Serve(s), s # v
      PROVE  pc[v] = "done" /\ role[v] = "viewer"
  BY <1>4 DEF Serve, RemoveViewer, StartAgain, StartStreaming, StartFails,
              StopNothing, RequestStop, StartPlayback, StopPlayback, Return
<1>5. ASSUME Serve(v)
      PROVE  RemoveViewer(v)
  <2> USE DEF Hopped, Return
  <2>1. CASE StartAgain(v) \/ StartStreaming(v) \/ StartFails(v)
    BY <2>1 DEF StartAgain, StartStreaming, StartFails
  <2>2. CASE StartPlayback(v) \/ StopPlayback(v)
    BY <2>2 DEF StartPlayback, StopPlayback
  <2>3. CASE StopNothing(v) \/ RequestStop(v)
    BY <2>3 DEF StopNothing, RequestStop
  <2> QED BY <1>5, <2>1, <2>2, <2>3 DEF Serve
<1>6. ASSUME NEW s \in Sessions, FinishStop(s)
      PROVE  pc[v] = "done" /\ role[v] = "viewer"
  BY <1>6 DEF FinishStop, Return
<1>7. CASE CaptureLoop
  BY <1>7 DEF CaptureLoop, EnterLoop, FrameTimer, CaptureFrame, CaptureFails
<1>8. CASE UNCHANGED vars
  BY <1>8 DEF vars
<1> QED BY <1>1, <1>2, <1>3, <1>4, <1>5, <1>6, <1>7, <1>8 DEF Next, AllDone

LEMMA DeadViewersStep ==
    IInv /\ ExpiredIsFree /\ OnlyControllersStop /\ NoDeadViewers /\ [Next]_vars
        => NoDeadViewers'
<1> SUFFICES ASSUME IInv, ExpiredIsFree, OnlyControllersStop, NoDeadViewers,
                    [Next]_vars,
                    NEW v \in Sessions, pc'[v] = "done", role'[v] = "viewer"
             PROVE  viewers'[v] = 0
  BY DEF NoDeadViewers
<1>0. DataTyped
  BY DEF IInv, TypeOK
<1>1. CASE RemoveViewer(v)
  BY <1>0, <1>1 DEF RemoveViewer, Removes, DataTyped
<1>2. CASE pc[v] = "done" /\ role[v] = "viewer"
  <2>1. viewers[v] = 0 /\ joining[v] = 0
    BY <1>2 DEF NoDeadViewers, ExpiredIsFree, Expired
  <2> USE <1>0, <2>1 DEF DataTyped, session, stream
  <2>2. ASSUME NEW s \in Sessions, AddViewer(s) PROVE viewers'[v] = 0
    BY <2>2 DEF AddViewer
  <2>3. ASSUME NEW s \in Sessions, Serve(s) PROVE viewers'[v] = 0
    BY <2>3 DEF Serve, RemoveViewer, StartAgain, StartStreaming, StartFails,
                StopNothing, RequestStop, StartPlayback, StopPlayback
  <2>4. ASSUME NEW s \in Sessions, FinishStop(s) PROVE viewers'[v] = 0
    BY <2>4 DEF FinishStop, Cleanup
  <2>5. ASSUME NEW s \in Sessions, Client(s) \/ Destroy(s) PROVE viewers'[v] = 0
    BY <2>5 DEF Client, Connect, Authenticate, Refuse, Call, HangUp, Destroy
  <2>6. CASE CaptureLoop
    BY <2>6 DEF CaptureLoop, EnterLoop, FrameTimer, CaptureFrame, CaptureFails,
                Broadcast, Pruned
  <2>7. CASE UNCHANGED vars
    BY <2>7 DEF vars
  <2> QED BY <2>2, <2>3, <2>4, <2>5, <2>6, <2>7 DEF Next, AllDone
<1> QED BY <1>1, <1>2, WhoIsDone

\* remove_viewer_by_id is never overtaken by an add_viewer that was posted before
\* it: the destructor waits for both.
THEOREM DeadViewersAreRemoved == Spec => []NoDeadViewers
<1>1. Init => NoDeadViewers
  BY DEF Init, NoDeadViewers
<1> QED BY Inductive, NothingHoldsExpired, StopNeedsController, DeadViewersStep,
           <1>1, PTL DEF Spec

-----------------------------------------------------------------------------
(* Two answers about what is under way *)

\* CONFIG_APPLIED without a broadcast that goes on has but one cause.
THEOREM ConfigAppliedIsExplained == Spec => ConfigAppliedOrStopping
<1> DEFINE A == \A s \in Sessions :
        call[s] = "start" /\ pc'[s] = "reading" /\ reply'[s] = "CONFIG_APPLIED"
            => /\ is_streaming'
               /\ stop_requested' => \E t \in Sessions \ {s} :
                                        pc'[t] \in {"stopping", "dtorStopping"}
<1>1. IInv /\ IInv' /\ [Next]_vars => [A]_vars
  <2> SUFFICES ASSUME IInv, IInv', Next, NEW s \in Sessions,
                      call[s] = "start", pc'[s] = "reading",
                      reply'[s] = "CONFIG_APPLIED"
               PROVE  /\ is_streaming'
                      /\ stop_requested' => \E t \in Sessions \ {s} :
                                               pc'[t] \in {"stopping", "dtorStopping"}
    BY DEF vars
  <2>0. DataTyped /\ CallsMatch
    BY DEF IInv, TypeOK
  <2> USE <2>0 DEF DataTyped, CallsMatch, session, stream
  <2>1. is_streaming'
    <3>1. pc[s] = "calling"
      OBVIOUS
    <3>2. ASSUME NEW t \in Sessions, Client(t) \/ AddViewer(t) \/ Destroy(t)
          PROVE  FALSE
      BY <3>1, <3>2 DEF Client, Connect, Authenticate, Refuse, Call, HangUp,
                       AddViewer, Destroy
    <3>3. ASSUME NEW t \in Sessions, FinishStop(t) PROVE FALSE
      BY <3>1, <3>3 DEF FinishStop, Return
    <3>4. ASSUME NEW t \in Sessions, t # s, Serve(t) PROVE FALSE
      BY <3>1, <3>4 DEF Serve, RemoveViewer, StartAgain, StartStreaming,
                       StartFails, StopNothing, RequestStop, StartPlayback,
                       StopPlayback, Return
    <3>5. ASSUME Serve(s) PROVE is_streaming'
      BY <3>1, <3>5 DEF Serve, RemoveViewer, StartAgain, StartStreaming,
                       StartFails, StopNothing, RequestStop, StartPlayback,
                       StopPlayback, Return, Hopped, MayStart
    <3>6. CASE CaptureLoop
      BY <3>1, <3>6 DEF CaptureLoop, EnterLoop, FrameTimer, CaptureFrame, CaptureFails
    <3>7. CASE AllDone
      BY <3>1, <3>7 DEF AllDone, vars
    <3> QED BY <3>2, <3>3, <3>4, <3>5, <3>6, <3>7 DEF Next
  <2>2. ASSUME stop_requested'
        PROVE  \E t \in Sessions \ {s} : pc'[t] \in {"stopping", "dtorStopping"}
    BY <2>1, <2>2 DEF IInv, EndingHasStopper
  <2> QED BY <2>1, <2>2
<1> QED BY Inductive, <1>1, PTL DEF Spec, ConfigAppliedOrStopping

\* What StopTakesEffect needs besides fairness: capture_loop makes at most two
\* more steps in a broadcast that was asked to end.
THEOREM EndIsNear == Spec => EndingAdvances
<1> DEFINE A == Phase = "ending" /\ loops' # loops =>
                    Phase' = "idle" \/ StepsLeft' < StepsLeft
<1>1. IInv /\ [Next]_vars => [A]_vars
  <2> SUFFICES ASSUME IInv, Next, Phase = "ending", loops' # loops
               PROVE  Phase' = "idle" \/ StepsLeft' < StepsLeft
    BY DEF vars
  <2>1. DataTyped /\ is_streaming /\ stop_requested
    BY DEF IInv, TypeOK, Phase
  <2>2. ~KeepsCapturing
    BY <2>1 DEF KeepsCapturing
  <2>3. ASSUME NEW s \in Sessions,
               Client(s) \/ AddViewer(s) \/ Serve(s) \/ FinishStop(s) \/ Destroy(s)
        PROVE  FALSE
    BY <2>1, <2>3
    DEF stream, session, Client, Connect, Authenticate, Refuse, Call, HangUp,
        AddViewer, Serve, RemoveViewer, StartAgain, StartStreaming, StartFails,
        StopNothing, RequestStop, StartPlayback, StopPlayback, FinishStop,
        Destroy, MayStart, StopIsOver
  <2>4. CASE EnterLoop \/ CaptureFrame \/ CaptureFails
    BY <2>2, <2>4 DEF EnterLoop, CaptureFrame, CaptureFails, LoopTop, Phase
  <2>5. CASE FrameTimer
    <3>1. /\ loops'["waiting"] = loops["waiting"] - 1
          /\ loops'["ticking"] = loops["ticking"] + 1
          /\ loops'["entering"] = loops["entering"]
      BY <2>1, <2>5, PointsExist DEF FrameTimer, DataTyped
    <3>2. \A p \in LoopPoints : loops[p] \in Nat
      BY <2>1 DEF DataTyped
    <3>3. StepsLeft' < StepsLeft
      BY <3>1, <3>2, PointsExist DEF StepsLeft
    <3> QED BY <3>3
  <2>6. CASE AllDone
    BY <2>6 DEF AllDone, vars
  <2> QED BY <2>3, <2>4, <2>5, <2>6 DEF Next, CaptureLoop
<1> QED BY Inductive, <1>1, PTL DEF Spec, EndingAdvances
=============================================================================
