-------------------------- MODULE FrameQueue_proofs --------------------------
(***************************************************************************)
(* Theorems about FrameQueue, for every queue size and every number of     *)
(* frames.                                                                 *)
(***************************************************************************)
EXTENDS FrameQueue, TLAPS

LEMMA InitIInv == Init => IInv
<1> SUFFICES ASSUME Init PROVE IInv
  OBVIOUS
<1>1. DataTyped
  BY FramesAssumption DEF Init, DataTyped
<1>2. FlagsTyped
  BY DEF Init, FlagsTyped
<1>3. /\ QueueBounded /\ BacklogIsNewest /\ QuietBeforeOpen /\ InflightIsNext
      /\ GapsMeanFull
  BY QueueSizeAssumption
  DEF Init, QueueBounded, BacklogIsNewest, QuietBeforeOpen, InflightIsNext,
      GapsMeanFull
<1>4. OneWriter /\ NoLostWakeup
  BY DEF Init, OneWriter, NoLostWakeup
<1> QED BY <1>1, <1>2, <1>3, <1>4 DEF IInv, TypeOK

LEMMA StepFlagsTyped == IInv /\ [Next]_vars => FlagsTyped'
  BY DEF IInv, TypeOK, FlagsTyped, Next, vars, Accept, SendFrame, Handlers,
         PostIgnored, PostQueued, Writer, WriterStarts, WriteCompletes,
         WriteFails, TakesFront, Ends, Overlap, WriteAuthFailed,
         AuthFailedWritten, Close, AllDone

\* Queueing a frame: what Pushed does to a queue that holds a run of frames.
LEMMA PushedIsSeq ==
  ASSUME NEW q \in Seq(Nat), NEW f \in Nat, Len(q) <= MaxQueueSize
  PROVE  /\ Pushed(q, f) \in Seq(Nat)
         /\ Len(Pushed(q, f)) <= MaxQueueSize
         /\ Pushed(q, f) # <<>>
<1>1. CASE Len(q) >= MaxQueueSize
  BY <1>1, QueueSizeAssumption DEF Pushed
<1>2. CASE ~(Len(q) >= MaxQueueSize)
  BY <1>2, QueueSizeAssumption DEF Pushed
<1> QED BY <1>1, <1>2

\* A run of frames up to f stays one without its first frame, and grows to
\* f + 1.
Run(q, f) == \A i \in 1..Len(q) : q[i] + Len(q) = f + i

LEMMA TailIsRun ==
  ASSUME NEW q \in Seq(Nat), NEW f \in Nat, q # <<>>, Run(q, f)
  PROVE  Run(Tail(q), f)
<1> SUFFICES ASSUME NEW i \in 1..Len(Tail(q))
             PROVE  Tail(q)[i] + Len(Tail(q)) = f + i
  BY DEF Run
<1>1. Len(Tail(q)) = Len(q) - 1 /\ Tail(q)[i] = q[i + 1] /\ i \in Nat
  OBVIOUS
<1>2. i + 1 \in 1..Len(q)
  BY <1>1
<1>3. q[i + 1] \in Nat /\ q[i + 1] + Len(q) = f + (i + 1)
  BY <1>2 DEF Run
<1> QED BY <1>1, <1>3

LEMMA AppendIsRun ==
  ASSUME NEW q \in Seq(Nat), NEW f \in Nat, Run(q, f)
  PROVE  Run(Append(q, f + 1), f + 1)
<1> SUFFICES ASSUME NEW i \in 1..Len(Append(q, f + 1))
             PROVE  Append(q, f + 1)[i] + Len(Append(q, f + 1)) = f + 1 + i
  BY DEF Run
<1>1. Len(Append(q, f + 1)) = Len(q) + 1 /\ i \in Nat /\ Len(q) \in Nat
  OBVIOUS
<1>2. CASE i = Len(q) + 1
  BY <1>1, <1>2
<1>3. CASE i # Len(q) + 1
  <2>1. i \in 1..Len(q)
    BY <1>1, <1>3
  <2>2. Append(q, f + 1)[i] = q[i] /\ q[i] \in Nat /\ q[i] + Len(q) = f + i
    BY <2>1 DEF Run
  <2> QED BY <1>1, <2>2
<1> QED BY <1>2, <1>3

LEMMA PushedIsRun ==
  ASSUME NEW q \in Seq(Nat), NEW f \in Nat, Len(q) <= MaxQueueSize, Run(q, f)
  PROVE  Run(Pushed(q, f + 1), f + 1)
<1>1. CASE Len(q) >= MaxQueueSize
  <2>1. q # <<>> /\ Tail(q) \in Seq(Nat)
    BY <1>1, QueueSizeAssumption
  <2>2. Run(Tail(q), f)
    BY <2>1, TailIsRun
  <2> QED BY <1>1, <2>1, <2>2, AppendIsRun DEF Pushed
<1>2. CASE ~(Len(q) >= MaxQueueSize)
  BY <1>2, AppendIsRun DEF Pushed
<1> QED BY <1>1, <1>2

\* What follows a dropped frame goes on doing so when more frames come.
LEMMA FollowsGrows ==
  ASSUME NEW f \in Nat, NEW done, NEW newest \in Nat, NEW more \in Nat,
         newest <= more, Follows(f, done, newest)
  PROVE  Follows(f, done, more)
BY QueueSizeAssumption DEF Follows

-----------------------------------------------------------------------------
(* What IInv says of the queue, whatever the flags are. *)

QueueInv ==
    /\ DataTyped
    /\ QueueBounded
    /\ QuietBeforeOpen
    /\ InflightIsNext
    /\ GapsMeanFull
    /\ status = "open" =>
        /\ Run(queue, posted)
        /\ \A f \in inflight \union {delivered} :
            \A i \in 1..Len(queue) : f < queue[i]
        /\ queue = <<>> => posted \in inflight \union {delivered}

LEMMA IInvGivesQueueInv == IInv => QueueInv
  BY DEF IInv, TypeOK, QueueInv, BacklogIsNewest, Run

\* do_write takes the front of the queue while nothing else is being written.
LEMMA TakesFrontKeeps ==
  ASSUME QueueInv, NEW old \in {delivered} \union inflight, delivered' = old,
         inflight \subseteq {old}, TakesFront({}), UNCHANGED <<status, sent, posted>>, spawned' \in Nat
  PROVE  QueueInv'
<1> DEFINE h == Head(queue)
<1> USE DEF QueueInv, DataTyped
<1>1. /\ queue # <<>> /\ status = "open" /\ h = queue[1] /\ h \in Nat
      /\ queue' = Tail(queue) /\ inflight' = {h}
  BY DEF TakesFront
<1>2. /\ Len(queue') = Len(queue) - 1 /\ queue' \in Seq(Nat)
      /\ \A i \in 1..Len(queue') : queue'[i] = queue[i + 1] /\ i + 1 \in 1..Len(queue)
  BY <1>1
<1>3. Run(queue', posted)
  BY <1>1, TailIsRun
<1>4. h <= posted /\ old < h
  <2>1. 1 \in 1..Len(queue) /\ Len(queue) \in Nat /\ posted \in Nat
    BY <1>1
  <2>2. h + Len(queue) = posted + 1 /\ old < h
    BY <1>1, <2>1 DEF Run
  <2> QED BY <1>1, <2>1, <2>2
<1>5. \A i \in 1..Len(queue') : h < queue'[i]
  <2> TAKE i \in 1..Len(queue')
  <2>1. queue'[i] + Len(queue) = posted + (i + 1) /\ queue'[i] \in Nat /\ i >= 1
    BY <1>2, <1>1 DEF Run
  <2>2. h + Len(queue) = posted + 1 /\ Len(queue) \in Nat /\ posted \in Nat
    BY <1>1 DEF Run
  <2> QED BY <1>1, <2>1, <2>2
<1>6. DataTyped'
  BY <1>1, <1>2
<1>7. QueueBounded'
  BY <1>2, QueueSizeAssumption DEF QueueBounded
<1>8. InflightIsNext' /\ QuietBeforeOpen'
  BY <1>1, <1>4 DEF InflightIsNext, QuietBeforeOpen
<1>a. posted \in Nat /\ Len(queue) \in Nat
  BY FramesAssumption
<1>b. h + Len(queue) = posted + 1
  BY <1>1, <1>a DEF Run
<1>9. ASSUME queue' = <<>> PROVE posted = h
  <2>1. Len(queue') = 0
    BY <1>9
  <2> QED BY <1>1, <1>2, <1>a, <1>b, <2>1
<1>10. GapsMeanFull'
  <2>1. Follows(h, {old}, posted)
    <3>1. Follows(h, inflight \union {delivered}, posted)
      BY <1>1 DEF GapsMeanFull
    <3>2. h - 1 = delivered => h - 1 = old
      <4>1. delivered <= old
        BY DEF InflightIsNext
      <4> QED BY <1>1, <1>4, <4>1
    <3> QED BY <3>1, <3>2 DEF Follows
  <2>2. queue' # <<>> => Head(queue') - 1 = h
    <3> SUFFICES ASSUME queue' # <<>> PROVE Head(queue') - 1 = h
      OBVIOUS
    <3>1. 1 \in 1..Len(queue') /\ Head(queue') = queue'[1]
      BY <1>2
    <3>2. queue'[1] + Len(queue') = posted + 1
      BY <1>3, <3>1 DEF Run
    <3>3. queue'[1] \in Nat
      BY <1>2, <3>1
    <3>4. Len(queue') = Len(queue) - 1 /\ h \in Nat
      BY <1>1, <1>2
    <3> HIDE DEF QueueInv, DataTyped, h
    <3> QED BY <1>a, <1>b, <3>1, <3>2, <3>3, <3>4
  <2> QED BY <1>1, <2>1, <2>2 DEF GapsMeanFull, Follows
<1> QED BY <1>1, <1>3, <1>4, <1>5, <1>6, <1>7, <1>8, <1>9, <1>10, SMTT(60)

LEMMA PushKeeps ==
  ASSUME QueueInv, posted < sent, status = "open", posted' = posted + 1,
         queue' = Pushed(queue, posted + 1), spawned' \in Nat,
         UNCHANGED <<status, sent, inflight, delivered>>
  PROVE  QueueInv'
<1> USE DEF QueueInv, DataTyped
<1>1. queue \in Seq(Nat) /\ posted \in Nat /\ sent \in Nat /\ Len(queue) <= MaxQueueSize
  BY FramesAssumption DEF QueueBounded
<1>2. queue' \in Seq(Nat) /\ Len(queue') <= MaxQueueSize /\ Run(queue', posted')
  BY <1>1, PushedIsSeq, PushedIsRun
<1>3. \A f \in inflight \union {delivered} : \A i \in 1..Len(queue') : f < queue'[i]
  <2> SUFFICES ASSUME NEW f \in inflight \union {delivered}, NEW i \in 1..Len(queue')
               PROVE  f < queue'[i]
    OBVIOUS
  <2>1. f \in Nat /\ f <= posted
    BY <1>1 DEF InflightIsNext
  <2>2. CASE i = Len(queue')
    <3>1. queue'[i] = posted + 1
      BY <1>1, <1>2, <2>2 DEF Run
    <3> QED BY <1>1, <2>1, <3>1
  <2>3. CASE i # Len(queue')
    <3>1. \E j \in 1..Len(queue) : queue'[i] = queue[j]
      <4>1. CASE Len(queue) >= MaxQueueSize
        BY <1>1, <2>3, <4>1, QueueSizeAssumption DEF Pushed
      <4>2. CASE ~(Len(queue) >= MaxQueueSize)
        BY <1>1, <2>3, <4>2, QueueSizeAssumption DEF Pushed
      <4> QED BY <4>1, <4>2
    <3> QED BY <3>1
  <2> QED BY <2>2, <2>3
<1>4. DataTyped'
  BY <1>1, <1>2
<1>5. QueueBounded'
  BY <1>2 DEF QueueBounded
<1>6. InflightIsNext' /\ QuietBeforeOpen'
  BY <1>1 DEF InflightIsNext, QuietBeforeOpen
<1>7. queue' # <<>>
  BY <1>1, PushedIsSeq
<1>8. \A f \in inflight' : Follows(f, {delivered'}, posted')
  <2> SUFFICES ASSUME NEW f \in inflight PROVE Follows(f, {delivered}, posted + 1)
    OBVIOUS
  <2>1. Follows(f, {delivered}, posted) /\ f \in Nat
    BY DEF GapsMeanFull
  <2>2. posted + 1 \in Nat /\ posted <= posted + 1
    BY <1>1
  <2> QED BY <1>1, <2>1, <2>2, FollowsGrows
<1>9. Follows(Head(queue'), inflight \union {delivered}, posted')
  <2>1. Head(queue') = queue'[1] /\ 1 \in 1..Len(queue') /\ queue'[1] \in Nat
    BY <1>2, <1>7
  <2>2. queue'[1] + Len(queue') = posted' + 1 /\ Len(queue') \in Nat
    BY <1>2, <2>1 DEF Run
  <2>3. CASE Len(queue) >= MaxQueueSize
    <3>1. Len(queue') = MaxQueueSize
      BY <1>1, <2>3, QueueSizeAssumption DEF Pushed
    <3>2. queue'[1] - 1 + MaxQueueSize <= posted'
      BY <1>1, <2>1, <2>2, <3>1, QueueSizeAssumption
    <3> QED BY <2>1, <3>2 DEF Follows
  <2>4. CASE queue = <<>>
    <3>1. Len(queue') = 1 /\ posted \in inflight \union {delivered}
      BY <1>1, <2>4, QueueSizeAssumption DEF Pushed
    <3>2. queue'[1] - 1 = posted
      <4> DEFINE h == queue'[1]
      <4>1. h \in Nat /\ h + 1 = (posted + 1) + 1 /\ posted \in Nat
        BY <1>1, <2>1, <2>2, <3>1
      <4> HIDE DEF h
      <4>2. h - 1 = posted
        BY <4>1
      <4> QED BY <4>2 DEF h
    <3> QED BY <2>1, <3>1, <3>2 DEF Follows
  <2>5. CASE queue # <<>> /\ ~(Len(queue) >= MaxQueueSize)
    <3>1. queue'[1] = queue[1] /\ Head(queue) = queue[1] /\ queue[1] \in Nat
      BY <1>1, <2>5 DEF Pushed
    <3>2. Follows(queue[1], inflight \union {delivered}, posted)
      BY <2>5, <3>1 DEF GapsMeanFull
    <3> QED BY <1>1, <2>1, <3>1, <3>2, FollowsGrows
  <2> QED BY <2>3, <2>4, <2>5
<1>10. GapsMeanFull'
  BY <1>8, <1>9 DEF GapsMeanFull
<1> QED BY <1>2, <1>3, <1>4, <1>5, <1>6, <1>7, <1>10

\* The stream stays as it is or closes, and nothing is queued or written.
LEMMA RestKeeps ==
  ASSUME QueueInv, sent' \in 0..MaxFrames, sent <= sent', posted' \in posted..sent',
         status' \in {status, "closed"} \/ (status = "accepting" /\ status' = "open"),
         status = "open" /\ status' = "open" => posted' = posted,
         inflight' \in SUBSET inflight, delivered' \in {delivered} \union inflight,
         \A f \in inflight' : delivered' < f,
         delivered' = delivered \/ inflight' = {},
         status = "accepting" => sent' = sent,
         status' = "open" => \/ UNCHANGED <<inflight, delivered>>
                             \/ queue = <<>> /\ delivered' = posted,
         UNCHANGED queue, spawned' \in Nat
  PROVE  QueueInv'
<1> USE DEF QueueInv, DataTyped
<1>1. DataTyped'
  BY FramesAssumption
<1>2. QueueBounded' /\ QuietBeforeOpen'
  BY FramesAssumption DEF QueueBounded, QuietBeforeOpen, InflightIsNext
<1>3. InflightIsNext'
  BY FramesAssumption DEF InflightIsNext
<1>4. ASSUME status' = "open" PROVE Run(queue', posted')
  <2>1. CASE status = "open"
    BY <1>4, <2>1
  <2>2. CASE status = "accepting"
    BY <2>2 DEF QuietBeforeOpen, Run
  <2> QED BY <1>4, <2>1, <2>2
<1>5. ASSUME status' = "open"
      PROVE  \A f \in inflight' \union {delivered'} :
                \A i \in 1..Len(queue') : f < queue'[i]
  <2>1. CASE status = "open"
    BY <2>1
  <2>2. CASE status = "accepting"
    BY <2>2 DEF QuietBeforeOpen
  <2> QED BY <1>5, <2>1, <2>2
<1>6. posted' >= posted /\ posted \in Nat /\ posted' \in Nat
  BY FramesAssumption
<1>7. ASSUME status' = "open", status = "accepting"
      PROVE  posted' = 0 /\ delivered' = 0 /\ queue = <<>>
  BY <1>7, FramesAssumption DEF QuietBeforeOpen, InflightIsNext
<1>8. ASSUME status' = "open", queue' = <<>>
      PROVE  posted' \in inflight' \union {delivered'}
  <2>1. CASE status = "open"
    BY <1>8, <2>1
  <2>2. CASE status = "accepting"
    BY <1>7, <1>8, <2>2
  <2> QED BY <1>8, <2>1, <2>2
<1>9. GapsMeanFull'
  <2>1. \A f \in inflight' : Follows(f, {delivered'}, posted')
    BY <1>6, FollowsGrows DEF GapsMeanFull
  <2>2. ASSUME status' = "open", queue' # <<>>
        PROVE  Follows(Head(queue'), inflight' \union {delivered'}, posted')
    <3>1. status = "open" /\ UNCHANGED <<posted, inflight, delivered, queue>>
      BY <1>7, <2>2
    <3> QED BY <2>2, <3>1 DEF GapsMeanFull
  <2> QED BY <2>1, <2>2 DEF GapsMeanFull
<1> QED BY <1>1, <1>2, <1>3, <1>4, <1>5, <1>8, <1>9

LEMMA StepQueueInv == IInv /\ [Next]_vars => QueueInv'
<1> SUFFICES ASSUME IInv, [Next]_vars PROVE QueueInv'
  OBVIOUS
<1>0. QueueInv /\ OneWriter /\ DataTyped /\ InflightIsNext
  BY IInvGivesQueueInv DEF IInv, QueueInv
<1> USE <1>0, RestKeeps DEF DataTyped, InflightIsNext
<1>1. CASE Accept
  BY <1>1 DEF Accept
<1>2. CASE SendFrame
  BY <1>2, FramesAssumption DEF SendFrame
<1>3. CASE PostIgnored
  BY <1>3, FramesAssumption DEF PostIgnored
<1>4. CASE PostQueued
  <2>1. spawned' \in Nat
    BY <1>4 DEF PostQueued
  <2>2. posted < sent /\ status = "open" /\ posted' = posted + 1
        /\ queue' = Pushed(queue, posted + 1)
        /\ UNCHANGED <<status, sent, inflight, delivered>>
    BY <1>4 DEF PostQueued
  <2> QED BY <2>1, <2>2, PushKeeps
<1>5. CASE WriterStarts
  <2>1. inflight = {} /\ spawned' \in Nat /\ delivered' \in {delivered} \union inflight
        /\ UNCHANGED <<status, sent, posted, delivered>>
    BY <1>5 DEF WriterStarts, OneWriter
  <2>2. CASE TakesFront({})
    BY <2>1, <2>2, TakesFrontKeeps
  <2>3. CASE Ends({})
    BY <2>1, <2>3 DEF Ends
  <2> QED BY <1>5, <2>1, <2>2, <2>3 DEF WriterStarts
<1>6. CASE WriteCompletes
  <2>1. PICK f \in inflight :
            /\ delivered' = f
            /\ TakesFront(inflight \ {f}) \/ Ends(inflight \ {f})
            /\ UNCHANGED <<status, sent, posted, spawned, direct>>
    BY <1>6 DEF WriteCompletes
  <2>2. inflight \ {f} = {} /\ inflight \subseteq {f}
    BY <2>1 DEF OneWriter
  <2>3. CASE TakesFront({})
    BY <2>1, <2>2, <2>3, TakesFrontKeeps
  <2>4. CASE Ends({})
    <3>1. delivered < f /\ f <= posted /\ f \in Nat /\ posted \in Nat
      BY FramesAssumption
    <3>2. ASSUME status' = "open" PROVE queue = <<>> /\ delivered' = posted
      <4>1. queue = <<>> /\ posted \in {f, delivered}
        BY <2>1, <2>2, <2>4, <3>2 DEF Ends, QueueInv
      <4> QED BY <2>1, <3>1, <4>1
    <3> QED BY <2>1, <2>4, <3>1, <3>2 DEF Ends
  <2> QED BY <2>1, <2>2, <2>3, <2>4
<1>7. CASE WriteFails
  BY <1>7 DEF WriteFails
<1>8. CASE WriteAuthFailed \/ AuthFailedWritten \/ Close
  <2>1. /\ status' \in {status, "closed"}
        /\ UNCHANGED <<sent, posted, queue, spawned, inflight, delivered>>
    BY <1>8 DEF WriteAuthFailed, AuthFailedWritten, Close
  <2> QED BY <2>1, FramesAssumption
<1>9. CASE UNCHANGED vars
  BY <1>9 DEF vars
<1> QED BY <1>1, <1>2, <1>3, <1>4, <1>5, <1>6, <1>7, <1>8, <1>9
        DEF Next, Handlers, Writer, AllDone

-----------------------------------------------------------------------------
(* The writer *)

LEMMA StepOneWriter == IInv /\ [Next]_vars => OneWriter'
<1> SUFFICES ASSUME IInv, [Next]_vars PROVE OneWriter'
  OBVIOUS
<1>0. OneWriter /\ FlagsTyped /\ spawned \in Nat
  BY DEF IInv, TypeOK, DataTyped
<1> USE <1>0 DEF OneWriter
<1>1. CASE Accept \/ SendFrame \/ PostIgnored
  BY <1>1 DEF Accept, SendFrame, PostIgnored
<1>2. CASE PostQueued
  BY <1>2 DEF PostQueued, NeedsWriter
<1>3. CASE WriterStarts
  <2>1. is_writing /\ spawned' = 0 /\ inflight = {}
    BY <1>3 DEF WriterStarts
  <2>2. CASE TakesFront({})
    <3>1. is_writing' /\ inflight' = {Head(queue)}
      BY <2>1, <2>2 DEF TakesFront
    <3> QED BY <2>1, <3>1
  <2>3. CASE Ends({})
    BY <2>1, <2>3 DEF Ends
  <2> QED BY <1>3, <2>1, <2>2, <2>3 DEF WriterStarts
<1>4. CASE WriteCompletes
  <2>1. PICK f \in inflight : /\ TakesFront(inflight \ {f}) \/ Ends(inflight \ {f})
                             /\ UNCHANGED spawned
    BY <1>4 DEF WriteCompletes
  <2>2. is_writing /\ spawned' = 0 /\ inflight \ {f} = {}
    BY <2>1
  <2>3. CASE TakesFront({})
    <3>1. is_writing' /\ inflight' = {Head(queue)}
      BY <2>2, <2>3 DEF TakesFront
    <3> QED BY <2>2, <3>1
  <2>4. CASE Ends({})
    BY <2>2, <2>4 DEF Ends
  <2> QED BY <2>1, <2>2, <2>3, <2>4
<1>5. CASE WriteFails
  BY <1>5 DEF WriteFails
<1>6. CASE WriteAuthFailed \/ AuthFailedWritten \/ Close
  BY <1>6 DEF WriteAuthFailed, AuthFailedWritten, Close
<1>7. CASE UNCHANGED vars
  BY <1>7 DEF vars
<1> QED BY <1>1, <1>2, <1>3, <1>4, <1>5, <1>6, <1>7 DEF Next, Handlers, Writer, AllDone

LEMMA StepNoLostWakeup == IInv /\ [Next]_vars => NoLostWakeup'
<1> SUFFICES ASSUME IInv, [Next]_vars PROVE NoLostWakeup'
  OBVIOUS
<1>0. NoLostWakeup /\ OneWriter /\ QuietBeforeOpen /\ spawned \in Nat
  BY DEF IInv, TypeOK, DataTyped
<1> USE <1>0 DEF NoLostWakeup
<1>1. CASE Accept \/ SendFrame \/ PostIgnored
  BY <1>1 DEF Accept, SendFrame, PostIgnored, QuietBeforeOpen
<1>2. CASE PostQueued
  BY <1>2 DEF PostQueued, NeedsWriter
<1>3. CASE WriterStarts
  BY <1>3 DEF WriterStarts, TakesFront, Ends, OneWriter
<1>4. CASE WriteCompletes
  BY <1>4 DEF WriteCompletes, TakesFront, Ends, OneWriter
<1>5. CASE WriteFails
  BY <1>5 DEF WriteFails
<1>6. CASE WriteAuthFailed \/ AuthFailedWritten \/ Close
  BY <1>6 DEF WriteAuthFailed, AuthFailedWritten, Close
<1>7. CASE UNCHANGED vars
  BY <1>7 DEF vars
<1> QED BY <1>1, <1>2, <1>3, <1>4, <1>5, <1>6, <1>7 DEF Next, Handlers, Writer, AllDone

LEMMA Inductive == Spec => []IInv
<1>1. QueueInv' => /\ DataTyped' /\ QueueBounded' /\ BacklogIsNewest'
                   /\ QuietBeforeOpen' /\ InflightIsNext' /\ GapsMeanFull'
  BY DEF QueueInv, BacklogIsNewest, Run
<1>2. IInv /\ [Next]_vars => IInv'
  BY <1>1, StepQueueInv, StepFlagsTyped, StepOneWriter, StepNoLostWakeup
  DEF IInv, TypeOK
<1> QED BY InitIInv, <1>2, PTL DEF Spec

-----------------------------------------------------------------------------
(* Theorems *)

\* Every variable of a session's sending side keeps its type.
THEOREM TypeCorrect == Spec => []TypeOK
<1> QED BY Inductive, PTL DEF IInv

\* write_queue_ never holds more than MAX_QUEUE_SIZE frames.
THEOREM QueueIsBounded == Spec => []QueueBounded
<1> QED BY Inductive, PTL DEF IInv

\* is_writing_ is exact and do_write never runs twice at once.
THEOREM WriterIsUnique == Spec => []OneWriter
<1> QED BY Inductive, PTL DEF IInv

\* A queued frame on an open stream always has a do_write to come.
THEOREM WakeupsAreKept == Spec => []NoLostWakeup
<1> QED BY Inductive, PTL DEF IInv

\* What waits is the newest run of frames.
THEOREM NewestSurvive == Spec => []BacklogIsNewest
<1> QED BY Inductive, PTL DEF IInv

\* A session whose do_write has ended on an open stream has written the newest
\* frame it was given.
THEOREM IdleIsCaughtUp == Spec => []CaughtUpWhenIdle
<1>1. IInv => CaughtUpWhenIdle
  BY DEF IInv, OneWriter, NoLostWakeup, BacklogIsNewest, CaughtUpWhenIdle
<1> QED BY <1>1, Inductive, PTL

\* send_frame is a lossy channel that neither reorders nor duplicates, and skips
\* a frame only when MAX_QUEUE_SIZE newer ones have been sent.
THEOREM ChannelRefinement == Spec => IsChannel
<1>1. Init => Channel!Init
  BY DEF Init, Channel!Init
<1>2. IInv /\ [Next]_vars => [Channel!Next]_(Channel!vars)
  <2> SUFFICES ASSUME IInv, [Next]_vars PROVE [Channel!Next]_(Channel!vars)
    OBVIOUS
  <2>0. DataTyped /\ InflightIsNext
    BY DEF IInv, TypeOK
  <2> USE <2>0 DEF DataTyped, Channel!vars
  <2>1. CASE SendFrame
    BY <2>1 DEF SendFrame, Channel!Next, Channel!Send
  <2>2. CASE WriteCompletes
    <3>1. PICK f \in inflight : delivered' = f /\ UNCHANGED <<sent, posted>>
      BY <2>2 DEF WriteCompletes
    <3>2. f \in Nat /\ sent \in Nat /\ posted \in 0..sent /\ delivered \in Nat
      BY FramesAssumption
    <3>3. delivered < f /\ f <= posted
      BY DEF InflightIsNext
    <3>4. f - 1 = delivered \/ f - 1 + MaxQueueSize <= posted
      BY DEF IInv, GapsMeanFull, Follows
    <3>5. f \in (delivered + 1)..sent
      BY <3>2, <3>3
    <3>6. f = delivered + 1 \/ f - 1 + MaxQueueSize <= sent
      BY <3>2, <3>4, QueueSizeAssumption
    <3> QED BY <3>1, <3>5, <3>6 DEF Channel!Next, Channel!Deliver
  <2>3. CASE UNCHANGED <<sent, delivered>>
    BY <2>3
  <2>4. Next => SendFrame \/ WriteCompletes \/ UNCHANGED <<sent, delivered>>
    BY DEF Next, Accept, Handlers, PostIgnored, PostQueued, Writer, WriterStarts,
           WriteFails, WriteAuthFailed, AuthFailedWritten, Close, AllDone, vars
  <2> QED BY <2>1, <2>2, <2>3, <2>4 DEF vars
<1> QED BY Inductive, <1>1, <1>2, PTL DEF Spec, IsChannel, Channel!Spec
=============================================================================
