--------------------------- MODULE Playback_proofs --------------------------
(***************************************************************************)
(* IInv of Playback is inductive.  What read_next_frame does to its reader *)
(* is one lemma, as three operations call it.                              *)
(***************************************************************************)
EXTENDS Playback, TLAPS

\* What the assumption on Recordings says holds of NoFile too.
LEMMA FilesTyped ==
    ASSUME NEW f \in Recordings \union {NoFile}
    PROVE  /\ f.kind \in Kinds
           /\ f.stamps \in Seq(Nat)
           /\ Len(f.stamps) \in Nat
           /\ \A i \in 1..Len(f.stamps) : f.stamps[i] \in Nat
           /\ \A i, j \in 1..Len(f.stamps) : i < j => f.stamps[i] <= f.stamps[j]
<1>1. f.kind \in Kinds /\ f.stamps \in Seq(Nat)
  <2>1. CASE f \in Recordings
    BY <2>1, RecordingsAssumption
  <2>2. CASE f = NoFile
    BY <2>2 DEF NoFile, Kinds
  <2> QED BY <2>1, <2>2
<1>2. \A i, j \in 1..Len(f.stamps) : i < j => f.stamps[i] <= f.stamps[j]
  <2>1. CASE f \in Recordings
    BY <2>1, RecordingsAssumption
  <2>2. CASE f = NoFile
    BY <2>2 DEF NoFile
  <2> QED BY <2>1, <2>2
<1> QED BY <1>1, <1>2

\* Showing a frame keeps the reader where it should be.
LEMMA FrameFits ==
    ASSUME NEW r \in Readers, Fits(r), speed \in 1..100, ShowFrame(r)
    PROVE  /\ reader' \in Readers
           /\ Fits(reader')
           /\ reader'.file = r.file
           /\ reader'.state # "closed"
           /\ delay' \in Nat
<1> DEFINE n == Len(r.file.stamps)
           k == r.shown + 1
<1>1. /\ r.file \in Recordings \union {NoFile}
      /\ r.shown \in Nat
      /\ r.time \in Nat
  BY DEF Readers
<1>2. /\ n \in Nat
      /\ \A i \in 1..n : r.file.stamps[i] \in Nat
      /\ \A i, j \in 1..n : i < j => r.file.stamps[i] <= r.file.stamps[j]
  BY <1>1, FilesTyped
<1>3. k \in 1..n
  BY <1>1, <1>2 DEF ShowFrame
<1> DEFINE st == IF k = n /\ r.file.kind = "cutframe" THEN "failed" ELSE "good"
           v == r.file.stamps[k]
<1>4. st \in {"good", "failed"} /\ v \in Nat /\ k \in Nat
  BY <1>1, <1>2, <1>3
<1>5. /\ reader' \in Readers
      /\ reader'.file = r.file
      /\ reader'.shown = k
      /\ reader'.time = v
      /\ reader'.state = st
  <2>1. reader' = [r EXCEPT !.shown = k, !.time = v, !.state = st]
    BY DEF ShowFrame, AfterFrame, Readers
  <2> HIDE DEF k, v, st
  <2> QED BY <1>4, <2>1 DEF Readers
<1>6. Fits(reader')
  BY <1>1, <1>2, <1>3, <1>4, <1>5 DEF Fits
<1>7. Elapsed(r) \in Nat
  <2>1. CASE r.shown = 0
    BY <2>1 DEF Elapsed
  <2>2. CASE r.shown # 0
    <3>1. r.shown \in 1..n /\ r.shown < k
      BY <1>1, <1>2, <1>3, <2>2
    <3>2. r.time = r.file.stamps[r.shown]
      BY <1>1, <2>2 DEF Fits
    <3>3. r.time <= r.file.stamps[k]
      BY <1>2, <1>3, <3>1, <3>2
    <3>4. r.file.stamps[k] \in Nat
      BY <1>2, <1>3
    <3> QED BY <1>1, <2>2, <3>3, <3>4 DEF Elapsed
  <2> QED BY <2>1, <2>2
<1>8. delay' \in Nat
  <2> DEFINE e == Elapsed(r)
  <2>1. e \in Nat /\ delay' = (e * 10) \div speed
    BY <1>7 DEF ShowFrame
  <2> HIDE DEF e
  <2>2. e * 10 \in Nat
    BY <2>1
  <2> QED BY <2>1, <2>2
<1> QED BY <1>4, <1>5, <1>6, <1>8

\* read_next_frame of a playback that is not paused, on a file that is open.
LEMMA ReadKeeps ==
    ASSUME NEW r \in Readers, Fits(r), r.state # "closed",
           NEW w \in BOOLEAN, speed \in 1..100, delay \in Nat,
           ReadNextFrame(r, w, FALSE)
    PROVE  /\ reader' \in Readers
           /\ Fits(reader')
           /\ reader'.file = r.file
           /\ delay' \in Nat
           /\ is_playing' \in BOOLEAN
           /\ is_paused' = FALSE
           /\ waiting' \in BOOLEAN
           /\ is_playing' <=> reader'.state # "closed"
           /\ waiting' => is_playing'
           /\ is_playing' /\ ~waiting' => r.file.kind \in Cut
<1>1. CASE ReadNothing(r, w) /\ is_playing' = TRUE /\ is_paused' = FALSE
  BY <1>1 DEF ReadNothing, Fits, Cut, Throws
<1>2. CASE ShowFrame(r) /\ is_playing' = TRUE /\ is_paused' = FALSE
  <2>1. waiting' = TRUE
    BY <1>2 DEF ShowFrame
  <2> QED BY <1>2, <2>1, FrameFits DEF Throws
<1>3. CASE ReadCutHeader(r, w) /\ is_playing' = TRUE /\ is_paused' = FALSE
  <2>1. r.file.kind = "cutheader" /\ r.shown = Len(r.file.stamps)
    BY <1>3 DEF ReadCutHeader, Throws
  <2>2. /\ reader' \in Readers
        /\ reader'.file = r.file
        /\ reader'.state = "drained"
        /\ Fits(reader')
    BY <1>3, <2>1 DEF ReadCutHeader, Readers, Fits
  <2>3. waiting' = w /\ delay' = delay
    BY <1>3 DEF ReadCutHeader
  <2> QED
    BY <1>3, <2>1, <2>2, <2>3 DEF Cut
<1>4. CASE ReadEnd(r)
  <2>1. /\ reader' \in Readers
        /\ reader'.file = r.file
        /\ reader'.state = "closed"
        /\ Fits(reader')
    BY <1>4 DEF ReadEnd, Closed, Readers, Fits
  <2> QED BY <1>4, <2>1 DEF ReadEnd, Throws
<1> QED BY <1>1, <1>2, <1>3, <1>4 DEF ReadNextFrame

-----------------------------------------------------------------------------
LEMMA InitInvariant == Init => IInv
<1> SUFFICES ASSUME Init PROVE IInv
  OBVIOUS
<1> USE DEF Init
<1>1. DataTyped
  BY BoundAssumption DEF DataTyped, Readers
<1>2. FlagsTyped
  BY DEF FlagsTyped
<1>3. ReaderSound
  BY DEF ReaderSound, Fits, NoFile
<1> QED
  BY <1>1, <1>2, <1>3
  DEF IInv, TypeOK, OpenWhilePlaying, TimerOnlyWhileRunning, PlayingHasSession,
      OnlyCutFilesGetStuck, PauseSound, Playing

\* The facts that every step starts from.
LEMMA Facts ==
    ASSUME IInv
    PROVE  /\ DataTyped /\ FlagsTyped
           /\ reader \in Readers /\ Fits(reader)
           /\ reader.file \in Recordings \union {NoFile}
           /\ speed \in 1..100 /\ delay \in Nat
BY DEF IInv, TypeOK, DataTyped, ReaderSound, Readers

\* A file that load_recording has opened.
LEMMA OpenedFits ==
    ASSUME NEW f \in Recordings
    PROVE  /\ Opened(f) \in Readers
           /\ Fits(Opened(f))
           /\ Opened(f).state # "closed"
           /\ Opened(f).file = f
<1>1. Len(f.stamps) \in Nat
  BY FilesTyped
<1> DEFINE st == IF f.kind = "noframes" THEN "failed" ELSE "good"
<1>2. /\ st \in {"failed", "good"}
      /\ st = "failed" => f.kind = "noframes" /\ Len(f.stamps) = 0
  BY RecordingsAssumption
<1>3. Opened(f) = [file |-> f, state |-> st, shown |-> 0, time |-> 0]
  BY DEF Opened
<1> HIDE DEF st
<1> QED BY <1>1, <1>2, <1>3 DEF Readers, Fits

LEMMA ClosedFits ==
    ASSUME NEW r \in Readers, Fits(r)
    PROVE  /\ Closed(r) \in Readers
           /\ Fits(Closed(r))
           /\ Closed(r).state = "closed"
           /\ Closed(r).file = r.file
BY DEF Closed, Readers, Fits

\* The conjuncts of IInv from what a step leaves of the reader and the flags.
LEMMA Assemble ==
    ASSUME reader' \in Readers, Fits(reader'),
           speed' \in 1..100, delay' \in Nat, ready' \in 0..MaxReady,
           playback_session' \in Clients \union {Nobody},
           starts' \in 0..MaxStarts,
           is_playing' \in BOOLEAN, is_paused' \in BOOLEAN,
           waiting' \in BOOLEAN, fatal' \in BOOLEAN,
           is_playing' <=> reader'.state # "closed",
           waiting' => is_playing' /\ ~is_paused',
           is_playing' => playback_session' # Nobody,
           is_playing' /\ ~is_paused' /\ ~waiting' /\ ready' = 0
               => reader'.file.kind \in Cut,
           is_paused' => is_playing'
    PROVE  IInv'
<1>1. DataTyped'
  BY DEF DataTyped
<1>2. FlagsTyped'
  BY DEF FlagsTyped
<1> QED
  BY <1>1, <1>2
  DEF IInv, TypeOK, OpenWhilePlaying, TimerOnlyWhileRunning, PlayingHasSession,
      OnlyCutFilesGetStuck, ReaderSound, PauseSound,
      Playing

-----------------------------------------------------------------------------
\* One lemma per operation: it keeps IInv.
LEMMA StartKeeps ==
    ASSUME IInv, ~fatal, NEW c \in Clients, NEW f \in Recordings,
           StartPlayback(c, f)
    PROVE  IInv'
<1>1. /\ Opened(f) \in Readers
      /\ Fits(Opened(f))
      /\ Opened(f).state # "closed"
  BY OpenedFits
<1>2. ReadNextFrame(Opened(f), FALSE, FALSE)
  BY DEF StartPlayback
<1>3. speed \in 1..100 /\ delay \in Nat
  BY Facts
<1>4. /\ reader' \in Readers /\ Fits(reader')
      /\ delay' \in Nat
      /\ is_playing' \in BOOLEAN /\ is_paused' = FALSE /\ waiting' \in BOOLEAN
      /\ is_playing' <=> reader'.state # "closed"
      /\ waiting' => is_playing'
      /\ is_playing' /\ ~waiting' => reader'.file.kind \in Cut
  BY <1>1, <1>2, <1>3, ReadKeeps
<1>5. /\ speed' \in 1..100 /\ ready' \in 0..MaxReady
      /\ starts' \in 0..MaxStarts
  BY Facts, BoundAssumption DEF StartPlayback, DataTyped
<1>6. playback_session' \in Clients \union {Nobody} /\ playback_session' # Nobody
  BY NobodyAssumption DEF StartPlayback
<1>7. fatal' = FALSE
  BY Facts DEF StartPlayback, FlagsTyped
<1> QED BY <1>4, <1>5, <1>6, <1>7, Assemble

LEMMA UnloadedKeeps ==
    ASSUME IInv, ~fatal, NEW f \in Recordings, StartUnloaded(f)
    PROVE  IInv'
<1>1. /\ reader' \in Readers /\ Fits(reader') /\ reader'.state = "closed"
  BY Facts, ClosedFits DEF StartUnloaded
<1>2. is_playing' = FALSE /\ is_paused' = FALSE /\ waiting' = FALSE
  BY DEF StartUnloaded
<1>3. /\ speed' \in 1..100 /\ ready' \in 0..MaxReady
      /\ starts' \in 0..MaxStarts
      /\ playback_session' \in Clients \union {Nobody}
  BY Facts, BoundAssumption DEF StartUnloaded, DataTyped
<1>4. delay' \in Nat
  BY Facts DEF StartUnloaded
<1>5. fatal' = FALSE
  BY Facts DEF StartUnloaded, FlagsTyped
<1> QED BY <1>1, <1>2, <1>3, <1>4, <1>5, Assemble

LEMMA PauseKeeps ==
    ASSUME IInv, ~fatal, PausePlayback
    PROVE  IInv'
<1>1. is_playing' = is_playing /\ is_paused' = TRUE /\ waiting' = FALSE
  BY DEF PausePlayback
<1>2. /\ is_playing' = TRUE
      /\ reader' = reader
      /\ reader.state # "closed"
      /\ playback_session' = playback_session
      /\ playback_session # Nobody
  BY Facts DEF PausePlayback, FlagsTyped, IInv, OpenWhilePlaying, PlayingHasSession
<1>3. /\ speed' \in 1..100 /\ delay' \in Nat /\ ready' \in 0..MaxReady
      /\ starts' \in 0..MaxStarts
      /\ playback_session \in Clients \union {Nobody}
  BY Facts DEF PausePlayback, DataTyped
<1>4. fatal' = FALSE
  BY Facts DEF PausePlayback, FlagsTyped
<1>5. reader' \in Readers /\ Fits(reader') /\ reader'.state # "closed"
  BY <1>2, Facts
<1> QED BY <1>1, <1>2, <1>3, <1>4, <1>5, Assemble

LEMMA ResumeKeeps ==
    ASSUME IInv, ~fatal, ResumePlayback
    PROVE  IInv'
<1>1. /\ reader \in Readers /\ Fits(reader)
      /\ reader.state # "closed"
      /\ playback_session # Nobody
  BY Facts DEF ResumePlayback, IInv, OpenWhilePlaying, PlayingHasSession
<1>2. waiting \in BOOLEAN /\ speed \in 1..100 /\ delay \in Nat
  BY Facts DEF FlagsTyped
<1>3. ReadNextFrame(reader, waiting, FALSE)
  BY DEF ResumePlayback
<1>4. /\ reader' \in Readers /\ Fits(reader') /\ reader'.file = reader.file
      /\ delay' \in Nat
      /\ is_playing' \in BOOLEAN /\ is_paused' = FALSE /\ waiting' \in BOOLEAN
      /\ is_playing' <=> reader'.state # "closed"
      /\ waiting' => is_playing'
      /\ is_playing' /\ ~waiting' => reader'.file.kind \in Cut
  BY <1>1, <1>2, <1>3, ReadKeeps
<1>5. /\ speed' \in 1..100 /\ ready' \in 0..MaxReady
      /\ starts' \in 0..MaxStarts
      /\ playback_session' \in Clients \union {Nobody}
      /\ playback_session' # Nobody
  BY <1>1, Facts DEF ResumePlayback, DataTyped
<1>6. fatal' = FALSE
  BY Facts DEF ResumePlayback, FlagsTyped
<1> QED BY <1>4, <1>5, <1>6, Assemble

LEMMA StopKeeps ==
    ASSUME IInv, ~fatal, StopPlayback
    PROVE  IInv'
<1>1. /\ reader' \in Readers /\ Fits(reader') /\ reader'.state = "closed"
  BY Facts, ClosedFits DEF StopPlayback
<1>2. is_playing' = FALSE /\ is_paused' = FALSE /\ waiting' = FALSE
  BY DEF StopPlayback
<1>3. /\ speed' \in 1..100 /\ delay' \in Nat /\ ready' \in 0..MaxReady
      /\ starts' \in 0..MaxStarts
      /\ playback_session' \in Clients \union {Nobody}
  BY Facts DEF StopPlayback, DataTyped
<1>4. fatal' = FALSE
  BY Facts DEF StopPlayback, FlagsTyped
<1> QED BY <1>1, <1>2, <1>3, <1>4, Assemble

\* Steps that touch neither the reader nor the flags of a playback.
LEMMA UntouchedKeeps ==
    ASSUME IInv,
           UNCHANGED <<reader, is_playing, is_paused, delay, starts, fatal>>,
           speed' \in 1..100,
           \/ /\ StopNothing
           \/ /\ playback_session' = playback_session
              /\ UNCHANGED <<waiting, ready>>
           \/ /\ playback_session' = playback_session
              /\ TimerExpires
           \/ /\ playback_session' = playback_session
              /\ TimerIgnored
    PROVE  IInv'
<1>1. /\ reader' \in Readers /\ Fits(reader')
      /\ delay' \in Nat /\ starts' \in 0..MaxStarts
      /\ playback_session' \in Clients \union {Nobody}
      /\ ready' \in 0..MaxReady
  BY Facts, BoundAssumption DEF DataTyped, StopNothing, TimerExpires, TimerIgnored
<1>2. /\ is_playing' \in BOOLEAN /\ is_paused' \in BOOLEAN
      /\ waiting' \in BOOLEAN /\ fatal' \in BOOLEAN
  BY Facts DEF FlagsTyped, StopNothing, TimerExpires, TimerIgnored
<1>3. /\ is_playing' <=> reader'.state # "closed"
      /\ is_paused' => is_playing'
  BY DEF IInv, OpenWhilePlaying, PauseSound
<1>4. /\ waiting' => is_playing' /\ ~is_paused'
      /\ is_playing' => playback_session' # Nobody
  BY DEF IInv, TimerOnlyWhileRunning, PlayingHasSession, Playing, StopNothing,
         TimerExpires, TimerIgnored
<1>5. is_playing' /\ ~is_paused' /\ ~waiting' /\ ready' = 0
          => reader'.file.kind \in Cut
  <2>1. CASE StopNothing \/ TimerIgnored
    BY <2>1 DEF StopNothing, TimerIgnored, Running
  <2>2. CASE TimerExpires
    BY <2>2, Facts DEF TimerExpires, DataTyped
  <2>3. CASE UNCHANGED <<waiting, ready>>
    BY <2>3 DEF IInv, OnlyCutFilesGetStuck, Playing
  <2> QED BY <2>1, <2>2, <2>3
<1> QED BY <1>1, <1>2, <1>3, <1>4, <1>5, Assemble

LEMMA SpeedKeeps ==
    ASSUME IInv, NEW s \in SpeedRequests, SetSpeed(s)
    PROVE  IInv'
<1>1. speed' \in 1..100
  BY SpeedAssumption DEF SetSpeed, Clamped
<1> QED BY <1>1, UntouchedKeeps DEF SetSpeed

LEMMA TimerReadsKeeps ==
    ASSUME IInv, TimerReads
    PROVE  IInv'
<1>1. /\ reader \in Readers /\ Fits(reader)
      /\ reader.state # "closed"
      /\ playback_session # Nobody
  BY Facts DEF TimerReads, Running, IInv, OpenWhilePlaying, PlayingHasSession
<1>2. /\ waiting \in BOOLEAN /\ speed \in 1..100 /\ delay \in Nat
      /\ is_paused = FALSE
  BY Facts DEF FlagsTyped, TimerReads, Running
<1>3. ReadNextFrame(reader, waiting, FALSE)
  BY <1>2 DEF TimerReads
<1>4. /\ reader' \in Readers /\ Fits(reader') /\ reader'.file = reader.file
      /\ delay' \in Nat
      /\ is_playing' \in BOOLEAN /\ is_paused' = FALSE /\ waiting' \in BOOLEAN
      /\ is_playing' <=> reader'.state # "closed"
      /\ waiting' => is_playing'
      /\ is_playing' /\ ~waiting' => reader'.file.kind \in Cut
  BY <1>1, <1>2, <1>3, ReadKeeps
<1>5. /\ speed' \in 1..100 /\ ready' \in 0..MaxReady
      /\ starts' \in 0..MaxStarts
      /\ playback_session' \in Clients \union {Nobody}
      /\ playback_session' # Nobody
  BY <1>1, Facts, BoundAssumption DEF TimerReads, DataTyped
<1>6. fatal' \in BOOLEAN
  BY <1>4 DEF TimerReads, Throws
<1> QED BY <1>4, <1>5, <1>6, Assemble

LEMMA StepInvariant == IInv /\ [Next]_vars => IInv'
<1> SUFFICES ASSUME IInv, [Next]_vars PROVE IInv'
  OBVIOUS
<1>1. ASSUME ~fatal, NEW c \in Clients, NEW f \in Recordings, StartPlayback(c, f)
      PROVE  IInv'
  BY <1>1, StartKeeps
<1>2. ASSUME ~fatal, NEW f \in Recordings, StartUnloaded(f)
      PROVE  IInv'
  BY <1>2, UnloadedKeeps
<1>3. CASE ~fatal /\ PausePlayback
  BY <1>3, PauseKeeps
<1>4. CASE ~fatal /\ ResumePlayback
  BY <1>4, ResumeKeeps
<1>5. CASE ~fatal /\ StopPlayback
  BY <1>5, StopKeeps
<1>6. CASE StopNothing
  BY <1>6, Facts, UntouchedKeeps DEF StopNothing
<1>7. ASSUME NEW s \in SpeedRequests, SetSpeed(s)
      PROVE  IInv'
  BY <1>7, SpeedKeeps
<1>8. CASE TimerExpires
  BY <1>8, Facts, UntouchedKeeps DEF TimerExpires
<1>9. CASE TimerReads
  BY <1>9, TimerReadsKeeps
<1>10. CASE TimerIgnored
  BY <1>10, Facts, UntouchedKeeps DEF TimerIgnored
<1>11. CASE UNCHANGED vars
  BY <1>11, Facts, UntouchedKeeps DEF vars
<1> QED
  BY <1>1, <1>2, <1>3, <1>4, <1>5, <1>6, <1>7, <1>8, <1>9, <1>10, <1>11
  DEF Next, ClientCalls, TimerHandler, ServerEnded

LEMMA Inductive == Spec => []IInv
BY InitInvariant, StepInvariant, PTL DEF Spec

-----------------------------------------------------------------------------
\* Every variable of the player keeps its type; the speed is never 0, so no
\* delay is divided by it (set_playback_speed).
THEOREM TypeCorrect == Spec => []TypeOK
BY Inductive, PTL DEF IInv

\* playback_file_ is open exactly while playback runs or is paused.
THEOREM NoLeakedFile == Spec => []OpenWhilePlaying
BY Inductive, PTL DEF IInv

\* No frame timer outlives a pause, a stop or the end of the file.
THEOREM TimerIsSound == Spec => []TimerOnlyWhileRunning
BY Inductive, PTL DEF IInv

\* The frames of a playback always have a session to go to.
THEOREM SessionIsKept == Spec => []PlayingHasSession
BY Inductive, PTL DEF IInv

\* Nothing but a cut recording leaves the player playing with nothing to wake it.
THEOREM StuckMeansCut == Spec => []OnlyCutFilesGetStuck
BY Inductive, PTL DEF IInv

\* read_next_frame shows at most one frame.
LEMMA ReadShows ==
    ASSUME NEW r \in Readers, NEW w \in BOOLEAN, ReadNextFrame(r, w, FALSE)
    PROVE  \/ reader'.shown = r.shown
           \/ /\ reader'.shown = r.shown + 1
              /\ is_playing' = TRUE
              /\ is_paused' = FALSE
<1>1. CASE ShowFrame(r) /\ is_playing' = TRUE /\ is_paused' = FALSE
  <2>1. reader'.shown = r.shown + 1
    BY <1>1 DEF ShowFrame, AfterFrame, Readers
  <2> QED BY <1>1, <2>1
<1>2. CASE ReadNothing(r, w) \/ ReadCutHeader(r, w) \/ ReadEnd(r)
  BY <1>2 DEF ReadNothing, ReadCutHeader, ReadEnd, Closed, Readers
<1> QED BY <1>1, <1>2 DEF ReadNextFrame

\* A handler queued before a pause or a stop shows no frame after it.
THEOREM PauseIsQuiet == Spec => QuietWhilePaused
<1> DEFINE A == reader'.shown > reader.shown =>
                    Playing' /\ reader'.shown = reader.shown + 1
<1>1. ASSUME IInv, [Next]_vars
      PROVE  [A]_vars
  <2>1. /\ reader \in Readers /\ reader.shown \in Nat
        /\ waiting \in BOOLEAN /\ is_paused \in BOOLEAN
    BY <1>1, Facts DEF FlagsTyped, Readers
  <2>2. ASSUME NEW c \in Clients, NEW f \in Recordings, StartPlayback(c, f)
        PROVE  A
    <3>1. Opened(f) \in Readers /\ Opened(f).shown = 0
      BY OpenedFits DEF Opened
    <3>2. \/ reader'.shown = 0
          \/ reader'.shown = 1 /\ is_playing' = TRUE /\ is_paused' = FALSE
      <4>1. ReadNextFrame(Opened(f), FALSE, FALSE)
        BY <2>2 DEF StartPlayback
      <4>2. \/ reader'.shown = Opened(f).shown
            \/ /\ reader'.shown = Opened(f).shown + 1
               /\ is_playing' = TRUE /\ is_paused' = FALSE
        BY <3>1, <4>1, ReadShows
      <4> QED BY <3>1, <4>2
    <3> QED BY <2>1, <3>2 DEF Playing
  <2>3. ASSUME ReadNextFrame(reader, waiting, FALSE)
        PROVE  A
    <3>1. \/ reader'.shown = reader.shown
          \/ /\ reader'.shown = reader.shown + 1
             /\ is_playing' = TRUE /\ is_paused' = FALSE
      BY <2>1, <2>3, ReadShows
    <3> QED BY <2>1, <3>1 DEF Playing
  <2>4. CASE ResumePlayback
    BY <2>3, <2>4 DEF ResumePlayback
  <2>5. CASE TimerReads
    BY <2>1, <2>3, <2>5 DEF TimerReads, Running
  <2>6. ASSUME reader'.shown = reader.shown
        PROVE  A
    BY <2>1, <2>6
  <2>7. ASSUME NEW f \in Recordings, StartUnloaded(f)
        PROVE  A
    BY <2>1, <2>6, <2>7 DEF StartUnloaded, Closed, Readers
  <2>8. CASE StopPlayback
    BY <2>1, <2>6, <2>8 DEF StopPlayback, Closed, Readers
  <2>9. ASSUME NEW s \in SpeedRequests, SetSpeed(s)
        PROVE  A
    BY <2>6, <2>9 DEF SetSpeed
  <2>10. CASE PausePlayback \/ StopNothing \/ TimerExpires \/ TimerIgnored
              \/ UNCHANGED vars
    BY <2>6, <2>10 DEF PausePlayback, StopNothing, TimerExpires, TimerIgnored, vars
  <2> QED
    BY <1>1, <2>2, <2>4, <2>5, <2>7, <2>8, <2>9, <2>10
    DEF Next, ClientCalls, TimerHandler, ServerEnded
<1> QED BY <1>1, Inductive, PTL DEF Spec, QuietWhilePaused

-----------------------------------------------------------------------------
(* Refinement *)

\* What the promise sees of read_next_frame: the next frame, or, only when every
\* frame has been shown, an end or nothing.
LEMMA ReadIsPromised ==
    ASSUME NEW r \in Readers, Fits(r), r.state # "closed",
           NEW w \in BOOLEAN, ReadNextFrame(r, w, FALSE)
    PROVE  /\ reader'.file = r.file
           /\ is_paused' = FALSE
           /\ \/ /\ r.shown < Len(r.file.stamps)
                 /\ reader'.shown = r.shown + 1
                 /\ is_playing' = TRUE
                 /\ ~Throws(r)
              \/ /\ r.shown = Len(r.file.stamps)
                 /\ reader'.shown = r.shown
                 /\ is_playing' \in BOOLEAN
                 /\ Throws(r) => is_playing' = TRUE
<1>1. CASE ShowFrame(r) /\ is_playing' = TRUE /\ is_paused' = FALSE
  <2>1. /\ r.shown \in Nat
        /\ Len(r.file.stamps) \in Nat
    BY FilesTyped DEF Readers
  <2>2. r.shown < Len(r.file.stamps) /\ ~Throws(r)
    BY <1>1, <2>1 DEF ShowFrame, Throws
  <2>3. reader'.file = r.file /\ reader'.shown = r.shown + 1
    BY <1>1 DEF ShowFrame, AfterFrame, Readers
  <2> QED BY <1>1, <2>2, <2>3
<1>2. CASE ReadNothing(r, w) /\ is_playing' = TRUE /\ is_paused' = FALSE
  BY <1>2 DEF ReadNothing, Throws, Fits
<1>3. CASE ReadCutHeader(r, w) /\ is_playing' = TRUE /\ is_paused' = FALSE
  BY <1>3 DEF ReadCutHeader, Throws, Readers
<1>4. CASE ReadEnd(r)
  <2>1. r.shown = Len(r.file.stamps) /\ ~Throws(r)
    BY <1>4 DEF ReadEnd, AtEnd, Throws, Fits
  <2> QED BY <1>4, <2>1 DEF ReadEnd, Closed, Readers
<1> QED BY <1>1, <1>2, <1>3, <1>4 DEF ReadNextFrame

\* The four modes, before and after a step.
LEMMA ModeIs ==
    /\ fatal => PlayerMode = "broken"
    /\ ~fatal /\ ~is_playing => PlayerMode = "stopped"
    /\ ~fatal /\ is_playing /\ is_paused => PlayerMode = "paused"
    /\ ~fatal /\ is_playing /\ ~is_paused => PlayerMode = "playing"
BY DEF PlayerMode

LEMMA ModeBecomes ==
    /\ fatal' => PlayerMode' = "broken"
    /\ ~fatal' /\ ~is_playing' => PlayerMode' = "stopped"
    /\ ~fatal' /\ is_playing' /\ is_paused' => PlayerMode' = "paused"
    /\ ~fatal' /\ is_playing' /\ ~is_paused' => PlayerMode' = "playing"
BY DEF PlayerMode

\* A step that changes nothing the promise is about.
LEMMA Stutters ==
    ASSUME reader'.file = reader.file, reader'.shown = reader.shown,
           is_playing' = is_playing, is_paused' = is_paused, fatal' = fatal,
           is_playing => playback_session' = playback_session
    PROVE  UNCHANGED Promise!vars
<1>1. PlayerMode' = PlayerMode
  BY DEF PlayerMode
<1>2. Audience' = Audience
  BY DEF Audience
<1> QED BY <1>1, <1>2 DEF Promise!vars

\* A stop, whoever asks for it and for whatever reason.
LEMMA StopIsPromised ==
    ASSUME is_playing, ~fatal, is_playing' = FALSE, fatal' = FALSE,
           reader'.file = reader.file, reader'.shown = reader.shown
    PROVE  Promise!Next
<1>1. PlayerMode \in {"playing", "paused"}
  BY ModeIs
<1>2. PlayerMode' = "stopped"
  BY ModeBecomes
<1>3. Audience' = Nobody
  BY DEF Audience
<1> QED BY <1>1, <1>2, <1>3 DEF Promise!Next, Promise!Stop, Promise!Ends

LEMMA StartIsPromised ==
    ASSUME IInv, ~fatal, NEW c \in Clients, NEW f \in Recordings,
           StartPlayback(c, f)
    PROVE  Promise!Next
<1> DEFINE r == Opened(f)
<1>1. /\ r \in Readers /\ Fits(r)
      /\ r.state # "closed"
      /\ r.file = f /\ r.shown = 0
  BY OpenedFits DEF Opened
<1>2. ReadNextFrame(r, FALSE, FALSE) /\ fatal' = fatal /\ playback_session' = c
  BY DEF StartPlayback
<1>3. Len(f.stamps) \in Nat
  BY FilesTyped
<1> HIDE DEF r
<1>4. /\ reader'.file = r.file
      /\ is_paused' = FALSE
      /\ \/ /\ r.shown < Len(r.file.stamps)
            /\ reader'.shown = r.shown + 1
            /\ is_playing' = TRUE
         \/ /\ r.shown = Len(r.file.stamps)
            /\ reader'.shown = r.shown
            /\ is_playing' \in BOOLEAN
  BY <1>1, <1>2, ReadIsPromised
<1>5. PlayerMode # "broken"
  BY DEF PlayerMode
<1>6. Len(reader'.file.stamps) = Len(f.stamps)
  BY <1>1, <1>4
<1>7. reader'.shown = IF Len(reader'.file.stamps) = 0 THEN 0 ELSE 1
  BY <1>1, <1>3, <1>4, <1>6
<1>8. \/ PlayerMode' = "playing" /\ Audience' = c
      \/ /\ Len(reader'.file.stamps) = 0
         /\ PlayerMode' = "stopped"
         /\ Audience' = Nobody
  <2>1. CASE is_playing' = TRUE
    BY <2>1, <1>2, <1>4, ModeBecomes DEF Audience
  <2>2. CASE is_playing' = FALSE
    <3>1. Len(reader'.file.stamps) = 0
      BY <1>1, <1>4, <1>6, <2>2
    <3> QED BY <2>2, <3>1, <1>2, ModeBecomes DEF Audience
  <2> QED BY <1>4, <2>1, <2>2
<1>9. Promise!Start(c)
  BY <1>3, <1>5, <1>6, <1>7, <1>8 DEF Promise!Start
<1> QED BY <1>9 DEF Promise!Next

\* read_next_frame in a playback that goes on, or is resumed.
LEMMA ReadOnIsPromised ==
    ASSUME IInv, ~fatal, is_playing,
           ResumePlayback \/ TimerReads
    PROVE  [Promise!Next]_(Promise!vars)
<1>1. /\ reader \in Readers /\ Fits(reader)
      /\ reader.state # "closed"
      /\ waiting \in BOOLEAN
      /\ Len(reader.file.stamps) \in Nat /\ reader.shown \in Nat
  BY Facts, FilesTyped DEF IInv, OpenWhilePlaying, FlagsTyped, Readers
<1>2. /\ ReadNextFrame(reader, waiting, FALSE)
      /\ playback_session' = playback_session
  BY Facts DEF ResumePlayback, TimerReads, Running, FlagsTyped
<1>3. /\ reader'.file = reader.file
      /\ is_paused' = FALSE
      /\ \/ /\ reader.shown < Len(reader.file.stamps)
            /\ reader'.shown = reader.shown + 1
            /\ is_playing' = TRUE
            /\ ~Throws(reader)
         \/ /\ reader.shown = Len(reader.file.stamps)
            /\ reader'.shown = reader.shown
            /\ is_playing' \in BOOLEAN
            /\ Throws(reader) => is_playing' = TRUE
  BY <1>1, <1>2, ReadIsPromised
<1>4. /\ Len(reader'.file.stamps) = Len(reader.file.stamps)
      /\ (reader'.file.kind \in Intact) <=> (reader.file.kind \in Intact)
  BY <1>3
<1>5. PlayerMode = IF is_paused THEN "paused" ELSE "playing"
  BY DEF PlayerMode
<1>6. \/ is_paused /\ ~fatal'
      \/ ~is_paused /\ (fatal' <=> Throws(reader))
  BY Facts DEF ResumePlayback, TimerReads, Running
<1>7. CASE is_playing' = TRUE /\ ~fatal'
  <2>1. PlayerMode' = "playing" /\ Audience' = Audience
    BY <1>2, <1>3, <1>7, ModeBecomes DEF Audience
  <2>2. CASE reader.shown < Len(reader.file.stamps)
    <3>1. reader'.shown = reader.shown + 1
      BY <1>1, <1>3, <2>2
    <3>2. Promise!NextFrame
      BY <1>4, <2>1, <2>2, <3>1 DEF Promise!NextFrame
    <3> QED
      BY <1>5, <3>2 DEF Promise!Next, Promise!Show, Promise!Resume
  <2>3. CASE reader.shown = Len(reader.file.stamps)
    <3>1. reader'.shown = reader.shown
      BY <1>1, <1>3, <2>3
    <3>2. CASE is_paused
      BY <1>4, <1>5, <2>1, <2>3, <3>1, <3>2 DEF Promise!Next, Promise!Resume
    <3>3. CASE ~is_paused
      BY <1>4, <1>5, <2>1, <3>1, <3>3 DEF Promise!vars
    <3> QED BY <3>2, <3>3
  <2> QED BY <1>3, <2>2, <2>3
<1>8. CASE is_playing' = TRUE /\ fatal'
  <2>1. PlayerMode = "playing" /\ PlayerMode' = "broken" /\ Throws(reader)
    BY <1>5, <1>6, <1>8, ModeBecomes
  <2>2. Audience' = Audience /\ reader.file.kind \notin Intact
    BY <1>2, <1>8, <2>1 DEF Audience, Throws, Intact
  <2>3. reader.shown = Len(reader.file.stamps) /\ reader'.shown = reader.shown
    BY <1>3, <2>1
  <2> QED BY <1>4, <2>1, <2>2, <2>3 DEF Promise!Next, Promise!Break
<1>9. CASE is_playing' = FALSE
  <2>1. /\ reader.shown = Len(reader.file.stamps)
        /\ reader'.shown = reader.shown
        /\ ~fatal'
    BY <1>3, <1>6, <1>9
  <2>2. PlayerMode' = "stopped" /\ Audience' = Nobody
    BY <1>9, <2>1, ModeBecomes DEF Audience
  <2>3. Promise!Ends
    BY <1>4, <2>1, <2>2 DEF Promise!Ends
  <2> QED
    BY <1>5, <2>1, <2>3 DEF Promise!Next, Promise!Finish, Promise!Resume
<1> QED BY <1>3, <1>7, <1>8, <1>9

LEMMA PromiseStep == IInv /\ [Next]_vars => [Promise!Next]_(Promise!vars)
<1> SUFFICES ASSUME IInv, [Next]_vars PROVE [Promise!Next]_(Promise!vars)
  OBVIOUS
<1>0. /\ FlagsTyped
      /\ reader \in Readers
      /\ is_paused => is_playing
  BY Facts DEF IInv, PauseSound
<1>1. ASSUME ~fatal, NEW c \in Clients, NEW f \in Recordings, StartPlayback(c, f)
      PROVE  Promise!Next
  BY <1>1, StartIsPromised
<1>2. ASSUME ~fatal, NEW f \in Recordings, StartUnloaded(f)
      PROVE  [Promise!Next]_(Promise!vars)
  <2>1. /\ reader'.file = reader.file /\ reader'.shown = reader.shown
        /\ is_playing' = FALSE /\ is_paused' = FALSE
        /\ fatal' = FALSE /\ fatal = FALSE
    BY <1>0, <1>2 DEF StartUnloaded, Closed, Readers, FlagsTyped
  <2>2. CASE is_playing
    BY <1>2, <2>1, <2>2, StopIsPromised
  <2>3. CASE ~is_playing
    <3>1. is_playing' = is_playing /\ is_paused' = is_paused
      BY <1>0, <2>1, <2>3 DEF FlagsTyped
    <3> QED BY <2>1, <2>3, <3>1, Stutters
  <2> QED BY <2>2, <2>3
<1>3. CASE ~fatal /\ PausePlayback
  <2>1. PlayerMode = "playing"
    BY <1>3, ModeIs DEF PausePlayback
  <2>2. PlayerMode' = "paused"
    BY <1>3, ModeBecomes DEF PausePlayback
  <2>3. UNCHANGED <<reader, Audience>>
    BY <1>3 DEF PausePlayback, Audience
  <2> QED BY <2>1, <2>2, <2>3 DEF Promise!Next, Promise!Pause
<1>4. CASE ~fatal /\ ResumePlayback
  BY <1>4, ReadOnIsPromised DEF ResumePlayback
<1>5. CASE ~fatal /\ TimerReads
  BY <1>5, ReadOnIsPromised DEF TimerReads, Running
<1>6. CASE ~fatal /\ StopPlayback
  <2>1. /\ reader'.file = reader.file /\ reader'.shown = reader.shown
        /\ is_playing' = FALSE /\ is_playing
        /\ fatal' = FALSE
    BY <1>0, <1>6 DEF StopPlayback, Closed, Readers, FlagsTyped
  <2> QED BY <1>6, <2>1, StopIsPromised
<1>7. CASE StopNothing
  BY <1>7, Stutters DEF StopNothing
<1>8. ASSUME NEW s \in SpeedRequests, SetSpeed(s)
      PROVE  UNCHANGED Promise!vars
  BY <1>8, Stutters DEF SetSpeed
<1>9. CASE TimerExpires
  BY <1>9, Stutters DEF TimerExpires
<1>10. CASE TimerIgnored
  BY <1>10, Stutters DEF TimerIgnored
<1>11. CASE UNCHANGED vars
  BY <1>11, Stutters DEF vars
<1> QED
  BY <1>1, <1>2, <1>3, <1>4, <1>5, <1>6, <1>7, <1>8, <1>9, <1>10, <1>11
  DEF Next, ClientCalls, TimerHandler, ServerEnded

\* The player with its file, its timer and its late handlers keeps its promise.
THEOREM Refinement == Spec => ImplementsPlayer
<1>1. Init => Promise!Init
  BY DEF Init, Promise!Init, PlayerMode, Audience, NoFile, Intact
<1> QED BY Inductive, PromiseStep, <1>1, PTL DEF Spec, ImplementsPlayer, Promise!Spec

-----------------------------------------------------------------------------
\* One more frame, whatever the timer was doing.
LEMMA FrameAdvances ==
    ASSUME reader \in Readers, ShowFrame(reader), waiting \in BOOLEAN
    PROVE  Ahead' < Ahead
<1>1. /\ reader.shown \in Nat
      /\ Len(reader.file.stamps) \in Nat
  BY FilesTyped DEF Readers
<1>2. reader'.file = reader.file /\ reader'.shown = reader.shown + 1
  BY DEF ShowFrame, AfterFrame, Readers
<1> DEFINE n == Len(reader.file.stamps)
           k == reader.shown
<1>3. Ahead' = 2 * (n - (k + 1)) + 1
  BY <1>2 DEF Ahead, ShowFrame
<1>4. Ahead = 2 * (n - k) + 0 \/ Ahead = 2 * (n - k) + 1
  BY DEF Ahead
<1> HIDE DEF n, k
<1>5. n \in Nat /\ k \in Nat
  BY <1>1 DEF n, k
<1> QED BY <1>3, <1>4, <1>5

\* What IntactPlaybackEnds needs besides fairness: a playback that is not cut can
\* only go on for so long, and StuckMeansCut says that it always can go on.
THEOREM PlaybackIsFinite == Spec => PlaybackAdvances
<1> DEFINE A == Playing /\ Playing' /\ reader.file.kind \in Intact
                    /\ starts' = starts
                    /\ <<reader, waiting, ready>>' # <<reader, waiting, ready>>
                => Ahead' < Ahead
<1>1. IInv /\ [Next]_vars => [A]_vars
  <2> SUFFICES ASSUME IInv, Next, Playing, Playing',
                      reader.file.kind \in Intact, starts' = starts,
                      <<reader, waiting, ready>>' # <<reader, waiting, ready>>
               PROVE  Ahead' < Ahead
    BY DEF vars
  <2>1. /\ reader \in Readers /\ Fits(reader)
        /\ waiting \in BOOLEAN
        /\ starts \in Nat
        /\ reader.shown \in Nat /\ Len(reader.file.stamps) \in Nat
    BY Facts, FilesTyped, BoundAssumption DEF DataTyped, FlagsTyped, Readers
  <2>2. reader.state \notin {"failed", "drained"} /\ ~Throws(reader)
    BY <2>1 DEF Fits, Throws, Intact
  <2>3. CASE TimerReads
    <3>1. ReadNextFrame(reader, waiting, is_paused)
      BY <2>3 DEF TimerReads
    <3>2. ~ReadEnd(reader)
      BY DEF ReadEnd, Playing
    <3>3. ~ReadNothing(reader, waiting) /\ ~ReadCutHeader(reader, waiting)
      BY <2>2 DEF ReadNothing, ReadCutHeader
    <3> QED BY <2>1, <3>1, <3>2, <3>3, FrameAdvances DEF ReadNextFrame
  <2>4. CASE TimerExpires
    <3> DEFINE n == Len(reader.file.stamps)
               k == reader.shown
    <3>1. Ahead = 2 * (n - k) + 1 /\ Ahead' = 2 * (n - k) + 0
      BY <2>4 DEF TimerExpires, Ahead
    <3>2. n \in Nat /\ k \in Nat
      BY <2>1
    <3> HIDE DEF n, k
    <3> QED BY <3>1, <3>2
  <2>5. ASSUME NEW c \in Clients, NEW f \in Recordings, StartPlayback(c, f)
        PROVE  FALSE
    BY <2>1, <2>5 DEF StartPlayback
  <2>6. ASSUME NEW f \in Recordings, StartUnloaded(f) PROVE FALSE
    BY <2>6 DEF StartUnloaded, Playing
  <2>7. ~PausePlayback /\ ~ResumePlayback /\ ~StopPlayback /\ ~StopNothing
        /\ ~TimerIgnored
    BY DEF PausePlayback, ResumePlayback, StopPlayback, StopNothing, TimerIgnored,
           Playing, Running
  <2>8. ASSUME NEW s \in SpeedRequests, SetSpeed(s) PROVE FALSE
    BY <2>8 DEF SetSpeed
  <2>9. ~ServerEnded
    BY DEF ServerEnded, vars
  <2> QED
    BY <2>3, <2>4, <2>5, <2>6, <2>7, <2>8, <2>9 DEF Next, ClientCalls, TimerHandler
<1> QED BY Inductive, <1>1, PTL DEF Spec, PlaybackAdvances
=============================================================================
