-------------------------- MODULE Recording_proofs --------------------------
(***************************************************************************)
(* IInv of Recording is inductive.  The lemmas about one file come first:  *)
(* what its beginnings, its end and one more frame make of it.             *)
(***************************************************************************)
EXTENDS Recording, TLAPS

\* As many frames as are on disk were written.
LEMMA FramesBounded ==
    ASSUME NEW k \in Nat, NEW n \in 0..Units(k)
    PROVE  FramesIn(n) \in 0..k
<1>1. n \in Nat /\ n <= 2 + 4 * k
  BY DEF Units
<1>2. CASE n < 5
  BY <1>1, <1>2 DEF FramesIn
<1>3. CASE n >= 5
  <2>1. (n - 1) \div 4 \in Int /\ 4 * ((n - 1) \div 4) <= n - 1
        /\ (n - 1) \div 4 >= 0
    BY <1>1, <1>3
  <2>2. FramesIn(n) = (n - 1) \div 4
    BY <1>1, <1>3 DEF FramesIn
  <2> QED BY <1>1, <2>1, <2>2
<1> QED BY <1>1, <1>2, <1>3

LEMMA BeginningSound ==
    ASSUME NEW st \in Seq(Nat), InOrder(st), NEW n \in 0..Units(Len(st))
    PROVE  /\ Beginning(st, n) \in Files
           /\ FileSound(Beginning(st, n))
           /\ Beginning(st, n).there
           /\ ~Beginning(st, n).footer
<1> DEFINE k == FramesIn(n)
           part == SubSeq(st, 1, k)
<1>1. k \in 0..Len(st) /\ n \in Nat
  BY FramesBounded DEF Units
<1> HIDE DEF k
<1>2. /\ part \in Seq(Nat)
      /\ Len(part) = k
      /\ \A i \in 1..k : part[i] = st[i]
  BY <1>1
<1>3. InOrder(part)
  BY <1>1, <1>2 DEF InOrder
<1>4. Beginning(st, n) = [there |-> TRUE, size |-> n, stamps |-> part,
                          footer |-> FALSE, count |-> 0]
  BY DEF Beginning, k
<1> HIDE DEF part
<1>5. /\ Beginning(st, n) \in Files
      /\ Beginning(st, n).stamps = part
      /\ Beginning(st, n).size = n
      /\ Beginning(st, n).there = TRUE
      /\ Beginning(st, n).footer = FALSE
  BY <1>1, <1>2, <1>4 DEF Files
<1> QED BY <1>2, <1>3, <1>5 DEF FileSound, k

LEMMA FinishedSound ==
    ASSUME NEW st \in Seq(Nat), InOrder(st)
    PROVE  /\ Finished(st, Len(st)) \in Files
           /\ FileSound(Finished(st, Len(st)))
           /\ Finished(st, Len(st)).footer
<1>1. Len(st) \in Nat /\ Units(Len(st)) \in Nat
  BY DEF Units
<1> QED BY <1>1 DEF Finished, Files, FileSound

LEMMA AbsentSound ==
    Absent \in Files /\ FileSound(Absent) /\ ~Absent.there /\ ~Absent.footer
BY DEF Absent, Files, FileSound, InOrder

\* A frame stamped no earlier than those before it.
LEMMA AppendInOrder ==
    ASSUME NEW st \in Seq(Nat), InOrder(st), NEW x \in Nat,
           \A i \in 1..Len(st) : st[i] <= x
    PROVE  /\ Append(st, x) \in Seq(Nat)
           /\ Len(Append(st, x)) = Len(st) + 1
           /\ InOrder(Append(st, x))
           /\ \A i \in 1..Len(Append(st, x)) : Append(st, x)[i] <= x
<1>1. /\ Append(st, x) \in Seq(Nat)
      /\ Len(Append(st, x)) = Len(st) + 1
      /\ \A i \in 1..Len(st) : Append(st, x)[i] = st[i]
      /\ Append(st, x)[Len(st) + 1] = x
  OBVIOUS
<1>2. Len(st) \in Nat
  OBVIOUS
<1>3. \A i \in 1..(Len(st) + 1) : Append(st, x)[i] <= x
  BY <1>1, <1>2
<1>4. InOrder(Append(st, x))
  <2> SUFFICES ASSUME NEW i \in 1..(Len(st) + 1), NEW j \in 1..(Len(st) + 1),
                      i < j
               PROVE  Append(st, x)[i] <= Append(st, x)[j]
    BY <1>1 DEF InOrder
  <2>1. CASE j \in 1..Len(st)
    BY <1>1, <1>2, <2>1 DEF InOrder
  <2>2. CASE j = Len(st) + 1
    BY <1>1, <1>3, <2>2
  <2> QED BY <1>2, <2>1, <2>2
<1> QED BY <1>1, <1>3, <1>4

\* One file of the directory is replaced.
LEMMA DirUpdate ==
    ASSUME dir \in [Seconds -> Files], DirSound,
           NEW s \in Seconds, NEW f \in Files, FileSound(f),
           dir' = [dir EXCEPT ![s] = f]
    PROVE  /\ dir' \in [Seconds -> Files]
           /\ DirSound'
           /\ dir'[s] = f
           /\ \A t \in Seconds : t # s => dir'[t] = dir[t]
BY DEF DirSound

-----------------------------------------------------------------------------
LEMMA InitInvariant == Init => IInv
<1> SUFFICES ASSUME Init PROVE IInv
  OBVIOUS
<1>1. DataTyped
  BY BoundAssumption, AbsentSound DEF Init, DataTyped, Seconds
<1>2. FlagsTyped
  BY DEF Init, FlagsTyped
<1>3. \A s \in Seconds : dir[s] = Absent
  BY DEF Init
<1>4. DirSound /\ CutMeansLost
  BY <1>3, AbsentSound DEF DirSound, CutMeansLost
<1>5. OpenSound
  BY DEF Init, OpenSound
<1> QED BY <1>1, <1>2, <1>4, <1>5 DEF IInv, TypeOK

LEMMA Facts ==
    ASSUME IInv
    PROVE  /\ DataTyped /\ FlagsTyped /\ DirSound
           /\ dir \in [Seconds -> Files]
           /\ filename \in Seconds
           /\ steady \in Nat /\ start_time \in Nat /\ start_time <= steady
           /\ stamps \in Seq(Nat) /\ Len(stamps) \in Nat
BY BoundAssumption DEF IInv, TypeOK, DataTyped, Seconds

\* Time passes or is set back: the open file's frames stay in the past.
LEMMA ClockKeeps ==
    ASSUME IInv, Tick \/ SetBack
    PROVE  IInv'
<1>1. /\ wall' \in Seconds /\ steady' \in Seconds /\ steady <= steady'
      /\ UNCHANGED <<recorder, dir, answer, lost>>
  BY Facts, BoundAssumption DEF DataTyped, Tick, SetBack, Seconds
<1>2. DataTyped'
  BY <1>1, Facts DEF DataTyped, recorder, Seconds
<1>3. FlagsTyped'
  BY <1>1, Facts DEF FlagsTyped, recorder
<1>4. DirSound' /\ CutMeansLost'
  BY <1>1 DEF IInv, DirSound, CutMeansLost, Live, recorder
<1>5. OpenSound'
  <2> SUFFICES ASSUME is_recording
               PROVE  /\ InOrder(stamps)
                      /\ \A i \in 1..Len(stamps) : stamps[i] <= steady' - start_time
                      /\ good => frame_count = Len(stamps)
                      /\ linked /\ ~good => filename \in lost
                      /\ linked => dir[filename].there /\ ~dir[filename].footer
    BY <1>1 DEF OpenSound, recorder
  <2>1. \A i \in 1..Len(stamps) : stamps[i] \in Nat /\ stamps[i] <= steady - start_time
    BY Facts DEF IInv, OpenSound
  <2>2. steady' \in Nat
    BY <1>1, BoundAssumption DEF Seconds
  <2>3. steady - start_time <= steady' - start_time
    BY <1>1, <2>2, Facts
  <2>4. \A i \in 1..Len(stamps) : stamps[i] <= steady' - start_time
    BY <2>1, <2>2, <2>3, Facts
  <2> QED BY <2>4 DEF IInv, OpenSound
<1> QED BY <1>2, <1>3, <1>4, <1>5 DEF IInv, TypeOK

LEMMA StartKeeps ==
    ASSUME IInv, NEW c \in Controllers, RecordStart(c)
    PROVE  IInv'
<1> DEFINE f == Beginning(<<>>, 0)
<1>1. f \in Files /\ FileSound(f) /\ f.there /\ ~f.footer
  <2>1. InOrder(<<>>) /\ 0 \in 0..Units(0) /\ <<>> \in Seq(Nat) /\ Len(<<>>) = 0
    BY DEF InOrder, Units
  <2> QED BY <2>1, BeginningSound
<1>2. filename' \in Seconds /\ dir' = [dir EXCEPT ![filename'] = f]
  BY Facts DEF RecordStart, NewName, DataTyped
<1> HIDE DEF f
<1>3. /\ dir' \in [Seconds -> Files]
      /\ DirSound'
      /\ dir'[filename'] = f
      /\ \A t \in Seconds : t # filename' => dir'[t] = dir[t]
  BY <1>1, <1>2, Facts, DirUpdate
<1>4. DataTyped'
  <2>1. start_time' \in 0..steady' /\ stamps' \in Seq(Nat) /\ frame_count' \in Nat
    BY Facts DEF RecordStart, FirstCount, clocks
  <2>2. wall' \in Seconds /\ steady' \in Seconds
    BY Facts DEF RecordStart, clocks, DataTyped
  <2>3. answer' \in [Controllers -> {"other", "RECORDING_STARTED", "RECORDING_STOPPED"}]
    BY Facts DEF RecordStart, DataTyped
  <2>4. lost' \subseteq Seconds
    BY Facts DEF RecordStart, DataTyped
  <2> QED BY <1>2, <1>3, <2>1, <2>2, <2>3, <2>4 DEF DataTyped
<1>5. FlagsTyped'
  BY Facts DEF RecordStart, FlagsTyped
<1>6. CutMeansLost'
  BY <1>3 DEF IInv, CutMeansLost, Live, RecordStart
<1>7. OpenSound'
  BY <1>1, <1>3 DEF RecordStart, OpenSound, InOrder, FirstCount
<1> QED BY <1>3, <1>4, <1>5, <1>6, <1>7 DEF IInv, TypeOK

\* What is_recording_ is off for, no file is open.
LEMMA StartFailsKeeps ==
    ASSUME IInv, NEW c \in Controllers, RecordStartFails(c)
    PROVE  IInv'
<1>1. DataTyped'
  BY Facts DEF RecordStartFails, DataTyped, NewName, clocks
<1>2. FlagsTyped'
  BY Facts DEF RecordStartFails, FlagsTyped
<1>3. DirSound' /\ CutMeansLost' /\ OpenSound'
  BY DEF IInv, RecordStartFails, DirSound, CutMeansLost, OpenSound, Live
<1> QED BY <1>1, <1>2, <1>3 DEF IInv, TypeOK

LEMMA AnswerKeeps ==
    ASSUME IInv, NEW c \in Controllers, RecordStartAgain(c) \/ RecordStopNothing(c)
    PROVE  IInv'
<1>1. DataTyped'
  BY Facts DEF RecordStartAgain, RecordStopNothing, DataTyped, clocks, recorder
<1>2. FlagsTyped'
  BY Facts DEF RecordStartAgain, RecordStopNothing, FlagsTyped, recorder
<1>3. DirSound' /\ CutMeansLost' /\ OpenSound'
  BY DEF IInv, RecordStartAgain, RecordStopNothing, DirSound, CutMeansLost,
         OpenSound, Live, clocks, recorder
<1> QED BY <1>1, <1>2, <1>3 DEF IInv, TypeOK

\* Ending a recording, by stop_recording or by the destructor.
LEMMA EndingDir ==
    ASSUME IInv,
           dir' = IF is_recording /\ linked /\ good
                  THEN [dir EXCEPT ![filename] = Finished(stamps, frame_count)]
                  ELSE dir,
           lost' = lost
    PROVE  /\ dir' \in [Seconds -> Files]
           /\ DirSound'
           /\ \A s \in Seconds : dir'[s].there /\ ~dir'[s].footer => s \in lost'
<1>1. CASE is_recording /\ linked /\ good
  <2> DEFINE f == Finished(stamps, frame_count)
  <2>1. InOrder(stamps) /\ frame_count = Len(stamps)
    BY <1>1 DEF IInv, OpenSound
  <2>2. f \in Files /\ FileSound(f) /\ f.footer
    BY <2>1, Facts, FinishedSound
  <2>3. dir' = [dir EXCEPT ![filename] = f]
    BY <1>1
  <2> HIDE DEF f
  <2>4. /\ dir' \in [Seconds -> Files]
        /\ DirSound'
        /\ dir'[filename] = f
        /\ \A t \in Seconds : t # filename => dir'[t] = dir[t]
    BY <2>2, <2>3, Facts, DirUpdate
  <2> QED BY <2>2, <2>4, Facts DEF IInv, CutMeansLost, Live
<1>2. CASE ~(is_recording /\ linked /\ good)
  <2>1. dir' = dir
    BY <1>2
  <2>2. \A s \in Seconds : dir[s].there /\ ~dir[s].footer => s \in lost
    BY <1>2 DEF IInv, CutMeansLost, OpenSound, Live
  <2>3. DirSound'
    BY <2>1, Facts DEF DirSound
  <2> QED BY <2>1, <2>2, <2>3, Facts
<1> QED BY <1>1, <1>2

LEMMA StopKeeps ==
    ASSUME IInv, NEW c \in Controllers, RecordStop(c)
    PROVE  IInv'
<1>1. /\ dir' \in [Seconds -> Files]
      /\ DirSound'
      /\ \A s \in Seconds : dir'[s].there /\ ~dir'[s].footer => s \in lost'
  BY EndingDir DEF RecordStop, ClosesFile
<1>2. DataTyped'
  BY <1>1, Facts DEF RecordStop, ClosesFile, DataTyped, clocks
<1>3. FlagsTyped'
  BY Facts DEF RecordStop, ClosesFile, FlagsTyped
<1>4. OpenSound' /\ CutMeansLost'
  BY <1>1 DEF RecordStop, ClosesFile, OpenSound, CutMeansLost, Live
<1> QED BY <1>1, <1>2, <1>3, <1>4 DEF IInv, TypeOK

LEMMA EndKeeps ==
    ASSUME IInv, Crash \/ ShutDown
    PROVE  IInv'
<1>1. CASE Crash
  <2>1. DataTyped'
    BY <1>1, Facts, BoundAssumption DEF Crash, Idle, DataTyped, Live, clocks, Seconds
  <2>2. FlagsTyped'
    BY <1>1 DEF Crash, Idle, FlagsTyped
  <2>3. DirSound' /\ CutMeansLost' /\ OpenSound'
    BY <1>1 DEF IInv, Crash, Idle, DirSound, CutMeansLost, OpenSound, Live
  <2> QED BY <2>1, <2>2, <2>3 DEF IInv, TypeOK
<1>2. CASE ShutDown
  <2>1. /\ dir' \in [Seconds -> Files]
        /\ DirSound'
        /\ \A s \in Seconds : dir'[s].there /\ ~dir'[s].footer => s \in lost'
    BY <1>2, EndingDir DEF ShutDown
  <2>2. DataTyped'
    BY <1>2, <2>1, Facts, BoundAssumption DEF ShutDown, Idle, DataTyped, clocks, Seconds
  <2>3. FlagsTyped'
    BY <1>2, Facts DEF ShutDown, Idle, FlagsTyped
  <2>4. CutMeansLost' /\ OpenSound'
    BY <1>2, <2>1 DEF ShutDown, Idle, CutMeansLost, OpenSound, Live
  <2> QED BY <2>1, <2>2, <2>3, <2>4 DEF IInv, TypeOK
<1> QED BY <1>1, <1>2

LEMMA WriteKeeps ==
    ASSUME IInv, WriteFrame
    PROVE  IInv'
<1>1. /\ is_recording
      /\ UNCHANGED <<wall, steady, is_recording, filename, linked, good,
                     start_time, dir, answer, lost>>
  BY DEF WriteFrame, clocks
<1>2. /\ stamps' \in Seq(Nat)
      /\ InOrder(stamps')
      /\ \A i \in 1..Len(stamps') : stamps'[i] <= steady - start_time
      /\ good => Len(stamps') = Len(stamps) + 1
  <2>1. CASE good
    <3>1. stamps' = Append(stamps, Elapsed)
      BY <2>1 DEF WriteFrame
    <3>2. Elapsed \in Nat /\ Elapsed = steady - start_time
      BY Facts DEF Elapsed
    <3>3. InOrder(stamps) /\ \A i \in 1..Len(stamps) : stamps[i] <= Elapsed
      BY <1>1, <3>2 DEF IInv, OpenSound
    <3> QED BY <3>1, <3>2, <3>3, Facts, AppendInOrder
  <2>2. CASE ~good
    BY <1>1, <2>2, Facts DEF WriteFrame, IInv, OpenSound
  <2> QED BY <2>1, <2>2
<1>3. frame_count' \in Nat /\ frame_count' = frame_count + 1
  BY Facts DEF WriteFrame, DataTyped
<1>4. DataTyped'
  BY <1>1, <1>2, <1>3, Facts DEF DataTyped
<1>5. FlagsTyped'
  BY <1>1, Facts DEF FlagsTyped
<1>6. DirSound' /\ CutMeansLost'
  BY <1>1 DEF IInv, DirSound, CutMeansLost, Live
<1>7. OpenSound'
  <2>1. good => frame_count' = Len(stamps')
    BY <1>1, <1>2, <1>3 DEF IInv, OpenSound
  <2>2. linked /\ ~good => filename \in lost
    BY <1>1 DEF IInv, OpenSound
  <2>3. linked => dir[filename].there /\ ~dir[filename].footer
    BY <1>1 DEF IInv, OpenSound
  <2> QED BY <1>1, <1>2, <2>1, <2>2, <2>3 DEF OpenSound
<1> QED BY <1>4, <1>5, <1>6, <1>7 DEF IInv, TypeOK

LEMMA FlushKeeps ==
    ASSUME IInv, Flush
    PROVE  IInv'
<1>1. PICK n \in (dir[filename].size + 1)..Units(Len(stamps)) :
          dir' = [dir EXCEPT ![filename] = Beginning(stamps, n)]
  BY DEF Flush
<1> DEFINE f == Beginning(stamps, n)
<1>2. n \in 0..Units(Len(stamps))
  <2>1. dir[filename].size \in Nat
    BY Facts DEF Files
  <2>2. Units(Len(stamps)) \in Nat
    BY Facts DEF Units
  <2> QED BY <2>1, <2>2
<1>3. f \in Files /\ FileSound(f) /\ f.there /\ ~f.footer
  <2>1. InOrder(stamps)
    BY DEF Flush, IInv, OpenSound
  <2> QED BY <1>2, <2>1, Facts, BeginningSound
<1> HIDE DEF f
<1>4. /\ dir' \in [Seconds -> Files]
      /\ DirSound'
      /\ dir'[filename] = f
      /\ \A t \in Seconds : t # filename => dir'[t] = dir[t]
  BY <1>1, <1>3, Facts, DirUpdate DEF f
<1>5. /\ is_recording /\ linked /\ good
      /\ UNCHANGED <<wall, steady, is_recording, filename, linked, good,
                     start_time, stamps, frame_count, answer, lost>>
  BY DEF Flush, clocks, recorder
<1>6. DataTyped'
  BY <1>4, <1>5, Facts DEF DataTyped
<1>7. FlagsTyped'
  BY <1>5, Facts DEF FlagsTyped
<1>8. CutMeansLost'
  BY <1>4, <1>5 DEF IInv, CutMeansLost, Live
<1>9. OpenSound'
  BY <1>3, <1>4, <1>5 DEF IInv, OpenSound
<1> QED BY <1>4, <1>6, <1>7, <1>8, <1>9 DEF IInv, TypeOK

LEMMA DeleteKeeps ==
    ASSUME IInv, NEW s \in Seconds, Delete(s)
    PROVE  IInv'
<1>1. /\ dir' \in [Seconds -> Files]
      /\ DirSound'
      /\ dir'[s] = Absent
      /\ \A t \in Seconds : t # s => dir'[t] = dir[t]
  BY AbsentSound, Facts, DirUpdate DEF Delete
<1>2. /\ linked' = (linked /\ filename # s)
      /\ lost' = lost \ {s}
      /\ UNCHANGED <<wall, steady, is_recording, filename, good, start_time,
                     stamps, frame_count, answer>>
  BY DEF Delete, clocks
<1>3. DataTyped'
  BY <1>1, <1>2, Facts DEF DataTyped
<1>4. FlagsTyped'
  BY <1>2, Facts DEF FlagsTyped
<1>5. CutMeansLost'
  BY <1>1, <1>2, AbsentSound DEF IInv, CutMeansLost, Live
<1>6. OpenSound'
  BY <1>1, <1>2, Facts DEF IInv, OpenSound
<1> QED BY <1>1, <1>3, <1>4, <1>5, <1>6 DEF IInv, TypeOK

LEMMA DiskFullKeeps ==
    ASSUME IInv, DiskFull
    PROVE  IInv'
<1>1. DataTyped'
  BY Facts DEF DiskFull, DataTyped, Live, clocks
<1>2. FlagsTyped'
  BY Facts DEF DiskFull, FlagsTyped
<1>3. DirSound' /\ CutMeansLost' /\ OpenSound'
  BY DEF IInv, DiskFull, DirSound, CutMeansLost, OpenSound, Live, clocks
<1> QED BY <1>1, <1>2, <1>3 DEF IInv, TypeOK

LEMMA StepInvariant == IInv /\ [Next]_vars => IInv'
<1> SUFFICES ASSUME IInv, [Next]_vars PROVE IInv'
  OBVIOUS
<1>1. CASE UNCHANGED vars
  <2>1. DataTyped'
    BY <1>1, Facts DEF DataTyped, vars
  <2>2. FlagsTyped'
    BY <1>1, Facts DEF FlagsTyped, vars
  <2>3. DirSound' /\ CutMeansLost' /\ OpenSound'
    BY <1>1 DEF IInv, vars, DirSound, CutMeansLost, OpenSound, Live
  <2> QED BY <2>1, <2>2, <2>3 DEF IInv, TypeOK
<1> QED
  BY <1>1, ClockKeeps, StartKeeps, StartFailsKeeps, AnswerKeeps, StopKeeps,
     EndKeeps, WriteKeeps, FlushKeeps, DeleteKeeps, DiskFullKeeps
  DEF Next

LEMMA Inductive == Spec => []IInv
BY InitInvariant, StepInvariant, PTL DEF Spec

-----------------------------------------------------------------------------
\* Every variable of the recorder keeps its type; no frame's timestamp is
\* negative, wherever the wall clock is set.
THEOREM TypeCorrect == Spec => []TypeOK
BY Inductive, PTL DEF IInv

\* A footer counts the frames that are in its file (stop_recording).
THEOREM FooterCounts == Spec => []FooterIsTrue
<1>1. IInv => FooterIsTrue
  BY DEF IInv, DirSound, FileSound, FooterIsTrue
<1> QED BY <1>1, Inductive, PTL

\* A file without a footer is the open one, or a crash or a full disk cut it.
THEOREM CutsAreLosses == Spec => []CutMeansLost
BY Inductive, PTL DEF IInv

LEMMA EmptyIsEmpty == ASSUME NEW st \in Seq(Nat), Len(st) = 0 PROVE st = <<>>
OBVIOUS

LEMMA OnlyOneUnit ==
    ASSUME NEW f \in Files, KindOf(f) = "noframes"
    PROVE  f.there /\ ~f.footer /\ f.size = 1
<1> DEFINE kind == <<"eof", "footer", "cutheader", "cutframe">>
           k == ((f.size - 2) % 4) + 1
<1>1. f.size \in Nat /\ f.there \in BOOLEAN /\ f.footer \in BOOLEAN
  BY DEF Files
<1>2. (f.size - 2) \in Int
  BY <1>1
<1>3. k \in {1, 2, 3, 4}
  BY <1>2
<1>4. kind[k] # "noframes"
  BY <1>3
<1> HIDE DEF k, kind
<1>5. f.there /\ ~f.footer /\ f.size < 2
  BY <1>1, <1>4 DEF KindOf, kind, k
<1>6. <<"notrecord", "noframes">>[f.size + 1] = "noframes"
  BY <1>1, <1>5 DEF KindOf
<1> QED BY <1>1, <1>5, <1>6

\* What Playback assumes of recordings holds of every file, at any time.
THEOREM AlwaysPlayable == Spec => []FilesPlayable
<1>1. ASSUME IInv PROVE FilesPlayable
  <2> SUFFICES ASSUME NEW s \in Seconds
               PROVE  /\ InOrder(dir[s].stamps)
                      /\ KindOf(dir[s]) = "cutframe" => dir[s].stamps # <<>>
                      /\ KindOf(dir[s]) = "noframes" => dir[s].stamps = <<>>
    BY DEF FilesPlayable
  <2>1. dir[s] \in Files /\ FileSound(dir[s])
    BY <1>1, Facts DEF DirSound
  <2>2. ASSUME KindOf(dir[s]) = "cutframe" PROVE dir[s].stamps # <<>>
    <3> DEFINE n == dir[s].size
    <3>1. n \in Nat
      BY <2>1 DEF Files
    <3>2. dir[s].there /\ ~dir[s].footer /\ n > 1 /\ (n - 2) % 4 = 3
      BY <2>2, <3>1 DEF KindOf
    <3>3. n >= 5
      BY <3>1, <3>2
    <3>4. FramesIn(n) >= 1
      BY <3>1, <3>3 DEF FramesIn
    <3>5. Len(dir[s].stamps) >= 1
      BY <2>1, <3>2, <3>4 DEF FileSound
    <3> QED BY <2>1, <3>5 DEF Files
  <2>3. ASSUME KindOf(dir[s]) = "noframes" PROVE dir[s].stamps = <<>>
    <3>1. dir[s].size \in Nat /\ dir[s].stamps \in Seq(Nat)
      BY <2>1 DEF Files
    <3>4. dir[s].there /\ ~dir[s].footer /\ dir[s].size = 1
      BY <2>1, <2>3, OnlyOneUnit
    <3>5. Len(dir[s].stamps) = 0
      BY <2>1, <3>4 DEF FileSound, FramesIn
    <3> QED BY <3>1, <3>5, EmptyIsEmpty
  <2> QED BY <2>1, <2>2, <2>3 DEF FileSound
<1> QED BY <1>1, Inductive, PTL

\* A finished recording is only ever deleted, or written over by one that
\* starts in the second it is named after (start_recording).
THEOREM FinishedAreKept == Spec => FinishedKept
<1> DEFINE A == \A s \in Seconds :
                    dir[s].footer =>
                        \/ dir'[s] = dir[s]
                        \/ dir'[s] = Absent
                        \/ wall = s /\ ~is_recording /\ is_recording'
<1>1. ASSUME IInv, [Next]_vars PROVE [A]_vars
  <2> SUFFICES ASSUME NEW s \in Seconds, dir[s].footer
               PROVE  \/ dir'[s] = dir[s]
                      \/ dir'[s] = Absent
                      \/ wall = s /\ ~is_recording /\ is_recording'
    OBVIOUS
  <2>1. ASSUME NEW c \in Controllers, RecordStart(c)
        PROVE  dir'[s] = dir[s] \/ (wall = s /\ ~is_recording /\ is_recording')
    BY <1>1, <2>1, Facts DEF RecordStart, NewName
  <2>2. CASE is_recording /\ linked /\ (Flush \/ ShutDown \/ ClosesFile)
    <3>1. filename # s
      BY <1>1, <2>2 DEF IInv, OpenSound
    <3> QED BY <1>1, <2>2, <3>1, Facts DEF Flush, ShutDown, ClosesFile
  <2>3. CASE /\ ~(is_recording /\ linked)
             /\ \/ Flush
                \/ ShutDown
                \/ is_recording /\ ClosesFile
    BY <2>3 DEF Flush, ShutDown, ClosesFile
  <2>4. ASSUME NEW c \in Controllers, RecordStop(c)
        PROVE  is_recording /\ ClosesFile
    BY <2>4 DEF RecordStop
  <2>5. ASSUME NEW t \in Seconds, Delete(t)
        PROVE  dir'[s] = dir[s] \/ dir'[s] = Absent
    BY <1>1, <2>5, Facts DEF Delete
  <2>6. CASE dir' = dir
    BY <2>6
  <2> QED
    BY <1>1, <2>1, <2>2, <2>3, <2>4, <2>5, <2>6
    DEF Next, Tick, SetBack, RecordStartFails, RecordStartAgain,
        RecordStopNothing, WriteFrame, DiskFull, Crash, vars
<1> QED BY <1>1, Inductive, PTL DEF Spec, FinishedKept

-----------------------------------------------------------------------------
(* What is on disk of the open file *)

\* Writing on leaves every beginning of what was written before.
LEMMA BeginningStays ==
    ASSUME NEW st \in Seq(Nat), NEW x \in Nat, NEW n \in 0..Units(Len(st))
    PROVE  /\ n \in 0..Units(Len(Append(st, x)))
           /\ Beginning(Append(st, x), n) = Beginning(st, n)
<1> DEFINE k == FramesIn(n)
           more == Append(st, x)
<1>1. k \in 0..Len(st) /\ Len(st) \in Nat
  BY FramesBounded
<1>2. /\ more \in Seq(Nat)
      /\ Len(more) = Len(st) + 1
      /\ \A i \in 1..Len(st) : more[i] = st[i]
  OBVIOUS
<1>3. n \in 0..Units(Len(more))
  BY <1>1, <1>2 DEF Units
<1> HIDE DEF k, more
<1>4. SubSeq(more, 1, k) = SubSeq(st, 1, k)
  BY <1>1, <1>2
<1> QED BY <1>3, <1>4 DEF Beginning, k, more

LEMMA OpenStep == IInv /\ OpenIsBeginning /\ [Next]_vars => OpenIsBeginning'
<1> SUFFICES ASSUME IInv, OpenIsBeginning, [Next]_vars,
                    is_recording', linked'
             PROVE  /\ dir'[filename'].size \in 0..Units(Len(stamps'))
                    /\ dir'[filename'] = Beginning(stamps', dir'[filename'].size)
  BY DEF OpenIsBeginning
<1> USE Facts
<1>1. ASSUME UNCHANGED <<is_recording, linked, filename, stamps, dir>>
      PROVE  /\ dir'[filename'].size \in 0..Units(Len(stamps'))
             /\ dir'[filename'] = Beginning(stamps', dir'[filename'].size)
  BY <1>1 DEF OpenIsBeginning
<1>2. ASSUME NEW c \in Controllers, RecordStart(c)
      PROVE  /\ dir'[filename'].size \in 0..Units(Len(stamps'))
             /\ dir'[filename'] = Beginning(stamps', dir'[filename'].size)
  <2>1. stamps' = <<>> /\ filename' = wall
    BY <1>2 DEF RecordStart, NewName
  <2>2. dir'[filename'] = Beginning(<<>>, 0)
    BY <1>2, <2>1 DEF RecordStart, DataTyped
  <2>3. Beginning(<<>>, 0).size = 0 /\ Len(<<>>) = 0
    BY DEF Beginning
  <2> QED BY <2>1, <2>2, <2>3 DEF Units
<1>3. ASSUME NEW c \in Controllers,
             RecordStartFails(c) \/ RecordStop(c)
      PROVE  FALSE
  BY <1>3 DEF RecordStartFails, RecordStop, ClosesFile
<1>4. CASE WriteFrame
  <2>1. /\ is_recording /\ linked
        /\ UNCHANGED <<filename, dir>>
        /\ Elapsed \in Nat
    BY <1>4 DEF WriteFrame, Elapsed
  <2>2. /\ dir[filename].size \in 0..Units(Len(stamps))
        /\ dir[filename] = Beginning(stamps, dir[filename].size)
    BY <2>1 DEF OpenIsBeginning
  <2>3. stamps' = stamps \/ stamps' = Append(stamps, Elapsed)
    BY <1>4 DEF WriteFrame
  <2> QED BY <2>1, <2>2, <2>3, BeginningStays
<1>5. CASE Flush
  <2>1. PICK n \in (dir[filename].size + 1)..Units(Len(stamps)) :
            dir' = [dir EXCEPT ![filename] = Beginning(stamps, n)]
    BY <1>5 DEF Flush
  <2>2. UNCHANGED <<filename, stamps>> /\ dir'[filename] = Beginning(stamps, n)
    BY <1>5, <2>1 DEF Flush, recorder
  <2>3. n \in 0..Units(Len(stamps)) /\ Beginning(stamps, n).size = n
    <3>1. dir[filename].size \in Nat /\ Units(Len(stamps)) \in Nat
      BY DEF Files, Units
    <3> QED BY <2>1, <3>1 DEF Beginning
  <2> QED BY <2>2, <2>3
<1>6. ASSUME NEW s \in Seconds, Delete(s)
      PROVE  /\ dir'[filename'].size \in 0..Units(Len(stamps'))
             /\ dir'[filename'] = Beginning(stamps', dir'[filename'].size)
  <2>1. linked /\ filename # s /\ UNCHANGED <<is_recording, filename, stamps>>
    BY <1>6 DEF Delete
  <2>2. dir'[filename] = dir[filename]
    BY <1>6, <2>1 DEF Delete
  <2> QED BY <2>1, <2>2 DEF OpenIsBeginning
<1>7. CASE Crash \/ ShutDown
  BY <1>7 DEF Crash, ShutDown, Idle
<1>8. CASE Tick \/ SetBack \/ DiskFull \/ UNCHANGED vars
  BY <1>1, <1>8 DEF Tick, SetBack, DiskFull, vars, recorder
<1>9. ASSUME NEW c \in Controllers,
             RecordStartAgain(c) \/ RecordStopNothing(c)
      PROVE  UNCHANGED <<is_recording, linked, filename, stamps, dir>>
  BY <1>9 DEF RecordStartAgain, RecordStopNothing, recorder
<1> QED BY <1>1, <1>2, <1>3, <1>4, <1>5, <1>6, <1>7, <1>8, <1>9 DEF Next

\* Whenever the process dies, the file it was recording to holds a beginning of
\* the recording: nothing of an older file, and no gap.
THEOREM OpenFileIsBeginning == Spec => []OpenIsBeginning
<1>1. Init => OpenIsBeginning
  BY DEF Init, OpenIsBeginning
<1> QED BY Inductive, OpenStep, <1>1, PTL DEF Spec

-----------------------------------------------------------------------------
(***************************************************************************)
(* Recording implements Archive.  A step changes the file of one name at   *)
(* most (ShelfOfOne), and that is what the steps of Archive do.            *)
(***************************************************************************)

Kept(s) == Status(s)' = Status(s) /\ dir'[s].stamps = dir[s].stamps

LEMMA ShelfOfOne ==
    ASSUME NEW s \in Seconds, \A t \in Seconds \ {s} : Kept(t)
    PROVE  Shelf' = [Shelf EXCEPT ![s] = [status |-> Status(s)',
                                          stamps |-> dir'[s].stamps]]
BY DEF Shelf, Kept

LEMMA ShelfOfNone == UNCHANGED <<dir, Live>> => UNCHANGED Shelf
BY DEF Shelf, Status

\* A file that does not change and is not the open one, before or after.
LEMMA OthersKept ==
    ASSUME NEW t, dir'[t] = dir[t], t \in Live <=> t \in Live'
    PROVE  Kept(t)
BY DEF Kept, Status

LEMMA MoreFrames ==
    ASSUME NEW m \in Nat, NEW n \in Nat, m <= n
    PROVE  FramesIn(m) <= FramesIn(n)
<1>1. CASE n < 5
  BY <1>1 DEF FramesIn
<1>2. CASE n >= 5
  <2>1. FramesIn(n) = (n - 1) \div 4
    BY <1>2 DEF FramesIn
  <2>2. (n - 1) \div 4 \in Int /\ (n - 1) \div 4 >= 0
        /\ 4 * ((n - 1) \div 4) <= n - 1
        /\ n - 1 < 4 * ((n - 1) \div 4) + 4
    BY <1>2
  <2>3. CASE m < 5
    BY <2>1, <2>2, <2>3 DEF FramesIn
  <2>4. CASE m >= 5
    <3>1. FramesIn(m) = (m - 1) \div 4
      BY <2>4 DEF FramesIn
    <3>2. (m - 1) \div 4 \in Int /\ 4 * ((m - 1) \div 4) <= m - 1
      BY <2>4
    <3> QED BY <2>1, <2>2, <3>1, <3>2
  <2> QED BY <2>3, <2>4
<1> QED BY <1>1, <1>2

LEMMA BeginsEmpty == Init => Promise!Init
<1> SUFFICES ASSUME Init PROVE Promise!Init
  OBVIOUS
<1>1. Live = {} /\ Film = <<>> /\ lost = {}
  BY DEF Init, Live, Film
<1>2. Shelf = [s \in Seconds |-> [status |-> "none", stamps |-> <<>>]]
  BY DEF Init, Shelf, Status, Absent
<1> QED BY <1>1, <1>2 DEF Promise!Init, Promise!Nothing

LEMMA StartBegins ==
    ASSUME IInv, NEW c \in Controllers, RecordStart(c),
           NEW w \in Seconds, w = wall
    PROVE  Promise!Begin(w)
<1>1. Live = {} /\ Live' = {w} /\ Film' = <<>>
  BY Facts DEF RecordStart, NewName, Live, Film
<1>2. dir' = [dir EXCEPT ![w] = Beginning(<<>>, 0)]
  BY DEF RecordStart, NewName
<1>3. dir'[w].there /\ ~dir'[w].footer /\ dir'[w].stamps = <<>>
  BY <1>2, Facts DEF Beginning, FramesIn
<1>4. \A t \in Seconds \ {w} : Kept(t)
  <2> SUFFICES ASSUME NEW t \in Seconds \ {w} PROVE Kept(t)
    OBVIOUS
  <2> QED BY <1>1, <1>2, OthersKept
<1>5. Status(w)' = "live"
  BY <1>1, <1>3 DEF Status
<1>6. Shelf' = [Shelf EXCEPT ![w] = [status |-> "live", stamps |-> <<>>]]
  BY <1>3, <1>4, <1>5, ShelfOfOne
<1>7. lost' = lost \ {w}
  BY DEF RecordStart, NewName
<1> QED BY <1>1, <1>6, <1>7 DEF Promise!Begin

LEMMA WriteTakes ==
    ASSUME IInv, WriteFrame, linked, good
    PROVE  Promise!Take
<1>1. /\ is_recording /\ Elapsed \in Nat
      /\ stamps' = Append(stamps, Elapsed)
      /\ UNCHANGED <<dir, is_recording, linked, filename, lost>>
  BY Facts DEF WriteFrame, Elapsed
<1>2. Live # {} /\ UNCHANGED Live
  BY <1>1 DEF Live
<1>3. Film = stamps /\ Film' = Append(stamps, Elapsed)
  BY <1>1 DEF Film
<1>4. UNCHANGED Shelf
  BY <1>1, <1>2, ShelfOfNone
<1>5. \A i \in 1..Len(stamps) : stamps[i] <= Elapsed
  BY <1>1 DEF IInv, OpenSound, Elapsed
<1> DEFINE x == Elapsed
           film == Append(stamps, x)
<1> HIDE DEF x
<1>6. /\ Len(film) = Len(stamps) + 1
      /\ \A i \in 1..Len(stamps) : film[i] = stamps[i]
      /\ film[Len(stamps) + 1] = x
  BY <1>1, Facts DEF x
<1>7. SubSeq(film, 1, Len(stamps)) = stamps
  BY <1>1, <1>6, Facts DEF x
<1>8. \A i \in 1..Len(stamps) : film[i] <= film[Len(stamps) + 1]
  BY <1>5, <1>6 DEF x
<1>9. Film = stamps /\ Film' = film
  BY <1>3 DEF x
<1> HIDE DEF film
<1> QED BY <1>1, <1>2, <1>4, <1>6, <1>7, <1>8, <1>9 DEF Promise!Take

LEMMA FlushSaves ==
    ASSUME IInv, Flush, NEW f \in Seconds, f = filename
    PROVE  Promise!Save(f)
<1> DEFINE size == dir[f].size
<1>1. /\ is_recording /\ linked /\ good
      /\ UNCHANGED <<is_recording, linked, filename, stamps, lost>>
  BY DEF Flush, recorder
<1>2. PICK n \in (size + 1)..Units(Len(stamps)) :
          dir' = [dir EXCEPT ![f] = Beginning(stamps, n)]
  BY DEF Flush
<1>3. Live = {f} /\ UNCHANGED Live /\ Film = stamps /\ UNCHANGED Film
  BY <1>1 DEF Live, Film
<1> DEFINE k == FramesIn(n)
<1>4. /\ dir'[f].there /\ ~dir'[f].footer
      /\ dir'[f].stamps = SubSeq(stamps, 1, k)
  BY <1>2, Facts DEF Beginning
<1>5. k \in Len(dir[f].stamps)..Len(stamps)
  <2>1. /\ size \in Nat /\ dir[f].there /\ ~dir[f].footer
        /\ Len(dir[f].stamps) \in Nat
    BY <1>1, Facts DEF Files, IInv, OpenSound
  <2>2. n \in 0..Units(Len(stamps)) /\ n \in Nat /\ size <= n
    BY <2>1, <1>2, Facts DEF Units
  <2>3. Len(dir[f].stamps) = FramesIn(size)
    BY <2>1, Facts DEF DirSound, FileSound
  <2>4. FramesIn(size) <= k
    BY <2>1, <2>2, MoreFrames
  <2>5. k \in 0..Len(stamps)
    BY <2>2, FramesBounded, Facts
  <2> HIDE DEF k
  <2> QED BY <2>1, <2>3, <2>4, <2>5, Facts
<1>6. Status(f) = "live" /\ Status(f)' = "live"
  <2>1. dir[f].there /\ ~dir[f].footer
    BY <1>1 DEF IInv, OpenSound
  <2> QED BY <1>3, <1>4, <2>1 DEF Status
<1> HIDE DEF k
<1>7. \A t \in Seconds \ {f} : Kept(t)
  <2> SUFFICES ASSUME NEW t \in Seconds \ {f} PROVE Kept(t)
    OBVIOUS
  <2> QED BY <1>2, <1>3, OthersKept
<1>8. Shelf' = [Shelf EXCEPT ![f].stamps = SubSeq(stamps, 1, k)]
  <2>1. Shelf' = [Shelf EXCEPT ![f] = [status |-> "live",
                                       stamps |-> SubSeq(stamps, 1, k)]]
    BY <1>4, <1>6, <1>7, ShelfOfOne
  <2>2. Shelf[f] = [status |-> "live", stamps |-> dir[f].stamps]
    BY <1>6 DEF Shelf
  <2> QED BY <2>1, <2>2 DEF Shelf
<1>9. Shelf[f].stamps = dir[f].stamps
  BY DEF Shelf
<1> QED BY <1>1, <1>3, <1>5, <1>8, <1>9 DEF Promise!Save

\* The recording ends, by stop_recording or by ~RecordController.
LEMMA EndFinishes ==
    ASSUME IInv, is_recording, ~is_recording', lost' = lost,
           NEW f \in Seconds, f = filename, linked,
           dir' = IF linked /\ good
                  THEN [dir EXCEPT ![f] = Finished(stamps, frame_count)]
                  ELSE dir
    PROVE  Promise!Finish(f) \/ Promise!GiveUp(f)
<1>1. /\ Live = {f} /\ Live' = {} /\ Film = stamps /\ Film' = <<>>
  BY DEF Live, Film
<1>2. \A t \in Seconds \ {f} : Kept(t)
  <2> SUFFICES ASSUME NEW t \in Seconds \ {f} PROVE Kept(t)
    OBVIOUS
  <2>1. dir'[t] = dir[t]
    BY Facts
  <2> QED BY <1>1, <2>1, OthersKept
<1>3. dir[f].there /\ ~dir[f].footer
  BY DEF IInv, OpenSound
<1>4. CASE good
  <2>1. dir'[f] = Finished(stamps, frame_count)
    BY <1>4, Facts
  <2>2. dir'[f].there /\ dir'[f].footer /\ dir'[f].stamps = stamps
    BY <2>1 DEF Finished
  <2>3. Status(f)' = "whole"
    BY <2>2 DEF Status
  <2>4. Shelf' = [Shelf EXCEPT ![f] = [status |-> "whole", stamps |-> stamps]]
    BY <1>2, <2>2, <2>3, ShelfOfOne
  <2> QED BY <1>1, <2>4 DEF Promise!Finish, Promise!Over
<1>5. CASE ~good
  <2>1. dir' = dir /\ lost' = lost \union {f}
    BY <1>5 DEF IInv, OpenSound
  <2>2. Status(f)' = "cut"
    BY <1>1, <1>3, <2>1 DEF Status
  <2>3. Shelf' = [Shelf EXCEPT ![f] = [status |-> "cut",
                                       stamps |-> dir[f].stamps]]
    BY <1>2, <2>1, <2>2, ShelfOfOne
  <2>4. Shelf' = [Shelf EXCEPT ![f].status = "cut"]
    BY <2>3 DEF Shelf
  <2> QED BY <1>1, <2>1, <2>4 DEF Promise!GiveUp, Promise!Over
<1> QED BY <1>4, <1>5

LEMMA CrashIsAccident ==
    ASSUME IInv, Crash, NEW f \in Seconds, f = filename
    PROVE  Promise!GiveUp(f) \/ UNCHANGED Promise!vars
<1>1. dir' = dir /\ lost' = lost \union Live /\ Live' = {} /\ Film' = <<>>
  BY DEF Crash, Idle, Live, Film
<1>2. CASE is_recording /\ linked
  <2>1. Live = {f}
    BY <1>2 DEF Live
  <2>2. dir[f].there /\ ~dir[f].footer
    BY <1>2 DEF IInv, OpenSound
  <2>3. \A t \in Seconds \ {f} : Kept(t)
    <3> SUFFICES ASSUME NEW t \in Seconds \ {f} PROVE Kept(t)
      OBVIOUS
    <3> QED BY <1>1, <2>1, OthersKept
  <2>4. Status(f)' = "cut"
    BY <1>1, <2>2 DEF Status
  <2>5. Shelf' = [Shelf EXCEPT ![f] = [status |-> "cut",
                                       stamps |-> dir[f].stamps]]
    BY <1>1, <2>3, <2>4, ShelfOfOne
  <2>6. Shelf' = [Shelf EXCEPT ![f].status = "cut"]
    BY <2>5 DEF Shelf
  <2> QED BY <1>1, <2>1, <2>6 DEF Promise!GiveUp, Promise!Over
<1>3. CASE ~(is_recording /\ linked)
  <2>1. Live = {} /\ Film = <<>>
    BY <1>3 DEF Live, Film
  <2> QED BY <1>1, <2>1, ShelfOfNone DEF Promise!vars
<1> QED BY <1>2, <1>3

LEMMA DeleteRemoves ==
    ASSUME IInv, NEW s \in Seconds, Delete(s)
    PROVE  Promise!Remove(s)
<1>1. /\ dir' = [dir EXCEPT ![s] = Absent]
      /\ linked' = (linked /\ filename # s)
      /\ lost' = lost \ {s}
      /\ UNCHANGED <<is_recording, filename, stamps>>
  BY DEF Delete
<1>2. Live' = Live \ {s}
  BY <1>1 DEF Live
<1>3. \A t \in Seconds \ {s} : Kept(t)
  <2> SUFFICES ASSUME NEW t \in Seconds \ {s} PROVE Kept(t)
    OBVIOUS
  <2> QED BY <1>1, <1>2, OthersKept
<1>4. Status(s)' = "none" /\ dir'[s].stamps = <<>>
  BY <1>1, Facts DEF Status, Absent
<1>5. Shelf' = [Shelf EXCEPT ![s] = [status |-> "none", stamps |-> <<>>]]
  BY <1>3, <1>4, ShelfOfOne
<1>6. IF s \in Live THEN Live' = {} /\ Film' = <<>>
                    ELSE UNCHANGED <<Live, Film>>
  BY <1>1, <1>2 DEF Live, Film
<1> QED BY <1>1, <1>5, <1>6 DEF Promise!Remove, Promise!Nothing, Promise!Over

\* What the readers of the directory cannot see.
LEMMA Unseen ==
    UNCHANGED <<dir, Live, Film, lost>> => UNCHANGED Promise!vars
BY ShelfOfNone DEF Promise!vars

LEMMA RecorderKeeps ==
    UNCHANGED <<is_recording, linked, filename, stamps, dir, lost>>
        => UNCHANGED Promise!vars
<1> SUFFICES ASSUME UNCHANGED <<is_recording, linked, filename, stamps, dir,
                                lost>>
             PROVE  UNCHANGED Promise!vars
  OBVIOUS
<1>1. UNCHANGED <<dir, Live, Film, lost>>
  BY DEF Live, Film
<1> QED BY <1>1, Unseen

LEMMA ArchiveStep == IInv /\ [Next]_vars => [Promise!Next]_(Promise!vars)
<1> SUFFICES ASSUME IInv, [Next]_vars
             PROVE  Promise!Next \/ UNCHANGED Promise!vars
  OBVIOUS
<1> PICK f \in Seconds : f = filename
  BY Facts
<1> PICK w \in Seconds : w = wall
  BY Facts DEF DataTyped
<1>1. ASSUME NEW c \in Controllers, RecordStart(c)
      PROVE  Promise!Next
  BY <1>1, StartBegins DEF Promise!Next
<1>2. ASSUME NEW c \in Controllers, RecordStartFails(c)
      PROVE  UNCHANGED Promise!vars
  <2>1. UNCHANGED <<dir, Live, Film, lost>>
    BY <1>2 DEF RecordStartFails, Live, Film
  <2> QED BY <2>1, Unseen
<1>3. ASSUME NEW c \in Controllers,
             RecordStartAgain(c) \/ RecordStopNothing(c)
      PROVE  UNCHANGED Promise!vars
  <2>1. UNCHANGED <<is_recording, linked, filename, stamps, dir, lost>>
    BY <1>3 DEF RecordStartAgain, RecordStopNothing, recorder
  <2> QED BY <2>1, RecorderKeeps
<1>4. CASE Tick \/ SetBack \/ UNCHANGED vars
  <2>1. UNCHANGED <<is_recording, linked, filename, stamps, dir, lost>>
    BY <1>4 DEF Tick, SetBack, vars, recorder
  <2> QED BY <2>1, RecorderKeeps
<1>5. ASSUME \/ ShutDown
             \/ \E c \in Controllers : RecordStop(c)
      PROVE  Promise!Next \/ UNCHANGED Promise!vars
  <2>1. /\ ~is_recording' /\ lost' = lost
        /\ dir' = IF is_recording /\ linked /\ good
                  THEN [dir EXCEPT ![f] = Finished(stamps, frame_count)]
                  ELSE dir
    BY <1>5 DEF ShutDown, Idle, RecordStop, ClosesFile
  <2>2. CASE is_recording /\ linked
    BY <2>1, <2>2, EndFinishes DEF Promise!Next
  <2>3. CASE ~(is_recording /\ linked)
    <3>1. UNCHANGED <<dir, Live, Film, lost>>
      BY <2>1, <2>3 DEF Live, Film
    <3> QED BY <3>1, Unseen
  <2> QED BY <2>2, <2>3
<1>6. CASE WriteFrame
  <2>1. CASE linked /\ good
    BY <1>6, <2>1, WriteTakes DEF Promise!Next
  <2>2. CASE ~(linked /\ good)
    <3>1. UNCHANGED <<dir, Live, Film, lost>>
      BY <1>6, <2>2 DEF WriteFrame, Live, Film
    <3> QED BY <3>1, Unseen
  <2> QED BY <2>1, <2>2
<1>7. CASE Flush
  BY <1>7, FlushSaves DEF Promise!Next
<1>8. CASE DiskFull
  <2>1. UNCHANGED <<dir, Live, Film>> /\ lost' = lost \union Live
    BY <1>8 DEF DiskFull, Live, Film
  <2>2. UNCHANGED Shelf
    BY <2>1, ShelfOfNone
  <2>3. CASE Live = {f}
    BY <2>1, <2>2, <2>3 DEF Promise!Next, Promise!HaveAccident
  <2>4. CASE Live = {}
    BY <2>1, <2>2, <2>4 DEF Promise!vars
  <2> QED BY <2>3, <2>4 DEF Live
<1>9. ASSUME NEW s \in Seconds, Delete(s)
      PROVE  Promise!Next
  BY <1>9, DeleteRemoves DEF Promise!Next
<1>10. CASE Crash
  BY <1>10, CrashIsAccident DEF Promise!Next
<1> QED
  BY <1>1, <1>2, <1>3, <1>4, <1>5, <1>6, <1>7, <1>8, <1>9, <1>10 DEF Next

\* For readers the recorder is an Archive: no buffer, crash, full disk, deletion
\* or clock that is set back makes of a file what is not a beginning of one
\* recording, and a recording that ends without an accident is there whole.
THEOREM Refinement == Spec => ImplementsArchive
BY Inductive, BeginsEmpty, ArchiveStep, PTL DEF Spec, ImplementsArchive, Promise!Spec
=============================================================================
