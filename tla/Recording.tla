----------------------------- MODULE Recording ------------------------------
(***************************************************************************)
(* The one RecordController of the server, the controllers that start and  *)
(* stop it, the broadcasts that it copies to disk, and the "recordings"    *)
(* directory that GET and DELETE /recordings see.  The process may die at  *)
(* any time and be started again; the directory stays.                     *)
(*                                                                         *)
(* A file is named after the second of the wall clock in which it was      *)
(* opened, so seconds stand for names.  What is on disk of a file that is  *)
(* open is some beginning of what was written, counted in units: two for   *)
(* the header, then for each frame one up to the first colon of its own    *)
(* header, one up to the second, one into its text, one to its end.        *)
(***************************************************************************)
EXTENDS Integers, Sequences

CONSTANTS
    Controllers,   \* sessions whose is_controller_ is set
    MaxClock,      \* bound: the last second of either clock
    MaxFrames      \* bound: frames of one recording

ASSUME BoundAssumption == MaxClock \in Nat /\ MaxFrames \in Nat

VARIABLES
    wall,          \* system_clock, in local time: it may be set back
    steady,        \* steady_clock
    is_recording,  \* is_recording_
    filename,      \* filename_
    linked,        \* record_file_ is still the file of that name
    good,          \* record_file_ has had no failed write
    start_time,    \* start_time_
    stamps,        \* the frames written to record_file_
    frame_count,   \* frame_count_
    dir,           \* the directory: the file of each name
    answer,        \* what each controller was told last
    lost           \* history: names of files that a crash or a failed write cut

vars == <<wall, steady, is_recording, filename, linked, good, start_time,
          stamps, frame_count, dir, answer, lost>>

clocks == <<wall, steady>>
recorder == <<is_recording, filename, linked, good, start_time, stamps,
              frame_count>>

Seconds == 0..MaxClock

\* size units hold the frames of stamps; count is what the footer says.
Files == [there : BOOLEAN, size : Nat, stamps : Seq(Nat), footer : BOOLEAN,
          count : Nat]

Absent == [there |-> FALSE, size |-> 0, stamps |-> <<>>, footer |-> FALSE,
           count |-> 0]

DataTyped ==
    /\ wall \in Seconds
    /\ steady \in Seconds
    /\ filename \in Seconds
    /\ start_time \in 0..steady
    /\ stamps \in Seq(Nat)
    /\ frame_count \in Nat
    /\ dir \in [Seconds -> Files]
    /\ answer \in [Controllers ->
                      {"other", "RECORDING_STARTED", "RECORDING_STOPPED"}]
    /\ lost \subseteq Seconds

FlagsTyped ==
    /\ is_recording \in BOOLEAN
    /\ linked \in BOOLEAN
    /\ good \in BOOLEAN

TypeOK == DataTyped /\ FlagsTyped

Idle ==
    /\ is_recording' = FALSE
    /\ filename' = 0
    /\ linked' = FALSE
    /\ good' = TRUE
    /\ start_time' = 0
    /\ stamps' = <<>>
    /\ frame_count' = 0

Init ==
    /\ wall = 0
    /\ steady = 0
    /\ is_recording = FALSE
    /\ filename = 0
    /\ linked = FALSE
    /\ good = TRUE
    /\ start_time = 0
    /\ stamps = <<>>
    /\ frame_count = 0
    /\ dir = [s \in Seconds |-> Absent]
    /\ answer = [c \in Controllers |-> "other"]
    /\ lost = {}

-----------------------------------------------------------------------------
\* Time passes on both clocks.
Tick ==
    /\ wall < MaxClock /\ steady < MaxClock
    /\ wall' = wall + 1
    /\ steady' = steady + 1
    /\ UNCHANGED <<recorder, dir, answer, lost>>

\* The wall clock is adjusted, or summer time ends.
SetBack ==
    /\ wall > 0
    /\ wall' = wall - 1
    /\ UNCHANGED <<steady, recorder, dir, answer, lost>>

\* Units of a file that has n whole frames.
Units(n) == 2 + 4 * n

\* Whole and cut frames in n units.
FramesIn(n) == IF n < 5 THEN 0 ELSE (n - 1) \div 4

Beginning(st, n) ==
    [there |-> TRUE, size |-> n, stamps |-> SubSeq(st, 1, FramesIn(n)),
     footer |-> FALSE, count |-> 0]

Finished(st, n) ==
    [there |-> TRUE, size |-> Units(Len(st)), stamps |-> st, footer |-> TRUE,
     count |-> n]

\* filename_ is generated only once.
SameName == filename

NewName == wall

\* frame_count_ is not reset.
CountGoesOn == frame_count

FirstCount == 0

\* record_start opens a file, whatever there is under its name.
RecordStart(c) ==
    /\ ~is_recording
    /\ is_recording' = TRUE
    /\ filename' = NewName
    /\ linked' = TRUE
    /\ good' = TRUE
    /\ start_time' = steady
    /\ stamps' = <<>>
    /\ frame_count' = FirstCount
    /\ dir' = [dir EXCEPT ![filename'] = Beginning(<<>>, 0)]
    /\ lost' = lost \ {filename'}
    /\ answer' = [answer EXCEPT ![c] = "RECORDING_STARTED"]
    /\ UNCHANGED clocks

\* The file does not open, which nobody is told.
RecordStartFails(c) ==
    /\ ~is_recording
    /\ filename' = NewName
    /\ linked' = FALSE
    /\ answer' = [answer EXCEPT ![c] = "RECORDING_STARTED"]
    /\ UNCHANGED <<clocks, is_recording, good, start_time, stamps, frame_count,
                   dir, lost>>

RecordStartAgain(c) ==
    /\ is_recording
    /\ answer' = [answer EXCEPT ![c] = "RECORDING_STARTED"]
    /\ UNCHANGED <<clocks, recorder, dir, lost>>

\* The flag is lowered and the file is forgotten.
LeavesFile ==
    /\ is_recording' = FALSE
    /\ UNCHANGED <<filename, linked, good, start_time, stamps, frame_count, dir>>

\* RecordController::stop_recording while it records: the footer, and close().
ClosesFile ==
    /\ is_recording' = FALSE
    /\ dir' = IF linked /\ good
              THEN [dir EXCEPT ![filename] = Finished(stamps, frame_count)]
              ELSE dir
    /\ UNCHANGED <<filename, linked, good, start_time, stamps, frame_count>>

RecordStop(c) ==
    /\ is_recording
    /\ ClosesFile
    /\ answer' = [answer EXCEPT ![c] = "RECORDING_STOPPED"]
    /\ UNCHANGED <<clocks, lost>>

RecordStopNothing(c) ==
    /\ ~is_recording
    /\ answer' = [answer EXCEPT ![c] = "RECORDING_STOPPED"]
    /\ UNCHANGED <<clocks, recorder, dir, lost>>

\* The timestamp is taken from the wall clock.
ElapsedOnWall == wall - start_time

\* The same, kept from being negative.
ElapsedOnWallClamped == IF wall < start_time THEN 0 ELSE wall - start_time

Elapsed == steady - start_time

\* broadcast of a frame: write_frame counts it even when the stream is bad.
WriteFrame ==
    /\ is_recording
    /\ frame_count < MaxFrames
    /\ stamps' = IF good THEN Append(stamps, Elapsed) ELSE stamps
    /\ frame_count' = frame_count + 1
    /\ UNCHANGED <<clocks, is_recording, filename, linked, good, start_time,
                   dir, answer, lost>>

\* The stream's buffer is full, and what it holds goes to disk.
Flush ==
    /\ is_recording /\ linked /\ good
    /\ \E n \in (dir[filename].size + 1)..Units(Len(stamps)) :
           dir' = [dir EXCEPT ![filename] = Beginning(stamps, n)]
    /\ UNCHANGED <<clocks, recorder, answer, lost>>

\* The name of the open file, while it has one.
Live == IF is_recording /\ linked THEN {filename} ELSE {}

\* Nothing more goes to this file, and nobody notices.
DiskFull ==
    /\ is_recording /\ good
    /\ good' = FALSE
    /\ lost' = lost \union Live
    /\ UNCHANGED <<clocks, is_recording, filename, linked, start_time, stamps,
                   frame_count, dir, answer>>

\* DELETE /recordings/<file>, which may be the one that is open.
Delete(s) ==
    /\ dir[s].there
    /\ dir' = [dir EXCEPT ![s] = Absent]
    /\ linked' = (linked /\ filename # s)
    /\ lost' = lost \ {s}
    /\ UNCHANGED <<clocks, is_recording, filename, good, start_time, stamps,
                   frame_count, answer>>

\* The process is killed and started again.
Crash ==
    /\ Idle
    /\ lost' = lost \union Live
    /\ answer' = [c \in Controllers |-> "other"]
    /\ UNCHANGED <<clocks, dir>>

\* run() throws, ~RecordController stops the recording, the server starts again.
\* (After a playback frame_callback_ keeps the controller from being destroyed:
\* then the end of main is a Crash.)
ShutDown ==
    /\ Idle
    /\ dir' = IF is_recording /\ linked /\ good
              THEN [dir EXCEPT ![filename] = Finished(stamps, frame_count)]
              ELSE dir
    /\ answer' = [c \in Controllers |-> "other"]
    /\ UNCHANGED <<clocks, lost>>

Next ==
    \/ Tick
    \/ SetBack
    \/ \E c \in Controllers :
           \/ RecordStart(c)
           \/ RecordStartFails(c)
           \/ RecordStartAgain(c)
           \/ RecordStop(c)
           \/ RecordStopNothing(c)
    \/ WriteFrame
    \/ Flush
    \/ DiskFull
    \/ \E s \in Seconds : Delete(s)
    \/ Crash
    \/ ShutDown

Spec == Init /\ [][Next]_vars

-----------------------------------------------------------------------------
\* A file that has its footer holds the frames the footer counts, and no cut
\* one, though frames are counted even when they were not written.
FooterIsTrue ==
    \A s \in Seconds : dir[s].footer => dir[s].count = Len(dir[s].stamps)

\* A file that is not finished is the open one, or was cut by a crash or by a full
\* disk while it was.
CutMeansLost ==
    \A s \in Seconds : dir[s].there /\ ~dir[s].footer => s \in lost \union Live

\* What Playback assumes of recordings: timestamps never go back.
InOrder(st) == \A i, j \in 1..Len(st) : i < j => st[i] <= st[j]

(***************************************************************************)
(* A recording as Playback sees it.  A line of less than two colons is the *)
(* footer to it.                                                           *)
(***************************************************************************)
KindOf(f) ==
    IF ~f.there THEN "absent"
    ELSE IF f.footer THEN "footer"
    ELSE IF f.size < 2 THEN <<"notrecord", "noframes">>[f.size + 1]
    ELSE <<"eof", "footer", "cutheader", "cutframe">>[((f.size - 2) % 4) + 1]

\* Whatever is in the directory, at any time, is a recording as Playback takes
\* it: in order for all that the clock was set back, and cut only in known ways.
FilesPlayable ==
    \A s \in Seconds :
        /\ InOrder(dir[s].stamps)
        /\ KindOf(dir[s]) = "cutframe" => dir[s].stamps # <<>>
        /\ KindOf(dir[s]) = "noframes" => dir[s].stamps = <<>>

\* A finished recording never changes, but by DELETE or when a recording starts
\* in the second (of a clock that may be set back) after which it was named.
FinishedKept ==
    [][\A s \in Seconds :
           dir[s].footer =>
               \/ dir'[s] = dir[s]
               \/ dir'[s] = Absent
               \/ wall = s /\ ~is_recording /\ is_recording']_vars

\* With these the others are inductive: what the files and the open one hold.
FileSound(f) ==
    /\ InOrder(f.stamps)
    /\ f.footer => f.count = Len(f.stamps)
    /\ f.there /\ ~f.footer => Len(f.stamps) = FramesIn(f.size)

DirSound == \A s \in Seconds : FileSound(dir[s])

OpenSound ==
    is_recording =>
        /\ InOrder(stamps)
        /\ \A i \in 1..Len(stamps) : stamps[i] <= steady - start_time
        /\ good => frame_count = Len(stamps)
        /\ linked /\ ~good => filename \in lost
        /\ linked => dir[filename].there /\ ~dir[filename].footer

IInv == TypeOK /\ CutMeansLost /\ DirSound /\ OpenSound

\* What is on disk of the open file is a beginning of what was written to it, at
\* any time and so also after a crash.
OpenIsBeginning ==
    is_recording /\ linked =>
        /\ dir[filename].size \in 0..Units(Len(stamps))
        /\ dir[filename] = Beginning(stamps, dir[filename].size)

(***************************************************************************)
(* The directory as its readers may think of it.  A recording whose file   *)
(* was deleted goes on, but is nothing to them.                            *)
(***************************************************************************)
Film == IF is_recording /\ linked THEN stamps ELSE <<>>

Status(s) ==
    IF ~dir[s].there THEN "none"
    ELSE IF dir[s].footer THEN "whole"
    ELSE IF s \in Live THEN "live" ELSE "cut"

Shelf == [s \in Seconds |-> [status |-> Status(s), stamps |-> dir[s].stamps]]

Promise == INSTANCE Archive
    WITH Names <- Seconds, shelf <- Shelf, live <- Live, film <- Film,
         accidents <- lost

\* Buffers, crashes, full disks, deletions and clocks that are set back
\* notwithstanding: a file is a beginning of one recording's frames, all of them
\* unless it had an accident itself, and only its own recording or DELETE touches
\* it.
ImplementsArchive == Promise!Spec
=============================================================================
