# A verification development for streaming_server

The program is an HTTPS server that reads frames from a camera, turns them into
ASCII text and sends them over WebSockets. Controllers start and stop the
broadcast, viewers watch it, the broadcast can be recorded to disk, and
recordings can be played back. This directory models its core logic in TLA+,
checks it with TLC on small instances, and proves its invariants and refinements
with TLAPS for all values of the constants.

## 1. The system

`main` runs one `boost::asio::io_context` **on one thread** (`main.cpp:45`). So
there is no preemption: a handler or coroutine runs from one suspension point
(`co_await`, `post`, `co_spawn`, a timer) to the next, and what interleaves is
these pieces. One TLA+ action is one such piece. The strand of StreamController
therefore adds only a hop: a coroutine that awaits `dispatch(strand_)` is
suspended and resumes on its own executor, in an order that the strand does not
fix.

| Component | State | Operations | Interacts by |
|---|---|---|---|
| StreamController | `is_streaming_`, `stop_requested_`, `viewers_`, camera, capture loop, `playback_session_` | start, stop, add and remove viewer, capture loop, cleanup; passes recording and playback on | coroutines of sessions; `co_spawn` of capture_loop |
| WebSocketSession | role, `write_queue_`, `is_writing_`, stream state | do_run, handle_message, send_frame, do_write, close, destructor | `co_await` into the controller; posted handlers; weak pointers in `viewers_` |
| PlaybackController | open file, reader position, playing, paused, speed, one timer | load, start, pause, resume, stop, speed, read_next_frame | frame callback; timer handler |
| RecordController | open file, `is_recording_`, frame count, start time | start, stop, write_frame, destructor | called by the controller and by each broadcast |
| HttpSession, Server | one request, the acceptor, the references that keep the Server | accept, upgrade, list and delete recordings, cameras, files | the file system; makes WebSocketSessions; exceptions end the process |
| VideoSource, AsciiConverter | the device and its size; the character set | open, close, resize, capture, list; convert | called by StreamController, and by HttpSession for the list |
| VKTunnel | a detached thread, a log file, an external process | set-up, clean-up | the log file, `result` and a sleep; called by Server |
| network_utils, APIKeyManager, Logger | – | set-up | – |
| Web client (`web/app.js`, `web/recordings.js`) | streaming, recording, playing flags | the messages | WebSocket, fetch |

What is hard: a stop polls for the capture loop's end while others start, stop,
join and leave; destructors of sessions spawn coroutines of their own; a posted
handler and a coroutine share the write queue's flag; a timer's handler may be
queued already when its wait is cancelled; a process may die while it records,
and its file is then played back; answers are sent without a look at the outcome;
HTTP answers are written synchronously, and nothing catches their exceptions
between the handler and `main`; the tunnel's thread and the server agree on a
time only; the page closes whichever socket it has when its timer fires.
`PROJECT.json` lists these hazards line by line under "hazards", with the
properties that guard them.

What makes each component correct:

* **StreamController**: one capture loop at a time, with the camera open; a stop
  stops, and closes only what it should; a broadcast never outlives its
  controllers; only a stop removes viewers who are still there.
* **Sending side**: bounded queue, one writer, no lost wakeup, newest frames, in
  order.
* **PlaybackController**: no frame while paused or stopped, no leaked file or
  timer, an intact recording plays to its end.
* **RecordController**: footers are true, finished files are kept, a file is cut
  only by a crash or a failed write of its own, and everything on disk can be
  played.
* **Server and its connections**: no connection or descriptor is lost, whatever
  ends the process; the accept loop never breaks, a connection that waits is
  served.
* **VKTunnel**: the address taken was written to the log since the start; an
  exception leaves no tunnel behind unless something plays.
* **VideoSource, AsciiConverter**: `is_available()` follows the device, a broadcast
  keeps the device and the size that were asked for, each pixel gets its nearest
  character.
* **Page**: no socket is forgotten, and the end of a stream on the page is soon
  its end on the server.

## 2. The modules

| Module | What it is |
|---|---|
| `StreamService` | Abstract: what a user sees of the broadcast – idle, live, ending – and who watches |
| `StreamController` | The controller with the sessions that call it and the camera; refines `StreamService` |
| `StreamController_proofs` | Its theorems |
| `MCStreamController` | Symmetry for TLC |
| `LossyChannel` | Abstract: frames arrive at most once and in order, and one is skipped only for a queue's length of newer ones |
| `FrameQueue` | The sending side of a session; refines `LossyChannel` |
| `FrameQueue_proofs` | Its theorems |
| `Player` | Abstract: a recording is shown frame by frame, to the client that started it last |
| `Playback` | The one player, its clients and its timer, over intact and cut recordings; refines `Player` |
| `MCPlayback`, `Playback_proofs` | The recordings for TLC; the theorems |
| `Archive` | Abstract: what the recordings directory may hold, and who may change it |
| `Recording` | The recorder, the clocks, the directory, the death of the process; refines `Archive` |
| `Recording_proofs` | Its theorems |
| `VKTunnel` | The tunnel, its thread and its log, over several starts and kills of the server |
| `Server` | `VKTunnel` composed with the process, the accept loop, the HTTP session of each connection and the references to the Server |
| `Server_proofs` | Theorems of both |
| `AsciiConverter` | The lookup table, as functions on any number of characters |
| `Capture` | `AsciiConverter` composed with the camera, as the broadcast drives them |
| `Capture_proofs` | Theorems of both |
| `StreamClient` | The page's sockets and timers against a server reduced to what `StreamController` shows of it |
| `StreamClient_proofs` | Its theorems |

Names follow the source: the variables are the members without the trailing
underscore, the actions the functions, split where the code branches (for
instance `StopNothing` and `RequestStop` are the two outcomes of
`stop_streaming`'s first test).

### StreamController

`pc[s]` is where the coroutine of session `s` stands, `call[s]` the operation it
hops to, `role[s]` what `handle_message` made of it, `reply[s]` the last message
it was sent: a control message, or `"other"` once a frame was broadcast to it
(`Broadcast`). `LoopEntered` keeps a session from its next message while a capture
loop is on its way to the strand, which takes its handlers first come, first
served. `joining` and `viewers` count registrations (posted `add_viewer`
handlers, entries of `viewers_`): since the strand does not order what follows a
hop, what is pending is a count and not a sequence; only a session's own calls
keep their order. `loops` counts the capture loops at each suspension point, so
a second loop would show. The destructor of a session is two more positions,
`"dtor"` and `"dtorStopping"`. `write_frame` in the capture loop is left to
`Recording`, and what a playback reads to `Playback`: only
`playback_session_`, which keeps a session alive, is here.

### FrameQueue

Frames are numbered in the order of their `send_frame` calls; `posted` counts the
handlers that have run. `spawned` and `inflight` are do_write coroutines before
their first piece and within a write; both could exceed one if the code were
wrong. Two overlapping writes (only AUTH_FAILED, which does not use the queue,
can cause them) are undefined in Beast: a debug build asserts, which is the
choice `crashed'`.

### Playback

A recording is the timestamps of its frames and the way it ends. The kinds of
ending are those which a `RecordController` can leave: a footer, or a cut at any
point. `reader` is the stream, the count of frames shown and
`next_frame_time_`. `waiting` is a pending wait, `ready` the handlers of expired
waits which `cancel()` no longer reaches. `fatal` says that an exception has left
a timer handler: `ioc.run()` throws and `main` returns. In `Player` that is `Break`,
which needs a recording that was cut (`intact`) and shown to its last whole frame:
the refinement is what says that nothing else in a playback ends the server.

### Recording

Files are named after the second (`wall`), and `dir` is what is on disk. What is
flushed of the open file is any beginning of what was written, in units fine
enough to tell the kinds that `Playback` distinguishes. `steady` stamps frames;
`wall` may be set back. `linked` says whether DELETE has removed the name of the
open file (POSIX semantics: the recorder writes on), and `lost` is history: the
names of the files that a crash or a failed write has cut. `FilesPlayable` is the link
between the two modules: it states of the directory what `Playback` assumes in
`RecordingsAssumption`.

### VKTunnel and Server

Starts of the server are numbered, and a tunnel or an address in `vk_tunnel.log`
has the number of the start that launched it; processes and the log outlive the
server. `launcher` is the detached thread: nothing but the five seconds orders it
before the reading of `result` and the log, so `SetupEnds` may come before
`Launch`. `fresh` is history: what was written since the start, by its own tunnel
or by one that a predecessor has left running.

An action of `Server` is one handler of the one thread. `writing` is the
connection whose synchronous `http::write` holds that thread: while it is set no
other handler runs. Exceptions lead to `Die`: `run()` throws, `main` returns and
`~Server` runs unless something still holds the Server. What does is not written
down but derived: `Refs` says which object holds a `shared_ptr` to which (the
controller to its player and to the session in `playback_session_`, the player's
`frame_callback` to the controller, a session to the Server and the controller),
and the Server is retained when it lies on or behind a cycle of these
(`KeptByCycle`, `ServerRetained`), in which case the tunnel is not cleaned up.
`frame_callback` is never cleared, so the controller is retained by any playback
there has been, and the theorem says that the Server is not. An answer is only
whether it can block (`Long`) and whether the file system can make it throw
(`ThrowsOnDisk`: an error of the disk, or a name that is no file); `backlog` is the kernel's queue, where a connection may be reset
before it is accepted; `MaxOpen` is the limit of descriptors.

### AsciiConverter and Capture

The code computes `int(i / (255.0 / (n - 1)) + 0.5)`; in exact arithmetic this is
`(2 i (n - 1) + 255) \div 510`, and for one character, where the step is infinite,
0. The module says why doubles give the same. Capture
holds the device (`cap`) and what the object believes (`is_opened`,
`camera_index`, `resolution`), and lets devices come and go under a broadcast.
What a driver makes of a size or of a second opening is not the code's: the results
of `cap_.set` are ignored and `convert` scales whatever comes, so no size of the
hardware is modelled, and a listing may or may not find the device in use while a
broadcast may at any time get empty pictures or end. The broadcast itself is one
flag here.

### StreamClient

An action is a task of the browser or a message at the server. Sockets are
numbered as they are made; the handlers and timers use `this.ws`, which may be a
later one. `raced` is history: a start found a stop's timer or another start under
way, or a stop found the key or the connection still awaited. The server may lose
any reply (a full write queue), and has the promises of `StreamController`: a stop
ends the broadcast, and the loss of a controller's session does.

## 3. The runs

Every passing run explores its whole bounded state space.

| Run | Bounds | What it shows |
|---|---|---|
| `controller_safety` | 3 sessions, start and stop, 2 registrations each | one loop (`OneCaptureLoop`), camera open while streaming, given back after, no orphan broadcast, a confirmed stop has stopped, live viewers are kept and destroyed ones are not, CONFIG_APPLIED only for a broadcast that runs or is being stopped by another session, refinement of `StreamService` |
| `controller_live` | 2 sessions, all commands | a requested stop takes effect; a broadcast ends when its controllers are gone |
| `frame_queue` | queue of 3, 8 frames | the queue's invariants, the newest frame written whenever do_write has ended, refinement of `LossyChannel` (frames are dropped by overflow only, oldest first), and that a client is never left behind |
| `playback` | 2 clients, 3 starts, 2 queued handlers, recordings of 0, 1 and 3 frames in every condition | no leaked file or timer, no frame while paused, nothing stuck but through a cut file, refinement of `Player` (and so nothing fatal but through a cut file), every step of the player nearer to the end, an intact recording plays to its end |
| `recording` | 3 seconds, 2 frames | true footers, finished files kept, all files playable, refinement of `Archive` (a file is cut only by an accident of its own) |
| `server` | 2 starts, 3 connections, 2 descriptors | every connection accounted for; the address taken after a launch in time was written to the log since the start; no tunnel left behind by an exception while nothing plays, whatever has been played, but one launched late; whoever waits is accepted |
| `capture` | 2 devices, 2 sizes and the default, 0, 1, 2, 10 or 16 characters, 9 levels at the edges of their ranges | nearest characters; `is_available()` in step with the device, and a broadcast with the device and the size that were asked for |
| `stream_client` | 2 sockets, 2 pending timers | sockets are lost only by an overlap of start and stop; without one a broadcast that the page no longer shows has its end coming, and every stop ends it |

Why these bounds are enough: with three sessions two can stop while a third
starts or joins, and with two registrations a session can be in `viewers_` and on
the way there. A queue of 3 with 8 frames overflows more than twice while a write
is pending. Two queued timer handlers are one stale and one current. Three
seconds let a recording start in the second of a finished one, before and after
the clock is set back. Two starts are a killed server and its successor; three
connections with two descriptors let one wait while one holds the thread. The
levels are those where the rounding changes, for the numbers of characters that
are tried; the theorem has all. Two sockets are an old and a new one, and every
statement about the page is about such a pair. Symmetry is used in
`controller_safety` only, where no liveness is checked. Deadlock is checked in
every passing run but `stream_client`: when its sockets are used up and closed,
the page may really stop.

Four runs refute what a text of the repository says (`PROJECT.json`,
"findings"):

| Run | What the text says | What happens |
|---|---|---|
| `config_applied` | `app.js:167` "Stream started successfully" on CONFIG_APPLIED | sent during another controller's stop, when nothing starts |
| `stop_answer` | `app.js:210` waits for the server's confirmation | a restart between two polls leaves the stopper polling |
| `waiting_viewer` | `stream.html:107` "Stream is inactive. Waiting..." | the end of a stop drops a viewer who was told so, during that stop or before a broadcast that sent it nothing; it gets no later broadcast |
| `playback_cut` | `playback_controller.cpp:175` "End of file" and a stop | a file cut within a frame is never seen to end |

Seen while modelling, and not given a run because each shows in a single step
of the code:

* RECORDING_STARTED is sent when the file did not open (`app.js:176` takes it for
  success), and PLAYBACK_STARTED when it did not load.
* The list of recordings reads metadata before the line `frames:`
  (`http_session.cpp:249-275`), but `end_time` and `frame_count` are written after
  the frames: no listing has them.
* The wait after a frame is the time since the frame before it, under the comment
  "Calculate delay until next frame" (`playback_controller.cpp:200`).
* `test_video_source.cpp:58` expects `is_available()` of a `VideoSource` that has
  opened nothing, where the code says false (`video_source.hpp:29`; the test is
  skipped without a camera). `SourceInStep` speaks of the time from the first
  `open` on, so it takes no side.
* `/test_tunnel` and `/tunnel_status` answer from the address that was found at the
  start, whether or not the tunnel still runs.

**Fairness.** The io_context runs whatever is ready, so posted handlers, spawned
coroutines and expired timers have weak fairness; timers expire. A write to a
client ends, because the stream has Beast's suggested timeouts. No client is
assumed to do anything, and no fairness is put on messages, hang-ups, pauses or
starts. In `Server` only `Accept` is fair, and strongly: an accept that fails for
want of descriptors is retried at once, so it is disabled and enabled again as
sessions end; `NewcomersServed` takes as its premise that the thread is free with
a descriptor left again and again, since a client that does not read may hold it
for ever. In `StreamClient` the page's timers fire, `close()` is answered, and the
server handles what it is sent and notices ended connections; the user, the key
and the network owe nothing.

Each property of a run has a mutant in `PROJECT.json`: a plausible bug in one
definition that makes TLC find the property violated.

## 4. The proofs

All theorems are `Spec => ...` for every value of the constants under the named
assumptions of the modules, and use no fairness. Where a module has one, `IInv` is
the inductive invariant.

* **StreamController**: the safety invariants are not inductive alone. `IInv`
  adds `CallsMatch` (a session's position fits the call it makes) and
  `EndingHasStopper` (a broadcast that was asked to stop has somebody polling
  for its end); without these a capture loop could be thought to end with nobody
  to close the camera. From it follow `TypeCorrect`, `OneLoop`,
  `BroadcastHasCamera`, `NoOrphan`, `CameraGivenBack`, the action properties
  `StopConfirmed` and `ViewersKept`, and `Refinement` of `StreamService`. On top of
  it, each with an induction of its own: nothing names a destroyed session
  (`NothingHoldsExpired`), only controllers stop (`StopNeedsController`), and a
  destructor leaves no dead viewer (`DeadViewersAreRemoved`).
  `ConfigAppliedIsExplained` bounds the finding of `config_applied`: the answer may
  be hollow only while another session is in its stop.
* **FrameQueue**: `IInv` adds `QuietBeforeOpen`, `InflightIsNext` (what is being
  written is newer than all that was) and `GapsMeanFull`: between two frames that
  follow each other on their way to the client one is missing only if a queue's
  length of newer ones was sent since. That last one gives `ChannelRefinement` its
  strength: overflow is the only reason to skip a frame. `BacklogIsNewest` is proved
  elementwise, by lemmas on `Tail` and `Append`.
* **Playback**: `IInv` adds `ReaderSound` (how far a reader has come and which
  files can fail it) and `PauseSound`. `read_next_frame` is one lemma
  (`ReadKeeps`) for the three operations that call it. That a delay is never
  negative rests on the order of timestamps, an assumption on recordings which
  `AlwaysPlayable` proves of what the recorder writes. `Refinement` takes it to
  `Player`: a handler that comes late is a stutter or shows the next frame, never
  the same frame again.
* **Recording**: `IInv` adds `DirSound` and `OpenSound`, what a file and the open
  stream hold. The lemmas `BeginningSound`, `FinishedSound` and `AppendInOrder`
  say what becomes of one file. `Refinement` reads each file back to the
  recording it is a beginning of; a flush is `Save`, a crash `GiveUp`, and what
  the recorder writes to a file whose name is gone is no step at all.
* **Server and VKTunnel**: `NoConnectionIsLost` counts: `ConnectionsAccounted`
  relates the clients that the kernel keeps, the descriptors in use and the
  sessions alive, also after the run, when only the session of the player may
  be left. It needs the cardinality of finite sets, and the cases of each handler
  in which a session lets go of its connection. `LoopNeverBreaks` says that an
  accept is pending exactly while the server serves.
  `UrlIsNotStale` rests on `LogIsFresh`: once the command has run in time the log
  holds only what was written since the start, because the shell has truncated it.
  That may be the address of a predecessor's tunnel, if one still runs and comes up
  again. `NoTunnelLeftBehind` rests on `OnlyPlaybackRetains`: on the way back along
  any cycle of `shared_ptr`s that would hold the Server there is a session, and
  before it `playback_session_`; sessions of clients and `frame_callback_` alone
  close no cycle with the Server.
* **AsciiConverter and Capture**: `LutIsNearest`, `LutIsMonotone` and `LutEnds` are
  about integer division, for any number of characters; `NearestIsShown` takes
  them to what is sent, by an invariant that says what was sent came from the
  table (`SentFromLut`). `SourceStaysInStep` needs `FlagFollows`: the flag follows
  the device from the start, which its statement leaves open.
* **StreamClient**: `LeakNeedsRace` is not inductive. `Apart` adds, while starts and
  stops are kept apart, that a stop on its way to or from an open socket has its
  timer pending (`StopTimed`), and that a start that waits for the key is the only
  thing under way (`FetchAlone`); `Unopened` says that nothing is under way on a
  socket that has not opened. From it follows `OnlyRacesLeak`, for any number of
  sockets and timers.

**What is proved of liveness.** Liveness under fairness is out of this prover's
reach, so `StopTakesEffect`, `ControllerLossStopsStream`, `FramesKeepFlowing`,
`IntactPlaybackEnds`, `NewcomersServed` and `StopEndsBroadcast` are only
model-checked. What such an argument rests on besides fairness is safety, and
that is proved where it says something: either that work left over always has
somebody who will do it, or that each step of the work brings its end nearer.

| Liveness property | Safety half, proved | It says |
|---|---|---|
| `StopTakesEffect` | `EndIsNear` | once asked to end, each step of the capture loop is nearer to the end |
| `ControllerLossStopsStream` | `NoOrphan` | a broadcast has a controller whose destructor is still to come or stops it |
| `FramesKeepFlowing` | `WakeupsAreKept`, `IdleIsCaughtUp` | a queued frame has a writer, and when none is left the newest frame has been written |
| `IntactPlaybackEnds` | `PlaybackIsFinite`, `StuckMeansCut` | each step leaves fewer frames, and only a cut file leaves nothing to wake the player |
| `NewcomersServed` | `LoopNeverBreaks`, `NoConnectionIsLost` | an accept is always pending, and who was not accepted is still waiting |
| `StopEndsBroadcast` | `BroadcastEndIsDue` | a broadcast that the page no longer shows has its controller's socket closing, or a timer that will close it |

`ENABLED` (that the step in question can be taken) is likewise left to TLC.
The types of `StreamController`, `FrameQueue`, `Server` and `StreamClient`,
`QueueBounded` and `CutMeansLost` are proved and not run separately.

## 5. Not modelled

* `network_utils` (asks the system for an address to log), `Logger`, and
  `APIKeyManager` (one random string at start; a right or wrong key is a choice of
  `StreamController`): they keep no state that a step of the program can change.
* Library code: TLS, HTTP parsing, the scaling of images, the reading of static
  files. Floating point is exact arithmetic in `AsciiConverter`.
* The page's record button and list of cameras, and the play and pause state of
  `web/recordings.js`: they mirror answers that the models already have.
* Files in the recordings directory which no recorder wrote. On Windows DELETE of
  an open file fails instead of unlinking it.
* A frame rate of zero or below, which the page does not send.

What would come next: the player reading the file that is being written
(`Recording` with `Playback`), `StreamController` itself as the server of
`StreamClient`, and the proof that its destructors always run to their end.
