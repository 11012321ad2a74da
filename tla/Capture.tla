------------------------------- MODULE Capture -------------------------------
(***************************************************************************)
(* The path of a picture from the camera to the viewers: VideoSource and   *)
(* AsciiConverter, as StreamController drives them (video_source.cpp,      *)
(* ascii_converter.cpp, and the synchronous parts of start_streaming,      *)
(* capture_loop and cleanup).                                              *)
(*                                                                         *)
(* A broadcast is only a flag here; StreamController.tla shows that there  *)
(* is one at a time and that no cleanup comes within it.  A resolution is  *)
(* a size in characters; the device is asked for twice as many pixels each *)
(* way.  What it makes of that is its own affair: the results of cap_.set  *)
(* are ignored, and convert scales a picture of any size.  A picture is of *)
(* one grey level, since convert treats each pixel alike.                  *)
(***************************************************************************)
EXTENDS AsciiConverter

CONSTANTS
    Devices,       \* indexes that may have a camera
    NoDevice,      \* index -1
    Sizes,         \* frame sizes that clients ask for, in characters
    DefaultSize,   \* width_ and height_ before the first set_resolution
    Counts,        \* how many characters set_ascii_chars may be given
    Levels         \* the grey levels of pictures

\* "@%#*+=-:. "
DefaultCount == 10

ASSUME DeviceAssumption == NoDevice \notin Devices
ASSUME CountsAssumption == Counts \subseteq Nat /\ DefaultCount \in Counts
ASSUME LevelsAssumption == Levels \subseteq Greys

VARIABLES
    attached,       \* the devices that are plugged in
    cap,            \* the device that cap_ has open, or NoDevice
    is_opened,      \* is_opened_, what is_available() returns
    camera_index,   \* camera_index_
    resolution,     \* width_ and height_
    frame_size,     \* StreamController's frame_width_ and frame_height_
    count,          \* the length of ascii_chars_
    is_streaming,   \* a capture loop runs
    sent,           \* the last frame that was broadcast
    cameras         \* the last answer to /cameras

vars == <<attached, cap, is_opened, camera_index, resolution, frame_size, count,
          is_streaming, sent, cameras>>

source == <<cap, is_opened, camera_index, resolution>>

NoChar == -1     \* the text is "CONFIG ERROR"
NoFrame == [size |-> DefaultSize, grey |-> 0, count |-> 0, char |-> NoChar]

TypeOK ==
    /\ attached \subseteq Devices
    /\ cap \in Devices \union {NoDevice}
    /\ is_opened \in BOOLEAN
    /\ camera_index \in Devices \union {NoDevice}
    /\ resolution \in Sizes \union {DefaultSize}
    /\ frame_size \in Sizes \union {DefaultSize}
    /\ count \in Counts
    /\ is_streaming \in BOOLEAN
    /\ sent.size \in Sizes \union {DefaultSize}
    /\ sent.grey \in Greys
    /\ sent.count \in Counts \union {0}
    /\ IF sent.count = 0 THEN sent.char = NoChar ELSE sent.char \in 0..sent.count - 1
    /\ cameras \subseteq Devices

Init ==
    /\ attached \in SUBSET Devices
    /\ cap = NoDevice
    /\ is_opened = FALSE
    /\ camera_index = NoDevice
    /\ resolution = DefaultSize
    /\ frame_size = DefaultSize
    /\ count = DefaultCount
    /\ is_streaming = FALSE
    /\ sent = NoFrame
    /\ cameras = {}

-----------------------------------------------------------------------------
(* The world *)

Plug(d) ==
    /\ attached' = attached \union {d}
    /\ UNCHANGED <<source, frame_size, count, is_streaming, sent, cameras>>

\* cap_ does not notice: it goes on being open and gives empty frames.
Unplug(d) ==
    /\ attached' = attached \ {d}
    /\ UNCHANGED <<source, frame_size, count, is_streaming, sent, cameras>>

-----------------------------------------------------------------------------
(* VideoSource *)

\* cap_.open releases what it held, and the flag is left to close().
KeepOpen == UNCHANGED is_opened

\* close, as open calls it first; it does nothing when nothing is open.
Close == is_opened' = (is_opened /\ cap = NoDevice)

\* A device opens when it is there; one that another program uses does not.
Opens(d) == d \in attached

\* open: the exception leaves the source closed, with the new index.
OpenThrows(d) ==
    /\ Close
    /\ cap' = NoDevice
    /\ camera_index' = d
    /\ UNCHANGED resolution

\* open; it asks the device for the old resolution, which set_resolution follows.
Open(d) ==
    /\ Opens(d)
    /\ cap' = d
    /\ is_opened' = TRUE
    /\ camera_index' = d

\* The device may keep its mode or round the size.
SetResolution(size) == resolution' = size

-----------------------------------------------------------------------------
(* StreamController, on VideoSource and AsciiConverter *)

\* start_streaming: the frame size is stored before the device is opened.
Start(d, size) ==
    /\ ~is_streaming
    /\ Open(d) /\ SetResolution(size)
    /\ frame_size' = size
    /\ count' = DefaultCount
    /\ is_streaming' = TRUE
    /\ UNCHANGED <<attached, sent, cameras>>

\* The device does not open; or the text of the size does not parse (the width may
\* be stored by then) and the device is not touched.
StartThrows(d, size) ==
    /\ ~is_streaming
    /\ \/ OpenThrows(d) /\ frame_size' = size
       \/ UNCHANGED source /\ frame_size' \in {frame_size, size}
    /\ UNCHANGED <<attached, count, is_streaming, sent, cameras>>

\* A stop, with its cleanup.
Stop ==
    /\ is_streaming
    /\ Close
    /\ cap' = NoDevice
    /\ is_streaming' = FALSE
    /\ UNCHANGED <<attached, camera_index, resolution, frame_size, count, sent,
                   cameras>>

\* An exception in the capture loop: the device stays open.
Abort ==
    /\ is_streaming
    /\ is_streaming' = FALSE
    /\ UNCHANGED <<attached, source, frame_size, count, sent, cameras>>

\* set_ascii_chars, which is public; start_streaming gives it ten.
SetAsciiChars(n) ==
    /\ count' = n
    /\ UNCHANGED <<attached, source, frame_size, is_streaming, sent, cameras>>

\* convert, for a frame that is not empty: it is scaled to frame_size.
Convert(grey) ==
    [size |-> frame_size, grey |-> grey, count |-> count,
     char |-> IF count = 0 THEN NoChar ELSE Lut(count)[grey]]

\* One round of the capture loop.
CaptureFrame(grey) ==
    /\ is_streaming
    /\ cap \in attached
    /\ sent' = Convert(grey)
    /\ UNCHANGED <<attached, source, frame_size, count, is_streaming, cameras>>

\* The device gives no picture: nothing is converted or sent, and the loop goes
\* on.
CaptureEmpty ==
    /\ is_streaming
    /\ UNCHANGED vars

\* list_cameras opens each index with a VideoCapture of its own, the device in use
\* included: the driver may refuse a second opening, share the device, or disturb
\* the broadcast, which then has empty pictures (CaptureEmpty) or ends (Abort).
ListCameras ==
    /\ cameras' \in SUBSET attached
    /\ UNCHANGED <<attached, source, frame_size, count, is_streaming, sent>>

Next ==
    \/ \E d \in Devices : Plug(d) \/ Unplug(d)
    \/ \E d \in Devices, size \in Sizes : Start(d, size) \/ StartThrows(d, size)
    \/ \E n \in Counts : SetAsciiChars(n)
    \/ \E grey \in Levels : CaptureFrame(grey)
    \/ Stop \/ Abort \/ CaptureEmpty \/ ListCameras

Spec == Init /\ [][Next]_vars

-----------------------------------------------------------------------------
\* Each picture is shown with the character whose level is nearest to its own
\* (the rounding of ascii_converter.cpp:55), whatever set_ascii_chars was given.
NearestCharacter ==
    \A k \in 0..sent.count - 1 :
        Distance(sent.count, sent.grey, sent.char) <= Distance(sent.count, sent.grey, k)

\* Once a device has been asked for, is_available() tells whether one is open,
\* also after an open that threw and however the device was changed.
AvailableMeansOpen == camera_index # NoDevice => (is_opened <=> cap # NoDevice)

\* A broadcast has open the device that was asked for, and the frame size that its
\* pictures are scaled to is the resolution that the source was told: a start that
\* fails or finds a broadcast changes neither under it.
BroadcastHasItsSource ==
    is_streaming => cap # NoDevice /\ cap = camera_index /\ resolution = frame_size

SourceInStep == AvailableMeansOpen /\ BroadcastHasItsSource
=============================================================================
