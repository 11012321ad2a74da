---------------------------- MODULE Capture_proofs ----------------------------
(***************************************************************************)
(* The lookup table of AsciiConverter for every number of characters, and  *)
(* the invariants of Capture.                                              *)
(***************************************************************************)
EXTENDS Capture, TLAPS

-----------------------------------------------------------------------------
(* The lookup table *)

\* The division by 510 in terms of linear facts: k is the rounded quotient.
LEMMA IndexBounds ==
    ASSUME NEW n \in Nat \ {0}, NEW i \in Greys
    PROVE  /\ Index(n, i) \in Int
           /\ i * (n - 1) \in Int
           /\ 510 * Index(n, i) <= 2 * (i * (n - 1)) + 255
           /\ 2 * (i * (n - 1)) + 255 < 510 * Index(n, i) + 510
<1> DEFINE p == i * (n - 1)
<1>1. p \in Int
  BY DEF Greys
<1>2. 2 * i * (n - 1) = 2 * p
  BY DEF Greys
<1>3. Index(n, i) = (2 * p + 255) \div 510
  BY <1>2 DEF Index
<1> HIDE DEF p
<1>4. /\ (2 * p + 255) \div 510 \in Int
      /\ 510 * ((2 * p + 255) \div 510) <= 2 * p + 255
      /\ 2 * p + 255 < 510 * ((2 * p + 255) \div 510) + 510
  BY <1>1
<1> QED
  BY <1>1, <1>3, <1>4 DEF p

\* A grey level takes its share of the n - 1 steps, and no more than all.
LEMMA ShareBounds ==
    ASSUME NEW n \in Nat \ {0}, NEW i \in Greys
    PROVE  0 <= i * (n - 1) /\ i * (n - 1) <= 255 * (n - 1)
<1>1. n - 1 \in Nat /\ i \in 0..255
  BY DEF Greys
<1> QED
  BY <1>1

\* The clamp in ascii_converter.cpp:56 never has to act.
LEMMA ClampIdle ==
    ASSUME NEW n \in Nat \ {0}, NEW i \in Greys
    PROVE  Index(n, i) \in 0..n - 1 /\ Lut(n)[i] = Index(n, i)
<1>1. /\ Index(n, i) \in Int
      /\ i * (n - 1) \in Int
      /\ 510 * Index(n, i) <= 2 * (i * (n - 1)) + 255
      /\ 2 * (i * (n - 1)) + 255 < 510 * Index(n, i) + 510
  BY IndexBounds
<1>2. 0 <= i * (n - 1) /\ i * (n - 1) <= 255 * (n - 1)
  BY ShareBounds
<1> DEFINE p == i * (n - 1)
           k == Index(n, i)
<1> HIDE DEF p, k
<1>3. k >= 0 /\ k <= n - 1
  <2>1. /\ k \in Int /\ p \in Int
        /\ 510 * k <= 2 * p + 255 /\ 2 * p + 255 < 510 * k + 510
        /\ 0 <= p /\ p <= 255 * (n - 1)
    BY <1>1, <1>2 DEF p, k
  <2> QED
    BY <2>1
<1>4. Index(n, i) \in 0..n - 1
  BY <1>1, <1>3 DEF k
<1> QED
  BY <1>4 DEF Lut, Clamp

\* For every set of characters and every grey level the table holds the character
\* whose level is nearest (ascii_converter.cpp:53-57).
THEOREM LutIsNearest ==
    ASSUME NEW n \in Nat \ {0}, NEW i \in Greys, NEW j \in 0..n - 1
    PROVE  Distance(n, i, Lut(n)[i]) <= Distance(n, i, j)
<1> DEFINE p == i * (n - 1)
           k == Index(n, i)
<1>1. /\ p \in Int /\ k \in Int
      /\ 510 * k <= 2 * p + 255 /\ 2 * p + 255 < 510 * k + 510
  BY IndexBounds
<1>2. Lut(n)[i] = k
  BY ClampIdle
<1>3. /\ Distance(n, i, k) = IF 255 * k >= p THEN 255 * k - p ELSE p - 255 * k
      /\ Distance(n, i, j) = IF 255 * j >= p THEN 255 * j - p ELSE p - 255 * j
  BY DEF Distance
<1> HIDE DEF p, k
<1>4. j \in Int
  OBVIOUS
<1>5. CASE j = k
  BY <1>2, <1>3, <1>5, <1>1
<1>6. CASE j > k
  BY <1>1, <1>2, <1>3, <1>4, <1>6
<1>7. CASE j < k
  BY <1>1, <1>2, <1>3, <1>4, <1>7
<1> QED
  BY <1>1, <1>4, <1>5, <1>6, <1>7

\* A lighter pixel never gets a darker character.
THEOREM LutIsMonotone ==
    ASSUME NEW n \in Nat \ {0}, NEW i \in Greys, NEW j \in Greys, i <= j
    PROVE  Lut(n)[i] <= Lut(n)[j]
<1>1. /\ Index(n, i) \in Int /\ i * (n - 1) \in Int
      /\ 510 * Index(n, i) <= 2 * (i * (n - 1)) + 255
  BY IndexBounds
<1>2. /\ Index(n, j) \in Int /\ j * (n - 1) \in Int
      /\ 2 * (j * (n - 1)) + 255 < 510 * Index(n, j) + 510
  BY IndexBounds
<1>3. i * (n - 1) <= j * (n - 1)
  <2>1. n - 1 \in Nat /\ i \in Int /\ j \in Int
    BY DEF Greys
  <2> QED
    BY <2>1
<1>4. Index(n, i) <= Index(n, j)
  BY <1>1, <1>2, <1>3
<1> QED
  BY <1>4, ClampIdle

\* Black is the first character and white the last.
THEOREM LutEnds ==
    ASSUME NEW n \in Nat \ {0}
    PROVE  Lut(n)[0] = 0 /\ Lut(n)[255] = n - 1
<1>1. 0 \in Greys /\ 255 \in Greys
  BY DEF Greys
<1>2. Index(n, 0) = 0
  BY DEF Index
<1>3. Index(n, 255) = n - 1
  BY DEF Index
<1> QED
  BY <1>1, <1>2, <1>3, ClampIdle

-----------------------------------------------------------------------------
(* The state machine *)

\* What is on the screen came from the table.
SentFromLut ==
    /\ sent.count \in Nat
    /\ sent.grey \in Greys
    /\ sent.count > 0 => sent.char = Lut(sent.count)[sent.grey]


LEMMA ConvertTyped ==
    ASSUME NEW grey \in Levels, TypeOK
    PROVE  /\ Convert(grey).size \in Sizes \union {DefaultSize}
           /\ Convert(grey).grey \in Greys
           /\ Convert(grey).count = count
           /\ IF count = 0 THEN Convert(grey).char = NoChar
                           ELSE Convert(grey).char \in 0..count - 1
           /\ count > 0 => Convert(grey).char = Lut(count)[grey]
           /\ Convert(grey).grey = grey
<1>1. count \in Nat /\ grey \in Greys /\ frame_size \in Sizes \union {DefaultSize}
  BY CountsAssumption, LevelsAssumption DEF TypeOK
<1>2. count # 0 => Lut(count)[grey] \in 0..count - 1
  BY <1>1, ClampIdle
<1> QED
  BY <1>1, <1>2 DEF Convert

\* Only a capture changes the last frame.
SentType ==
    /\ sent.size \in Sizes \union {DefaultSize}
    /\ sent.grey \in Greys
    /\ sent.count \in Counts \union {0}
    /\ IF sent.count = 0 THEN sent.char = NoChar ELSE sent.char \in 0..sent.count - 1

SourceType ==
    /\ attached \subseteq Devices
    /\ cap \in Devices \union {NoDevice}
    /\ is_opened \in BOOLEAN
    /\ camera_index \in Devices \union {NoDevice}
    /\ resolution \in Sizes \union {DefaultSize}
    /\ frame_size \in Sizes \union {DefaultSize}
    /\ count \in Counts
    /\ is_streaming \in BOOLEAN
    /\ cameras \subseteq Devices

LEMMA TypeParts == TypeOK <=> SourceType /\ SentType
BY DEF TypeOK, SourceType, SentType

LEMMA SourceTypeStep ==
    ASSUME SourceType, [Next]_vars
    PROVE  SourceType'
<1> USE CountsAssumption DEF SourceType, source
<1>1. ASSUME NEW d \in Devices, Plug(d) \/ Unplug(d)
      PROVE  SourceType'
  BY <1>1 DEF Plug, Unplug
<1>2. ASSUME NEW d \in Devices, NEW size \in Sizes, Start(d, size)
      PROVE  SourceType'
  BY <1>2 DEF Start, Open, SetResolution
<1>3. ASSUME NEW d \in Devices, NEW size \in Sizes, StartThrows(d, size)
      PROVE  SourceType'
  BY <1>3 DEF StartThrows, OpenThrows, Close
<1>4. ASSUME NEW n \in Counts, SetAsciiChars(n)
      PROVE  SourceType'
  BY <1>4 DEF SetAsciiChars
<1>5. ASSUME NEW grey \in Levels, CaptureFrame(grey)
      PROVE  SourceType'
  BY <1>5 DEF CaptureFrame
<1>6. CASE Stop \/ Abort
  BY <1>6 DEF Stop, Abort, Close
<1>7. CASE CaptureEmpty \/ UNCHANGED vars
  BY <1>7 DEF CaptureEmpty, vars
<1>8. CASE ListCameras
  BY <1>8 DEF ListCameras
<1> QED
  BY <1>1, <1>2, <1>3, <1>4, <1>5, <1>6, <1>7, <1>8 DEF Next

LEMMA SentStep ==
    ASSUME [Next]_vars
    PROVE  sent' = sent \/ \E grey \in Levels : sent' = Convert(grey)
BY DEF Next, vars, Plug, Unplug, Start, StartThrows, SetAsciiChars, CaptureFrame,
   Stop, Abort, CaptureEmpty, ListCameras

\* The flag is down as well before the first open.
FlagFollows == is_opened <=> cap # NoDevice

IInv == TypeOK /\ SentFromLut /\ FlagFollows /\ BroadcastHasItsSource

LEMMA InvInit == Init => IInv
<1> SUFFICES ASSUME Init
             PROVE  IInv
  OBVIOUS
<1>1. SourceType
  BY CountsAssumption DEF Init, SourceType
<1>2. SentType /\ SentFromLut
  BY DEF Init, NoFrame, SentType, SentFromLut, Greys
<1>3. FlagFollows /\ BroadcastHasItsSource
  BY DEF Init, FlagFollows, BroadcastHasItsSource
<1> QED
  BY <1>1, <1>2, <1>3, TypeParts DEF IInv

LEMMA SentInv ==
    ASSUME TypeOK, SentFromLut, [Next]_vars
    PROVE  SentType' /\ SentFromLut'
<1>1. CASE sent' = sent
  BY <1>1, TypeParts DEF SentType, SentFromLut
<1>2. CASE \E grey \in Levels : sent' = Convert(grey)
  <2> PICK grey \in Levels : sent' = Convert(grey)
    BY <1>2
  <2>1. count \in Counts /\ count \in Nat
    BY CountsAssumption DEF TypeOK
  <2> QED
    BY <2>1, ConvertTyped DEF SentType, SentFromLut
<1> QED
  BY <1>1, <1>2, SentStep

LEMMA SourceStep ==
    ASSUME TypeOK, FlagFollows, BroadcastHasItsSource, [Next]_vars
    PROVE  FlagFollows' /\ BroadcastHasItsSource'
<1> USE DEF FlagFollows, BroadcastHasItsSource, source
<1>1. ASSUME NEW d \in Devices, NEW size \in Sizes, Start(d, size)
      PROVE  FlagFollows' /\ BroadcastHasItsSource'
  BY <1>1, DeviceAssumption DEF Start, Open, SetResolution
<1>2. ASSUME NEW d \in Devices, NEW size \in Sizes, StartThrows(d, size)
      PROVE  FlagFollows' /\ BroadcastHasItsSource'
  <2>1. is_opened' <=> cap' # NoDevice
    BY <1>2 DEF StartThrows, OpenThrows, Close, TypeOK
  <2>2. ~is_streaming'
    BY <1>2 DEF StartThrows
  <2> QED
    BY <2>1, <2>2
<1>3. CASE Stop \/ Abort
  BY <1>3 DEF Stop, Abort, Close
<1>4. CASE UNCHANGED <<source, frame_size, is_streaming>>
  BY <1>4
<1>5. CASE \E d \in Devices : Plug(d) \/ Unplug(d)
  BY <1>4, <1>5 DEF Plug, Unplug
<1>6. CASE \E n \in Counts : SetAsciiChars(n)
  BY <1>4, <1>6 DEF SetAsciiChars
<1>7. CASE \E grey \in Levels : CaptureFrame(grey)
  BY <1>4, <1>7 DEF CaptureFrame
<1>8. CASE CaptureEmpty \/ ListCameras \/ UNCHANGED vars
  BY <1>4, <1>8 DEF CaptureEmpty, ListCameras, vars
<1> QED
  BY <1>1, <1>2, <1>3, <1>5, <1>6, <1>7, <1>8 DEF Next

LEMMA InvStep == IInv /\ [Next]_vars => IInv'
<1> SUFFICES ASSUME IInv, [Next]_vars
             PROVE  IInv'
  OBVIOUS
<1>1. SourceType'
  BY SourceTypeStep, TypeParts DEF IInv
<1>2. SentType' /\ SentFromLut'
  BY SentInv DEF IInv
<1>3. TypeOK'
  BY <1>1, <1>2 DEF TypeOK, SourceType, SentType
<1> QED
  BY <1>2, <1>3, SourceStep DEF IInv

\* Every variable keeps its type; the character sent is one of those set.
THEOREM TypeCorrect == Spec => []TypeOK
<1>1. IInv => TypeOK
  BY DEF IInv
<1> QED
  BY <1>1, InvInit, InvStep, PTL DEF Spec

\* The viewers see the nearest character (ascii_converter.cpp:55).
THEOREM NearestIsShown == Spec => []NearestCharacter
<1>1. IInv => NearestCharacter
  <2> SUFFICES ASSUME IInv, NEW k \in 0..sent.count - 1
               PROVE  Distance(sent.count, sent.grey, sent.char)
                          <= Distance(sent.count, sent.grey, k)
    BY DEF NearestCharacter
  <2>1. sent.count \in Nat \ {0} /\ sent.grey \in Greys
    BY DEF IInv, SentFromLut
  <2>2. sent.char = Lut(sent.count)[sent.grey]
    BY <2>1 DEF IInv, SentFromLut
  <2> QED
    BY <2>1, <2>2, LutIsNearest
<1> QED
  BY <1>1, InvInit, InvStep, PTL DEF Spec

\* After the first open is_available() is true exactly while a device is open, and
\* a broadcast has the device and the size that were asked for, whatever starts
\* fail, cameras are unplugged or listed (video_source.cpp:66-105).
THEOREM SourceStaysInStep == Spec => []SourceInStep
<1>1. IInv => SourceInStep
  BY DEF IInv, FlagFollows, SourceInStep, AvailableMeansOpen
<1> QED
  BY <1>1, InvInit, InvStep, PTL DEF Spec
=============================================================================
