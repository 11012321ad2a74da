SPECIFICATION Spec
CONSTANTS
    Sessions = {s1, s2, s3}
    Nobody = Nobody
    Commands = {"start", "stop"}
    MaxRegistrations = 2
SYMMETRY SessionSymmetry
INVARIANTS
    OneCaptureLoop
    StreamingHasCamera
    NoOrphanStream
    IdleCameraReleased
    NoDeadViewers
PROPERTIES
    StopConfirmedMeansStopped
    LiveViewerKept
    ConfigAppliedOrStopping
    ImplementsService
