SPECIFICATION Spec
CONSTANTS
    MaxSockets = 2
    MaxTimers = 2
CHECK_DEADLOCK FALSE
INVARIANTS
    LeakNeedsRace
    EndIsDue
PROPERTIES
    StopEndsBroadcast
