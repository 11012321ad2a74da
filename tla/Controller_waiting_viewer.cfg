SPECIFICATION Spec
CONSTANTS
    Sessions = {s1, s2}
    Nobody = Nobody
    Commands = {"start", "stop"}
    MaxRegistrations = 1
INVARIANT
    WaitingViewerStaysListed
