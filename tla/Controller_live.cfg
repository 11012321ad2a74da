SPECIFICATION FairSpec
CONSTANTS
    Sessions = {s1, s2}
    Nobody = Nobody
    Commands = {"start", "stop", "playback_start", "playback_stop"}
    MaxRegistrations = 2
PROPERTIES
    StopTakesEffect
    ControllerLossStopsStream
