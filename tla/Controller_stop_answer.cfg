SPECIFICATION FairSpec
CONSTANTS
    Sessions = {s1, s2}
    Nobody = Nobody
    Commands = {"start", "stop"}
    MaxRegistrations = 1
PROPERTY
    StopIsAnswered
