SPECIFICATION FairSpec
CONSTANTS
    Clients = {c1, c2}
    Nobody = Nobody
    Recordings <- MCCutRecordings
    SpeedRequests = {10}
    MaxStarts = 3
    MaxReady = 2
PROPERTY
    PlaybackEnds
