SPECIFICATION FairSpec
CONSTANTS
    Clients = {c1, c2}
    Nobody = Nobody
    Recordings <- MCRecordings
    SpeedRequests = {0, 10, 200}
    MaxStarts = 3
    MaxReady = 2
INVARIANTS
    TypeOK
    OpenWhilePlaying
    TimerOnlyWhileRunning
    OnlyCutFilesGetStuck
PROPERTIES
    QuietWhilePaused
    ImplementsPlayer
    PlaybackAdvances
    IntactPlaybackEnds
