SPECIFICATION FairSpec
CONSTANTS
    MaxQueueSize = 3
    MaxFrames = 8
INVARIANTS
    OneWriter
    NoLostWakeup
    BacklogIsNewest
    CaughtUpWhenIdle
PROPERTIES
    IsChannel
    FramesKeepFlowing
