SPECIFICATION Spec
CONSTANTS
    Controllers = {c1}
    MaxClock = 2
    MaxFrames = 2
INVARIANTS
    TypeOK
    FooterIsTrue
    FilesPlayable
PROPERTIES
    FinishedKept
    ImplementsArchive
