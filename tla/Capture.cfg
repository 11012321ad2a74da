SPECIFICATION Spec
CONSTANTS
    Devices = {d1, d2}
    NoDevice = NoDevice
    Sizes = {small, large}
    DefaultSize = standard
    Counts = {0, 1, 2, 10, 16}
    Levels = {0, 14, 15, 127, 128, 143, 191, 241, 255}
INVARIANTS
    TypeOK
    NearestCharacter
    SourceInStep
