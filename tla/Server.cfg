SPECIFICATION FairSpec
CONSTANTS
    MaxStarts = 2
    Conns = {c1, c2, c3}
    NoConn = NoConn
    MaxOpen = 2
INVARIANTS
    ConnectionsAccounted
    
PROPERTIES
    UrlNotStale
    NewcomersServed
