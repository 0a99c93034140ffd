SPECIFICATION FairSpec
CONSTANTS
    ByteBits = 4
    Programs <- MCPrograms
    Vectors <- MCVectors
    PortIn <- MCPortIn
    MaxCalls = 2
INVARIANTS
    AccessesInBlock
    FlagsDecide
    
    RepeatsRight
    CallBalanced
PROPERTIES
    CallEnds
