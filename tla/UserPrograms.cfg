\* Enough frames for all pages of all threads.
SPECIFICATION Spec
CONSTANTS
    Parts = {"paging", "cpu"}
    NumThreads = 3
    NumPages = 3
    NumPhysPages = 9
    TLBSize = 2
    Programs <- MCPrograms
    Builds <- MCBuilds
    Pauses <- MCPauses
    MinSlice = 6
    MaxEarly = 1
    ByteBits = 3
    R31 = 6
    Data <- MCData
    PageSize = 16
    Loads <- MCLoads
INVARIANTS ReadsSeeWrites FramesExact TLBCoherent MatchesReference
PROPERTY ProgramsExit
