\* Two directory entries, the second one split between two sectors.  Five
\* operations, of which a Write counts as two.
SPECIFICATION Spec

CONSTANTS
    a = a
    b = b
    b2 = b2
    c = c
    host1 = host1
    host2 = host2
    Names <- MCNames
    Stored <- MCStored
    Sizes <- MCSizes
    NumSectors = 10
    SectorSize = 3
    NumDirect = 2
    NumDirEntries = 2
    TransferSize = 3
    Junk = Junk
    NoFile = NoFile
    NoCopy = NoCopy
    Unwritten = Unwritten
    MaxOps = 5
    HostNames <- MCHostNames
    OpenFiles = {1, 2}
    Closed = Closed
    Missing = Missing
    MaxLength = 3
    MaxCalls = 6

SYMMETRY Symmetry

INVARIANTS DirectoryExact FilesIntact ReadsAreExact

\* The bound MaxCalls ends the calls of the host's files.
CHECK_DEADLOCK FALSE
