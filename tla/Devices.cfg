\* The three tests of the devices; ticks scaled so that every alignment occurs.
SPECIFICATION Spec

CONSTANTS
    SystemTick = 1
    TimerTicks = 2
    t1 = t1
    t2 = t2
    Clients <- MCClients
    Requests = 2
    SectorsPerTrack = 3
    NumTracks = 2
    RotationTime = 2
    SeekTime = 3
    a = a
    b = b
    Input <- MCInput
    EOF = EOF
    ConsoleTime = 2
    NetworkTime = 2
    MaxTries = 2

INVARIANTS NeverLate NoAssertionFails LatencyIsExact KeptInOrder AckMeansReceived

PROPERTY TestsFinish
