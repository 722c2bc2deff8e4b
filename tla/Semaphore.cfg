SPECIFICATION MCFairSpec
CONSTANTS
    main = main  t1 = t1  t2 = t2  t3 = t3
    s1 = s1  s2 = s2
    Threads = {main, t1, t2, t3}
    Main = main
    NoThread = NoThread
    Sems = {s1, s2}
    NoSem = NoSem
    InitialValue <- MCInitialValue
    Initial = 1
    MaxValue = 2
INVARIANTS TypeOK SleepersQueued NoLostWakeup
PROPERTY AvailableIsTaken
CHECK_DEADLOCK FALSE
