SPECIFICATION FairSpec
CONSTANTS
    main = main  t1 = t1  t2 = t2
    Threads = {main, t1, t2}
    Main = main
    NULL = NULL
    Policies = {2}
    MaxThreadNum = 3
    timeSlice = 2
    QueueNum = 3
    threadArrTimeSlice <- MCTimeSlices
    Priorities = {3}
    MainPriority = 3
    Uninitialized = {0, 1, 3}
PROPERTY ReadyEventuallyRuns
