SPECIFICATION Spec
CONSTANTS
    main = main  t1 = t1
    Threads = {main, t1}
    Main = main
    NULL = NULL
    Policies = {1}
    MaxThreadNum = 3
    timeSlice = 2
    QueueNum = 3
    threadArrTimeSlice <- MCTimeSlices
    Priorities = {1, 3}
    MainPriority = 3
    Uninitialized = {0, 1, 3}
INVARIANT ForkReturns
CHECK_DEADLOCK FALSE
