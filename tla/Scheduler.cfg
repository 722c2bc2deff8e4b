SPECIFICATION Spec
CONSTANTS
    main = main  t1 = t1  t2 = t2  t3 = t3
    Threads = {main, t1, t2, t3}
    Main = main
    NULL = NULL
    Policies = {0, 1, 2, 3}
    MaxThreadNum = 3
    timeSlice = 2
    QueueNum = 3
    threadArrTimeSlice <- MCTimeSlices
    Priorities = {1, 3}
    MainPriority = 3
    Uninitialized = {0, 3}
SYMMETRY Symmetry
INVARIANTS TypeOK ReadyExactlyOnce BlockListExact CarcassFreedNext SlotTable YieldIsPrompt QueueDiscipline
PROPERTY ImplementsDispatcher
CHECK_DEADLOCK FALSE
