SPECIFICATION Spec
CONSTANTS
    t1 = t1  t2 = t2  t3 = t3
    Threads = {main, t1, t2, t3}
    Main = main
    NoThread = NoThread
    NoSem = NoSem
    Types = {3}
    isFull = isFull
    isEmpty = isEmpty
    produceArrayLock = produceArrayLock
    MAX_PRODUCE_ARRAY_NUM = 4
    producers <- One
    consumers <- TwoThree
    PRODUCE_TIMES = 4
    CONSUME_TIMES = 2
    TheLock = TheLock
    test <- OneTwoThree
    BARRIER_NUM = 3
    readers <- OneTwo
    writers <- Three
    wLock = wLock
    rwMutex = rwMutex
    Times = 2
    simple <- OneTwoThree
    Loops = 3
INVARIANT ConventionKept
