SPECIFICATION ComponentsSpec
CONSTANTS
    main = main  t1 = t1  t2 = t2
    Threads = {main, t1, t2}
    Main = main
    Contexts = {main, t1, t2}
    MainContext = main
    StackSize = 18
    NoThread = NoThread
    NoSem = NoSem
    TheLock = TheLock
    Sems <- MonitorSems
    InitialValue <- MonitorValue
    i1 = i1  i2 = i2
    Items = {i1, i2}
    NoItem = NoItem
    a = a  b = b  c = c  d = d
    ListItems = {a, b, c, d}
    ListKey <- MCListKey
    e1 = e1  e2 = e2  e3 = e3
    Elements = {e1, e2, e3}
    NULL = NULL
    u = u  v = v  w = w  x = x  y = y  z = z
    HashItems = {u, v, w, x, y, z}
    listTestVector <- MCListVector
    hashTestVector <- MCHashVector
    KeyOf <- MCKeyOf
    Hash <- MCHash
    InitialBuckets = 1
    ResizeRatio = 2
    IncreaseSizeBy = 2
    NumBits = 5
    BitsInWord = 4
SYMMETRY Symmetry
INVARIANTS ContextIsKept MutualExclusion WaiterSemaphores NoItemStranded SanityCheck
PROPERTIES ImplementsMesaMonitor ImplementsItemList ImplementsItemTable
CHECK_DEADLOCK FALSE
