CONSTANTS
    t1 = t1
    t2 = t2
    t3 = t3
    f1 = f1
    f2 = f2
    NoThread = NoThread
    Absent = Absent
    Threads <- TwoThreads
    Media <- OneFile
    MaxRequests = 4
    Retries = 1
    GarbageForms = TRUE
SPECIFICATION FairSpec
INVARIANTS
    NamedMediaStored
PROPERTIES
    EveryRequestEnds
CHECK_DEADLOCK FALSE
