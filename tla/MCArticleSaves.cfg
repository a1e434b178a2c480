CONSTANTS
    t1 = t1
    t2 = t2
    t3 = t3
    f1 = f1
    f2 = f2
    NoThread = NoThread
    Absent = Absent
    Threads <- ThreeThreads
    Media <- OneFile
    MaxRequests = 4
    Retries = 1
    GarbageForms = FALSE
SYMMETRY Interchangeable
SPECIFICATION Spec
INVARIANTS
    HistoryComplete
    AckedSavesSurvive
PROPERTIES
    NoLostUpdate
    ImplementsLog
CHECK_DEADLOCK FALSE
