CONSTANTS
    t1 = t1
    t2 = t2
    u1 = u1
    u2 = u2
    Absent = Absent
    Sweeper = Sweeper
    Threads <- TwoThreads
    Uploads <- OneUpload
    Length = 2
    Retries = 1
    MaxRequests = 4
    MaxEdits = 1
    MaxFailures = 2
SPECIFICATION FairSpec
INVARIANTS
    PlacedWhole
    ToldOffsetsHold
    FreedOnlyWhenSaved
    ListedOnce
    InUseStands
PROPERTIES
    RepeatsSaveNothing
    AbandonedBytesFreed
CHECK_DEADLOCK FALSE
